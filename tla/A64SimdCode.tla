---------------------------- MODULE A64SimdCode -----------------------------
(***************************************************************************)
(* Lifted vector instructions run beside the architecture, as in A64Code.  *)
(***************************************************************************)
EXTENDS A64Simd

CONSTANTS
  Insts,      \* the instructions of a block, as a function of their position
  Starts,     \* initial states, as records [gp, vec, mem, ip]
  MaxInsts    \* bound: instructions of a block

VARIABLES
  lifted,     \* the state of the lifted code
  arch,       \* the state of the architecture
  insts       \* instructions lifted so far

vars == <<lifted, arch, insts>>
-----------------------------------------------------------------------------
(* The architecture (external): the Arm manual says what element k of the  *)
(* result is, counted from 0, as a number.                                 *)

(* Element k of n bytes, unsigned, and as the instruction reads it.        *)
AE(a, r, n, k) == Num(SubSeq(a.vec[r], n * k + 1, n * (k + 1)))

AI(a, i, r, n, k) == IF i.sgn THEN Signed(AE(a, r, n, k), Width(n)) ELSE AE(a, r, n, k)

(* The register from cnt elements of n bytes; the others are cleared.      *)
AReg(n, cnt, elems) ==
  [b \in 1 .. 16 |-> LET k == (b - 1) \div n
                     IN IF k < cnt THEN Bits(elems[k] % 2^Width(n), Width(((b - 1) % n) + 1) - 1, Width((b - 1) % n)) ELSE 0]

ASetE(a, r, n, cnt, elems) == [a EXCEPT !.vec[r] = AReg(n, cnt, elems)]

ACount(i) == IF i.scalar THEN 1 ELSE NumElem(i.va)

(* A shift to the left by a negative amount is one to the right.           *)
AShift(x, u, by) == IF by >= 0 THEN u * 2^by ELSE x \div 2^(-by)

AMinMax(x, y, min) == IF (x < y) = min THEN x ELSE y

(* Bit operations, bit by bit.                                             *)
ABit(op, d, n, m) ==
  CASE op = "AND_VEC" -> n * m [] op \in {"BIC_VEC_REG"} -> n * (1 - m) [] op = "BIC_VEC_IMM" -> d * (1 - m)
    [] op = "BIF" -> (IF m = 0 THEN n ELSE d) [] op = "BIT" -> (IF m = 1 THEN n ELSE d)
    [] op = "BSL" -> (IF d = 1 THEN n ELSE m) [] op = "EOR_VEC" -> (n + m) % 2 [] op = "NOT_VEC" -> 1 - n
    [] op = "ORN_VEC" -> Flag(n = 1 \/ m = 0) [] op = "ORR_VEC_IMM" -> Flag(d = 1 \/ m = 1)
    [] op \in {"ORR_VEC_REG", "MOV_VEC"} -> Flag(n = 1 \/ m = 1)

ALogic(op, d, n, m, w) ==
  CASE op = "CNT" -> CtPop(n, w)
    [] op = "CLZ_VEC" -> Cardinality({b \in 0 .. (w - 1) : n < 2^(b)})
    [] op = "RBIT_VEC" -> Reversed(n, 1, w)
    [] OTHER -> LET v[b \in 0 .. w] == IF b = 0 THEN 0 ELSE v[b - 1] + 2^(b - 1) * ABit(op, Bit(d, b - 1), Bit(n, b - 1), Bit(m, b - 1))
                IN v[w]

ATest(op, x, y, fp, w) ==
  LET nan == fp /\ (NaN(x, w) \/ NaN(y, w))
      sx == IF fp THEN x ELSE Signed(x, w)
      sy == IF fp THEN y ELSE Signed(y, w)
  IN ~nan /\ CASE op \in {"FCMEQ_REG", "FCMEQ_ZERO", "CMEQ_REG", "CMEQ_ZERO"} -> x = y
               [] op \in {"FCMGE_REG", "FCMGE_ZERO", "CMGE_REG", "CMGE_ZERO"} -> sx >= sy
               [] op \in {"FCMGT_REG", "FCMGT_ZERO", "CMGT_REG", "CMGT_ZERO"} -> sx > sy
               [] op \in {"FCMLE_ZERO", "CMLE_ZERO"} -> sx <= sy [] op \in {"FCMLT_ZERO", "CMLT_ZERO"} -> sx < sy
               [] op = "CMHI_REG" -> x > y [] op = "CMHS_REG" -> x >= y
               [] op = "CMTST" -> \E b \in 0 .. (w - 1) : Bit(x, b) = 1 /\ Bit(y, b) = 1

ACompares == DOMAIN FpCompares \cup DOMAIN IntCompares \cup {"CMTST"}
AZeros == {"FCMEQ_ZERO", "FCMGE_ZERO", "FCMGT_ZERO", "FCMLE_ZERO", "FCMLT_ZERO", "CMEQ_ZERO", "CMGE_ZERO", "CMGT_ZERO",
           "CMLE_ZERO", "CMLT_ZERO"}

AFp(op, x, y, w) ==
  CASE op \in {"FADD_VEC", "FADDP", "FADDP_VEC"} -> FBin("FAdd", x, y, w) [] op = "FSUB_VEC" -> FBin("FSub", x, y, w)
    [] op = "FMUL_VEC" -> FBin("FMul", x, y, w) [] op = "FDIV_VEC" -> FBin("FDiv", x, y, w)
    [] op \in {"FMAX_VEC", "FMAXNM_VEC", "FMAXP_VEC", "FMAXNMP_VEC"} -> FMinMax("maxnum", x, y, w)
    [] op \in {"FMIN_VEC", "FMINNM_VEC", "FMINP_VEC", "FMINNMP_VEC"} -> FMinMax("minnum", x, y, w)

(* Element k, where operands and result have the same arrangement.         *)
ASame(a, i, k) ==
  LET n == ElemBytes(i.va)
      w == Width(n)
      ud == AE(a, i.rd, n, k)
      un == AE(a, i.rn, n, k)
      um == AE(a, i.rm, n, k)
      xn == AI(a, i, i.rn, n, k)
      xm == AI(a, i, i.rm, n, k)
      elem == AE(a, i.rm, n, i.imm)
      FScale(op, x) == IF i.fbits > 0 THEN FBin(op, x, FPow2(i.fbits, w), w) ELSE x
  IN CASE i.op = "ADD_VEC" -> un + um [] i.op = "SUB_VEC" -> un - um [] i.op = "NEG_VEC" -> -un
       [] i.op = "ABS_VEC" -> Abs(Signed(un, w)) [] i.op = "ABD" -> Abs(xn - xm) [] i.op = "ABA" -> ud + Abs(xn - xm)
       [] i.op = "HADD" -> (xn + xm + Flag(i.round)) \div 2 [] i.op = "HSUB" -> (xn - xm) \div 2
       [] i.op = "MAX_VEC" -> AMinMax(xn, xm, FALSE) [] i.op = "MIN_VEC" -> AMinMax(xn, xm, TRUE)
       [] i.op = "MUL_VEC" -> un * um [] i.op = "MLA_VEC" -> ud + un * um [] i.op = "MLS_VEC" -> ud - un * um
       [] i.op = "MUL_ELEM" -> un * elem [] i.op = "MLA_ELEM" -> ud + un * elem [] i.op = "MLS_ELEM" -> ud - un * elem
       [] i.op = "FMUL_ELEM" -> FBin("FMul", un, elem, w)
       [] i.op = "FMLA_ELEM" -> FBin("FAdd", ud, FBin("FMul", un, elem, w), w)
       [] i.op = "FMLS_ELEM" -> FBin("FSub", ud, FBin("FMul", un, elem, w), w)
       [] i.op = "FMLA_VEC" -> FBin("FAdd", ud, FBin("FMul", un, um, w), w)
       [] i.op = "FMLS_VEC" -> FBin("FSub", ud, FBin("FMul", un, um, w), w)
       [] i.op \in DOMAIN FpVec -> AFp(i.op, un, um, w) [] i.op = "FABD_VEC" -> FAbs(FBin("FSub", un, um, w), w)
       [] i.op = "FABS_VEC" -> FAbs(un, w) [] i.op = "FNEG_VEC" -> FNeg(un, w) [] i.op = "FSQRT_VEC" -> FSqrt(un, w)
       [] i.op \in {"FRINT_VEC", "FRINTX_VEC"} -> Round(un, i.rmode, i.op = "FRINTX_VEC", w)
       [] i.op = "FCVT_VEC" -> FCvt(FpType(SizeOf(i.va)), IntType(i), Round(FScale("FMul", un), i.rmode, FALSE, w), w)
       [] i.op = "CVTF_VEC" -> FScale("FDiv", FCvt(IntType(i), FpType(SizeOf(i.va)), un, w))
       [] i.op \in ACompares -> (IF ATest(i.op, un, IF i.op \in AZeros THEN 0 ELSE um, i.op \in DOMAIN FpCompares, w) THEN -1 ELSE 0)
       [] i.op \in Logic -> ALogic(i.op, ud, un, IF i.op \in {"BIC_VEC_IMM", "ORR_VEC_IMM"} THEN i.imm ELSE um, w)
       [] i.op = "SHL_IMM" -> un * 2^i.imm [] i.op = "SHR" -> xn \div 2^i.imm
       [] i.op = "SRA" -> ud + (xn + (IF i.round THEN 2^(i.imm - 1) ELSE 0)) \div 2^i.imm
       [] i.op = "SHL_REG" -> AShift(xn, un, Signed(um % 2^ByteBits, ByteBits))
       [] i.op = "DUP_ELEM" -> AE(a, i.rn, n, i.imm) [] i.op = "DUP_GPR" -> a.gp[i.rn]
       [] i.op \in {"FMOV_VEC", "MOVI"} -> i.imm

(* Element k of a permutation, from the pair of registers where two.       *)
APerm(a, i, k) ==
  LET n == ElemBytes(i.va)
      cnt == NumElem(i.va)
      P(j) == IF j < cnt THEN AE(a, i.rn, n, j) ELSE AE(a, i.rm, n, j - cnt)
      Zip(j) == IF k % 2 = 0 THEN P(j) ELSE P(cnt + j)
      run == RunOf[i.op] \div n
  IN CASE i.op = "EXT" -> P(k + i.imm) [] i.op = "UZP1" -> P(2 * k) [] i.op = "UZP2" -> P(2 * k + 1)
       [] i.op = "ZIP1" -> Zip(k \div 2) [] i.op = "ZIP2" -> Zip(cnt \div 2 + k \div 2)
       [] i.op \in DOMAIN RunOf -> P((k - (k % run)) + run - 1 - (k % run))
       [] i.op \in {"FADDP_VEC", "FMAXP_VEC", "FMAXNMP_VEC", "FMINP_VEC", "FMINNMP_VEC"} -> AFp(i.op, P(2 * k), P(2 * k + 1), Width(n))
       [] i.op = "ADDP_VEC" -> P(2 * k) + P(2 * k + 1)
       [] i.op \in {"MAXP", "MINP"} ->
            LET X(j) == IF i.sgn THEN Signed(P(j), Width(n)) ELSE P(j) IN AMinMax(X(2 * k), X(2 * k + 1), i.op = "MINP")
       [] i.op \in {"TBL", "TBX"} ->
            LET idx == AE(a, i.rm, 1, k) * IndexStep
            IN IF idx < 16 * i.imm THEN AE(a, RegAfter(i.rn, idx \div 16), 1, idx % 16)
               ELSE IF i.op = "TBX" THEN AE(a, i.rd, 1, k) ELSE 0

APerms == {"EXT", "TBL", "TBX"} \cup Permutes \cup DOMAIN RunOf \cup DOMAIN PairVec

(* Element k of twice the size; a full arrangement uses the upper half.    *)
ALong(a, i, k) ==
  LET n == ElemBytes(i.va)
      j == k + (IF i.va \in FullVAs THEN 8 \div n ELSE 0)
      xn == AI(a, i, i.rn, n, j)
      xm == AI(a, i, i.rm, n, j)
      elem == AI(a, i, i.rm, n, i.imm)
      wn == AE(a, i.rn, 2 * n, k)
      wd == AE(a, i.rd, 2 * n, k)
  IN CASE i.op = "ADDL" -> xn + xm [] i.op = "SUBL" -> xn - xm [] i.op = "ADDW" -> wn + xm [] i.op = "SUBW" -> wn - xm
       [] i.op = "ABDL" -> Abs(xn - xm) [] i.op = "ABAL" -> wd + Abs(xn - xm) [] i.op = "SHLL" -> xn * 2^i.imm
       [] i.op = "MULL_VEC" -> xn * xm [] i.op = "MLAL_VEC" -> wd + xn * xm [] i.op = "MLSL_VEC" -> wd - xn * xm
       [] i.op = "MULL_ELEM" -> xn * elem [] i.op = "MLAL_ELEM" -> wd + xn * elem [] i.op = "MLSL_ELEM" -> wd - xn * elem
       [] i.op = "FCVTL" -> FCvt("F32", "F64", AE(a, i.rn, n, j), W64)

ALongs == {"ADDL", "SUBL", "ADDW", "SUBW", "ABDL", "ABAL", "SHLL", "MULL_VEC", "MLAL_VEC", "MLSL_VEC", "MULL_ELEM", "MLAL_ELEM",
           "MLSL_ELEM", "FCVTL"}

(* Element k of half the size; a full arrangement keeps the lower half.    *)
ANarrow(a, i, k) ==
  LET n == ElemBytes(i.va)
      half == 8 \div n
      src == AE(a, i.rn, 2 * n, k % half)
  IN IF i.va \in FullVAs /\ k < half THEN AE(a, i.rd, n, k)
     ELSE CASE i.op = "XTN" -> src [] i.op = "SHRN" -> src \div 2^i.imm [] i.op = "FCVTN" -> FCvt("F64", "F32", src, W32)

(* Reductions: the sum, or the largest or smallest of the elements.        *)
AAcross(a, i) ==
  LET n == ElemBytes(i.va)
      last == NumElem(i.va) - 1
      fp == i.op \notin {"ADDV", "MAXV", "MINV"}
      X(k) == IF i.op \in {"MAXV", "MINV"} THEN AI(a, i, i.rn, n, k) ELSE AE(a, i.rn, n, k)
      ks == {k \in 0 .. last : ~fp \/ ~NaN(X(k), Width(n))}
      sum[k \in 0 .. last] == X(k) + (IF k = 0 THEN 0 ELSE sum[k - 1])
  IN CASE i.op = "ADDV" -> sum[last]
       [] fp /\ ks = {} -> -1
       [] i.op \in {"MAXV", "FMAXV", "FMAXNMV", "FMAXP", "FMAXNMP"} -> X(CHOOSE k \in ks : \A j \in ks : X(j) <= X(k))
       [] OTHER -> X(CHOOSE k \in ks : \A j \in ks : X(j) >= X(k))

(* Loads and stores: what register j's element k is in memory.             *)
AMemOp(a, i) ==
  LET n == ElemBytes(i.va)
      cnt == NumElem(i.va)
      Addr1(j, k) == (a.gp[i.rn] + n * (IF i.op \in {"LD1_MULT", "ST1_MULT"} THEN j * cnt + k ELSE k * i.nreg + j)) % MemSize
      Inc == IF i.rm = "zr" THEN i.offset ELSE a.gp[i.rm]
      Reg(j) == RegAfter(i.rt, j)
      InMem(addr) == LET v[b \in 0 .. n] == IF b = 0 THEN 0 ELSE v[b - 1] + a.mem[(addr + b - 1) % MemSize] * 2^Width(b - 1) IN v[n]
      Loaded1(r) == \E j \in 0 .. (i.nreg - 1) : Reg(j) = r
      Nth(r) == CHOOSE j \in 0 .. (i.nreg - 1) : Reg(j) = r
      vec == [r \in DOMAIN a.vec |->
                IF ~Loaded1(r) THEN a.vec[r]
                ELSE CASE i.op \in {"LD1_MULT", "LD2_MULT", "LD3_MULT", "LD4_MULT"} ->
                            AReg(n, cnt, [k \in 0 .. (cnt - 1) |-> InMem(Addr1(Nth(r), k))])
                       [] i.op = "LD_R" -> AReg(n, cnt, [k \in 0 .. (cnt - 1) |-> InMem(Addr1(Nth(r), 0))])
                       [] i.op = "LD_SINGLE" ->
                            AReg(n, 16 \div n, [k \in 0 .. (16 \div n - 1) |-> IF k = i.index THEN InMem(Addr1(Nth(r), 0)) ELSE AE(a, r, n, k)])
                       [] OTHER -> a.vec[r]]
      mem == [m \in DOMAIN a.mem |->
                LET at == (m - a.gp[i.rn]) % MemSize
                    e == at \div n
                    j == IF i.op = "ST1_MULT" THEN e \div cnt ELSE e % i.nreg
                    k == CASE i.op = "ST1_MULT" -> e % cnt [] i.op = "ST_SINGLE" -> i.index [] OTHER -> e \div i.nreg
                    total == i.nreg * (IF i.op = "ST_SINGLE" THEN 1 ELSE cnt)
                IN IF e < total THEN a.vec[Reg(j)][k * n + (at % n) + 1] ELSE a.mem[m]]
  IN [a EXCEPT !.vec = vec,
               !.mem = IF i.op \in {"ST1_MULT", "ST2_MULT", "ST3_MULT", "ST4_MULT", "ST_SINGLE"} THEN mem ELSE a.mem,
               !.gp = IF i.mode = "POST" THEN [a.gp EXCEPT ![i.rn] = (a.gp[i.rn] + Inc) % 2^W64] ELSE a.gp]

AData(a, i) ==
  LET n == ElemBytes(i.va)
      w == WidthOf(i.w32)
  IN CASE i.op \in Mults \cup Singles -> AMemOp(a, i)
       [] i.op \in APerms -> ASetE(a, i.rd, n, NumElem(i.va), [k \in 0 .. (NumElem(i.va) - 1) |-> APerm(a, i, k)])
       [] i.op \in ALongs -> ASetE(a, i.rd, 2 * n, 8 \div n, [k \in 0 .. (8 \div n - 1) |-> ALong(a, i, k)])
       [] i.op \in {"XTN", "SHRN", "FCVTN"} -> ASetE(a, i.rd, n, NumElem(i.va), [k \in 0 .. (NumElem(i.va) - 1) |-> ANarrow(a, i, k)])
       [] i.op \in {"ADDLP", "ADALP"} ->
            ASetE(a, i.rd, 2 * n, NumElem(i.va) \div 2, [k \in 0 .. (NumElem(i.va) \div 2 - 1) |->
              (IF i.op = "ADALP" THEN AE(a, i.rd, 2 * n, k) ELSE 0) + AI(a, i, i.rn, n, 2 * k) + AI(a, i, i.rn, n, 2 * k + 1)])
       [] i.op \in DOMAIN Reductions -> ASetE(a, i.rd, n, 1, [k \in {0} |-> AAcross(a, i)])
       [] i.op \in {"ADDP", "FADDP"} ->
            ASetE(a, i.rd, n, 1, [k \in {0} |-> IF i.op = "ADDP" THEN AE(a, i.rn, n, 0) + AE(a, i.rn, n, 1)
                                                ELSE AFp("FADDP", AE(a, i.rn, n, 0), AE(a, i.rn, n, 1), Width(n))])
       [] i.op \in {"INS_ELEM", "INS_GPR"} ->
            LET at == IF i.op = "INS_ELEM" THEN i.dst ELSE i.imm
                val == IF i.op = "INS_ELEM" THEN AE(a, i.rn, n, i.imm) ELSE a.gp[i.rn]
            IN ASetE(a, i.rd, n, 16 \div n, [k \in 0 .. (16 \div n - 1) |-> IF k = at THEN val ELSE AE(a, i.rd, n, k)])
       [] i.op \in {"SMOV", "UMOV"} ->
            [a EXCEPT !.gp[i.rd] = (IF i.op = "SMOV" THEN Signed(AE(a, i.rn, n, i.imm), Width(n)) ELSE AE(a, i.rn, n, i.imm)) % 2^w]
       [] OTHER -> ASetE(a, i.rd, n, ACount(i), [k \in 0 .. (ACount(i) - 1) |-> ASame(a, i, k)])

AStep(a, i) == IF Unhandled(i) THEN a ELSE [AData(a, i) EXCEPT !.ip = (a.ip + i.len) % 2^W64]

(* What the code is right about.  Shifting right by the width of an        *)
(* element, or by a register's amount of that size, is poison in LLVM.     *)
(* Comparisons of scalars are made on doublewords.  FMUL by an element     *)
(* turns a negative zero into a positive one.  FMAX and FMIN drop a NaN.   *)
ADefined(a, i) ==
  LET n == ElemBytes(i.va)
      w == Width(n)
      Ks == 0 .. (ACount(i) - 1)
  IN /\ i.op = "SHR" => i.imm < w
     /\ i.op = "SHL_REG" => \A k \in Ks : Abs(Signed(AE(a, i.rm, n, k) % 2^ByteBits, ByteBits)) < w
     /\ (i.op \in ACompares /\ i.scalar) => i.va = "1D"
     /\ (i.op = "FMUL_ELEM" /\ ~i.scalar) => \A k \in Ks : FBin("FMul", AE(a, i.rn, n, k), AE(a, i.rm, n, i.imm), w) # 2^(w - 1)
     /\ i.op \in {"FMAX_VEC", "FMIN_VEC", "FMAXP_VEC", "FMINP_VEC", "FMAXV", "FMINV", "FMAXP", "FMINP"} =>
          \A k \in Ks : ~NaN(AE(a, i.rn, n, k), w) /\ ~NaN(AE(a, i.rm, n, k), w)
-----------------------------------------------------------------------------
Init ==
  \E st \in Starts :
    /\ arch = st
    /\ lifted = [gp |-> [r \in DOMAIN st.gp |-> [NoFacets EXCEPT !["I64"] = st.gp[r]]],
                 vec |-> [r \in DOMAIN st.vec |-> [[f \in VecFacets |-> Absent] EXCEPT !["V2I64"] = st.vec[r]]],
                 mem |-> st.mem, ip |-> st.ip]
    /\ insts = 0

Execute(i) ==
  /\ ADefined(arch, i)
  /\ \E l \in {LiftVector(lifted, i)} : lifted' = l
  /\ arch' = AStep(arch, i)
  /\ insts' = insts + 1

Finished == insts = MaxInsts /\ UNCHANGED vars

Next ==
  \/ insts < MaxInsts /\ \E i \in Insts[insts + 1] : Execute(i)
  \/ Finished

Spec == Init /\ [][Next]_vars
-----------------------------------------------------------------------------
(* The lifted vector instructions do what the architecture says            *)
(* (a64/simd.cc): every lane of every register, with the lanes a half      *)
(* vector or a scalar clears, general registers, memory and instruction    *)
(* pointer are the architecture's, and every facet kept of a register      *)
(* agrees with it, whatever the instructions before left in the facets.    *)
SimdRight ==
  /\ GpValue(lifted) = arch.gp /\ lifted.mem = arch.mem /\ lifted.ip = arch.ip
  /\ \A r \in DOMAIN arch.vec : lifted.vec[r]["V2I64"] = arch.vec[r]
  /\ FacetsAgree(lifted)
=============================================================================
