------------------------------ MODULE A64Simd -------------------------------
(***************************************************************************)
(* The vector instructions of AArch64 (rellume/src/a64/simd.cc).  A value  *)
(* of a vector type is the sequence of its lanes.                          *)
(*                                                                         *)
(* An instruction has, besides the fields of A64's: va (the arrangement),  *)
(* scalar, round, index, dst, nreg, offset and bits.                       *)
(***************************************************************************)
EXTENDS A64

CONSTANTS
  VecNames,   \* the vector registers in order, 32 in the code
  IndexStep   \* what a step of a byte counts as a table index, 1 in the code

(* Vector arrangements: bytes of an element, and whether the register is   *)
(* full.                                                                   *)
FullVAs == {"16B", "8H", "4S", "2D"}

ElemBytes(va) ==
  CASE va \in {"8B", "16B"} -> 1 [] va \in {"4H", "8H"} -> 2 [] va \in {"2S", "4S"} -> 4 [] va \in {"1D", "2D"} -> 8

NumElem(va) == (IF va \in FullVAs THEN 16 ELSE 8) \div ElemBytes(va)

ElemWidth(va) == Width(ElemBytes(va))

FullVA(va) == CASE va = "8B" -> "16B" [] va = "4H" -> "8H" [] va = "2S" -> "4S" [] va = "1D" -> "2D" [] OTHER -> va

DoubleWidth(va) ==
  CASE va \in {"8B", "16B"} -> "8H" [] va \in {"4H", "8H"} -> "4S" [] va \in {"2S", "4S"} -> "2D"

FacetOf(va, fp) ==
  CASE va = "8B" -> "V8I8" [] va = "16B" -> "V16I8" [] va = "4H" -> "V4I16" [] va = "8H" -> "V8I16"
    [] va = "2S" -> (IF fp THEN "V2F32" ELSE "V2I32") [] va = "4S" -> (IF fp THEN "V4F32" ELSE "V4I32")
    [] va = "1D" -> (IF fp THEN "V1F64" ELSE "V1I64") [] va = "2D" -> (IF fp THEN "V2F64" ELSE "V2I64")

(* fad_size_from_vec_arrangement.                                          *)
SizeOf(va) == CASE ElemBytes(va) = 1 -> "B" [] ElemBytes(va) = 2 -> "H" [] ElemBytes(va) = 4 -> "S" [] OTHER -> "D"

(* The register k after r, with wrap around.                               *)
RegAfter(r, k) ==
  LET pos == CHOOSE p \in 1 .. Len(VecNames) : VecNames[p] = r IN VecNames[((pos - 1 + k) % Len(VecNames)) + 1]

(* Lanes of n bytes each.                                                  *)
Lanes(bytes, n) == [k \in 1 .. (Len(bytes) \div n) |-> Num(SubSeq(bytes, (k - 1) * n + 1, k * n))]

Packed(lanes, n) ==
  [k \in 1 .. (Len(lanes) * n) |->
     LET j == (k - 1) % n IN Bits(lanes[((k - 1) \div n) + 1], Width(j + 1) - 1, Width(j))]

Zeros(n) == [k \in 1 .. n |-> 0]

GetLanes(s, r, va, fp) == Lanes(GetVec(s, r, FacetOf(va, fp)), ElemBytes(va))

(* SetVec: the upper half is zeroed by a half vector.                      *)
SetLanes(s, r, va, fp, lanes) ==
  LET vec == Packed(lanes, ElemBytes(va))
      full == vec \o Zeros(16 - Len(vec))
  IN SetVecFacet(SetVecFacet(SetVec(s, r, full), r, FacetOf(FullVA(va), fp), full), r, FacetOf(va, fp), vec)

GetElem(s, r, va, i, fp) == GetLanes(s, r, FullVA(va), fp)[i + 1]

InsertElem(s, r, va, i, elem) == SetLanes(s, r, FullVA(va), FALSE, [GetLanes(s, r, FullVA(va), FALSE) EXCEPT ![i + 1] = elem])

Dup(s, r, va, fp, elem) == SetLanes(s, r, va, fp, [k \in 1 .. NumElem(va) |-> elem])

UpperHalf(va) == va \in {"4S", "8H", "16B"}

(* The lanes a long instruction uses: the upper half of a full vector.     *)
Halve(lanes, va) == IF UpperHalf(va) THEN SubSeq(lanes, NumElem(va) \div 2 + 1, NumElem(va)) ELSE lanes

InsertInHalf_low(s, rd, va, fp, narrow) == SetLanes(s, rd, va, fp, narrow \o Zeros(NumElem(va) - Len(narrow)))

(* A full arrangement inserts into the upper half and keeps the lower one. *)
InsertInHalf(s, rd, va, fp, narrow) ==
  IF UpperHalf(va) THEN SetLanes(s, rd, va, fp, SubSeq(GetLanes(s, rd, va, fp), 1, NumElem(va) \div 2) \o narrow)
                   ELSE SetLanes(s, rd, va, fp, narrow)

Narrow(lanes, va) == [k \in DOMAIN lanes |-> Trunc(lanes[k], ElemWidth(va))]

(* Both a scalar and a vector form: one lane or several.                   *)
GetOperand(s, i, r, fp) == IF i.scalar THEN <<GetScalar(s, r, SizeOf(i.va), fp)>> ELSE GetLanes(s, r, i.va, fp)

SetOperand(s, i, fp, lanes) ==
  IF i.scalar THEN SetScalar(s, i.rd, SizeOf(i.va), fp, lanes[1]) ELSE SetLanes(s, i.rd, i.va, fp, lanes)
-----------------------------------------------------------------------------
(* Shuffles.  External: LLVM's shufflevector.                              *)
ShuffleVector(a, b, mask) == [k \in DOMAIN mask |-> (a \o b)[mask[k] + 1]]

linear(n, a, t) == [i \in 1 .. n |-> a * (i - 1) + t]
even(n) == linear(n, 2, 0)
odd(n) == linear(n, 2, 1)

zipmask_lower(n) == [k \in 1 .. (2 * (n \div 2)) |-> (k - 1) \div 2 + (IF k % 2 = 1 THEN 0 ELSE n)]

zipmask_upper(n) == [k \in 1 .. (2 * (n \div 2)) |-> n \div 2 + (k - 1) \div 2 + (IF k % 2 = 1 THEN 0 ELSE n)]

reverse(n, m) == [k \in 1 .. (n * m) |-> ((k - 1) \div n) * n + (n - ((k - 1) % n) - 1)]
-----------------------------------------------------------------------------
(* Loads and stores of one to four registers.                              *)

(* SIMDLoadStoreAddr: the state after a post-increment, and the address.   *)
SIMDLoadStoreAddr(s, i) ==
  LET offset == IF i.rm = "zr" THEN i.offset ELSE GetGp(s, i.rm, FALSE)
  IN IF i.mode = "SIMPLE" THEN <<s, GetPtr(s, i.rn)>>
     ELSE <<SetGp(s, i.rn, FALSE, (GetGp(s, i.rn, FALSE) + offset) % 2^W64), GetPtr(s, i.rn)>>

LoadLanes(s, addr, va) == [k \in 1 .. NumElem(va) |-> Load(s, addr + (k - 1) * ElemBytes(va), ElemBytes(va))]

(* StoreMulti, all the lanes of its vectors in order.                      *)
StoreMulti(s, addr, lanes, n) ==
  [s EXCEPT !.mem = [x \in DOMAIN s.mem |->
     LET k == (x - addr) % MemSize
     IN IF k < n * Len(lanes) THEN Trunc(LShr(lanes[(k \div n) + 1], Width(k % n)), ByteBits) ELSE s.mem[x]]]

SetAll(s, i, vecs) ==
  LET t[k \in 0 .. Len(vecs)] == IF k = 0 THEN s ELSE SetLanes(t[k - 1], RegAfter(i.rt, k - 1), i.va, FALSE, vecs[k])
  IN t[Len(vecs)]

(* The vectors of i.nreg consecutive vectors of lanes from addr on, one    *)
(* after the other (LD1), or with every nreg-th lane (LD2, LD3, LD4).      *)
Loaded(s, i, addr) ==
  LET n == NumElem(i.va)
      p == [k \in 1 .. i.nreg |-> LoadLanes(s, addr + (k - 1) * n * ElemBytes(i.va), i.va)]
      abcd == [k \in 1 .. (i.nreg * n) |-> p[((k - 1) \div n) + 1][((k - 1) % n) + 1]]
  IN IF i.op = "LD1_MULT" THEN p
     ELSE [j \in 1 .. i.nreg |-> ShuffleVector(abcd, <<>>, linear(n, i.nreg, j - 1))]

(* ST2 zips x and y into two vectors.                                      *)
Zipped2(v, n) == ShuffleVector(v[1], v[2], zipmask_lower(n)) \o ShuffleVector(v[1], v[2], zipmask_upper(n))

(* ST3 zips x and y, then sprinkles in z.                                  *)
xymask(n) == [k \in 1 .. (2 * n) |-> (k - 1) \div 2 + (IF k % 2 = 1 THEN 0 ELSE n)]

Zipped3(v, n) ==
  ShuffleVector(ShuffleVector(v[1], v[2], xymask(n)), v[3] \o Zeros(n),
                [k \in 1 .. (3 * n) |-> LET i == (k - 1) \div 3 IN IF k % 3 = 0 THEN i + 2 * n ELSE 2 * i + ((k - 1) % 3)])

(* ST4 zips x and y as well as z and w, then these.                        *)
Zipped4(v, n) ==
  ShuffleVector(ShuffleVector(v[1], v[2], xymask(n)), ShuffleVector(v[3], v[4], xymask(n)),
                [k \in 1 .. (4 * n) |-> LET i == (k - 1) \div 4
                                            j == (k - 1) % 4
                                        IN IF j < 2 THEN 2 * i + j ELSE 2 * i + 2 * n + (j - 2)])

LiftMulti(s, i) ==
  LET at == SIMDLoadStoreAddr(s, i)
      n == NumElem(i.va)
      v == [k \in 1 .. i.nreg |-> GetLanes(at[1], RegAfter(i.rt, k - 1), i.va, FALSE)]
      StoreAll(lanes) == StoreMulti(at[1], at[2], lanes, ElemBytes(i.va))
  IN CASE i.op \in {"LD1_MULT", "LD2_MULT", "LD3_MULT", "LD4_MULT"} -> SetAll(at[1], i, Loaded(at[1], i, at[2]))
       [] i.op = "ST1_MULT" -> StoreAll([k \in 1 .. (i.nreg * n) |-> v[((k - 1) \div n) + 1][((k - 1) % n) + 1]])
       [] i.op = "ST2_MULT" -> StoreAll(Zipped2(v, n))
       [] i.op = "ST3_MULT" -> StoreAll(Zipped3(v, n))
       [] i.op = "ST4_MULT" -> StoreAll(Zipped4(v, n))

(* One element of each register (LDn_SINGLE, STn_SINGLE), or an element    *)
(* for all lanes of each (LDnR): n is i.nreg.                              *)
LiftSingle(s, i) ==
  LET at == SIMDLoadStoreAddr(s, i)
      n == ElemBytes(i.va)
      e == [k \in 1 .. i.nreg |-> Load(at[1], at[2] + (k - 1) * n, n)]
      t[k \in 0 .. i.nreg] ==
        IF k = 0 THEN at[1]
        ELSE IF i.op = "LD_SINGLE" THEN InsertElem(t[k - 1], RegAfter(i.rt, k - 1), i.va, i.index, e[k])
                                   ELSE Dup(t[k - 1], RegAfter(i.rt, k - 1), i.va, FALSE, e[k])
  IN IF i.op = "ST_SINGLE"
     THEN StoreMulti(at[1], at[2], [k \in 1 .. i.nreg |-> GetElem(s, RegAfter(i.rt, k - 1), i.va, i.index, FALSE)], n)
     ELSE t[i.nreg]
-----------------------------------------------------------------------------
(* Floating point.  Conversions work on scalars and on vectors.            *)
LiftFcvtVec(s, i) ==
  LET w == ElemWidth(i.va)
      fp == GetOperand(s, i, i.rn, TRUE)
      Scaled(x) == IF i.fbits > 0 THEN FBin("FMul", x, FPow2(i.fbits, w), w) ELSE x
  IN SetOperand(s, i, FALSE, [k \in DOMAIN fp |->
       FCvt(FpType(SizeOf(i.va)), IntType(i), Round(Scaled(fp[k]), i.rmode, FALSE, w), w)])

LiftCvtfVec(s, i) ==
  LET w == ElemWidth(i.va)
      ival == GetOperand(s, i, i.rn, FALSE)
      Unscaled(x) == IF i.fbits > 0 THEN FBin("FDiv", x, FPow2(i.fbits, w), w) ELSE x
  IN SetOperand(s, i, TRUE, [k \in DOMAIN ival |-> Unscaled(FCvt(IntType(i), FpType(SizeOf(i.va)), ival[k], w))])

LiftFcvtn(s, i) ==
  LET vn == GetLanes(s, i.rn, DoubleWidth(i.va), TRUE)
  IN InsertInHalf(s, i.rd, i.va, TRUE, [k \in DOMAIN vn |-> FCvt("F64", "F32", vn[k], W32)])

LiftFcvtl(s, i) ==
  LET vn_half == Halve(GetLanes(s, i.rn, i.va, TRUE), i.va)
  IN SetLanes(s, i.rd, DoubleWidth(i.va), TRUE, [k \in DOMAIN vn_half |-> FCvt("F32", "F64", vn_half[k], W64)])

(* Comparisons: the predicate, and whether Rn is compared with zero.       *)
FpCompares ==
  [FCMEQ_REG |-> <<"OEQ", FALSE>>, FCMEQ_ZERO |-> <<"OEQ", TRUE>>, FCMGE_REG |-> <<"OGE", FALSE>>,
   FCMGE_ZERO |-> <<"OGE", TRUE>>, FCMGT_REG |-> <<"OGT", FALSE>>, FCMGT_ZERO |-> <<"OGT", TRUE>>,
   FCMLE_ZERO |-> <<"OLE", TRUE>>, FCMLT_ZERO |-> <<"OLT", TRUE>>]

IntCompares ==
  [CMEQ_REG |-> <<"EQ", FALSE>>, CMEQ_ZERO |-> <<"EQ", TRUE>>, CMGE_REG |-> <<"SGE", FALSE>>,
   CMGE_ZERO |-> <<"SGE", TRUE>>, CMGT_REG |-> <<"SGT", FALSE>>, CMGT_ZERO |-> <<"SGT", TRUE>>,
   CMHI_REG |-> <<"UGT", FALSE>>, CMHS_REG |-> <<"UGE", FALSE>>, CMLE_ZERO |-> <<"SLE", TRUE>>,
   CMLT_ZERO |-> <<"SLT", TRUE>>]

(* External: LLVM's icmp.                                                  *)
ICmp(pred, x, y, w) ==
  CASE pred = "EQ" -> x = y [] pred = "UGT" -> x > y [] pred = "UGE" -> x >= y
    [] pred = "SGE" -> ~SLT(x, y, w) [] pred = "SGT" -> SLT(y, x, w)
    [] pred = "SLE" -> ~SLT(y, x, w) [] pred = "SLT" -> SLT(x, y, w)

AllOnes(b, w) == IF b THEN 2^w - 1 ELSE 0

(* LiftCmXX, and LiftScalarCmXX, whose operands are doublewords.           *)
LiftCmXX(s, i, cmp, zero, fp) ==
  LET w == IF i.scalar THEN W64 ELSE ElemWidth(i.va)
      Get(r) == IF i.scalar THEN <<GetScalar(s, r, "D", fp)>> ELSE GetLanes(s, r, i.va, fp)
      lhs == Get(i.rn)
      rhs == IF zero THEN Zeros(Len(lhs)) ELSE Get(i.rm)
      val == [k \in DOMAIN lhs |->
                AllOnes(IF fp THEN FCmp(cmp, lhs[k], rhs[k], w) ELSE ICmp(cmp, lhs[k], rhs[k], w), w)]
  IN IF i.scalar THEN SetScalar(s, i.rd, "D", FALSE, val[1]) ELSE SetLanes(s, i.rd, i.va, FALSE, val)

LiftCmtst(s, i) ==
  LET lhs == IF i.scalar THEN <<GetScalar(s, i.rn, "D", FALSE)>> ELSE GetLanes(s, i.rn, i.va, FALSE)
      rhs == IF i.scalar THEN <<GetScalar(s, i.rm, "D", FALSE)>> ELSE GetLanes(s, i.rm, i.va, FALSE)
      w == IF i.scalar THEN W64 ELSE ElemWidth(i.va)
      val == [k \in DOMAIN lhs |-> AllOnes(lhs[k] & rhs[k] # 0, w)]
  IN IF i.scalar THEN SetScalar(s, i.rd, "D", FALSE, val[1]) ELSE SetLanes(s, i.rd, i.va, FALSE, val)

(* Lane by lane, from one operand.                                         *)
FpUnary == {"FRINT_VEC", "FRINTX_VEC", "FABS_VEC", "FNEG_VEC", "FSQRT_VEC"}

LiftFpUnary(s, i) ==
  LET w == ElemWidth(i.va)
      vn == GetLanes(s, i.rn, i.va, TRUE)
      Op(x) == CASE i.op \in {"FRINT_VEC", "FRINTX_VEC"} -> Round(x, i.rmode, i.op = "FRINTX_VEC", w)
                 [] i.op = "FABS_VEC" -> FAbs(x, w) [] i.op = "FNEG_VEC" -> FNeg(x, w) [] i.op = "FSQRT_VEC" -> FSqrt(x, w)
  IN SetLanes(s, i.rd, i.va, TRUE, [k \in DOMAIN vn |-> Op(vn[k])])

LiftFabd(s, i) ==
  LET w == ElemWidth(i.va)
      lhs == GetOperand(s, i, i.rn, TRUE)
      rhs == GetOperand(s, i, i.rm, TRUE)
  IN SetOperand(s, i, TRUE, [k \in DOMAIN lhs |-> FAbs(FBin("FSub", lhs[k], rhs[k], w), w)])

FpVec == [FMUL_VEC |-> "FMul", FDIV_VEC |-> "FDiv", FADD_VEC |-> "FAdd", FSUB_VEC |-> "FSub",
          FMAX_VEC |-> "maxnum", FMAXNM_VEC |-> "maxnum", FMIN_VEC |-> "minnum", FMINNM_VEC |-> "minnum"]

(* LiftThreeSame and LiftIntrinsicFPVec for floating point.                *)
FpOp(op, x, y, w) == IF op \in {"maxnum", "minnum"} THEN FMinMax(op, x, y, w) ELSE FBin(op, x, y, w)

LiftFpVec(s, i) ==
  LET lhs == GetLanes(s, i.rn, i.va, TRUE)
      rhs == GetLanes(s, i.rm, i.va, TRUE)
  IN SetLanes(s, i.rd, i.va, TRUE, [k \in DOMAIN lhs |-> FpOp(FpVec[i.op], lhs[k], rhs[k], ElemWidth(i.va))])
-----------------------------------------------------------------------------
(* Bits.                                                                   *)
Logic == {"AND_VEC", "BIC_VEC_IMM", "BIC_VEC_REG", "BIF", "BIT", "BSL", "CLZ_VEC", "CNT", "EOR_VEC", "NOT_VEC", "ORN_VEC",
          "ORR_VEC_IMM", "MOV_VEC", "ORR_VEC_REG", "RBIT_VEC"}

(* "Bit Select".                                                           *)
BSL(d, n, m) == m ^^ ((m ^^ n) & d)

LogicOp(op, d, n, m, imm, w) ==
  CASE op = "AND_VEC" -> n & m
    [] op = "BIC_VEC_IMM" -> d & NotW(Trunc(imm, w), w)
    [] op = "BIC_VEC_REG" -> n & NotW(m, w)
    [] op = "BIF" -> d ^^ ((d ^^ n) & NotW(m, w))
    [] op = "BIT" -> d ^^ ((d ^^ n) & m)
    [] op = "BSL" -> BSL(d, n, m)
    [] op = "CLZ_VEC" -> CtLz(n, w)
    [] op = "CNT" -> CtPop(n, w)
    [] op = "EOR_VEC" -> n ^^ m
    [] op = "NOT_VEC" -> NotW(n, w)
    [] op = "ORN_VEC" -> n | NotW(m, w)
    [] op = "ORR_VEC_IMM" -> d | Trunc(imm, w)
    [] op \in {"MOV_VEC", "ORR_VEC_REG"} -> n | m
    [] op = "RBIT_VEC" -> Reversed(n, 1, w)

LiftLogic(s, i) ==
  LET d == GetLanes(s, i.rd, i.va, FALSE)
      n == GetLanes(s, i.rn, i.va, FALSE)
      m == GetLanes(s, i.rm, i.va, FALSE)
      w == ElemWidth(i.va)
  IN SetLanes(s, i.rd, i.va, FALSE, [k \in DOMAIN n |-> Trunc(LogicOp(i.op, d[k], n[k], m[k], i.imm, w), w)])

(* Runs of elements that make up 2, 4 and 8 bytes.                         *)
RunOf == [REV16_VEC |-> 2, REV32_VEC |-> 4, REV64_VEC |-> 8]

LiftRev(s, i) ==
  LET run == RunOf[i.op] \div ElemBytes(i.va)
      vn == GetLanes(s, i.rn, i.va, FALSE)
  IN SetLanes(s, i.rd, i.va, FALSE, ShuffleVector(vn, <<>>, reverse(run, NumElem(i.va) \div run)))
-----------------------------------------------------------------------------
(* Shifts.                                                                 *)
LiftShlImm(s, i) ==
  LET lhs == GetOperand(s, i, i.rn, FALSE) IN SetOperand(s, i, FALSE, [k \in DOMAIN lhs |-> Shl(lhs[k], i.imm, ElemWidth(i.va))])

ShiftRight(sgn, x, n, w) == IF sgn THEN AShr(x, n, w) ELSE LShr(x, n)

(* The lowest byte of an element of Rm counts to the left, if negative to  *)
(* the right.                                                              *)
LiftShlReg(s, i) ==
  LET w == IF i.scalar THEN W64 ELSE ElemWidth(i.va)
      lhs == IF i.scalar THEN <<GetScalar(s, i.rn, "D", FALSE)>> ELSE GetLanes(s, i.rn, i.va, FALSE)
      rhs == IF i.scalar THEN <<GetScalar(s, i.rm, "B", FALSE)>> ELSE GetLanes(s, i.rm, i.va, FALSE)
      By(k) == Signed(Trunc(rhs[k], ByteBits), ByteBits)
      res == [k \in DOMAIN lhs |-> IF By(k) >= 0 THEN Shl(lhs[k], By(k), w) ELSE ShiftRight(i.sgn, lhs[k], -By(k), w)]
  IN IF i.scalar THEN SetScalar(s, i.rd, "D", FALSE, res[1]) ELSE SetLanes(s, i.rd, i.va, FALSE, res)

(* Sign or zero extension of lanes of va to double width.                  *)
Widened(lanes, va, sgn) ==
  [k \in DOMAIN lanes |-> IF sgn THEN SExt(lanes[k], ElemWidth(va), 2 * ElemWidth(va)) ELSE lanes[k]]

LiftShll(s, i) ==
  LET lhs == Widened(Halve(GetLanes(s, i.rn, i.va, FALSE), i.va), i.va, i.sgn)
  IN SetLanes(s, i.rd, DoubleWidth(i.va), FALSE, [k \in DOMAIN lhs |-> Shl(lhs[k], i.imm, 2 * ElemWidth(i.va))])

LiftShr(s, i) ==
  LET lhs == GetOperand(s, i, i.rn, FALSE)
  IN SetOperand(s, i, FALSE, [k \in DOMAIN lhs |-> ShiftRight(i.sgn, lhs[k], i.imm, ElemWidth(i.va))])

LiftShrn(s, i) ==
  LET lhs == GetLanes(s, i.rn, DoubleWidth(i.va), FALSE)
  IN InsertInHalf(s, i.rd, i.va, FALSE, Narrow([k \in DOMAIN lhs |-> LShr(lhs[k], i.imm)], i.va))

(* With rounding the elements are widened first, as the constant added may *)
(* overflow them.  Shifting out all bits leaves signs or zeros.            *)
LiftSra(s, i) ==
  LET va == IF i.scalar THEN "1D" ELSE i.va
      w == ElemWidth(va)
      acc == GetLanes(s, i.rd, va, FALSE)
      plain == GetLanes(s, i.rn, va, FALSE)
      bits == IF i.round THEN 2 * w ELSE w
      lhs == IF i.round
             THEN [k \in DOMAIN plain |-> (Widened(plain, va, i.sgn)[k] + 2^(i.imm - 1)) % 2^bits]
             ELSE plain
      Shifted(x) == IF i.imm >= bits THEN (IF i.sgn THEN AShr(x, bits - 1, bits) ELSE 0)
                                     ELSE ShiftRight(i.sgn, x, i.imm, bits)
  IN SetLanes(s, i.rd, va, FALSE, [k \in DOMAIN acc |-> (acc[k] + Trunc(Shifted(lhs[k]), w)) % 2^w])
-----------------------------------------------------------------------------
(* Moves, tables and permutations.                                         *)
Moves == {"DUP_ELEM", "DUP_GPR", "EXT", "INS_ELEM", "INS_GPR", "FMOV_VEC", "MOVI", "SMOV", "UMOV"}

LiftMove(s, i) ==
  LET w == ElemWidth(i.va)
      elem == GetElem(s, i.rn, i.va, i.imm, FALSE)
      low == Trunc(GetGp(s, i.rn, i.w32), w)
  IN CASE i.op = "DUP_ELEM" ->
            IF i.scalar THEN SetScalar(s, i.rd, SizeOf(i.va), FALSE, elem) ELSE Dup(s, i.rd, i.va, FALSE, elem)
       [] i.op = "DUP_GPR" -> Dup(s, i.rd, i.va, FALSE, low)
       [] i.op = "EXT" -> SetLanes(s, i.rd, i.va, FALSE,
                                   ShuffleVector(GetLanes(s, i.rn, i.va, FALSE), GetLanes(s, i.rm, i.va, FALSE),
                                                 linear(NumElem(i.va), 1, i.imm)))
       [] i.op = "INS_ELEM" -> InsertElem(s, i.rd, i.va, i.dst, elem)
       [] i.op = "INS_GPR" -> InsertElem(s, i.rd, i.va, i.imm, low)
       [] i.op = "FMOV_VEC" -> Dup(s, i.rd, i.va, TRUE, Trunc(i.imm, w))
       [] i.op = "MOVI" -> IF i.scalar THEN SetScalar(s, i.rd, "D", FALSE, Trunc(i.imm, W64))
                                       ELSE Dup(s, i.rd, i.va, FALSE, Trunc(i.imm, w))
       [] i.op = "SMOV" -> SetGp(s, i.rd, i.w32, SExt(elem, w, WidthOf(i.w32)))
       [] i.op = "UMOV" -> SetGp(s, i.rd, i.w32, elem)

(* TBL and TBX: i.imm registers from Rn on are the table.                  *)
LiftTbl(s, i) ==
  LET table == [k \in 1 .. (i.imm * 16) |-> GetLanes(s, RegAfter(i.rn, (k - 1) \div 16), "16B", FALSE)[((k - 1) % 16) + 1]]
      idxvec == GetLanes(s, i.rm, i.va, FALSE)
      oldvec == GetLanes(s, i.rd, i.va, FALSE)
      nentries == i.imm * 16
      Entry(k) == LET idx == idxvec[k] * IndexStep
                  IN IF idx >= nentries THEN (IF i.op = "TBX" THEN oldvec[k] ELSE 0) ELSE table[idx + 1]
  IN SetLanes(s, i.rd, i.va, FALSE, [k \in DOMAIN idxvec |-> Entry(k)])

Permutes == {"UZP1", "UZP2", "ZIP1", "ZIP2"}

LiftPermute(s, i) ==
  LET n == NumElem(i.va)
      mask == CASE i.op = "UZP1" -> even(n) [] i.op = "UZP2" -> odd(n) [] i.op = "ZIP1" -> zipmask_lower(n)
                [] i.op = "ZIP2" -> zipmask_upper(n)
  IN SetLanes(s, i.rd, i.va, FALSE, ShuffleVector(GetLanes(s, i.rn, i.va, FALSE), GetLanes(s, i.rm, i.va, FALSE), mask))

LiftXtn(s, i) == InsertInHalf(s, i.rd, i.va, FALSE, Narrow(GetLanes(s, i.rn, DoubleWidth(i.va), FALSE), i.va))
-----------------------------------------------------------------------------
(* Integer arithmetic.                                                     *)
MinMax(lhs, rhs, sgn, min, w) ==
  LET less == IF sgn THEN SLT(lhs, rhs, w) ELSE lhs < rhs
      more == IF sgn THEN SLT(rhs, lhs, w) ELSE lhs > rhs
  IN IF (IF min THEN less ELSE more) THEN lhs ELSE rhs

(* |v|, on w bits.                                                         *)
AbsLane(v, w) == IF SLT(v, 0, w) THEN Neg(v, w) ELSE v

AbsNeg == {"ABS_VEC", "NEG_VEC"}

LiftAbsNeg(s, i) ==
  LET w == ElemWidth(i.va)
      vn == GetOperand(s, i, i.rn, FALSE)
  IN SetOperand(s, i, FALSE, [k \in DOMAIN vn |-> IF i.op = "ABS_VEC" THEN AbsLane(vn[k], w) ELSE Neg(vn[k], w)])

(* Absolute differences, of widened elements.                              *)
LiftAbd(s, i) ==
  LET w == ElemWidth(i.va)
      acc == IF i.op = "ABA" THEN GetLanes(s, i.rd, i.va, FALSE) ELSE Zeros(NumElem(i.va))
      lhs == Widened(GetLanes(s, i.rn, i.va, FALSE), i.va, i.sgn)
      rhs == Widened(GetLanes(s, i.rm, i.va, FALSE), i.va, i.sgn)
  IN SetLanes(s, i.rd, i.va, FALSE, [k \in DOMAIN acc |->
       (acc[k] + Trunc(AbsLane((lhs[k] - rhs[k]) % 2^(2 * w), 2 * w), w)) % 2^w])

LiftAbdl(s, i) ==
  LET w == 2 * ElemWidth(i.va)
      dst == DoubleWidth(i.va)
      acc == IF i.op = "ABAL" THEN GetLanes(s, i.rd, dst, FALSE) ELSE Zeros(NumElem(dst))
      lhs == Widened(Halve(GetLanes(s, i.rn, i.va, FALSE), i.va), i.va, i.sgn)
      rhs == Widened(Halve(GetLanes(s, i.rm, i.va, FALSE), i.va), i.va, i.sgn)
  IN SetLanes(s, i.rd, dst, FALSE, [k \in DOMAIN acc |-> (acc[k] + AbsLane((lhs[k] - rhs[k]) % 2^w, w)) % 2^w])

AddSubs == [ADD_VEC |-> "Add", ADDL |-> "Add", ADDW |-> "Add", SUB_VEC |-> "Sub", SUBL |-> "Sub", SUBW |-> "Sub"]

(* Plain, long (both operands widened) and wide (the right one).           *)
LiftAddSub(s, i) ==
  LET long == i.op \in {"ADDL", "SUBL"}
      wide == i.op \in {"ADDW", "SUBW"}
      Half(r) == Widened(Halve(GetLanes(s, r, i.va, FALSE), i.va), i.va, i.sgn)
      lhs == CASE long -> Half(i.rn) [] wide -> GetLanes(s, i.rn, DoubleWidth(i.va), FALSE)
               [] OTHER -> GetOperand(s, i, i.rn, FALSE)
      rhs == IF long \/ wide THEN Half(i.rm) ELSE GetOperand(s, i, i.rm, FALSE)
      w == IF long \/ wide THEN 2 * ElemWidth(i.va) ELSE ElemWidth(i.va)
      val == [k \in DOMAIN lhs |-> BinOp(AddSubs[i.op], lhs[k], rhs[k], w)]
  IN IF long \/ wide THEN SetLanes(s, i.rd, DoubleWidth(i.va), FALSE, val) ELSE SetOperand(s, i, FALSE, val)

(* "Need to extend to enough precision".                                   *)
LiftHalving(s, i) ==
  LET w == ElemWidth(i.va)
      lhs == Widened(GetLanes(s, i.rn, i.va, FALSE), i.va, i.sgn)
      rhs == Widened(GetLanes(s, i.rm, i.va, FALSE), i.va, i.sgn)
      Sum(k) == IF i.op = "HADD" THEN lhs[k] + rhs[k] + Flag(i.round) ELSE lhs[k] - rhs[k]
  IN SetLanes(s, i.rd, i.va, FALSE, [k \in DOMAIN lhs |-> Trunc(ShiftRight(i.sgn, Sum(k) % 2^(2 * w), 1, 2 * w), w)])

LiftMinMax(s, i) ==
  LET lhs == GetLanes(s, i.rn, i.va, FALSE)
      rhs == GetLanes(s, i.rm, i.va, FALSE)
  IN SetLanes(s, i.rd, i.va, FALSE, [k \in DOMAIN lhs |-> MinMax(lhs[k], rhs[k], i.sgn, i.op = "MIN_VEC", ElemWidth(i.va))])
-----------------------------------------------------------------------------
(* Multiply-accumulate: add or subtract, whether Rd is the accumulator,    *)
(* whether the operands are widened, floating point.                       *)
Muls ==
  [MUL |-> <<"Add", FALSE, FALSE, FALSE>>, MULL |-> <<"Add", FALSE, TRUE, FALSE>>, MLA |-> <<"Add", TRUE, FALSE, FALSE>>,
   MLS |-> <<"Sub", TRUE, FALSE, FALSE>>, MLAL |-> <<"Add", TRUE, TRUE, FALSE>>, MLSL |-> <<"Sub", TRUE, TRUE, FALSE>>,
   FMUL |-> <<"FAdd", FALSE, FALSE, TRUE>>, FMLA |-> <<"FAdd", TRUE, FALSE, TRUE>>, FMLS |-> <<"FSub", TRUE, FALSE, TRUE>>]

MulVec == [MUL_VEC |-> "MUL", MULL_VEC |-> "MULL", MLA_VEC |-> "MLA", MLS_VEC |-> "MLS", MLAL_VEC |-> "MLAL",
           MLSL_VEC |-> "MLSL", FMLA_VEC |-> "FMLA", FMLS_VEC |-> "FMLS"]

MulElem == [MUL_ELEM |-> "MUL", MULL_ELEM |-> "MULL", MLA_ELEM |-> "MLA", MLS_ELEM |-> "MLS", MLAL_ELEM |-> "MLAL",
            MLSL_ELEM |-> "MLSL", FMUL_ELEM |-> "FMUL", FMLA_ELEM |-> "FMLA", FMLS_ELEM |-> "FMLS"]

Product(x, y, w) == (Signed(x, w) * Signed(y, w)) % 2^w

(* acc +/- lhs * rhs, lane by lane.                                        *)
MulAcc(addsub, acc, lhs, rhs, fp, w) ==
  [k \in DOMAIN lhs |-> IF fp THEN FBin(addsub, acc[k], FBin("FMul", lhs[k], rhs[k], w), w)
                              ELSE BinOp(addsub, acc[k], Product(lhs[k], rhs[k], w), w)]

(* LiftMulAcc and, with the same element in all lanes, LiftMulAccElem.     *)
LiftMulAcc(s, i, kind, by_elem) ==
  LET extend_long == Muls[kind][3]
      fp == Muls[kind][4]
      dst == IF extend_long THEN DoubleWidth(i.va) ELSE i.va
      acc == IF Muls[kind][2] THEN GetLanes(s, i.rd, dst, fp) ELSE Zeros(NumElem(dst))
      elemsplat == [k \in 1 .. NumElem(dst) |-> GetElem(s, i.rm, i.va, i.imm, fp)]
      vn == GetLanes(s, i.rn, i.va, fp)
      vm == GetLanes(s, i.rm, i.va, fp)
      lhs == IF extend_long THEN Widened(Halve(vn, i.va), i.va, i.sgn) ELSE vn
      rhs == CASE by_elem -> (IF extend_long THEN Widened(elemsplat, i.va, i.sgn) ELSE elemsplat)
               [] ~by_elem /\ extend_long -> Widened(Halve(vm, i.va), i.va, i.sgn)
               [] OTHER -> vm
  IN SetLanes(s, i.rd, dst, fp, MulAcc(Muls[kind][1], acc, lhs, rhs, fp, ElemWidth(dst)))

(* FMUL, FMLA and FMLS of scalars by an element.                           *)
LiftScalarMulElem(s, i) ==
  LET fsz == SizeOf(i.va)
      w == ElemWidth(i.va)
      mul == FBin("FMul", GetScalar(s, i.rn, fsz, TRUE), GetElem(s, i.rm, i.va, i.imm, TRUE), w)
  IN SetScalar(s, i.rd, fsz, TRUE,
               IF i.op = "FMUL_ELEM" THEN mul ELSE FBin(Muls[MulElem[i.op]][1], GetScalar(s, i.rd, fsz, TRUE), mul, w))
-----------------------------------------------------------------------------
(* Pairs and reductions.                                                   *)
PairVec == [FADDP_VEC |-> "FAdd", ADDP_VEC |-> "Add", MAXP |-> "max", FMAXP_VEC |-> "maxnum", FMAXNMP_VEC |-> "maxnum",
            MINP |-> "min", FMINP_VEC |-> "minnum", FMINNMP_VEC |-> "minnum"]

PairOp(op, x, y, sgn, w) ==
  CASE op = "Add" -> (x + y) % 2^w
    [] op \in {"max", "min"} -> MinMax(x, y, sgn, op = "min", w)
    [] OTHER -> FpOp(op, x, y, w)

(* TransformSIMDPairwise: the even elements of Vm:Vn with the odd ones.    *)
LiftPairwise(s, i) ==
  LET op == PairVec[i.op]
      fp == op \in {"FAdd", "maxnum", "minnum"}
      vn == GetLanes(s, i.rn, i.va, fp)
      vm == GetLanes(s, i.rm, i.va, fp)
      lhs == ShuffleVector(vn, vm, even(NumElem(i.va)))
      rhs == ShuffleVector(vn, vm, odd(NumElem(i.va)))
  IN SetLanes(s, i.rd, i.va, fp, [k \in DOMAIN lhs |-> PairOp(op, lhs[k], rhs[k], i.sgn, ElemWidth(i.va))])

(* FADDP and ADDP of one register add its two elements.                    *)
LiftAddp(s, i) ==
  LET fp == i.op = "FADDP"
      va == IF fp THEN i.va ELSE "2D"
      v == GetLanes(s, i.rn, va, fp)
  IN SetScalar(s, i.rd, SizeOf(va), fp, PairOp(IF fp THEN "FAdd" ELSE "Add", v[1], v[2], FALSE, ElemWidth(va)))

(* ADDLP and ADALP: neighbours are widened and added.                      *)
LiftAddlp(s, i) ==
  LET dst == CASE i.va = "8B" -> "4H" [] i.va = "16B" -> "8H" [] i.va = "4H" -> "2S" [] i.va = "8H" -> "4S"
               [] i.va = "2S" -> "1D" [] i.va = "4S" -> "2D"
      acc == IF i.op = "ADALP" THEN GetLanes(s, i.rd, dst, FALSE) ELSE Zeros(NumElem(dst))
      vn == GetLanes(s, i.rn, i.va, FALSE)
      lhs == Widened(ShuffleVector(vn, <<>>, even(NumElem(dst))), i.va, i.sgn)
      rhs == Widened(ShuffleVector(vn, <<>>, odd(NumElem(dst))), i.va, i.sgn)
  IN SetLanes(s, i.rd, dst, FALSE, [k \in DOMAIN acc |-> (acc[k] + lhs[k] + rhs[k]) % 2^ElemWidth(dst)])

Reductions == [ADDV |-> "Add", FMAXV |-> "maxnum", FMAXNMV |-> "maxnum", FMAXP |-> "maxnum", FMAXNMP |-> "maxnum",
               MAXV |-> "max", FMINV |-> "minnum", FMINNMV |-> "minnum", FMINP |-> "minnum", FMINNMP |-> "minnum",
               MINV |-> "min"]

LiftReduce(s, i) ==
  LET op == Reductions[i.op]
      fp == op \in {"maxnum", "minnum"}
      v == GetLanes(s, i.rn, i.va, fp)
      r[k \in 1 .. Len(v)] == IF k = 1 THEN v[1] ELSE PairOp(op, r[k - 1], v[k], i.sgn, ElemWidth(i.va))
  IN SetScalar(s, i.rd, SizeOf(i.va), fp, r[Len(v)])
-----------------------------------------------------------------------------
Mults == {"LD1_MULT", "LD2_MULT", "LD3_MULT", "LD4_MULT", "ST1_MULT", "ST2_MULT", "ST3_MULT", "ST4_MULT"}
Singles == {"LD_SINGLE", "ST_SINGLE", "LD_R"}

(* The instructions LiftSIMD refuses.                                      *)
Unhandled(i) ==
  \/ i.op = "CLS_VEC"
  \/ i.op \in {"FRINT_VEC", "FRINTX_VEC"} /\ i.bits # 0
  \/ i.op \in {"FCVTN", "FCVTL"} /\ i.va \notin {"2S", "4S"}
  \/ i.op \in {"SHL_REG", "SHR", "SHRN"} /\ i.round

LiftSIMD(s, i) ==
  CASE i.op \in Mults -> LiftMulti(s, i)
    [] i.op \in Singles -> LiftSingle(s, i)
    [] i.op = "FCVT_VEC" -> LiftFcvtVec(s, i)
    [] i.op = "CVTF_VEC" -> LiftCvtfVec(s, i)
    [] i.op = "FCVTN" -> LiftFcvtn(s, i)
    [] i.op = "FCVTL" -> LiftFcvtl(s, i)
    [] i.op \in DOMAIN FpCompares -> LiftCmXX(s, i, FpCompares[i.op][1], FpCompares[i.op][2], TRUE)
    [] i.op \in DOMAIN IntCompares -> LiftCmXX(s, i, IntCompares[i.op][1], IntCompares[i.op][2], FALSE)
    [] i.op = "CMTST" -> LiftCmtst(s, i)
    [] i.op \in FpUnary -> LiftFpUnary(s, i)
    [] i.op = "FABD_VEC" -> LiftFabd(s, i)
    [] i.op \in DOMAIN FpVec -> LiftFpVec(s, i)
    [] i.op \in Logic -> LiftLogic(s, i)
    [] i.op \in DOMAIN RunOf -> LiftRev(s, i)
    [] i.op = "SHL_IMM" -> LiftShlImm(s, i)
    [] i.op = "SHL_REG" -> LiftShlReg(s, i)
    [] i.op = "SHLL" -> LiftShll(s, i)
    [] i.op = "SHR" -> LiftShr(s, i)
    [] i.op = "SHRN" -> LiftShrn(s, i)
    [] i.op = "SRA" -> LiftSra(s, i)
    [] i.op \in Moves -> LiftMove(s, i)
    [] i.op \in {"TBL", "TBX"} -> LiftTbl(s, i)
    [] i.op \in Permutes -> LiftPermute(s, i)
    [] i.op = "XTN" -> LiftXtn(s, i)
    [] i.op \in AbsNeg -> LiftAbsNeg(s, i)
    [] i.op \in {"ABD", "ABA"} -> LiftAbd(s, i)
    [] i.op \in {"ABDL", "ABAL"} -> LiftAbdl(s, i)
    [] i.op \in DOMAIN AddSubs -> LiftAddSub(s, i)
    [] i.op \in {"HADD", "HSUB"} -> LiftHalving(s, i)
    [] i.op \in {"MAX_VEC", "MIN_VEC"} -> LiftMinMax(s, i)
    [] i.op \in DOMAIN MulVec -> LiftMulAcc(s, i, MulVec[i.op], FALSE)
    [] i.op \in DOMAIN MulElem -> IF i.scalar THEN LiftScalarMulElem(s, i) ELSE LiftMulAcc(s, i, MulElem[i.op], TRUE)
    [] i.op \in DOMAIN PairVec -> LiftPairwise(s, i)
    [] i.op \in {"FADDP", "ADDP"} -> LiftAddp(s, i)
    [] i.op \in {"ADDLP", "ADALP"} -> LiftAddlp(s, i)
    [] i.op \in DOMAIN Reductions -> LiftReduce(s, i)

(* Lift's default case.                                                    *)
LiftVector(s, i) == IF Unhandled(i) THEN s ELSE SetIP(LiftSIMD(s, i), PCRel(s, i.len))
=============================================================================
