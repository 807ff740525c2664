------------------------------ MODULE Rv64Code ------------------------------
(***************************************************************************)
(* Lifted RISC-V code runs beside the architecture, as in X86Code.  The    *)
(* architecture's registers hold integers; a floating point register also  *)
(* knows how many of its bytes the manual defines (the lifter clears the   *)
(* upper half where the manual asks for a NaN box).                        *)
(***************************************************************************)
EXTENDS Rv64

CONSTANTS
  Insts,      \* the instructions of a block, as a function of their position
  Starts,     \* initial states, as records [gp, fp, mem, ip]
  MaxInsts    \* bound: instructions of a block

VARIABLES
  lifted,     \* the state of the lifted code
  arch,       \* the state of the architecture
  last,       \* the last instruction
  insts       \* instructions lifted so far

vars == <<lifted, arch, last, insts>>
-----------------------------------------------------------------------------
(* The architecture (external): the RISC-V manual.                         *)

AX(a, r) == IF r = "x0" THEN 0 ELSE a.gp[r]

AS(a, r) == Signed(AX(a, r), W64)

ASet(a, r, v) == IF r = "x0" THEN a ELSE [a EXCEPT !.gp[r] = v % 2^W64]

(* A 32-bit result, sign-extended.                                         *)
ASetW(a, r, v) == ASet(a, r, Signed(v % 2^W32, W32))

ALow(a, r) == AX(a, r) % 2^W32

ASLow(a, r) == Signed(ALow(a, r), W32)

AFp(a, r, f) == a.fp[r].v % 2^FpBits(f)

ASetFp(a, r, f, v) == [a EXCEPT !.fp[r] = [v |-> v, n |-> FpSize[f]]]

(* Division rounds towards zero; by zero it gives -1 and the dividend.     *)
Quotient(x, y) ==
  IF y = 0 THEN -1 ELSE LET q == Abs(x) \div Abs(y) IN IF (x < 0) = (y < 0) THEN q ELSE -q

Remainder(x, y) == IF y = 0 THEN x ELSE x - y * Quotient(x, y)

AReg(a, i) ==
  LET x == AX(a, i.rs1)
      y == AX(a, i.rs2)
      sx == AS(a, i.rs1)
      sy == AS(a, i.rs2)
      lx == ALow(a, i.rs1)
      ly == ALow(a, i.rs2)
      slx == ASLow(a, i.rs1)
      sly == ASLow(a, i.rs2)
  IN CASE i.mnem = "ADD" -> ASet(a, i.rd, x + y) [] i.mnem = "SUB" -> ASet(a, i.rd, x - y)
       [] i.mnem = "ADDW" -> ASetW(a, i.rd, x + y) [] i.mnem = "SUBW" -> ASetW(a, i.rd, x - y)
       [] i.mnem = "AND" -> ASet(a, i.rd, x & y) [] i.mnem = "OR" -> ASet(a, i.rd, x | y)
       [] i.mnem = "XOR" -> ASet(a, i.rd, x ^^ y)
       [] i.mnem = "SLL" -> ASet(a, i.rd, x * 2^(y % W64)) [] i.mnem = "SLLW" -> ASetW(a, i.rd, lx * 2^(y % W32))
       [] i.mnem = "SRL" -> ASet(a, i.rd, x \div 2^(y % W64)) [] i.mnem = "SRLW" -> ASetW(a, i.rd, lx \div 2^(y % W32))
       [] i.mnem = "SRA" -> ASet(a, i.rd, sx \div 2^(y % W64)) [] i.mnem = "SRAW" -> ASetW(a, i.rd, slx \div 2^(y % W32))
       [] i.mnem = "SLT" -> ASet(a, i.rd, Flag(sx < sy)) [] i.mnem = "SLTU" -> ASet(a, i.rd, Flag(x < y))
       [] i.mnem = "MUL" -> ASet(a, i.rd, x * y) [] i.mnem = "MULW" -> ASetW(a, i.rd, x * y)
       [] i.mnem = "MULH" -> ASet(a, i.rd, (sx * sy) \div 2^W64)
       [] i.mnem = "MULHSU" -> ASet(a, i.rd, (sx * y) \div 2^W64)
       [] i.mnem = "MULHU" -> ASet(a, i.rd, (x * y) \div 2^W64)
       [] i.mnem = "DIV" -> ASet(a, i.rd, Quotient(sx, sy)) [] i.mnem = "DIVU" -> ASet(a, i.rd, Quotient(x, y))
       [] i.mnem = "REM" -> ASet(a, i.rd, Remainder(sx, sy)) [] i.mnem = "REMU" -> ASet(a, i.rd, Remainder(x, y))
       [] i.mnem = "DIVW" -> ASetW(a, i.rd, Quotient(slx, sly)) [] i.mnem = "DIVUW" -> ASetW(a, i.rd, Quotient(lx, ly))
       [] i.mnem = "REMW" -> ASetW(a, i.rd, Remainder(slx, sly)) [] i.mnem = "REMUW" -> ASetW(a, i.rd, Remainder(lx, ly))

AImm(a, i) ==
  LET x == AX(a, i.rs1)
      imm == i.imm % 2^W64
  IN CASE i.mnem = "ADDI" -> ASet(a, i.rd, x + imm) [] i.mnem = "ADDIW" -> ASetW(a, i.rd, x + imm)
       [] i.mnem = "ANDI" -> ASet(a, i.rd, x & imm) [] i.mnem = "ORI" -> ASet(a, i.rd, x | imm)
       [] i.mnem = "XORI" -> ASet(a, i.rd, x ^^ imm)
       [] i.mnem = "SLTI" -> ASet(a, i.rd, Flag(AS(a, i.rs1) < i.imm)) [] i.mnem = "SLTIU" -> ASet(a, i.rd, Flag(x < imm))
       [] i.mnem = "SLLI" -> ASet(a, i.rd, x * 2^i.imm) [] i.mnem = "SLLIW" -> ASetW(a, i.rd, ALow(a, i.rs1) * 2^i.imm)
       [] i.mnem = "SRLI" -> ASet(a, i.rd, x \div 2^i.imm) [] i.mnem = "SRLIW" -> ASetW(a, i.rd, ALow(a, i.rs1) \div 2^i.imm)
       [] i.mnem = "SRAI" -> ASet(a, i.rd, AS(a, i.rs1) \div 2^i.imm)
       [] i.mnem = "SRAIW" -> ASetW(a, i.rd, ASLow(a, i.rs1) \div 2^i.imm)
       [] i.mnem = "LUI" -> ASet(a, i.rd, i.imm) [] i.mnem = "AUIPC" -> ASet(a, i.rd, a.ip + i.imm)
       [] i.mnem = "CSR" -> ASet(a, i.rd, 0)

ASize == [LB |-> 1, LBU |-> 1, LH |-> 2, LHU |-> 2, LW |-> 4, LWU |-> 4, LD |-> 8,
          SB |-> 1, SH |-> 2, SW |-> 4, SD |-> 8]

AMem(a, i) ==
  LET at == AX(a, i.rs1) + i.imm
      n == ASize[i.mnem]
      v == Load(a, at, n)
  IN CASE i.mnem \in DOMAIN Stores -> Store(a, at, n, AX(a, i.rs2) % 2^Width(n))
       [] i.mnem \in {"LBU", "LHU", "LWU"} -> ASet(a, i.rd, v)
       [] i.mnem \in {"LB", "LH", "LW", "LD"} -> ASet(a, i.rd, Signed(v, Width(n)))

(* One atomic step on a word or a doubleword: what is there, what is put.  *)
AAtomic(a, i) ==
  LET n == IF i.fmt = "I32" THEN 4 ELSE 8
      at == AX(a, i.rs1)
      old == Load(a, at, n)
      y == AX(a, i.rs2) % 2^Width(n)
      so == Signed(old, Width(n))
      sy == Signed(y, Width(n))
      new == CASE i.mnem = "AMOSWAP" -> y [] i.mnem = "AMOADD" -> (old + y) % 2^Width(n)
               [] i.mnem = "AMOAND" -> old & y [] i.mnem = "AMOOR" -> old | y [] i.mnem = "AMOXOR" -> old ^^ y
               [] i.mnem = "AMOMAX" -> (IF so >= sy THEN old ELSE y) [] i.mnem = "AMOMIN" -> (IF so <= sy THEN old ELSE y)
               [] i.mnem = "AMOMAXU" -> (IF old >= y THEN old ELSE y) [] i.mnem = "AMOMINU" -> (IF old <= y THEN old ELSE y)
  IN ASet(Store(a, at, n, new), i.rd, so)

(* The class of a number, counted from minus infinity (0) to a quiet NaN   *)
(* (9), as rellume's tests number them.                                    *)
AClass(v, f) ==
  LET w == FpBits(f)
      m == MantBits[IntOf(f)]
      neg == v >= 2^(w - 1)
      mag == v % 2^(w - 1)
      inf == 2^(w - 1) - 2^m
  IN CASE mag > inf -> IF mag >= inf + 2^(m - 1) THEN 9 ELSE 8
       [] mag = inf -> IF neg THEN 0 ELSE 7
       [] mag = 0 -> IF neg THEN 3 ELSE 4
       [] mag > 0 /\ mag < 2^m -> IF neg THEN 2 ELSE 5
       [] mag >= 2^m /\ mag < inf -> IF neg THEN 1 ELSE 6

AFloat(a, i) ==
  LET f == i.fmt
      w == FpBits(f)
      x == AFp(a, i.rs1, f)
      y == AFp(a, i.rs2, f)
      z == AFp(a, i.rs3, f)
      Sgn(v) == v \div 2^(w - 1)
      Mag(v) == v % 2^(w - 1)
      With(sign, v) == ASetFp(a, i.rd, f, sign * 2^(w - 1) + Mag(v))
      prod == FBin("FMul", x, y, w)
      Rounded == CASE i.misc = 2 -> FRound("floor", x, w) [] i.misc = 3 -> FRound("ceil", x, w)
                   [] i.misc = 4 -> FRound("round", x, w) [] i.misc \in {0, 7} -> FRound("roundeven", x, w)
                   [] i.misc = 1 -> x
  IN CASE i.mnem = "FL" -> ASetFp(a, i.rd, f, Load(a, AX(a, i.rs1) + i.imm, FpSize[f]))
       [] i.mnem = "FS" -> Store(a, AX(a, i.rs1) + i.imm, FpSize[f], y)
       [] i.mnem \in {"FADD", "FSUB", "FMUL", "FDIV"} -> ASetFp(a, i.rd, f, FBin(FpBin[i.mnem], x, y, w))
       [] i.mnem = "FSQRT" -> ASetFp(a, i.rd, f, FSqrt(x, w))
       [] i.mnem = "FSGNJ" -> With(Sgn(y), x) [] i.mnem = "FSGNJN" -> With(1 - Sgn(y), x)
       [] i.mnem = "FSGNJX" -> With((Sgn(x) + Sgn(y)) % 2, x)
       [] i.mnem = "FMIN" -> ASetFp(a, i.rd, f, IF NaN(x, w) \/ (~NaN(y, w) /\ y < x) THEN y ELSE x)
       [] i.mnem = "FMAX" -> ASetFp(a, i.rd, f, IF NaN(x, w) \/ (~NaN(y, w) /\ y > x) THEN y ELSE x)
       [] i.mnem = "FEQ" -> ASet(a, i.rd, Flag(~NaN(x, w) /\ ~NaN(y, w) /\ x = y))
       [] i.mnem = "FLT" -> ASet(a, i.rd, Flag(~NaN(x, w) /\ ~NaN(y, w) /\ x < y))
       [] i.mnem = "FLE" -> ASet(a, i.rd, Flag(~NaN(x, w) /\ ~NaN(y, w) /\ x <= y))
       [] i.mnem = "FMADD" -> ASetFp(a, i.rd, f, FBin("FAdd", prod, z, w))
       [] i.mnem = "FMSUB" -> ASetFp(a, i.rd, f, FBin("FSub", prod, z, w))
       [] i.mnem = "FNMSUB" -> ASetFp(a, i.rd, f, FBin("FAdd", FNeg(prod, w), z, w))
       [] i.mnem = "FNMADD" -> ASetFp(a, i.rd, f, FBin("FSub", FNeg(prod, w), z, w))
       [] i.mnem = "FCLASS" -> IF f = "F32" THEN ASetW(a, i.rd, AClass(x, f)) ELSE ASet(a, i.rd, AClass(x, f))
       [] i.mnem = "FMVX" -> ASet(a, i.rd, Signed(x, w))
       [] i.mnem = "FMV_X" -> ASetFp(a, i.rd, f, AX(a, i.rs1) % 2^w)
       [] i.mnem = "FCVTL" -> ASet(a, i.rd, FCvt(f, "signed", Rounded, W64))
       [] i.mnem = "FCVTLU" -> ASet(a, i.rd, FCvt(f, "unsigned", Rounded, W64))
       [] i.mnem = "FCVTW" -> ASetW(a, i.rd, FCvt(f, "signed", Rounded, W32))
       [] i.mnem = "FCVTWU" -> ASetW(a, i.rd, FCvt(f, "unsigned", Rounded, W32))
       [] i.mnem = "FCVT_L" -> ASetFp(a, i.rd, f, FCvt("signed", f, AX(a, i.rs1), w))
       [] i.mnem = "FCVT_LU" -> ASetFp(a, i.rd, f, FCvt("unsigned", f, AX(a, i.rs1), w))
       [] i.mnem = "FCVT_W" -> ASetFp(a, i.rd, f, FCvt("signed", f, ALow(a, i.rs1), w))
       [] i.mnem = "FCVT_WU" -> ASetFp(a, i.rd, f, FCvt("unsigned", f, ALow(a, i.rs1), w))
       [] i.mnem = "FCVT" ->
            LET from == IF f = "F32" THEN "F64" ELSE "F32"
            IN ASetFp(a, i.rd, f, FCvt(from, f, AFp(a, i.rs1, from), w))

(* The return address stack of the manual: push for a call, pop for a      *)
(* return, both for a coroutine switch.                                    *)
AHint(i) ==
  LET rdl == i.rd \in {"x1", "x5"}
      rs1l == i.rs1 \in {"x1", "x5"}
  IN IF rdl THEN IF rs1l /\ i.rd # i.rs1 THEN "none" ELSE "call" ELSE IF rs1l THEN "return" ELSE "none"

ATaken(a, i) ==
  LET x == AX(a, i.rs1)
      y == AX(a, i.rs2)
  IN CASE i.mnem = "BEQ" -> x = y [] i.mnem = "BNE" -> x # y
       [] i.mnem = "BLT" -> AS(a, i.rs1) < AS(a, i.rs2) [] i.mnem = "BGE" -> AS(a, i.rs1) >= AS(a, i.rs2)
       [] i.mnem = "BLTU" -> x < y [] i.mnem = "BGEU" -> x >= y

AStep(a, i) ==
  LET next == Add64(a.ip, i.len)
      To(b, ip) == [b EXCEPT !.ip = ip % 2^W64]
  IN CASE i.mnem \in Unhandled -> a
       [] i.mnem = "JAL" -> To([ASet(a, i.rd, next) EXCEPT !.flow = AHint(i)], a.ip + i.imm)
       [] i.mnem = "JALR" ->
            LET to == AX(a, i.rs1) + i.imm
            IN To([ASet(a, i.rd, next) EXCEPT !.flow = AHint(i)], to - (to % 2))
       [] i.mnem \in DOMAIN Branches -> To(a, IF ATaken(a, i) THEN a.ip + i.imm ELSE next)
       [] i.mnem \in {"FENCE", "ECALL"} -> To(a, next)
       [] i.mnem = "LRW" ->
            To([ASet(a, i.rd, Signed(Load(a, AX(a, i.rs1), 4), W32)) EXCEPT !.reserved = TRUE], next)
       [] i.mnem = "SCW" ->
            To([ASet(Store(a, AX(a, i.rs1), 4, ALow(a, i.rs2)), i.rd, 0) EXCEPT !.reserved = FALSE], next)
       [] i.mnem \in DOMAIN Amos -> To(AAtomic(a, i), next)
       [] i.mnem \in FpMnems -> To(AFloat(a, i), next)
       [] i.mnem \in DOMAIN ASize -> To(AMem(a, i), next)
       [] i.mnem \in DOMAIN BinOpI \cup DOMAIN ShiftI \cup {"SLTI", "SLTIU", "LUI", "AUIPC", "CSR"} ->
            To(AImm(a, i), next)
       [] OTHER -> To(AReg(a, i), next)

(* What the code is right about: JALR's target is even (the lifter keeps   *)
(* bit 0), SC.W has a reservation (the lifter has none) and does not       *)
(* overwrite its own operands, no double is read from a single, a          *)
(* conversion to an integer names its rounding mode (the lifter truncates  *)
(* for the dynamic one, which is round to nearest even unless the program  *)
(* sets it), and a signed division by -1 divides zero or the least number  *)
(* (the lifter returns every dividend unchanged).                          *)
ADefined(a, i) ==
  /\ (i.mnem = "DIV" /\ AS(a, i.rs2) = -1) => AX(a, i.rs1) \in {0, 2^(W64 - 1)}
  /\ (i.mnem = "DIVW" /\ ASLow(a, i.rs2) = -1) => ALow(a, i.rs1) \in {0, 2^(W32 - 1)}
  /\ i.mnem \in DOMAIN FpToInt => i.misc # 7
  /\ i.mnem = "JALR" => (AX(a, i.rs1) + i.imm) % 2 = 0
  /\ i.mnem = "SCW" => a.reserved /\ (i.rd = "x0" \/ i.rd \notin {i.rs1, i.rs2})
  /\ i.mnem \in FpMnems =>
       \A r \in {i.rs1, i.rs2, i.rs3} \cap DOMAIN a.fp :
         (IF i.mnem = "FCVT" THEN 12 - FpSize[i.fmt] ELSE FpSize[i.fmt]) <= a.fp[r].n
-----------------------------------------------------------------------------
Init ==
  \E st \in Starts :
    /\ arch = [gp |-> st.gp, fp |-> [r \in DOMAIN st.fp |-> [v |-> st.fp[r], n |-> 8]], mem |-> st.mem,
               ip |-> st.ip, flow |-> "none", reserved |-> FALSE]
    /\ lifted = [gp |-> [r \in DOMAIN st.gp |-> [NoFacets EXCEPT !["I64"] = st.gp[r]]],
                 fp |-> [r \in DOMAIN st.fp |-> [NoFp EXCEPT !["I64"] = st.fp[r]]], mem |-> st.mem,
                 ip |-> st.ip, flow |-> "none"]
    /\ last = [mnem |-> "FENCE", start |-> st.ip, len |-> 0] /\ insts = 0

(* A block ends with an instruction that is not OTHER.                     *)
Execute(i) ==
  /\ ADefined(arch, i)
  /\ insts > 0 => Kind(last) = "OTHER" /\ last.mnem \notin Unhandled
  /\ \E l \in {Lift(lifted, i)} : lifted' = l
  /\ arch' = AStep(arch, i)
  /\ last' = i @@ [start |-> lifted.ip]
  /\ insts' = insts + 1

Finished == (insts = MaxInsts \/ (insts > 0 /\ (Kind(last) # "OTHER" \/ last.mnem \in Unhandled))) /\ UNCHANGED vars

Next ==
  \/ insts < MaxInsts /\ \E i \in Insts[insts + 1] : Execute(i)
  \/ Finished

Spec == Init /\ [][Next]_vars
-----------------------------------------------------------------------------
(* The lifted code does what the instructions do (rv64/lifter.cc): the     *)
(* integer registers, the defined part of the floating point registers,    *)
(* the memory and the instruction pointer are the architecture's, calls    *)
(* and returns are told apart as the manual asks, and every facet kept     *)
(* agrees with its register.  The decoder's Kind and JumpTarget, by which  *)
(* functions are cut into blocks (instr.h), foretell where the instruction *)
(* leads.                                                                  *)
Rv64Right ==
  /\ GpValue(lifted) = arch.gp /\ lifted.mem = arch.mem
  /\ lifted.ip = arch.ip /\ lifted.flow = arch.flow
  /\ \A r \in DOMAIN arch.fp :
       (lifted.fp[r]["I64"] - arch.fp[r].v) % 2^Width(arch.fp[r].n) = 0
  /\ \A r \in DOMAIN lifted.gp, f \in GpFacets :
       lifted.gp[r][f] # Absent => lifted.gp[r][f] = DeriveGp(lifted.gp[r]["I64"], f)
  /\ (insts > 0 /\ last.mnem \notin Unhandled) =>
       LET end == Add64(last.start, last.len)
       IN CASE Kind(last) \in {"OTHER", "UNKNOWN"} -> lifted.ip = end
            [] Kind(last) = "COND_BRANCH" -> lifted.ip \in {end, JumpTarget(last, last.start)}
            [] OTHER -> HasTarget(last) => lifted.ip = JumpTarget(last, last.start)
=============================================================================
