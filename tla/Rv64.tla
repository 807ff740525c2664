-------------------------------- MODULE Rv64 --------------------------------
(***************************************************************************)
(* The lifter for RISC-V (rellume/src/rv64/lifter.cc) and what the decoder *)
(* tells the rest of rellume about a RISC-V instruction (instr.h).  As in  *)
(* X86Lifter, an operator is what the IR does that the method of its name  *)
(* emits.                                                                  *)
(*                                                                         *)
(* An instruction is a FrvInst and its length: [mnem, rd, rs1, rs2, rs3,   *)
(* imm, misc, len]; registers are "x0", "x1", ... and "f0", "f1", ..., and *)
(* "inv" is FRV_REG_INV.  A state has the integer registers and their      *)
(* facets (gp), the floating point registers and theirs (fp), the memory,  *)
(* the instruction pointer, and what the block ends with (flow).           *)
(***************************************************************************)
EXTENDS RegFile

CONSTANT MantBits   \* mantissa bits of a float and of a double, by facet

W64 == Width(8)
W32 == Width(4)
Add64(a, b) == (a + b) % 2^W64

LoadGp(s, r, f) == IF r = "x0" THEN 0 ELSE GetReg(s, r, f)

StoreGp_zext(s, r, f, v) == IF r = "x0" THEN s ELSE SetReg(s, r, v)

(* A 32-bit value is sign-extended and kept as the facet I32.              *)
StoreGp(s, r, f, v) ==
  LET t == SetReg(s, r, SExt(v, Width(FacetSize[f]), W64))
  IN CASE r = "x0" -> s
       [] r # "x0" /\ f = "I32" -> SetRegFacet(t, r, "I32", v)
       [] OTHER -> t

FpSize == [I64 |-> 8, I32 |-> 4, F64 |-> 8, F32 |-> 4]

FpBits(f) == Width(FpSize[f])

NoFp == [f \in DOMAIN FpSize |-> Absent]

LoadFp(s, r, f) == IF s.fp[r][f] # Absent THEN s.fp[r][f] ELSE Trunc(s.fp[r]["I64"], FpBits(f))

(* The rest of the register is cleared.                                    *)
StoreFp(s, r, f, v) == [s EXCEPT !.fp[r] = [NoFp EXCEPT !["I64"] = v, ![f] = v]]

(* A constant base is added to as an integer, any other by a GEP.          *)
Addr(s, i) == Add64(LoadGp(s, i.rs1, "PTR"), i.imm)
-----------------------------------------------------------------------------
(* External: LLVM's binary operators on w bits.                            *)
BinOp(op, x, y, w) ==
  CASE op = "Add" -> (x + y) % 2^w [] op = "Sub" -> (x - y) % 2^w [] op = "Mul" -> (x * y) % 2^w
    [] op = "And" -> x & y [] op = "Or" -> x | y [] op = "Xor" -> x ^^ y
    [] op = "Shl" -> Shl(x, y, w) [] op = "LShr" -> LShr(x, y) [] op = "AShr" -> AShr(x, y, w)
    [] op = "UDiv" -> x \div y [] op = "URem" -> x % y
    [] op = "SDiv" -> SDiv(x, y, w) [] op = "SRem" -> SRem(x, y, w)

RmwOp(op, x, y, w) ==
  CASE op = "Xchg" -> y
    [] op \in {"Add", "And", "Or", "Xor"} -> BinOp(op, x, y, w)
    [] op = "Max" -> IF SLT(x, y, w) THEN y ELSE x [] op = "Min" -> IF SLT(y, x, w) THEN y ELSE x
    [] op = "UMax" -> IF x < y THEN y ELSE x [] op = "UMin" -> IF y < x THEN y ELSE x

ICmp(pred, x, y) ==
  CASE pred = "EQ" -> x = y [] pred = "NE" -> x # y
    [] pred = "SLT" -> SLT(x, y, W64) [] pred = "SGE" -> ~SLT(x, y, W64)
    [] pred = "ULT" -> x < y [] pred = "UGE" -> x >= y
-----------------------------------------------------------------------------
LiftBinOpR(s, i, op, f) ==
  StoreGp(s, i.rd, f, BinOp(op, LoadGp(s, i.rs1, f), LoadGp(s, i.rs2, f), Width(FacetSize[f])))

LiftBinOpI(s, i, op, f) ==
  LET w == Width(FacetSize[f])
  IN StoreGp(s, i.rd, f, BinOp(op, LoadGp(s, i.rs1, f), i.imm % 2^w, w))

(* shiftop is the amount, as wide as what is shifted.                      *)
LiftShift(s, i, op, f, shiftop) ==
  LET w == Width(FacetSize[f])
  IN StoreGp(s, i.rd, f, BinOp(op, LoadGp(s, i.rs1, f), shiftop & (w - 1), w))

(* The product of both operands extended to twice the width.               *)
LiftMulh(s, i, signed1, signed2) ==
  LET Ext(r, signed) == LET v == LoadGp(s, r, "I64") IN IF signed THEN Signed(v, W64) ELSE v
  IN StoreGp(s, i.rd, "I64", ((Ext(i.rs1, signed1) * Ext(i.rs2, signed2)) \div 2^W64) % 2^W64)

LiftLoad(s, i, signed, f) ==
  LET ld == Load(s, Addr(s, i), FacetSize[f])
  IN StoreGp(s, i.rd, "I64", IF signed THEN SExt(ld, Width(FacetSize[f]), W64) ELSE ld)

LiftLoadFp(s, i, f) == StoreFp(s, i.rd, f, Load(s, Addr(s, i), FpSize[f]))

LiftStore(s, i, f) == Store(s, Addr(s, i), FacetSize[f], LoadGp(s, i.rs2, f))

LiftStoreFp(s, i, f) == Store(s, Addr(s, i), FpSize[f], LoadFp(s, i.rs2, f))

LiftBranch(s, i, pred) ==
  SetIP(s, Add64(s.ip, IF ICmp(pred, LoadGp(s, i.rs1, "I64"), LoadGp(s, i.rs2, "I64"))
                       THEN i.imm ELSE i.len))

(* Dividing by zero, and by minus one, is kept away from LLVM's operators. *)
LiftDivRem(s, i, op, f) ==
  LET w == Width(FacetSize[f])
      dividend == LoadGp(s, i.rs1, f)
      divisor == LoadGp(s, i.rs2, f)
      minusone == 2^w - 1
      is_minusone == divisor = minusone
      is_spc == divisor = 0 \/ (op \in {"SDiv", "SRem"} /\ is_minusone)
      special == CASE op = "UDiv" -> minusone
                   [] op = "URem" -> dividend
                   [] op = "SDiv" -> IF is_minusone THEN dividend ELSE minusone
                   [] op = "SRem" -> IF is_minusone THEN 0 ELSE dividend
  IN StoreGp(s, i.rd, f, IF is_spc THEN special ELSE BinOp(op, dividend, divisor, w))

(* The orderings do not matter to one thread.                              *)
LiftAmo(s, i, op, f) ==
  LET ptr == LoadGp(s, i.rs1, "PTR")
      old == Load(s, ptr, FacetSize[f])
      new == RmwOp(op, old, LoadGp(s, i.rs2, f), Width(FacetSize[f]))
  IN StoreGp(Store(s, ptr, FacetSize[f], new), i.rd, f, old)

LiftLrw(s, i) == StoreGp(s, i.rd, "I32", Load(s, LoadGp(s, i.rs1, "PTR"), 4))

(* SC.W always succeeds; its result is stored first.                       *)
LiftScw(s, i) ==
  LET t == StoreGp(s, i.rd, "I32", 0)
  IN Store(t, LoadGp(t, i.rs1, "PTR"), 4, LoadGp(t, i.rs2, "I32"))

(* With cfg.call_function, the link registers x1 and x5 tell calls and     *)
(* returns from jumps.  The call itself is the callee's business.          *)
LiftJal(s, i) ==
  LET base == IF i.rs1 # "inv" THEN LoadGp(s, i.rs1, "I64") ELSE s.ip
      t == StoreGp(SetIP(s, Add64(base, i.imm)), i.rd, "I64", Add64(s.ip, i.len))
      rdl == i.rd \in {"x1", "x5"}
      rs1l == i.rs1 \in {"x1", "x5"}
  IN [t EXCEPT !.flow = CASE ~rdl /\ rs1l -> "return"
                          [] rdl /\ (~rs1l \/ i.rs1 = i.rd) -> "call"
                          [] OTHER -> "none"]
-----------------------------------------------------------------------------
(* Floating point.  LiftFpArith supports the dynamic rounding mode only.   *)
LiftFpArith(s, i, op, f) ==
  StoreFp(s, i.rd, f, FBin(op, LoadFp(s, i.rs1, f), LoadFp(s, i.rs2, f), FpBits(f)))

SignOf(signed) == IF signed THEN "signed" ELSE "unsigned"

LiftFcvtIToF(s, i, df, sf, signed) ==
  LET v == LoadGp(s, i.rs1, sf)
  IN StoreFp(s, i.rd, df, FCvt(SignOf(signed), df, v, FpBits(df)))

LiftFcvtFToI(s, i, df, sf, signed) ==
  LET v == LoadFp(s, i.rs1, sf)
      r == CASE i.misc = 2 -> FRound("floor", v, FpBits(sf))
             [] i.misc = 3 -> FRound("ceil", v, FpBits(sf))
             [] i.misc = 4 -> FRound("round", v, FpBits(sf))
             [] OTHER -> v
  IN StoreGp(s, i.rd, df, FCvt(sf, SignOf(signed), r, Width(FacetSize[df])))

LiftFcvtFp(s, i, df, sf) ==
  StoreFp(s, i.rd, df, FCvt(sf, df, LoadFp(s, i.rs1, sf), FpBits(df)))

LiftFcmp(s, i, pred, f) ==
  StoreGp(s, i.rd, "I64", Flag(FCmp(pred, LoadFp(s, i.rs1, f), LoadFp(s, i.rs2, f), FpBits(f))))

LiftFsgn(s, i, f, keep, zero) ==
  LET sign == 2^(FpBits(f) - 1)
      a == LoadFp(s, i.rs1, f)
      abs_op == CASE ~keep /\ zero -> a & (sign - 1) [] ~keep /\ ~zero -> a | sign [] OTHER -> a
  IN StoreFp(s, i.rd, f, abs_op ^^ (LoadFp(s, i.rs2, f) & sign))

LiftFminmax(s, i, id, f) ==
  StoreFp(s, i.rd, f, FMinMax(id, LoadFp(s, i.rs1, f), LoadFp(s, i.rs2, f), FpBits(f)))

(* fi is I32 or I64: the value as an integer.                              *)
LiftFclass(s, i, fi) ==
  LET sz == FpBits(fi)
      v == LoadFp(s, i.rs1, fi)
      mant == v % 2^MantBits[fi]
      exp == Bits(v, sz - 2, MantBits[fi])
      expmax == exp = 2^(sz - 1 - MantBits[fi]) - 1
      res == IF exp = 0 THEN Flag(mant # 0) | 4 ELSE Flag(expmax) | 6
      signed == IF v < 2^(sz - 1) THEN res ELSE res ^^ 7
      signaling == LShr(mant, MantBits[fi] - 1) | 8
  IN StoreGp(s, i.rd, fi, IF expmax /\ mant # 0 THEN signaling ELSE signed)

(* "TODO: actually implement as fused operation"                           *)
LiftFmadd(s, i, sub, negprod, f) ==
  LET w == FpBits(f)
      prod == FBin("FMul", LoadFp(s, i.rs1, f), LoadFp(s, i.rs2, f), w)
      op == IF negprod THEN FNeg(prod, w) ELSE prod
  IN StoreFp(s, i.rd, f, FBin(IF sub THEN "FSub" ELSE "FAdd", op, LoadFp(s, i.rs3, f), w))
-----------------------------------------------------------------------------
(* Lifter::Lift: the arguments each mnemonic's line passes.                *)

BinOpR == [ADD |-> <<"Add", "I64">>, ADDW |-> <<"Add", "I32">>, SUB |-> <<"Sub", "I64">>,
           SUBW |-> <<"Sub", "I32">>, AND |-> <<"And", "I64">>, OR |-> <<"Or", "I64">>,
           XOR |-> <<"Xor", "I64">>, MUL |-> <<"Mul", "I64">>, MULW |-> <<"Mul", "I32">>]

BinOpI == [ADDI |-> <<"Add", "I64">>, ADDIW |-> <<"Add", "I32">>, ANDI |-> <<"And", "I64">>,
           ORI |-> <<"Or", "I64">>, XORI |-> <<"Xor", "I64">>]

ShiftI == [SLLI |-> <<"Shl", "I64">>, SLLIW |-> <<"Shl", "I32">>, SRLI |-> <<"LShr", "I64">>,
           SRLIW |-> <<"LShr", "I32">>, SRAI |-> <<"AShr", "I64">>, SRAIW |-> <<"AShr", "I32">>]

ShiftR == [SLL |-> <<"Shl", "I64">>, SLLW |-> <<"Shl", "I32">>, SRL |-> <<"LShr", "I64">>,
           SRLW |-> <<"LShr", "I32">>, SRA |-> <<"AShr", "I64">>, SRAW |-> <<"AShr", "I32">>]

DivRem == [DIV |-> <<"SDiv", "I64">>, DIVU |-> <<"UDiv", "I64">>, DIVW |-> <<"SDiv", "I32">>,
           DIVUW |-> <<"UDiv", "I32">>, REM |-> <<"SRem", "I64">>, REMU |-> <<"URem", "I64">>,
           REMW |-> <<"SRem", "I32">>, REMUW |-> <<"URem", "I32">>]

Branches == [BEQ |-> "EQ", BNE |-> "NE", BLT |-> "SLT", BLTU |-> "ULT", BGE |-> "SGE", BGEU |-> "UGE"]

Loads == [LB |-> <<TRUE, "I8">>, LBU |-> <<FALSE, "I8">>, LH |-> <<TRUE, "I16">>,
          LHU |-> <<FALSE, "I16">>, LW |-> <<TRUE, "I32">>, LWU |-> <<FALSE, "I32">>,
          LD |-> <<TRUE, "I64">>]

Stores == [SB |-> "I8", SH |-> "I16", SW |-> "I32", SD |-> "I64"]

Amos == [AMOSWAP |-> "Xchg", AMOADD |-> "Add", AMOAND |-> "And", AMOOR |-> "Or", AMOXOR |-> "Xor",
         AMOMAX |-> "Max", AMOMAXU |-> "UMax", AMOMIN |-> "Min", AMOMINU |-> "UMin"]

Mulhs == [MULH |-> <<TRUE, TRUE>>, MULHSU |-> <<TRUE, FALSE>>, MULHU |-> <<FALSE, FALSE>>]

Sets == [SLT |-> <<"SLT", FALSE>>, SLTI |-> <<"SLT", TRUE>>, SLTU |-> <<"ULT", FALSE>>,
         SLTIU |-> <<"ULT", TRUE>>]

(* The floating point ones exist for F32 and F64: i.fmt, and its integer.  *)
FpBin == [FADD |-> "FAdd", FSUB |-> "FSub", FMUL |-> "FMul", FDIV |-> "FDiv"]

FpCmp == [FEQ |-> "OEQ", FLT |-> "OLT", FLE |-> "OLE"]

FpSgn == [FSGNJ |-> <<FALSE, TRUE>>, FSGNJN |-> <<FALSE, FALSE>>, FSGNJX |-> <<TRUE, FALSE>>]

FpMadd == [FMADD |-> <<FALSE, FALSE>>, FMSUB |-> <<TRUE, FALSE>>, FNMSUB |-> <<FALSE, TRUE>>,
           FNMADD |-> <<TRUE, TRUE>>]

(* FCVT.L, FCVT.W, ... and back: the integer's facet and signedness.       *)
FpToInt == [FCVTL |-> <<"I64", TRUE>>, FCVTW |-> <<"I32", TRUE>>, FCVTLU |-> <<"I64", FALSE>>,
            FCVTWU |-> <<"I32", FALSE>>]

IntToFp == [FCVT_L |-> <<"I64", TRUE>>, FCVT_W |-> <<"I32", TRUE>>, FCVT_LU |-> <<"I64", FALSE>>,
            FCVT_WU |-> <<"I32", FALSE>>]

IntOf(f) == IF f = "F32" THEN "I32" ELSE "I64"

LiftFp(s, i) ==
  CASE i.mnem = "FL" -> LiftLoadFp(s, i, i.fmt)
    [] i.mnem = "FS" -> LiftStoreFp(s, i, i.fmt)
    [] i.mnem \in DOMAIN IntToFp -> LiftFcvtIToF(s, i, i.fmt, IntToFp[i.mnem][1], IntToFp[i.mnem][2])
    [] i.mnem \in DOMAIN FpToInt -> LiftFcvtFToI(s, i, FpToInt[i.mnem][1], i.fmt, FpToInt[i.mnem][2])
    [] i.mnem = "FMVX" -> StoreGp(s, i.rd, IntOf(i.fmt), LoadFp(s, i.rs1, i.fmt))
    [] i.mnem = "FMV_X" -> StoreFp(s, i.rd, i.fmt, LoadGp(s, i.rs1, IntOf(i.fmt)))
    [] i.mnem \in DOMAIN FpBin -> LiftFpArith(s, i, FpBin[i.mnem], i.fmt)
    [] i.mnem = "FMIN" -> LiftFminmax(s, i, "minnum", i.fmt)
    [] i.mnem = "FMAX" -> LiftFminmax(s, i, "maxnum", i.fmt)
    [] i.mnem \in DOMAIN FpMadd -> LiftFmadd(s, i, FpMadd[i.mnem][1], FpMadd[i.mnem][2], i.fmt)
    [] i.mnem = "FSQRT" -> StoreFp(s, i.rd, i.fmt, FSqrt(LoadFp(s, i.rs1, i.fmt), FpBits(i.fmt)))
    [] i.mnem \in DOMAIN FpSgn -> LiftFsgn(s, i, i.fmt, FpSgn[i.mnem][1], FpSgn[i.mnem][2])
    [] i.mnem \in DOMAIN FpCmp -> LiftFcmp(s, i, FpCmp[i.mnem], i.fmt)
    [] i.mnem = "FCLASS" -> LiftFclass(s, i, IntOf(i.fmt))
    [] i.mnem = "FCVT" -> LiftFcvtFp(s, i, i.fmt, IF i.fmt = "F32" THEN "F64" ELSE "F32")

FpMnems == DOMAIN IntToFp \cup DOMAIN FpToInt \cup DOMAIN FpBin \cup DOMAIN FpMadd \cup DOMAIN FpSgn
           \cup DOMAIN FpCmp \cup {"FL", "FS", "FMVX", "FMV_X", "FMIN", "FMAX", "FSQRT", "FCLASS", "FCVT"}

(* The instructions that do not set the instruction pointer themselves.    *)
LiftPlain(s, i) ==
  CASE i.mnem \in FpMnems -> LiftFp(s, i)
    [] i.mnem = "LUI" -> StoreGp(s, i.rd, "I64", i.imm % 2^W64)
    [] i.mnem = "AUIPC" -> StoreGp(s, i.rd, "I64", Add64(s.ip, i.imm))
    [] i.mnem \in DOMAIN Loads -> LiftLoad(s, i, Loads[i.mnem][1], Loads[i.mnem][2])
    [] i.mnem \in DOMAIN Stores -> LiftStore(s, i, Stores[i.mnem])
    [] i.mnem \in DOMAIN BinOpR -> LiftBinOpR(s, i, BinOpR[i.mnem][1], BinOpR[i.mnem][2])
    [] i.mnem \in DOMAIN BinOpI -> LiftBinOpI(s, i, BinOpI[i.mnem][1], BinOpI[i.mnem][2])
    [] i.mnem \in DOMAIN ShiftI -> LiftShift(s, i, ShiftI[i.mnem][1], ShiftI[i.mnem][2], i.imm)
    [] i.mnem \in DOMAIN ShiftR ->
         LiftShift(s, i, ShiftR[i.mnem][1], ShiftR[i.mnem][2], LoadGp(s, i.rs2, ShiftR[i.mnem][2]))
    [] i.mnem \in DOMAIN Sets ->
         StoreGp(s, i.rd, "I64", Flag(ICmp(Sets[i.mnem][1], LoadGp(s, i.rs1, "I64"),
           IF Sets[i.mnem][2] THEN i.imm % 2^W64 ELSE LoadGp(s, i.rs2, "I64"))))
    [] i.mnem \in DOMAIN Mulhs -> LiftMulh(s, i, Mulhs[i.mnem][1], Mulhs[i.mnem][2])
    [] i.mnem \in DOMAIN DivRem -> LiftDivRem(s, i, DivRem[i.mnem][1], DivRem[i.mnem][2])
    [] i.mnem = "CSR" -> StoreGp(s, i.rd, "I32", 0)   \* fflags, frm, fcsr
    [] i.mnem = "LRW" -> LiftLrw(s, i)
    [] i.mnem = "SCW" -> LiftScw(s, i)
    [] i.mnem \in {"FENCE", "ECALL"} -> s
    [] i.mnem \in DOMAIN Amos -> LiftAmo(s, i, Amos[i.mnem], i.fmt)

(* FENCE.I, EBREAK, LR.D, SC.D and the other control registers are not     *)
(* lifted: IP is at their start.                                           *)
Unhandled == {"FENCEI", "EBREAK", "LRD", "SCD", "CSR_other"}

Lift(s, i) ==
  CASE i.mnem \in Unhandled -> s
    [] i.mnem \in {"JAL", "JALR"} -> LiftJal(s, i)
    [] i.mnem \in DOMAIN Branches -> LiftBranch(s, i, Branches[i.mnem])
    [] OTHER -> [LiftPlain(s, i) EXCEPT !.ip = Add64(s.ip, i.len)]
-----------------------------------------------------------------------------
(* Instr::Kind and Instr::JumpTarget, from which functions and blocks are  *)
(* discovered before anything is lifted.                                   *)
Kind(i) ==
  CASE i.mnem \in DOMAIN Branches -> "COND_BRANCH"
    [] i.mnem \in {"JAL", "JALR"} -> IF i.rd # "x0" THEN "CALL" ELSE "BRANCH"
    [] i.mnem \in {"ECALL", "EBREAK"} -> "UNKNOWN"
    [] OTHER -> "OTHER"

HasTarget(i) == Kind(i) = "COND_BRANCH" \/ i.mnem = "JAL"

JumpTarget(i, start) == Add64(start, i.imm)
=============================================================================
