-------------------------------- MODULE A64 ---------------------------------
(***************************************************************************)
(* The lifter for AArch64 (rellume/src/a64/main.cc) and what the decoder   *)
(* tells the rest of rellume about an AArch64 instruction (instr.h).  As   *)
(* in X86Lifter, an operator is what the IR does that the method of its    *)
(* name emits.                                                             *)
(*                                                                         *)
(* An instruction is a farmdec::Inst, its flags spread out: op, w32,       *)
(* set_flags, registers rd, rn, rm, ra, rt, rt2, rs, an immediate or       *)
(* offset imm, lsb and width of a bit field, shift sh by amount, extend    *)
(* type ext, cond, nzcv, addressing mode, fsz, sgn, fbits, rmode, bit and  *)
(* sys (a system register).  Registers are "x0", ..., "sp", "zr" and "v0", *)
(* ... .  A state has the general and the vector registers with their      *)
(* facets, the flags, memory, the instruction pointer, TPIDR_EL0 (tp), and *)
(* what the block ends with (flow).                                        *)
(***************************************************************************)
EXTENDS RegFile

CONSTANTS
  PageBits,   \* bits of a page's offset, 12 in the code
  ZvaBytes    \* bytes that DC ZVA clears, 64 in the code

W64 == Width(8)
W32 == Width(4)
WidthOf(w32) == IF w32 THEN W32 ELSE W64

GpFacet(w32) == IF w32 THEN "I32" ELSE "I64"

GetGp(s, r, w32) == IF r = "zr" THEN 0 ELSE GetReg(s, r, GpFacet(w32))

GetPtr(s, r) == GetReg(s, r, "PTR")

SetGp_keep(s, r, w32, v) ==
  IF r = "zr" THEN s
  ELSE SetRegFacet(SetReg(s, r, IF w32 THEN 2^W32 * LShr(GetReg(s, r, "I64"), W32) + v ELSE v), r, GpFacet(w32), v)

(* A 32-bit value is zero-extended; writes to ZR are discarded.            *)
SetGp(s, r, w32, v) == IF r = "zr" THEN s ELSE SetRegFacet(SetReg(s, r, v), r, GpFacet(w32), v)

PCRel(s, off) == (s.ip + off) % 2^W64
-----------------------------------------------------------------------------
(* External: LLVM's operators on w bits.                                   *)
BinOp(op, x, y, w) ==
  CASE op = "Add" -> (x + y) % 2^w [] op = "Sub" -> (x - y) % 2^w
    [] op = "And" -> x & y [] op = "Or" -> x | y [] op = "Xor" -> x ^^ y

(* The order of n units of u bits is reversed: bswap and bitreverse.       *)
Reversed(x, u, n) ==
  LET sum[k \in 0 .. n] == IF k = 0 THEN 0 ELSE sum[k - 1] + Bits(x, u * k - 1, u * (k - 1)) * 2^(u * (n - k))
  IN sum[n]

(* ... in each group of bytes by itself.                                   *)
BSwap(x, bytes, w) ==
  LET g == Width(bytes)
      sum[k \in 0 .. (w \div g)] ==
        IF k = 0 THEN 0 ELSE sum[k - 1] + Reversed(Bits(x, g * k - 1, g * (k - 1)), ByteBits, bytes) * 2^(g * (k - 1))
  IN sum[w \div g]
-----------------------------------------------------------------------------
(* Flags.                                                                  *)

FlagCalcAdd(s, res, lhs, rhs, w) ==
  SetFlags(s, [ZF |-> Flag(res = 0), SF |-> Bit(res, w - 1), CF |-> Flag(res < lhs),
               OF |-> Bit(NotW(lhs ^^ rhs, w) & (res ^^ lhs), w - 1)])

(* The carry is set when there is no borrow.                               *)
FlagCalcSub(s, res, lhs, rhs, w) ==
  SetFlags(s, [ZF |-> Flag(lhs = rhs), SF |-> Bit(res, w - 1), CF |-> Flag(lhs >= rhs),
               OF |-> Flag((Bit(res, w - 1) = 1) # SLT(lhs, rhs, w))])

FlagCalcLogic(s, res, w) == SetFlags(s, [ZF |-> Flag(res = 0), SF |-> Bit(res, w - 1), CF |-> 0, OF |-> 0])

FlagCalcFP(s, lhs, rhs, w) ==
  LET less == FCmp("OLT", lhs, rhs, w)
  IN SetFlags(s, [SF |-> Flag(less), ZF |-> Flag(FCmp("OEQ", lhs, rhs, w)), CF |-> Flag(~less),
                  OF |-> Flag(FCmp("UNO", lhs, rhs, w))])

(* A condition and, with the lowest bit set, its opposite.                 *)
Inverted == {"NE", "LO", "PL", "VC", "LS", "LT", "LE"}

IsTrue(s, cond) ==
  LET ZF == GetFlag(s, "ZF") = 1
      CF == GetFlag(s, "CF") = 1
      SF == GetFlag(s, "SF") = 1
      OF == GetFlag(s, "OF") = 1
      res == CASE cond \in {"EQ", "NE"} -> ZF [] cond \in {"HS", "LO"} -> CF [] cond \in {"MI", "PL"} -> SF
               [] cond \in {"VS", "VC"} -> OF [] cond \in {"HI", "LS"} -> CF /\ ~ZF
               [] cond \in {"GE", "LT"} -> SF = OF [] cond \in {"GT", "LE"} -> ~ZF /\ SF = OF
               [] cond \in {"AL", "NV"} -> TRUE
  IN res # (cond \in Inverted)
-----------------------------------------------------------------------------
(* Operands.                                                               *)

Shift(v, sh, amount, w) ==
  CASE amount = 0 -> v
    [] amount > 0 /\ sh = "LSL" -> Shl(v, amount, w) [] amount > 0 /\ sh = "LSR" -> LShr(v, amount)
    [] amount > 0 /\ sh = "ASR" -> AShr(v, amount, w) [] amount > 0 /\ sh = "ROR" -> FShr(v, v, amount, w)

(* The size in bytes and the signedness of an extend type.                 *)
ExtendType == [UXTB |-> <<1, FALSE>>, UXTH |-> <<2, FALSE>>, UXTW |-> <<4, FALSE>>, UXTX |-> <<8, FALSE>>,
               SXTB |-> <<1, TRUE>>, SXTH |-> <<2, TRUE>>, SXTW |-> <<4, TRUE>>, SXTX |-> <<8, TRUE>>]

Extend(v, w32, ext, lsl) ==
  LET src == Width(ExtendType[ext][1])
      low == Trunc(v, src)
  IN Shift(IF ExtendType[ext][2] THEN SExt(low, src, WidthOf(w32)) ELSE low, "LSL", lsl, WidthOf(w32))

Ones(n) == 2^n - 1

Extract(v, lsb, width) == LShr(v, lsb) & Ones(width)

MoveField(v, lsb, width, w) == Shl(v & Ones(width), lsb, w)

(* SBFIZ, SBFX: set the bits from the field's highest one, if that is set. *)
SignField(field, msb, w) ==
  LET sext_mask == 2^w - 2^msb IN IF field & sext_mask # 0 THEN field | sext_mask ELSE field

(* The field's place in rd cleared.                                        *)
Cleared(v, lsb, width, w) == v & NotW(Trunc(Ones(width) * 2^lsb, w), w)

MulAddSub(base, addsub, lhs, rhs, signed, n) ==
  LET Long(x) == IF signed THEN Signed(x, n) ELSE x
      prod == Long(lhs) * Long(rhs)
  IN IF addsub = "Add" THEN base + prod ELSE base - prod

(* A register offset counts elements, unless it is not shifted.            *)
RegOffset(off, lsl, n) == IF lsl = 0 /\ n # 1 THEN off ELSE off * n

(* Addr: the address and the state after a pre- or post-index; n bytes are *)
(* accessed.                                                               *)
Addr(s, i, n) ==
  LET At(t, off) == <<t, (GetPtr(s, i.rn) + off) % 2^W64>>
      indexed == SetGp(s, i.rn, FALSE, (GetGp(s, i.rn, FALSE) + i.imm) % 2^W64)
  IN CASE i.mode = "SIMPLE" -> At(s, 0)
       [] i.mode = "OFF_IMM" -> At(s, i.imm)
       [] i.mode = "OFF_REG" -> At(s, RegOffset(GetGp(s, i.rm, FALSE), i.amount, n))
       [] i.mode = "OFF_EXT" -> At(s, RegOffset(Extend(GetGp(s, i.rm, TRUE), FALSE, i.ext, 0), i.amount, n))
       [] i.mode = "PRE" -> <<indexed, GetPtr(indexed, i.rn)>>
       [] i.mode = "POST" -> At(indexed, 0)
       [] i.mode = "LITERAL" -> <<s, PCRel(s, i.imm)>>
-----------------------------------------------------------------------------
(* Vector registers, as far as scalars go.                                 *)

FpBytes == [B |-> 1, H |-> 2, S |-> 4, D |-> 8, Q |-> 16]

ScalarFacet(fsz, fp) ==
  CASE fsz = "B" -> "I8" [] fsz = "H" -> "I16" [] fsz = "S" -> (IF fp THEN "F32" ELSE "I32")
    [] fsz = "D" -> (IF fp THEN "F64" ELSE "I64") [] fsz = "Q" -> "I128"

FpWidth(fsz) == Width(FpBytes[fsz])

Num(bytes) ==
  LET sum[k \in 0 .. Len(bytes)] == IF k = 0 THEN 0 ELSE sum[k - 1] + bytes[k] * 2^Width(k - 1)
  IN sum[Len(bytes)]

Bytes(v, n) == [k \in 1 .. n |-> Bits(v, Width(k) - 1, Width(k - 1))]

GetScalar(s, r, fsz, fp) == Num(GetVec(s, r, ScalarFacet(fsz, fp)))

(* The rest of the register is cleared.                                    *)
SetScalar(s, r, fsz, fp, v) ==
  LET n == FpBytes[fsz]
      full == Bytes(v, n) \o [k \in 1 .. (16 - n) |-> 0]
  IN SetVecFacet(SetVec(s, r, full), r, ScalarFacet(fsz, fp), Bytes(v, n))

(* GetElem and InsertElem for the upper of two doublewords.                *)
GetTop(s, r) == Num(SubSeq(GetVec(s, r, "V2I64"), 9, 16))

InsertTop(s, r, v) == SetVec(s, r, SubSeq(GetVec(s, r, "V2I64"), 1, 8) \o Bytes(v, 8))
-----------------------------------------------------------------------------
(* Integer instructions.                                                   *)

(* The operation, where the right operand comes from, and whether it is    *)
(* inverted.                                                               *)
BinOps ==
  [AND_IMM |-> <<"And", "IMM", FALSE>>, TST_IMM |-> <<"And", "IMM", FALSE>>, ORR_IMM |-> <<"Or", "IMM", FALSE>>,
   EOR_IMM |-> <<"Xor", "IMM", FALSE>>, ADD_IMM |-> <<"Add", "IMM", FALSE>>, MOV_SP |-> <<"Add", "IMM", FALSE>>,
   CMN_IMM |-> <<"Add", "IMM", FALSE>>, SUB_IMM |-> <<"Sub", "IMM", FALSE>>, CMP_IMM |-> <<"Sub", "IMM", FALSE>>,
   AND_SHIFTED |-> <<"And", "SHIFT", FALSE>>, TST_SHIFTED |-> <<"And", "SHIFT", FALSE>>,
   BIC |-> <<"And", "SHIFT", TRUE>>, ORR_SHIFTED |-> <<"Or", "SHIFT", FALSE>>, ORN |-> <<"Or", "SHIFT", TRUE>>,
   MVN |-> <<"Or", "SHIFT", TRUE>>, EOR_SHIFTED |-> <<"Xor", "SHIFT", FALSE>>, EON |-> <<"Xor", "SHIFT", TRUE>>,
   ADD_SHIFTED |-> <<"Add", "SHIFT", FALSE>>, CMN_SHIFTED |-> <<"Add", "SHIFT", FALSE>>,
   SUB_SHIFTED |-> <<"Sub", "SHIFT", FALSE>>, NEG |-> <<"Sub", "SHIFT", FALSE>>,
   CMP_SHIFTED |-> <<"Sub", "SHIFT", FALSE>>, ADD_EXT |-> <<"Add", "EXT", FALSE>>,
   CMN_EXT |-> <<"Add", "EXT", FALSE>>, SUB_EXT |-> <<"Sub", "EXT", FALSE>>, CMP_EXT |-> <<"Sub", "EXT", FALSE>>]

LiftBinOp(s, i, op, kind, invert_rhs) ==
  LET w == WidthOf(i.w32)
      lhs == GetGp(s, i.rn, i.w32)
      plain == CASE kind = "SHIFT" -> Shift(GetGp(s, i.rm, i.w32), i.sh, i.amount, w)
                 [] kind = "EXT" -> Extend(GetGp(s, i.rm, i.w32), i.w32, i.ext, i.amount)
                 [] kind = "IMM" -> i.imm % 2^w
      rhs == IF invert_rhs THEN NotW(plain, w) ELSE plain
      val == BinOp(op, lhs, rhs, w)
      t == SetGp(s, i.rd, i.w32, val)
  IN CASE ~i.set_flags -> t
       [] i.set_flags /\ op = "Add" -> FlagCalcAdd(t, val, lhs, rhs, w)
       [] i.set_flags /\ op = "Sub" -> FlagCalcSub(t, val, lhs, rhs, w)
       [] i.set_flags /\ op = "And" -> FlagCalcLogic(t, val, w)

(* ADC: Rn + (Rm + carry), SBC and NGC: Rn - (Rm + NOT(carry)).            *)
LiftAdc(s, i) ==
  LET w == WidthOf(i.w32)
      add == i.op = "ADC"
      lhs == GetGp(s, i.rn, i.w32)
      rhs == (GetGp(s, i.rm, i.w32) + (IF add THEN GetFlag(s, "CF") ELSE 1 - GetFlag(s, "CF"))) % 2^w
      val == BinOp(IF add THEN "Add" ELSE "Sub", lhs, rhs, w)
      t == SetGp(s, i.rd, i.w32, val)
  IN CASE ~i.set_flags -> t
       [] i.set_flags /\ add -> FlagCalcAdd(t, val, lhs, rhs, w)
       [] i.set_flags /\ ~add -> FlagCalcSub(t, val, lhs, rhs, w)

(* The moves and bit fields: rd's new value.                               *)
FieldOps == {"MOVK", "MOV_IMM", "ASR_IMM", "SBFIZ", "SBFX", "BFC", "BFI", "BFXIL", "LSL_IMM", "LSR_IMM", "UBFIZ",
             "UBFX", "EXTEND", "EXTR", "ROR_IMM"}

Field(s, i) ==
  LET w == WidthOf(i.w32)
      rn == GetGp(s, i.rn, i.w32)
      rd == GetGp(s, i.rd, i.w32)
  IN CASE i.op = "MOVK" -> Cleared(rd, i.lsb, Width(2), w) | Trunc(i.imm * 2^i.lsb, w)
       [] i.op = "MOV_IMM" -> i.imm % 2^w
       [] i.op = "ASR_IMM" -> Shift(rn, "ASR", i.imm, w)
       [] i.op = "LSL_IMM" -> Shift(rn, "LSL", i.imm, w)
       [] i.op = "LSR_IMM" -> Shift(rn, "LSR", i.imm, w)
       [] i.op = "ROR_IMM" -> Shift(rn, "ROR", i.imm, w)
       [] i.op = "SBFIZ" -> SignField(MoveField(rn, i.lsb, i.width, w), i.lsb + i.width - 1, w)
       [] i.op = "SBFX" -> SignField(Extract(rn, i.lsb, i.width), i.width - 1, w)
       [] i.op = "UBFIZ" -> MoveField(rn, i.lsb, i.width, w)
       [] i.op = "UBFX" -> Extract(rn, i.lsb, i.width)
       [] i.op = "BFC" -> Cleared(rd, i.lsb, i.width, w)
       [] i.op = "BFI" -> MoveField(rn, i.lsb, i.width, w) | Cleared(rd, i.lsb, i.width, w)
       [] i.op = "BFXIL" -> Extract(rn, i.lsb, i.width) | Cleared(rd, 0, i.width, w)
       [] i.op = "EXTEND" -> Extend(rn, i.w32, i.ext, 0)
       [] i.op = "EXTR" -> Trunc(LShr(rn * 2^w + GetGp(s, i.rm, i.w32), i.imm), w)

(* Two-source, one-source and multiply instructions: rd's new value.       *)
DataOps == {"UDIV", "SDIV", "LSLV", "LSRV", "ASRV", "RORV", "RBIT", "REV16", "REV", "REV32", "CLZ", "CLS", "MOV_REG",
            "MUL", "MADD", "MSUB", "MNEG"}

LiftSdiv(lhs, rhs, w) ==
  CASE rhs = 0 -> 0
    [] rhs # 0 /\ lhs = 2^(w - 1) /\ rhs = 2^w - 1 -> lhs
    [] OTHER -> SDiv(lhs, rhs, w)

Data(s, i) ==
  LET w == WidthOf(i.w32)
      lhs == GetGp(s, i.rn, i.w32)
      rhs == GetGp(s, i.rm, i.w32)
      base == GetGp(s, i.ra, i.w32)
      amount == rhs & (w - 1)
  IN CASE i.op = "UDIV" -> IF rhs = 0 THEN 0 ELSE lhs \div rhs
       [] i.op = "SDIV" -> LiftSdiv(lhs, rhs, w)
       [] i.op = "LSLV" -> Shl(lhs, amount, w)
       [] i.op = "LSRV" -> LShr(lhs, amount)
       [] i.op = "ASRV" -> AShr(lhs, amount, w)
       [] i.op = "RORV" -> FShr(lhs, lhs, amount, w)
       [] i.op = "RBIT" -> Reversed(lhs, 1, w)
       [] i.op = "REV16" -> BSwap(lhs, 2, w)
       [] i.op = "REV" -> Reversed(lhs, ByteBits, IF i.w32 THEN 4 ELSE 8)
       [] i.op = "REV32" -> BSwap(lhs, 4, w)
       [] i.op = "CLZ" -> CtLz(lhs, w)
       [] i.op = "CLS" -> CtLz(lhs ^^ AShr(lhs, w - 1, w), w) - 1
       [] i.op = "MOV_REG" -> rhs
       [] i.op = "MUL" -> (lhs * rhs) % 2^w
       [] i.op = "MADD" -> (base + lhs * rhs) % 2^w
       [] i.op \in {"MSUB", "MNEG"} -> (base - lhs * rhs) % 2^w

(* MulAddSub with 32-bit factors: add or subtract, signed.                 *)
LongMuls ==
  [SMADDL |-> <<"Add", TRUE>>, SMULL |-> <<"Add", TRUE>>, SMSUBL |-> <<"Sub", TRUE>>, SMNEGL |-> <<"Sub", TRUE>>,
   UMADDL |-> <<"Add", FALSE>>, UMULL |-> <<"Add", FALSE>>, UMSUBL |-> <<"Sub", FALSE>>, UMNEGL |-> <<"Sub", FALSE>>]

LiftLongMul(s, i) ==
  SetGp(s, i.rd, FALSE,
        MulAddSub(GetGp(s, i.ra, FALSE), LongMuls[i.op][1], GetGp(s, i.rn, TRUE), GetGp(s, i.rm, TRUE),
                  LongMuls[i.op][2], W32) % 2^W64)

LiftMulh(s, i) ==
  LET long_val == MulAddSub(0, "Add", GetGp(s, i.rn, FALSE), GetGp(s, i.rm, FALSE), i.op = "SMULH", W64)
  IN SetGp(s, i.rd, FALSE, (long_val % 2^(2 * W64)) \div 2^W64)

(* Conditional selects: what rd is if the condition holds and if not.      *)
Selects == {"CSEL", "CSINC", "CINC", "CSET", "CSINV", "CINV", "CSETM", "CSNEG", "CNEG"}

Select(s, i) ==
  LET w == WidthOf(i.w32)
      rn == GetGp(s, i.rn, i.w32)
      rm == GetGp(s, i.rm, i.w32)
  IN CASE i.op = "CSEL" -> <<rn, rm>>
       [] i.op = "CSINC" -> <<rn, (rm + 1) % 2^w>>
       [] i.op = "CINC" -> <<(rn + 1) % 2^w, rn>> [] i.op = "CSET" -> <<1, 0>>
       [] i.op = "CSINV" -> <<rn, NotW(rm, w)>> [] i.op = "CINV" -> <<NotW(rn, w), rn>>
       [] i.op = "CSETM" -> <<2^w - 1, 0>>
       [] i.op = "CSNEG" -> <<rn, Neg(rm, w)>> [] i.op = "CNEG" -> <<Neg(rn, w), rn>>

LiftSelect(s, i) == SetGp(s, i.rd, i.w32, Select(s, i)[IF IsTrue(s, i.cond) THEN 1 ELSE 2])

LiftCCmp(s, i, lhs, rhs, w, kind) ==
  LET t == CASE kind = "fp" -> FlagCalcFP(s, lhs, rhs, w)
             [] kind = "ccmn" -> FlagCalcAdd(s, (lhs + rhs) % 2^w, lhs, rhs, w)
             [] kind = "ccmp" -> FlagCalcSub(s, (lhs - rhs) % 2^w, lhs, rhs, w)
  IN IF IsTrue(s, i.cond) THEN t
     ELSE SetFlags(s, [SF |-> Bit(i.nzcv, 3), ZF |-> Bit(i.nzcv, 2), CF |-> Bit(i.nzcv, 1), OF |-> Bit(i.nzcv, 0)])

CCmps == {"CCMN_REG", "CCMP_REG", "CCMN_IMM", "CCMP_IMM"}

LiftIntCCmp(s, i) ==
  LiftCCmp(s, i, GetGp(s, i.rn, i.w32),
           IF i.op \in {"CCMN_REG", "CCMP_REG"} THEN GetGp(s, i.rm, i.w32) ELSE i.imm % 2^WidthOf(i.w32),
           WidthOf(i.w32), IF i.op \in {"CCMN_REG", "CCMN_IMM"} THEN "ccmn" ELSE "ccmp")
-----------------------------------------------------------------------------
(* System registers.  The NZCV flags are the top bits of a word.           *)
SysWrites == {"TPIDR_EL0", "NZCV", "FPCR", "FPSR"}

SysConst == [FPCR |-> 0, FPSR |-> 0, DCZID_EL0 |-> 4, MIDR_EL1 |-> 15 * 2^16]

LiftMsr(s, i) ==
  LET v == GetGp(s, i.rt, FALSE)
  IN CASE i.sys = "TPIDR_EL0" -> [s EXCEPT !.tp = v]
       [] i.sys = "NZCV" -> SetFlags(s, [SF |-> Bit(v, W32 - 1), ZF |-> Bit(v, W32 - 2), CF |-> Bit(v, W32 - 3),
                                         OF |-> Bit(v, W32 - 4)])
       [] OTHER -> s

LiftMrs(s, i) ==
  SetGp(s, i.rt, FALSE,
        CASE i.sys = "TPIDR_EL0" -> s.tp
          [] i.sys = "NZCV" -> GetFlag(s, "SF") * 2^(W32 - 1) + GetFlag(s, "ZF") * 2^(W32 - 2)
                               + GetFlag(s, "CF") * 2^(W32 - 3) + GetFlag(s, "OF") * 2^(W32 - 4)
          [] OTHER -> SysConst[i.sys] % 2^W64)

(* SYS: only DC ZVA, of the block that the address points into.            *)
LiftZva(s, i) == LET addr == GetGp(s, i.rt, FALSE) IN MemSet(s, addr - (addr % ZvaBytes), 0, ZvaBytes)
-----------------------------------------------------------------------------
(* Loads and stores.  LDXR and STXR are plain ones, and STXR succeeds.     *)
Loads == {"LDR", "LDP", "LDXR", "LDXP"}
Stores == {"STR", "STP", "STXR", "STXP"}
FpMems == {"LDR_FP", "LDP_FP", "STR_FP", "STP_FP"}
Pairs == {"LDP", "LDXP", "STP", "STXP", "LDP_FP", "STP_FP"}

LiftLoadStore(s, i) ==
  LET n == IF i.op \in FpMems THEN FpBytes[i.fsz] ELSE ExtendType[i.ext][1]
      at == Addr(s, i, n)
      Value(t, r) == IF i.op \in FpMems THEN GetScalar(t, r, i.fsz, TRUE) ELSE Trunc(GetGp(t, r, i.w32), Width(n))
      LoadTo(t, r, a) == IF i.op \in FpMems THEN SetScalar(t, r, i.fsz, TRUE, Load(t, a, n))
                         ELSE SetGp(t, r, i.w32, Extend(Load(t, a, n), i.w32, i.ext, 0))
      One(t, r, a) == IF i.op \in Loads \cup {"LDR_FP", "LDP_FP"} THEN LoadTo(t, r, a)
                      ELSE Store(t, a, n, Value(t, r))
      second == IF i.op \in Pairs THEN One(at[1], i.rt2, at[2] + n) ELSE at[1]
      t == One(second, i.rt, at[2])
  IN IF i.op \in {"STXR", "STXP"} THEN SetGp(t, i.rs, i.w32, 0) ELSE t
-----------------------------------------------------------------------------
(* Scalar floating point.                                                  *)
FpType(fsz) == IF fsz = "S" THEN "F32" ELSE "F64"

RoundIntrinsic == [CURRENT |-> "nearbyint", TIE_EVEN |-> "roundeven", TIE_AWAY |-> "round", NEG_INF |-> "floor",
                   ZERO |-> "trunc", POS_INF |-> "ceil"]

Round(v, mode, exact, w) == FRound(IF mode = "CURRENT" /\ exact THEN "rint" ELSE RoundIntrinsic[mode], v, w)

IntType(i) == IF i.sgn THEN "signed" ELSE "unsigned"

LiftFcvtGpr(s, i) ==
  LET w == FpWidth(i.fsz)
      fp == GetScalar(s, i.rn, i.fsz, TRUE)
      scaled == IF i.fbits > 0 THEN FBin("FMul", fp, FPow2(i.fbits, w), w) ELSE fp
  IN SetGp(s, i.rd, i.w32, FCvt(FpType(i.fsz), IntType(i), Round(scaled, i.rmode, FALSE, w), WidthOf(i.w32)))

LiftCvtf(s, i) ==
  LET w == FpWidth(i.fsz)
      fp == FCvt(IntType(i), FpType(i.fsz), GetGp(s, i.rn, i.w32), w)
  IN SetScalar(s, i.rd, i.fsz, TRUE, IF i.fbits > 0 THEN FBin("FDiv", fp, FPow2(i.fbits, w), w) ELSE fp)

FpBin == [FMUL |-> "FMul", FDIV |-> "FDiv", FADD |-> "FAdd", FSUB |-> "FSub"]

FpMinMax == [FMAX |-> "maxnum", FMAXNM |-> "maxnum", FMIN |-> "minnum", FMINNM |-> "minnum"]

(* Whether the product is negated and whether ra is subtracted.            *)
FpMadd == [FMADD |-> <<FALSE, FALSE>>, FMSUB |-> <<TRUE, FALSE>>, FNMADD |-> <<TRUE, TRUE>>, FNMSUB |-> <<FALSE, TRUE>>]

LiftFMA(a, b, c, neg_mult, sub, w) ==
  LET mul == FBin("FMul", a, b, w)
  IN FBin(IF sub THEN "FSub" ELSE "FAdd", IF neg_mult THEN FNeg(mul, w) ELSE mul, c, w)

(* The instructions that set rd to a value of their own precision.         *)
FpData == {"FRINT", "FRINTX", "FABS", "FNEG", "FSQRT", "FNMUL", "FCSEL", "FMOV_REG", "FMOV_IMM"}
          \cup DOMAIN FpBin \cup DOMAIN FpMinMax \cup DOMAIN FpMadd

FpValue(s, i) ==
  LET w == FpWidth(i.fsz)
      a == GetScalar(s, i.rn, i.fsz, TRUE)
      b == GetScalar(s, i.rm, i.fsz, TRUE)
  IN CASE i.op \in DOMAIN FpBin -> FBin(FpBin[i.op], a, b, w)
       [] i.op \in DOMAIN FpMinMax -> FMinMax(FpMinMax[i.op], a, b, w)
       [] i.op \in DOMAIN FpMadd ->
            LiftFMA(a, b, GetScalar(s, i.ra, i.fsz, TRUE), FpMadd[i.op][1], FpMadd[i.op][2], w)
       [] i.op \in {"FRINT", "FRINTX"} -> Round(a, i.rmode, i.op = "FRINTX", w)
       [] i.op = "FABS" -> FAbs(a, w) [] i.op = "FNEG" -> FNeg(a, w) [] i.op = "FSQRT" -> FSqrt(a, w)
       [] i.op = "FNMUL" -> FNeg(FBin("FMul", a, b, w), w)
       [] i.op = "FCSEL" -> IF IsTrue(s, i.cond) THEN a ELSE b
       [] i.op = "FMOV_REG" -> a [] i.op = "FMOV_IMM" -> Trunc(i.imm, w)

FpOther == {"FCVT_GPR", "CVTF", "FCVT_S", "FCVT_D", "FCMP_REG", "FCMPE_REG", "FCMP_ZERO", "FCMPE_ZERO", "FCCMP",
            "FCCMPE", "FMOV_VEC2GPR", "FMOV_GPR2VEC", "FMOV_TOP2GPR", "FMOV_GPR2TOP"}

LiftFp(s, i) ==
  LET w == FpWidth(i.fsz)
      a == GetScalar(s, i.rn, i.fsz, TRUE)
      b == GetScalar(s, i.rm, i.fsz, TRUE)
      To(fsz) == SetScalar(s, i.rd, fsz, TRUE,
                           IF fsz = i.fsz THEN a ELSE FCvt(FpType(i.fsz), FpType(fsz), a, FpWidth(fsz)))
  IN CASE i.op \in FpData -> SetScalar(s, i.rd, i.fsz, TRUE, FpValue(s, i))
       [] i.op = "FCVT_GPR" -> LiftFcvtGpr(s, i)
       [] i.op = "CVTF" -> LiftCvtf(s, i)
       [] i.op = "FCVT_S" -> To("S")
       [] i.op = "FCVT_D" -> To("D")
       [] i.op \in {"FCMP_REG", "FCMPE_REG"} -> FlagCalcFP(s, a, b, w)
       [] i.op \in {"FCMP_ZERO", "FCMPE_ZERO"} -> FlagCalcFP(s, a, 0, w)
       [] i.op \in {"FCCMP", "FCCMPE"} -> LiftCCmp(s, i, a, b, w, "fp")
       [] i.op = "FMOV_VEC2GPR" -> SetGp(s, i.rd, i.w32, GetScalar(s, i.rn, i.fsz, FALSE))
       [] i.op = "FMOV_GPR2VEC" -> SetScalar(s, i.rd, IF i.w32 THEN "S" ELSE "D", FALSE, GetGp(s, i.rn, i.w32))
       [] i.op = "FMOV_TOP2GPR" -> SetGp(s, i.rd, i.w32, GetTop(s, i.rn))
       [] i.op = "FMOV_GPR2TOP" -> InsertTop(s, i.rd, GetGp(s, i.rn, FALSE))
-----------------------------------------------------------------------------
(* Branches.  The instruction pointer is that of the instruction until it  *)
(* is set: to the target, or to the next instruction.                      *)
CondBranches == {"BCOND", "CBZ", "CBNZ", "TBZ", "TBNZ"}

Taken(s, i) ==
  LET rt == GetGp(s, i.rt, i.w32)
  IN CASE i.op = "BCOND" -> IsTrue(s, i.cond)
       [] i.op = "CBZ" -> rt = 0 [] i.op = "CBNZ" -> rt # 0
       [] i.op = "TBZ" -> rt & 2^i.bit = 0 [] i.op = "TBNZ" -> rt & 2^i.bit # 0

LiftCondBranch(s, i) == SetIP(s, IF Taken(s, i) THEN PCRel(s, i.imm) ELSE PCRel(s, i.len))

NoFlags == {"OF", "SF", "ZF", "CF"}

(* With call_ret_clobber_flags, which the server sets.                     *)
LiftCall(s, i) ==
  LET t == SetGp(SetFlagUndef(s, NoFlags), "x30", FALSE, PCRel(s, i.len))
  IN [t EXCEPT !.ip = IF i.op = "BLR" THEN GetGp(t, i.rn, FALSE) ELSE PCRel(s, i.imm), !.flow = "call"]

LiftRet(s, i) ==
  [SetFlagUndef(s, NoFlags) EXCEPT !.ip = GetGp(s, i.rn, FALSE), !.flow = "return"]

(* The instructions after which the next one follows.                      *)
LiftPlain(s, i) ==
  CASE i.op = "ADR" -> SetGp(s, i.rd, FALSE, PCRel(s, i.imm))
    [] i.op = "ADRP" -> SetGp(s, i.rd, FALSE, (s.ip - (s.ip % 2^PageBits) + i.imm) % 2^W64)
    [] i.op \in DOMAIN BinOps -> LiftBinOp(s, i, BinOps[i.op][1], BinOps[i.op][2], BinOps[i.op][3])
    [] i.op \in {"ADC", "SBC", "NGC"} -> LiftAdc(s, i)
    [] i.op \in FieldOps -> SetGp(s, i.rd, i.w32, Field(s, i))
    [] i.op \in DataOps -> SetGp(s, i.rd, i.w32, Data(s, i))
    [] i.op \in DOMAIN LongMuls -> LiftLongMul(s, i)
    [] i.op \in {"SMULH", "UMULH"} -> LiftMulh(s, i)
    [] i.op \in Selects -> LiftSelect(s, i)
    [] i.op \in CCmps -> LiftIntCCmp(s, i)
    [] i.op = "CFINV" -> SetFlags(s, [CF |-> 1 - GetFlag(s, "CF")])
    [] i.op = "SVC" -> [s EXCEPT !.flow = "syscall"]
    [] i.op \in {"HINT", "DMB"} -> s
    [] i.op = "MSR_REG" -> LiftMsr(s, i)
    [] i.op = "MRS" -> LiftMrs(s, i)
    [] i.op = "SYS" -> LiftZva(s, i)
    [] i.op \in Loads \cup Stores \cup FpMems -> LiftLoadStore(s, i)
    [] i.op = "PRFM" -> Addr(s, i, 1)[1]
    [] i.op \in FpData \cup FpOther -> LiftFp(s, i)

(* Those that Lift refuses, leaving the instruction pointer at them.       *)
Refused(i) ==
  \/ i.op \in {"UDF", "BRK"}
  \/ i.op = "MSR_REG" /\ i.sys \notin SysWrites
  \/ i.op = "MRS" /\ i.sys \notin DOMAIN SysConst \cup SysWrites
  \/ i.op = "SYS" /\ i.sys # "ZVA"
  \/ i.op \in {"FRINT", "FRINTX", "FCVT_S", "FCVT_D"} /\ i.fsz = "H"
  \/ i.op \in {"FRINT", "FRINTX"} /\ i.bit # 0

Lift(s, i) ==
  CASE Refused(i) -> s
    [] i.op \in CondBranches -> LiftCondBranch(s, i)
    [] i.op = "B" -> SetIP(s, PCRel(s, i.imm))
    [] i.op = "BR" -> SetIP(s, GetGp(s, i.rn, FALSE))
    [] i.op \in {"BL", "BLR"} -> LiftCall(s, i)
    [] i.op = "RET" -> LiftRet(s, i)
    [] OTHER -> SetIP(LiftPlain(s, i), PCRel(s, i.len))
-----------------------------------------------------------------------------
(* Instr::Kind and Instr::JumpTarget.                                      *)
Kind(i) ==
  CASE i.op \in CondBranches -> "COND_BRANCH"
    [] i.op \in {"B", "BR"} -> "BRANCH"
    [] i.op \in {"BL", "BLR"} -> "CALL"
    [] i.op \in {"RET", "SVC", "BRK"} -> "UNKNOWN"
    [] OTHER -> "OTHER"

HasTarget(i) == Kind(i) \in {"COND_BRANCH", "BRANCH", "CALL"} /\ i.op \notin {"BR", "BLR"}

JumpTarget(i, start) == (start + i.imm) % 2^W64
=============================================================================
