----------------------------- MODULE X86Lifter ------------------------------
(***************************************************************************)
(* The lifter for general purpose x86-64 instructions                      *)
(* (rellume/src/x86-64/lifter-gp.cc, lifter-flags.cc, lifter-operand.cc    *)
(* and the dispatch of lifter.cc).  LiftX(s, i) is what the IR that LiftX  *)
(* emits for instruction i does to state s.  A lock prefix turns a         *)
(* read-modify-write into one atomicrmw or cmpxchg, which a single guest   *)
(* thread cannot tell from the load and the store.                         *)
(*                                                                         *)
(* An instruction is [t, op, opsz, addrsz, rep]: its type, its operands,   *)
(* the operand and address size in bytes, and the repeat prefix.           *)
(***************************************************************************)
EXTENDS RegFile

CONSTANTS
  FsBase,     \* the cpu structure's FSBASE
  CpuInfo,    \* what cpuinfo_function returns for EAX and ECX: two 64-bit words
  Tsc         \* what the cycle counter reads

W64 == Width(8)
Add64(a, b) == (a + b) % 2^W64

(* A GEP: n elements of size bytes after p.                                *)
GEP(p, size, n) == (p + size * Signed(n % 2^W64, W64)) % 2^W64

OpBits(o) == Width(o.sz)

(* OpAddr.  With a segment or 32-bit addresses the address is computed as  *)
(* an integer, otherwise with pointers; the base gets the displacement in  *)
(* elements of the scale if the scale divides it.                          *)
OpAddr(s, o) ==
  LET ptr == o.seg # "FS" /\ o.addrsz = 8
      f == IF o.addrsz = 8 THEN "I64" ELSE "I32"
      base == IF o.base = Absent THEN 0 ELSE GetReg(s, o.base, IF ptr THEN "PTR" ELSE f)
      index == IF o.scale = 0 THEN 0 ELSE GetReg(s, o.index, f)
      elem == IF o.base # Absent /\ o.scale # 0 /\ o.off % o.scale = 0 THEN o.scale ELSE 1
  IN IF ptr THEN GEP(GEP(base, elem, o.off \div elem), o.scale, index)
            ELSE Add64((o.off + base + o.scale * index) % 2^Width(o.addrsz),
                       IF o.seg = "FS" THEN FsBase ELSE 0)

(* The facet a register operand names: AH, CH, DH and BH are I8H.          *)
OpFacet(o) == IF o.high THEN "I8H" ELSE Facet_In(o.sz)

OpLoad(s, o) ==
  CASE o.k = "imm" -> o.v % 2^OpBits(o)
    [] o.k = "pcrel" -> (s.ip + o.v) % 2^OpBits(o)
    [] o.k = "reg" -> GetReg(s, o.r, OpFacet(o))
    [] o.k = "mem" -> Load(s, OpAddr(s, o), o.sz)

(* StoreGpFacet: writing 32 bits clears the upper half, writing fewer      *)
(* keeps the rest of the register.                                         *)
StoreGpFacet(s, r, f, v) ==
  LET v64 == IF f = "I8H" THEN Shl(v, ByteBits, W64) ELSE v
      mask == CASE f = "I16" -> 2^W64 - 2^Width(2)
                [] f = "I8" -> 2^W64 - 2^ByteBits
                [] f = "I8H" -> 2^W64 - 2^Width(2) + 2^ByteBits - 1
                [] OTHER -> 0
      prev == GetReg(s, r, "I64")
  IN SetRegFacet(SetReg(s, r, v64 | (prev & mask)), r, f, v)

StoreGp(s, r, bytes, v) == StoreGpFacet(s, r, Facet_In(bytes), v)

OpStoreGp(s, o, v) ==
  IF o.k = "mem" THEN Store(s, OpAddr(s, o), o.sz, v)
                 ELSE StoreGpFacet(s, o.r, OpFacet(o), v)

StackPush(s, bytes, v) ==
  LET rsp == GEP(GetReg(s, "RSP", "PTR"), bytes, -1)
  IN SetRegPtr(Store(s, rsp, bytes, v), "RSP", rsp)

(* StackPop returns what is at the address in r and leaves RSP above it.   *)
StackTop(s, r) == Load(s, GetReg(s, r, "PTR"), 8)
StackPop(s, r) == SetRegPtr(s, "RSP", GEP(GetReg(s, r, "PTR"), 8, 1))
-----------------------------------------------------------------------------
(* Flags (lifter-flags.cc).  The auxiliary carry is the carry into the     *)
(* upper half of the low byte.                                             *)

Low8(v) == Trunc(v, ByteBits)

FlagAux(res, lhs, rhs) == Bit((lhs ^^ rhs) ^^ res, ByteBits \div 2)

FlagCalcZ(s, v) == SetFlags(s, [ZF |-> Flag(v = 0)])

FlagCalcSAPLogic(s, res, w) ==
  SetFlags(s, [SF |-> Flag(SLT(res, 0, w)), PF |-> Low8(res), AF |-> Undef])

FlagCalcAdd(s, res, lhs, rhs, w, skipCarry) ==
  SetFlags(s, [ZF |-> Flag(res = 0), SF |-> Flag(SLT(res, 0, w)), PF |-> Low8(res),
               AF |-> FlagAux(res, lhs, rhs),
               CF |-> IF skipCarry THEN s.fl.CF ELSE Flag(res < lhs),
               OF |-> Flag(SLT(NotW(lhs ^^ rhs, w) & (res ^^ lhs), 0, w))])

(* With alt_zf the zero flag compares lhs and rhs: the same bit.           *)
FlagCalcSub(s, res, lhs, rhs, w, skipCarry) ==
  SetFlags(s, [ZF |-> Flag(res = 0), SF |-> Flag(SLT(res, 0, w)), PF |-> Low8(res),
               AF |-> FlagAux(res, lhs, rhs),
               CF |-> IF skipCarry THEN s.fl.CF ELSE Flag(lhs < rhs),
               OF |-> Flag(SLT(res, 0, w) # SLT(lhs, rhs, w))])

(* The sixteen conditions: the odd ones negate the even ones.              *)
Conditions == <<"O", "NO", "C", "NC", "Z", "NZ", "BE", "A",
                "S", "NS", "P", "NP", "L", "GE", "LE", "G">>

FlagCond(s, n) ==
  LET less == GetFlag(s, "SF") # GetFlag(s, "OF")
      is == CASE n \div 2 = 0 -> GetFlag(s, "OF") = 1
              [] n \div 2 = 1 -> GetFlag(s, "CF") = 1
              [] n \div 2 = 2 -> GetFlag(s, "ZF") = 1
              [] n \div 2 = 3 -> GetFlag(s, "CF") = 1 \/ GetFlag(s, "ZF") = 1
              [] n \div 2 = 4 -> GetFlag(s, "SF") = 1
              [] n \div 2 = 5 -> GetFlag(s, "PF") = 1
              [] n \div 2 = 6 -> less
              [] n \div 2 = 7 -> GetFlag(s, "ZF") = 1 \/ less
  IN IF n % 2 = 1 THEN ~is ELSE is

RFLAGS_INDICES ==
  <<<<"CF", 0>>, <<"PF", 2>>, <<"AF", 4>>, <<"ZF", 6>>, <<"SF", 7>>, <<"DF", 10>>, <<"OF", 11>>>>

(* FlagAsReg: 0x202 (IF and the bit that is always set) with the flags.    *)
FlagAsReg(s, w) ==
  LET sum[n \in 0..7] == IF n = 0 THEN 514 ELSE
        sum[n - 1] | Shl(GetFlag(s, RFLAGS_INDICES[n][1]), RFLAGS_INDICES[n][2], 16)
  IN Trunc(sum[7], w)

(* FlagFromReg: the flags whose bit a value of w bits has.                 *)
FlagFromReg(s, v, w) ==
  LET Has(n) == RFLAGS_INDICES[n][2] < w
      Of(n) == LET b == Bit(v, RFLAGS_INDICES[n][2])
               IN IF RFLAGS_INDICES[n][1] = "PF" THEN 1 - b ELSE b
  IN SetFlags(s, [f \in {RFLAGS_INDICES[n][1] : n \in {k \in 1..7 : Has(k)}} |->
                    Of(CHOOSE n \in 1..7 : RFLAGS_INDICES[n][1] = f)])
-----------------------------------------------------------------------------
(* Instructions (lifter-gp.cc).                                            *)

LiftMovgp(s, i, signed) ==
  LET src == i.op[2]
      v == OpLoad(s, src)
  IN OpStoreGp(s, i.op[1],
       IF signed THEN SExt(v, OpBits(src), OpBits(i.op[1])) ELSE Trunc(v, OpBits(i.op[1])))

(* ADD, ADC, SUB, SBB, CMP and XADD.  The carry is added to op2 first.     *)
LiftArith(s, i, sub) ==
  LET w == OpBits(i.op[1])
      op1 == OpLoad(s, i.op[1])
      op2 == (OpLoad(s, i.op[2]) + (IF i.t \in {"ADC", "SBB"} THEN GetFlag(s, "CF") ELSE 0)) % 2^w
      res == IF sub THEN (op1 - op2) % 2^w ELSE (op1 + op2) % 2^w
      t == IF i.t = "CMP" THEN s ELSE OpStoreGp(s, i.op[1], res)
      u == IF i.t = "XADD" THEN OpStoreGp(t, i.op[2], op1) ELSE t
  IN IF sub THEN FlagCalcSub(u, res, op1, op2, w, FALSE) ELSE FlagCalcAdd(u, res, op1, op2, w, FALSE)

LiftCmpxchg(s, i) ==
  LET w == OpBits(i.op[1])
      acc == GetReg(s, "RAX", Facet_In(i.op[1].sz))
      src == OpLoad(s, i.op[2])
      dst == OpLoad(s, i.op[1])
      t == FlagCalcSub(s, (acc - dst) % 2^w, acc, dst, w, FALSE)
      u == OpStoreGp(t, i.op[1], IF GetFlag(t, "ZF") = 1 THEN src ELSE dst)
  IN StoreGp(u, "RAX", i.op[1].sz, dst)

LiftXchg(s, i) ==
  OpStoreGp(OpStoreGp(s, i.op[1], OpLoad(s, i.op[2])), i.op[2], OpLoad(s, i.op[1]))

LiftAndOrXor(s, i) ==
  LET w == OpBits(i.op[1])
      op1 == OpLoad(s, i.op[1])
      op2 == OpLoad(s, i.op[2])
      res == CASE i.t \in {"AND", "TEST"} -> op1 & op2 [] i.t = "OR" -> op1 | op2 [] i.t = "XOR" -> op1 ^^ op2
      t == IF i.t = "TEST" THEN s ELSE OpStoreGp(s, i.op[1], res)
  IN SetFlags(FlagCalcSAPLogic(FlagCalcZ(t, res), res, w), [CF |-> 0, OF |-> 0])

LiftNot(s, i) == OpStoreGp(s, i.op[1], NotW(OpLoad(s, i.op[1]), OpBits(i.op[1])))

LiftNeg(s, i) ==
  LET w == OpBits(i.op[1])
      op1 == OpLoad(s, i.op[1])
      res == Neg(op1, w)
  IN OpStoreGp(FlagCalcSub(s, res, 0, op1, w, FALSE), i.op[1], res)

LiftIncDec(s, i) ==
  LET w == OpBits(i.op[1])
      op1 == OpLoad(s, i.op[1])
      res == (IF i.t = "DEC" THEN op1 - 1 ELSE op1 + 1) % 2^w
      t == OpStoreGp(s, i.op[1], res)
  IN IF i.t = "DEC" THEN FlagCalcSub(t, res, op1, 1, w, TRUE) ELSE FlagCalcAdd(t, res, op1, 1, w, TRUE)

(* The shift count modulo 32, or 64 for 64-bit operands.                   *)
ShiftCount(s, i, o) == OpLoad(s, o) % (IF i.op[1].sz = 8 THEN W64 ELSE Width(4))

(* SHL, SHR and SAR.  Operands of fewer than 32 bits are shifted as 32-bit *)
(* values.  The flags are set also for a count of zero: the shift that     *)
(* yields CF is then out of range, its result poison.                      *)
LiftShift(s, i) ==
  LET w == OpBits(i.op[1])
      v == IF i.op[1].sz >= 4 THEN w ELSE Width(4)
      src == OpLoad(s, i.op[1])
      srcEx == IF i.t = "SAR" THEN SExt(src, w, v) ELSE src
      n == ShiftCount(s, i, i.op[2])
      resEx == CASE i.t = "SHL" -> Shl(srcEx, n, v) [] i.t = "SHR" -> LShr(srcEx, n)
                 [] i.t = "SAR" -> AShr(srcEx, n, v)
      res == Trunc(resEx, w)
      by == (IF i.t = "SHL" THEN w - n ELSE n - 1) % 2^v
  IN SetFlags(FlagCalcSAPLogic(FlagCalcZ(OpStoreGp(s, i.op[1], res), res), res, w),
       [CF |-> IF by >= v THEN Undef ELSE Bit(srcEx, by), OF |-> Flag(SLT(src ^^ res, 0, w))])

LiftShiftdouble(s, i) ==
  LET w == OpBits(i.op[1])
      src1 == OpLoad(s, i.op[1])
      src2 == OpLoad(s, i.op[2])
      n == ShiftCount(s, i, i.op[3])
      res == IF i.t = "SHLD" THEN FShl(src1, src2, n, w) ELSE FShr(src2, src1, n, w)
  IN SetFlagUndef(FlagCalcSAPLogic(FlagCalcZ(OpStoreGp(s, i.op[1], res), res), res, w), {"OF", "CF"})

LiftRotate(s, i) ==
  LET w == OpBits(i.op[1])
      src == OpLoad(s, i.op[1])
      n == ShiftCount(s, i, i.op[2])
      res == IF i.t = "ROL" THEN FShl(src, src, n, w) ELSE FShr(src, src, n, w)
  IN SetFlagUndef(OpStoreGp(s, i.op[1], res), {"OF", "CF"})

(* MUL, and IMUL with one, two or three operands.                          *)
LiftMul(s, i) ==
  LET w == OpBits(i.op[1])
      cnt == Len(i.op)
      op1 == OpLoad(s, i.op[IF cnt = 1 THEN 1 ELSE cnt - 1])
      op2 == IF cnt = 1 THEN GetReg(s, "RAX", Facet_In(i.op[1].sz)) ELSE OpLoad(s, i.op[cnt])
      Ext(v) == IF i.t = "IMUL" THEN Signed(v, w) ELSE v
      short == Trunc(op1 * op2, w)
      ext == (Ext(op1) * Ext(op2)) % 2^(2 * w)
      t == CASE cnt > 1 -> OpStoreGp(s, i.op[1], short)
             [] i.op[1].sz = 1 -> StoreGp(s, "RAX", 2, ext)
             [] OTHER -> StoreGp(StoreGp(s, "RAX", i.op[1].sz, Trunc(ext, w)),
                                 "RDX", i.op[1].sz, LShr(ext, w))
      overflow == Flag(ext # Ext(short) % 2^(2 * w))
  IN SetFlagUndef(SetFlags(t, [OF |-> overflow, CF |-> overflow]), {"SF", "ZF", "AF", "PF"})

Dividend(s, i) ==
  IF i.op[1].sz = 1 THEN GetReg(s, "RAX", "I16")
  ELSE GetReg(s, "RAX", Facet_In(i.op[1].sz))
         | Shl(GetReg(s, "RDX", Facet_In(i.op[1].sz)), OpBits(i.op[1]), 2 * OpBits(i.op[1]))

(* DIV and IDIV in twice the width, without the divide error.              *)
LiftDiv(s, i) ==
  LET w == OpBits(i.op[1])
      dividend == Dividend(s, i)
      divisor == OpLoad(s, i.op[1])
      quot == Trunc(IF i.t = "DIV" THEN dividend \div divisor
                    ELSE SDiv(dividend, SExt(divisor, w, 2 * w), 2 * w), w)
      rem == Trunc(IF i.t = "DIV" THEN dividend % divisor
                   ELSE SRem(dividend, SExt(divisor, w, 2 * w), 2 * w), w)
      t == IF i.op[1].sz = 1
           THEN StoreGpFacet(StoreGpFacet(s, "RAX", "I8", quot), "RAX", "I8H", rem)
           ELSE StoreGp(StoreGp(s, "RAX", i.op[1].sz, quot), "RDX", i.op[1].sz, rem)
  IN SetFlagUndef(t, Flags \ {"DF"})

LiftLea(s, i) ==
  LET o == i.op[2]
      f == Facet_In(o.addrsz)
      res == (o.off + (IF o.base = Absent THEN 0 ELSE GetReg(s, o.base, f))
                    + (IF o.scale = 0 THEN 0 ELSE o.scale * GetReg(s, o.index, f)))
             % 2^Width(o.addrsz)
  IN OpStoreGp(s, i.op[1], Trunc(res, OpBits(i.op[1])))

LiftXlat(s, i) ==
  StoreGp(s, "RAX", 1, Load(s, GEP(GetReg(s, "RBX", IF i.addrsz = 8 THEN "PTR" ELSE "I32"), 1,
                                   GetReg(s, "RAX", "I8")), 1))

(* "Note that 32-bit registers are still zero-extended when cond is false" *)
LiftCmovcc(s, i, n) ==
  OpStoreGp(s, i.op[1], OpLoad(s, IF FlagCond(s, n) THEN i.op[2] ELSE i.op[1]))

LiftSetcc(s, i, n) == OpStoreGp(s, i.op[1], Flag(FlagCond(s, n)))

(* CBW, CWDE, CDQE and CWD, CDQ, CQO.                                      *)
LiftCext(s, i) ==
  LET half == i.opsz \div 2
  IN StoreGp(s, "RAX", i.opsz, SExt(GetReg(s, "RAX", Facet_In(half)), Width(half), Width(i.opsz)))

LiftCsep(s, i) ==
  StoreGp(s, "RDX", i.opsz,
          AShr(GetReg(s, "RAX", Facet_In(i.opsz)), Width(i.opsz) - 1, Width(i.opsz)))

(* BSF and BSR; TZCNT and LZCNT are lifted like them.                      *)
LiftBitscan(s, i) ==
  LET w == OpBits(i.op[2])
      src == OpLoad(s, i.op[2])
      res == IF i.t \in {"BSF", "TZCNT"} THEN CtTz(src, w) ELSE w - 1 - CtLz(src, w)
  IN SetFlagUndef(FlagCalcZ(OpStoreGp(s, i.op[1], res), src), {"OF", "SF", "AF", "PF", "CF"})

(* BT, BTC, BTR and BTS.  With a bit number in a register and a bit string *)
(* in memory, the operand is the word of the string the bit is in.         *)
LiftBittest(s, i) ==
  LET w == OpBits(i.op[1])
      index == OpLoad(s, i.op[2])
      addr == IF i.op[2].k = "reg" THEN GEP(OpAddr(s, i.op[1]), i.op[1].sz, Signed(index, w) \div w)
                                   ELSE OpAddr(s, i.op[1])
      mem == i.op[1].k = "mem"
      mask == 2^(index % w)
      val == IF mem THEN Load(s, addr, i.op[1].sz) ELSE OpLoad(s, i.op[1])
      new == CASE i.t = "BTS" -> val | mask [] i.t = "BTC" -> val ^^ mask
               [] i.t = "BTR" -> val & NotW(mask, w) [] OTHER -> val
      t == CASE i.t = "BT" -> s
             [] i.t # "BT" /\ mem -> Store(s, addr, i.op[1].sz, new)
             [] i.t # "BT" /\ ~mem -> OpStoreGp(s, i.op[1], new)
  IN SetFlagUndef(SetFlags(t, [CF |-> Flag(val & mask # 0)]), {"OF", "SF", "AF", "PF"})

ByteSwap(v, n) ==
  LET sum[k \in 0..n] ==
        IF k = 0 THEN 0 ELSE sum[k - 1] + Trunc(LShr(v, Width(k - 1)), ByteBits) * 2^Width(n - k)
  IN sum[n]

(* BSWAP and MOVBE.                                                        *)
LiftBswap(s, i) == OpStoreGp(s, i.op[1], ByteSwap(OpLoad(s, i.op[Len(i.op)]), i.op[1].sz))
-----------------------------------------------------------------------------
(* Control transfers.                                                      *)

LiftJmp(s, i) == SetIP(s, OpLoad(s, i.op[1]))

LiftJcc(s, i, n) == SetIP(s, IF FlagCond(s, n) THEN OpLoad(s, i.op[1]) ELSE s.ip)

LiftJcxz(s, i) ==
  SetIP(s, IF GetReg(s, "RCX", Facet_In(i.addrsz)) = 0 THEN OpLoad(s, i.op[1]) ELSE s.ip)

LiftLoop(s, i) ==
  LET cx == (GetReg(s, "RCX", Facet_In(i.addrsz)) - 1) % 2^Width(i.addrsz)
      t == StoreGp(s, "RCX", i.addrsz, cx)
      zf == GetFlag(s, "ZF") = 1
      cond == cx # 0 /\ (i.t = "LOOPZ" => zf) /\ (i.t = "LOOPNZ" => ~zf)
  IN SetIP(t, IF cond THEN OpLoad(t, i.op[1]) ELSE t.ip)

(* cfg.call_ret_clobber_flags, as the server sets it.                      *)
ClobberFlags(s) == SetFlagUndef(s, Flags \ {"DF"})

(* Without a call function the block ends with the callee's address in IP. *)
LiftCall(s, i) ==
  LET t == ClobberFlags(s)
      rip == OpLoad(t, i.op[1])
  IN SetIP(StackPush(t, 8, t.ip), rip)

LiftRet(s, i) ==
  LET t == StackPop(ClobberFlags(s), "RSP")
      u == SetIP(t, StackTop(s, "RSP"))
  IN IF i.op = <<>> THEN u ELSE SetRegPtr(u, "RSP", GEP(GetReg(u, "RSP", "PTR"), 1, i.op[1].v))

(* PUSH, POP and LEAVE; PUSHF and POPF with 64 bits.                       *)
LiftPush(s, i) == StackPush(s, i.op[1].sz, OpLoad(s, i.op[1]))
LiftPop(s, i) == OpStoreGp(StackPop(s, "RSP"), i.op[1], StackTop(s, "RSP"))
LiftLeave(s) == StoreGp(StackPop(s, "RBP"), "RBP", 8, StackTop(s, "RBP"))
LiftPushf(s) == StackPush(s, 8, FlagAsReg(s, W64))
LiftPopf(s) == FlagFromReg(StackPop(s, "RSP"), StackTop(s, "RSP"), W64)

(* LiftSyscall before the call of syscall_implementation.                  *)
LiftSyscall(s) == SetReg(SetReg(s, "RCX", s.ip), "R11", FlagAsReg(s, W64))

(* cpuinfo_function returns two words of twice 32 bits.                    *)
LiftCpuid(s) ==
  LET res == CpuInfo[GetReg(s, "RAX", "I32"), GetReg(s, "RCX", "I32")]
      t == SetReg(SetReg(s, "RAX", Trunc(res[1], Width(4))), "RCX", LShr(res[1], Width(4)))
  IN SetReg(SetReg(t, "RDX", Trunc(res[2], Width(4))), "RBX", LShr(res[2], Width(4)))

LiftRdtsc(s) ==
  SetReg(StoreGpFacet(s, "RAX", "I32", Trunc(Tsc, Width(4))), "RDX", LShr(Tsc, Width(4)))
-----------------------------------------------------------------------------
(* String instructions.  RepBegin picks the mode and the pointers, RepEnd  *)
(* moves them in the direction of DF, counts RCX down and loops.           *)

RepMode(i) ==
  LET condrep == i.t \in {"SCAS", "CMPS"}
  IN CASE i.rep = "REP" -> IF condrep THEN "REPZ" ELSE "REP"
       [] i.rep = "REPNZ" /\ condrep -> "REPNZ"
       [] OTHER -> "NO_REP"

(* LiftStos, LiftMovs, LiftScas and LiftCmps between RepBegin and RepEnd.  *)
StringBody(s, i) ==
  LET n == i.opsz
      di == GetReg(s, "RDI", "PTR")
      si == GetReg(s, "RSI", "PTR")
      ax == GetReg(s, "RAX", Facet_In(n))
      Cmp(a, b) == FlagCalcSub(s, (a - b) % 2^Width(n), a, b, Width(n), FALSE)
  IN CASE i.t = "STOS" -> Store(s, di, n, ax)
       [] i.t = "MOVS" -> Store(s, di, n, Load(s, si, n))
       [] i.t = "SCAS" -> Cmp(ax, Load(s, di, n))
       [] i.t = "CMPS" -> Cmp(Load(s, si, n), Load(s, di, n))

RepEndPointers(s, i) ==
  LET adj == IF GetFlag(s, "DF") = 1 THEN -1 ELSE 1
      Step(t, r) == SetRegPtr(t, r, GEP(GetReg(s, r, "PTR"), i.opsz, adj))
      t == Step(s, "RDI")
  IN IF i.t \in {"STOS", "SCAS"} THEN t ELSE Step(t, "RSI")

RepIteration(s, i) ==
  LET t == RepEndPointers(StringBody(s, i), i)
  IN SetReg(t, "RCX", (GetReg(t, "RCX", "I64") - 1) % 2^W64)

RepCond(s, i) ==
  /\ GetReg(s, "RCX", "I64") # 0
  /\ RepMode(i) = "REPZ" => GetFlag(s, "ZF") = 1
  /\ RepMode(i) = "REPNZ" => GetFlag(s, "ZF") = 0

LiftRepString(s, i) ==
  LET count == GetReg(s, "RCX", "I64")
      after[k \in 0..count] == IF k = 0 THEN s ELSE RepIteration(after[k - 1], i)
      n == CHOOSE k \in 1..count : ~RepCond(after[k], i) /\ \A j \in 1..(k - 1) : RepCond(after[j], i)
  IN CASE RepMode(i) = "NO_REP" -> RepEndPointers(StringBody(s, i), i)
       [] RepMode(i) # "NO_REP" /\ count = 0 -> s
       [] RepMode(i) # "NO_REP" /\ count # 0 -> after[n]

(* LiftStos's shortcut for rep stosb: memset, downwards if DF is set.      *)
LiftStosb(s) ==
  LET di == GetReg(s, "RDI", "PTR")
      cx == GetReg(s, "RCX", "I64")
      base == GEP(di, 1, 1 - cx)
      t == IF GetFlag(s, "DF") = 0
           THEN SetRegPtr(MemSet(s, di, GetReg(s, "RAX", "I8"), cx), "RDI", GEP(di, 1, cx))
           ELSE SetRegPtr(MemSet(s, base, GetReg(s, "RAX", "I8"), cx), "RDI", GEP(base, 1, -1))
  IN SetReg(t, "RCX", 0)

LiftString(s, i) ==
  IF i.t = "STOS" /\ i.rep = "REP" /\ i.opsz = 1 THEN LiftStosb(s) ELSE LiftRepString(s, i)
-----------------------------------------------------------------------------
(* Lifter::Lift.  An instruction has length 1 in the scaled address space. *)

LiftGp(s, i) ==
  CASE i.t \in {"NOP", "RDSSP", "ENDBR64"} -> s
    [] i.t = "PUSH" -> LiftPush(s, i)
    [] i.t = "POP" -> LiftPop(s, i)
    [] i.t = "PUSHF" -> LiftPushf(s)
    [] i.t = "POPF" -> LiftPopf(s)
    [] i.t = "LEAVE" -> LiftLeave(s)
    [] i.t = "CALL" -> LiftCall(s, i)
    [] i.t = "RET" -> LiftRet(s, i)
    [] i.t = "SYSCALL" -> LiftSyscall(s)
    [] i.t = "CPUID" -> LiftCpuid(s)
    [] i.t = "RDTSC" -> LiftRdtsc(s)
    [] i.t \in {"MOV", "MOVSX"} -> LiftMovgp(s, i, TRUE)
    [] i.t = "MOVZX" -> LiftMovgp(s, i, FALSE)
    [] i.t = "MOVBE" -> LiftBswap(s, i)
    [] i.t \in {"ADD", "ADC", "XADD"} -> LiftArith(s, i, FALSE)
    [] i.t \in {"SUB", "SBB", "CMP"} -> LiftArith(s, i, TRUE)
    [] i.t = "CMPXCHG" -> LiftCmpxchg(s, i)
    [] i.t = "XCHG" -> LiftXchg(s, i)
    [] i.t = "LEA" -> LiftLea(s, i)
    [] i.t = "XLATB" -> LiftXlat(s, i)
    [] i.t = "NOT" -> LiftNot(s, i)
    [] i.t = "NEG" -> LiftNeg(s, i)
    [] i.t \in {"INC", "DEC"} -> LiftIncDec(s, i)
    [] i.t \in {"AND", "OR", "XOR", "TEST"} -> LiftAndOrXor(s, i)
    [] i.t \in {"MUL", "IMUL"} -> LiftMul(s, i)
    [] i.t \in {"DIV", "IDIV"} -> LiftDiv(s, i)
    [] i.t \in {"SHL", "SHR", "SAR"} -> LiftShift(s, i)
    [] i.t \in {"ROL", "ROR"} -> LiftRotate(s, i)
    [] i.t \in {"SHLD", "SHRD"} -> LiftShiftdouble(s, i)
    [] i.t \in {"BSF", "BSR"} -> LiftBitscan(s, i)
    [] i.t \in {"BT", "BTC", "BTR", "BTS"} -> LiftBittest(s, i)
    [] i.t = "BSWAP" -> LiftBswap(s, i)
    [] i.t = "C_EX" -> LiftCext(s, i)
    [] i.t = "C_SEP" -> LiftCsep(s, i)
    [] i.t \in {"CLC", "STC"} -> SetFlags(s, [CF |-> Flag(i.t = "STC")])
    [] i.t = "CMC" -> SetFlags(s, [CF |-> 1 - GetFlag(s, "CF")])
    [] i.t \in {"CLD", "STD"} -> SetFlags(s, [DF |-> Flag(i.t = "STD")])
    [] i.t \in {"STOS", "MOVS", "SCAS", "CMPS"} -> LiftString(s, i)
    [] i.t = "CMOV" -> LiftCmovcc(s, i, i.cc)
    [] i.t = "SET" -> LiftSetcc(s, i, i.cc)
    [] i.t = "JMP" -> LiftJmp(s, i)
    [] i.t = "J" -> LiftJcc(s, i, i.cc)
    [] i.t = "JCXZ" -> LiftJcxz(s, i)
    [] i.t \in {"LOOP", "LOOPZ", "LOOPNZ"} -> LiftLoop(s, i)

(* The facets an instruction's operands read, kept from then on.           *)
OpReads(i) ==
  UNION {LET o == i.op[n] IN
         CASE o.k = "reg" -> {<<o.r, OpFacet(o)>>}
           [] o.k = "mem" -> {<<o.base, "PTR">>, <<o.index, "I64">>}
           [] OTHER -> {} : n \in DOMAIN i.op}

Lift(s, i) ==
  IF i.t = "UD2" THEN s      \* not lifted: IP is at the start again
  ELSE LiftGp(Keep(SetIP(s, Add64(s.ip, 1)), OpReads(i)), i)
=============================================================================
