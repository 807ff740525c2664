------------------------------ MODULE A64Code -------------------------------
(***************************************************************************)
(* Lifted AArch64 code runs beside the architecture, as in Rv64Code.       *)
(***************************************************************************)
EXTENDS A64

CONSTANTS
  Insts,      \* the instructions of a block, as a function of their position
  Starts,     \* initial states, as records [gp, vec, fl, mem, ip]
  MaxInsts    \* bound: instructions of a block

VARIABLES
  lifted,     \* the state of the lifted code
  arch,       \* the state of the architecture
  last,       \* the last instruction
  insts       \* instructions lifted so far

vars == <<lifted, arch, last, insts>>
-----------------------------------------------------------------------------
(* The architecture (external): the Arm manual.  Vector registers hold     *)
(* numbers, flags are n, z, c and v.                                       *)

AX(a, r, w) == IF r = "zr" THEN 0 ELSE a.gp[r] % 2^w

AS(a, r, w) == Signed(AX(a, r, w), w)

ASet(a, r, w, v) == IF r = "zr" THEN a ELSE [a EXCEPT !.gp[r] = v % 2^w]

AV(a, r, w) == a.vec[r] % 2^w

ASetV(a, r, w, v) == [a EXCEPT !.vec[r] = v % 2^w]

AddWithCarry(x, y, c, w) ==
  LET u == x + y + c
      sum == Signed(x, w) + Signed(y, w) + c
      r == u % 2^w
  IN [r |-> r, n |-> r \div 2^(w - 1), z |-> Flag(r = 0), c |-> Flag(u # r), v |-> Flag(sum # Signed(r, w))]

ANzcv(a, f) == [a EXCEPT !.n = f.n, !.z = f.z, !.c = f.c, !.v = f.v]

ACond(a, cond) ==
  CASE cond = "EQ" -> a.z = 1 [] cond = "NE" -> a.z = 0 [] cond = "HS" -> a.c = 1 [] cond = "LO" -> a.c = 0
    [] cond = "MI" -> a.n = 1 [] cond = "PL" -> a.n = 0 [] cond = "VS" -> a.v = 1 [] cond = "VC" -> a.v = 0
    [] cond = "HI" -> a.c = 1 /\ a.z = 0 [] cond = "LS" -> a.c = 0 \/ a.z = 1
    [] cond = "GE" -> a.n = a.v [] cond = "LT" -> a.n # a.v
    [] cond = "GT" -> a.z = 0 /\ a.n = a.v [] cond = "LE" -> a.z = 1 \/ a.n # a.v
    [] cond \in {"AL", "NV"} -> TRUE

(* The number of w bits whose bit k is From[k].                            *)
FromBits(From, w) ==
  LET sum[k \in 0 .. w] == IF k = 0 THEN 0 ELSE sum[k - 1] + From[k - 1] * 2^(k - 1) IN sum[w]

ARotate(x, k, w) == FromBits([j \in 0 .. (w - 1) |-> Bit(x, (j + k) % w)], w)

AShift(x, sh, k, w) ==
  CASE sh = "LSL" -> (x * 2^k) % 2^w [] sh = "LSR" -> x \div 2^k
    [] sh = "ASR" -> (Signed(x, w) \div 2^k) % 2^w [] sh = "ROR" -> ARotate(x, k, w)

AExtBytes(ext) ==
  CASE ext \in {"UXTB", "SXTB"} -> 1 [] ext \in {"UXTH", "SXTH"} -> 2 [] ext \in {"UXTW", "SXTW"} -> 4 [] OTHER -> 8

AExt(x, ext) ==
  LET n == Width(AExtBytes(ext))
  IN IF ext \in {"SXTB", "SXTH", "SXTW", "SXTX"} THEN Signed(x % 2^n, n) ELSE x % 2^n

(* Arithmetic and logic: the operand, the result and the flags.            *)
AArith(a, i, w) ==
  LET x == AX(a, i.rn, w)
      form == BinOps[i.op][2]
      y == CASE form = "IMM" -> i.imm % 2^w
             [] form = "SHIFT" -> AShift(AX(a, i.rm, w), i.sh, i.amount, w)
             [] form = "EXT" -> (AExt(AX(a, i.rm, w), i.ext) * 2^i.amount) % 2^w
      res == CASE i.op \in {"ADD_IMM", "MOV_SP", "CMN_IMM", "ADD_SHIFTED", "CMN_SHIFTED", "ADD_EXT", "CMN_EXT"} ->
                    AddWithCarry(x, y, 0, w)
               [] i.op \in {"SUB_IMM", "CMP_IMM", "SUB_SHIFTED", "NEG", "CMP_SHIFTED", "SUB_EXT", "CMP_EXT"} ->
                    AddWithCarry(x, NotW(y, w), 1, w)
               [] OTHER ->
                    LET r == CASE i.op \in {"AND_IMM", "TST_IMM", "AND_SHIFTED", "TST_SHIFTED"} -> x & y
                               [] i.op = "BIC" -> x & NotW(y, w)
                               [] i.op \in {"ORR_IMM", "ORR_SHIFTED"} -> x | y
                               [] i.op \in {"ORN", "MVN"} -> x | NotW(y, w)
                               [] i.op \in {"EOR_IMM", "EOR_SHIFTED"} -> x ^^ y
                               [] i.op = "EON" -> x ^^ NotW(y, w)
                    IN [r |-> r, n |-> Bit(r, w - 1), z |-> Flag(r = 0), c |-> 0, v |-> 0]
      t == ASet(a, i.rd, w, res.r)
  IN IF i.set_flags THEN ANzcv(t, res) ELSE t

ACarry(a, i, w) ==
  LET y == AX(a, i.rm, w)
      res == AddWithCarry(AX(a, i.rn, w), IF i.op = "ADC" THEN y ELSE NotW(y, w), a.c, w)
      t == ASet(a, i.rd, w, res.r)
  IN IF i.set_flags THEN ANzcv(t, res) ELSE t

(* Bit fields, bit by bit: source bit of bit j of rd, or what it is.       *)
AField(a, i, w) ==
  LET n == AX(a, i.rn, w)
      d == AX(a, i.rd, w)
      hi == i.lsb + i.width
      Dst(j) == j >= i.lsb /\ j < hi
  IN FromBits([j \in 0 .. (w - 1) |->
       CASE i.op = "BFI" -> IF Dst(j) THEN Bit(n, j - i.lsb) ELSE Bit(d, j)
         [] i.op = "BFC" -> IF Dst(j) THEN 0 ELSE Bit(d, j)
         [] i.op = "BFXIL" -> IF j < i.width THEN Bit(n, j + i.lsb) ELSE Bit(d, j)
         [] i.op = "UBFIZ" -> IF Dst(j) THEN Bit(n, j - i.lsb) ELSE 0
         [] i.op = "SBFIZ" -> IF Dst(j) THEN Bit(n, j - i.lsb) ELSE IF j < i.lsb THEN 0 ELSE Bit(n, i.width - 1)
         [] i.op = "UBFX" -> IF j < i.width THEN Bit(n, j + i.lsb) ELSE 0
         [] i.op = "SBFX" -> IF j < i.width THEN Bit(n, j + i.lsb) ELSE Bit(n, hi - 1)
         [] i.op = "MOVK" -> IF j >= i.lsb /\ j < i.lsb + Width(2) THEN Bit(i.imm, j - i.lsb) ELSE Bit(d, j)
         [] i.op = "EXTR" -> IF j + i.imm < w THEN Bit(AX(a, i.rm, w), j + i.imm) ELSE Bit(n, j + i.imm - w)], w)

(* Bit j of x with the bytes of every group of n bytes in reverse order.   *)
ARev(x, n, w) ==
  FromBits([j \in 0 .. (w - 1) |->
    LET g == Width(n)
        k == j % g
    IN Bit(x, (j - k) + (n - 1 - (k \div ByteBits)) * ByteBits + (k % ByteBits))], w)

ALeading(x, w) == w - Cardinality({j \in 0 .. (w - 1) : x >= 2^j})

AInt(a, i, w) ==
  LET x == AX(a, i.rn, w)
      y == AX(a, i.rm, w)
      z == AX(a, i.ra, w)
      sx == AS(a, i.rn, w)
      sy == AS(a, i.rm, w)
      q == IF sy = 0 THEN 0 ELSE Abs(sx) \div Abs(sy)
  IN CASE i.op = "MOV_IMM" -> i.imm
       [] i.op \in {"ASR_IMM", "LSL_IMM", "LSR_IMM", "ROR_IMM"} ->
            AShift(x, CASE i.op = "ASR_IMM" -> "ASR" [] i.op = "LSL_IMM" -> "LSL" [] i.op = "LSR_IMM" -> "LSR"
                        [] OTHER -> "ROR", i.imm, w)
       [] i.op \in {"ASRV", "LSLV", "LSRV", "RORV"} ->
            AShift(x, CASE i.op = "ASRV" -> "ASR" [] i.op = "LSLV" -> "LSL" [] i.op = "LSRV" -> "LSR"
                        [] OTHER -> "ROR", y % w, w)
       [] i.op = "EXTEND" -> AExt(x, i.ext)
       [] i.op = "UDIV" -> IF y = 0 THEN 0 ELSE x \div y
       [] i.op = "SDIV" -> IF (sx < 0) = (sy < 0) THEN q ELSE -q
       [] i.op = "RBIT" -> FromBits([j \in 0 .. (w - 1) |-> Bit(x, w - 1 - j)], w)
       [] i.op = "REV16" -> ARev(x, 2, w) [] i.op = "REV32" -> ARev(x, 4, w)
       [] i.op = "REV" -> ARev(x, w \div ByteBits, w)
       [] i.op = "CLZ" -> ALeading(x, w)
       [] i.op = "CLS" -> Cardinality({k \in 1 .. (w - 1) : \A j \in 1 .. k : Bit(x, w - 1 - j) = Bit(x, w - 1)})
       [] i.op = "MOV_REG" -> y
       [] i.op = "MUL" -> x * y [] i.op = "MADD" -> z + x * y [] i.op \in {"MSUB", "MNEG"} -> z - x * y
       [] OTHER -> AField(a, i, w)

ALong(a, i) ==
  LET prod == IF i.op \in {"SMADDL", "SMULL", "SMSUBL", "SMNEGL"} THEN AS(a, i.rn, W32) * AS(a, i.rm, W32)
                                                                  ELSE AX(a, i.rn, W32) * AX(a, i.rm, W32)
      add == i.op \in {"SMADDL", "SMULL", "UMADDL", "UMULL"}
  IN CASE i.op = "SMULH" -> (AS(a, i.rn, W64) * AS(a, i.rm, W64)) \div 2^W64
       [] i.op = "UMULH" -> (AX(a, i.rn, W64) * AX(a, i.rm, W64)) \div 2^W64
       [] OTHER -> IF add THEN AX(a, i.ra, W64) + prod ELSE AX(a, i.ra, W64) - prod

(* CSET, CINC, ... are CSINC, CSINV and CSNEG with the condition inverted. *)
ASelect(a, i, w) ==
  LET holds == ACond(a, i.cond)
      x == AX(a, i.rn, w)
      y == AX(a, i.rm, w)
  IN CASE i.op = "CSEL" -> IF holds THEN x ELSE y
       [] i.op = "CSINC" -> IF holds THEN x ELSE y + 1
       [] i.op = "CSINV" -> IF holds THEN x ELSE NotW(y, w)
       [] i.op = "CSNEG" -> IF holds THEN x ELSE NotW(y, w) + 1
       [] i.op = "CINC" -> IF ~holds THEN x ELSE x + 1
       [] i.op = "CINV" -> IF ~holds THEN x ELSE NotW(x, w)
       [] i.op = "CNEG" -> IF ~holds THEN x ELSE NotW(x, w) + 1
       [] i.op = "CSET" -> IF ~holds THEN 0 ELSE 1
       [] i.op = "CSETM" -> IF ~holds THEN 0 ELSE NotW(0, w)

ANzcvOf(k) == [n |-> k \div 8, z |-> (k \div 4) % 2, c |-> (k \div 2) % 2, v |-> k % 2]

(* FPCompare.                                                              *)
AFpCompare(x, y, w) ==
  CASE NaN(x, w) \/ NaN(y, w) -> ANzcvOf(3)
    [] ~(NaN(x, w) \/ NaN(y, w)) /\ x = y -> ANzcvOf(6)
    [] ~(NaN(x, w) \/ NaN(y, w)) /\ x < y -> ANzcvOf(8)
    [] OTHER -> ANzcvOf(2)

ACCmp(a, i, w) ==
  LET x == AX(a, i.rn, w)
      y == IF i.op \in {"CCMN_REG", "CCMP_REG"} THEN AX(a, i.rm, w) ELSE i.imm
  IN ANzcv(a, CASE ~ACond(a, i.cond) -> ANzcvOf(i.nzcv)
                [] ACond(a, i.cond) /\ i.op \in {"CCMN_REG", "CCMN_IMM"} -> AddWithCarry(x, y, 0, w)
                [] OTHER -> AddWithCarry(x, NotW(y, w), 1, w))
-----------------------------------------------------------------------------
(* Memory.                                                                 *)
AAddress(a, i, n) ==
  LET base == AX(a, i.rn, W64)
      scale == IF i.amount = 0 THEN 1 ELSE n
  IN (CASE i.mode \in {"SIMPLE", "POST"} -> base
        [] i.mode \in {"OFF_IMM", "PRE"} -> base + i.imm
        [] i.mode = "OFF_REG" -> base + AX(a, i.rm, W64) * scale
        [] i.mode = "OFF_EXT" -> base + AExt(AX(a, i.rm, W64), i.ext) * scale
        [] i.mode = "LITERAL" -> a.ip + i.imm) % 2^W64

ALoad(a, at, n) == LET sum[k \in 0 .. n] == IF k = 0 THEN 0 ELSE sum[k - 1] + a.mem[(at + k - 1) % MemSize] * 2^Width(k - 1)
                   IN sum[n]

AStore(a, at, n, v) ==
  [a EXCEPT !.mem = [x \in DOMAIN a.mem |->
     IF \E k \in 0 .. (n - 1) : x = (at + k) % MemSize
     THEN Bits(v, Width((x - at) % MemSize) + ByteBits - 1, Width((x - at) % MemSize)) ELSE a.mem[x]]]

AMem(a, i) ==
  LET fp == i.op \in {"LDR_FP", "LDP_FP", "STR_FP", "STP_FP"}
      n == IF fp THEN FpBytes[i.fsz] ELSE AExtBytes(i.ext)
      at == AAddress(a, i, n)
      pair == i.op \in {"LDP", "STP", "LDXP", "STXP", "LDP_FP", "STP_FP"}
      indexed == IF i.mode \in {"PRE", "POST"} THEN ASet(a, i.rn, W64, AX(a, i.rn, W64) + i.imm) ELSE a
      Get(t, r, k) == IF fp THEN ASetV(t, r, Width(n), ALoad(a, at + k, n))
                      ELSE ASet(t, r, WidthOf(i.w32), AExt(ALoad(a, at + k, n), i.ext))
      Put(t, r, k) == AStore(t, at + k, n, IF fp THEN a.vec[r] ELSE AX(a, r, W64))
  IN CASE i.op \in {"LDR", "LDXR", "LDP", "LDXP", "LDR_FP", "LDP_FP"} ->
            IF pair THEN Get(Get(indexed, i.rt, 0), i.rt2, n) ELSE Get(indexed, i.rt, 0)
       [] OTHER ->
            LET t == IF pair THEN Put(Put(indexed, i.rt, 0), i.rt2, n) ELSE Put(indexed, i.rt, 0)
            IN IF i.op \in {"STXR", "STXP"} THEN ASet(t, i.rs, W32, 0) ELSE t

(* Scalar floating point; a multiply-add rounds twice.                     *)
AMode(i) ==
  CASE i.rmode = "CURRENT" -> "rint" [] i.rmode = "TIE_EVEN" -> "roundeven" [] i.rmode = "TIE_AWAY" -> "round"
    [] i.rmode = "NEG_INF" -> "floor" [] i.rmode = "POS_INF" -> "ceil" [] i.rmode = "ZERO" -> "trunc"

AFpValue(a, i, w) ==
  LET x == AV(a, i.rn, w)
      y == AV(a, i.rm, w)
      z == AV(a, i.ra, w)
      xy == FBin("FMul", x, y, w)
  IN CASE i.op = "FMUL" -> xy [] i.op = "FDIV" -> FBin("FDiv", x, y, w)
       [] i.op = "FADD" -> FBin("FAdd", x, y, w) [] i.op = "FSUB" -> FBin("FSub", x, y, w)
       [] i.op = "FNMUL" -> FNeg(xy, w)
       [] i.op \in {"FMAX", "FMAXNM"} -> FMinMax("maxnum", x, y, w)
       [] i.op \in {"FMIN", "FMINNM"} -> FMinMax("minnum", x, y, w)
       [] i.op = "FMADD" -> FBin("FAdd", xy, z, w) [] i.op = "FMSUB" -> FBin("FAdd", FNeg(xy, w), z, w)
       [] i.op = "FNMADD" -> FBin("FSub", FNeg(xy, w), z, w) [] i.op = "FNMSUB" -> FBin("FSub", xy, z, w)
       [] i.op = "FABS" -> FAbs(x, w) [] i.op = "FNEG" -> FNeg(x, w) [] i.op = "FSQRT" -> FSqrt(x, w)
       [] i.op \in {"FRINT", "FRINTX"} -> FRound(AMode(i), x, w)
       [] i.op = "FCSEL" -> IF ACond(a, i.cond) THEN x ELSE y
       [] i.op = "FMOV_REG" -> x [] i.op = "FMOV_IMM" -> i.imm

AFp(a, i, w) ==
  LET gw == WidthOf(i.w32)
      x == AV(a, i.rn, w)
      ty == IF i.fsz = "S" THEN "F32" ELSE "F64"
      int == IF i.sgn THEN "signed" ELSE "unsigned"
      scale == FPow2(i.fbits, w)
      Cast(fsz, to) == ASetV(a, i.rd, FpWidth(fsz), IF i.fsz = fsz THEN x ELSE FCvt(ty, to, x, FpWidth(fsz)))
  IN CASE i.op = "FCVT_GPR" ->
            ASet(a, i.rd, gw, FCvt(ty, int, FRound(AMode(i), IF i.fbits = 0 THEN x ELSE FBin("FMul", x, scale, w), w), gw))
       [] i.op = "CVTF" ->
            LET v == FCvt(int, ty, AX(a, i.rn, gw), w)
            IN ASetV(a, i.rd, w, IF i.fbits = 0 THEN v ELSE FBin("FDiv", v, scale, w))
       [] i.op = "FCVT_S" -> Cast("S", "F32") [] i.op = "FCVT_D" -> Cast("D", "F64")
       [] i.op \in {"FCMP_REG", "FCMPE_REG"} -> ANzcv(a, AFpCompare(x, AV(a, i.rm, w), w))
       [] i.op \in {"FCMP_ZERO", "FCMPE_ZERO"} -> ANzcv(a, AFpCompare(x, 0, w))
       [] i.op \in {"FCCMP", "FCCMPE"} ->
            ANzcv(a, IF ACond(a, i.cond) THEN AFpCompare(x, AV(a, i.rm, w), w) ELSE ANzcvOf(i.nzcv))
       [] i.op = "FMOV_VEC2GPR" -> ASet(a, i.rd, gw, AV(a, i.rn, gw))
       [] i.op = "FMOV_GPR2VEC" -> ASetV(a, i.rd, gw, AX(a, i.rn, gw))
       [] i.op = "FMOV_TOP2GPR" -> ASet(a, i.rd, W64, a.vec[i.rn] \div 2^W64)
       [] i.op = "FMOV_GPR2TOP" -> [a EXCEPT !.vec[i.rd] = AV(a, i.rd, W64) + AX(a, i.rn, W64) * 2^W64]
       [] OTHER -> ASetV(a, i.rd, w, AFpValue(a, i, w))

ASys(a, i) ==
  CASE i.op = "MSR_REG" /\ i.sys = "TPIDR_EL0" -> [a EXCEPT !.tp = AX(a, i.rt, W64)]
    [] i.op = "MSR_REG" /\ i.sys = "NZCV" -> ANzcv(a, ANzcvOf((AX(a, i.rt, W32) \div 2^(W32 - 4)) % 16))
    [] i.op = "MSR_REG" /\ i.sys \in {"FPCR", "FPSR"} -> a
    [] i.op = "MRS" ->
         ASet(a, i.rt, W64,
              CASE i.sys = "TPIDR_EL0" -> a.tp
                [] i.sys = "NZCV" -> (8 * a.n + 4 * a.z + 2 * a.c + a.v) * 2^(W32 - 4)
                [] i.sys \in {"FPCR", "FPSR"} -> 0 [] OTHER -> SysConst[i.sys])
    [] i.op = "SYS" ->
         [a EXCEPT !.mem = [x \in DOMAIN a.mem |-> IF x \div ZvaBytes = (AX(a, i.rt, W64) % MemSize) \div ZvaBytes THEN 0
                                                                                                    ELSE a.mem[x]]]

ABranch(a, i) ==
  LET rt == AX(a, i.rt, WidthOf(i.w32))
      to == a.ip + i.imm
      next == a.ip + i.len
      Go(t, target) == [t EXCEPT !.ip = target % 2^W64]
  IN CASE i.op = "B" -> Go(a, to) [] i.op = "BR" -> Go(a, AX(a, i.rn, W64))
       [] i.op = "BL" -> [Go(ASet(a, "x30", W64, next), to) EXCEPT !.flow = "call"]
       [] i.op = "BLR" -> [Go(ASet(a, "x30", W64, next), AX(a, i.rn, W64)) EXCEPT !.flow = "call"]
       [] i.op = "RET" -> [Go(a, AX(a, i.rn, W64)) EXCEPT !.flow = "return"]
       [] i.op = "BCOND" -> Go(a, IF ACond(a, i.cond) THEN to ELSE next)
       [] i.op = "CBZ" -> Go(a, IF rt = 0 THEN to ELSE next) [] i.op = "CBNZ" -> Go(a, IF rt = 0 THEN next ELSE to)
       [] i.op = "TBZ" -> Go(a, IF Bit(rt, i.bit) = 0 THEN to ELSE next)
       [] i.op = "TBNZ" -> Go(a, IF Bit(rt, i.bit) = 0 THEN next ELSE to)

Branches == {"B", "BR", "BL", "BLR", "RET", "BCOND", "CBZ", "CBNZ", "TBZ", "TBNZ"}

AData(a, i) ==
  LET w == WidthOf(i.w32)
  IN CASE i.op = "ADR" -> ASet(a, i.rd, W64, a.ip + i.imm)
       [] i.op = "ADRP" -> ASet(a, i.rd, W64, (a.ip \div 2^PageBits) * 2^PageBits + i.imm)
       [] i.op \in DOMAIN BinOps -> AArith(a, i, w)
       [] i.op \in {"ADC", "SBC", "NGC"} -> ACarry(a, i, w)
       [] i.op \in FieldOps \cup DataOps -> ASet(a, i.rd, w, AInt(a, i, w))
       [] i.op \in DOMAIN LongMuls \cup {"SMULH", "UMULH"} -> ASet(a, i.rd, W64, ALong(a, i))
       [] i.op \in Selects -> ASet(a, i.rd, w, ASelect(a, i, w))
       [] i.op \in CCmps -> ACCmp(a, i, w)
       [] i.op = "CFINV" -> [a EXCEPT !.c = 1 - a.c]
       [] i.op = "SVC" -> [a EXCEPT !.flow = "syscall"]
       [] i.op \in {"HINT", "DMB"} -> a
       [] i.op = "PRFM" -> a
       [] i.op \in {"MSR_REG", "MRS", "SYS"} -> ASys(a, i)
       [] i.op \in Loads \cup Stores \cup FpMems -> AMem(a, i)
       [] i.op \in FpData \cup FpOther -> AFp(a, i, FpWidth(i.fsz))

AStep(a, i) ==
  CASE Refused(i) -> a
    [] i.op \in Branches -> ABranch(a, i)
    [] OTHER -> [AData(a, i) EXCEPT !.ip = (a.ip + i.len) % 2^W64]

(* What the code is right about.  The flags of ADCS and SBCS are computed  *)
(* after the carry was added to Rm: right unless that overflows, as an     *)
(* unsigned or as a signed number.  BLR x30 jumps to the return address.   *)
(* FMAX and FMIN drop a NaN.  A base register that is written back is not  *)
(* transferred (unpredictable in the manual).                              *)
ADefined(a, i) ==
  LET w == WidthOf(i.w32)
      fw == FpWidth(i.fsz)
  IN /\ i.op = "BLR" => i.rn # "x30"
     /\ (i.op \in {"ADC", "SBC", "NGC"} /\ i.set_flags) =>
          AX(a, i.rm, w) \notin {2^w - 1, 2^(w - 1) - 1} \/ (i.op = "ADC") = (a.c = 0)
     /\ i.op \in {"FMAX", "FMIN"} => ~NaN(AV(a, i.rn, fw), fw) /\ ~NaN(AV(a, i.rm, fw), fw)
     /\ (i.op \in Loads \cup Stores /\ i.mode \in {"PRE", "POST"}) => i.rn \notin {i.rt, i.rt2}
-----------------------------------------------------------------------------
FlagName == [ZF |-> "z", SF |-> "n", CF |-> "c", OF |-> "v"]

Init ==
  \E st \in Starts :
    /\ arch = [gp |-> st.gp, vec |-> [r \in DOMAIN st.vec |-> Num(st.vec[r])], mem |-> st.mem, ip |-> st.ip,
               tp |-> 0, flow |-> "none", n |-> st.fl.n, z |-> st.fl.z, c |-> st.fl.c, v |-> st.fl.v]
    /\ lifted = [gp |-> [r \in DOMAIN st.gp |-> [NoFacets EXCEPT !["I64"] = st.gp[r]]],
                 vec |-> [r \in DOMAIN st.vec |-> [[f \in VecFacets |-> Absent] EXCEPT !["V2I64"] = st.vec[r]]],
                 fl |-> [f \in DOMAIN FlagName |-> st.fl[FlagName[f]]], mem |-> st.mem, ip |-> st.ip, tp |-> 0,
                 flow |-> "none"]
    /\ last = [op |-> "HINT", start |-> st.ip, len |-> 0] /\ insts = 0

(* A block ends with an instruction that is not OTHER.                     *)
Ended == insts > 0 /\ (Kind(last) # "OTHER" \/ Refused(last))

Execute(i) ==
  /\ ADefined(arch, i)
  /\ ~Ended
  /\ \E l \in {Lift(lifted, i)} : lifted' = l
  /\ arch' = AStep(arch, i)
  /\ last' = i @@ [start |-> lifted.ip]
  /\ insts' = insts + 1

Finished == (insts = MaxInsts \/ Ended) /\ UNCHANGED vars

Next ==
  \/ insts < MaxInsts /\ \E i \in Insts[insts + 1] : Execute(i)
  \/ Finished

Spec == Init /\ [][Next]_vars
-----------------------------------------------------------------------------
(* The lifted code does what the instructions do (a64/main.cc): general    *)
(* and vector registers, flags that are not clobbered, thread pointer,     *)
(* memory and instruction pointer are the architecture's, calls, returns   *)
(* and system calls are where they should be, and every facet kept agrees  *)
(* with its register.  The decoder's Kind and JumpTarget foretell where    *)
(* the instruction leads (instr.h).                                        *)
A64Right ==
  /\ GpValue(lifted) = arch.gp /\ lifted.mem = arch.mem /\ lifted.tp = arch.tp
  /\ lifted.ip = arch.ip /\ lifted.flow = arch.flow
  /\ \A r \in DOMAIN arch.vec : Num(lifted.vec[r]["V2I64"]) = arch.vec[r]
  /\ \A f \in DOMAIN FlagName : lifted.fl[f] \in {Undef, arch[FlagName[f]]}
  /\ (\E f \in DOMAIN FlagName : lifted.fl[f] = Undef) => lifted.flow \in {"call", "return"}
  /\ FacetsAgree(lifted)
  /\ (insts > 0 /\ ~Refused(last)) =>
       LET end == (last.start + last.len) % 2^W64
       IN CASE Kind(last) = "OTHER" -> lifted.ip = end
            [] Kind(last) = "COND_BRANCH" -> lifted.ip \in {end, JumpTarget(last, last.start)}
            [] OTHER -> HasTarget(last) => lifted.ip = JumpTarget(last, last.start)
=============================================================================
