------------------------------ MODULE X86Code -------------------------------
(***************************************************************************)
(* Lifted x86-64 code runs beside the architecture.  From every initial    *)
(* state, a block of up to MaxInsts instructions is lifted and executed;   *)
(* the facets the register file keeps carry over from one instruction to   *)
(* the next, as they do within a block.                                    *)
(***************************************************************************)
EXTENDS X86Sse

CONSTANTS
  Starts,     \* initial states, as records [gp, vec, fl, mem]
  MaxInsts,   \* bound: instructions of a block
  MaxCount    \* bound: repetitions of a string instruction

VARIABLES
  lifted,     \* the state of the lifted code
  arch,       \* the state of the architecture
  insts       \* instructions lifted so far

-----------------------------------------------------------------------------
(* What x86-64 instructions do: the reference the lifted code is compared  *)
(* with.  Results and flags are computed in unbounded integers, and a      *)
(* register is one number.  A flag that the architecture leaves undefined  *)
(* is Undef, and so is one that the lifter leaves undefined on purpose (a  *)
(* TODO at the line) or is known to get wrong; AStep says which.           *)

AAddr(a, o) ==
  LET Reg(r) == a.gp[r] % 2^Width(o.addrsz)
      ea == (o.off + (IF o.base = Absent THEN 0 ELSE Reg(o.base))
                   + (IF o.scale = 0 THEN 0 ELSE o.scale * Reg(o.index))) % 2^Width(o.addrsz)
  IN (ea + (IF o.seg = "FS" THEN FsBase ELSE 0)) % 2^W64

APos(o) == IF o.high THEN ByteBits ELSE 0

AVal(a, o) ==
  CASE o.k = "imm" -> o.v % 2^OpBits(o)
    [] o.k = "pcrel" -> (a.ip + o.v) % 2^OpBits(o)
    [] o.k = "reg" -> (a.gp[o.r] \div 2^APos(o)) % 2^OpBits(o)
    [] o.k = "mem" -> Load(a, AAddr(a, o), o.sz)

(* Register r written at bit pos with n bytes; 32 bits clear the rest.     *)
APut(a, r, n, pos, v) ==
  LET old == (a.gp[r] \div 2^pos) % 2^Width(n)
  IN [a EXCEPT !.gp[r] = IF n >= 4 THEN v ELSE @ + (v - old) * 2^pos]

ASet(a, o, v) ==
  IF o.k = "mem" THEN Store(a, AAddr(a, o), o.sz, v) ELSE APut(a, o.r, o.sz, APos(o), v)

AReg(a, r, n) == a.gp[r] % 2^Width(n)
AFlags(a, fl) == [a EXCEPT !.fl = fl @@ a.fl]
AUndef(a, fs) == AFlags(a, [f \in fs |-> Undef])

AResult(v, w) ==
  [ZF |-> Flag(v = 0), SF |-> Flag(v >= 2^(w - 1)), PF |-> (1 + CtPop(v, ByteBits)) % 2]

(* Carry, overflow and auxiliary carry are results out of range.           *)
AArith(x, y, c, w, sub) ==
  LET Op(p, q) == IF sub THEN p - q - c ELSE p + q + c
      half == 2^(ByteBits \div 2)
  IN [CF |-> Flag(Op(x, y) \notin 0..(2^w - 1)),
      OF |-> Flag(Op(Signed(x, w), Signed(y, w)) \notin -(2^(w - 1))..(2^(w - 1) - 1)),
      AF |-> Flag(Op(x % half, y % half) \notin 0..(half - 1))] @@ AResult(Op(x, y) % 2^w, w)

(* The flags that LiftArith gets wrong with a carry: it adds the carry to  *)
(* the second operand first, where it can be lost.                         *)
AWrong(y, c, w) ==
  {f \in {"CF", "AF", "OF"} :
     /\ c = 1
     /\ \/ f = "CF" /\ y = 2^w - 1
        \/ f = "AF" /\ (y + 1) % 2^(ByteBits \div 2) = 0
        \/ f = "OF" /\ y = 2^(w - 1) - 1}

ACond(a, n) ==
  LET fl == a.fl
      is == CASE n \div 2 = 0 -> fl.OF = 1
              [] n \div 2 = 1 -> fl.CF = 1
              [] n \div 2 = 2 -> fl.ZF = 1
              [] n \div 2 = 3 -> fl.CF = 1 \/ fl.ZF = 1
              [] n \div 2 = 4 -> fl.SF = 1
              [] n \div 2 = 5 -> fl.PF = 1
              [] n \div 2 = 6 -> fl.SF # fl.OF
              [] n \div 2 = 7 -> fl.ZF = 1 \/ fl.SF # fl.OF
  IN is # (n % 2 = 1)

ARflags(a) ==
  514 + a.fl.CF + 4 * a.fl.PF + 16 * a.fl.AF + 64 * a.fl.ZF + 128 * a.fl.SF
      + 1024 * a.fl.DF + 2048 * a.fl.OF

APush(a, n, v) == LET sp == (a.gp.RSP - n) % 2^W64 IN [Store(a, sp, n, v) EXCEPT !.gp.RSP = sp]

(* One round of a string instruction, and how many there are.              *)
ARound(a, i) ==
  LET n == i.opsz
      d == IF a.fl.DF = 1 THEN -n ELSE n
      src == IF i.t \in {"STOS", "SCAS"} THEN AReg(a, "RAX", n) ELSE Load(a, a.gp.RSI, n)
      b == IF i.t \in {"STOS", "MOVS"} THEN Store(a, a.gp.RDI, n, src)
           ELSE AFlags(a, AArith(src, Load(a, a.gp.RDI, n), 0, Width(n), TRUE))
  IN [b EXCEPT !.gp.RDI = (@ + d) % 2^W64,
               !.gp.RSI = IF i.t \in {"STOS", "SCAS"} THEN @ ELSE (@ + d) % 2^W64]

ARep(a, i) ==
  LET count == a.gp.RCX
      round[k \in 0..count] == IF k = 0 THEN a ELSE ARound(round[k - 1], i)
      Stops(k) == \/ k = count
                  \/ i.t \in {"SCAS", "CMPS"} /\ k > 0
                       /\ round[k].fl.ZF = (IF i.rep = "REP" THEN 0 ELSE 1)
      m == CHOOSE k \in 0..count : Stops(k) /\ \A j \in 0..(k - 1) : ~Stops(j)
  IN [round[m] EXCEPT !.gp.RCX = count - m]
-----------------------------------------------------------------------------
(* Arithmetic, with the operands' values x and y and the width w.          *)
AArithStep(a, i, x, y, w) ==
  LET sub == i.t \in {"SUB", "SBB", "CMP"}
      c == IF i.t \in {"ADC", "SBB"} THEN a.fl.CF ELSE 0
      res == (IF sub THEN x - y - c ELSE x + y + c) % 2^w
      b == IF i.t = "CMP" THEN a ELSE ASet(a, i.op[1], res)
  IN AUndef(AFlags(IF i.t = "XADD" THEN ASet(b, i.op[2], x) ELSE b, AArith(x, y, c, w, sub)), AWrong(y, c, w))

ALogicStep(a, i, x, y, w) ==
  LET Bitwise(p, q) == CASE i.t \in {"AND", "TEST"} -> p * q [] i.t = "OR" -> p + q - p * q
                         [] i.t = "XOR" -> (p + q) % 2
      sum[k \in 0..w] == IF k = 0 THEN 0 ELSE sum[k - 1] + Bitwise(Bit(x, k - 1), Bit(y, k - 1)) * 2^(k - 1)
      b == IF i.t = "TEST" THEN a ELSE ASet(a, i.op[1], sum[w])
  IN AFlags(b, [CF |-> 0, OF |-> 0, AF |-> Undef] @@ AResult(sum[w], w))

(* A shift by zero keeps the flags, which the lifter does not ("TODO: flags *)
(* are only affected if shift != 0"); OF is defined for a shift by one.    *)
AShiftStep(a, i, x, w) ==
  LET n == AVal(a, i.op[2]) % (IF w = W64 THEN W64 ELSE Width(4))
      res == CASE i.t = "SHL" -> Shl(x, n, w) [] i.t = "SHR" -> x \div 2^n
               [] i.t = "SAR" -> (Signed(x, w) \div 2^n) % 2^w
      cf == CASE i.t = "SHL" -> IF n <= w THEN Bit(x, w - n) ELSE 0
              [] i.t = "SHR" -> Bit(x, n - 1) [] i.t = "SAR" -> (Signed(x, w) \div 2^(n - 1)) % 2
      of == CASE i.t = "SHL" -> (Bit(res, w - 1) + cf) % 2 [] i.t = "SHR" -> Bit(x, w - 1) [] i.t = "SAR" -> 0
      b == ASet(a, i.op[1], res)
  IN IF n = 0 THEN AUndef(b, Flags \ {"DF"})
     ELSE AFlags(b, [CF |-> IF i.t # "SAR" /\ n > w THEN Undef ELSE cf, AF |-> Undef,
                     OF |-> IF n = 1 THEN of ELSE Undef] @@ AResult(res, w))

(* Rotates and double shifts; the lifter leaves CF and OF undefined.       *)
ARotateStep(a, i, x, w) ==
  LET k == (AVal(a, i.op[2]) % (IF w = W64 THEN W64 ELSE Width(4))) % w
      m == IF i.t = "ROL" THEN k ELSE (w - k) % w
  IN AUndef(ASet(a, i.op[1], Shl(x, m, w) + x \div 2^(w - m)), {"OF", "CF"})

ADoubleStep(a, i, x, y, w) ==
  LET n == AVal(a, i.op[3]) % (IF w = W64 THEN W64 ELSE Width(4))
      res == IF i.t = "SHLD" THEN Shl(x, n, w) + y \div 2^(w - n) ELSE x \div 2^n + Shl(y, w - n, w)
      b == ASet(a, i.op[1], res)
  IN IF n = 0 THEN AUndef(b, Flags \ {"DF"})
     ELSE AUndef(AFlags(b, AResult(res, w)), {"AF", "OF", "CF"})

AMulStep(a, i, w) ==
  LET n == Len(i.op)
      p == AVal(a, i.op[IF n = 3 THEN 2 ELSE 1])
      q == IF n = 1 THEN AReg(a, "RAX", i.op[1].sz) ELSE AVal(a, i.op[n])
      S(v) == IF i.t = "IMUL" THEN Signed(v, w) ELSE v
      prod == S(p) * S(q)
      lo == prod % 2^w
      hi == (prod \div 2^w) % 2^w
      b == CASE n > 1 -> ASet(a, i.op[1], lo)
             [] n = 1 /\ w = ByteBits -> APut(a, "RAX", 2, 0, hi * 2^w + lo)
             [] n = 1 /\ w # ByteBits -> APut(APut(a, "RAX", i.op[1].sz, 0, lo), "RDX", i.op[1].sz, 0, hi)
  IN AUndef(AFlags(b, [CF |-> Flag(prod # S(lo)), OF |-> Flag(prod # S(lo))]), {"SF", "ZF", "AF", "PF"})

(* The quotient and the remainder, for operands without a divide error.    *)
ADividend(a, i, w) ==
  IF w = ByteBits THEN AReg(a, "RAX", 2)
  ELSE AReg(a, "RDX", i.op[1].sz) * 2^w + AReg(a, "RAX", i.op[1].sz)
ADivides(a, i) ==
  LET w == OpBits(i.op[1])
      n == ADividend(a, i, w)
      d == AVal(a, i.op[1])
  IN d # 0 /\ IF i.t = "DIV" THEN n \div d < 2^w
              ELSE LET q == Signed(SDiv(n, SExt(d, w, 2 * w), 2 * w), 2 * w)
                   IN n # 2^(2 * w - 1) /\ q \in -(2^(w - 1))..(2^(w - 1) - 1)
ADivStep(a, i, w) ==
  LET S(v, u) == IF i.t = "IDIV" THEN Signed(v, u) ELSE v
      n == S(ADividend(a, i, w), 2 * w)
      d == S(AVal(a, i.op[1]), w)
      q == CHOOSE k \in -(2^w)..(2^w) : /\ Abs(n - k * d) < Abs(d)
                                        /\ n - k * d = 0 \/ (n - k * d < 0) = (n < 0)
      Put(b, r, pos, v) == APut(b, r, i.op[1].sz, pos, v % 2^w)
  IN AUndef(Put(Put(a, "RAX", 0, q), IF w = ByteBits THEN "RAX" ELSE "RDX",
                IF w = ByteBits THEN ByteBits ELSE 0, n - q * d), Flags \ {"DF"})

(* A bit of a register, or of the bit string that starts at an address.    *)
ABitStep(a, i, w) ==
  LET idx == AVal(a, i.op[2])
      string == i.op[1].k = "mem" /\ i.op[2].k = "reg"
      at == IF string THEN [i.op[1] EXCEPT !.off = @ + i.op[1].sz * (Signed(idx, w) \div w)] ELSE i.op[1]
      old == AVal(a, at)
      bit == Bit(old, idx % w)
      new == CASE i.t = "BT" -> bit [] i.t = "BTS" -> 1 [] i.t = "BTR" -> 0 [] i.t = "BTC" -> 1 - bit
      b == IF i.t = "BT" THEN a ELSE ASet(a, at, old + (new - bit) * 2^(idx % w))
  IN AUndef(AFlags(b, [CF |-> bit]), {"OF", "SF", "AF", "PF"})
-----------------------------------------------------------------------------
AGpStep(a, i) ==
  LET w == OpBits(i.op[1])
      x == AVal(a, i.op[1])
      y == AVal(a, i.op[2])
      Swapped(v, n) == LET sum[k \in 0..n] == IF k = 0 THEN 0 ELSE
                             sum[k - 1] + Bits(v, Width(k) - 1, Width(k - 1)) * 2^Width(n - k)
                       IN sum[n]
  IN CASE i.t \in {"MOV", "MOVZX"} -> ASet(a, i.op[1], y)
       [] i.t = "MOVSX" -> ASet(a, i.op[1], SExt(y, OpBits(i.op[2]), w))
       [] i.t = "MOVBE" -> ASet(a, i.op[1], Swapped(y, i.op[1].sz))
       [] i.t = "BSWAP" -> ASet(a, i.op[1], Swapped(x, i.op[1].sz))
       [] i.t \in {"ADD", "ADC", "XADD", "SUB", "SBB", "CMP"} -> AArithStep(a, i, x, y, w)
       [] i.t = "CMPXCHG" ->
            LET acc == AReg(a, "RAX", i.op[1].sz)
                b == AFlags(a, AArith(acc, x, 0, w, TRUE))
            IN IF acc = x THEN ASet(b, i.op[1], y)
               ELSE APut(ASet(b, i.op[1], x), "RAX", i.op[1].sz, 0, x)
       [] i.t = "XCHG" -> ASet(ASet(a, i.op[1], y), i.op[2], x)
       [] i.t = "LEA" -> ASet(a, i.op[1], AAddr(a, i.op[2]) % 2^w)
       [] i.t = "NOT" -> ASet(a, i.op[1], 2^w - 1 - x)
       [] i.t = "NEG" -> AFlags(ASet(a, i.op[1], (-x) % 2^w), AArith(0, x, 0, w, TRUE))
       [] i.t \in {"INC", "DEC"} ->
            AFlags(ASet(a, i.op[1], (IF i.t = "INC" THEN x + 1 ELSE x - 1) % 2^w),
                   [CF |-> a.fl.CF] @@ AArith(x, 1, 0, w, i.t = "DEC"))
       [] i.t \in {"AND", "OR", "XOR", "TEST"} -> ALogicStep(a, i, x, y, w)
       [] i.t \in {"MUL", "IMUL"} -> AMulStep(a, i, w)
       [] i.t \in {"DIV", "IDIV"} -> ADivStep(a, i, w)
       [] i.t \in {"SHL", "SHR", "SAR"} -> AShiftStep(a, i, x, w)
       [] i.t \in {"ROL", "ROR"} -> ARotateStep(a, i, x, w)
       [] i.t \in {"SHLD", "SHRD"} -> ADoubleStep(a, i, x, y, w)
       [] i.t \in {"BSF", "BSR"} ->
            LET ones == {k \in 0..(w - 1) : Bit(y, k) = 1}
                r == CHOOSE k \in ones : \A j \in ones : IF i.t = "BSF" THEN k <= j ELSE k >= j
            IN AUndef(AFlags(ASet(a, i.op[1], r), [ZF |-> 0]), {"OF", "SF", "AF", "PF", "CF"})
       [] i.t \in {"BT", "BTC", "BTR", "BTS"} -> ABitStep(a, i, w)
       [] i.t = "CMOV" -> ASet(a, i.op[1], IF ACond(a, i.cc) THEN y ELSE x)
       [] i.t = "SET" -> ASet(a, i.op[1], Flag(ACond(a, i.cc)))
       [] i.t = "PUSH" -> APush(a, i.op[1].sz, x)
       [] i.t = "POP" -> ASet([a EXCEPT !.gp.RSP = (@ + 8) % 2^W64], i.op[1], Load(a, a.gp.RSP, 8))
       [] i.t = "CALL" -> [APush(AUndef(a, Flags \ {"DF"}), 8, a.ip) EXCEPT !.ip = x]
       [] i.t = "RET" -> [AUndef(a, Flags \ {"DF"}) EXCEPT
                            !.ip = Load(a, a.gp.RSP, 8), !.gp.RSP = (@ + 8 + x) % 2^W64]
       [] i.t = "JMP" -> [a EXCEPT !.ip = x]
       [] i.t = "J" -> IF ACond(a, i.cc) THEN [a EXCEPT !.ip = x] ELSE a
       [] i.t = "JCXZ" -> IF AReg(a, "RCX", i.addrsz) = 0 THEN [a EXCEPT !.ip = x] ELSE a
       [] i.t \in {"LOOP", "LOOPZ", "LOOPNZ"} ->
            LET cx == (AReg(a, "RCX", i.addrsz) - 1) % 2^Width(i.addrsz)
                taken == cx # 0 /\ (i.t = "LOOP" \/ a.fl.ZF = Flag(i.t = "LOOPZ"))
            IN [APut(a, "RCX", i.addrsz, 0, cx) EXCEPT !.ip = IF taken THEN x ELSE @]

APlainStep(a, i) ==
  CASE i.t \in {"NOP", "RDSSP", "ENDBR64"} -> a
    [] i.t = "RET" -> [AUndef(a, Flags \ {"DF"}) EXCEPT
                         !.ip = Load(a, a.gp.RSP, 8), !.gp.RSP = (@ + 8) % 2^W64]
    [] i.t = "PUSHF" -> APush(a, 8, ARflags(a))
    [] i.t = "POPF" ->
         LET v == Load(a, a.gp.RSP, 8)
         IN [a EXCEPT !.gp.RSP = (@ + 8) % 2^W64,
                      !.fl = [CF |-> Bit(v, 0), PF |-> Bit(v, 2), AF |-> Bit(v, 4), ZF |-> Bit(v, 6),
                              SF |-> Bit(v, 7), DF |-> Bit(v, 10), OF |-> Bit(v, 11)]]
    [] i.t = "LEAVE" -> [a EXCEPT !.gp.RSP = (a.gp.RBP + 8) % 2^W64, !.gp.RBP = Load(a, a.gp.RBP, 8)]
    [] i.t = "SYSCALL" -> [a EXCEPT !.gp.RCX = a.ip, !.gp.R11 = ARflags(a)]
    [] i.t = "CPUID" ->
         LET r == CpuInfo[AReg(a, "RAX", 4), AReg(a, "RCX", 4)]
         IN [a EXCEPT !.gp.RAX = r[1] % 2^Width(4), !.gp.RCX = r[1] \div 2^Width(4),
                      !.gp.RDX = r[2] % 2^Width(4), !.gp.RBX = r[2] \div 2^Width(4)]
    [] i.t = "RDTSC" -> [a EXCEPT !.gp.RAX = Tsc % 2^Width(4), !.gp.RDX = Tsc \div 2^Width(4)]
    [] i.t = "XLATB" -> APut(a, "RAX", 1, 0, Load(a, a.gp.RBX + AReg(a, "RAX", 1), 1))
    [] i.t = "C_EX" -> APut(a, "RAX", i.opsz, 0,
                            SExt(AReg(a, "RAX", i.opsz \div 2), Width(i.opsz \div 2), Width(i.opsz)))
    [] i.t = "C_SEP" -> APut(a, "RDX", i.opsz, 0, IF AReg(a, "RAX", i.opsz) >= 2^(Width(i.opsz) - 1)
                                                  THEN 2^Width(i.opsz) - 1 ELSE 0)
    [] i.t \in {"CLC", "STC"} -> AFlags(a, [CF |-> Flag(i.t = "STC")])
    [] i.t = "CMC" -> AFlags(a, [CF |-> 1 - a.fl.CF])
    [] i.t \in {"CLD", "STD"} -> AFlags(a, [DF |-> Flag(i.t = "STD")])
    [] i.t \in {"STOS", "MOVS", "SCAS", "CMPS"} ->
         IF i.rep = "" \/ (i.rep = "REPNZ" /\ i.t \in {"STOS", "MOVS"}) THEN ARound(a, i) ELSE ARep(a, i)

AStep(a, i) ==
  LET b == [a EXCEPT !.ip = (@ + 1) % 2^W64]
  IN CASE i.t = "UD2" -> a
       [] i.t # "UD2" /\ i.op = <<>> -> APlainStep(b, i)
       [] i.t # "UD2" /\ i.op # <<>> -> AGpStep(b, i)

(* The flags an instruction reads, and when it is defined.                 *)
AReads(i) ==
  CASE i.t \in {"ADC", "SBB", "CMC"} -> {"CF"}
    [] i.t \in {"J", "SET", "CMOV"} -> <<{"OF"}, {"CF"}, {"ZF"}, {"CF", "ZF"}, {"SF"}, {"PF"},
                                         {"SF", "OF"}, {"ZF", "SF", "OF"}>>[i.cc \div 2 + 1]
    [] i.t \in {"LOOPZ", "LOOPNZ"} -> {"ZF"}
    [] i.t \in {"PUSHF", "SYSCALL"} -> Flags
    [] OTHER -> {}

(* A CMPXCHG that succeeds leaves the accumulator alone.  The lifter       *)
(* stores it in any case: over the destination if that is the accumulator, *)
(* and with the upper half cleared if it is 32 bits wide.  These are left  *)
(* out of the comparison.                                                  *)
AAccKept(a, i) ==
  LET o == i.op[1]
  IN i.t = "CMPXCHG" /\ AVal(a, o) = AReg(a, "RAX", o.sz) =>
       /\ ~(o.k = "reg" /\ o.r = "RAX" /\ ~o.high)
       /\ o.sz = 4 => a.gp.RAX < 2^Width(4)

(* No memory operand has bytes that FXSAVE left undefined.                 *)
AMemDefined(a, i) ==
  i.t \notin {"FXSAVE", "FXRSTOR"} =>
    \A k \in DOMAIN i.op : i.op[k].k = "mem" =>
      \A b \in 0..(i.op[k].sz - 1) : a.mem[(AAddr(a, i.op[k]) + b) % MemSize] # Undef

ADefined(a, i) ==
  /\ AAccKept(a, i) /\ AMemDefined(a, i)
  /\ \A f \in AReads(i) : a.fl[f] # Undef
  /\ i.t \in {"DIV", "IDIV"} => ADivides(a, i)
  /\ i.t \in {"BSF", "BSR"} => AVal(a, i.op[2]) # 0
  /\ i.t \in {"SHLD", "SHRD"} => AVal(a, i.op[3]) % (IF i.op[1].sz = 8 THEN W64 ELSE Width(4)) < OpBits(i.op[1])
-----------------------------------------------------------------------------
(* What SSE instructions do, lane by lane.  A vector register is its 16    *)
(* bytes.                                                                  *)

(* The bytes of an operand, and its lanes of n bytes.                      *)
ABytes(a, o, len) ==
  CASE o.k = "vec" -> SubSeq(a.vec[o.r], 1, len)
    [] o.k = "mem" -> [k \in 1..len |-> a.mem[(AAddr(a, o) + k - 1) % MemSize]]
    [] o.k = "reg" -> [k \in 1..len |-> (a.gp[o.r] \div 2^Width(k - 1)) % 2^ByteBits]

ALanes(a, o, n, len) == Elems(ABytes(a, o, len), n)

(* The low lanes of the destination become e; a store writes only them.    *)
APutLanes(a, o, n, e) ==
  LET v == Bytes(e, n)
  IN CASE o.k = "vec" -> [a EXCEPT !.vec[o.r] = v \o SubSeq(@, Len(v) + 1, 16)]
       [] o.k = "mem" -> [a EXCEPT !.mem = [x \in DOMAIN a.mem |->
            LET k == (x - AAddr(a, o)) % MemSize IN IF k < Len(v) THEN v[k + 1] ELSE a.mem[x]]]
       [] o.k = "reg" -> [a EXCEPT !.gp[o.r] = e[1]]

AClamp(v, lo, hi) == CASE v < lo -> lo [] v > hi -> hi [] OTHER -> v

(* The instructions that combine lane k of both operands: what they do to  *)
(* it and the lane's bytes.                                                *)
ALanewise ==
  [PADDB |-> <<"add", 1>>, PADDW |-> <<"add", 2>>, PADDD |-> <<"add", 4>>, PADDQ |-> <<"add", 8>>,
   PSUBB |-> <<"sub", 1>>, PSUBW |-> <<"sub", 2>>, PSUBD |-> <<"sub", 4>>, PSUBQ |-> <<"sub", 8>>,
   PADDSB |-> <<"adds", 1>>, PADDSW |-> <<"adds", 2>>, PADDUSB |-> <<"addus", 1>>, PADDUSW |-> <<"addus", 2>>,
   PSUBSB |-> <<"subs", 1>>, PSUBSW |-> <<"subs", 2>>, PSUBUSB |-> <<"subus", 1>>, PSUBUSW |-> <<"subus", 2>>,
   PMULLW |-> <<"mul", 2>>, PMULLD |-> <<"mul", 4>>, PMULHW |-> <<"mulh", 2>>, PMULHUW |-> <<"mulhu", 2>>,
   PAVGB |-> <<"avg", 1>>, PAVGW |-> <<"avg", 2>>,
   PCMPEQB |-> <<"eq", 1>>, PCMPEQW |-> <<"eq", 2>>, PCMPEQD |-> <<"eq", 4>>, PCMPEQQ |-> <<"eq", 8>>,
   PCMPGTB |-> <<"gt", 1>>, PCMPGTW |-> <<"gt", 2>>, PCMPGTD |-> <<"gt", 4>>, PCMPGTQ |-> <<"gt", 8>>,
   PMINUB |-> <<"minu", 1>>, PMINUW |-> <<"minu", 2>>, PMINUD |-> <<"minu", 4>>,
   PMAXUB |-> <<"maxu", 1>>, PMAXUW |-> <<"maxu", 2>>, PMAXUD |-> <<"maxu", 4>>,
   PMINSB |-> <<"min", 1>>, PMINSW |-> <<"min", 2>>, PMINSD |-> <<"min", 4>>,
   PMAXSB |-> <<"max", 1>>, PMAXSW |-> <<"max", 2>>, PMAXSD |-> <<"max", 4>>,
   PABSB |-> <<"abs", 1>>, PABSW |-> <<"abs", 2>>, PABSD |-> <<"abs", 4>>,
   PAND |-> <<"and", 1>>, ANDPS |-> <<"and", 1>>, ANDPD |-> <<"and", 1>>,
   POR |-> <<"or", 1>>, ORPS |-> <<"or", 1>>, ORPD |-> <<"or", 1>>,
   PXOR |-> <<"xor", 1>>, XORPS |-> <<"xor", 1>>, XORPD |-> <<"xor", 1>>,
   PANDN |-> <<"andn", 1>>, ANDNPS |-> <<"andn", 1>>, ANDNPD |-> <<"andn", 1>>]

ALane(op, x, y, w) ==
  LET sx == Signed(x, w)
      sy == Signed(y, w)
      top == 2^(w - 1)
      ones == 2^w - 1
      OnBits(F(_, _)) == LET sum[k \in 0..w] == IF k = 0 THEN 0 ELSE sum[k - 1] + F(Bit(x, k - 1), Bit(y, k - 1)) * 2^(k - 1)
                         IN sum[w]
  IN CASE op = "add" -> (x + y) % 2^w [] op = "sub" -> (x - y) % 2^w
       [] op = "adds" -> AClamp(sx + sy, -top, top - 1) % 2^w [] op = "subs" -> AClamp(sx - sy, -top, top - 1) % 2^w
       [] op = "addus" -> AClamp(x + y, 0, ones) [] op = "subus" -> AClamp(x - y, 0, ones)
       [] op = "mul" -> (x * y) % 2^w [] op = "mulhu" -> (x * y) \div 2^w
       [] op = "mulh" -> ((sx * sy) \div 2^w) % 2^w [] op = "avg" -> (x + y + 1) \div 2
       [] op = "eq" -> IF x = y THEN ones ELSE 0 [] op = "gt" -> IF sx > sy THEN ones ELSE 0
       [] op = "minu" -> IF x < y THEN x ELSE y [] op = "maxu" -> IF x < y THEN y ELSE x
       [] op = "min" -> IF sx < sy THEN x ELSE y [] op = "max" -> IF sx < sy THEN y ELSE x
       [] op = "abs" -> Abs(sy) % 2^w
       [] op = "and" -> OnBits(LAMBDA p, q : p * q) [] op = "or" -> OnBits(LAMBDA p, q : p + q - p * q)
       [] op = "xor" -> OnBits(LAMBDA p, q : (p + q) % 2) [] op = "andn" -> OnBits(LAMBDA p, q : (1 - p) * q)

(* Floating point: the operation, the lane's bytes and how many lanes.     *)
AFp ==
  [ADDSS |-> <<"FAdd", 4, 1>>, ADDSD |-> <<"FAdd", 8, 1>>, ADDPS |-> <<"FAdd", 4, 4>>, ADDPD |-> <<"FAdd", 8, 2>>,
   SUBSS |-> <<"FSub", 4, 1>>, SUBSD |-> <<"FSub", 8, 1>>, SUBPS |-> <<"FSub", 4, 4>>, SUBPD |-> <<"FSub", 8, 2>>,
   MULSS |-> <<"FMul", 4, 1>>, MULSD |-> <<"FMul", 8, 1>>, MULPS |-> <<"FMul", 4, 4>>, MULPD |-> <<"FMul", 8, 2>>,
   DIVSS |-> <<"FDiv", 4, 1>>, DIVSD |-> <<"FDiv", 8, 1>>, DIVPS |-> <<"FDiv", 4, 4>>, DIVPD |-> <<"FDiv", 8, 2>>,
   MINSS |-> <<"min", 4, 1>>, MINSD |-> <<"min", 8, 1>>, MINPS |-> <<"min", 4, 4>>, MINPD |-> <<"min", 8, 2>>,
   MAXSS |-> <<"max", 4, 1>>, MAXSD |-> <<"max", 8, 1>>, MAXPS |-> <<"max", 4, 4>>, MAXPD |-> <<"max", 8, 2>>,
   SQRTSS |-> <<"sqrt", 4, 1>>, SQRTSD |-> <<"sqrt", 8, 1>>, SQRTPS |-> <<"sqrt", 4, 4>>, SQRTPD |-> <<"sqrt", 8, 2>>,
   CMPSS |-> <<"cmp", 4, 1>>, CMPSD |-> <<"cmp", 8, 1>>, CMPPS |-> <<"cmp", 4, 4>>, CMPPD |-> <<"cmp", 8, 2>>,
   ADDSUBPS |-> <<"addsub", 4, 4>>, ADDSUBPD |-> <<"addsub", 8, 2>>]

(* A comparison with a NaN is unordered; codes 4 to 7 negate 0 to 3, and a *)
(* minimum or maximum that cannot be ordered is the second operand.        *)
AFpLane(op, k, x, y, w, code) ==
  LET uno == NaN(x, w) \/ NaN(y, w)
      holds == CASE code % 4 = 0 -> ~uno /\ x = y [] code % 4 = 1 -> ~uno /\ x < y
                 [] code % 4 = 2 -> ~uno /\ x <= y [] code % 4 = 3 -> uno
  IN CASE op = "min" -> IF ~uno /\ x < y THEN x ELSE y [] op = "max" -> IF ~uno /\ x > y THEN x ELSE y
       [] op = "sqrt" -> FSqrt(y, w) [] op = "cmp" -> IF holds # (code >= 4) THEN 2^w - 1 ELSE 0
       [] op = "addsub" -> FBin(IF k % 2 = 1 THEN "FSub" ELSE "FAdd", x, y, w)
       [] OTHER -> FBin(op, x, y, w)
-----------------------------------------------------------------------------
AMove(a, i) ==
  LET d == i.op[1]
      src(n) == ALanes(a, i.op[2], n, n)[1]
      Clear(b) == IF d.k = "vec" THEN [b EXCEPT !.vec[d.r] = Zeros(16)] ELSE b
      high == Elems(SubSeq(ABytes(a, i.op[2], 16), 9, 16), 8)
      low == ALanes(a, i.op[2], 8, 8)
  IN CASE i.t \in {"MOVD", "MOVQ"} ->
            LET n == IF i.t = "MOVD" THEN 4 ELSE 8 IN APutLanes(Clear(a), d, n, <<src(n)>>)
       [] i.t \in {"MOVSS", "MOVSD"} ->
            LET n == IF i.t = "MOVSS" THEN 4 ELSE 8
            IN APutLanes(IF i.op[2].k = "mem" THEN Clear(a) ELSE a, d, n, <<src(n)>>)
       [] i.t \in {"MOVUPS", "MOVAPD", "MOVDQU", "MOVNTDQ"} -> APutLanes(a, d, 1, ABytes(a, i.op[2], 16))
       [] i.t = "MOVHLPS" -> APutLanes(a, d, 8, high)
       [] i.t \in {"MOVLPS", "MOVLPD"} -> APutLanes(a, d, 8, low)
       [] i.t \in {"MOVHPS", "MOVHPD", "MOVLHPS"} ->
            IF d.k = "mem" THEN APutLanes(a, d, 8, high) ELSE APutLanes(a, d, 8, ALanes(a, d, 8, 8) \o low)
       [] i.t = "MOVDDUP" -> APutLanes(a, d, 8, low \o low)
       [] i.t \in {"MOVSLDUP", "MOVSHDUP"} ->
            LET v == ALanes(a, i.op[2], 4, 16)
                o == IF i.t = "MOVSLDUP" THEN 0 ELSE 1
            IN APutLanes(a, d, 4, <<v[1 + o], v[1 + o], v[3 + o], v[3 + o]>>)

(* Interleave, select by immediate, shift.                                 *)
AShuffle(a, i, n) ==
  LET m == 16 \div n
      x == ALanes(a, i.op[1], n, 16)
      y == ALanes(a, i.op[2], n, 16)
      imm == i.op[3].v
      Sel(v, k) == v[Bits(imm, 2 * k + 1, 2 * k) + 1]
      Inter(from) == [k \in 1..m |-> IF k % 2 = 1 THEN x[from + (k + 1) \div 2] ELSE y[from + k \div 2]]
  IN APutLanes(a, i.op[1], n,
       CASE i.t \in {"PUNPCKLBW", "PUNPCKLWD", "UNPCKLPS", "PUNPCKLQDQ"} -> Inter(0)
         [] i.t \in {"PUNPCKHBW", "PUNPCKHWD", "PUNPCKHDQ", "UNPCKHPD"} -> Inter(m \div 2)
         [] i.t = "SHUFPD" -> <<x[Bit(imm, 0) + 1], y[Bit(imm, 1) + 1]>>
         [] i.t = "SHUFPS" -> <<Sel(x, 0), Sel(x, 1), Sel(y, 2), Sel(y, 3)>>
         [] i.t = "PSHUFD" -> <<Sel(y, 0), Sel(y, 1), Sel(y, 2), Sel(y, 3)>>
         [] i.t = "PSHUFLW" -> <<Sel(y, 0), Sel(y, 1), Sel(y, 2), Sel(y, 3)>> \o SubSeq(y, 5, 8)
         [] i.t = "INSERTPS" ->
              LET e == IF i.op[2].k = "vec" THEN y[Bits(imm, 7, 6) + 1] ELSE y[1]
              IN [k \in 1..4 |-> CASE Bit(imm, k - 1) = 1 -> 0
                                   [] Bit(imm, k - 1) = 0 /\ k = Bits(imm, 5, 4) + 1 -> e [] OTHER -> x[k]]
         [] i.t \in {"PHADDW", "PHADDD"} -> LET v == x \o y IN [k \in 1..m |-> (v[2 * k - 1] + v[2 * k]) % 2^Width(n)]
         [] i.t \in {"PHSUBW", "PHSUBD"} -> LET v == x \o y IN [k \in 1..m |-> (v[2 * k - 1] - v[2 * k]) % 2^Width(n)]
         [] i.t \in {"HADDPS", "HSUBPD"} ->
              LET v == x \o y
              IN [k \in 1..m |-> FBin(IF i.t = "HADDPS" THEN "FAdd" ELSE "FSub", v[2 * k - 1], v[2 * k], Width(n))]
         [] i.t \in {"PACKSSWB", "PACKSSDW", "PACKUSWB", "PACKUSDW"} ->
              LET w == Width(n)
                  h == 2^(w \div 2)
                  Half(v) == IF i.t \in {"PACKSSWB", "PACKSSDW"} THEN AClamp(Signed(v, w), -(h \div 2), h \div 2 - 1) % h
                             ELSE AClamp(Signed(v, w), 0, h - 1)
              IN [k \in 1..m |-> LET v == x \o y IN Half(v[2 * k - 1]) + h * Half(v[2 * k])])

AShiftLanes(a, i, n) ==
  LET x == ALanes(a, i.op[1], n, 16)
      w == Width(n)
      c == IF i.op[2].k = "imm" THEN i.op[2].v ELSE ALanes(a, i.op[2], 8, 8)[1]
      One(v) == CASE i.t \in {"PSLLW", "PSLLD", "PSLLQ"} -> IF c >= w THEN 0 ELSE Shl(v, c, w)
                  [] i.t \in {"PSRLW", "PSRLD", "PSRLQ"} -> IF c >= w THEN 0 ELSE v \div 2^c
                  [] i.t \in {"PSRAW", "PSRAD"} ->
                       IF c >= w THEN IF v >= 2^(w - 1) THEN 2^w - 1 ELSE 0 ELSE (Signed(v, w) \div 2^c) % 2^w
  IN APutLanes(a, i.op[1], n, [k \in DOMAIN x |-> One(x[k])])

(* Conversions: which lanes and where to.                                  *)
AConvert(a, i) ==
  LET d == i.op[1]
      s == i.op[2]
      Cvt(f, t, v, n) == FCvt(f, t, v, Width(n))
      From(n, k) == ALanes(a, s, n, n * k)
  IN CASE i.t = "CVTDQ2PD" -> APutLanes(a, d, 8, [k \in 1..2 |-> Cvt("I32", "F64", From(4, 2)[k], 8)])
       [] i.t = "CVTTPD2DQ" -> APutLanes(a, d, 4, [k \in 1..2 |-> Cvt("F64", "I32", From(8, 2)[k], 4)] \o <<0, 0>>)
       [] i.t = "CVTTPS2DQ" -> APutLanes(a, d, 4, [k \in 1..4 |-> Cvt("F32", "I32", From(4, 4)[k], 4)])
       [] i.t = "CVTPS2PD" -> APutLanes(a, d, 8, [k \in 1..2 |-> Cvt("F32", "F64", From(4, 2)[k], 8)])
       [] i.t = "CVTSD2SS" -> APutLanes(a, d, 4, <<Cvt("F64", "F32", From(8, 1)[1], 4)>>)
       [] i.t = "CVTTSS2SI" -> APutLanes(a, d, 8, <<Cvt("F32", "I", From(4, 1)[1], d.sz)>>)
       [] i.t = "CVTSI2SD" -> APutLanes(a, d, 8, <<Cvt("I", "F64", From(s.sz, 1)[1], 8)>>)

(* Sums and products across lanes, widening, and moves of single lanes.    *)
AAcross(a, i) ==
  LET d == i.op[1]
      L(o, n) == ALanes(a, o, n, 16)
      S(v, n) == Signed(v, Width(n))
      Dist(from) == LET sum[k \in 0..8] == IF k = 0 THEN 0 ELSE
                          sum[k - 1] + Abs(L(d, 1)[from + k] - L(i.op[2], 1)[from + k])
                    IN sum[8] % 2^Width(2)
      Top(n) == LET v == L(i.op[2], n)
                    sum[k \in 0..Len(v)] == IF k = 0 THEN 0 ELSE sum[k - 1] + 2^(k - 1) * Bit(v[k], Width(n) - 1)
                IN sum[Len(v)]
      Widen(n, m, signed) ==
        LET v == ALanes(a, i.op[2], n, (16 \div m) * n)
        IN APutLanes(a, d, m, [k \in DOMAIN v |-> IF signed THEN S(v[k], n) % 2^Width(m) ELSE v[k]])
  IN CASE i.t = "PMULUDQ" -> APutLanes(a, d, 8, [k \in 1..2 |-> L(d, 4)[2 * k - 1] * L(i.op[2], 4)[2 * k - 1]])
       [] i.t = "PMULDQ" ->
            APutLanes(a, d, 8, [k \in 1..2 |-> (S(L(d, 4)[2 * k - 1], 4) * S(L(i.op[2], 4)[2 * k - 1], 4)) % 2^W64])
       [] i.t = "PMADDWD" ->
            APutLanes(a, d, 4, [k \in 1..4 |-> (S(L(d, 2)[2 * k - 1], 2) * S(L(i.op[2], 2)[2 * k - 1], 2)
                                                 + S(L(d, 2)[2 * k], 2) * S(L(i.op[2], 2)[2 * k], 2)) % 2^Width(4)])
       [] i.t = "PSADBW" -> APutLanes(a, d, 8, <<Dist(0), Dist(8)>>)
       [] i.t = "PMOVMSKB" -> [a EXCEPT !.gp[d.r] = Top(1)]
       [] i.t = "MOVMSKPS" -> [a EXCEPT !.gp[d.r] = Top(4)]
       [] i.t = "MOVMSKPD" -> [a EXCEPT !.gp[d.r] = Top(8)]
       [] i.t \in {"PMOVSXBW", "PMOVZXBW"} -> Widen(1, 2, i.t = "PMOVSXBW")
       [] i.t \in {"PMOVSXWQ", "PMOVZXWQ"} -> Widen(2, 8, i.t = "PMOVSXWQ")
       [] i.t \in {"PMOVSXDQ", "PMOVZXDQ"} -> Widen(4, 8, i.t = "PMOVSXDQ")
       [] i.t \in {"PINSRB", "PINSRW", "PINSRD", "PINSRQ"} ->
            LET n == CASE i.t = "PINSRB" -> 1 [] i.t = "PINSRW" -> 2 [] i.t = "PINSRD" -> 4 [] i.t = "PINSRQ" -> 8
            IN APutLanes(a, d, n, [L(d, n) EXCEPT ![1 + (i.op[3].v % (16 \div n))] = ALanes(a, i.op[2], n, n)[1]])
       [] i.t \in {"PEXTRB", "PEXTRW", "EXTRACTPS"} ->
            LET n == CASE i.t = "PEXTRB" -> 1 [] i.t = "PEXTRW" -> 2 [] i.t = "EXTRACTPS" -> 4
            IN APutLanes(a, d, n, <<L(i.op[2], n)[1 + (i.op[3].v % (16 \div n))]>>)
       [] i.t \in {"PSLLDQ", "PSRLDQ"} ->
            LET v == a.vec[d.r]
                At(k) == IF k \in 1..16 THEN v[k] ELSE 0
            IN [a EXCEPT !.vec[d.r] = [k \in 1..16 |-> At(IF i.t = "PSRLDQ" THEN k + i.op[2].v ELSE k - i.op[2].v)]]

ASseLaneSize(i) ==
  CASE i.t \in {"PUNPCKLBW", "PUNPCKHBW"} -> 1
    [] i.t \in {"PUNPCKLWD", "PUNPCKHWD", "PSHUFLW", "PHADDW", "PHSUBW", "PACKSSWB", "PACKUSWB",
                "PSLLW", "PSRLW", "PSRAW"} -> 2
    [] i.t \in {"UNPCKLPS", "PUNPCKHDQ", "SHUFPS", "PSHUFD", "INSERTPS", "PHADDD", "PHSUBD", "HADDPS",
                "PACKSSDW", "PACKUSDW", "PSLLD", "PSRLD", "PSRAD"} -> 4
    [] i.t \in {"PUNPCKLQDQ", "UNPCKHPD", "SHUFPD", "HSUBPD", "PSLLQ", "PSRLQ"} -> 8
    [] OTHER -> 0

ASseStep(a0, i) ==
  LET a == [a0 EXCEPT !.ip = (@ + 1) % 2^W64]
  IN CASE i.t \in DOMAIN ALanewise ->
            LET n == ALanewise[i.t][2]
                x == ALanes(a, i.op[1], n, 16)
                y == ALanes(a, i.op[2], n, 16)
            IN APutLanes(a, i.op[1], n, [k \in DOMAIN x |-> ALane(ALanewise[i.t][1], x[k], y[k], Width(n))])
       [] i.t \in DOMAIN AFp ->
            LET n == AFp[i.t][2]
                x == ALanes(a, i.op[1], n, 16)
                y == ALanes(a, i.op[2], n, 16)
                code == IF Len(i.op) = 3 THEN i.op[3].v ELSE 0
            IN APutLanes(a, i.op[1], n, [k \in 1..AFp[i.t][3] |-> AFpLane(AFp[i.t][1], k, x[k], y[k], Width(n), code)])
       [] i.t \in {"UCOMISS", "COMISD"} ->
            LET n == IF i.t = "UCOMISS" THEN 4 ELSE 8
                x == ALanes(a, i.op[1], n, n)[1]
                y == ALanes(a, i.op[2], n, n)[1]
                uno == NaN(x, Width(n)) \/ NaN(y, Width(n))
            IN AFlags(a, [ZF |-> Flag(uno \/ x = y), CF |-> Flag(uno \/ x < y), PF |-> Flag(uno),
                          AF |-> 0, OF |-> 0, SF |-> 0])
       [] i.t \in {"PSLLW", "PSLLD", "PSLLQ", "PSRLW", "PSRLD", "PSRLQ", "PSRAW", "PSRAD"} -> AShiftLanes(a, i, ASseLaneSize(i))
       [] ASseLaneSize(i) # 0 /\ i.t \notin DOMAIN Pshifts -> AShuffle(a, i, ASseLaneSize(i))
       [] i.t \in DOMAIN Cvts -> AConvert(a, i)
       (* The head of the area has the x87 state and MXCSR, of which there    *)
       (* is no model; the lifter writes zeroes, against a TODO of its own.   *)
       [] i.t = "FXSAVE" ->
            LET at == AAddr(a, i.op[1])
            IN [a EXCEPT !.mem = [x \in DOMAIN a.mem |->
                 LET k == (x - at) % MemSize
                     v == k - FxHead
                 IN CASE k < FxHead -> Undef
                      [] v \in 0..(16 * Len(VecRegs) - 1) -> a.vec[VecRegs[v \div 16 + 1]][1 + (v % 16)]
                      [] OTHER -> a.mem[x]]]
       [] i.t = "FXRSTOR" ->
            [a EXCEPT !.vec = [r \in DOMAIN a.vec |-> LET n == CHOOSE m \in DOMAIN VecRegs : VecRegs[m] = r
               IN [k \in 1..16 |-> a.mem[(AAddr(a, i.op[1]) + FxHead + 16 * (n - 1) + k - 1) % MemSize]]]]
       [] i.t \in {"LFENCE", "PREFETCH"} -> a
       [] i.t \in {"MOVD", "MOVQ", "MOVSS", "MOVSD", "MOVUPS", "MOVAPD", "MOVDQU", "MOVNTDQ", "MOVHLPS", "MOVLPS", "MOVLPD",
                   "MOVHPS", "MOVHPD", "MOVLHPS", "MOVDDUP", "MOVSLDUP", "MOVSHDUP"} -> AMove(a, i)
       [] OTHER -> AAcross(a, i)
-----------------------------------------------------------------------------
vars == <<lifted, arch, insts>>

(* The register file after LoadFrom: native facets only.                   *)
Init ==
  \E st \in Starts :
    /\ arch = [gp |-> st.gp, vec |-> st.vec, fl |-> st.fl, mem |-> st.mem, ip |-> 0]
    /\ lifted = [gp |-> [r \in DOMAIN st.gp |-> [NoFacets EXCEPT !["I64"] = st.gp[r]]],
                 vec |-> [r \in DOMAIN st.vec |-> [[f \in VecFacets |-> Absent] EXCEPT !["V2I64"] = st.vec[r]]],
                 fl |-> [st.fl EXCEPT !.PF = 1 - @], mem |-> st.mem, ip |-> 0]
    /\ insts = 0

Execute(i) ==
  /\ ADefined(arch, i)
  /\ i.rep # "" => arch.gp.RCX <= MaxCount
  /\ lifted' = LiftInst(lifted, i)
  /\ arch' = IF i.t \in SseInsts THEN ASseStep(arch, i) ELSE AStep(arch, i)
  /\ insts' = insts + 1

(* The instructions that may stand at each position of a block are given.  *)
Next(block) ==
  \/ insts < MaxInsts /\ \E i \in block[insts + 1] : Execute(i)
  \/ insts = MaxInsts /\ UNCHANGED vars

(* The lifted code does what the instructions do: after every instruction  *)
(* the registers, the flags and memory the architecture defines, and the   *)
(* instruction pointer are those of the architecture, and every facet the  *)
(* register file keeps for reuse (regfile.cc) still agrees with its        *)
(* register.                                                               *)
LiftedRight ==
  /\ GpValue(lifted) = arch.gp
  /\ lifted.ip = arch.ip
  /\ \A x \in DOMAIN arch.mem : arch.mem[x] # Undef => lifted.mem[x] = arch.mem[x]
  /\ \A f \in Flags : arch.fl[f] # Undef => GetFlag(lifted, f) = arch.fl[f]
  /\ FacetsAgree(lifted)

(* The vector registers too are those of the architecture: an instruction  *)
(* that writes part of one keeps the rest, and no facet is stale.          *)
VectorRight == \A r \in DOMAIN arch.vec : lifted.vec[r]["V2I64"] = arch.vec[r]
=============================================================================
