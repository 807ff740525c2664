-------------------------------- MODULE LibC --------------------------------
(***************************************************************************)
(* The client's own C library (client/minilibc.c and math.c): formatted    *)
(* output into a buffer and to a file, one iteration of printf_driver's    *)
(* loop at a time, the string functions, signal sets, and the rounding     *)
(* functions.  Text is a sequence of character codes without its final     *)
(* zero.                                                                   *)
(***************************************************************************)
EXTENDS Integers, Sequences, SequencesExt

CONSTANTS
  Formats,    \* pairs of a format and its arguments
  Sizes,      \* the sizes of snprintf's buffer
  BufSize,    \* sizeof(data->buf) of dprintf
  Strings,    \* the arguments of the string functions
  NSIG,       \* _NSIG
  WordBits,   \* the bits of an unsigned long
  MaxSigOps,  \* bound on the calls on one signal set
  F32, F64    \* float and double: records [E, M] of the bits of exponent and mantissa

VARIABLES
  pc,        \* "printf", or the family of functions called
  format, args,     \* what printf_driver has not looked at yet
  sink,      \* the helper's data
  chunks,    \* history: the pieces passed to write_func
  written,   \* bytes_written
  output,    \* what write() put out
  call,      \* a call of a string or rounding function and its result
  sigset, members, ops   \* a signal set as bits, and as the set it stands for

prvars == <<format, args, sink, chunks, written, output>>
sigvars == <<sigset, members, ops>>
vars == <<pc, prvars, call, sigvars>>

Percent == 37
Digit(d) == IF d < 10 THEN 48 + d ELSE 87 + d

(* *** strings *** *)

(* The character at index i of s, and the zero that ends it.               *)
At(s, i) == IF i <= Len(s) THEN s[i] ELSE 0
FirstIn(i0, S) == CHOOSE i \in S : i >= i0 /\ \A j \in S : j >= i0 => i <= j

strlen(s) == FirstIn(1, {i \in 1..(Len(s) + 1) : At(s, i) = 0}) - 1

(* The loop stops at the first index where s1 ends or the two differ.      *)
strcmp(s1, s2) ==
  LET i == FirstIn(1, {k \in 1..(Len(s1) + 1) : At(s1, k) = 0 \/ At(s1, k) # At(s2, k)})
  IN At(s1, i) - At(s2, i)

(* --n is tested first: the loop stops at index n at the latest.           *)
strncmp(s1, s2, n) ==
  IF n = 0 THEN 0
  ELSE LET i == FirstIn(1, {k \in 1..(Len(s1) + 1) : k = n \/ At(s1, k) = 0 \/ At(s1, k) # At(s2, k)})
       IN At(s1, i) - At(s2, i)

(* A byte read as a char, which is signed on x86-64.                       *)
Char(arch, b) == IF arch = "x86_64" /\ b >= 128 THEN b - 256 ELSE b

(* The index of the first char equal to the int c, 0 for NULL.             *)
strchr(arch, s, c) ==
  LET i == FirstIn(1, {k \in 1..(Len(s) + 1) : Char(arch, At(s, k)) \in {0, c}})
  IN IF Char(arch, At(s, i)) = c THEN i ELSE 0

memcmp(s1, s2, n) ==
  LET diff == {k \in 1..n : s1[k] # s2[k]}
  IN IF diff = {} THEN 0 ELSE s1[FirstIn(1, diff)] - s2[FirstIn(1, diff)]

(* The bytes of dest from off on, with n of src copied over them.          *)
memcpy(dest, off, src, n) ==
  [i \in DOMAIN dest |-> IF i \in (off + 1)..(off + n) THEN src[i - off] ELSE dest[i]]
memset(s, c, n) == [i \in DOMAIN s |-> IF i <= n THEN c ELSE s[i]]
-----------------------------------------------------------------------------
(* printf_driver.                                                          *)

BitLength(v) == CHOOSE b \in 0..31 : v < 2^b /\ (b = 0 \/ v >= 2^(b - 1))

(* Of %x and %lx: (highest_bit + 3) >> 2, and one for zero.                *)
Nibbles(v) == IF v = 0 THEN 1 ELSE (BitLength(v) + 3) \div 4

Hex(v) ==
  LET n == Nibbles(v) IN [i \in 1..n |-> Digit((v \div 16^(n - i)) % 16)]

(* Of %u: the digits are written from the end of the buffer.               *)
Decimal(v) ==
  LET n == IF v = 0 THEN 1 ELSE CHOOSE k \in 1..10 : v < 10^k /\ v >= 10^(k - 1)
  IN [i \in 1..n |-> Digit((v \div 10^(n - i)) % 10)]

Pointer(v) ==
  IF v = 0 THEN <<40, 110, 105, 108, 41>>   \* "(nil)"
  ELSE <<48, 120>> \o Hex(v)                \* "0x"

sprintf_helper_full(d, buf) ==
  IF Len(buf) <= d.len
  THEN [d EXCEPT !.mem = memcpy(d.mem, d.pos, buf, Len(buf)), !.pos = @ + Len(buf), !.len = @ - Len(buf)]
  ELSE d

(* sprintf_helper: len is the room left, with the final zero; 0 means that *)
(* there is no limit.                                                      *)
sprintf_helper(d, buf) ==
  LET n == IF d.len = 0 \/ d.len > Len(buf) THEN Len(buf) ELSE d.len - 1
  IN [d EXCEPT !.mem = memcpy(d.mem, d.pos, buf, n), !.pos = @ + n,
               !.len = CASE d.len = 0 -> 0
                         [] d.len > Len(buf) -> d.len - Len(buf)
                         [] OTHER -> 1]

(* dprintf_helper: collect in the buffer, which is put out when a piece    *)
(* does not fit.                                                           *)
dprintf_helper(d, buf) ==
  IF Len(buf) <= BufSize - Len(d.buf) THEN [d EXCEPT !.buf = @ \o buf]
  ELSE IF Len(buf) <= BufSize
  THEN [d EXCEPT !.out = @ \o d.buf, !.buf = buf]
  ELSE [d EXCEPT !.out = @ \o d.buf \o buf, !.buf = <<>>]

WriteFunc(d, buf) == IF d.to = "buffer" THEN sprintf_helper(d, buf) ELSE dprintf_helper(d, buf)

(* write_func for each piece of an iteration, in order.                    *)
Write(pieces) ==
  /\ sink' = FoldLeft(WriteFunc, sink, pieces)
  /\ chunks' = chunks \o pieces
  /\ written' = written + FoldLeft(LAMBDA n, p : n + Len(p), 0, pieces)

(* What a conversion prints, and how many characters after the '%' it      *)
(* takes; an unknown one prints nothing and takes no argument.             *)
Conversion(spec, f, a) ==
  CASE spec = 115 -> [out |-> <<a[1]>>, skip |-> 1, used |-> 1]             \* s
    [] spec = 99 -> [out |-> <<<<a[1]>>>>, skip |-> 1, used |-> 1]          \* c
    [] spec = 112 -> [out |-> <<Pointer(a[1])>>, skip |-> 1, used |-> 1]    \* p
    [] spec = 117 -> [out |-> <<Decimal(a[1])>>, skip |-> 1, used |-> 1]    \* u
    [] spec = 120 -> [out |-> <<Hex(a[1])>>, skip |-> 1, used |-> 1]        \* x
    [] spec = 108 /\ At(f, 2) = 120 -> [out |-> <<Hex(a[1])>>, skip |-> 2, used |-> 1]   \* lx
    [] OTHER -> [out |-> <<>>, skip |-> 1, used |-> 0]

(* One iteration: the text up to the next '%', then the conversion.        *)
printf_driver ==
  /\ pc = "printf" /\ format # <<>>
  /\ \E next \in {strchr("x86_64", format, Percent)} :
       IF next = 0
       THEN /\ Write(<<format>>) /\ format' = <<>> /\ UNCHANGED args
       ELSE LET text == SubSeq(format, 1, next - 1)
                rest == SubSeq(format, next + 1, Len(format))
                before == IF next = 1 THEN <<>> ELSE <<text>>
            IN IF rest = <<>>
               THEN Write(before \o <<<<Percent>>>>) /\ format' = <<>> /\ UNCHANGED args
               ELSE \E c \in {Conversion(rest[1], rest, args)} :
                      /\ Write(before \o c.out)
                      /\ format' = SubSeq(rest, c.skip + 1, Len(rest))
                      /\ args' = SubSeq(args, c.used + 1, Len(args))
  /\ UNCHANGED <<pc, output, call, sigvars>>

(* vsnprintf's final zero; vdprintf's last write.                          *)
EndPrintf ==
  /\ pc = "printf" /\ format = <<>> /\ pc' = "done"
  /\ IF sink.to = "buffer"
     THEN sink' = [sink EXCEPT !.mem[sink.pos + 1] = 0] /\ UNCHANGED output
     ELSE output' = sink.out \o sink.buf /\ UNCHANGED sink
  /\ UNCHANGED <<format, args, chunks, written, call, sigvars>>
-----------------------------------------------------------------------------
(* Signal sets, as the set of the bits <<word, bit>> that are set.         *)

sigsetptr(arch, signum) == IF arch = "x86_64" THEN 0 ELSE signum \div WordBits
sigsetmsk(arch, signum) == IF arch = "x86_64" THEN signum - 1 ELSE (signum - 1) % WordBits

SigBit(arch, n) == <<sigsetptr(arch, n), sigsetmsk(arch, n)>>
Words(arch) == {<<0, b>> : b \in 0..(NSIG - 1)}

SigCall(arch, op, n) ==
  /\ pc = "sigset" /\ call.arch = arch /\ ops < MaxSigOps /\ ops' = ops + 1
  /\ CASE op = "empty" -> sigset' = {} /\ members' = {}
       [] op = "fill" -> sigset' = Words(arch) /\ members' = 1..NSIG
       [] n <= 0 \/ n > NSIG -> UNCHANGED <<sigset, members>>   \* -EINVAL
       [] op = "add" -> sigset' = sigset \cup {SigBit(arch, n)} /\ members' = members \cup {n}
       [] op = "del" -> sigset' = sigset \ {SigBit(arch, n)} /\ members' = members \ {n}
  /\ UNCHANGED <<pc, prvars, call>>

sigismember(arch, n) == SigBit(arch, n) \in sigset
-----------------------------------------------------------------------------
(* The string functions.                                                   *)
StrCall ==
  /\ pc = "string" /\ pc' = "done"
  /\ \E s, t \in Strings, n \in 0..4 : \E c \in {At(t, 1), Char(call.arch, At(t, 1))} :
       call' = [arch |-> call.arch, c |-> c, s |-> s, t |-> t, n |-> n, len |-> strlen(s), cmp |-> strcmp(s, t),
                ncmp |-> strncmp(s, t, n), chr |-> strchr(call.arch, s, c),
                mcmp |-> LET m == IF Len(s) < Len(t) THEN Len(s) ELSE Len(t)
                         IN memcmp(s, t, IF n < m THEN n ELSE m)]
  /\ UNCHANGED <<prvars, sigvars>>

-----------------------------------------------------------------------------
(* The rounding functions, on the bits of a float: one sign bit, E bits of *)
(* exponent, M of mantissa.  The bits are taken as a signed integer vi, as *)
(* the code does.                                                          *)

Bias(F) == 2^(F.E - 1) - 1
INT_MIN(F) == -(2^(F.E + F.M))
MinusZero(F) == INT_MIN(F)
One(F) == Bias(F) * 2^F.M
MinusOne(F) == INT_MIN(F) + One(F)

(* EXP_F32 and EXP_F64: the exponent without its bias.                     *)
EXP(F, vi) == ((vi \div 2^F.M) % 2^F.E) - Bias(F)

(* The bits of the mantissa that stand for a fraction, as an all-ones mask *)
(* plus one; x & ~msk and x & msk.                                         *)
Frac(F, vi) == 2^(F.M - EXP(F, vi))
Clear(x, frac) == x - (x % frac)

floor(F, vi) ==
  IF EXP(F, vi) < 0 THEN (IF vi = INT_MIN(F) THEN MinusZero(F) ELSE IF vi < 0 THEN MinusOne(F) ELSE 0)
  ELSE IF EXP(F, vi) < F.M
  THEN Clear(vi + (IF vi < 0 THEN Frac(F, vi) - 1 ELSE 0), Frac(F, vi)) ELSE vi

ceil(F, vi) ==
  IF EXP(F, vi) < 0 THEN (IF vi < 0 THEN MinusZero(F) ELSE IF vi = 0 THEN 0 ELSE One(F))
  ELSE IF EXP(F, vi) < F.M
  THEN Clear(vi + (IF vi >= 0 THEN Frac(F, vi) - 1 ELSE 0), Frac(F, vi)) ELSE vi

round(F, vi) ==
  IF EXP(F, vi) < -1 THEN (IF vi < 0 THEN MinusZero(F) ELSE 0)
  ELSE IF EXP(F, vi) = -1 THEN (IF vi < 0 THEN MinusOne(F) ELSE One(F))
  ELSE IF EXP(F, vi) < F.M /\ vi % Frac(F, vi) # 0
  THEN Clear(vi + 1 + (Frac(F, vi) - 1) \div 2, Frac(F, vi)) ELSE vi

trunc(F, vi) ==
  IF EXP(F, vi) < 0 THEN (IF vi < 0 THEN MinusZero(F) ELSE 0)
  ELSE IF EXP(F, vi) < F.M THEN Clear(vi, Frac(F, vi)) ELSE vi

floorf(vi) == floor(F32, vi)
ceilf(vi) == ceil(F32, vi)
roundf(vi) == round(F32, vi)
truncf(vi) == trunc(F32, vi)

Apply(f, vi) ==
  CASE f = "floorf" -> floorf(vi) [] f = "floor" -> floor(F64, vi)
    [] f = "ceilf" -> ceilf(vi) [] f = "ceil" -> ceil(F64, vi)
    [] f = "roundf" -> roundf(vi) [] f = "round" -> round(F64, vi)
    [] f = "truncf" -> truncf(vi) [] f = "trunc" -> trunc(F64, vi)

Format(f) == IF f \in {"floorf", "ceilf", "roundf", "truncf"} THEN F32 ELSE F64

Roundings == {"floorf", "floor", "ceilf", "ceil", "roundf", "round", "truncf", "trunc"}

RoundCall ==
  /\ pc = "round" /\ pc' = "done"
  /\ \E f \in Roundings : \E vi \in INT_MIN(Format(f)) .. -INT_MIN(Format(f)) - 1 :
       call' = [fn |-> f, v |-> vi, res |-> Apply(f, vi)]
  /\ UNCHANGED <<prvars, sigvars>>
-----------------------------------------------------------------------------
Buffer(size) == [to |-> "buffer", mem |-> [i \in 1..24 |-> 1], pos |-> 0, len |-> size, size |-> size]
File == [to |-> "file", buf |-> <<>>, out |-> <<>>]

Init ==
  /\ chunks = <<>> /\ written = 0 /\ output = <<>>
  /\ sigset = {} /\ members = {} /\ ops = 0
  /\ \/ /\ pc = "printf" /\ call = <<>>
        /\ \E f \in Formats : format = f[1] /\ args = f[2]
        /\ sink \in {Buffer(n) : n \in Sizes} \cup {File}
     \/ /\ pc \in {"string", "sigset", "round"} /\ format = <<>> /\ args = <<>> /\ sink = File
        /\ call \in {[arch |-> a] : a \in {"x86_64", "aarch64"}}

Ended == pc \in {"done", "sigset"} /\ UNCHANGED vars

Next ==
  \/ printf_driver \/ EndPrintf \/ StrCall \/ RoundCall
  \/ \E a \in {"x86_64", "aarch64"}, op \in {"empty", "fill", "add", "del"}, n \in 0..(NSIG + 1) :
       SigCall(a, op, n)
  \/ Ended

Spec == Init /\ [][Next]_vars
-----------------------------------------------------------------------------
Text == FlattenSeq(chunks)

(* The value of a number's text in a base.                                 *)
Value(s, b) == FoldLeft(LAMBDA v, c : v * b + (IF c >= 97 THEN c - 87 ELSE c - 48), 0, s)

(* Formatted output is whole and stays in its buffer.  snprintf into a     *)
(* buffer of a size that is not zero writes the longest prefix that fits,  *)
(* a final zero and nothing behind the buffer, however the text was cut    *)
(* into pieces, and returns the length of the whole text; dprintf's writes *)
(* are the text in order.  A number's digits denote it, without a leading  *)
(* zero.                                                                   *)
PrintfRight ==
  /\ pc = "done" /\ chunks # <<>> => written = Len(Text)
  /\ pc = "done" /\ sink.to = "buffer" =>
       LET n == IF sink.size = 0 \/ Len(Text) < sink.size THEN Len(Text) ELSE sink.size - 1
       IN /\ SubSeq(sink.mem, 1, n) = SubSeq(Text, 1, n) /\ sink.mem[n + 1] = 0
          /\ \A i \in (n + 2)..Len(sink.mem) : sink.mem[i] = 1
  /\ pc = "done" /\ sink.to = "file" => output = Text
  /\ sink.to = "file" => Len(sink.buf) <= BufSize
  /\ args # <<>> /\ At(format, 1) = Percent /\ At(format, 2) \in {117, 120} =>
       LET hex == At(format, 2) = 120
           t == IF hex THEN Hex(args[1]) ELSE Decimal(args[1])
       IN Value(t, IF hex THEN 16 ELSE 10) = args[1] /\ (Len(t) > 1 => t[1] # 48)

(* A comparison of byte sequences.                                         *)
Less(s, t) ==
  \E k \in 1..Len(t) : k <= Len(s) + 1 /\ SubSeq(s, 1, k - 1) = SubSeq(t, 1, k - 1) /\ At(s, k) < t[k]
Prefix(s, n) == SubSeq(s, 1, IF n < Len(s) THEN n ELSE Len(s))

(* The string functions order texts as their bytes are ordered, strncmp    *)
(* looks at no more than n of them and memcmp agrees with it, strchr finds *)
(* the first match, also of the final zero, if its argument is a char's    *)
(* value (it does not convert the argument: on x86-64 a code from 128 on   *)
(* matches nothing).  A signal set holds what was added and not deleted    *)
(* since, for every signal but, on AArch64, the last (sigsetptr takes the  *)
(* word from signum, not signum - 1).                                      *)
LibraryRight ==
  /\ pc = "done" /\ chunks = <<>> /\ call # <<>> /\ "s" \in DOMAIN call =>
       LET s == call.s  t == call.t  n == call.n
       IN /\ call.len = Len(s)
          /\ (call.cmp < 0) = Less(s, t) /\ (call.cmp = 0) = (s = t)
          /\ (call.ncmp < 0) = Less(Prefix(s, n), Prefix(t, n))
          /\ (call.ncmp = 0) = (Prefix(s, n) = Prefix(t, n))
          /\ n <= Len(s) /\ n <= Len(t) => call.mcmp = call.ncmp
          /\ call.c = Char(call.arch, At(t, 1)) =>
               IF \E i \in 1..Len(s) : s[i] = At(t, 1)
               THEN s[call.chr] = At(t, 1) /\ \A i \in 1..(call.chr - 1) : s[i] # At(t, 1)
               ELSE call.chr = IF t = <<>> THEN Len(s) + 1 ELSE 0
  /\ pc = "sigset" =>
       \A n \in 1..NSIG : call.arch = "x86_64" \/ n < NSIG => (sigismember(call.arch, n) <=> n \in members)

(* The number that bits denote, times 2^(Bias + M - 1), which makes it an  *)
(* integer; Unit is 1.0.                                                   *)
Special(F, vi) == EXP(F, vi) = Bias(F) + 1   \* infinities and NaNs
Magnitude(F, vi) ==
  LET e == EXP(F, vi) + Bias(F)  m == vi % 2^F.M
  IN IF e = 0 THEN m ELSE (2^F.M + m) * 2^(e - 1)
Number(F, vi) == IF vi < 0 THEN -Magnitude(F, vi) ELSE Magnitude(F, vi)
Unit(F) == 2^(Bias(F) + F.M - 1)

(* Each rounding function returns the integer its name promises - the next *)
(* one below, above or towards zero, the nearest one with halves away from *)
(* zero - with the sign of its argument where that integer is zero, and    *)
(* leaves infinities and NaNs alone; no rounding goes wrong where the      *)
(* mantissa carries into the exponent.                                     *)
RoundsRight ==
  pc = "done" /\ call # <<>> /\ "fn" \in DOMAIN call =>
    LET fn == call.fn  v == call.v  F == Format(fn)  u == Unit(F)  x == Number(F, v)
        away == ((Magnitude(F, v) + u \div 2) \div u) * u
        down == (x \div u) * u
        up == -((-x) \div u) * u
        want == CASE fn \in {"floorf", "floor"} -> down
                  [] fn \in {"ceilf", "ceil"} -> up
                  [] fn \in {"roundf", "round"} -> IF x < 0 THEN -away ELSE away
                  [] fn \in {"truncf", "trunc"} -> IF x < 0 THEN up ELSE down
    IN IF Special(F, v) THEN call.res = v
       ELSE Number(F, call.res) = want /\ (want = 0 => (call.res < 0 <=> v < 0))
=============================================================================
