------------------------------ MODULE RegFile -------------------------------
(***************************************************************************)
(* rellume's register file and the architecture-independent part of its    *)
(* lifters (rellume/src/regfile.cc, facet.cc, lifter-base.h).  While a     *)
(* block is lifted, every register is kept as a set of facets: views of    *)
(* its value in several widths, each computed once and kept until the      *)
(* register is written.  Here a facet holds the value it has when the      *)
(* block runs, and Absent if it is not kept.                               *)
(*                                                                         *)
(* Widths are scaled: a byte has ByteBits bits, a register of n bytes      *)
(* n * ByteBits.                                                           *)
(***************************************************************************)
EXTENDS Integers, Bitwise, FiniteSets, Sequences, TLC

\* Definitions named X_<word> are faulty variants of X: the properties that
\* must notice them are listed with the runs.

CONSTANTS
  ByteBits,   \* bits of a byte, 8 in the code
  MemSize,    \* bytes of memory; addresses count modulo this
  Absent,     \* no value kept for a facet
  Undef       \* llvm::UndefValue

-----------------------------------------------------------------------------
(* Integers of w bits, as LLVM's IR and the host's C compute with them: a  *)
(* value is a number in 0 .. 2^w - 1, read as signed where an operation    *)
(* says so.  Shifting by the width or more is poison in LLVM and undefined *)
(* in C; callers that can meet it say what they do.                        *)

Trunc(x, w) == x % 2^w

Signed(x, w) == IF x >= 2^(w - 1) THEN x - 2^w ELSE x

(* Sign extension (or truncation) from w bits to v bits.                   *)
SExt(x, w, v) == Signed(x, w) % 2^v

Bit(x, i) == (x \div 2^i) % 2

Bits(x, hi, lo) == (x \div 2^lo) % 2^(hi - lo + 1)

Flag(b) == IF b THEN 1 ELSE 0

NotW(x, w) == 2^w - 1 - x

Neg(x, w) == (2^w - x) % 2^w

SLT(x, y, w) == Signed(x, w) < Signed(y, w)

Shl(x, n, w) == IF n >= w THEN 0 ELSE (x % 2^(w - n)) * 2^n

LShr(x, n) == x \div 2^n

(* \div rounds towards minus infinity, as an arithmetic shift does.        *)
AShr(x, n, w) == (Signed(x, w) \div 2^n) % 2^w

(* The high word of the funnel (hi:lo) shifted left, the low word of it    *)
(* shifted right; the amount counts modulo the width.                      *)
FShl(hi, lo, n, w) == LET k == n % w IN Shl(hi, k, w) + LShr(lo, w - k)
FShr(hi, lo, n, w) == LET k == n % w IN Shl(hi, w - k, w) + LShr(lo, k)

(* sdiv and srem round towards zero.                                       *)
Abs(n) == IF n < 0 THEN -n ELSE n
SDiv(x, y, w) ==
  LET a == Signed(x, w)
      b == Signed(y, w)
      q == Abs(a) \div Abs(b)
  IN (IF (a < 0) # (b < 0) THEN -q ELSE q) % 2^w
SRem(x, y, w) ==
  LET a == Signed(x, w)
      r == Abs(a) % Abs(Signed(y, w))
  IN (IF a < 0 THEN -r ELSE r) % 2^w

CtPop(x, w) == Cardinality({i \in 0..(w - 1) : Bit(x, i) = 1})
CtTz(x, w) == CHOOSE i \in 0..w : (i = w \/ Bit(x, i) = 1) /\ \A j \in 0..(i - 1) : Bit(x, j) = 0
CtLz(x, w) == CHOOSE i \in 0..w :
                (i = w \/ Bit(x, w - 1 - i) = 1) /\ \A j \in 0..(i - 1) : Bit(x, w - 1 - j) = 0
-----------------------------------------------------------------------------
(* Floating point operations on bit patterns of w bits.  Which function an *)
(* operation is does not matter to the lifters that emit it, only that two *)
(* operations, or two operand orders, can be told apart; comparisons treat *)
(* a NaN as IEEE 754 does.                                                 *)

(* The pattern with all bits set is a NaN, the others are ordered.         *)
NaN(x, w) == x = 2^w - 1
(* 0 and 2^(w - 1) are the two zeros: their sum is 0, and 0 + y is y.       *)
FBin(op, x, y, w) ==
  CASE op = "FAdd" -> (IF x = 0 THEN (IF y = 2^(w - 1) THEN 0 ELSE y) ELSE (3 * x + 5 * y + 1) % 2^w)
    [] op = "FSub" -> (3 * x - 2 * y + 4) % 2^w
    [] op = "FMul" -> (7 * x + y) % 2^w [] op = "FDiv" -> (x + 6 * y + 5) % 2^w
FSqrt(x, w) == (x \div 2 + 1) % 2^w
FCmp(pred, x, y, w) ==
  LET uno == NaN(x, w) \/ NaN(y, w)
  IN CASE pred = "OEQ" -> ~uno /\ x = y [] pred = "OLT" -> ~uno /\ x < y
       [] pred = "OLE" -> ~uno /\ x <= y [] pred = "OGT" -> ~uno /\ x > y [] pred = "OGE" -> ~uno /\ x >= y
       [] pred = "UNO" -> uno [] pred = "UNE" -> uno \/ x # y
       [] pred = "UGE" -> uno \/ x >= y [] pred = "UGT" -> uno \/ x > y
       [] pred = "UEQ" -> uno \/ x = y [] pred = "ULT" -> uno \/ x < y [] pred = "ORD" -> ~uno
(* fptosi, fptoui, sitofp, uitofp, fpext and fptrunc to a type of v bits. *)
FCvt(from, to, x, v) ==
  (5 * x + (IF from = "F32" THEN 1 ELSE 2) + (IF to = "F64" THEN 3 ELSE 0) + (IF "unsigned" \in {from, to} THEN 6 ELSE 0)) % 2^v
FNeg(x, w) == (x + 2^(w - 1)) % 2^w
(* Rounding to an integer in one of the modes.                             *)
FRound(fn, x, w) ==
  CASE fn = "floor" -> (x - 1) % 2^w [] fn = "ceil" -> (x + 1) % 2^w [] fn = "round" -> (x + 2) % 2^w
    [] fn = "roundeven" -> (x + 3) % 2^w [] fn = "trunc" -> (x - 2) % 2^w
    [] fn \in {"rint", "nearbyint"} -> (x - 3) % 2^w
FAbs(x, w) == x % 2^(w - 1)
(* The constant 2^k.                                                       *)
FPow2(k, w) == (2 * k + 1) % 2^w
(* minnum and maxnum: the other operand if one is a NaN.                   *)
FMinMax(id, x, y, w) ==
  CASE NaN(x, w) -> y
    [] ~NaN(x, w) /\ NaN(y, w) -> x
    [] OTHER -> IF (x < y) = (id = "minnum") THEN x ELSE y
-----------------------------------------------------------------------------
(* Registers and their facets.                                             *)

Width(bytes) == bytes * ByteBits

(* The facets ValueMapGp keeps, with their sizes in bytes (Facet::Size).   *)
FacetSize == [I64 |-> 8, I32 |-> 4, I16 |-> 2, I8 |-> 1, I8H |-> 1, PTR |-> 8]
GpFacets == DOMAIN FacetSize

Facet_In(bytes) ==
  CASE bytes = 1 -> "I8" [] bytes = 2 -> "I16" [] bytes = 4 -> "I32" [] bytes = 8 -> "I64"

(* The facets ValueMapFlags keeps.                                         *)
Flags == {"ZF", "SF", "PF", "CF", "OF", "AF", "DF"}

(* The facets of a vector register that ValueMapSse keeps.  All of them    *)
(* are views of the low bytes: a register is the sequence of its bytes,    *)
(* and a bit cast changes nothing.                                         *)
VecFacets == {"I128", "I8", "V16I8", "I16", "V8I16", "I32", "V4I32", "I64", "V2I64",
              "F32", "V4F32", "F64", "V2F64"}

(* The element and the number of elements of a vector facet (facet.inc).   *)
(* I128 is only moved: it counts as 16 bytes.                              *)
I8s == {"I8", "V2I8", "V4I8", "V8I8", "V16I8"}
I16s == {"I16", "V2I16", "V4I16", "V8I16"}
I32s == {"I32", "V2I32", "V4I32"}
I64s == {"I64", "V1I64", "V2I64"}
F32s == {"F32", "V2F32", "V4F32"}
F64s == {"F64", "V1F64", "V2F64"}

Elem(f) ==
  CASE f \in I8s -> "I8" [] f \in I16s -> "I16" [] f \in I32s -> "I32" [] f \in I64s -> "I64"
    [] f \in F32s -> "F32" [] f \in F64s -> "F64" [] f = "I128" -> "I128"

ElemSize(f) ==
  CASE f \in I8s \cup {"I128"} -> 1 [] f \in I16s -> 2 [] f \in I32s \cup F32s -> 4
    [] f \in I64s \cup F64s -> 8

Count(f) ==
  CASE f \in {"V2I8", "V2I16", "V2I32", "V2I64", "V2F32", "V2F64"} -> 2
    [] f \in {"V4I8", "V4I16", "V4I32", "V4F32"} -> 4
    [] f \in {"V8I8", "V8I16"} -> 8 [] f \in {"V16I8", "I128"} -> 16 [] OTHER -> 1

VecFacetSize(f) == ElemSize(f) * Count(f)

(* Facet::Vnt for a whole register.                                        *)
FullFacet(f) ==
  CASE f \in I8s -> "V16I8" [] f \in I16s -> "V8I16" [] f \in I32s -> "V4I32" [] f \in I64s -> "V2I64"
    [] f \in F32s -> "V4F32" [] f \in F64s -> "V2F64" [] f = "I128" -> "I128"
-----------------------------------------------------------------------------
(* A state s of the lifted code has the register file (gp, vec, fl, ip) and *)
(* the memory.                                                             *)

NoFacets == [f \in GpFacets |-> Absent]

(* GetReg's conversion from the native facet I64.                          *)
DeriveGp(native, f) ==
  IF f = "I8H" THEN Trunc(LShr(native, ByteBits), ByteBits)
               ELSE Trunc(native, Width(FacetSize[f]))

(* RegFile::GetReg for a general purpose register and for the IP, which    *)
(* has no facets but its value.                                            *)
GetReg(s, r, f) ==
  CASE r = "IP" -> s.ip
    [] s.gp[r][f] # Absent -> s.gp[r][f]
    [] OTHER -> DeriveGp(s.gp[r]["I64"], f)

(* What GetReg keeps of the facets <<r, f>> of reads.                      *)
Keep(s, reads) ==
  [s EXCEPT !.gp = [r \in DOMAIN s.gp |-> [f \in GpFacets |->
     IF <<r, f>> \in reads THEN GetReg(s, r, f) ELSE s.gp[r][f]]]]

SetReg_stale(s, r, v) == [s EXCEPT !.gp[r]["I64"] = v]

(* LifterBase::SetReg: set the native facet and drop the others.           *)
SetReg(s, r, v) == [s EXCEPT !.gp[r] = [NoFacets EXCEPT !["I64"] = v]]

(* LifterBase::SetRegFacet: set one facet beside the others.               *)
SetRegFacet(s, r, f, v) == [s EXCEPT !.gp[r][f] = v]

SetRegPtr(s, r, v) == SetRegFacet(SetReg(s, r, v), r, "PTR", v)

SetIP(s, v) == [s EXCEPT !.ip = v]

(* SetFlag and SetFlagUndef.  PF holds the byte whose parity it is.        *)
SetFlags(s, fl) == [s EXCEPT !.fl = fl @@ s.fl]
SetFlagUndef(s, fs) == SetFlags(s, [f \in fs |-> Undef])

GetFlag(s, f) ==
  CASE s.fl[f] = Undef -> Undef
    [] f = "PF" -> (1 + CtPop(s.fl.PF, ByteBits)) % 2
    [] OTHER -> s.fl[f]
-----------------------------------------------------------------------------
(* Vector registers.  GetReg: the facet if it is kept, else for a scalar   *)
(* element 0 of the whole register in elements of its type, and for a      *)
(* vector the low bytes of I128, if that is kept, or of the native V2I64.  *)
GetVec(s, r, f) ==
  LET kept == s.vec[r]
      native == IF kept["I128"] # Absent THEN kept["I128"] ELSE kept["V2I64"]
      Has(g) == g \in VecFacets /\ kept[g] # Absent
  IN CASE Has(f) -> kept[f]
       [] ~Has(f) /\ Count(f) = 1 /\ Has(FullFacet(f)) ->
            SubSeq(kept[FullFacet(f)], 1, VecFacetSize(f))
       [] OTHER -> SubSeq(native, 1, VecFacetSize(f))

KeepVec(s, reads) ==
  [s EXCEPT !.vec = [r \in DOMAIN s.vec |-> [f \in VecFacets |->
     IF <<r, f>> \in reads THEN GetVec(s, r, f) ELSE s.vec[r][f]]]]

SetVec(s, r, v) ==
  [s EXCEPT !.vec[r] = [[f \in VecFacets |-> Absent] EXCEPT !["V2I64"] = v]]

(* SetRegFacet for a facet that need not be kept.                          *)
SetVecFacet(s, r, f, v) == IF f \in VecFacets THEN [s EXCEPT !.vec[r][f] = v] ELSE s
-----------------------------------------------------------------------------
(* The guest's memory, byte by byte, little endian.                        *)

Load(s, a, n) ==
  LET sum[i \in 0..n] == IF i = 0 THEN 0
                         ELSE sum[i - 1] + s.mem[(a + i - 1) % MemSize] * 2^Width(i - 1)
  IN sum[n]

Store(s, a, n, v) ==
  [s EXCEPT !.mem = [x \in DOMAIN s.mem |->
     LET k == (x - a) % MemSize IN IF k < n THEN Trunc(LShr(v, Width(k)), ByteBits) ELSE s.mem[x]]]

MemSet(s, a, v, n) ==
  [s EXCEPT !.mem = [x \in DOMAIN s.mem |-> IF (x - a) % MemSize < n THEN v ELSE s.mem[x]]]

(* What a register is to the guest, and that every facet kept of it agrees *)
(* with that.                                                              *)
GpValue(s) == [r \in DOMAIN s.gp |-> s.gp[r]["I64"]]

FacetsAgree(s) ==
  /\ \A r \in DOMAIN s.gp, f \in GpFacets :
       s.gp[r][f] # Absent => s.gp[r][f] = DeriveGp(s.gp[r]["I64"], f)
  /\ \A r \in DOMAIN s.vec, f \in VecFacets :
       s.vec[r][f] # Absent => s.vec[r][f] = SubSeq(s.vec[r]["V2I64"], 1, VecFacetSize(f))
=============================================================================
