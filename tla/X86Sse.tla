------------------------------- MODULE X86Sse -------------------------------
(***************************************************************************)
(* The lifter for SSE instructions (rellume/src/x86-64/lifter-sse.cc, the  *)
(* vector operands of lifter-operand.cc and their part of lifter.cc).  A   *)
(* vector is a sequence of elements; the floating point operations         *)
(* themselves are LLVM's and stand for any functions of the bit patterns.  *)
(***************************************************************************)
EXTENDS X86Lifter

CONSTANTS
  FxHead,     \* bytes of FXSAVE's area before the first register, 0xa0 in the code
  VecRegs     \* the vector registers in order
-----------------------------------------------------------------------------
(* Bytes and elements.                                                     *)

Elems(v, n) ==
  [k \in 1..(Len(v) \div n) |->
     LET sum[j \in 0..n] == IF j = 0 THEN 0 ELSE sum[j - 1] + v[(k - 1) * n + j] * 2^Width(j - 1)
     IN sum[n]]

Bytes(e, n) ==
  [k \in 1..(Len(e) * n) |-> Trunc(LShr(e[(k - 1) \div n + 1], Width((k - 1) % n)), ByteBits)]

Zeros(n) == [k \in 1..n |-> 0]

(* shufflevector: the mask counts through a and then b, from 0.            *)
Shuffle(a, b, mask) ==
  [k \in DOMAIN mask |-> IF mask[k] < Len(a) THEN a[mask[k] + 1] ELSE b[mask[k] - Len(a) + 1]]

(* OpLoad with a vector facet: as elements.                                *)
VLoad(s, o, f) ==
  Elems(IF o.k = "vec" THEN GetVec(s, o.r, f)
        ELSE [k \in 1..VecFacetSize(f) |-> Load(s, Add64(OpAddr(s, o), k - 1), 1)], ElemSize(f))

StoreBytes(s, a, v) ==
  [s EXCEPT !.mem = [x \in DOMAIN s.mem |->
     LET k == (x - a) % MemSize IN IF k < Len(v) THEN v[k + 1] ELSE s.mem[x]]]

(* OpStoreVec: a value that does not fill the register keeps the rest.     *)
OpStoreVec(s, o, f, e) ==
  LET v == Bytes(e, ElemSize(f))
      full == IF Len(v) = 16 THEN v ELSE v \o SubSeq(GetVec(s, o.r, FullFacet(f)), Len(v) + 1, 16)
  IN IF o.k = "mem" THEN StoreBytes(s, OpAddr(s, o), v)
     ELSE SetVecFacet(SetVecFacet(SetVec(s, o.r, full), o.r, FullFacet(f), full), o.r, f, v)
-----------------------------------------------------------------------------
(* Moves.                                                                  *)

LiftFxsave(s, i) ==
  LET buf == OpAddr(s, i.op[1])
      regs == [k \in 1..(16 * Len(VecRegs)) |->
                 GetVec(s, VecRegs[(k - 1) \div 16 + 1], "I128")[1 + ((k - 1) % 16)]]
  IN StoreBytes(MemSet(s, buf, 0, FxHead), Add64(buf, FxHead), regs)

LiftFxrstor(s, i) ==
  LET buf == OpAddr(s, i.op[1])
      At(n) == [k \in 1..16 |-> Load(s, buf + FxHead + 16 * (n - 1) + k - 1, 1)]
  IN [s EXCEPT !.vec = [r \in DOMAIN s.vec |->
        [[f \in VecFacets |-> Absent] EXCEPT !["V2I64"] = At(CHOOSE n \in DOMAIN VecRegs : VecRegs[n] = r)]]]

LiftSseMovq(s, i, f) ==
  LET v == IF i.op[2].k = "reg" THEN <<GetReg(s, i.op[2].r, f)>> ELSE VLoad(s, i.op[2], f)
  IN IF i.op[1].k = "vec" THEN OpStoreVec(s, i.op[1], FullFacet(f), v \o Zeros(Count(FullFacet(f)) - 1))
                          ELSE OpStoreGp(s, i.op[1], v[1])

LiftSseMovScalar(s, i, f) ==
  LET v == VLoad(s, i.op[2], f)
  IN IF i.op[2].k = "mem" THEN OpStoreVec(s, i.op[1], FullFacet(f), v \o Zeros(Count(FullFacet(f)) - 1))
                          ELSE OpStoreVec(s, i.op[1], f, v)

LiftSseMovdq(s, i, f) == OpStoreVec(s, i.op[1], f, VLoad(s, i.op[2], f))

LiftSseMovlp(s, i) ==
  IF i.op[1].k = "vec" /\ i.op[2].k = "vec"
  THEN OpStoreVec(s, i.op[1], "V2F32", Shuffle(VLoad(s, i.op[2], "V4F32"), Zeros(4), <<2, 3>>))
  ELSE LET f == IF i.t = "MOVLPS" THEN "V2F32" ELSE "F64" IN OpStoreVec(s, i.op[1], f, VLoad(s, i.op[2], f))

LiftSseMovhps(s, i) ==
  IF i.op[1].k = "mem" THEN OpStoreVec(s, i.op[1], "V2F32", Shuffle(VLoad(s, i.op[2], "V4F32"), Zeros(4), <<2, 3>>))
  ELSE LET ext == Shuffle(VLoad(s, i.op[2], "V2F32"), Zeros(2), <<0, 1, 2, 3>>)
       IN OpStoreVec(s, i.op[1], "V4F32", Shuffle(VLoad(s, i.op[1], "V4F32"), ext, <<0, 1, 4, 5>>))

LiftSseMovhpd(s, i) ==
  IF i.op[1].k = "mem" THEN OpStoreVec(s, i.op[1], "F64", <<VLoad(s, i.op[2], "V2F64")[2]>>)
  ELSE OpStoreVec(s, i.op[1], "V2F64", <<VLoad(s, i.op[1], "V2F64")[1], VLoad(s, i.op[2], "F64")[1]>>)
-----------------------------------------------------------------------------
(* Arithmetic.                                                             *)

BinOp(op, x, y, w) ==
  CASE op = "Add" -> (x + y) % 2^w [] op = "Sub" -> (x - y) % 2^w [] op = "Mul" -> (x * y) % 2^w
    [] op = "And" -> x & y [] op = "Or" -> x | y [] op = "Xor" -> x ^^ y
    [] OTHER -> FBin(op, x, y, w)

Map2(op, a, b, w) == [k \in DOMAIN a |-> BinOp(op, a[k], b[k], w)]

LiftSseBinOp(s, i, op, f) ==
  OpStoreVec(s, i.op[1], f, Map2(op, VLoad(s, i.op[1], f), VLoad(s, i.op[2], f), Width(ElemSize(f))))

LiftSseHorzOp(s, i, op, f) ==
  LET a == VLoad(s, i.op[1], f)
      b == VLoad(s, i.op[2], f)
      Half(odd) == Shuffle(a, b, [k \in 1..Count(f) |-> 2 * (k - 1) + odd])
  IN OpStoreVec(s, i.op[1], f, Map2(op, Half(0), Half(1), Width(ElemSize(f))))

LiftSseAddSub(s, i, f) ==
  LET a == VLoad(s, i.op[1], f)
      b == VLoad(s, i.op[2], f)
      w == Width(ElemSize(f))
  IN OpStoreVec(s, i.op[1], f, Shuffle(Map2("FSub", a, b, w), Map2("FAdd", a, b, w),
       [k \in 1..Count(f) |-> (k - 1) + (IF (k - 1) % 2 = 1 THEN Count(f) ELSE 0)]))

LiftSseAndn(s, i, f) ==
  LET w == Width(ElemSize(f))
      a == VLoad(s, i.op[1], f)
  IN OpStoreVec(s, i.op[1], f, Map2("And", [k \in DOMAIN a |-> NotW(a[k], w)], VLoad(s, i.op[2], f), w))

LiftSseComis(s, i, f) ==
  LET w == Width(ElemSize(f))
      Is(pred) == Flag(FCmp(pred, VLoad(s, i.op[1], f)[1], VLoad(s, i.op[2], f)[1], w))
  IN SetFlags(s, [ZF |-> Is("UEQ"), CF |-> Is("ULT"), PF |-> Is("ORD"), AF |-> 0, OF |-> 0, SF |-> 0])

LiftSseCmp(s, i, f) ==
  LET w == Width(ElemSize(f))
      pred == <<"OEQ", "OLT", "OLE", "UNO", "UNE", "UGE", "UGT", "ORD">>[i.op[3].v + 1]
      a == VLoad(s, i.op[1], f)
      b == VLoad(s, i.op[2], f)
  IN OpStoreVec(s, i.op[1], f, [k \in DOMAIN a |-> IF FCmp(pred, a[k], b[k], w) THEN 2^w - 1 ELSE 0])

LiftSseMinmax(s, i, pred, f) ==
  LET a == VLoad(s, i.op[1], f)
      b == VLoad(s, i.op[2], f)
  IN OpStoreVec(s, i.op[1], f,
       [k \in DOMAIN a |-> IF FCmp(pred, a[k], b[k], Width(ElemSize(f))) THEN a[k] ELSE b[k]])

LiftSseSqrt(s, i, f) ==
  LET a == VLoad(s, i.op[2], f)
  IN OpStoreVec(s, i.op[1], f, [k \in DOMAIN a |-> FSqrt(a[k], Width(ElemSize(f)))])

(* Facet::Resolve of the pseudo facet I.                                   *)
Resolve(f, o) == IF f = "I" THEN Facet_In(o.sz) ELSE f

(* A general purpose destination, a scalar, a whole vector, or half of one *)
(* with the upper half cleared.                                            *)
LiftSseCvt(s, i, src_type, dst_type) ==
  LET from == Resolve(src_type, i.op[2])
      to == Resolve(dst_type, i.op[1])
      src == IF i.op[2].k = "reg" THEN <<OpLoad(s, i.op[2])>> ELSE VLoad(s, i.op[2], from)
      v == [k \in DOMAIN src |-> FCvt(Elem(from), Elem(to), src[k], Width(ElemSize(to)))]
  IN CASE i.op[1].k = "reg" -> OpStoreGp(s, i.op[1], v[1])
       [] i.op[1].k # "reg" /\ Count(to) # 1 /\ VecFacetSize(to) = 8 ->
            OpStoreVec(s, i.op[1], FullFacet(to), Shuffle(v, Zeros(2), <<0, 1, 2, 3>>))
       [] OTHER -> OpStoreVec(s, i.op[1], to, v)
-----------------------------------------------------------------------------
(* Shuffles.                                                               *)

(* The masks of LiftSseUnpck: elements of the low or the high half of both *)
(* operands in turn.                                                       *)
LiftSseUnpck(s, i, f, high) ==
  LET n == Count(f)
      mask == [k \in 1..n |-> (IF high THEN n \div 2 ELSE 0) + (k - 1) \div 2 + (IF k % 2 = 0 THEN n ELSE 0)]
  IN OpStoreVec(s, i.op[1], f, Shuffle(VLoad(s, i.op[1], f), VLoad(s, i.op[2], f), mask))

LiftSseShufpd(s, i) ==
  OpStoreVec(s, i.op[1], "V2F64", Shuffle(VLoad(s, i.op[1], "V2F64"), VLoad(s, i.op[2], "V2F64"),
    <<Bit(i.op[3].v, 0), 2 + Bit(i.op[3].v, 1)>>))

LiftSseShufps(s, i) ==
  OpStoreVec(s, i.op[1], "V4F32", Shuffle(VLoad(s, i.op[1], "V4F32"), VLoad(s, i.op[2], "V4F32"),
    [k \in 1..4 |-> (IF k <= 2 THEN 0 ELSE 4) + Bits(i.op[3].v, 2 * k - 1, 2 * k - 2)]))

LiftSsePshufd(s, i) ==
  LET src == VLoad(s, i.op[2], "V4I32")
  IN OpStoreVec(s, i.op[1], "V4I32", Shuffle(src, src, [k \in 1..4 |-> Bits(i.op[3].v, 2 * k - 1, 2 * k - 2)]))

(* For the high words (off = 4) the immediate is shifted by 8 and more.    *)
LiftSsePshufw(s, i, off) ==
  LET src == VLoad(s, i.op[2], "V8I16")
      mask == [k \in 1..8 |-> IF k - 1 \in off..(off + 3)
                              THEN off + Bits(i.op[3].v, 2 * k - 1, 2 * k - 2) ELSE k - 1]
  IN OpStoreVec(s, i.op[1], "V8I16", Shuffle(src, src, mask))

LiftSseInsertps(s, i) ==
  LET imm == i.op[3].v
      src == IF i.op[2].k = "vec" THEN VLoad(s, i.op[2], "V4F32")[Bits(imm, 7, 6) + 1]
                                  ELSE VLoad(s, i.op[2], "F32")[1]
      dst == [VLoad(s, i.op[1], "V4F32") EXCEPT ![Bits(imm, 5, 4) + 1] = src]
  IN OpStoreVec(s, i.op[1], "V4F32", Shuffle(dst, Zeros(4), [k \in 1..4 |-> IF Bit(imm, k - 1) = 1 THEN 4 ELSE k - 1]))

LiftSsePinsr(s, i, f, mask) ==
  LET src == IF i.op[2].k = "reg" THEN GetReg(s, i.op[2].r, Elem(f)) ELSE VLoad(s, i.op[2], Elem(f))[1]
  IN OpStoreVec(s, i.op[1], f, [VLoad(s, i.op[1], f) EXCEPT ![1 + (i.op[3].v % (mask + 1))] = src])

LiftSsePextr(s, i, f, mask) ==
  LET ext == VLoad(s, i.op[2], f)[1 + (i.op[3].v % (mask + 1))]
  IN IF i.op[1].k = "reg" THEN StoreGp(s, i.op[1].r, 8, ext) ELSE Store(s, OpAddr(s, i.op[1]), ElemSize(f), ext)

(* A 64-bit memory operand of MOVDDUP is a vector of one element.          *)
LiftSseMovdup(s, i, f, off) ==
  LET src == VLoad(s, i.op[2], IF i.op[2].k = "mem" /\ f = "V2F64" THEN "F64" ELSE f)
  IN OpStoreVec(s, i.op[1], f, Shuffle(src, src, [k \in 1..Count(f) |-> 2 * ((k - 1) \div 2) + off]))

(* Shifts of elements; a count out of range shifts everything out.         *)
LiftSsePshiftElement(s, i, op, f) ==
  LET w == Width(ElemSize(f))
      a == VLoad(s, i.op[1], f)
      count == IF i.op[2].k = "imm" THEN i.op[2].v ELSE VLoad(s, i.op[2], "I64")[1]
      shift == IF op = "AShr" /\ count > w - 1 THEN w - 1 ELSE count
      One(x) == CASE op = "Shl" -> Shl(x, shift, w) [] op = "LShr" -> LShr(x, shift) [] op = "AShr" -> AShr(x, shift, w)
  IN OpStoreVec(s, i.op[1], f, [k \in DOMAIN a |-> IF shift < w THEN One(a[k]) ELSE 0])

LiftSsePshiftBytes(s, i) ==
  LET shift == IF i.op[2].v < 16 THEN i.op[2].v ELSE 16
      src == VLoad(s, i.op[1], "V16I8")
  IN OpStoreVec(s, i.op[1], "V16I8",
       IF i.t = "PSRLDQ" THEN Shuffle(src, Zeros(16), [k \in 1..16 |-> k - 1 + shift])
                         ELSE Shuffle(Zeros(16), src, [k \in 1..16 |-> k - 1 + 16 - shift]))
-----------------------------------------------------------------------------
(* Integer arithmetic beyond a binary operator.                            *)

LiftSsePavg(s, i, f) ==
  LET a == VLoad(s, i.op[1], f)
      b == VLoad(s, i.op[2], f)
  IN OpStoreVec(s, i.op[1], f, [k \in DOMAIN a |-> LShr(a[k] + b[k] + 1, 1)])

LiftSsePmulhw(s, i, signed) ==
  LET w == Width(2)
      Ext(x) == IF signed THEN SExt(x, w, 2 * w) ELSE x
      a == VLoad(s, i.op[1], "V8I16")
      b == VLoad(s, i.op[2], "V8I16")
  IN OpStoreVec(s, i.op[1], "V8I16", [k \in 1..8 |-> LShr((Ext(a[k]) * Ext(b[k])) % 2^(2 * w), w)])

LiftSsePmuldq(s, i, signed) ==
  LET w == Width(4)
      Ext(x) == IF signed THEN Signed(x, w) ELSE x
      a == VLoad(s, i.op[1], "V4I32")
      b == VLoad(s, i.op[2], "V4I32")
  IN OpStoreVec(s, i.op[1], "V2I64", [k \in 1..2 |-> (Ext(a[2 * k - 1]) * Ext(b[2 * k - 1])) % 2^(2 * w)])

LiftSsePmaddwd(s, i) ==
  LET w == Width(2)
      a == VLoad(s, i.op[1], "V8I16")
      b == VLoad(s, i.op[2], "V8I16")
      mul == [k \in 1..8 |-> (Signed(a[k], w) * Signed(b[k], w)) % 2^(2 * w)]
  IN OpStoreVec(s, i.op[1], "V4I32", Map2("Add", Shuffle(mul, mul, <<0, 2, 4, 6>>),
                                                 Shuffle(mul, mul, <<1, 3, 5, 7>>), 2 * w))

(* A signed value of w bits clamped to the range of half the width.        *)
SaturateTrunc(x, w, signed) ==
  LET min == IF signed THEN -(2^(w \div 2 - 1)) ELSE 0
      max == IF signed THEN 2^(w \div 2 - 1) - 1 ELSE 2^(w \div 2) - 1
      v == Signed(x, w)
  IN Trunc(CASE v < min -> min [] v > max -> max [] OTHER -> v, w \div 2)

LiftSsePaddsubSaturate(s, i, op, signed, f) ==
  LET w == Width(ElemSize(f))
      Ext(x) == IF signed THEN SExt(x, w, 2 * w) ELSE x
      a == VLoad(s, i.op[1], f)
      b == VLoad(s, i.op[2], f)
  IN OpStoreVec(s, i.op[1], f,
       [k \in DOMAIN a |-> SaturateTrunc(BinOp(op, Ext(a[k]), Ext(b[k]), 2 * w), 2 * w, signed)])

LiftSsePsadbw(s, i) ==
  LET a == VLoad(s, i.op[1], "V16I8")
      b == VLoad(s, i.op[2], "V16I8")
      diff == [k \in 1..16 |-> IF b[k] > a[k] THEN Neg((a[k] - b[k]) % 2^ByteBits, ByteBits) ELSE a[k] - b[k]]
      sum[k \in 0..16] == IF k = 0 THEN 0 ELSE sum[k - 1] + diff[k]
  IN OpStoreVec(s, i.op[1], "V8I16",
       <<Trunc(sum[8], Width(2)), 0, 0, 0, Trunc(sum[16] - sum[8], Width(2)), 0, 0, 0>>)

LiftSsePack(s, i, f, signed) ==
  LET w == Width(ElemSize(f))
      half == IF f = "V8I16" THEN "V16I8" ELSE "V8I16"
      both == VLoad(s, i.op[1], f) \o VLoad(s, i.op[2], f)
  IN OpStoreVec(s, i.op[1], half, [k \in DOMAIN both |-> SaturateTrunc(both[k], w, signed)])

ICmp(pred, x, y, w) ==
  CASE pred = "EQ" -> x = y [] pred = "ULT" -> x < y [] pred = "UGT" -> x > y
    [] pred = "SLT" -> SLT(x, y, w) [] pred = "SGT" -> SLT(y, x, w)

LiftSsePcmp(s, i, pred, f) ==
  LET w == Width(ElemSize(f))
      a == VLoad(s, i.op[1], f)
      b == VLoad(s, i.op[2], f)
  IN OpStoreVec(s, i.op[1], f, [k \in DOMAIN a |-> IF ICmp(pred, a[k], b[k], w) THEN 2^w - 1 ELSE 0])

LiftSsePminmax(s, i, pred, f) ==
  LET a == VLoad(s, i.op[1], f)
      b == VLoad(s, i.op[2], f)
  IN OpStoreVec(s, i.op[1], f, [k \in DOMAIN a |-> IF ICmp(pred, a[k], b[k], Width(ElemSize(f))) THEN a[k] ELSE b[k]])

LiftSsePabs(s, i, f) ==
  LET w == Width(ElemSize(f))
      a == VLoad(s, i.op[2], f)
  IN OpStoreVec(s, i.op[1], f, [k \in DOMAIN a |-> IF SLT(a[k], 0, w) THEN Neg(a[k], w) ELSE a[k]])

LiftSseMovmsk(s, i, f) ==
  LET a == VLoad(s, i.op[2], f)
      sum[k \in 0..Len(a)] ==
        IF k = 0 THEN 0 ELSE sum[k - 1] + Flag(SLT(a[k], 0, Width(ElemSize(f)))) * 2^(k - 1)
  IN OpStoreGp(s, i.op[1], sum[Len(a)])

LiftSsePmovx(s, i, signed, from, to) ==
  LET a == VLoad(s, i.op[2], from)
      v == Width(ElemSize(to))
  IN OpStoreVec(s, i.op[1], to, [k \in DOMAIN a |-> IF signed THEN SExt(a[k], Width(ElemSize(from)), v) ELSE a[k]])
-----------------------------------------------------------------------------
(* The dispatch of Lifter::Lift: tables from the instruction to the        *)
(* arguments of its LiftSse function.                                      *)

Movdqs == [MOVUPS |-> "V4F32", MOVUPD |-> "V2F64", MOVAPS |-> "V4F32", MOVAPD |-> "V2F64",
           MOVDQU |-> "I128", MOVDQA |-> "I128", LDDQU |-> "I128", MOVNTDQA |-> "I128",
           MOVNTPS |-> "V4F32", MOVNTPD |-> "V2F64", MOVNTDQ |-> "V2I64"]

Unpcks == [PUNPCKLBW |-> <<"V16I8", FALSE>>, PUNPCKLWD |-> <<"V8I16", FALSE>>,
           PUNPCKLDQ |-> <<"V4I32", FALSE>>, PUNPCKLQDQ |-> <<"V2I64", FALSE>>,
           PUNPCKHBW |-> <<"V16I8", TRUE>>, PUNPCKHWD |-> <<"V8I16", TRUE>>,
           PUNPCKHDQ |-> <<"V4I32", TRUE>>, PUNPCKHQDQ |-> <<"V2I64", TRUE>>,
           UNPCKLPS |-> <<"V4F32", FALSE>>, UNPCKLPD |-> <<"V2F64", FALSE>>,
           UNPCKHPS |-> <<"V4F32", TRUE>>, UNPCKHPD |-> <<"V2F64", TRUE>>]

FpBinOps == [ADDSS |-> <<"FAdd", "F32">>, ADDSD |-> <<"FAdd", "F64">>, ADDPS |-> <<"FAdd", "V4F32">>,
             ADDPD |-> <<"FAdd", "V2F64">>, SUBSS |-> <<"FSub", "F32">>, SUBSD |-> <<"FSub", "F64">>,
             SUBPS |-> <<"FSub", "V4F32">>, SUBPD |-> <<"FSub", "V2F64">>, MULSS |-> <<"FMul", "F32">>,
             MULSD |-> <<"FMul", "F64">>, MULPS |-> <<"FMul", "V4F32">>, MULPD |-> <<"FMul", "V2F64">>,
             DIVSS |-> <<"FDiv", "F32">>, DIVSD |-> <<"FDiv", "F64">>, DIVPS |-> <<"FDiv", "V4F32">>,
             DIVPD |-> <<"FDiv", "V2F64">>]

HorzOps == [HADDPS |-> <<"FAdd", "V4F32">>, HADDPD |-> <<"FAdd", "V2F64">>, HSUBPS |-> <<"FSub", "V4F32">>,
            HSUBPD |-> <<"FSub", "V2F64">>, PHADDW |-> <<"Add", "V8I16">>, PHADDD |-> <<"Add", "V4I32">>,
            PHSUBW |-> <<"Sub", "V8I16">>, PHSUBD |-> <<"Sub", "V4I32">>]

Minmaxes == [MINSS |-> <<"OLT", "F32">>, MINSD |-> <<"OLT", "F64">>, MINPS |-> <<"OLT", "V4F32">>,
             MINPD |-> <<"OLT", "V2F64">>, MAXSS |-> <<"OGT", "F32">>, MAXSD |-> <<"OGT", "F64">>,
             MAXPS |-> <<"OGT", "V4F32">>, MAXPD |-> <<"OGT", "V2F64">>]

FpOthers == [COMISS |-> "F32", COMISD |-> "F64", UCOMISS |-> "F32", UCOMISD |-> "F64",
             CMPSS |-> "F32", CMPSD |-> "F64", CMPPS |-> "V4F32", CMPPD |-> "V2F64",
             SQRTSS |-> "F32", SQRTSD |-> "F64", SQRTPS |-> "V4F32", SQRTPD |-> "V2F64",
             ADDSUBPS |-> "V4F32", ADDSUBPD |-> "V2F64"]

Cvts == [CVTDQ2PD |-> <<"V2I32", "V2F64">>, CVTDQ2PS |-> <<"V4I32", "V4F32">>,
         CVTTPD2DQ |-> <<"V2F64", "V2I32">>, CVTTPS2DQ |-> <<"V4F32", "V4I32">>,
         CVTPD2PS |-> <<"V2F64", "V2F32">>, CVTPS2PD |-> <<"V2F32", "V2F64">>,
         CVTSD2SS |-> <<"F64", "F32">>, CVTSS2SD |-> <<"F32", "F64">>,
         CVTTSD2SI |-> <<"F64", "I">>, CVTTSS2SI |-> <<"F32", "I">>,
         CVTSI2SD |-> <<"I", "F64">>, CVTSI2SS |-> <<"I", "F32">>]

IntBinOps == [PXOR |-> <<"Xor", "V2I64">>, POR |-> <<"Or", "V2I64">>, PAND |-> <<"And", "V2I64">>,
              ORPS |-> <<"Or", "V4I32">>, ORPD |-> <<"Or", "V2I64">>, ANDPS |-> <<"And", "V4I32">>,
              ANDPD |-> <<"And", "V2I64">>, XORPS |-> <<"Xor", "V4I32">>, XORPD |-> <<"Xor", "V2I64">>,
              PADDB |-> <<"Add", "V16I8">>, PADDW |-> <<"Add", "V8I16">>, PADDD |-> <<"Add", "V4I32">>,
              PADDQ |-> <<"Add", "V2I64">>, PSUBB |-> <<"Sub", "V16I8">>, PSUBW |-> <<"Sub", "V8I16">>,
              PSUBD |-> <<"Sub", "V4I32">>, PSUBQ |-> <<"Sub", "V2I64">>, PMULLW |-> <<"Mul", "V8I16">>,
              PMULLD |-> <<"Mul", "V4I32">>]

Andns == [ANDNPS |-> "V4I32", ANDNPD |-> "V2I64", PANDN |-> "V2I64"]

Saturates == [PADDSB |-> <<"Add", TRUE, "V16I8">>, PADDSW |-> <<"Add", TRUE, "V8I16">>,
              PADDUSB |-> <<"Add", FALSE, "V16I8">>, PADDUSW |-> <<"Add", FALSE, "V8I16">>,
              PSUBSB |-> <<"Sub", TRUE, "V16I8">>, PSUBSW |-> <<"Sub", TRUE, "V8I16">>,
              PSUBUSB |-> <<"Sub", FALSE, "V16I8">>, PSUBUSW |-> <<"Sub", FALSE, "V8I16">>]

Pshifts == [PSLLW |-> <<"Shl", "V8I16">>, PSLLD |-> <<"Shl", "V4I32">>, PSLLQ |-> <<"Shl", "V2I64">>,
            PSRLW |-> <<"LShr", "V8I16">>, PSRLD |-> <<"LShr", "V4I32">>, PSRLQ |-> <<"LShr", "V2I64">>,
            PSRAW |-> <<"AShr", "V8I16">>, PSRAD |-> <<"AShr", "V4I32">>]

Packs == [PACKSSWB |-> <<"V8I16", TRUE>>, PACKSSDW |-> <<"V4I32", TRUE>>,
          PACKUSWB |-> <<"V8I16", FALSE>>, PACKUSDW |-> <<"V4I32", FALSE>>]

Pinsrs == [PINSRB |-> <<"V16I8", 15>>, PINSRW |-> <<"V8I16", 7>>, PINSRD |-> <<"V4I32", 3>>, PINSRQ |-> <<"V2I64", 1>>]

Pextrs == [PEXTRB |-> <<"V16I8", 15>>, PEXTRW |-> <<"V8I16", 7>>, PEXTRD |-> <<"V4I32", 3>>, PEXTRQ |-> <<"V2I64", 1>>,
           EXTRACTPS |-> <<"V4F32", 3>>]

Pcmps == [PCMPEQB |-> <<"EQ", "V16I8">>, PCMPEQW |-> <<"EQ", "V8I16">>, PCMPEQD |-> <<"EQ", "V4I32">>,
          PCMPEQQ |-> <<"EQ", "V2I64">>, PCMPGTB |-> <<"SGT", "V16I8">>, PCMPGTW |-> <<"SGT", "V8I16">>,
          PCMPGTD |-> <<"SGT", "V4I32">>, PCMPGTQ |-> <<"SGT", "V2I64">>]

Pminmaxes == [PMINUB |-> <<"ULT", "V16I8">>, PMINUW |-> <<"ULT", "V8I16">>, PMINUD |-> <<"ULT", "V4I32">>,
              PMINSB |-> <<"SLT", "V16I8">>, PMINSW |-> <<"SLT", "V8I16">>, PMINSD |-> <<"SLT", "V4I32">>,
              PMAXUB |-> <<"UGT", "V16I8">>, PMAXUW |-> <<"UGT", "V8I16">>, PMAXUD |-> <<"UGT", "V4I32">>,
              PMAXSB |-> <<"SGT", "V16I8">>, PMAXSW |-> <<"SGT", "V8I16">>, PMAXSD |-> <<"SGT", "V4I32">>]

Pabses == [PABSB |-> "V16I8", PABSW |-> "V8I16", PABSD |-> "V4I32"]
Movmsks == [PMOVMSKB |-> "V16I8", MOVMSKPS |-> "V4I32", MOVMSKPD |-> "V2I64"]

Pmovxs == [PMOVSXBW |-> <<TRUE, "V8I8", "V8I16">>, PMOVSXBD |-> <<TRUE, "V4I8", "V4I32">>,
           PMOVSXBQ |-> <<TRUE, "V2I8", "V2I64">>, PMOVSXWD |-> <<TRUE, "V4I16", "V4I32">>,
           PMOVSXWQ |-> <<TRUE, "V2I16", "V2I64">>, PMOVSXDQ |-> <<TRUE, "V2I32", "V2I64">>,
           PMOVZXBW |-> <<FALSE, "V8I8", "V8I16">>, PMOVZXBD |-> <<FALSE, "V4I8", "V4I32">>,
           PMOVZXBQ |-> <<FALSE, "V2I8", "V2I64">>, PMOVZXWD |-> <<FALSE, "V4I16", "V4I32">>,
           PMOVZXWQ |-> <<FALSE, "V2I16", "V2I64">>, PMOVZXDQ |-> <<FALSE, "V2I32", "V2I64">>]

LiftSseMove(s, i) ==
  CASE i.t \in {"LFENCE", "SFENCE", "MFENCE", "PREFETCH", "FLDCW", "LDMXCSR"} -> s
    [] i.t = "FXSAVE" -> LiftFxsave(s, i)
    [] i.t = "FXRSTOR" -> LiftFxrstor(s, i)
    [] i.t = "MOVD" -> LiftSseMovq(s, i, "I32")
    [] i.t = "MOVQ" -> LiftSseMovq(s, i, "I64")
    [] i.t = "MOVSS" -> LiftSseMovScalar(s, i, "I32")
    [] i.t = "MOVSD" -> LiftSseMovScalar(s, i, "I64")
    [] i.t \in DOMAIN Movdqs -> LiftSseMovdq(s, i, Movdqs[i.t])
    [] i.t \in {"MOVLPS", "MOVHLPS", "MOVLPD"} -> LiftSseMovlp(s, i)
    [] i.t \in {"MOVHPS", "MOVLHPS"} -> LiftSseMovhps(s, i)
    [] i.t = "MOVHPD" -> LiftSseMovhpd(s, i)
    [] i.t \in DOMAIN Unpcks -> LiftSseUnpck(s, i, Unpcks[i.t][1], Unpcks[i.t][2])
    [] i.t = "SHUFPD" -> LiftSseShufpd(s, i)
    [] i.t = "SHUFPS" -> LiftSseShufps(s, i)
    [] i.t = "PSHUFD" -> LiftSsePshufd(s, i)
    [] i.t = "PSHUFLW" -> LiftSsePshufw(s, i, 0)
    [] i.t = "PSHUFHW" -> LiftSsePshufw(s, i, 4)
    [] i.t = "INSERTPS" -> LiftSseInsertps(s, i)
    [] i.t = "MOVSLDUP" -> LiftSseMovdup(s, i, "V4F32", 0)
    [] i.t = "MOVSHDUP" -> LiftSseMovdup(s, i, "V4F32", 1)
    [] i.t = "MOVDDUP" -> LiftSseMovdup(s, i, "V2F64", 0)
    [] i.t \in DOMAIN Pinsrs -> LiftSsePinsr(s, i, Pinsrs[i.t][1], Pinsrs[i.t][2])
    [] i.t \in DOMAIN Pextrs -> LiftSsePextr(s, i, Pextrs[i.t][1], Pextrs[i.t][2])
    [] i.t \in {"PSLLDQ", "PSRLDQ"} -> LiftSsePshiftBytes(s, i)

SseMoves == {"LFENCE", "SFENCE", "MFENCE", "PREFETCH", "FLDCW", "LDMXCSR", "FXSAVE", "FXRSTOR", "MOVD", "MOVQ",
             "MOVSS", "MOVSD", "MOVLPS", "MOVHLPS", "MOVLPD", "MOVHPS", "MOVLHPS", "MOVHPD", "SHUFPD", "SHUFPS",
             "PSHUFD", "PSHUFLW", "PSHUFHW", "INSERTPS", "MOVSLDUP", "MOVSHDUP", "MOVDDUP", "PSLLDQ", "PSRLDQ"}
            \cup DOMAIN Movdqs \cup DOMAIN Unpcks \cup DOMAIN Pinsrs \cup DOMAIN Pextrs

LiftSse(s, i) ==
  CASE i.t \in SseMoves -> LiftSseMove(s, i)
    [] i.t \in DOMAIN FpBinOps -> LiftSseBinOp(s, i, FpBinOps[i.t][1], FpBinOps[i.t][2])
    [] i.t \in DOMAIN HorzOps -> LiftSseHorzOp(s, i, HorzOps[i.t][1], HorzOps[i.t][2])
    [] i.t \in DOMAIN Minmaxes -> LiftSseMinmax(s, i, Minmaxes[i.t][1], Minmaxes[i.t][2])
    [] i.t \in {"COMISS", "COMISD", "UCOMISS", "UCOMISD"} -> LiftSseComis(s, i, FpOthers[i.t])
    [] i.t \in {"CMPSS", "CMPSD", "CMPPS", "CMPPD"} -> LiftSseCmp(s, i, FpOthers[i.t])
    [] i.t \in {"SQRTSS", "SQRTSD", "SQRTPS", "SQRTPD"} -> LiftSseSqrt(s, i, FpOthers[i.t])
    [] i.t \in {"ADDSUBPS", "ADDSUBPD"} -> LiftSseAddSub(s, i, FpOthers[i.t])
    [] i.t \in DOMAIN Cvts -> LiftSseCvt(s, i, Cvts[i.t][1], Cvts[i.t][2])
    [] i.t \in DOMAIN IntBinOps -> LiftSseBinOp(s, i, IntBinOps[i.t][1], IntBinOps[i.t][2])
    [] i.t \in DOMAIN Andns -> LiftSseAndn(s, i, Andns[i.t])
    [] i.t \in DOMAIN Saturates -> LiftSsePaddsubSaturate(s, i, Saturates[i.t][1], Saturates[i.t][2], Saturates[i.t][3])
    [] i.t = "PSADBW" -> LiftSsePsadbw(s, i)
    [] i.t \in DOMAIN Pshifts -> LiftSsePshiftElement(s, i, Pshifts[i.t][1], Pshifts[i.t][2])
    [] i.t \in DOMAIN Packs -> LiftSsePack(s, i, Packs[i.t][1], Packs[i.t][2])
    [] i.t = "PAVGB" -> LiftSsePavg(s, i, "V16I8")
    [] i.t = "PAVGW" -> LiftSsePavg(s, i, "V8I16")
    [] i.t \in {"PMULHW", "PMULHUW"} -> LiftSsePmulhw(s, i, i.t = "PMULHW")
    [] i.t \in {"PMULDQ", "PMULUDQ"} -> LiftSsePmuldq(s, i, i.t = "PMULDQ")
    [] i.t = "PMADDWD" -> LiftSsePmaddwd(s, i)
    [] i.t \in DOMAIN Pcmps -> LiftSsePcmp(s, i, Pcmps[i.t][1], Pcmps[i.t][2])
    [] i.t \in DOMAIN Pminmaxes -> LiftSsePminmax(s, i, Pminmaxes[i.t][1], Pminmaxes[i.t][2])
    [] i.t \in DOMAIN Pabses -> LiftSsePabs(s, i, Pabses[i.t])
    [] i.t \in DOMAIN Movmsks -> LiftSseMovmsk(s, i, Movmsks[i.t])
    [] i.t \in DOMAIN Pmovxs -> LiftSsePmovx(s, i, Pmovxs[i.t][1], Pmovxs[i.t][2], Pmovxs[i.t][3])

SseInsts ==
  UNION {SseMoves, DOMAIN FpBinOps, DOMAIN HorzOps, DOMAIN Minmaxes, DOMAIN FpOthers, DOMAIN Cvts, DOMAIN IntBinOps,
         DOMAIN Andns, DOMAIN Saturates, DOMAIN Pshifts, DOMAIN Packs, DOMAIN Pcmps, DOMAIN Pminmaxes, DOMAIN Pabses,
         DOMAIN Movmsks, DOMAIN Pmovxs, {"PSADBW", "PAVGB", "PAVGW", "PMULHW", "PMULHUW", "PMULDQ", "PMULUDQ", "PMADDWD"}}

(* The facets of its source that an instruction reads, and GetReg keeps.   *)
SseReads(i) ==
  LET f == CASE i.t \in DOMAIN Movdqs -> Movdqs[i.t] [] i.t \in DOMAIN Unpcks -> Unpcks[i.t][1]
             [] i.t \in DOMAIN FpBinOps -> FpBinOps[i.t][2] [] i.t \in DOMAIN HorzOps -> HorzOps[i.t][2]
             [] i.t \in DOMAIN Minmaxes -> Minmaxes[i.t][2] [] i.t \in DOMAIN FpOthers -> FpOthers[i.t]
             [] i.t \in DOMAIN IntBinOps -> IntBinOps[i.t][2] [] i.t \in DOMAIN Saturates -> Saturates[i.t][3]
             [] i.t \in DOMAIN Pcmps -> Pcmps[i.t][2] [] i.t \in DOMAIN Pminmaxes -> Pminmaxes[i.t][2]
             [] i.t \in DOMAIN Pabses -> Pabses[i.t] [] i.t \in DOMAIN Movmsks -> Movmsks[i.t]
             [] i.t \in DOMAIN Pextrs -> Pextrs[i.t][1] [] i.t \in {"MOVD", "MOVSS"} -> "I32"
             [] i.t \in {"MOVQ", "MOVSD"} -> "I64" [] OTHER -> "V2I64"
  IN IF i.t = "FXSAVE" THEN {<<VecRegs[n], "I128">> : n \in DOMAIN VecRegs}
     ELSE {<<i.op[n].r, g>> : n \in {m \in {2} \cap DOMAIN i.op : i.op[m].k = "vec"}, g \in {f, FullFacet(f)}}

LiftInst(s, i) ==
  IF i.t \in SseInsts
  THEN LiftSse(KeepVec(Keep(SetIP(s, Add64(s.ip, 1)), OpReads(i)), SseReads(i)), i)
  ELSE Lift(s, i)
=============================================================================
