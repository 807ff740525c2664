---------------------------- MODULE MemoryProofs ----------------------------
(***************************************************************************)
(* Proofs about how the client begins and where its memory comes from.     *)
(* Memory: the blocks handed out are accessible and disjoint, for any      *)
(* arenas, sizes and alignments.  Startup (S below): the guest starts on   *)
(* the stack, with the auxiliary vector and at the entry its image asks    *)
(* for, for every stack the kernel builds and every image.                 *)
(***************************************************************************)
EXTENDS Memory, TLAPS

(* Leaves go to Zenon, with time for a slow machine; those that need       *)
(* arithmetic or sequences name the SMT solver.                            *)
USE ZenonT(60)

(* The quotient and remainder of \div by a positive number.                *)
LEMMA DivBounds ==
  ASSUME NEW x \in Int, NEW a \in Nat \ {0}
  PROVE  /\ x \div a \in Int
         /\ (x \div a) * a <= x
         /\ x < (x \div a) * a + a
  BY SMTT(60)

(* ALIGN_UP returns the next multiple of its second argument.              *)
LEMMA AlignUp ==
  ASSUME NEW v \in Int, NEW a \in Nat \ {0}
  PROVE  /\ ALIGN_UP(v, a) \in Int
         /\ v <= ALIGN_UP(v, a)
         /\ ALIGN_UP(v, a) < v + a
         /\ \E k \in Int : ALIGN_UP(v, a) = k * a
<1>1. v + (a - 1) \in Int
  BY SMTT(60)
<1> DEFINE q == (v + (a - 1)) \div a
<1>2. q \in Int /\ q * a <= v + (a - 1) /\ v + (a - 1) < q * a + a
  BY <1>1, DivBounds
<1>3. ALIGN_UP(v, a) = q * a
  BY DEF ALIGN_UP
<1> HIDE DEF q
<1>4. q * a \in Int
  BY SMTT(60), <1>2
<1> QED
  BY SMTT(60), <1>2, <1>3, <1>4

(* What of it arena_alloc uses for addresses.                              *)
LEMMA AlignUpNat ==
  ASSUME NEW v \in Nat, NEW a \in Nat \ {0}
  PROVE  ALIGN_UP(v, a) \in Nat /\ v <= ALIGN_UP(v, a)
<1>1. ALIGN_UP(v, a) \in Int /\ v <= ALIGN_UP(v, a)
  BY SMTT(60), AlignUp
<1> QED
  BY SMTT(60), <1>1

(* Multiples of P that are less than P apart in this order are ordered.    *)
LEMMA MultiplesGap ==
  ASSUME NEW P \in Nat \ {0}, NEW i \in Int, NEW j \in Int, i * P < j * P + P
  PROVE  i * P <= j * P
<1>1. i < j + 1
  BY SMTT(60)
<1> QED
  BY SMTT(60), <1>1

(* A multiple of the page size is a number of whole pages.                 *)
LEMMA WholePagesIntro ==
  ASSUME MemoryOK, NEW k \in Int, k * PageSize \in Nat
  PROVE  WholePages(k * PageSize)
<1>1. PageSize \in Nat \ {0}
  BY DEF MemoryOK
<1>2. k \in 0 .. k * PageSize
  BY SMTT(60), <1>1
<1> QED
  BY <1>2 DEF WholePages

(* The arithmetic of Grow: with brkp on a page boundary less than a page   *)
(* beyond brk, the pages added end on a page boundary, less than a page    *)
(* beyond the new brk, and the test against brk keeps them inside.         *)
LEMMA GrowArithmetic ==
  ASSUME MemoryOK, NEW b \in Nat, NEW bp \in Nat, NEW end \in Nat,
         NEW al \in Nat, NEW size \in Nat,
         WholePages(bp), WholePages(end),
         b <= bp, bp < b + PageSize, bp <= end, b <= al, al + size > bp,
         NEW n, n = ALIGN_UP(size - (bp - al), PageSize)
  PROVE  /\ n \in Nat
         /\ WholePages(bp + n)
         /\ al + size <= bp + n
         /\ bp + n < al + size + PageSize
         /\ b + n <= end => bp + n <= end
         /\ b + n > end => al + size > end
<1>1. PageSize \in Nat \ {0}
  BY DEF MemoryOK
<1> DEFINE need == size - (bp - al)
<1>2. need \in Int /\ need > 0
  BY SMTT(60)
<1>3. /\ n \in Int /\ need <= n /\ n < need + PageSize
      /\ \E k \in Int : n = k * PageSize
  BY <1>1, <1>2, AlignUp
<1>4. PICK k \in Int : n = k * PageSize
  BY <1>3
<1>5. PICK i \in Int : bp = i * PageSize
  BY SMTT(60) DEF WholePages
<1>6. PICK j \in Int : end = j * PageSize
  BY SMTT(60) DEF WholePages
<1>7. n \in Nat /\ al + size <= bp + n /\ bp + n < al + size + PageSize
  BY SMTT(60), <1>1, <1>2, <1>3
<1>8. bp + n = (i + k) * PageSize /\ i + k \in Int
  BY SMTT(60), <1>1, <1>4, <1>5
<1>9. WholePages(bp + n)
  BY SMTT(60), <1>7, <1>8, WholePagesIntro
<1>10. ASSUME b + n <= end PROVE bp + n <= end
  <2>1. (i + k) * PageSize < j * PageSize + PageSize
    BY SMTT(60), <1>1, <1>6, <1>7, <1>8, <1>10
  <2> QED
    BY <2>1, <1>1, <1>6, <1>8, MultiplesGap
<1>11. ASSUME b + n > end PROVE al + size > end
  <2>1. SUFFICES ASSUME al + size <= end PROVE FALSE
    BY SMTT(60), <1>7
  <2>2. (i + k) * PageSize < j * PageSize + PageSize
    BY SMTT(60), <1>1, <1>6, <1>7, <1>8, <2>1
  <2>3. bp + n <= end
    BY <2>2, <1>1, <1>6, <1>8, MultiplesGap
  <2> QED
    BY SMTT(60), <2>3, <1>7, <1>11
<1> QED
  BY <1>7, <1>9, <1>10, <1>11

(* An arena starts and ends at page boundaries (arena_init).               *)
LEMMA EndIsPage ==
  ASSUME MemoryOK, NEW a \in Arenas
  PROVE  Start(a) \in Nat /\ End(a) \in Nat /\ Start(a) <= End(a)
         /\ WholePages(Start(a)) /\ WholePages(End(a))
<1>1. PageSize \in Nat \ {0} /\ Base[a] \in Nat /\ ArenaSize[a] \in Nat
  BY DEF MemoryOK
<1>0. WholePages(Base[a]) /\ WholePages(ArenaSize[a])
  BY DEF MemoryOK
<1>2. PICK i \in 0 .. Base[a] : Base[a] = i * PageSize
  BY <1>0 DEF WholePages
<1>3. PICK j \in 0 .. ArenaSize[a] : ArenaSize[a] = j * PageSize
  BY <1>0 DEF WholePages
<1>4. End(a) = (i + j) * PageSize /\ i + j \in Int
  BY SMTT(60), <1>1, <1>2, <1>3 DEF End
<1>5. End(a) \in Nat
  BY SMTT(60), <1>1 DEF End
<1>6. WholePages(End(a))
  BY <1>4, <1>5, WholePagesIntro
<1> QED
  BY SMTT(60), <1>0, <1>1, <1>5, <1>6 DEF Start, End

(* arena_init establishes the inductive invariant.                         *)
LEMMA MemInitIInv ==
  ASSUME MemoryOK
  PROVE  Init => IInv
<1> SUFFICES ASSUME Init PROVE IInv
  OBVIOUS
<1>1. PageSize \in Nat \ {0} /\ Base \in [Arenas -> Nat]
  BY DEF MemoryOK
<1>2. TypeOK
  BY SMTT(60), <1>1 DEF Init, TypeOK
<1>3. PageWindow
  <2> SUFFICES ASSUME NEW a \in Arenas
               PROVE  /\ Start(a) <= brk[a] /\ brk[a] <= brkp[a]
                      /\ brkp[a] < brk[a] + PageSize
                      /\ WholePages(brkp[a])
    BY DEF PageWindow
  <2>1. brk[a] = Start(a) /\ brkp[a] = Start(a)
    BY DEF Init, Start
  <2> QED
    BY SMTT(60), <1>1, <2>1, EndIsPage
<1>4. WithinReservation
  BY EndIsPage DEF Init, WithinReservation, Start
<1>5. BlocksOrdered
  BY SMTT(60) DEF Init, BlocksOrdered
<1> QED
  BY <1>2, <1>3, <1>4, <1>5 DEF IInv

(* A block handed out at or above brk, within new page bounds that satisfy *)
(* the window, preserves the invariant.                                    *)
LEMMA HandOutKeeps ==
  ASSUME MemoryOK, IInv, NEW a \in Arenas, NEW al \in Nat \ {0}, NEW size \in Nat,
         NEW brk_al \in Nat, brk[a] <= brk_al,
         HandOut(a, brk_al, size, al),
         NEW bp \in Nat, brkp' = [brkp EXCEPT ![a] = bp],
         brk_al + size <= bp, bp < brk_al + size + PageSize,
         WholePages(bp), bp <= End(a)
  PROVE  IInv'
<1> DEFINE new == [lo |-> brk_al, hi |-> brk_al + size, align |-> al]
<1>1. new \in Block
  BY SMTT(60) DEF Block
<1>2. /\ brk' = [brk EXCEPT ![a] = brk_al + size]
      /\ ret' = brk_al
      /\ blocks' = [blocks EXCEPT ![a] = Append(blocks[a], new)]
  BY DEF HandOut
<1>3. brk \in [Arenas -> Nat] /\ brkp \in [Arenas -> Nat]
      /\ blocks \in [Arenas -> Seq(Block)]
  BY DEF IInv, TypeOK
<1> HIDE DEF new
<1>4. TypeOK'
  BY SMTT(60), <1>1, <1>2, <1>3 DEF TypeOK
<1>5. PageWindow'
  <2> SUFFICES ASSUME NEW c \in Arenas
               PROVE  /\ Start(c) <= brk'[c] /\ brk'[c] <= brkp'[c]
                      /\ brkp'[c] < brk'[c] + PageSize
                      /\ WholePages(brkp'[c])
    BY DEF PageWindow, Start, WholePages
  <2>1. Start(c) \in Nat /\ PageSize \in Nat
    BY EndIsPage DEF MemoryOK
  <2>2. CASE c = a
    BY SMTT(60), <1>2, <1>3, <2>1, <2>2 DEF IInv, PageWindow
  <2>3. CASE c # a
    BY <1>2, <1>3, <2>1, <2>3 DEF IInv, PageWindow
  <2> QED
    BY <2>2, <2>3
<1>6. WithinReservation'
  BY <1>3 DEF IInv, WithinReservation, End
<1>7. BlocksOrdered'
  <2> SUFFICES ASSUME NEW c \in Arenas, NEW i \in DOMAIN blocks'[c]
               PROVE  /\ Start(c) <= blocks'[c][i].lo
                      /\ blocks'[c][i].lo <= blocks'[c][i].hi
                      /\ blocks'[c][i].hi <= brk'[c]
                      /\ \A j \in DOMAIN blocks'[c] :
                           i < j => blocks'[c][i].hi <= blocks'[c][j].lo
    BY DEF BlocksOrdered, Start
  <2>1. CASE c # a
    BY <1>2, <1>3, <2>1 DEF IInv, BlocksOrdered
  <2>2. CASE c = a
    <3>1. blocks[a] \in Seq(Block) /\ blocks'[c] = Append(blocks[a], new)
      BY <1>2, <1>3, <2>2
    <3>2. new.lo = brk_al /\ new.hi = brk_al + size
      BY DEF new
    <3>3. brk[a] \in Nat /\ brk'[c] = brk_al + size /\ Start(a) \in Nat
          /\ Start(a) <= brk[a]
      BY <1>2, <1>3, <2>2, EndIsPage DEF IInv, PageWindow
    <3>4. \A k \in DOMAIN blocks[a] :
            /\ blocks[a][k] \in Block
            /\ blocks'[c][k] = blocks[a][k]
            /\ Start(a) <= blocks[a][k].lo /\ blocks[a][k].lo <= blocks[a][k].hi
            /\ blocks[a][k].hi <= brk[a]
      BY SMTT(60), <3>1 DEF IInv, BlocksOrdered
    <3>5. DOMAIN blocks'[c] = 1 .. Len(blocks[a]) + 1
          /\ DOMAIN blocks[a] = 1 .. Len(blocks[a]) /\ Len(blocks[a]) \in Nat
          /\ blocks'[c][Len(blocks[a]) + 1] = new
      BY SMTT(60), <1>1, <3>1
    <3>6. CASE i = Len(blocks[a]) + 1
      <4>1. blocks'[c][i].lo = brk_al /\ blocks'[c][i].hi = brk_al + size
        BY <3>2, <3>5, <3>6
      <4>2. ~ \E j \in DOMAIN blocks'[c] : i < j
        BY SMTT(60), <3>5, <3>6
      <4>3. Start(c) <= brk_al
        BY SMTT(60), <2>2, <3>3
      <4> QED
        BY SMTT(60), <3>3, <4>1, <4>2, <4>3
    <3>7. CASE i \in DOMAIN blocks[a]
      <4>1. ASSUME NEW j \in DOMAIN blocks'[c], i < j
            PROVE  blocks'[c][i].hi <= blocks'[c][j].lo
        <5>1. CASE j \in DOMAIN blocks[a]
          BY <3>4, <3>7, <4>1, <5>1 DEF IInv, BlocksOrdered
        <5>2. CASE j = Len(blocks[a]) + 1
          <6>1. blocks'[c][j].lo = brk_al
            BY <3>2, <3>5, <5>2
          <6>2. blocks'[c][i].hi <= brk[a] /\ blocks'[c][i].hi \in Nat
            BY <3>4, <3>7 DEF Block
          <6> QED
            BY SMTT(60), <3>3, <6>1, <6>2
        <5> QED
          BY SMTT(60), <3>5, <5>1, <5>2
      <4> QED
        BY SMTT(60), <2>2, <3>3, <3>4, <3>7, <4>1 DEF Block
    <3> QED
      BY SMTT(60), <3>5, <3>6, <3>7
  <2> QED
    BY <2>1, <2>2
<1> QED
  BY <1>4, <1>5, <1>6, <1>7 DEF IInv

(* arena_alloc preserves it, on each of its paths.                         *)
LEMMA AllocKeeps ==
  ASSUME MemoryOK, IInv, NEW a \in Arenas, NEW size \in Sizes, NEW alignment \in Alignments,
         arena_alloc(a, size, alignment)
  PROVE  IInv'
<1> DEFINE al     == AtLeastMin(alignment)
           brk_al == ALIGN_UP(brk[a], al)
           n      == NewPages(a, brk_al, size)
<1>1. al \in Nat \ {0} /\ size \in Nat /\ PageSize \in Nat \ {0}
  BY SMTT(60) DEF AtLeastMin, MemoryOK
<1>2. /\ brk \in [Arenas -> Nat] /\ brkp \in [Arenas -> Nat]
      /\ brk[a] <= brkp[a] /\ brkp[a] < brk[a] + PageSize
      /\ WholePages(brkp[a]) /\ brkp[a] <= End(a)
  BY DEF IInv, TypeOK, PageWindow, WithinReservation
<1>3. brk_al \in Nat /\ brk[a] <= brk_al
  <2>1. brk[a] \in Nat
    BY <1>2
  <2> HIDE DEF al
  <2> QED
    BY <1>1, <2>1, AlignUpNat
<1>4. ASSUME NEW err \in {EINVAL, ENOMEM}, Fail(err) PROVE IInv'
  <2>1. ret' \in Int /\ UNCHANGED <<brk, brkp, blocks>>
    BY SMTT(60), <1>4 DEF Fail, EINVAL, ENOMEM
  <2> QED
    BY <2>1 DEF IInv, TypeOK, PageWindow, WithinReservation, BlocksOrdered
<1>5. CASE Fits(a, brk_al, size) /\ HandOut(a, brk_al, size, al) /\ UNCHANGED brkp
  <2>1. brkp' = [brkp EXCEPT ![a] = brkp[a]]
    BY <1>2, <1>5
  <2>2. brk_al + size <= brkp[a] /\ brkp[a] < brk_al + size + PageSize
    BY SMTT(60), <1>1, <1>2, <1>3, <1>5 DEF Fits
  <2> HIDE DEF al, brk_al
  <2> QED
    BY <1>1, <1>2, <1>3, <1>5, <2>1, <2>2, HandOutKeeps
<1>6. CASE ~Fits(a, brk_al, size) /\ ~OverLimit(a, n)
           /\ brkp' = [brkp EXCEPT ![a] = @ + n] /\ HandOut(a, brk_al, size, al)
  <2>1. End(a) \in Nat /\ WholePages(End(a))
    BY EndIsPage
  <2>2. brk_al + size > brkp[a]
    BY SMTT(60), <1>1, <1>2, <1>3, <1>6 DEF Fits
  <2>3. n = ALIGN_UP(size - (brkp[a] - brk_al), PageSize)
    BY DEF NewPages
  <2>4. brk[a] \in Nat /\ brkp[a] \in Nat
    BY <1>2
  <2> HIDE DEF n, al, brk_al
  <2>5. /\ n \in Nat /\ WholePages(brkp[a] + n)
        /\ brk_al + size <= brkp[a] + n
        /\ brkp[a] + n < brk_al + size + PageSize
        /\ brk[a] + n <= End(a) => brkp[a] + n <= End(a)
    BY SMTT(60), <1>1, <1>2, <1>3, <2>1, <2>2, <2>3, <2>4, GrowArithmetic
  <2>6. brk[a] + n <= End(a)
    BY SMTT(60), <1>6, <2>1, <2>4, <2>5 DEF OverLimit
  <2>7. brkp' = [brkp EXCEPT ![a] = brkp[a] + n] /\ brkp[a] + n \in Nat
    BY SMTT(60), <1>6, <2>4, <2>5
  <2> QED
    BY <1>1, <1>3, <1>6, <2>5, <2>6, <2>7, HandOutKeeps
<1>7. arena_alloc(a, size, alignment)
  OBVIOUS
<1> QED
  BY <1>4, <1>5, <1>6, <1>7 DEF arena_alloc, Grow

(* Every step preserves it.                                                *)
LEMMA MemStepIInv ==
  ASSUME MemoryOK
  PROVE  IInv /\ [Next]_vars => IInv'
<1> SUFFICES ASSUME IInv, [Next]_vars PROVE IInv'
  OBVIOUS
<1>1. CASE Next
  BY <1>1, AllocKeeps DEF Next
<1>2. CASE UNCHANGED vars
  BY <1>2 DEF vars, IInv, TypeOK, PageWindow, WithinReservation, BlocksOrdered
<1> QED
  BY <1>1, <1>2

(* The inductive invariant of the arenas holds throughout.                 *)
THEOREM MemoryInvariant == Spec => []IInv
<1>1. Init => IInv
  BY MemoryAssumption, MemInitIInv
<1>2. IInv /\ [Next]_vars => IInv'
  BY MemoryAssumption, MemStepIInv
<1> QED
  BY <1>1, <1>2, PTL DEF Spec

(* Every block handed out lies in accessible pages of its reservation,     *)
(* although arena_alloc tests the limit against brk.                       *)
THEOREM BlocksAlwaysAccessible == Spec => []BlocksAccessible
<1>1. IInv => BlocksAccessible
  <2> SUFFICES ASSUME IInv, NEW a \in Arenas
               PROVE  /\ brkp[a] <= End(a)
                      /\ \A i \in DOMAIN blocks[a] :
                           /\ Start(a) <= blocks[a][i].lo
                           /\ blocks[a][i].lo <= blocks[a][i].hi
                           /\ blocks[a][i].hi <= brkp[a]
    BY DEF BlocksAccessible
  <2>1. brk[a] \in Nat /\ brkp[a] \in Nat /\ blocks[a] \in Seq(Block)
        /\ brk[a] <= brkp[a] /\ brkp[a] <= End(a)
    BY DEF IInv, TypeOK, PageWindow, WithinReservation
  <2>2. ASSUME NEW i \in DOMAIN blocks[a]
        PROVE  /\ Start(a) <= blocks[a][i].lo /\ blocks[a][i].lo <= blocks[a][i].hi
               /\ blocks[a][i].hi <= brkp[a]
    <3>1. blocks[a][i] \in Block
      BY SMTT(60), <2>1
    <3>2. blocks[a][i].hi \in Nat /\ blocks[a][i].hi <= brk[a]
      BY <3>1 DEF IInv, BlocksOrdered, Block
    <3> QED
      BY SMTT(60), <2>1, <3>2 DEF IInv, BlocksOrdered
  <2> QED
    BY <2>1, <2>2
<1> QED
  BY <1>1, MemoryInvariant, PTL

(* No byte is handed out twice, within an arena or by two arenas.          *)
THEOREM BlocksAlwaysDisjoint == Spec => []BlocksDisjoint
<1> USE MemoryAssumption
<1>1. IInv => BlocksDisjoint
  <2> SUFFICES ASSUME IInv, NEW a \in Arenas, NEW b \in Arenas,
                      NEW i \in DOMAIN blocks[a], NEW j \in DOMAIN blocks[b],
                      a # b \/ i # j
               PROVE  \/ blocks[a][i].hi <= blocks[b][j].lo
                      \/ blocks[b][j].hi <= blocks[a][i].lo
    BY DEF BlocksDisjoint
  <2>1. \A c \in Arenas : \A k \in DOMAIN blocks[c] :
          /\ blocks[c][k].lo \in Nat /\ blocks[c][k].hi \in Nat /\ k \in Nat
          /\ Start(c) <= blocks[c][k].lo /\ blocks[c][k].hi <= End(c)
    <3> SUFFICES ASSUME NEW c \in Arenas, NEW k \in DOMAIN blocks[c]
                 PROVE  /\ blocks[c][k].lo \in Nat /\ blocks[c][k].hi \in Nat
                        /\ k \in Nat /\ Start(c) <= blocks[c][k].lo
                        /\ blocks[c][k].hi <= End(c)
      OBVIOUS
    <3>1. brk[c] \in Nat /\ brkp[c] \in Nat /\ blocks[c] \in Seq(Block)
          /\ brk[c] <= brkp[c] /\ brkp[c] <= End(c) /\ End(c) \in Nat
      BY EndIsPage DEF IInv, TypeOK, PageWindow, WithinReservation
    <3>2. blocks[c][k] \in Block /\ k \in Nat
      BY SMTT(60), <3>1
    <3>3. Start(c) <= blocks[c][k].lo /\ blocks[c][k].hi <= brk[c]
      BY DEF IInv, BlocksOrdered
    <3> QED
      BY SMTT(60), <3>1, <3>2, <3>3 DEF Block
  <2>2. CASE a = b
    BY SMTT(60), <2>1, <2>2 DEF IInv, BlocksOrdered
  <2>3. CASE a # b
    <3>1. End(a) <= Start(b) \/ End(b) <= Start(a)
      BY <2>3 DEF Start, End, MemoryOK
    <3>2. Start(a) \in Nat /\ End(a) \in Nat /\ Start(b) \in Nat /\ End(b) \in Nat
      BY EndIsPage
    <3> QED
      BY SMTT(60), <2>1, <3>1, <3>2
  <2> QED
    BY <2>2, <2>3
<1> QED
  BY <1>1, MemoryInvariant, PTL

(* Every block handed out is accessible and belongs to one caller only.    *)
THEOREM BlocksAlwaysSound == Spec => []BlocksSound
  BY BlocksAlwaysAccessible, BlocksAlwaysDisjoint, PTL DEF BlocksSound

(* arena_alloc refuses a request only if the arena cannot hold it.         *)
THEOREM AlwaysRefusedOnlyWhenFull == Spec => []RefusedOnlyWhenFull
<1> USE MemoryAssumption
<1>1. IInv => RefusedOnlyWhenFull
  <2> SUFFICES ASSUME IInv, NEW a \in Arenas, NEW size \in Sizes,
                      NEW alignment \in Alignments, NEW brk_al,
                      brk_al = ALIGN_UP(brk[a], AtLeastMin(alignment)),
                      ~Fits(a, brk_al, size), OverLimit(a, NewPages(a, brk_al, size))
               PROVE  brk_al + size > End(a)
    BY DEF RefusedOnlyWhenFull
  <2> DEFINE n == NewPages(a, brk_al, size)
  <2>1. AtLeastMin(alignment) \in Nat \ {0} /\ size \in Nat
    BY SMTT(60) DEF AtLeastMin, MemoryOK
  <2>2. /\ brk[a] \in Nat /\ brkp[a] \in Nat
        /\ brk[a] <= brkp[a] /\ brkp[a] < brk[a] + PageSize
        /\ WholePages(brkp[a]) /\ brkp[a] <= End(a)
    BY DEF IInv, TypeOK, PageWindow, WithinReservation
  <2>3. brk_al \in Nat /\ brk[a] <= brk_al
    BY <2>1, <2>2, AlignUpNat
  <2>4. End(a) \in Nat /\ WholePages(End(a))
    BY EndIsPage
  <2>5. brk_al + size > brkp[a]
    BY SMTT(60), <2>1, <2>2, <2>3 DEF Fits
  <2>6. n = ALIGN_UP(size - (brkp[a] - brk_al), PageSize)
    BY DEF NewPages
  <2>7. brk[a] + n > End(a)
    BY DEF OverLimit
  <2> HIDE DEF n
  <2> QED
    BY SMTT(60), <2>1, <2>2, <2>3, <2>4, <2>5, <2>6, <2>7, GrowArithmetic
<1> QED
  BY <1>1, MemoryInvariant, PTL

-----------------------------------------------------------------------------
(* Startup.  The constants and the variables of that module.               *)
CONSTANTS Stacks, Images, Bases, StackEnd
VARIABLES pc, status, start, image, base, words, argv, environ, auxv, info, stack, regs

S == INSTANCE Startup
INSTANCE WellFoundedInduction

(* A set of numbers has a least element.                                   *)
LEMMA Least ==
  ASSUME NEW T, T \subseteq Nat, T # {}
  PROVE  \E x \in T : \A y \in T : x <= y
<1> DEFINE R == OpToRel(<, Nat)
<1>1. IsWellFoundedOn(R, Nat)
  BY NatLessThanWellFounded
<1>2. \A y, x \in Nat : y < x => <<y, x>> \in R
  BY SMTT(60) DEF OpToRel
<1> HIDE DEF R
<1>3. PICK x \in T : \A y \in T : ~(<<y, x>> \in R)
  BY <1>1, WFMin
<1>4. \A y \in T : x \in Nat /\ y \in Nat /\ ~(y < x)
  BY <1>2, <1>3
<1>5. \A y \in T : x <= y
  BY SMTT(60), <1>4
<1> QED BY <1>5

(* Sequences that agree everywhere are equal.                              *)
LEMMA SameSeq ==
  ASSUME NEW A, NEW s \in Seq(A), NEW t \in Seq(A), Len(s) = Len(t),
         \A i \in 1 .. Len(s) : s[i] = t[i]
  PROVE  s = t
  BY SMTT(60)

(* Two sequences joined.                                                   *)
LEMMA ConcatType ==
  ASSUME NEW A, NEW s \in Seq(A), NEW t \in Seq(A)
  PROVE  s \o t \in Seq(A)
  BY SMTT(60)

(* A sequence after another.                                               *)
IsJoin(A, j, s, t) ==
  /\ j \in Seq(A) /\ Len(j) = Len(s) + Len(t)
  /\ \A i \in 1 .. Len(s) : j[i] = s[i]
  /\ \A i \in 1 .. Len(t) : j[Len(s) + i] = t[i]

LEMMA Joined ==
  ASSUME NEW A, NEW s \in Seq(A), NEW t \in Seq(A)
  PROVE  IsJoin(A, s \o t, s, t)
<1>1. s \o t \in Seq(A) /\ Len(s \o t) = Len(s) + Len(t)
  BY SMTT(60)
<1>2. \A i \in 1 .. Len(s) : (s \o t)[i] = s[i]
  BY SMTT(60)
<1>3. \A i \in 1 .. Len(t) : (s \o t)[Len(s) + i] = t[i]
  BY SMTT(60)
<1> QED BY <1>1, <1>2, <1>3 DEF IsJoin

(* One word more on top.                                                   *)
IsPush(A, j, x, t) ==
  /\ j \in Seq(A) /\ Len(j) = Len(t) + 1 /\ j[1] = x
  /\ \A i \in 1 .. Len(t) : j[i + 1] = t[i]

LEMMA Pushed ==
  ASSUME NEW A, NEW t \in Seq(A), NEW x \in A
  PROVE  IsPush(A, <<x>> \o t, x, t)
<1>1. <<x>> \o t \in Seq(A) /\ Len(<<x>> \o t) = Len(t) + 1
  BY SMTT(60)
<1>2. (<<x>> \o t)[1] = x
  BY SMTT(60)
<1>3. \A i \in 1 .. Len(t) : (<<x>> \o t)[i + 1] = t[i]
  BY SMTT(60)
<1> QED BY <1>1, <1>2, <1>3 DEF IsPush

(* A piece of a sequence, after its first p words.                         *)
Has(s, p, t) == \A i \in 1 .. Len(t) : s[p + i] = t[i]

(* The words of an initial stack: the number of arguments, the arguments,  *)
(* a zero, the environment, a zero, and the rest.                          *)
FirstStack(a, e, v) == <<Len(a)>> \o (a \o (<<0>> \o (e \o (<<0>> \o v))))

IsStack(A, s, a, e, v) ==
  /\ s \in Seq(A) /\ Len(s) = Len(a) + Len(e) + Len(v) + 3
  /\ s[1] = Len(a) /\ s[Len(a) + Len(e) + 3] = 0
  /\ Has(s, 1, a) /\ Has(s, Len(a) + 2, e) /\ Has(s, Len(a) + Len(e) + 3, v)

LEMMA StackWords ==
  ASSUME NEW A, NEW a \in Seq(A), NEW e \in Seq(A), NEW v \in Seq(A), 0 \in A, Len(a) \in A,
         NEW s, s = FirstStack(a, e, v)
  PROVE  IsStack(A, s, a, e, v)
<1> DEFINE n == Len(a)  m == Len(e)  k == Len(v)
<1>0. n \in Nat /\ m \in Nat /\ k \in Nat
  BY SMTT(60)
<1>1. PICK t1 : t1 = <<0>> \o v
  OBVIOUS
<1>2. IsPush(A, t1, 0, v)
  BY <1>1, Pushed
<1>3. PICK t2 : t2 = e \o t1
  OBVIOUS
<1>4. IsJoin(A, t2, e, t1)
  BY <1>2, <1>3, Joined DEF IsPush
<1>5. PICK t3 : t3 = <<0>> \o t2
  OBVIOUS
<1>6. IsPush(A, t3, 0, t2)
  BY <1>4, <1>5, Pushed DEF IsJoin
<1>7. PICK t4 : t4 = a \o t3
  OBVIOUS
<1>8. IsJoin(A, t4, a, t3)
  BY <1>6, <1>7, Joined DEF IsPush
<1>9. s = <<n>> \o t4
  BY <1>1, <1>3, <1>5, <1>7 DEF FirstStack
<1>10. IsPush(A, s, n, t4)
  BY <1>8, <1>9, Pushed DEF IsJoin
<1> HIDE DEF n, m, k
<1>11. Len(t1) = k + 1 /\ Len(t2) = m + k + 1 /\ Len(t3) = m + k + 2 /\ Len(t4) = n + m + k + 2
  <2>1. Len(t1) = k + 1 /\ Len(t2) = m + Len(t1) /\ Len(t3) = Len(t2) + 1 /\ Len(t4) = n + Len(t3)
    BY <1>2, <1>4, <1>6, <1>8 DEF IsPush, IsJoin, n, m, k
  <2> QED BY SMTT(60), <1>0, <2>1
<1>12. Len(s) = n + m + k + 3
  <2>1. Len(s) = Len(t4) + 1
    BY <1>10 DEF IsPush
  <2> QED BY SMTT(60), <1>0, <1>11, <2>1
<1>13. \A i \in 1 .. Len(t4) : s[i + 1] = t4[i]
  BY <1>10 DEF IsPush
<1>14. \A i \in 1 .. n : s[1 + i] = a[i]
  <2>1. \A i \in 1 .. n : i \in 1 .. Len(t4) /\ 1 + i = i + 1
    BY SMTT(60), <1>0, <1>11
  <2>2. \A i \in 1 .. n : t4[i] = a[i]
    BY <1>8 DEF IsJoin, n
  <2> QED BY <1>13, <2>1, <2>2
<1>15. ASSUME NEW i \in 1 .. m + k + 1
       PROVE  s[n + 2 + i] = t2[i]
  <2>1. /\ i \in 1 .. Len(t2) /\ i + 1 \in 1 .. Len(t3) /\ n + (i + 1) \in 1 .. Len(t4)
        /\ n + 2 + i = n + (i + 1) + 1
    BY SMTT(60), <1>0, <1>11
  <2>2. t3[i + 1] = t2[i]
    BY <1>6, <2>1 DEF IsPush
  <2>3. t4[n + (i + 1)] = t3[i + 1]
    BY <1>8, <2>1 DEF IsJoin, n
  <2> QED BY <1>13, <2>1, <2>2, <2>3
<1>16. \A i \in 1 .. m : s[n + 2 + i] = e[i]
  <2>1. \A i \in 1 .. m : i \in 1 .. m + k + 1
    BY SMTT(60), <1>0
  <2>2. \A i \in 1 .. m : t2[i] = e[i]
    BY <1>4 DEF IsJoin, m
  <2> QED BY <1>15, <2>1, <2>2
<1>17. ASSUME NEW i \in 1 .. k + 1
       PROVE  s[n + m + 2 + i] = t1[i]
  <2>1. m + i \in 1 .. m + k + 1 /\ n + m + 2 + i = n + 2 + (m + i) /\ i \in 1 .. Len(t1)
    BY SMTT(60), <1>0, <1>11
  <2>2. t2[m + i] = t1[i]
    BY <1>4, <2>1 DEF IsJoin, m
  <2>3. s[n + 2 + (m + i)] = t2[m + i]
    BY <1>15, <2>1
  <2> QED BY <2>1, <2>2, <2>3
<1>18. s[n + m + 3] = 0
  <2>1. 1 \in 1 .. k + 1 /\ n + m + 2 + 1 = n + m + 3
    BY SMTT(60), <1>0
  <2>2. s[n + m + 2 + 1] = t1[1]
    BY <1>17, <2>1
  <2> QED BY <1>2, <2>1, <2>2 DEF IsPush
<1>19. ASSUME NEW i \in 1 .. k
       PROVE  s[n + m + 3 + i] = v[i]
  <2>1. i + 1 \in 1 .. k + 1 /\ n + m + 2 + (i + 1) = n + m + 3 + i
    BY SMTT(60), <1>0
  <2>2. t1[i + 1] = v[i]
    BY <1>2 DEF IsPush, k
  <2>3. s[n + m + 2 + (i + 1)] = t1[i + 1]
    BY <1>17, <2>1
  <2> QED BY <2>1, <2>2, <2>3
<1>20. s \in Seq(A) /\ s[1] = n
  BY <1>10 DEF IsPush
<1> QED BY <1>12, <1>14, <1>16, <1>18, <1>19, <1>20 DEF IsStack, Has, n, m, k

LEMMA Piece ==
  ASSUME NEW A, NEW s \in Seq(A), NEW t \in Seq(A), NEW p \in Nat, NEW q \in Nat, q = p + Len(t),
         q <= Len(s), Has(s, p, t)
  PROVE  SubSeq(s, p + 1, q) = t
<1> DEFINE u == SubSeq(s, p + 1, q)
<1>1. u \in Seq(A) /\ Len(u) = Len(t)
  BY SMTT(60)
<1>2. \A i \in 1 .. Len(t) : u[i] = s[p + i]
  BY SMTT(60)
<1> HIDE DEF u
<1>3. \A i \in 1 .. Len(u) : u[i] = t[i]
  BY <1>1, <1>2 DEF Has
<1> QED BY <1>1, <1>3, SameSeq DEF u

(* The first zero from a place on.                                         *)
LEMMA FirstZeroRight ==
  ASSUME NEW s, NEW from \in Nat, NEW i \in Nat, Len(s) \in Nat, from <= i, i <= Len(s), s[i] = 0,
         \A j \in from .. i - 1 : s[j] # 0
  PROVE  S!FirstZero(s, from) = i
<1> DEFINE P(x) == s[x] = 0 /\ \A j \in from .. x - 1 : s[j] # 0
<1>1. i \in from .. Len(s) /\ P(i)
  <2>1. i \in from .. Len(s)
    BY SMTT(60)
  <2> QED BY <2>1
<1>2. ASSUME NEW x \in from .. Len(s), P(x), x # i
      PROVE  FALSE
  <2>1. x \in from .. i - 1 \/ i \in from .. x - 1
    BY SMTT(60), <1>2
  <2> QED BY <1>1, <1>2, <2>1
<1>3. S!FirstZero(s, from) = CHOOSE x \in from .. Len(s) : P(x)
  BY DEF S!FirstZero
<1> HIDE DEF P
<1> QED BY <1>1, <1>2, <1>3

(* A start routine finds in an initial stack what was put there.           *)
ReadsAs(s, a, e, v) ==
  /\ Len(s) = Len(a) + Len(e) + Len(v) + 3
  /\ SubSeq(s, 2, s[1] + 1) = a
  /\ SubSeq(s, s[1] + 3, S!FirstZero(s, s[1] + 3) - 1) = e
  /\ S!AuxOf(s) = v

LEMMA StackRead ==
  ASSUME NEW A, NEW a \in Seq(A), NEW e \in Seq(A), NEW v \in Seq(A), 0 \in A, Len(a) \in A,
         \A i \in 1 .. Len(e) : e[i] # 0, NEW s, s = FirstStack(a, e, v)
  PROVE  ReadsAs(s, a, e, v)
<1>0. PICK n \in Nat, m \in Nat, k \in Nat : n = Len(a) /\ m = Len(e) /\ k = Len(v)
  BY SMTT(60)
<1>1. /\ s \in Seq(A) /\ Len(s) = Len(a) + Len(e) + Len(v) + 3
      /\ s[1] = Len(a) /\ s[Len(a) + Len(e) + 3] = 0
      /\ Has(s, 1, a) /\ Has(s, Len(a) + 2, e) /\ Has(s, Len(a) + Len(e) + 3, v)
  <2>1. IsStack(A, s, a, e, v)
    BY StackWords
  <2> QED BY <2>1 DEF IsStack
<1>2. PICK z \in Nat : z = n + m + 3 /\ Len(s) = z + k /\ z = Len(a) + Len(e) + 3
  BY SMTT(60), <1>0, <1>1
<1>3. SubSeq(s, 2, s[1] + 1) = a
  <2>1. PICK q \in Nat : q = s[1] + 1 /\ q = 1 + Len(a) /\ q <= Len(s)
    BY SMTT(60), <1>0, <1>1, <1>2
  <2>2. SubSeq(s, 1 + 1, q) = a
    <3>1. s \in Seq(A) /\ Has(s, 1, a) /\ 1 \in Nat
      BY <1>1
    <3>2. q = 1 + Len(a) /\ q <= Len(s)
      BY <2>1
    <3> QED BY <3>1, <3>2, Piece
  <2>3. 1 + 1 = 2
    BY SMTT(60)
  <2> QED BY <2>1, <2>2, <2>3
<1>4. S!FirstZero(s, s[1] + 3) = z
  <2>1. PICK p \in Nat : p = s[1] + 3 /\ p = Len(a) + 2 + 1 /\ p = n + 3
    BY SMTT(60), <1>0, <1>1
  <2>2. ASSUME NEW j \in p .. z - 1
        PROVE  s[j] # 0
    <3>0. z = n + m + 3 /\ p = n + 3
      BY <1>2, <2>1
    <3>1. j - p + 1 \in 1 .. m /\ n + 2 + (j - p + 1) = j
      BY SMTT(60), <3>0
    <3>2. s[Len(a) + 2 + (j - p + 1)] = e[j - p + 1]
      BY <1>0, <1>1, <3>1 DEF Has
    <3> QED BY <1>0, <3>1, <3>2
  <2>3. p <= z /\ z <= Len(s) /\ Len(s) \in Nat
    BY SMTT(60), <1>2, <2>1
  <2>4. s[z] = 0
    BY <1>1, <1>2
  <2>5. S!FirstZero(s, p) = z
    BY <2>2, <2>3, <2>4, FirstZeroRight
  <2> QED BY <2>1, <2>5
<1>5. SubSeq(s, s[1] + 3, z - 1) = e
  <2>1. PICK p \in Nat, q \in Nat :
          p = Len(a) + 2 /\ p + 1 = s[1] + 3 /\ q = z - 1 /\ q = p + Len(e) /\ q <= Len(s)
    BY SMTT(60), <1>0, <1>1, <1>2
  <2>2. SubSeq(s, p + 1, q) = e
    <3>1. s \in Seq(A) /\ Has(s, p, e)
      BY <1>1, <2>1
    <3> QED BY <2>1, <3>1, Piece
  <2> QED BY <2>1, <2>2
<1>6. SubSeq(s, z + 1, Len(s)) = v
  <2>1. PICK q \in Nat : q = Len(s) /\ q = z + Len(v) /\ q <= Len(s)
    BY SMTT(60), <1>0, <1>2
  <2>2. SubSeq(s, z + 1, q) = v
    <3>1. s \in Seq(A) /\ Has(s, z, v)
      BY <1>1, <1>2
    <3> QED BY <2>1, <3>1, Piece
  <2> QED BY <2>1, <2>2
<1>7. S!AuxOf(s) = v
  BY <1>4, <1>6 DEF S!AuxOf
<1>8. SubSeq(s, s[1] + 3, S!FirstZero(s, s[1] + 3) - 1) = e
  BY <1>4, <1>5
<1> QED BY <1>1, <1>3, <1>7, <1>8 DEF ReadsAs

(* getauxval finds the first entry of a type.                              *)
LEMMA AuxFound ==
  ASSUME NEW A, NEW v \in Seq(A), NEW t, t # 0, NEW i \in Nat, 2 * i + 2 <= Len(v),
         v[2 * i + 1] = t, \A j \in 0 .. i - 1 : v[2 * j + 1] \notin {0, t}
  PROVE  S!getauxval(v, t) = v[2 * i + 2]
<1> DEFINE P(x) == /\ v[2 * x + 1] \in {S!AT_NULL, t}
                   /\ \A j \in 0 .. x - 1 : v[2 * j + 1] \notin {S!AT_NULL, t}
           end == CHOOSE x \in 0 .. Len(v) : P(x)
<1>0. S!AT_NULL = 0
  BY DEF S!AT_NULL
<1>1. i \in 0 .. Len(v) /\ P(i)
  <2>1. i \in 0 .. Len(v)
    BY SMTT(60)
  <2> QED BY <1>0, <2>1
<1>2. ASSUME NEW x \in 0 .. Len(v), P(x), x # i
      PROVE  FALSE
  <2>1. x \in 0 .. i - 1 \/ i \in 0 .. x - 1
    BY SMTT(60), <1>2
  <2> QED BY <1>0, <1>1, <1>2, <2>1
<1>3. S!getauxval(v, t) = IF v[2 * end + 1] = S!AT_NULL THEN 0 ELSE v[2 * end + 2]
  BY DEF S!getauxval
<1>4. end = i
  <2> HIDE DEF P
  <2> QED BY <1>1, <1>2
<1> HIDE DEF end
<1> QED BY <1>0, <1>3, <1>4

(* Pairs laid out word by word.                                            *)
LEMMA PairsRight ==
  ASSUME NEW A, NEW x \in Seq(A \X A)
  PROVE  /\ S!Pairs(x) \in Seq(A) /\ Len(S!Pairs(x)) = 2 * Len(x)
         /\ \A i \in 0 .. Len(x) - 1 : /\ S!Pairs(x)[2 * i + 1] = x[i + 1][1]
                                       /\ S!Pairs(x)[2 * i + 2] = x[i + 1][2]
<1> DEFINE n == Len(x)  W(k) == x[(k + 1) \div 2][2 - (k % 2)]
<1>0. n \in Nat /\ 2 * n \in Nat
  BY SMTT(60)
<1>1. S!Pairs(x) = [k \in 1 .. 2 * n |-> W(k)]
  BY DEF S!Pairs
<1>2. \A j \in 1 .. n : x[j] \in A \X A
  BY SMTT(60)
<1>3. \A j \in 1 .. n : x[j][1] \in A /\ x[j][2] \in A
  BY <1>2
<1> HIDE DEF n
<1>4. ASSUME NEW k \in 1 .. 2 * n
      PROVE  W(k) \in A
  <2>1. (k + 1) \div 2 \in 1 .. n /\ (2 - (k % 2) = 1 \/ 2 - (k % 2) = 2)
    BY SMTT(60), <1>0
  <2> QED BY <1>3, <2>1
<1>5. ASSUME NEW i \in 0 .. n - 1
      PROVE  /\ 2 * i + 1 \in 1 .. 2 * n /\ 2 * i + 2 \in 1 .. 2 * n
             /\ W(2 * i + 1) = x[i + 1][1] /\ W(2 * i + 2) = x[i + 1][2]
  <2>1. 2 * i + 1 \in 1 .. 2 * n /\ 2 * i + 2 \in 1 .. 2 * n
    BY SMTT(60), <1>0
  <2>2. /\ (2 * i + 1 + 1) \div 2 = i + 1 /\ (2 * i + 2 + 1) \div 2 = i + 1
        /\ 2 - ((2 * i + 1) % 2) = 1 /\ 2 - ((2 * i + 2) % 2) = 2
    BY SMTT(60), <1>0
  <2> QED BY <2>1, <2>2
<1>6. S!Pairs(x) \in [1 .. 2 * n -> A]
  BY <1>1, <1>4
<1>7. S!Pairs(x) \in Seq(A) /\ Len(S!Pairs(x)) = 2 * n
  BY SMTT(60), <1>0, <1>6
<1>8. \A i \in 0 .. n - 1 : S!Pairs(x)[2 * i + 1] = x[i + 1][1] /\ S!Pairs(x)[2 * i + 2] = x[i + 1][2]
  BY <1>1, <1>5
<1> QED BY <1>7, <1>8 DEF n

(* getauxval on pairs laid out before something else.                      *)
LEMMA PairFound ==
  ASSUME NEW A, NEW x \in Seq(A \X A), NEW t \in Seq(A), NEW i \in 0 .. Len(x) - 1,
         x[i + 1][1] # 0, \A j \in 0 .. i - 1 : x[j + 1][1] \notin {0, x[i + 1][1]}
  PROVE  S!getauxval(S!Pairs(x) \o t, x[i + 1][1]) = x[i + 1][2]
<1>1. PICK y : y = S!Pairs(x)
  OBVIOUS
<1>2. PICK v : v = y \o t
  OBVIOUS
<1>3. /\ y \in Seq(A) /\ Len(y) = 2 * Len(x)
      /\ \A j \in 0 .. Len(x) - 1 : y[2 * j + 1] = x[j + 1][1] /\ y[2 * j + 2] = x[j + 1][2]
  BY <1>1, PairsRight
<1>4. IsJoin(A, v, y, t)
  BY <1>2, <1>3, Joined
<1>5. PICK n \in Nat : n = Len(x) /\ 2 * n = Len(y)
  BY SMTT(60), <1>3
<1>6. v \in Seq(A) /\ 2 * i + 2 <= Len(v) /\ i \in Nat
  <2>1. v \in Seq(A) /\ Len(v) = 2 * n + Len(t)
    BY <1>4, <1>5 DEF IsJoin
  <2>2. Len(t) \in Nat
    BY SMTT(60)
  <2> QED BY SMTT(60), <1>5, <2>1, <2>2
<1>7. ASSUME NEW j \in 0 .. n - 1
      PROVE  v[2 * j + 1] = x[j + 1][1] /\ v[2 * j + 2] = x[j + 1][2]
  <2>1. 2 * j + 1 \in 1 .. 2 * n /\ 2 * j + 2 \in 1 .. 2 * n
    BY SMTT(60)
  <2>2. v[2 * j + 1] = y[2 * j + 1] /\ v[2 * j + 2] = y[2 * j + 2]
    BY <1>4, <1>5, <2>1 DEF IsJoin
  <2> QED BY <1>3, <1>5, <2>2
<1>8. \A j \in 0 .. i - 1 : j \in 0 .. n - 1
  BY SMTT(60), <1>5
<1>9. \A j \in 0 .. i - 1 : v[2 * j + 1] \notin {0, x[i + 1][1]}
  BY <1>7, <1>8
<1>10. v[2 * i + 1] = x[i + 1][1] /\ v[2 * i + 2] = x[i + 1][2]
  BY <1>5, <1>7
<1>11. S!getauxval(v, x[i + 1][1]) = v[2 * i + 2]
  BY <1>6, <1>9, <1>10, AuxFound
<1> QED BY <1>1, <1>2, <1>10, <1>11

(* What getauxval of the client answers.                                   *)
LEMMA ClientAux ==
  ASSUME NEW s, S!StackOK(s), NEW i \in 1 .. Len(s.aux)
  PROVE  S!getauxval(S!Pairs(s.aux) \o <<S!AT_NULL, 0>>, s.aux[i][1]) = s.aux[i][2]
<1>1. PICK x : x = s.aux
  OBVIOUS
<1>2. x \in Seq((Nat \ {0}) \X Nat) /\ \A p, q \in 1 .. Len(x) : x[p][1] = x[q][1] => p = q
  BY <1>1 DEF S!StackOK
<1>n. x \in Seq(Nat \X Nat)
  BY SMTT(60), <1>2
<1>3. \A p \in 1 .. Len(x) : x[p] \in (Nat \ {0}) \X Nat
  BY SMTT(60), <1>2
<1>4. \A p \in 1 .. Len(x) : x[p][1] # 0
  BY <1>3
<1>5. <<S!AT_NULL, 0>> \in Seq(Nat)
  BY SMTT(60) DEF S!AT_NULL
<1>6. PICK k \in 0 .. Len(x) - 1 : i = k + 1
  BY SMTT(60), <1>1, <1>2
<1>7. \A j \in 0 .. k - 1 : j + 1 \in 1 .. Len(x) /\ j + 1 # k + 1
  BY SMTT(60), <1>2
<1>8. \A j \in 0 .. k - 1 : x[j + 1][1] \notin {0, x[k + 1][1]}
  BY <1>1, <1>2, <1>4, <1>6, <1>7
<1>9. x[k + 1][1] # 0
  BY <1>1, <1>4, <1>6
<1>10. PICK t \in Seq(Nat) : t = <<S!AT_NULL, 0>>
  BY <1>5
<1>11. S!getauxval(S!Pairs(x) \o t, x[k + 1][1]) = x[k + 1][2]
  BY <1>n, <1>8, <1>9, PairFound
<1> QED BY <1>1, <1>6, <1>10, <1>11

(* What getauxval of the guest answers: the entry pushed last.             *)
IsPushed(A, v, x, t) ==
  /\ v \in Seq(A) /\ Len(v) = 2 * Len(x) + Len(t)
  /\ \A p \in 1 .. Len(x) :
       x[p][1] # 0 /\ (\A q \in p + 1 .. Len(x) : x[q][1] \notin {0, x[p][1]})
         => S!getauxval(v, x[p][1]) = x[p][2]

LEMMA PushAuxFound ==
  ASSUME NEW A, NEW x \in Seq(A \X A), NEW t \in Seq(A)
  PROVE  IsPushed(A, S!PushAux(t, x), x, t)
<1>1. PICK n \in Nat : n = Len(x)
  BY SMTT(60)
<1>2. PICK y : y = [i \in 1 .. n |-> x[n + 1 - i]]
  OBVIOUS
<1>3. \A i \in 1 .. n : n + 1 - i \in 1 .. n
  BY SMTT(60)
<1>4. \A i \in 1 .. n : x[i] \in A \X A
  BY SMTT(60), <1>1
<1>5. y \in [1 .. n -> A \X A]
  BY <1>2, <1>3, <1>4
<1>6. y \in Seq(A \X A) /\ Len(y) = n
  BY SMTT(60), <1>5
<1>7. S!PushAux(t, x) = S!Pairs(y) \o t
  BY <1>1, <1>2 DEF S!PushAux
<1>8. S!Pairs(y) \in Seq(A) /\ Len(S!Pairs(y)) = 2 * n
  BY <1>6, PairsRight
<1>9. S!PushAux(t, x) \in Seq(A) /\ Len(S!PushAux(t, x)) = 2 * n + Len(t)
  <2>1. IsJoin(A, S!Pairs(y) \o t, S!Pairs(y), t)
    BY <1>8, Joined
  <2> QED BY <1>7, <1>8, <2>1 DEF IsJoin
<1>10. ASSUME NEW p \in 1 .. n, x[p][1] # 0, \A q \in p + 1 .. n : x[q][1] \notin {0, x[p][1]}
       PROVE  S!getauxval(S!PushAux(t, x), x[p][1]) = x[p][2]
  <2>1. PICK i \in 0 .. n - 1 : i = n - p /\ i + 1 \in 1 .. n /\ n + 1 - (i + 1) = p
    BY SMTT(60)
  <2>2. y[i + 1] = x[p]
    BY <1>2, <2>1
  <2>3. ASSUME NEW j \in 0 .. i - 1
        PROVE  y[j + 1][1] \notin {0, x[p][1]}
    <3>1. j + 1 \in 1 .. n /\ n + 1 - (j + 1) \in p + 1 .. n
      BY SMTT(60), <2>1
    <3>2. y[j + 1] = x[n + 1 - (j + 1)]
      BY <1>2, <3>1
    <3> QED BY <1>10, <3>1, <3>2
  <2>4. S!getauxval(S!Pairs(y) \o t, y[i + 1][1]) = y[i + 1][2]
    <3>1. y[i + 1][1] # 0 /\ \A j \in 0 .. i - 1 : y[j + 1][1] \notin {0, y[i + 1][1]}
      BY <1>10, <2>2, <2>3
    <3>2. y \in Seq(A \X A) /\ i \in 0 .. Len(y) - 1
      BY <1>6
    <3> QED BY <3>1, <3>2, PairFound
  <2> QED BY <1>7, <2>2, <2>4
<1> QED BY <1>1, <1>9, <1>10 DEF IsPushed

(* The types of the guest's auxiliary vector.                              *)
Entry(x, p, t, u) == p \in 1 .. 15 /\ x[p][1] = t /\ x[p][2] = u
EntriesAre(x, b, a) ==
  /\ Entry(x, 1, S!AT_ENTRY, b.elf_entry) /\ Entry(x, 2, S!AT_PHDR, b.phdr)
  /\ Entry(x, 3, S!AT_PHENT, b.phent) /\ Entry(x, 4, S!AT_PHNUM, b.phnum)
  /\ Entry(x, 6, S!AT_RANDOM, S!getauxval(a, S!AT_RANDOM))
  /\ Entry(x, 7, S!AT_UID, S!getauxval(a, S!AT_UID))
  /\ Entry(x, 8, S!AT_EUID, S!getauxval(a, S!AT_EUID))
  /\ Entry(x, 9, S!AT_GID, S!getauxval(a, S!AT_GID))
  /\ Entry(x, 10, S!AT_EGID, S!getauxval(a, S!AT_EGID))
  /\ Entry(x, 11, S!AT_CLKTCK, S!getauxval(a, S!AT_CLKTCK))
  /\ Entry(x, 12, S!AT_PAGESZ, S!getauxval(a, S!AT_PAGESZ))
EntriesTyped(x) ==
  /\ Len(x) = 15 /\ x = [p \in 1 .. 15 |-> <<x[p][1], x[p][2]>>]
  /\ \A p \in 1 .. 15 : x[p][1] \in Nat /\ x[p][1] # 0
  /\ \A p \in 1 .. 15 : \A q \in p + 1 .. 15 : x[q][1] \notin {0, x[p][1]}

LEMMA AuxTypes ==
  ASSUME NEW b, NEW a, NEW x, x = S!AuxEntries(b, a)
  PROVE  EntriesAre(x, b, a) /\ EntriesTyped(x)
<1> USE DEF S!AT_ENTRY, S!AT_PHDR, S!AT_PHENT, S!AT_PHNUM, S!AT_PLATFORM, S!AT_RANDOM, S!AT_UID,
            S!AT_EUID, S!AT_GID, S!AT_EGID, S!AT_CLKTCK, S!AT_PAGESZ, S!AT_HWCAP, S!AT_HWCAP2,
            S!AT_SECURE
<1>1. Len(x) = 15
  BY SMTT(60) DEF S!AuxEntries
<1>2. /\ Entry(x, 1, S!AT_ENTRY, b.elf_entry) /\ Entry(x, 2, S!AT_PHDR, b.phdr)
      /\ Entry(x, 3, S!AT_PHENT, b.phent) /\ Entry(x, 4, S!AT_PHNUM, b.phnum)
  BY SMTT(60) DEF S!AuxEntries, Entry
<1>3. /\ Entry(x, 6, S!AT_RANDOM, S!getauxval(a, S!AT_RANDOM))
      /\ Entry(x, 7, S!AT_UID, S!getauxval(a, S!AT_UID))
      /\ Entry(x, 8, S!AT_EUID, S!getauxval(a, S!AT_EUID))
  BY SMTT(60) DEF S!AuxEntries, Entry
<1>4. /\ Entry(x, 9, S!AT_GID, S!getauxval(a, S!AT_GID))
      /\ Entry(x, 10, S!AT_EGID, S!getauxval(a, S!AT_EGID))
      /\ Entry(x, 11, S!AT_CLKTCK, S!getauxval(a, S!AT_CLKTCK))
      /\ Entry(x, 12, S!AT_PAGESZ, S!getauxval(a, S!AT_PAGESZ))
  BY SMTT(60) DEF S!AuxEntries, Entry
<1>5. /\ x[1][1] = 9 /\ x[2][1] = 3 /\ x[3][1] = 4 /\ x[4][1] = 5 /\ x[5][1] = 15 /\ x[6][1] = 25
      /\ x[7][1] = 11 /\ x[8][1] = 12 /\ x[9][1] = 13 /\ x[10][1] = 14 /\ x[11][1] = 17
      /\ x[12][1] = 6 /\ x[13][1] = 16 /\ x[14][1] = 26 /\ x[15][1] = 23
  BY SMTT(60) DEF S!AuxEntries
<1> HIDE DEF S!AT_ENTRY, S!AT_PHDR, S!AT_PHENT, S!AT_PHNUM, S!AT_RANDOM, S!AT_UID,
             S!AT_EUID, S!AT_GID, S!AT_EGID, S!AT_CLKTCK, S!AT_PAGESZ
<1>6. \A p \in 1 .. 15 : x[p][1] \in Nat /\ x[p][1] # 0
  BY SMTT(60), <1>5
<1>7. \A p \in 1 .. 15 : \A q \in p + 1 .. 15 : x[q][1] # x[p][1]
  BY SMTT(60), <1>5
<1>8. \A p \in 1 .. 15 : \A q \in p + 1 .. 15 : q \in 1 .. 15
  BY SMTT(60)
<1>9. x = [p \in 1 .. 15 |-> <<x[p][1], x[p][2]>>]
  BY SMTT(60) DEF S!AuxEntries
<1>10. EntriesAre(x, b, a)
  BY <1>2, <1>3, <1>4 DEF EntriesAre
<1>11. EntriesTyped(x)
  BY <1>1, <1>6, <1>7, <1>8, <1>9 DEF EntriesTyped
<1> QED BY <1>10, <1>11

(* The loop over a relocation table, unrolled.                             *)
Unrolled(kind, table, mem, b, n, f) ==
  f = [i \in 0 .. n |-> IF i = 0 THEN <<mem, TRUE>> ELSE S!LoopStep(kind, f[i - 1], b, table[i])]

LEMMA LoopUnrolls ==
  ASSUME NEW kind, NEW table, NEW mem, NEW b, NEW n \in Nat
  PROVE  \E f : Unrolled(kind, table, mem, b, n, f)
<1> DEFINE T == {m \in Nat : ~\E f : Unrolled(kind, table, mem, b, m, f)}
<1> SUFFICES ASSUME T # {} PROVE FALSE
  OBVIOUS
<1>1. PICK x \in T : \A y \in T : x <= y
  BY Least
<1>2. x \in Nat /\ ~\E f : Unrolled(kind, table, mem, b, x, f)
  BY <1>1
<1>3. CASE x = 0
  <2> DEFINE f == [i \in 0 .. 0 |-> <<mem, TRUE>>]
  <2>1. \A i \in 0 .. 0 : i = 0
    BY SMTT(60)
  <2>2. f = [i \in 0 .. 0 |-> IF i = 0 THEN <<mem, TRUE>>
                                       ELSE S!LoopStep(kind, f[i - 1], b, table[i])]
    BY <2>1
  <2> QED BY <1>2, <1>3, <2>2 DEF Unrolled
<1>4. CASE x # 0
  <2>1. x - 1 \in Nat /\ ~(x <= x - 1)
    BY SMTT(60), <1>2, <1>4
  <2>2. PICK f : Unrolled(kind, table, mem, b, x - 1, f)
    BY <1>1, <2>1
  <2> DEFINE G(i) == IF i = 0 THEN <<mem, TRUE>> ELSE S!LoopStep(kind, f[i - 1], b, table[i])
             g == [i \in 0 .. x |-> G(i)]
  <2>3. \A i \in 0 .. x - 1 : i \in 0 .. x
    BY SMTT(60), <1>2
  <2>4. \A i \in 0 .. x - 1 : f[i] = G(i)
    BY <2>2 DEF Unrolled
  <2>5. \A i \in 0 .. x - 1 : g[i] = f[i]
    BY <2>3, <2>4
  <2>6. \A i \in 0 .. x : i # 0 => i - 1 \in 0 .. x - 1
    BY SMTT(60), <1>2
  <2> HIDE DEF g
  <2>7. \A i \in 0 .. x : G(i) = IF i = 0 THEN <<mem, TRUE>>
                                          ELSE S!LoopStep(kind, g[i - 1], b, table[i])
    BY <2>5, <2>6
  <2>8. Unrolled(kind, table, mem, b, x, g)
    BY <2>7 DEF Unrolled, g
  <2> QED BY <1>2, <2>8
<1> QED BY <1>3, <1>4

LEMMA StepRight ==
  ASSUME NEW kind, NEW acc, NEW b, NEW r, S!LoopStep(kind, acc, b, r)[2]
  PROVE  acc[2] /\ S!LoopStep(kind, acc, b, r)[1] = S!Applied(kind, acc[1], b, r)
<1>1. S!LoopStep(kind, acc, b, r) = IF acc[2] /\ r[2] = "RELATIVE"
                                    THEN <<S!Applied(kind, acc[1], b, r), TRUE>>
                                    ELSE <<acc[1], FALSE>>
  BY DEF S!LoopStep
<1>2. \A y, z : <<y, z>>[1] = y /\ <<y, z>>[2] = z
  BY SMTT(60)
<1>3. /\ <<acc[1], FALSE>>[2] = FALSE
      /\ <<S!Applied(kind, acc[1], b, r), TRUE>>[1] = S!Applied(kind, acc[1], b, r)
  BY <1>2
<1>4. CASE ~(acc[2] /\ r[2] = "RELATIVE")
  <2>1. S!LoopStep(kind, acc, b, r) = <<acc[1], FALSE>>
    BY <1>1, <1>4
  <2>2. S!LoopStep(kind, acc, b, r)[2] = FALSE
    BY <1>3, <2>1
  <2> QED BY <2>2
<1>5. CASE acc[2] /\ r[2] = "RELATIVE"
  <2>1. S!LoopStep(kind, acc, b, r) = <<S!Applied(kind, acc[1], b, r), TRUE>>
    BY <1>1, <1>5
  <2> QED BY <1>3, <1>5, <2>1
<1> QED BY <1>4, <1>5

(* A table of relative relocations that is read to its end has moved the   *)
(* words it names, and no other.                                           *)
Moved(D, table, mem, val, n) ==
  [o \in D |-> IF \E j \in 1 .. n : table[j][1] = o THEN val[o] ELSE mem[o]]

TableOK(kind, table, D, mem, b, val) ==
  /\ Len(table) \in Nat /\ \A j \in 1 .. Len(table) : table[j][1] \in D
  /\ \/ /\ kind = "REL" /\ \A j \in 1 .. Len(table) : val[table[j][1]] = mem[table[j][1]] + b
        /\ \A i, j \in 1 .. Len(table) : table[i][1] = table[j][1] => i = j
     \/ kind = "RELA" /\ \A j \in 1 .. Len(table) : val[table[j][1]] = b + table[j][3]

LEMMA LoopRight ==
  ASSUME NEW kind, NEW table, NEW D, NEW mem \in [D -> Int], NEW b, NEW val,
         TableOK(kind, table, D, mem, b, val), S!Loop(kind, table, mem, b)[2]
  PROVE  S!Loop(kind, table, mem, b)[1] = Moved(D, table, mem, val, Len(table))
<1>0. \A y, z : <<y, z>>[1] = y /\ <<y, z>>[2] = z
  BY SMTT(60)
<1>1. PICK n \in Nat : n = Len(table)
  BY DEF TableOK
<1>2. PICK f : Unrolled(kind, table, mem, b, n, f) /\ S!Loop(kind, table, mem, b) = f[n]
  <2>1. \E f : Unrolled(kind, table, mem, b, n, f)
    BY LoopUnrolls
  <2>2. S!Loop(kind, table, mem, b) = (CHOOSE f : Unrolled(kind, table, mem, b, n, f))[n]
    BY <1>1 DEF S!Loop, Unrolled
  <2> QED BY <2>1, <2>2
<1> DEFINE T == {i \in 0 .. n : f[i][2] /\ f[i][1] # Moved(D, table, mem, val, i)}
<1>3. SUFFICES ASSUME T # {} PROVE FALSE
  <2>1. n \in 0 .. n
    BY SMTT(60)
  <2> QED BY <1>1, <1>2, <2>1
<1>4. T \subseteq Nat
  <2>1. 0 .. n \subseteq Nat
    BY SMTT(60)
  <2> QED BY <2>1
<1>5. PICK x \in T : \A y \in T : x <= y
  BY <1>3, <1>4, Least
<1>6. x \in 0 .. n /\ f[x][2] /\ f[x][1] # Moved(D, table, mem, val, x)
  BY <1>5
<1>7. f[x] = IF x = 0 THEN <<mem, TRUE>> ELSE S!LoopStep(kind, f[x - 1], b, table[x])
  BY <1>2, <1>6 DEF Unrolled
<1>8. CASE x = 0
  <2>1. \A j \in 1 .. 0 : FALSE
    BY SMTT(60)
  <2>2. f[x][1] = mem
    <3>1. f[x] = <<mem, TRUE>>
      BY <1>7, <1>8
    <3> QED BY <1>0, <3>1
  <2>3. Moved(D, table, mem, val, x) = [o \in D |-> mem[o]]
    BY <1>8, <2>1 DEF Moved
  <2> QED BY <1>6, <2>2, <2>3
<1>9. CASE x # 0
  <2>1. x - 1 \in 0 .. n /\ ~(x <= x - 1) /\ x \in 1 .. n
    BY SMTT(60), <1>6, <1>9
  <2>2. /\ f[x - 1][2]
        /\ f[x][1] = S!Applied(kind, f[x - 1][1], b, table[x])
    <3>1. f[x] = S!LoopStep(kind, f[x - 1], b, table[x])
      BY <1>7, <1>9
    <3>2. S!LoopStep(kind, f[x - 1], b, table[x])[2]
      BY <1>6, <3>1
    <3>3. PICK acc, r : acc = f[x - 1] /\ r = table[x]
      OBVIOUS
    <3>4. S!LoopStep(kind, acc, b, r)[2]
      BY <3>2, <3>3
    <3>5. acc[2] /\ S!LoopStep(kind, acc, b, r)[1] = S!Applied(kind, acc[1], b, r)
      BY <3>4, StepRight
    <3> QED BY <3>1, <3>3, <3>5
  <2>3. f[x - 1][1] = Moved(D, table, mem, val, x - 1)
    BY <1>5, <2>1, <2>2
  <2>4. PICK o : o = table[x][1] /\ o \in D
    BY <1>1, <2>1 DEF TableOK
  <2>5. \A j \in 1 .. x : j = x \/ j \in 1 .. x - 1
    BY SMTT(60), <2>1
  <2>6. \A j \in 1 .. x - 1 : j \in 1 .. x /\ j \in 1 .. n /\ j # x
    BY SMTT(60), <2>1
  <2>7. x \in 1 .. x
    BY SMTT(60), <2>1
  <2>8. PICK g : g = Moved(D, table, mem, val, x - 1)
    OBVIOUS
  <2>9. \A p \in D \ {o} : Moved(D, table, mem, val, x)[p] = g[p]
    BY <2>4, <2>5, <2>6, <2>8 DEF Moved
  <2>10. Moved(D, table, mem, val, x)[o] = val[o]
    BY <2>4, <2>7 DEF Moved
  <2>11. f[x][1] = [g EXCEPT ![o] = val[o]]
    <3>1. CASE kind = "REL"
      <4>1. \A j \in 1 .. x - 1 : table[j][1] # o
        BY <1>1, <2>1, <2>4, <2>6, <3>1 DEF TableOK
      <4>2. g[o] = mem[o]
        BY <2>4, <2>8, <4>1 DEF Moved
      <4>3. val[o] = mem[o] + b
        BY <1>1, <2>1, <2>4, <3>1 DEF TableOK
      <4>4. f[x][1] = S!Rel(g, b, table[x])
        BY <2>2, <2>3, <2>8, <3>1 DEF S!Applied
      <4>5. f[x][1] = [g EXCEPT ![o] = g[o] + b]
        BY <2>4, <4>4 DEF S!Rel
      <4> QED BY <4>2, <4>3, <4>5
    <3>2. CASE kind = "RELA"
      <4>1. val[o] = b + table[x][3]
        BY <1>1, <2>1, <2>4, <3>2 DEF TableOK
      <4>2. f[x][1] = S!Rela(g, b, table[x])
        BY <2>2, <2>3, <2>8, <3>2 DEF S!Applied
      <4> QED BY <2>4, <4>1, <4>2 DEF S!Rela
    <3> QED BY <3>1, <3>2 DEF TableOK
  <2>12. f[x][1] = Moved(D, table, mem, val, x)
    <3>1. DOMAIN g = D /\ g = [p \in D |-> g[p]]
      BY <2>8 DEF Moved
    <3>2. f[x][1] = [p \in D |-> IF p = o THEN val[o] ELSE g[p]]
      BY <2>4, <2>11, <3>1
    <3>3. \A p \in D : Moved(D, table, mem, val, x)[p] = IF p = o THEN val[o] ELSE g[p]
      BY <2>9, <2>10
    <3>4. Moved(D, table, mem, val, x) = [p \in D |-> Moved(D, table, mem, val, x)[p]]
      BY DEF Moved
    <3>5. [p \in D |-> Moved(D, table, mem, val, x)[p]] = [p \in D |-> IF p = o THEN val[o] ELSE g[p]]
      BY <3>3
    <3> QED BY <3>2, <3>4, <3>5
  <2> QED BY <1>6, <2>12
<1> QED BY <1>8, <1>9

(* The client's words after both tables.                                   *)
LEMMA RelocateRight ==
  ASSUME NEW im, S!ImageOK(im), NEW b \in Int, S!Relocate(im, im.words, b)[2]
  PROVE  S!Relocate(im, im.words, b)[1] =
           [o \in DOMAIN im.words |-> im.linked[o] + b * im.moved[o]]
<1>1. PICK D, mem, rel, rela :
        /\ D = DOMAIN im.words /\ mem = im.words
        /\ rel = S!Entries(im, "REL", "RELSZ") /\ rela = S!Entries(im, "RELA", "RELASZ")
  OBVIOUS
<1>2. mem \in [D -> Int] /\ S!TablesOK(D, im, rel, rela)
  BY <1>1 DEF S!ImageOK
<1>3. PICK first : first = S!Loop("REL", rel, mem, b)
  OBVIOUS
<1>4. S!Relocate(im, im.words, b) = IF first[2] THEN S!Loop("RELA", rela, first[1], b) ELSE first
  BY <1>1, <1>3 DEF S!Relocate
<1>5. first[2] /\ S!Relocate(im, im.words, b) = S!Loop("RELA", rela, first[1], b)
  BY <1>4
<1>6. PICK val1, val2 : val1 = [o \in D |-> mem[o] + b] /\ val2 = [o \in D |-> b + im.linked[o]]
  OBVIOUS
<1>7. TableOK("REL", rel, D, mem, b, val1)
  BY <1>2, <1>6 DEF S!TablesOK, TableOK
<1>8. PICK m1 : m1 = first[1] /\ m1 = Moved(D, rel, mem, val1, Len(rel))
  <2>1. S!Loop("REL", rel, mem, b)[1] = Moved(D, rel, mem, val1, Len(rel))
    BY <1>2, <1>3, <1>5, <1>7, LoopRight
  <2> QED BY <1>3, <2>1
<1>9. ASSUME NEW o \in D
      PROVE  /\ m1[o] = IF S!Named(rel, o) THEN mem[o] + b ELSE mem[o]
             /\ m1[o] \in Int
  <2>0. val1[o] = mem[o] + b /\ m1[o] = Moved(D, rel, mem, val1, Len(rel))[o]
    BY <1>6, <1>8
  <2>1. m1[o] = IF S!Named(rel, o) THEN mem[o] + b ELSE mem[o]
    BY <2>0 DEF Moved, S!Named
  <2>2. mem[o] \in Int
    BY <1>2
  <2>3. mem[o] + b \in Int
    BY SMTT(60), <2>2
  <2> QED BY <2>1, <2>2, <2>3
<1>10. m1 \in [D -> Int]
  <2>1. m1 = [o \in D |-> m1[o]]
    BY <1>8 DEF Moved
  <2> QED BY <1>9, <2>1
<1>11. TableOK("RELA", rela, D, m1, b, val2)
  BY <1>2, <1>6 DEF S!TablesOK, TableOK
<1>12. PICK m2 : /\ m2 = S!Relocate(im, im.words, b)[1]
                 /\ m2 = Moved(D, rela, m1, val2, Len(rela))
  <2>1. S!Loop("RELA", rela, m1, b)[2]
    BY <1>5, <1>8
  <2>2. S!Loop("RELA", rela, m1, b)[1] = Moved(D, rela, m1, val2, Len(rela))
    BY <1>10, <1>11, <2>1, LoopRight
  <2> QED BY <1>5, <1>8, <2>2
<1>13. ASSUME NEW o \in D
       PROVE  m2[o] = im.linked[o] + b * im.moved[o]
  <2>0. val2[o] = b + im.linked[o] /\ m2[o] = Moved(D, rela, m1, val2, Len(rela))[o]
    BY <1>6, <1>12
  <2>1. m2[o] = IF S!Named(rela, o) THEN b + im.linked[o] ELSE m1[o]
    BY <2>0 DEF Moved, S!Named
  <2>2. /\ im.moved[o] = IF S!Named(rel, o) \/ S!Named(rela, o) THEN 1 ELSE 0
        /\ ~S!Named(rela, o) => im.linked[o] = mem[o]
    BY <1>1, <1>2 DEF S!TablesOK
  <2>3. CASE S!Named(rela, o)
    <3>1. im.linked[o] \in Int
      <4>1. PICK i \in 1 .. Len(rela) : rela[i][1] = o
        BY <2>3 DEF S!Named
      <4>2. rela[i][3] \in Int /\ im.linked[rela[i][1]] = rela[i][3]
        BY <1>2 DEF S!TablesOK
      <4> QED BY <4>1, <4>2
    <3>2. m2[o] = b + im.linked[o] /\ im.moved[o] = 1
      BY <2>1, <2>2, <2>3
    <3> QED BY SMTT(60), <3>1, <3>2
  <2>4. CASE ~S!Named(rela, o) /\ S!Named(rel, o)
    <3>1. m2[o] = mem[o] + b /\ im.moved[o] = 1 /\ im.linked[o] = mem[o] /\ mem[o] \in Int
      BY <1>2, <1>9, <2>1, <2>2, <2>4
    <3> QED BY SMTT(60), <3>1
  <2>5. CASE ~S!Named(rela, o) /\ ~S!Named(rel, o)
    <3>1. m2[o] = mem[o] /\ im.moved[o] = 0 /\ im.linked[o] = mem[o] /\ mem[o] \in Int
      BY <1>2, <1>9, <2>1, <2>2, <2>5
    <3> QED BY SMTT(60), <3>1
  <2> QED BY <2>3, <2>4, <2>5
<1>14. m2 = [o \in D |-> m2[o]]
  BY <1>12 DEF Moved
<1>15. m2 = [o \in D |-> im.linked[o] + b * im.moved[o]]
  BY <1>13, <1>14
<1> QED BY <1>1, <1>12, <1>15

(* The base found from the program headers is the client's.                *)
LEMMA LoadBaseRight ==
  ASSUME NEW im, S!ImageOK(im), NEW b \in Int
  PROVE  S!LoadBase(im, b + im.dynamic) = b
<1> DEFINE h == im.phdrs
           Dyn(i) == h[i][1] = "DYNAMIC"
           First(i) == Dyn(i) /\ \A j \in 1 .. i - 1 : h[j][1] # "DYNAMIC"
           T == {i \in 1 .. Len(h) : Dyn(i)}
<1>2. /\ Len(h) \in Nat /\ im.dynamic \in Int /\ T # {}
      /\ \A i \in 1 .. Len(h) : Dyn(i) => h[i][2] = im.dynamic
  BY DEF S!ImageOK
<1>3. T \subseteq Nat
  <2>1. 1 .. Len(h) \subseteq Nat
    BY SMTT(60), <1>2
  <2> QED BY <2>1
<1>4. PICK x \in T : \A y \in T : x <= y
  BY <1>2, <1>3, Least
<1>5. \E i \in 1 .. Len(h) : First(i)
  <2>1. x \in 1 .. Len(h) /\ Dyn(x)
    BY <1>4
  <2>2. \A j \in 1 .. x - 1 : j \in 1 .. Len(h) /\ ~(x <= j)
    BY SMTT(60), <1>2, <2>1
  <2>3. \A j \in 1 .. x - 1 : ~Dyn(j)
    BY <1>4, <2>2
  <2> QED BY <2>1, <2>3
<1>6. S!FirstDynamic(h) \in 1 .. Len(h) /\ Dyn(S!FirstDynamic(h))
  BY <1>5 DEF S!FirstDynamic
<1>7. \E i \in 1 .. Len(h) : h[i][1] = "DYNAMIC"
  BY <1>6
<1>8. S!LoadBase(im, b + im.dynamic) = (b + im.dynamic) - h[S!FirstDynamic(h)][2]
  BY <1>7 DEF S!LoadBase
<1>9. h[S!FirstDynamic(h)][2] = im.dynamic
  BY <1>2, <1>6
<1> HIDE DEF T, Dyn, h
<1> QED BY SMTT(60), <1>2, <1>8, <1>9

(* Steps of main from `here` to `next` that keep what was established.     *)
Follows(here, next) ==
  /\ here \notin {"_start", "exited", "usage"}
  /\ next \in S!Unbuilt \cup S!Built /\ next \notin {"_start", "exited", "usage", "guest"}
  /\ next \notin {"mem_init", "load_elf_binary"} => here \notin {"mem_init", "load_elf_binary"}
  /\ next \in S!Built => here \in S!Built
  /\ next \in {"set_thread_area", "regs"} => here \in {"set_thread_area", "regs"}

(* The client's own records stay what they are.                            *)
LEMMA SameRelocated ==
  ASSUME S!Relocated, UNCHANGED <<words, image, base>>
  PROVE  S!Relocated'
BY DEF S!Relocated

LEMMA SameInfo ==
  ASSUME S!InfoOK, info' = info
  PROVE  S!InfoOK'
BY DEF S!InfoOK

LEMMA FollowsKept ==
  ASSUME S!StartupInv, NEW here, NEW next, Follows(here, next), pc = here, pc' = next,
         UNCHANGED <<S!mainvars, argv, info, stack, regs>>
  PROVE  S!StartupInv'
<1>1. UNCHANGED <<start, image, base, words, environ, auxv, argv, info, stack, regs>>
  BY DEF S!mainvars
<1>2. pc' \in {"_start", "exited"} \cup S!Unbuilt \cup S!Built
  BY DEF Follows
<1>3. start' \in Stacks /\ image' \in Images /\ base' \in Bases
  BY <1>1 DEF S!StartupInv
<1>4. pc' \notin {"_start", "exited", "usage", "guest"} /\ pc \notin {"_start", "exited", "usage"}
  BY DEF Follows
<1>5. S!Relocated' /\ S!Found'
  <2>1. S!Relocated /\ S!Found
    BY <1>4 DEF S!StartupInv
  <2>2. S!Found'
    BY <1>1, <1>4, <2>1 DEF S!Found
  <2> QED BY <1>1, <2>1, <2>2, SameRelocated
<1>6. pc' \notin {"_start", "exited", "usage", "mem_init", "load_elf_binary"} => S!InfoOK'
  <2>1. S!InfoOK => S!InfoOK'
    BY <1>1, SameInfo
  <2>2. pc' \notin {"_start", "exited", "usage", "mem_init", "load_elf_binary"}
        => pc \notin {"_start", "exited", "usage", "mem_init", "load_elf_binary"}
    BY DEF Follows
  <2>3. pc \notin {"_start", "exited", "usage", "mem_init", "load_elf_binary"} => S!InfoOK
    BY DEF S!StartupInv
  <2> QED BY <2>1, <2>2, <2>3
<1>7. pc' \in S!Built => stack' = S!GuestStack(info', auxv', argv', environ')
  BY <1>1 DEF Follows, S!StartupInv
<1>8. pc' \in {"set_thread_area", "regs"} => regs' = S!FirstRegs
  BY <1>1 DEF Follows, S!StartupInv
<1> QED BY <1>2, <1>3, <1>4, <1>5, <1>6, <1>7, <1>8 DEF S!StartupInv

(* A client that ends ends with a status that is not zero.                 *)
LEMMA ExitKept ==
  ASSUME S!StartupInv, NEW code, code % 256 # 0, S!Exit(code), UNCHANGED <<start, image, base>>
  PROVE  S!StartupInv'
<1>1. pc' = "exited" /\ status' # 0
  BY DEF S!Exit
<1>2. pc' \notin S!Built /\ pc' \notin {"_start", "set_thread_area", "regs", "guest"}
  BY <1>1 DEF S!Built
<1>3. start' \in Stacks /\ image' \in Images /\ base' \in Bases
  BY DEF S!StartupInv
<1> QED BY <1>1, <1>2, <1>3 DEF S!StartupInv

LEMMA CallKept ==
  ASSUME S!StartupInv, NEW here, NEW next, NEW code, Follows(here, next), code % 256 # 0,
         S!Call(here, next, code)
  PROVE  S!StartupInv'
<1>1. pc = here /\ (S!Goto(next) \/ S!Exit(code))
      /\ UNCHANGED <<S!mainvars, argv, info, stack, regs>>
  BY DEF S!Call
<1>2. CASE S!Goto(next)
  <2>1. pc' = next
    BY <1>2 DEF S!Goto
  <2> QED BY <1>1, <2>1, FollowsKept
<1>3. CASE S!Exit(code)
  <2>1. UNCHANGED <<start, image, base>>
    BY <1>1 DEF S!mainvars
  <2> QED BY <1>3, <2>1, ExitKept
<1> QED BY <1>1, <1>2, <1>3

LEMMA InitStartup ==
  ASSUME S!Init
  PROVE  S!StartupInv
<1>1. pc = "_start" /\ start \in Stacks /\ image \in Images /\ base \in Bases /\ words = image.words
  BY DEF S!Init
<1>2. pc \notin S!Built
  BY <1>1 DEF S!Built
<1> QED BY <1>1, <1>2 DEF S!StartupInv

(* What __start_main reads off the stack is what the kernel put there.     *)
LEMMA KernelRead ==
  ASSUME NEW s, S!StackOK(s), NEW k, k = S!KernelStack(s)
  PROVE  /\ SubSeq(k, 2, k[1] + 1) = s.args
         /\ SubSeq(k, k[1] + 3, S!FirstZero(k, k[1] + 3) - 1) = s.env
         /\ S!AuxOf(k) = S!Pairs(s.aux) \o <<S!AT_NULL, 0>>
<1>1. PICK a, e, x, p, v : a = s.args /\ e = s.env /\ x = s.aux /\ p = S!Pairs(x) /\ v = p \o <<0, 0>>
  OBVIOUS
<1>2. a \in Seq(Nat \ {0}) /\ e \in Seq(Nat \ {0}) /\ x \in Seq((Nat \ {0}) \X Nat)
  BY <1>1 DEF S!StackOK
<1>3. a \in Seq(Nat) /\ e \in Seq(Nat) /\ Len(a) \in Nat /\ 0 \in Nat /\ \A i \in 1 .. Len(e) : e[i] # 0
  BY <1>2, SMTT(60)
<1>4. x \in Seq(Nat \X Nat)
  BY <1>2, SMTT(60)
<1>5. p \in Seq(Nat)
  BY <1>1, <1>4, PairsRight
<1>6. v \in Seq(Nat)
  <2>1. <<0, 0>> \in Seq(Nat)
    BY SMTT(60)
  <2> QED BY <1>1, <1>5, <2>1, ConcatType
<1>7. k = FirstStack(a, e, v)
  BY <1>1 DEF FirstStack, S!KernelStack, S!AT_NULL
<1>8. S!AT_NULL = 0
  BY DEF S!AT_NULL
<1>9. ReadsAs(k, a, e, v)
  BY <1>3, <1>6, <1>7, StackRead
<1> QED BY <1>1, <1>8, <1>9 DEF ReadsAs

(* __start_main leaves a relocated client, or ends it.                     *)
LEMMA StartMainKept ==
  ASSUME S!StartupOK, S!StartupInv, S!StartMain
  PROVE  S!StartupInv'
<1>1. PICK s, k : s = start /\ k = S!KernelStack(s)
  OBVIOUS
<1>2. /\ pc = "_start" /\ UNCHANGED <<start, image, base>>
      /\ argv' = SubSeq(k, 2, k[1] + 1)
      /\ environ' = SubSeq(k, k[1] + 3, S!FirstZero(k, k[1] + 3) - 1)
      /\ auxv' = S!AuxOf(k)
  BY <1>1 DEF S!StartMain
<1>3. start \in Stacks /\ image \in Images /\ base \in Bases /\ words = image.words
  BY <1>2 DEF S!StartupInv
<1>4. S!StackOK(start) /\ S!ImageOK(image) /\ base \in Int
  BY <1>3 DEF S!StartupOK
<1>5. S!ENOEXEC % 256 # 0
  BY SMTT(60) DEF S!ENOEXEC
<1>6. CASE S!Exit(S!ENOEXEC)
  BY <1>2, <1>5, <1>6, ExitKept
<1>7. CASE ~S!Exit(S!ENOEXEC)
  <2>1. PICK b \in {S!LoadBase(image, base + image.dynamic)} :
          \E r \in {S!Relocate(image, words, b)} : words' = r[1] /\ r[2] /\ pc' = "usage"
    BY <1>7 DEF S!StartMain
  <2>2. b = base
    BY <1>4, <2>1, LoadBaseRight
  <2>3. /\ S!Relocate(image, image.words, base)[2] /\ pc' = "usage"
        /\ words' = S!Relocate(image, image.words, base)[1]
    BY <1>3, <2>1, <2>2
  <2>4. words' = [o \in DOMAIN image.words |-> image.linked[o] + base * image.moved[o]]
    BY <1>4, <2>3, RelocateRight
  <2>5. DOMAIN words' = DOMAIN image.words
    BY <2>4
  <2>6. S!Relocated'
    BY <1>2, <2>4, <2>5 DEF S!Relocated
  <2>7. argv' = start.args /\ environ' = start.env /\ auxv' = S!Pairs(start.aux) \o <<S!AT_NULL, 0>>
    BY <1>1, <1>2, <1>4, KernelRead
  <2>8. S!Found'
    BY <1>2, <2>3, <2>7 DEF S!Found
  <2>9. pc' \notin S!Built /\ pc' \in S!Unbuilt
    BY <2>3 DEF S!Built, S!Unbuilt
  <2>10. start' \in Stacks /\ image' \in Images /\ base' \in Bases
    BY <1>2, <1>3
  <2> QED BY <2>3, <2>6, <2>8, <2>9, <2>10 DEF S!StartupInv
<1> QED BY <1>6, <1>7

(* Usage takes the configuration and the program's name.                   *)
LEMMA UsageKept ==
  ASSUME S!StartupOK, S!StartupInv, S!Usage
  PROVE  S!StartupInv'
<1>1. pc = "usage" /\ UNCHANGED <<start, image, base, words, environ, auxv>>
  BY DEF S!Usage, S!mainvars
<1>2. start \in Stacks /\ image \in Images /\ base \in Bases /\ S!Relocated /\ S!Found
  BY <1>1 DEF S!StartupInv
<1>3. argv = start.args
  BY <1>1, <1>2 DEF S!Found
<1>4. CASE Len(argv) < 3
  <2>1. S!Exit(1)
    BY <1>4 DEF S!Usage
  <2>2. 1 % 256 # 0
    BY SMTT(60)
  <2> QED BY <1>1, <2>1, <2>2, ExitKept
<1>5. CASE ~(Len(argv) < 3)
  <2>1. pc' = "mem_init" /\ argv' = SubSeq(argv, 3, Len(argv))
    BY <1>5 DEF S!Usage, S!Goto
  <2>2. start.args \in Seq(Nat \ {0})
    BY <1>2 DEF S!StartupOK, S!StackOK
  <2>3. Len(start.args) >= 3
    <3>1. Len(start.args) \in Nat
      BY SMTT(60), <2>2
    <3> QED BY SMTT(60), <1>3, <1>5, <3>1
  <2>4. S!Found'
    BY <1>1, <1>2, <1>3, <2>1, <2>3 DEF S!Found
  <2>5. S!Relocated'
    BY <1>1, <1>2, SameRelocated
  <2>6. pc' \notin S!Built /\ pc' \in S!Unbuilt
    BY <2>1 DEF S!Built, S!Unbuilt
  <2>7. start' \in Stacks /\ image' \in Images /\ base' \in Bases
    BY <1>1, <1>2
  <2> QED BY <2>1, <2>4, <2>5, <2>6, <2>7 DEF S!StartupInv
<1> QED BY <1>4, <1>5

(* load_elf_binary fills the record.                                       *)
LEMMA LoadKept ==
  ASSUME S!StartupInv, S!load_elf_binary
  PROVE  S!StartupInv'
<1>1. pc = "load_elf_binary" /\ UNCHANGED <<start, image, base, words, environ, auxv, argv>>
  BY DEF S!load_elf_binary, S!mainvars
<1>2. start \in Stacks /\ image \in Images /\ base \in Bases /\ S!Relocated /\ S!Found
  BY <1>1 DEF S!StartupInv
<1>3. CASE S!Exit(S!ENOEXEC)
  <2>1. S!ENOEXEC % 256 # 0
    BY SMTT(60) DEF S!ENOEXEC
  <2> QED BY <1>1, <1>3, <2>1, ExitKept
<1>4. CASE ~S!Exit(S!ENOEXEC)
  <2>1. pc' = "translator_init" /\ \E m \in S!Machines : info' = S!BinaryInfo(m)
    BY <1>4 DEF S!load_elf_binary, S!Goto
  <2>2. S!InfoOK'
    BY <2>1 DEF S!InfoOK
  <2>3. S!Found'
    BY <1>1, <1>2, <2>1 DEF S!Found
  <2>4. S!Relocated'
    BY <1>1, <1>2, SameRelocated
  <2>5. pc' \notin S!Built /\ pc' \in S!Unbuilt
    BY <2>1 DEF S!Built, S!Unbuilt
  <2>6. start' \in Stacks /\ image' \in Images /\ base' \in Bases
    BY <1>1, <1>2
  <2> QED BY <2>1, <2>2, <2>3, <2>4, <2>5, <2>6 DEF S!StartupInv
<1> QED BY <1>3, <1>4

(* What a step of main that changes its own variable leaves.               *)
LEMMA LateKept ==
  ASSUME S!StartupInv, pc \in S!Unbuilt \cup S!Built,
         pc \notin {"_start", "exited", "usage", "mem_init", "load_elf_binary"},
         pc' \in S!Built, UNCHANGED <<S!mainvars, argv, info>>,
         stack' = S!GuestStack(info', auxv', argv', environ'),
         pc' \in {"set_thread_area", "regs"} => regs' = S!FirstRegs,
         pc' = "guest" =>
           /\ info.machine # "OTHER"
           /\ regs' = [S!FirstRegs EXCEPT ![0] = info.exec_entry, ![S!SpWord(info.machine)] = S!StackTop']
  PROVE  S!StartupInv'
<1>1. UNCHANGED <<start, image, base, words, environ, auxv, argv, info>>
  BY DEF S!mainvars
<1>2. start \in Stacks /\ image \in Images /\ base \in Bases /\ S!Relocated /\ S!Found /\ S!InfoOK
  BY DEF S!StartupInv
<1>3. pc' \notin {"_start", "exited", "usage"}
  BY DEF S!Built
<1>4. S!Found'
  BY <1>1, <1>2, <1>3 DEF S!Found
<1>5. S!Relocated' /\ S!InfoOK'
  BY <1>1, <1>2, SameRelocated, SameInfo
<1>6. start' \in Stacks /\ image' \in Images /\ base' \in Bases
  BY <1>1, <1>2
<1>7. pc' = "guest" =>
        /\ info'.machine # "OTHER"
        /\ regs' = [S!FirstRegs EXCEPT ![0] = info'.exec_entry, ![S!SpWord(info'.machine)] = S!StackTop']
  BY <1>1
<1> QED BY <1>3, <1>4, <1>5, <1>6, <1>7 DEF S!StartupInv

LEMMA BuildKept ==
  ASSUME S!StartupInv, S!BuildStack
  PROVE  S!StartupInv'
<1>1. /\ pc = "stack" /\ pc' = "rtld_init" /\ UNCHANGED <<S!mainvars, argv, info>>
      /\ stack' = S!GuestStack(info, auxv, argv, environ)
  BY DEF S!BuildStack, S!Goto
<1>2. stack' = S!GuestStack(info', auxv', argv', environ')
  BY <1>1 DEF S!mainvars
<1>3. pc \in S!Unbuilt /\ pc' \in S!Built
  BY <1>1 DEF S!Built, S!Unbuilt
<1> QED BY <1>1, <1>2, <1>3, LateKept

LEMMA CpuStateKept ==
  ASSUME S!StartupInv, S!AllocCpuState
  PROVE  S!StartupInv'
<1>1. /\ pc = "cpu_state" /\ UNCHANGED <<S!mainvars, argv, info, stack>>
      /\ pc' = "faulted" \/ (pc' = "set_thread_area" /\ regs' = S!FirstRegs)
  BY DEF S!AllocCpuState, S!Goto, S!FirstRegs
<1>2. pc \in S!Built /\ pc' \in S!Built
  BY <1>1 DEF S!Built
<1>3. stack' = S!GuestStack(info', auxv', argv', environ')
  BY <1>1, <1>2 DEF S!mainvars, S!StartupInv
<1> QED BY <1>1, <1>2, <1>3, LateKept

LEMMA EnterKept ==
  ASSUME S!StartupInv, S!EnterGuest
  PROVE  S!StartupInv'
<1>1. pc = "regs" /\ UNCHANGED <<S!mainvars, argv, info, stack>>
  BY DEF S!EnterGuest
<1>2. pc \in S!Built
  BY <1>1 DEF S!Built
<1>3. stack' = S!GuestStack(info', auxv', argv', environ') /\ regs = S!FirstRegs
  BY <1>1, <1>2 DEF S!mainvars, S!StartupInv
<1>4. CASE info.machine = "OTHER"
  <2>1. S!Exit(S!ENOEXEC)
    BY <1>4 DEF S!EnterGuest
  <2>2. S!ENOEXEC % 256 # 0
    BY SMTT(60) DEF S!ENOEXEC
  <2>3. UNCHANGED <<start, image, base>>
    BY <1>1 DEF S!mainvars
  <2> QED BY <2>1, <2>2, <2>3, ExitKept
<1>5. CASE info.machine # "OTHER"
  <2>1. /\ regs' = [regs EXCEPT ![0] = info.exec_entry, ![S!SpWord(info.machine)] = S!StackTop]
        /\ pc' = "guest"
    BY <1>5 DEF S!EnterGuest, S!Goto
  <2>2. S!StackTop' = S!StackTop
    BY <1>1 DEF S!StackTop
  <2>3. regs' = [S!FirstRegs EXCEPT ![0] = info.exec_entry, ![S!SpWord(info.machine)] = S!StackTop']
    BY <1>3, <2>1, <2>2
  <2>4. pc' \in S!Built
    BY <2>1 DEF S!Built
  <2> QED BY <1>1, <1>2, <1>3, <1>5, <2>1, <2>3, <2>4, LateKept
<1> QED BY <1>4, <1>5

(* main's calls, in their order.                                           *)
LEMMA CallsFollow ==
  /\ Follows("mem_init", "load_elf_binary") /\ Follows("translator_init", "translator_config_fetch")
  /\ Follows("translator_config_fetch", "dispatch_get") /\ Follows("dispatch_get", "mmap")
  /\ Follows("mmap", "stack") /\ Follows("rtld_init", "rtld_perf_init")
  /\ Follows("rtld_perf_init", "get_object") /\ Follows("get_object", "add_object")
  /\ Follows("add_object", "cpu_state") /\ Follows("set_thread_area", "regs")
BY DEF Follows, S!Unbuilt, S!Built

LEMMA CodesFail ==
  /\ (-12) % 256 # 0 /\ (-32) % 256 # 0 /\ 1 % 256 # 0 /\ S!EOPNOTSUPP % 256 # 0
  /\ (-71) % 256 # 0 /\ S!ENOEXEC % 256 # 0 /\ (-22) % 256 # 0
BY SMTT(60) DEF S!EOPNOTSUPP, S!ENOEXEC

LEMMA NextStartup ==
  ASSUME S!StartupOK, S!StartupInv, [S!Next]_S!vars
  PROVE  S!StartupInv'
<1>1. CASE S!StartMain
  BY <1>1, StartMainKept
<1>2. CASE S!Usage
  BY <1>2, UsageKept
<1>3. CASE S!mem_init
  BY <1>3, CallKept, CallsFollow, CodesFail DEF S!mem_init
<1>4. CASE S!load_elf_binary
  BY <1>4, LoadKept
<1>5. CASE S!translator_init
  BY <1>5, CallKept, CallsFollow, CodesFail DEF S!translator_init
<1>6. CASE S!translator_config_fetch
  BY <1>6, CallKept, CallsFollow, CodesFail DEF S!translator_config_fetch
<1>7. CASE S!dispatch_get
  BY <1>7, CallKept, CallsFollow, CodesFail DEF S!dispatch_get
<1>8. CASE S!AllocStack
  BY <1>8, CallKept, CallsFollow, CodesFail DEF S!AllocStack
<1>9. CASE S!BuildStack
  BY <1>9, BuildKept
<1>10. CASE S!rtld_init
  BY <1>10, CallKept, CallsFollow, CodesFail DEF S!rtld_init
<1>11. CASE S!rtld_perf_init
  BY <1>11, FollowsKept, CallsFollow DEF S!rtld_perf_init, S!Goto
<1>12. CASE S!translator_get_object
  BY <1>12, CallKept, CallsFollow, CodesFail DEF S!translator_get_object
<1>13. CASE S!rtld_add_object
  BY <1>13, CallKept, CallsFollow, CodesFail DEF S!rtld_add_object
<1>14. CASE S!AllocCpuState
  BY <1>14, CpuStateKept
<1>15. CASE S!set_thread_area
  BY <1>15, CallKept, CallsFollow, CodesFail DEF S!set_thread_area
<1>16. CASE S!EnterGuest
  BY <1>16, EnterKept
<1>17. CASE UNCHANGED S!vars
  <2>1. UNCHANGED <<pc, start, image, base, words, argv, environ, auxv, info, stack, regs, status>>
    BY <1>17 DEF S!vars
  <2>2. (S!Relocated => S!Relocated') /\ (S!InfoOK => S!InfoOK')
    BY <2>1, SameRelocated, SameInfo
  <2>3. (S!Found => S!Found') /\ S!StackTop' = S!StackTop
    BY <2>1 DEF S!Found, S!StackTop
  <2> QED BY <2>1, <2>2, <2>3 DEF S!StartupInv
<1> QED BY <1>1, <1>2, <1>3, <1>4, <1>5, <1>6, <1>7, <1>8, <1>9, <1>10, <1>11, <1>12, <1>13, <1>14,
          <1>15, <1>16, <1>17 DEF S!Next, S!Ended

(* The auxiliary vector under the guest's environment.                     *)
Answers(v, x) == \A p \in 1 .. 15 : S!getauxval(v, x[p][1]) = x[p][2]
Sized(A, v, n, m) == v \in Seq(A) /\ Len(v) = 31 + ((n + m) % 2)

LEMMA VectorsRight ==
  ASSUME NEW b, NEW a, NEW args, NEW env, Len(args) \in Nat, Len(env) \in Nat, NEW x,
         x = S!AuxEntries(b, a), NEW A, Nat \subseteq A, \A p \in 1 .. 15 : x[p][2] \in A,
         NEW v, v = S!Vectors(b, a, args, env)
  PROVE  Sized(A, v, Len(args), Len(env)) /\ Answers(v, x)
<1>1. PICK n \in 0 .. 1 : n = S!Align(Len(args), Len(env)) /\ n = (Len(args) + Len(env)) % 2
  BY SMTT(60) DEF S!Align
<1>2. PICK z : z = [i \in 1 .. n |-> 0]
  OBVIOUS
<1>3. z \in Seq(A) /\ Len(z) = n
  <2>1. 0 \in A /\ n \in Nat
    BY SMTT(60)
  <2>2. z \in [1 .. n -> A]
    BY <1>2, <2>1
  <2> QED BY SMTT(60), <2>1, <2>2
<1>4. PICK t : t = <<0>> \o z
  OBVIOUS
<1>5. t \in Seq(A) /\ Len(t) = n + 1
  <2>1. IsPush(A, t, 0, z)
    BY <1>3, <1>4, Pushed
  <2> QED BY <1>3, <2>1 DEF IsPush
<1>6. v = S!PushAux(t, x)
  BY <1>1, <1>2, <1>4 DEF S!Vectors, S!Push
<1>7. EntriesTyped(x)
  BY AuxTypes
<1>8. x \in Seq(A \X A) /\ Len(x) = 15
  <2>1. \A p \in 1 .. 15 : <<x[p][1], x[p][2]>> \in A \X A
    BY <1>7 DEF EntriesTyped
  <2>2. PICK g : g = [p \in 1 .. 15 |-> <<x[p][1], x[p][2]>>]
    OBVIOUS
  <2>3. x = g /\ Len(x) = 15
    BY <1>7, <2>2 DEF EntriesTyped
  <2>4. g \in [1 .. 15 -> A \X A]
    BY <2>1, <2>2
  <2>5. \A B : \A k \in Nat : \A f \in [1 .. k -> B] : f \in Seq(B)
    BY SMTT(60)
  <2>6. 15 \in Nat
    BY SMTT(60)
  <2> QED BY <2>3, <2>4, <2>5, <2>6
<1>9. IsPushed(A, v, x, t)
  BY <1>5, <1>6, <1>8, PushAuxFound
<1>10. v \in Seq(A) /\ Len(v) = 2 * Len(x) + Len(t)
  BY <1>9 DEF IsPushed
<1>11. Len(v) = 31 + ((Len(args) + Len(env)) % 2)
  <2>1. PICK w : w = Len(v) /\ w = 2 * 15 + (n + 1)
    BY <1>5, <1>8, <1>10
  <2>2. w = 31 + n
    BY SMTT(60), <2>1
  <2> QED BY <1>1, <2>1, <2>2
<1>12. \A p \in 1 .. 15 : S!getauxval(v, x[p][1]) = x[p][2]
  <2>1. \A p \in 1 .. 15 : x[p][1] # 0 /\ \A q \in p + 1 .. 15 : x[q][1] \notin {0, x[p][1]}
    BY <1>7 DEF EntriesTyped
  <2> QED BY <1>8, <1>9, <2>1 DEF IsPushed
<1> QED BY <1>10, <1>11, <1>12 DEF Sized, Answers

(* The stack pointer is aligned, however many arguments there are.         *)
LEMMA TopAligned ==
  ASSUME NEW n \in Nat, NEW m \in Nat, NEW e \in Nat, e % 16 = 0
  PROVE  (e - 8 * (n + m + (31 + ((n + m) % 2)) + 3)) % 16 = 0
<1>1. PICK k \in Nat, r \in 0 .. 1 : n + m = 2 * k + r /\ (n + m) % 2 = r
  <2>1. \A w \in Nat : w \div 2 \in Nat /\ w % 2 \in 0 .. 1 /\ w = 2 * (w \div 2) + (w % 2)
    BY SMTT(60)
  <2>2. n + m \in Nat
    BY SMTT(60)
  <2> QED BY <2>1, <2>2
<1>2. PICK c \in Nat : e = 16 * c
  <2>1. e \div 16 \in Nat /\ e = 16 * (e \div 16)
    BY SMTT(60)
  <2> QED BY <2>1
<1>3. e - 8 * (n + m + (31 + r) + 3) = 16 * (c - k - r - 17)
  BY SMTT(60), <1>1, <1>2
<1>4. \A i \in Int : (16 * i) % 16 = 0
  BY SMTT(60)
<1>5. c - k - r - 17 \in Int
  BY SMTT(60)
<1>6. (16 * (c - k - r - 17)) % 16 = 0
  BY <1>4, <1>5
<1> QED BY <1>1, <1>3, <1>6

(* What a step of the guest's start routine finds, once it is entered.     *)
LEMMA GuestRight ==
  ASSUME S!StartupOK, S!StartupInv, pc = "guest"
  PROVE  /\ S!StackTop % 16 = 0
         /\ S!GuestArgs = SubSeq(start.args, 3, Len(start.args)) /\ S!GuestEnv = start.env
         /\ S!AuxOf(stack) = S!Vectors(info, auxv, argv, environ)
         /\ Len(argv) \in Nat /\ Len(environ) \in Nat
<1>1. pc \in S!Built
  BY DEF S!Built
<1>2. start \in Stacks /\ S!Found /\ stack = S!GuestStack(info, auxv, argv, environ)
  BY <1>1 DEF S!StartupInv
<1>3. S!StackOK(start) /\ StackEnd \in Nat /\ StackEnd % 16 = 0
  BY <1>2 DEF S!StartupOK
<1>4. /\ environ = start.env /\ argv = SubSeq(start.args, 3, Len(start.args))
      /\ Len(start.args) >= 3
  BY <1>2 DEF S!Found
<1>5. start.args \in Seq(Nat \ {0}) /\ environ \in Seq(Nat \ {0})
  BY <1>3, <1>4 DEF S!StackOK
<1>6. argv \in Seq(Nat \ {0})
  <2>1. PICK s \in Seq(Nat \ {0}) : s = start.args /\ argv = SubSeq(s, 3, Len(s)) /\ Len(s) >= 3
    BY <1>4, <1>5
  <2>2. SubSeq(s, 3, Len(s)) \in Seq(Nat \ {0})
    BY SMTT(60), <2>1
  <2> QED BY <2>1, <2>2
<1>7. /\ \A i \in 1 .. Len(environ) : environ[i] # 0
      /\ Len(argv) \in Nat /\ Len(environ) \in Nat
  BY SMTT(60), <1>5, <1>6
<1>8. PICK x : x = S!AuxEntries(info, auxv)
  OBVIOUS
<1>9. PICK A : A = Nat \cup {x[p][2] : p \in 1 .. 15}
  OBVIOUS
<1>10. Nat \subseteq A /\ (\A p \in 1 .. 15 : x[p][2] \in A) /\ 0 \in A
  <2>1. 0 \in Nat
    BY SMTT(60)
  <2> QED BY <1>9, <2>1
<1>11. PICK v : v = S!Vectors(info, auxv, argv, environ)
  OBVIOUS
<1>12. v \in Seq(A) /\ Len(v) = 31 + ((Len(argv) + Len(environ)) % 2)
  <2>1. Sized(A, v, Len(argv), Len(environ))
    BY <1>7, <1>8, <1>10, <1>11, VectorsRight
  <2> QED BY <2>1 DEF Sized
<1>13. argv \in Seq(A) /\ environ \in Seq(A)
  <2>1. \A C, D, s : C \subseteq D /\ s \in Seq(C) => s \in Seq(D)
    BY SMTT(60)
  <2>2. Nat \ {0} \subseteq A
    BY <1>10
  <2> QED BY <1>5, <1>6, <2>1, <2>2
<1>14. stack = FirstStack(argv, environ, v)
  BY <1>2, <1>11 DEF S!GuestStack, S!Push, FirstStack
<1>15. Len(argv) \in A
  BY <1>7, <1>10
<1>16. ReadsAs(stack, argv, environ, v)
  BY <1>7, <1>10, <1>12, <1>13, <1>14, <1>15, StackRead
<1>17. Len(stack) = Len(argv) + Len(environ) + Len(v) + 3
  BY <1>16 DEF ReadsAs
<1>18. S!StackTop = StackEnd - 8 * (Len(argv) + Len(environ) + (31 + ((Len(argv) + Len(environ)) % 2)) + 3)
  BY <1>12, <1>17 DEF S!StackTop
<1>19. S!StackTop % 16 = 0
  BY <1>3, <1>7, <1>18, TopAligned
<1>20. S!GuestArgs = argv /\ S!GuestEnv = environ /\ S!AuxOf(stack) = v
  BY <1>16 DEF ReadsAs, S!GuestArgs, S!GuestEnv
<1> QED BY <1>4, <1>7, <1>11, <1>19, <1>20

(* The auxiliary vector the guest finds.                                   *)
LEMMA GuestAuxRight ==
  ASSUME S!StartupOK, S!StartupInv, pc = "guest"
  PROVE  /\ S!GuestAux(S!AT_ENTRY) = info.elf_entry /\ S!GuestAux(S!AT_PHDR) = info.phdr
         /\ S!GuestAux(S!AT_PHENT) = info.phent /\ S!GuestAux(S!AT_PHNUM) = info.phnum
         /\ \A t \in {S!AT_UID, S!AT_EUID, S!AT_GID, S!AT_EGID, S!AT_PAGESZ, S!AT_CLKTCK, S!AT_RANDOM} :
              S!GuestAux(t) = S!getauxval(auxv, t)
<1>1. PICK x, v : x = S!AuxEntries(info, auxv) /\ v = S!Vectors(info, auxv, argv, environ)
  OBVIOUS
<1>2. PICK A : A = Nat \cup {x[p][2] : p \in 1 .. 15}
  OBVIOUS
<1>3. Nat \subseteq A /\ \A p \in 1 .. 15 : x[p][2] \in A
  BY <1>2
<1>4. S!AuxOf(stack) = v /\ Len(argv) \in Nat /\ Len(environ) \in Nat
  BY <1>1, GuestRight
<1>5. Answers(v, x)
  BY <1>1, <1>3, <1>4, VectorsRight
<1>6. ASSUME NEW p, NEW t, NEW u, Entry(x, p, t, u)
      PROVE  S!GuestAux(t) = u
  <2>1. S!getauxval(v, t) = u
    BY <1>5, <1>6 DEF Answers, Entry
  <2> QED BY <1>4, <2>1 DEF S!GuestAux
<1>7. EntriesAre(x, info, auxv)
  BY <1>1, AuxTypes
<1>8. S!GuestAux(S!AT_ENTRY) = info.elf_entry /\ S!GuestAux(S!AT_PHDR) = info.phdr
  BY <1>6, <1>7 DEF EntriesAre
<1>9. S!GuestAux(S!AT_PHENT) = info.phent /\ S!GuestAux(S!AT_PHNUM) = info.phnum
  BY <1>6, <1>7 DEF EntriesAre
<1>10. /\ S!GuestAux(S!AT_RANDOM) = S!getauxval(auxv, S!AT_RANDOM)
       /\ S!GuestAux(S!AT_UID) = S!getauxval(auxv, S!AT_UID)
       /\ S!GuestAux(S!AT_EUID) = S!getauxval(auxv, S!AT_EUID)
       /\ S!GuestAux(S!AT_GID) = S!getauxval(auxv, S!AT_GID)
  BY <1>6, <1>7 DEF EntriesAre
<1>11. /\ S!GuestAux(S!AT_EGID) = S!getauxval(auxv, S!AT_EGID)
       /\ S!GuestAux(S!AT_CLKTCK) = S!getauxval(auxv, S!AT_CLKTCK)
       /\ S!GuestAux(S!AT_PAGESZ) = S!getauxval(auxv, S!AT_PAGESZ)
  BY <1>6, <1>7 DEF EntriesAre
<1>12. \A t \in {S!AT_UID, S!AT_EUID, S!AT_GID, S!AT_EGID, S!AT_PAGESZ, S!AT_CLKTCK, S!AT_RANDOM} :
         S!GuestAux(t) = S!getauxval(auxv, t)
  BY <1>10, <1>11
<1> QED BY <1>8, <1>9, <1>12

(* The registers the guest starts with.                                    *)
LEMMA GuestRegs ==
  ASSUME S!StartupInv, pc = "guest"
  PROVE  /\ regs[0] = info.exec_entry
         /\ regs[CASE info.machine = "X86_64" -> 1 + 4
                   [] info.machine = "RISCV" -> 1 + 2
                   [] info.machine = "AARCH64" -> 2 + 31] = S!StackTop
<1>1. /\ info.machine # "OTHER" /\ S!InfoOK
      /\ regs = [S!FirstRegs EXCEPT ![0] = info.exec_entry, ![S!SpWord(info.machine)] = S!StackTop]
  BY DEF S!StartupInv
<1>2. PICK m \in S!Machines : info = S!BinaryInfo(m)
  BY <1>1 DEF S!InfoOK
<1>3. info.machine = m /\ m \in {"X86_64", "RISCV", "AARCH64"}
  <2>1. info.machine = m
    BY SMTT(60), <1>2 DEF S!BinaryInfo
  <2> QED BY <1>1, <1>2, <2>1 DEF S!Machines
<1>4. PICK w : w = S!SpWord(m)
  OBVIOUS
<1>5. /\ m = "X86_64" => w = 5
      /\ m = "RISCV" => w = 3
      /\ m = "AARCH64" => w = 33
  BY <1>4 DEF S!SpWord
<1>6. w \in 0 .. 33 /\ w # 0 /\ 0 \in 0 .. 33
  BY SMTT(60), <1>3, <1>5
<1>7. PICK f, g, e, t : f = S!FirstRegs /\ e = info.exec_entry /\ t = S!StackTop
                        /\ g = [f EXCEPT ![0] = e] /\ regs = [g EXCEPT ![w] = t]
  BY <1>1, <1>3, <1>4
<1>8. DOMAIN f = 0 .. 33
  BY <1>7 DEF S!FirstRegs
<1>9. DOMAIN g = 0 .. 33 /\ g[0] = e
  BY <1>6, <1>7, <1>8
<1>10. regs[0] = e /\ regs[w] = t
  BY <1>6, <1>7, <1>9
<1>11. (CASE m = "X86_64" -> 1 + 4 [] m = "RISCV" -> 1 + 2 [] m = "AARCH64" -> 2 + 31) = w
  <2>1. 1 + 4 = 5 /\ 1 + 2 = 3 /\ 2 + 31 = 33
    BY SMTT(60)
  <2> QED BY <1>3, <1>5, <2>1
<1> QED BY <1>3, <1>7, <1>10, <1>11

LEMMA StartedFollows ==
  ASSUME S!StartupOK, S!StartupInv
  PROVE  S!StartedRight
<1>1. pc = "exited" => status # 0
  BY DEF S!StartupInv
<1>2. pc \notin {"_start", "exited"} =>
        words = [o \in DOMAIN words |-> image.linked[o] + base * image.moved[o]]
  BY DEF S!StartupInv, S!Relocated
<1>3. ASSUME pc = "guest"
      PROVE  /\ S!GuestAux(S!AT_ENTRY) = 501 /\ S!GuestAux(S!AT_PHDR) = 503
             /\ S!GuestAux(S!AT_PHENT) = 56 /\ S!GuestAux(S!AT_PHNUM) = 9
  <2>1. PICK m \in S!Machines : info = S!BinaryInfo(m)
    BY <1>3 DEF S!StartupInv, S!InfoOK
  <2>2. info.elf_entry = 501 /\ info.phdr = 503 /\ info.phent = 56 /\ info.phnum = 9
    BY SMTT(60), <2>1 DEF S!BinaryInfo
  <2>3. /\ S!GuestAux(S!AT_ENTRY) = info.elf_entry /\ S!GuestAux(S!AT_PHDR) = info.phdr
        /\ S!GuestAux(S!AT_PHENT) = info.phent /\ S!GuestAux(S!AT_PHNUM) = info.phnum
    BY <1>3, GuestAuxRight
  <2> QED BY <2>2, <2>3
<1>4. ASSUME pc = "guest",
             NEW t \in {S!AT_UID, S!AT_EUID, S!AT_GID, S!AT_EGID, S!AT_PAGESZ, S!AT_CLKTCK, S!AT_RANDOM},
             NEW i \in 1 .. Len(start.aux), start.aux[i][1] = t
      PROVE  S!GuestAux(t) = start.aux[i][2]
  <2>1. start \in Stacks /\ auxv = S!Pairs(start.aux) \o <<S!AT_NULL, 0>>
    BY <1>4 DEF S!StartupInv, S!Found
  <2>2. S!StackOK(start)
    BY <2>1 DEF S!StartupOK
  <2>3. S!getauxval(auxv, t) = start.aux[i][2]
    BY <1>4, <2>1, <2>2, ClientAux
  <2>4. S!GuestAux(t) = S!getauxval(auxv, t)
    BY <1>4, GuestAuxRight
  <2> QED BY <2>3, <2>4
<1>5. ASSUME pc = "guest"
      PROVE  /\ regs[0] = info.exec_entry
             /\ regs[CASE info.machine = "X86_64" -> 1 + 4
                       [] info.machine = "RISCV" -> 1 + 2
                       [] info.machine = "AARCH64" -> 2 + 31] = S!StackTop
             /\ S!StackTop % 16 = 0
             /\ S!GuestArgs = SubSeq(start.args, 3, Len(start.args)) /\ S!GuestEnv = start.env
  <2>1. /\ regs[0] = info.exec_entry
        /\ regs[CASE info.machine = "X86_64" -> 1 + 4
                  [] info.machine = "RISCV" -> 1 + 2
                  [] info.machine = "AARCH64" -> 2 + 31] = S!StackTop
    BY <1>5, GuestRegs
  <2>2. S!StackTop % 16 = 0 /\ S!GuestArgs = SubSeq(start.args, 3, Len(start.args)) /\ S!GuestEnv = start.env
    BY <1>5, GuestRight
  <2> QED BY <2>1, <2>2
<1> QED BY <1>1, <1>2, <1>3, <1>4, <1>5 DEF S!StartedRight

(* Whatever stack the kernel built, wherever it put the client and         *)
(* whichever relocation tables the client was linked with, main starts the *)
(* guest as the kernel would have (client/minilibc.c, client/main.c), or   *)
(* ends with a status that is not zero.                                    *)
THEOREM StartsRight ==
  ASSUME S!StartupOK
  PROVE  S!Spec => []S!StartedRight
<1>1. S!Init => S!StartupInv
  BY InitStartup
<1>2. S!StartupInv /\ [S!Next]_S!vars => S!StartupInv'
  BY NextStartup
<1>3. S!StartupInv => S!StartedRight
  BY StartedFollows
<1> QED BY <1>1, <1>2, <1>3, PTL DEF S!Spec
=============================================================================
