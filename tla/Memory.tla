------------------------------- MODULE Memory -------------------------------
(***************************************************************************)
(* The memory of the client (client/memory.c): bump arenas, one for data   *)
(* and one for translated code.  An arena reserves [start, end) without    *)
(* access rights, hands out addresses below brk, and has made              *)
(* [start, brkp) accessible with mprotect.  Nothing is ever freed.         *)
(*                                                                         *)
(* Callers ask for at most 2^31 bytes and addresses lie near 2^46, so no   *)
(* sum below wraps around 2^64: addresses are unbounded naturals.          *)
(***************************************************************************)
EXTENDS Integers, Sequences

\* Definitions named X_<word> are faulty variants of X: the properties that
\* must notice them are listed with the runs.

CONSTANTS
  Arenas,      \* main_arena_data and main_arena_code
  Base,        \* [Arenas -> Nat]: where mmap placed each arena
  ArenaSize,   \* [Arenas -> Nat]: MEM_DATA_SIZE, MEM_CODE_SIZE
  PageSize,    \* getpagesize()
  MinAlign,    \* 0x40
  Sizes,       \* the sizes callers ask for
  Alignments,  \* the alignments callers ask for
  MaxBlocks    \* bound on the allocations made from one arena

WholePages(x) == \E k \in 0 .. x : x = k * PageSize

MemoryOK ==
  /\ MaxBlocks \in Nat
  /\ PageSize \in Nat \ {0}
  /\ MinAlign \in Nat \ {0}
  /\ Sizes \subseteq Nat
  /\ Alignments \subseteq Nat
  /\ Base \in [Arenas -> Nat]
  /\ ArenaSize \in [Arenas -> Nat]
  \* mmap returns page addresses, and both arena sizes are whole pages
  /\ \A a \in Arenas : WholePages(Base[a]) /\ WholePages(ArenaSize[a])
  \* the kernel does not place two mappings over each other
  /\ \A a, b \in Arenas : a # b => \/ Base[a] + ArenaSize[a] <= Base[b]
                                   \/ Base[b] + ArenaSize[b] <= Base[a]

ASSUME MemoryAssumption == MemoryOK

VARIABLES
  brk,     \* [Arenas -> Nat]: end of the last allocation
  brkp,    \* [Arenas -> Nat]: end of the accessible pages
  ret,     \* what the last call returned: an address, or a negative error
  blocks   \* [Arenas -> Seq(Block)]: the blocks handed out (history)

vars == <<brk, brkp, ret, blocks>>

Start(a) == Base[a]
End(a) == Base[a] + ArenaSize[a]

EINVAL == -22
ENOMEM == -12

(* The bytes [lo, hi), with the alignment arena_alloc used for them.       *)
Block == [lo : Nat, hi : Nat, align : Nat \ {0}]

ALIGN_UP(v, a) == ((v + (a - 1)) \div a) * a

(* alignment & (alignment - 1) is zero                                     *)
PowerOfTwo(a) == \E k \in 0 .. a : a = 2 ^ k

(* mem_init: both arenas reserved, nothing accessible yet.  When one of    *)
(* the two mmap calls fails, main returns and no allocation is ever made.  *)
Init ==
  /\ brk = Base
  /\ brkp = Base
  /\ ret = 0
  /\ blocks = [a \in Arenas |-> << >>]

AtLeastMin(alignment) == IF alignment < MinAlign THEN MinAlign ELSE alignment

Fits(a, brk_al, size) == brk_al + size <= brkp[a]

NewPages(a, brk_al, size) == ALIGN_UP(size - (brkp[a] - brk_al), PageSize)

OverLimit_strict(a, newpgsz) == brk[a] + newpgsz >= End(a)

(* The limit of the arena is tested against brk although the pages are     *)
(* added at brkp.                                                          *)
OverLimit(a, newpgsz) == brk[a] + newpgsz > End(a)

HandOut_unpadded(a, brk_al, size, al) ==
  /\ Len(blocks[a]) < MaxBlocks
  /\ brk' = [brk EXCEPT ![a] = @ + size]
  /\ ret' = brk_al
  /\ blocks' = [blocks EXCEPT ![a] =
       Append(@, [lo |-> brk_al, hi |-> brk_al + size, align |-> al])]

(* arena->brk = brk_al + size; return brk_al                               *)
HandOut(a, brk_al, size, al) ==
  /\ Len(blocks[a]) < MaxBlocks
  /\ brk' = [brk EXCEPT ![a] = brk_al + size]
  /\ ret' = brk_al
  /\ blocks' = [blocks EXCEPT ![a] =
       Append(@, [lo |-> brk_al, hi |-> brk_al + size, align |-> al])]

Fail(err) == ret' = err /\ UNCHANGED <<brk, brkp, blocks>>

(* The block ends beyond brkp: make more pages accessible, if the arena    *)
(* has them and mprotect agrees.                                           *)
Grow(a, brk_al, size, al) ==
  LET newpgsz == NewPages(a, brk_al, size)
  IN  \/ OverLimit(a, newpgsz) /\ Fail(ENOMEM)
      \/ ~OverLimit(a, newpgsz) /\ Fail(ENOMEM)    \* mprotect failed
      \/ /\ ~OverLimit(a, newpgsz)
         /\ brkp' = [brkp EXCEPT ![a] = @ + newpgsz]
         /\ HandOut(a, brk_al, size, al)

arena_alloc(a, size, alignment) ==
  LET al     == AtLeastMin(alignment)
      brk_al == ALIGN_UP(brk[a], al)
  IN  \/ ~PowerOfTwo(al) /\ Fail(EINVAL)
      \/ /\ PowerOfTwo(al)
         /\ Fits(a, brk_al, size)                  \* easy case
         /\ HandOut(a, brk_al, size, al)
         /\ UNCHANGED brkp
      \/ /\ PowerOfTwo(al)
         /\ ~Fits(a, brk_al, size)
         /\ Grow(a, brk_al, size, al)

Next ==
  \E a \in Arenas, size \in Sizes, alignment \in Alignments :
    arena_alloc(a, size, alignment)

Spec == Init /\ [][Next]_vars
-----------------------------------------------------------------------------
(* Types of the arena state.                                               *)
TypeOK ==
  /\ brk \in [Arenas -> Nat]
  /\ brkp \in [Arenas -> Nat]
  /\ ret \in Int
  /\ blocks \in [Arenas -> Seq(Block)]

(* Every block lies in pages that mprotect has made accessible, and these  *)
(* never reach past the reservation, although arena_alloc compares the     *)
(* limit with brk and not with brkp.                                       *)
BlocksAccessible ==
  \A a \in Arenas :
    /\ brkp[a] <= End(a)
    /\ \A i \in DOMAIN blocks[a] :
         LET b == blocks[a][i]
         IN  Start(a) <= b.lo /\ b.lo <= b.hi /\ b.hi <= brkp[a]

(* No byte is handed out twice, neither within an arena nor by the two     *)
(* arenas: an object, a stub and the receive buffer never overlap.         *)
BlocksDisjoint ==
  \A a, b \in Arenas : \A i \in DOMAIN blocks[a], j \in DOMAIN blocks[b] :
    LET x == blocks[a][i]
        y == blocks[b][j]
    IN  a # b \/ i # j => x.hi <= y.lo \/ y.hi <= x.lo

(* The memory that clients of the allocator rely on: every block they were *)
(* given is accessible, and theirs alone.                                  *)
BlocksSound == BlocksAccessible /\ BlocksDisjoint

(* The limit test is exact: a request is refused only if it does not fit   *)
(* in what is left of the reservation.                                     *)
RefusedOnlyWhenFull ==
  \A a \in Arenas, size \in Sizes, alignment \in Alignments :
    LET brk_al == ALIGN_UP(brk[a], AtLeastMin(alignment))
    IN  ~Fits(a, brk_al, size) /\ OverLimit(a, NewPages(a, brk_al, size))
          => brk_al + size > End(a)

(* Why that works: accessible pages end on a page boundary, less than a    *)
(* page beyond the last allocation.                                        *)
PageWindow ==
  \A a \in Arenas :
    /\ Start(a) <= brk[a] /\ brk[a] <= brkp[a] /\ brkp[a] < brk[a] + PageSize
    /\ WholePages(brkp[a])

(* Blocks are handed out in address order, all below brk.                  *)
BlocksOrdered ==
  \A a \in Arenas : \A i \in DOMAIN blocks[a] :
    /\ Start(a) <= blocks[a][i].lo /\ blocks[a][i].lo <= blocks[a][i].hi
    /\ blocks[a][i].hi <= brk[a]
    /\ \A j \in DOMAIN blocks[a] : i < j => blocks[a][i].hi <= blocks[a][j].lo

WithinReservation == \A a \in Arenas : brkp[a] <= End(a)

(* The inductive invariant.                                                *)
IInv == TypeOK /\ PageWindow /\ WithinReservation /\ BlocksOrdered
=============================================================================
