---------------------------- MODULE MCRtldTable ----------------------------
(* The run-time linker: its address table, the relocations and stubs it    *)
(* writes into new code, and its map and dump for profilers.  Init chooses *)
(* the component a behaviour is about, the others idle.                    *)
(*                                                                         *)
(* Four addresses for a table of three slots: 4 and 16 share a slot, 8 is  *)
(* pushed on by them, and one address finds the table full.                *)
EXTENDS RtldTable

MCAddrs == {4, 8, 16, 12}

VARIABLES
  comp,   \* "table", "reloc" or "perf"
  job, arg, done, ret, out,   \* Relocate
  mode, state, perfmap_fd, perfdump_fd, open, map, dump, notes, torn   \* PerfDump

(* Places and symbols near to and far from each other, on page boundaries  *)
(* and next to the ends of the fields, which are 24 and 15 bits wide here; *)
(* words with old contents; all short names over six characters.           *)
RePlaces == {4096, 4100, 2^20 + 4092, 2^28 + 8}
ReSymbols == {0, 16, 4096, 8188, 2^20, 2^20 + 4096 + 48, 2^20 + 2^23 - 2, 2^26 + 4096,
              2^27 + 4092, 2^28 + 16}
ReAddends == {0, -4, 16}
ReOld == {{}, {0, 4, 9, 25, 31}, {5, 10, 20, 22, 24, 29, 40}}
ReStubs == {0, 2^20, 2^29}
ReNames == UNION {[1 .. n -> {"Z", "S", "_", "0", "5", "8"}] : n \in 0 .. 4}
RePlt == <<"a", "b", "c", "d", "e", "f", "g">>

L == INSTANCE Relocate WITH Width <- 31, Word32 <- 24, PageField <- 15, Places <- RePlaces,
       Symbols <- ReSymbols, Addends <- ReAddends, Old <- ReOld, Stubs <- ReStubs,
       Names <- ReNames, Skew <- 64, PltFuncs <- RePlt

(* Names shorter than the buffer, as long as it and longer.                *)
PeLabels == {1, 3, 4, 6}
PeSizes == {0, 2}

D == INSTANCE PerfDump WITH Labels <- PeLabels, CodeSizes <- PeSizes, Cuts <- {0, 1}, BufSize <- 4,
       HeaderSize <- 5, RecordSize <- 7, MaxNotes <- 2

(* What the proofs about the two ask of their constants.                   *)
ASSUME RelocAssumption == L!RelocOK
ASSUME PerfAssumption == D!PerfOK

lvars == <<job, arg, done, ret, out>>
dvars == <<mode, state, perfmap_fd, perfdump_fd, open, map, dump, notes, torn>>

IdleL == job = "idle" /\ arg = <<>> /\ done = FALSE /\ ret = "ok" /\ out = <<>>
IdleD ==
  /\ mode = 0 /\ state = "idle" /\ perfmap_fd = FALSE /\ perfdump_fd = FALSE /\ open = {}
  /\ map = <<>> /\ dump = <<>> /\ notes = <<>> /\ torn = {}

MCInit ==
  /\ Init
  /\ \/ comp = "table" /\ IdleL /\ IdleD
     \/ comp = "reloc" /\ L!Init /\ IdleD
     \/ comp = "perf" /\ IdleL /\ D!Init

MCNext ==
  \/ comp = "table" /\ Next /\ UNCHANGED <<comp, lvars, dvars>>
  \/ comp = "reloc" /\ L!Next /\ UNCHANGED <<comp, vars, dvars>>
  \/ comp = "perf" /\ D!Next /\ UNCHANGED <<comp, vars, lvars>>

(* The fairness of Spec, for the behaviours that are about the table.      *)
MCSpec ==
  /\ MCInit /\ [][MCNext]_<<comp, vars, lvars, dvars>>
  /\ WF_vars(comp = "table" /\ SetStep)
  /\ \A t \in Readers : WF_vars(comp = "table" /\ ResolveStep(t))

(* A relocation either leaves the word such that the CPU computes the      *)
(* symbol's address from it, changing no other bit, or is refused because  *)
(* the distance does not fit; names decode to the address they encode; the *)
(* PLT's stubs reach their functions; profilers find every function.       *)
RelocRight ==
  /\ comp = "reloc" => L!RelocRight
  /\ comp = "perf" => D!PerfRight
=============================================================================
