------------------------------ MODULE PerfDump ------------------------------
(***************************************************************************)
(* The profiler's view of translated code (client/rtld.c): rtld_perf_init  *)
(* opens a symbol map and a jitdump file, rtld_perf_notify adds every      *)
(* function that is registered.  A file is the sequence of what was        *)
(* written to it; of names and code only the length counts.                *)
(***************************************************************************)
EXTENDS Integers, Sequences

CONSTANTS
  Labels,      \* the lengths of "<addr>_<name>"
  CodeSizes,
  BufSize,     \* sizeof(namebuf)
  HeaderSize,  \* sizeof(struct RtldPerfJitHeader)
  RecordSize,  \* sizeof(struct RtldPerfJitRecordCodeLoad)
  Cuts,        \* how many bytes a write that fails may leave, fewer than names have
  MaxNotes

VARIABLES
  mode,         \* the configuration's perf setting
  state,        \* "start" or "running"
  perfmap_fd,   \* is the map in use?
  perfdump_fd,  \* is the dump in use?
  open,         \* the open files
  map, dump,    \* what is in them
  notes,        \* history: the functions registered since
  torn          \* history: the files a write failed on

vars == <<mode, state, perfmap_fd, perfdump_fd, open, map, dump, notes, torn>>

Init ==
  /\ mode \in 0 .. 2 /\ state = "start"
  /\ perfmap_fd = FALSE /\ perfdump_fd = FALSE /\ open = {}
  /\ map = <<>> /\ dump = <<>> /\ notes = <<>> /\ torn = {}

(* rtld_perf_init, by how far it gets: the map or the dump cannot be       *)
(* opened, the dump's header cannot be written or its marker page cannot   *)
(* be mapped (the dump is closed again), or all went well.  On a failure   *)
(* main prints a warning and goes on with what is in use already.          *)
rtld_perf_init(upto) ==
  /\ state = "start"
  /\ CASE mode < 1 -> upto = "all"
       [] mode = 1 -> upto \in {"none", "all"}
       [] OTHER -> TRUE
  /\ state' = "running"
  /\ perfmap_fd' = (mode >= 1 /\ upto # "none")
  /\ perfdump_fd' = (mode = 2 /\ upto = "all")
  /\ open' = (IF mode >= 1 /\ upto # "none" THEN {"map"} ELSE {})
               \cup (IF mode = 2 /\ upto = "all" THEN {"dump"} ELSE {})
  /\ dump' = IF mode = 2 /\ upto \in {"marker", "all"}
             THEN <<[what |-> "header", size |-> HeaderSize, says |-> HeaderSize]>> ELSE dump
  /\ UNCHANGED <<mode, map, notes, torn>>

(* snprintf returns the length the label would have.                       *)
NameLen(label) == IF label >= BufSize THEN BufSize - 1 ELSE label

(* namelen + 1 bytes of namebuf: the label cut to the buffer, its NUL, and *)
(* whatever else lies there.                                               *)
NameChunk(label, namelen) ==
  [what |-> "name", size |-> namelen + 1,
   says |-> IF label < BufSize THEN label + 1 ELSE BufSize]

Record(label, namelen, codesize) ==
  [what |-> "record", size |-> RecordSize, says |-> RecordSize + (namelen + 1) + codesize]

Code(codesize) == [what |-> "code", size |-> codesize, says |-> codesize]

Line(codesize, whole) == [codesize |-> codesize, whole |-> whole]

(* What a write leaves in the file: all of it, or the first bytes.         *)
Written(chunk, fails, cut) == IF chunk.what \in fails THEN [chunk EXCEPT !.size = cut] ELSE chunk

DumpWrites == {"record", "name", "code"}

(* rtld_perf_notify.  Every write may fail, also with a part of it done;   *)
(* nobody looks at the results, and the other writes are done all the same. *)
rtld_perf_notify(label, codesize, fails, cut) ==
  /\ state = "running" /\ Len(notes) < MaxNotes
  /\ "map" \in fails => perfmap_fd
  /\ fails \cap DumpWrites # {} => perfdump_fd
  /\ "code" \in fails => cut < codesize
  /\ notes' = Append(notes, [label |-> label, codesize |-> codesize])
  /\ map' = IF perfmap_fd THEN Append(map, Line(codesize, "map" \notin fails)) ELSE map
  /\ IF perfdump_fd
     THEN LET namelen == NameLen(label)
          IN dump' = dump \o <<Written(Record(label, namelen, codesize), fails, cut),
                               Written(NameChunk(label, namelen), fails, cut)>>
                         \o <<Written(Code(codesize), fails, cut)>>
     ELSE UNCHANGED dump
  /\ torn' = torn \cup (fails \cap {"map"}) \cup (IF fails \cap DumpWrites = {} THEN {} ELSE {"dump"})
  /\ UNCHANGED <<mode, state, perfmap_fd, perfdump_fd, open>>

Done == Len(notes) = MaxNotes /\ UNCHANGED vars

Next ==
  \/ \E upto \in {"none", "map", "header", "marker", "all"} : rtld_perf_init(upto)
  \/ \E label \in Labels, codesize \in CodeSizes, fails \in SUBSET ({"map"} \cup DumpWrites), cut \in Cuts :
       rtld_perf_notify(label, codesize, fails, cut)
  \/ Done

Spec == Init /\ [][Next]_vars
-----------------------------------------------------------------------------
(* The record at index at of dump d lets a reader skip to the next one.    *)
Sound(d, note, at) ==
  /\ d[at].says = d[at].size + d[at + 1].size + d[at + 2].size
  /\ d[at + 1].size = d[at + 1].says
  /\ d[at + 2].size = note.codesize

Dumped(d, ns) == Len(d) = 1 + 3 * Len(ns) /\ \A i \in 1 .. Len(ns) : Sound(d, ns[i], 3 * i - 1)

Listed(m, ns) == Len(m) = Len(ns) /\ \A i \in 1 .. Len(ns) : m[i] = Line(ns[i].codesize, TRUE)

OpenRight == open = (IF perfmap_fd THEN {"map"} ELSE {}) \cup (IF perfdump_fd THEN {"dump"} ELSE {})

(* Until a write to the map fails, every function registered has its line  *)
(* in it; until one to the dump fails, every function has, in this order,  *)
(* its record in it: a reader that skips by the sizes the dump gives finds *)
(* the next record, and every name ends with its own NUL.  A failure of    *)
(* one file does not harm the other, and no file stays open that is not    *)
(* written to.                                                             *)
PerfRight ==
  /\ perfmap_fd /\ "map" \notin torn => Listed(map, notes)
  /\ perfdump_fd /\ "dump" \notin torn => Dumped(dump, notes)
  /\ OpenRight

(* What the proof needs of the constants, and the inductive invariant.     *)
PerfOK ==
  /\ Labels \subseteq Nat /\ CodeSizes \subseteq Nat /\ Cuts \subseteq Nat
  /\ {BufSize, HeaderSize, RecordSize} \subseteq Nat \ {0}

Note == [label : Labels, codesize : CodeSizes]
Chunk == [what : {"header", "record", "name", "code"}, size : Nat, says : Nat]

PerfInv ==
  /\ notes \in Seq(Note) /\ map \in Seq([codesize : CodeSizes, whole : BOOLEAN]) /\ dump \in Seq(Chunk)
  /\ state = "start" => map = <<>> /\ notes = <<>> /\ dump = <<>>
  /\ PerfRight
=============================================================================
