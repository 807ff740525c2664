-------------------------- MODULE RtldTableProofs --------------------------
(***************************************************************************)
(* Proofs about what client/rtld.c does.  RtldTable: for every table size, *)
(* every set of addresses and any number of concurrent readers.  Relocate  *)
(* (L below): for every width of the fields, every place, symbol and       *)
(* addend.                                                                 *)
(***************************************************************************)
EXTENDS RtldTable, Sequences, WellFoundedInduction, TLAPS

(* Leaves go to Zenon, with time for a slow machine; those that need       *)
(* arithmetic or sequences name the SMT solver.                            *)
USE ZenonT(60)

(* Probing stays inside the table.                                         *)
LEMMA ProbeSlot ==
  ASSUME NEW a \in Addrs, NEW i \in Nat
  PROVE  Probe(a, i) \in Slots
<1>1. a \in Nat /\ a \div 4 \in Nat
  BY SMTT(60), TableAssumption
<1>2. RTLD_HASH(a) \in Nat
  BY SMTT(60), <1>1, TableAssumption DEF RTLD_HASH
<1> QED
  BY SMTT(60), <1>2, TableAssumption DEF Probe, Slots

(* A probe sequence visits every slot.                                     *)
LEMMA ProbeAll ==
  ASSUME NEW a \in Addrs, NEW j \in Slots
  PROVE  \E k \in Slots : Probe(a, k) = j
<1> DEFINE h == RTLD_HASH(a)
<1>1. h \in Slots
  BY SMTT(60), TableAssumption DEF RTLD_HASH, Slots
<1>2. CASE j >= h
  <2>1. j - h \in Slots /\ (h + (j - h)) % TableSize = j
    BY SMTT(60), <1>1, <1>2, TableAssumption DEF Slots
  <2> QED
    BY <2>1 DEF Probe
<1>3. CASE j < h
  <2>1. j - h + TableSize \in Slots
    BY SMTT(60), <1>1, <1>3, TableAssumption DEF Slots
  <2>2. h + (j - h + TableSize) = j + TableSize
    BY SMTT(60), <1>1, TableAssumption DEF Slots
  <2>3. (j + TableSize) % TableSize = j
    BY SMTT(60), TableAssumption DEF Slots
  <2> QED
    BY <2>1, <2>2, <2>3 DEF Probe
<1> QED
  BY SMTT(60), <1>1, <1>2, <1>3, TableAssumption DEF Slots

(* The table is empty at first.                                            *)
LEMMA InitIInv == Init => IInv
<1> SUFFICES ASSUME Init
             PROVE  IInv
  OBVIOUS
<1>1. TypeOK
  BY SMTT(60), TableAssumption DEF Init, TypeOK, Writer, Reader, Slots
<1>2. ChainInv
  BY SMTT(60), ProbeSlot, TableAssumption DEF Init, ChainInv, Slots, Empty
<1>3. WriterInv /\ ReaderInv
  BY DEF Init, WriterInv, ReaderInv, ReaderOK
<1>4. FullOnlyWhenFull /\ ExistsOnlyWhenKnown
  BY DEF Init, FullOnlyWhenFull, ExistsOnlyWhenKnown
<1> QED
  BY <1>1, <1>2, <1>3, <1>4 DEF IInv

(* Every step keeps the types.                                             *)
LEMMA StepType ==
  ASSUME IInv, Next
  PROVE  TypeOK'
<1> USE TableAssumption
<1>0. TypeOK /\ WriterInv /\ ReaderInv
  BY DEF IInv
<1>1. ASSUME NEW a \in Addrs, NEW e \in Entries, rtld_set(a, e)
      PROVE  TypeOK'
  BY SMTT(60), <1>0, <1>1 DEF TypeOK, rtld_set, Writer
<1>2. CASE SetProbe
  <2>1. w \in Writer
    BY <1>0 DEF TypeOK
  <2>2. CASE Return("ENOSPC") \/ Return("EEXIST") \/ w' = [w EXCEPT !.pc = "entry"]
    BY <1>0, <1>2, <2>1, <2>2 DEF TypeOK, SetProbe, Return, Writer
  <2>3. CASE w.i < LastProbe /\ w' = [w EXCEPT !.i = @ + 1]
    <3>1. w.i \in 0 .. TableSize /\ w.i + 1 \in 0 .. TableSize
      BY SMTT(60), <2>1, <2>3 DEF LastProbe, Writer
    <3> QED
      BY <1>0, <1>2, <2>1, <2>3, <3>1 DEF TypeOK, SetProbe, Writer
  <2> QED
    BY <1>2, <2>2, <2>3 DEF SetProbe
<1>3. CASE SetStores
  <2>1. w.addr \in Addrs /\ w.entry \in Entries /\ w.i \in Nat
    BY SMTT(60), <1>0, <1>3 DEF WriterInv, SetStores, TypeOK, Writer
  <2>2. Probe(w.addr, w.i) \in Slots
    BY <2>1, ProbeSlot
  <2> QED
    BY <1>0, <1>3, <2>1, <2>2
    DEF TypeOK, SetStores, StoreEntry, Publish, Return, Writer
<1>4. ASSUME NEW t \in Readers, NEW a \in Addrs, rtld_resolve(t, a)
      PROVE  TypeOK'
  BY SMTT(60), <1>0, <1>4 DEF TypeOK, rtld_resolve, Reader
<1>5. ASSUME NEW t \in Readers, ResolveProbe(t)
      PROVE  TypeOK'
  <2>1. r[t] \in Reader
    BY <1>0 DEF TypeOK
  <2>2. CASE Answer(t, "ENOENT", None) \/ r' = [r EXCEPT ![t].pc = "load"]
    BY SMTT(60), <1>0, <1>5, <2>1, <2>2 DEF TypeOK, ResolveProbe, Answer, Reader
  <2>3. CASE r[t].i < ResolveLast /\ r' = [r EXCEPT ![t].i = NextProbe(@)]
    <3>1. r[t].i \in 0 .. TableSize /\ r[t].i + 1 \in 0 .. TableSize
      BY SMTT(60), <2>1, <2>3 DEF ResolveLast, Reader
    <3> QED
      BY <1>0, <1>5, <2>1, <2>3, <3>1 DEF TypeOK, ResolveProbe, NextProbe, Reader
  <2> QED
    BY <1>5, <2>2, <2>3 DEF ResolveProbe
<1>6. ASSUME NEW t \in Readers, ResolveLoad(t)
      PROVE  TypeOK'
  <2>1. r[t].addr \in Addrs /\ r[t].i \in Nat
    BY SMTT(60), <1>0, <1>6 DEF ReaderInv, ReaderOK, ResolveLoad, TypeOK, Reader
  <2>2. Probe(r[t].addr, r[t].i) \in Slots
    BY <2>1, ProbeSlot
  <2>3. r[t] \in Reader /\ entry[Probe(r[t].addr, r[t].i)] \in Entries \cup {None}
    BY <1>0, <2>2 DEF TypeOK
  <2> QED
    BY <1>0, <1>6, <2>3 DEF TypeOK, ResolveLoad, Answer, Reader
<1> QED
  BY <1>1, <1>2, <1>3, <1>4, <1>5, <1>6 DEF Next, SetStep, ResolveStep

(* The address being added is not in the table: it would be on the part of *)
(* its probe sequence that the writer has passed, or behind an empty slot. *)
LEMMA NotYetKnown ==
  ASSUME IInv, w.pc = "addr"
  PROVE  w.addr \in Addrs /\ known[w.addr] = None
<1>1. w.addr \in Addrs /\ w.i \in Slots
  BY SMTT(60), TableAssumption DEF IInv, WriterInv, TypeOK, Writer, Slots
<1>2. SUFFICES ASSUME known[w.addr] # None
               PROVE  FALSE
  BY <1>1
<1>3. PICK i \in Slots : AtProbe(w.addr, i)
  BY <1>1, <1>2 DEF IInv, ChainInv
<1>4. addr[Probe(w.addr, w.i)] = Empty
  BY DEF IInv, WriterInv
<1>5. w.addr # Empty
  BY <1>1, TableAssumption DEF Empty
<1>6. CASE i < w.i
  <2>1. i \in 0 .. w.i - 1
    BY SMTT(60), <1>1, <1>6, TableAssumption DEF Slots
  <2> QED
    BY <1>3, <2>1 DEF IInv, WriterInv, AtProbe
<1>7. CASE i = w.i
  BY <1>3, <1>4, <1>5, <1>7 DEF AtProbe
<1>8. CASE w.i < i
  <2>1. w.i \in 0 .. i - 1
    BY SMTT(60), <1>1, <1>8, TableAssumption DEF Slots
  <2> QED
    BY <1>3, <1>4, <2>1 DEF AtProbe
<1> QED
  BY SMTT(60), <1>1, <1>6, <1>7, <1>8, TableAssumption DEF Slots

(* Where a probe sequence first meets its address, the entry is the        *)
(* registered one.                                                         *)
LEMMA FirstMatch ==
  ASSUME IInv, NEW a \in Addrs, NEW i \in Slots, addr[Probe(a, i)] = a,
         \A k \in 0 .. i - 1 : addr[Probe(a, k)] \notin {Empty, a}
  PROVE  known[a] # None /\ entry[Probe(a, i)] = known[a]
<1>1. known[a] # None
  BY DEF IInv, ChainInv
<1>2. PICK j \in Slots : AtProbe(a, j)
  BY <1>1 DEF IInv, ChainInv
<1>3. i = j
  <2>1. CASE i < j
    <3>1. i \in 0 .. j - 1
      BY SMTT(60), <2>1, TableAssumption DEF Slots
    <3> QED
      BY <1>2, <3>1 DEF AtProbe
  <2>2. CASE j < i
    <3>1. j \in 0 .. i - 1
      BY SMTT(60), <2>2, TableAssumption DEF Slots
    <3> QED
      BY <1>2, <3>1 DEF AtProbe
  <2> QED
    BY SMTT(60), <2>1, <2>2, TableAssumption DEF Slots
<1> QED
  BY <1>1, <1>2, <1>3 DEF AtProbe

(* Slots are filled once, and registrations stay.                          *)
LEMMA StepMonotone ==
  ASSUME IInv, Next
  PROVE  /\ \A j \in Slots : addr[j] # Empty => addr'[j] = addr[j]
         /\ \A a \in Addrs : known[a] # None => known'[a] = known[a]
<1>1. CASE SetStores
  <2>1. CASE w.pc = "addr" /\ Publish /\ known' = [known EXCEPT ![w.addr] = w.entry]
    <3>1. addr[Probe(w.addr, w.i)] = Empty
      BY <2>1 DEF IInv, WriterInv
    <3> QED
      BY <2>1, <3>1, NotYetKnown DEF IInv, TypeOK, Publish
  <2> QED
    BY <1>1, <2>1 DEF SetStores
<1> QED
  BY <1>1
  DEF Next, SetStep, ResolveStep, rtld_set, SetProbe, rtld_resolve, ResolveProbe, ResolveLoad

(* Probe sequences stay unbroken.                                          *)
LEMMA StepChain ==
  ASSUME IInv, Next
  PROVE  ChainInv'
<1> USE TableAssumption
<1>0. TypeOK /\ TypeOK' /\ ChainInv /\ WriterInv
  BY StepType DEF IInv
<1>1. CASE UNCHANGED <<addr, entry, known>>
  BY <1>0, <1>1 DEF ChainInv, AtProbe
<1>2. CASE w.pc = "entry" /\ StoreEntry /\ UNCHANGED <<addr, known>>
  <2>1. addr[Probe(w.addr, w.i)] = Empty
    BY <1>0, <1>2 DEF WriterInv
  <2>2. ASSUME NEW a \in Addrs, NEW i \in Slots, AtProbe(a, i)
        PROVE  AtProbe(a, i)'
    <3>1. Probe(a, i) # Probe(w.addr, w.i)
      BY <2>1, <2>2 DEF AtProbe, Empty
    <3>2. Probe(a, i) \in Slots
      BY SMTT(60), ProbeSlot DEF Slots
    <3> QED
      BY <1>0, <1>2, <2>2, <3>1, <3>2 DEF AtProbe, StoreEntry, TypeOK
  <2> QED
    BY <1>0, <1>2, <2>2 DEF ChainInv
<1>3. CASE w.pc = "addr" /\ Publish /\ UNCHANGED entry
           /\ known' = [known EXCEPT ![w.addr] = w.entry]
  <2>1. /\ addr[Probe(w.addr, w.i)] = Empty /\ entry[Probe(w.addr, w.i)] = w.entry
        /\ w.addr \in Addrs /\ w.entry \in Entries /\ w.i \in Slots
    BY SMTT(60), <1>0, <1>3 DEF WriterInv, TypeOK, Writer, Slots
  <2>i. w.i \in Nat
    BY SMTT(60), <2>1 DEF Slots
  <2>2. Probe(w.addr, w.i) \in Slots
    BY <2>1, <2>i, ProbeSlot
  <2>3. ASSUME NEW a \in Addrs, a # w.addr, NEW i \in Slots, AtProbe(a, i)
        PROVE  AtProbe(a, i)'
    <3>1. ASSUME NEW k \in 0 .. i
          PROVE  Probe(a, k) \in Slots /\ addr[Probe(a, k)] # Empty
      <4>1. a # Empty /\ (k = i \/ k \in 0 .. i - 1) /\ k \in Nat
        BY SMTT(60) DEF Empty, Slots
      <4>2. Probe(a, k) \in Slots
        BY <4>1, ProbeSlot
      <4> QED
        BY <2>3, <4>1, <4>2 DEF AtProbe
    <3>2. \A k \in 0 .. i : addr'[Probe(a, k)] = addr[Probe(a, k)]
      BY <3>1, StepMonotone
    <3>3. known'[a] = known[a]
      BY <1>0, <1>3, <2>3 DEF TypeOK
    <3>4. i \in 0 .. i /\ \A k \in 0 .. i - 1 : k \in 0 .. i
      BY SMTT(60) DEF Slots
    <3> QED
      BY <1>3, <2>3, <3>2, <3>3, <3>4 DEF AtProbe
  <2>4. ASSUME NEW a \in Addrs, NEW i \in Slots, a = w.addr, i = w.i
        PROVE  AtProbe(a, i)'
    <3>1. \A k \in 0 .. i - 1 : addr[Probe(a, k)] \notin {Empty, a}
      BY <1>0, <1>3, <2>4 DEF WriterInv
    <3>2. \A k \in 0 .. i - 1 : Probe(a, k) \in Slots
      BY SMTT(60), ProbeSlot DEF Slots
    <3>3. \A k \in 0 .. i - 1 : addr'[Probe(a, k)] = addr[Probe(a, k)]
      BY <3>1, <3>2, StepMonotone
    <3>4. addr'[Probe(a, i)] = a /\ entry'[Probe(a, i)] = known'[a]
      BY <1>0, <1>3, <2>1, <2>2, <2>4 DEF Publish, TypeOK
    <3> QED
      BY <3>1, <3>3, <3>4 DEF AtProbe
  <2>5. ASSUME NEW a \in Addrs, known'[a] # None
        PROVE  \E i \in Slots : AtProbe(a, i)'
    <3>1. CASE a = w.addr
      BY <2>1, <2>4, <3>1
    <3>2. CASE a # w.addr
      <4>1. known[a] # None
        BY <1>0, <1>3, <2>5, <3>2 DEF TypeOK
      <4>2. PICK i \in Slots : AtProbe(a, i)
        BY <1>0, <4>1 DEF ChainInv
      <4> QED
        BY <2>3, <3>2, <4>2
    <3> QED
      BY <3>1, <3>2
  <2>6. ASSUME NEW a \in Addrs, NEW i \in Slots, addr'[Probe(a, i)] = a
        PROVE  known'[a] # None
    <3>1. CASE a = w.addr
      BY <1>0, <1>3, <2>1, <3>1 DEF TypeOK
    <3>2. CASE a # w.addr
      <4>1. addr[Probe(a, i)] = a
        BY SMTT(60), <1>0, <1>3, <2>6, <3>2 DEF Publish, TypeOK
      <4>2. known[a] # None
        BY <1>0, <4>1 DEF ChainInv
      <4> QED
        BY <4>2, StepMonotone
    <3> QED
      BY <3>1, <3>2
  <2> QED
    BY <2>5, <2>6 DEF ChainInv
<1> QED
  BY <1>1, <1>2, <1>3
  DEF Next, SetStep, ResolveStep, rtld_set, SetProbe, SetStores, rtld_resolve,
      ResolveProbe, ResolveLoad

(* A probe over slots that are all passed reaches beyond the next one.     *)
LEMMA OneMore ==
  ASSUME IInv, NEW a \in Addrs, NEW i \in Nat,
         \A k \in 0 .. i - 1 : addr[Probe(a, k)] \notin {Empty, a},
         addr[Probe(a, i)] \notin {Empty, a}
  PROVE  \A k \in 0 .. (i + 1) - 1 : addr[Probe(a, k)] \notin {Empty, a}
<1>1. \A k \in 0 .. (i + 1) - 1 : k = i \/ k \in 0 .. i - 1
  BY SMTT(60)
<1> QED
  BY <1>1

(* Steps of the readers leave everything but r alone; only SetStores       *)
(* changes the table.                                                      *)
LEMMA StepWriter ==
  ASSUME IInv, Next
  PROVE  WriterInv'
<1> USE TableAssumption
<1>0. TypeOK /\ WriterInv
  BY DEF IInv
<1>1. ASSUME NEW a \in Addrs, NEW e \in Entries, rtld_set(a, e)
      PROVE  WriterInv'
  BY SMTT(60), <1>0, <1>1 DEF WriterInv, rtld_set
<1>2. CASE SetProbe
  <2>1. w \in Writer /\ w.addr \in Addrs /\ w.i \in Nat /\ w.pc = "probe"
    BY SMTT(60), <1>0, <1>2 DEF TypeOK, WriterInv, SetProbe, Writer
  <2>2. CASE Return("ENOSPC") \/ Return("EEXIST")
    BY <1>0, <1>2, <2>1, <2>2 DEF WriterInv, SetProbe, Return, Writer
  <2>3. CASE w.i < LastProbe /\ addr[Probe(w.addr, w.i)] = Empty
             /\ w' = [w EXCEPT !.pc = "entry"]
    BY <1>0, <1>2, <2>1, <2>3 DEF WriterInv, SetProbe, LastProbe, Writer
  <2>4. CASE addr[Probe(w.addr, w.i)] \notin {Empty, w.addr}
             /\ w' = [w EXCEPT !.i = @ + 1]
    <3>1. \A k \in 0 .. (w.i + 1) - 1 : addr[Probe(w.addr, k)] \notin {Empty, w.addr}
      BY <1>0, <2>1, <2>4, OneMore DEF WriterInv
    <3>2. /\ w'.i = w.i + 1 /\ w'.pc = "probe" /\ w'.addr = w.addr
          /\ w'.entry = w.entry /\ w'.ret = w.ret /\ UNCHANGED addr
      BY <1>2, <2>1, <2>4 DEF Writer, SetProbe
    <3> QED
      BY <1>0, <2>1, <3>1, <3>2 DEF WriterInv
  <2> QED
    BY <1>2, <2>2, <2>3, <2>4 DEF SetProbe, Taken
<1>3. CASE SetStores
  <2>1. w \in Writer /\ w.addr \in Addrs /\ w.i \in Nat
    BY SMTT(60), <1>0, <1>3 DEF TypeOK, WriterInv, SetStores, Writer
  <2>2. Probe(w.addr, w.i) \in Slots
    BY <2>1, ProbeSlot
  <2>3. CASE w.pc = "entry" /\ StoreEntry /\ w' = [w EXCEPT !.pc = "addr"]
             /\ UNCHANGED addr
    BY <1>0, <2>1, <2>2, <2>3 DEF WriterInv, StoreEntry, TypeOK, Writer
  <2>4. CASE w.pc = "addr" /\ Return("0")
    BY <1>0, <2>1, <2>4 DEF WriterInv, Return, Writer
  <2> QED
    BY <1>3, <2>3, <2>4 DEF SetStores
<1>4. CASE UNCHANGED <<addr, entry, w, known>>
  BY <1>0, <1>4 DEF WriterInv
<1> QED
  BY <1>1, <1>2, <1>3, <1>4
  DEF Next, SetStep, ResolveStep, rtld_resolve, ResolveProbe, ResolveLoad

(* What the writer reports is true, and stays true.                        *)
LEMMA StepReports ==
  ASSUME IInv, Next
  PROVE  FullOnlyWhenFull' /\ ExistsOnlyWhenKnown'
<1> USE TableAssumption
<1>0. TypeOK /\ TypeOK' /\ WriterInv /\ FullOnlyWhenFull /\ ExistsOnlyWhenKnown
  BY StepType DEF IInv
<1>1. CASE w'.ret = w.ret /\ w'.addr = w.addr /\ (w'.ret \in {"EEXIST", "ENOSPC"} => w' = w)
  <2>1. FullOnlyWhenFull'
    BY <1>0, <1>1, StepMonotone DEF FullOnlyWhenFull
  <2>2. ExistsOnlyWhenKnown'
    BY <1>0, <1>1, StepMonotone DEF ExistsOnlyWhenKnown, WriterInv
  <2> QED
    BY <2>1, <2>2
<1>2. CASE w'.ret = "0"
  BY <1>2 DEF FullOnlyWhenFull, ExistsOnlyWhenKnown
<1>3. CASE SetProbe /\ w.i >= LastProbe /\ Return("ENOSPC")
  <2>1. w \in Writer /\ w.addr \in Addrs /\ w.i = TableSize
    BY SMTT(60), <1>0, <1>3 DEF TypeOK, WriterInv, SetProbe, LastProbe, Writer
  <2>2. \A k \in Slots : addr[Probe(w.addr, k)] # Empty
    BY <1>0, <1>3, <2>1 DEF WriterInv, SetProbe, Slots
  <2>3. \A j \in Slots : addr[j] # Empty
    BY <2>1, <2>2, ProbeAll
  <2>4. w'.ret = "ENOSPC"
    BY <1>3, <2>1 DEF Return, Writer
  <2> QED
    BY <1>3, <2>3, <2>4 DEF FullOnlyWhenFull, ExistsOnlyWhenKnown, SetProbe
<1>4. CASE SetProbe /\ w.i < LastProbe /\ addr[Probe(w.addr, w.i)] = w.addr
           /\ Return("EEXIST")
  <2>1. w \in Writer /\ w.addr \in Addrs /\ w.i \in Slots
    BY SMTT(60), <1>0, <1>4 DEF TypeOK, WriterInv, SetProbe, LastProbe, Writer, Slots
  <2>2. known[w.addr] # None
    BY <1>4, <2>1 DEF IInv, ChainInv
  <2>3. w'.ret = "EEXIST" /\ w'.addr = w.addr
    BY <1>4, <2>1 DEF Return, Writer
  <2> QED
    BY <1>4, <2>2, <2>3 DEF FullOnlyWhenFull, ExistsOnlyWhenKnown, SetProbe
<1>5. w \in Writer
  BY <1>0 DEF TypeOK
<1>6. ASSUME NEW a \in Addrs, NEW e \in Entries, rtld_set(a, e)
      PROVE  w'.ret = "0"
  BY <1>6 DEF rtld_set
<1>7. CASE SetProbe
  BY <1>0, <1>1, <1>3, <1>4, <1>5, <1>7 DEF SetProbe, Taken, Writer, WriterInv
<1>8. CASE SetStores
  BY <1>0, <1>1, <1>2, <1>5, <1>8 DEF SetStores, Return, Writer, WriterInv
<1>9. CASE UNCHANGED w
  BY <1>1, <1>9
<1> QED
  BY <1>2, <1>6, <1>7, <1>8, <1>9
  DEF Next, SetStep, ResolveStep, rtld_resolve, ResolveProbe, ResolveLoad

(* A reader's own step: it returns what the probe sequence determines.     *)
LEMMA OwnStep ==
  ASSUME IInv, Next, NEW t \in Readers,
         \/ ResolveStep(t)
         \/ \E a \in Addrs : rtld_resolve(t, a)
  PROVE  ReaderOK(t)'
<1> USE TableAssumption
<1>0. /\ TypeOK /\ ReaderOK(t) /\ r[t] \in Reader /\ r[t].i \in Nat
      /\ r \in [Readers -> Reader]
  BY SMTT(60) DEF IInv, ReaderInv, TypeOK, Reader
<1>1. ASSUME NEW a \in Addrs, rtld_resolve(t, a)
      PROVE  ReaderOK(t)'
  <2>1. r'[t] = [pc |-> "probe", addr |-> a, i |-> 0, there |-> known[a] # None,
                 ret |-> "none", out |-> None]
    BY <1>0, <1>1 DEF rtld_resolve
  <2>2. /\ r'[t].pc = "probe" /\ r'[t].addr = a /\ r'[t].i = 0 /\ r'[t].ret = "none"
        /\ r'[t].there = (known[a] # None)
    BY SMTT(60), <2>1
  <2>3. UNCHANGED <<addr, known>> /\ 0 .. 0 - 1 = {}
    BY SMTT(60), <1>1 DEF rtld_resolve
  <2> QED
    BY <2>2, <2>3 DEF ReaderOK
<1>2. CASE ResolveProbe(t)
  <2> DEFINE a == r[t].addr  i == r[t].i
  <2>1. r[t].pc = "probe" /\ a \in Addrs /\ r[t].ret = "none"
    BY <1>0, <1>2 DEF ReaderOK, ResolveProbe
  <2>2. \A k \in 0 .. i - 1 : addr[Probe(a, k)] \notin {Empty, a}
    BY <1>0, <2>1 DEF ReaderOK
  <2>3. UNCHANGED <<addr, entry, w, known>>
    BY <1>2 DEF ResolveProbe
  <2>4. CASE (i >= ResolveLast \/ addr[Probe(a, i)] = Empty) /\ Answer(t, "ENOENT", None)
    <3>1. ~r[t].there
      <4>1. SUFFICES ASSUME known[a] # None
                     PROVE  FALSE
        BY <1>0 DEF ReaderOK
      <4>2. PICK j \in Slots : AtProbe(a, j)
        BY <2>1, <4>1 DEF IInv, ChainInv
      <4>3. j \in Nat /\ j < TableSize /\ a # Empty
        BY SMTT(60), <2>1 DEF Slots, Empty
      <4>4. CASE j < i
        <5>1. j \in 0 .. i - 1
          BY SMTT(60), <1>0, <4>3, <4>4
        <5> QED
          BY <2>2, <4>2, <5>1 DEF AtProbe
      <4>5. CASE i <= j
        <5>1. addr[Probe(a, i)] = Empty
          BY SMTT(60), <1>0, <2>4, <4>3, <4>5 DEF ResolveLast
        <5>2. i = j \/ i \in 0 .. j - 1
          BY SMTT(60), <1>0, <4>3, <4>5
        <5> QED
          BY <4>2, <4>3, <5>1, <5>2 DEF AtProbe
      <4> QED
        BY SMTT(60), <1>0, <4>3, <4>4, <4>5
    <3>2. /\ r'[t].pc = "idle" /\ r'[t].ret = "ENOENT" /\ r'[t].addr = a
          /\ r'[t].there = r[t].there
      BY <1>0, <2>4 DEF Answer, Reader
    <3> QED
      BY <3>1, <3>2 DEF ReaderOK
  <2>5. CASE i < ResolveLast /\ addr[Probe(a, i)] = a /\ r' = [r EXCEPT ![t].pc = "load"]
    <3>1. /\ r'[t].pc = "load" /\ r'[t].ret = "none" /\ r'[t].addr = a
          /\ r'[t].there = r[t].there /\ r'[t].i = i
      BY <1>0, <2>1, <2>5 DEF Reader
    <3> QED
      BY <1>0, <2>1, <2>2, <2>3, <2>5, <3>1 DEF ReaderOK, ResolveLast
  <2>6. CASE addr[Probe(a, i)] \notin {a, Empty} /\ r' = [r EXCEPT ![t].i = NextProbe(@)]
    <3>1. /\ r'[t].pc = "probe" /\ r'[t].ret = "none" /\ r'[t].addr = a
          /\ r'[t].there = r[t].there /\ r'[t].i = i + 1
      BY <1>0, <2>1, <2>6 DEF Reader, NextProbe
    <3>2. \A k \in 0 .. (i + 1) - 1 : addr[Probe(a, k)] \notin {Empty, a}
      BY <1>0, <2>1, <2>2, <2>6, OneMore
    <3> QED
      BY <1>0, <2>1, <2>3, <3>1, <3>2 DEF ReaderOK
  <2> QED
    BY <1>2, <2>4, <2>5, <2>6 DEF ResolveProbe
<1>3. CASE ResolveLoad(t)
  <2> DEFINE a == r[t].addr  i == r[t].i
  <2>1. /\ a \in Addrs /\ i \in Slots /\ addr[Probe(a, i)] = a
        /\ \A k \in 0 .. i - 1 : addr[Probe(a, k)] \notin {Empty, a}
    BY SMTT(60), <1>0, <1>3 DEF ReaderOK, ResolveLoad, Slots
  <2>2. known[a] # None /\ entry[Probe(a, i)] = known[a]
    BY <2>1, FirstMatch
  <2>3. /\ r'[t].pc = "idle" /\ r'[t].ret = "0" /\ r'[t].addr = a
        /\ r'[t].there = r[t].there /\ r'[t].out = entry[Probe(a, i)] /\ UNCHANGED known
    BY <1>0, <1>3 DEF ResolveLoad, Answer, Reader
  <2> QED
    BY <2>1, <2>2, <2>3 DEF ReaderOK
<1> QED
  BY <1>1, <1>2, <1>3 DEF ResolveStep

(* A step of the writer or of another reader: slots and registrations the  *)
(* reader relies on stay.                                                  *)
LEMMA OthersStep ==
  ASSUME IInv, Next, NEW t \in Readers, r'[t] = r[t]
  PROVE  ReaderOK(t)'
<1> USE TableAssumption
<1>0. ReaderOK(t) /\ r[t] \in Reader /\ r[t].i \in Nat
  BY SMTT(60) DEF IInv, ReaderInv, TypeOK, Reader
<1>1. ASSUME NEW k \in Nat, r[t].addr \in Addrs, addr[Probe(r[t].addr, k)] # Empty
      PROVE  addr'[Probe(r[t].addr, k)] = addr[Probe(r[t].addr, k)]
  BY <1>1, ProbeSlot, StepMonotone
<1>2. r[t].pc # "idle" =>
        \A k \in 0 .. r[t].i - 1 : addr'[Probe(r[t].addr, k)] \notin {Empty, r[t].addr}
  BY SMTT(60), <1>0, <1>1 DEF ReaderOK
<1>3. r[t].pc = "load" =>
        r[t].i < TableSize /\ addr'[Probe(r[t].addr, r[t].i)] = r[t].addr
  <2>1. r[t].addr \in Addrs => r[t].addr # Empty
    BY DEF Empty
  <2> QED
    BY <1>0, <1>1, <2>1 DEF ReaderOK
<1>4. r[t].addr \in Addrs /\ known[r[t].addr] # None => known'[r[t].addr] = known[r[t].addr]
  BY StepMonotone
<1> QED
  BY <1>0, <1>2, <1>3, <1>4 DEF ReaderOK

(* All readers stay right.                                                 *)
LEMMA StepReaders ==
  ASSUME IInv, Next
  PROVE  ReaderInv'
<1> SUFFICES ASSUME NEW t \in Readers
             PROVE  ReaderOK(t)'
  BY DEF ReaderInv
<1>1. CASE ResolveStep(t) \/ \E a \in Addrs : rtld_resolve(t, a)
  BY <1>1, OwnStep
<1>2. CASE ~(ResolveStep(t) \/ \E a \in Addrs : rtld_resolve(t, a))
  <2>1. r \in [Readers -> Reader]
    BY DEF IInv, TypeOK
  <2>2. r'[t] = r[t]
    <3>1. ASSUME NEW u \in Readers, u # t,
                 ResolveStep(u) \/ \E a \in Addrs : rtld_resolve(u, a)
          PROVE  r'[t] = r[t]
      BY <2>1, <3>1 DEF ResolveStep, rtld_resolve, ResolveProbe, ResolveLoad, Answer
    <3> QED
      BY <1>2, <3>1 DEF Next, SetStep, rtld_set, SetProbe, SetStores
  <2> QED
    BY <2>2, OthersStep
<1> QED
  BY <1>1, <1>2

(* The invariant is inductive.                                             *)
LEMMA StepIInv == IInv /\ [Next]_vars => IInv'
<1> SUFFICES ASSUME IInv, [Next]_vars
             PROVE  IInv'
  OBVIOUS
<1>1. CASE Next
  BY <1>1, StepType, StepChain, StepWriter, StepReaders, StepReports DEF IInv
<1>2. CASE UNCHANGED vars
  BY SMTT(60), <1>2
  DEF vars, IInv, TypeOK, ChainInv, AtProbe, WriterInv, ReaderInv, ReaderOK,
      FullOnlyWhenFull, ExistsOnlyWhenKnown
<1> QED
  BY <1>1, <1>2

(* The inductive invariant of rtld_set and rtld_resolve, for every table   *)
(* size and any number of concurrent readers.                              *)
THEOREM TableInvariant == Spec => []IInv
<1>1. Init => IInv
  BY InitIInv
<1>2. IInv /\ [Next]_vars => IInv'
  BY StepIInv
<1> QED
  BY <1>1, <1>2, PTL DEF Spec

(* "Concurrent readers only ever see valid data" (rtld_set): an address    *)
(* that rtld_resolve finds comes with the entry it was registered with.    *)
THEOREM ReadersAlwaysSeeValid == Spec => []ReadersSeeValid
<1>1. IInv => ReadersSeeValid
  BY DEF IInv, ReaderInv, ReaderOK, ReadersSeeValid
<1> QED
  BY <1>1, TableInvariant, PTL

(* rtld_resolve finds every address registered before it was called.       *)
THEOREM RegisteredIsAlwaysFound == Spec => []RegisteredIsFound
<1>1. IInv => RegisteredIsFound
  BY DEF IInv, ReaderInv, ReaderOK, RegisteredIsFound
<1> QED
  BY <1>1, TableInvariant, PTL

(* rtld_set returns -ENOSPC only on a full table.                          *)
THEOREM AlwaysFullWhenRefused == Spec => []FullOnlyWhenFull
<1>1. IInv => FullOnlyWhenFull
  BY DEF IInv
<1> QED
  BY <1>1, TableInvariant, PTL

(* Neither call of the table gives up too early.                           *)
THEOREM AlwaysGivesUpRightly == Spec => []GivesUpRightly
  BY RegisteredIsAlwaysFound, AlwaysFullWhenRefused, PTL DEF GivesUpRightly

(* An entry point once registered is never changed.                        *)
THEOREM EntriesAlwaysStay == Spec => EntriesStay
<1>1. IInv /\ [Next]_vars =>
        [\A a \in Addrs : known[a] # None => known'[a] = known[a]]_vars
  BY StepMonotone DEF vars
<1> QED
  BY <1>1, TableInvariant, PTL DEF Spec, EntriesStay
-----------------------------------------------------------------------------
(* Relocate.  The constants and the variables of that module.              *)
CONSTANTS Width, Word32, PageField, Places, Symbols, Addends, Old, Stubs, Names, Skew, PltFuncs
VARIABLES job, arg, done, ret, out

L == INSTANCE Relocate

(* A non-empty set of natural numbers has a least element.                 *)
LEMMA Least ==
  ASSUME NEW T, T \subseteq Nat, T # {}
  PROVE  \E x \in T : \A y \in T : x <= y
<1> DEFINE R == OpToRel(<, Nat)
<1>1. IsWellFoundedOn(R, Nat)
  BY NatLessThanWellFounded
<1>2. \A y, x \in Nat : y < x => <<y, x>> \in R
  BY SMTT(60) DEF OpToRel
<1> HIDE DEF R
<1>3. PICK x \in T : \A y \in T : ~(<<y, x>> \in R)
  BY <1>1, WFMin
<1>4. \A y \in T : x \in Nat /\ y \in Nat /\ ~(y < x)
  BY <1>2, <1>3
<1>5. \A y \in T : x <= y
  BY SMTT(60), <1>4
<1> QED BY <1>5

(* The powers of two of a machine word.                                    *)
Double(i) == 2^i \in Nat \ {0} /\ 2^(i + 1) = 2 * 2^i

LEMMA Exponents ==
  ASSUME NEW i \in 0 .. 31
  PROVE  Double(i)
<1>1. CASE 0 <= i /\ i <= 7
  <2>1. /\ Double(0) /\ Double(1) /\ Double(2) /\ Double(3)
        /\ Double(4) /\ Double(5) /\ Double(6) /\ Double(7)
    BY SMTT(60) DEF Double
  <2>2. i = 0 \/ i = 1 \/ i = 2 \/ i = 3 \/ i = 4 \/ i = 5 \/ i = 6 \/ i = 7
    BY SMTT(60), <1>1
  <2> QED BY <2>1, <2>2
<1>2. CASE 8 <= i /\ i <= 15
  <2>1. /\ Double(8) /\ Double(9) /\ Double(10) /\ Double(11)
        /\ Double(12) /\ Double(13) /\ Double(14) /\ Double(15)
    BY SMTT(60) DEF Double
  <2>2. i = 8 \/ i = 9 \/ i = 10 \/ i = 11 \/ i = 12 \/ i = 13 \/ i = 14 \/ i = 15
    BY SMTT(60), <1>2
  <2> QED BY <2>1, <2>2
<1>3. CASE 16 <= i /\ i <= 23
  <2>1. /\ Double(16) /\ Double(17) /\ Double(18) /\ Double(19)
        /\ Double(20) /\ Double(21) /\ Double(22) /\ Double(23)
    BY SMTT(60) DEF Double
  <2>2. i = 16 \/ i = 17 \/ i = 18 \/ i = 19 \/ i = 20 \/ i = 21 \/ i = 22 \/ i = 23
    BY SMTT(60), <1>3
  <2> QED BY <2>1, <2>2
<1>4. CASE 24 <= i /\ i <= 31
  <2>1. /\ Double(24) /\ Double(25) /\ Double(26) /\ Double(27)
        /\ Double(28) /\ Double(29) /\ Double(30) /\ Double(31)
    BY SMTT(60) DEF Double
  <2>2. i = 24 \/ i = 25 \/ i = 26 \/ i = 27 \/ i = 28 \/ i = 29 \/ i = 30 \/ i = 31
    BY SMTT(60), <1>4
  <2> QED BY <2>1, <2>2
<1> QED BY SMTT(60), <1>1, <1>2, <1>3, <1>4

Doubles(i) == L!Two(i) \in Nat \ {0} /\ L!Two(i + 1) = 2 * L!Two(i)

LEMMA Powers ==
  ASSUME NEW i \in 0 .. 63
  PROVE  Doubles(i)
<1>1. CASE i <= 31
  <2>1. i \in 0 .. 31 /\ i <= 32 /\ i + 1 <= 32
    BY SMTT(60), <1>1
  <2>2. Double(i)
    BY <2>1, Exponents
  <2> QED BY <2>1, <2>2 DEF Double, Doubles, L!Two
<1>2. CASE i > 31
  <2>1. PICK j \in 0 .. 31 : j = i - 32
    BY SMTT(60), <1>2
  <2>2. PICK c \in Nat \ {0} : c = 2^32
    BY SMTT(60)
  <2>3. PICK q : q = 2^j
    OBVIOUS
  <2>4. q \in Nat \ {0} /\ 2^(j + 1) = 2 * q
    BY <2>3, Exponents DEF Double
  <2>5. L!Two(i) = c * q
    <3>1. CASE i = 32
      <4>1. j = 0 /\ i <= 32
        BY SMTT(60), <2>1, <3>1
      <4>2. q = 1
        BY SMTT(60), <2>3, <4>1
      <4>3. c * 1 = c
        BY SMTT(60)
      <4> QED BY <2>2, <3>1, <4>1, <4>2, <4>3 DEF L!Two
    <3>2. CASE i # 32
      <4>1. ~(i <= 32)
        BY SMTT(60), <1>2, <3>2
      <4> QED BY <2>1, <2>2, <2>3, <4>1 DEF L!Two
    <3> QED BY <3>1, <3>2
  <2>6. L!Two(i + 1) = c * (2 * q)
    <3>1. ~(i + 1 <= 32) /\ (i + 1) - 32 = j + 1
      BY SMTT(60), <1>2, <2>1
    <3> QED BY <2>2, <2>4, <3>1 DEF L!Two
  <2>7. c * q \in Nat \ {0} /\ c * (2 * q) = 2 * (c * q)
    BY SMTT(60), <2>4
  <2> QED BY <2>5, <2>6, <2>7 DEF Doubles
<1> QED BY SMTT(60), <1>1, <1>2

Adds(a, j) == L!Two(a + j) = L!Two(a) * L!Two(j)

LEMMA PowersAdd ==
  ASSUME NEW a \in 0 .. 63, NEW n \in 0 .. 63, a + n <= 63
  PROVE  Adds(a, n)
<1> DEFINE T == {j \in 0 .. n : ~Adds(a, j)}
<1>1. SUFFICES ASSUME T # {} PROVE FALSE
  <2>1. n \in 0 .. n
    BY SMTT(60)
  <2> QED BY <2>1
<1>2. T \subseteq Nat
  <2>1. 0 .. n \subseteq Nat
    BY SMTT(60)
  <2> QED BY <2>1
<1>3. PICK k \in T : \A y \in T : k <= y
  BY <1>1, <1>2, Least
<1>4. k \in 0 .. n /\ ~Adds(a, k)
  BY <1>3
<1>5. CASE k = 0
  <2>1. PICK p : p = L!Two(a)
    OBVIOUS
  <2>2. p \in Nat
    BY <2>1, Powers DEF Doubles
  <2>3. L!Two(0) = 1 /\ a + 0 = a /\ p * 1 = p
    BY SMTT(60), <2>2 DEF L!Two
  <2> QED BY <1>4, <1>5, <2>1, <2>3 DEF Adds
<1>6. CASE k # 0
  <2>1. /\ k - 1 \in 0 .. n /\ k - 1 \in 0 .. 63 /\ a + (k - 1) \in 0 .. 63 /\ ~(k <= k - 1)
        /\ (k - 1) + 1 = k /\ (a + (k - 1)) + 1 = a + k
    BY SMTT(60), <1>4, <1>6
  <2>2. Adds(a, k - 1)
    BY <1>3, <2>1
  <2>3. PICK p \in Nat, q \in Nat : p = L!Two(a) /\ q = L!Two(k - 1)
    BY <2>1, Powers DEF Doubles
  <2>4. L!Two(k) = 2 * q /\ L!Two(a + k) = 2 * (p * q)
    <3>1. Doubles(k - 1) /\ Doubles(a + (k - 1))
      BY <2>1, Powers
    <3> QED BY <2>1, <2>2, <2>3, <3>1 DEF Doubles, Adds
  <2>5. 2 * (p * q) = p * (2 * q)
    BY SMTT(60)
  <2> QED BY <1>4, <2>3, <2>4, <2>5 DEF Adds
<1> QED BY <1>5, <1>6

(* Division with remainder.                                                *)
LEMMA Divided ==
  ASSUME NEW x \in Int, NEW m \in Nat \ {0}
  PROVE  /\ x \div m \in Int /\ x % m \in Int
         /\ x = m * (x \div m) + (x % m) /\ 0 <= x % m /\ x % m < m
BY SMTT(60)

LEMMA Remainder ==
  ASSUME NEW x \in Int, NEW m \in Nat \ {0}, NEW q \in Int, NEW t \in Int,
         x = m * q + t, 0 <= t, t < m
  PROVE  x % m = t /\ x \div m = q
BY SMTT(60)

(* One more bit.                                                           *)
LEMMA NextBit ==
  ASSUME NEW x \in Int, NEW p \in Nat \ {0}
  PROVE  x % (2 * p) = (x % p) + (IF (x \div p) % 2 = 1 THEN p ELSE 0)
<1>1. PICK q \in Int, t \in Int : q = x \div p /\ t = x % p
  BY Divided
<1>2. x = p * q + t /\ 0 <= t /\ t < p
  BY <1>1, Divided
<1>3. PICK h \in Int, b \in Int : h = q \div 2 /\ b = q % 2
  BY SMTT(60)
<1>4. q = 2 * h + b /\ (b = 0 \/ b = 1)
  BY SMTT(60), <1>3
<1>5. p * q = (2 * p) * h + p * b
  BY SMTT(60), <1>4
<1>6. 2 * p \in Nat \ {0} /\ p * b \in Int /\ p * q \in Int /\ (2 * p) * h \in Int
  BY SMTT(60)
<1>7. CASE b = 1
  <2>1. x = (2 * p) * h + (t + p)
    BY SMTT(60), <1>2, <1>5, <1>7
  <2>2. t + p \in Int /\ 0 <= t + p /\ t + p < 2 * p
    BY SMTT(60), <1>2
  <2>3. x % (2 * p) = t + p
    BY <1>6, <2>1, <2>2, Remainder
  <2> QED BY <1>1, <1>3, <1>7, <2>3
<1>8. CASE b = 0
  <2>1. x = (2 * p) * h + t
    BY SMTT(60), <1>2, <1>5, <1>8
  <2>2. t < 2 * p
    BY SMTT(60), <1>2
  <2>3. x % (2 * p) = t
    BY <1>2, <1>6, <2>1, <2>2, Remainder
  <2>4. x % (2 * p) = t + 0 /\ 0 # 1
    BY SMTT(60), <2>3
  <2> QED BY <1>1, <1>3, <1>8, <2>4
<1> QED BY <1>4, <1>7, <1>8

(* Numbers below a power of two have no higher bits.                       *)
LEMMA Beyond ==
  ASSUME NEW x \in Nat, NEW top \in 0 .. 63, x < L!Two(top), NEW b \in 0 .. 63, top <= b
  PROVE  x \div L!Two(b) = 0
<1>1. PICK n \in 0 .. 63 : top + n = b
  <2>1. b - top \in 0 .. 63 /\ top + (b - top) = b
    BY SMTT(60)
  <2> QED BY <2>1
<1>2. PICK m \in Nat \ {0}, q \in Nat \ {0} : m = L!Two(top) /\ q = L!Two(n)
  BY Powers DEF Doubles
<1>3. b <= 63
  BY SMTT(60)
<1>4. L!Two(b) = m * q
  BY <1>1, <1>2, <1>3, PowersAdd DEF Adds
<1>5. m * q \in Nat \ {0} /\ m <= m * q
  <2>1. PICK h \in Nat : q = h + 1
    BY SMTT(60)
  <2>2. m * q = m * h + m /\ m * h \in Nat
    BY SMTT(60), <2>1
  <2> QED BY SMTT(60), <2>2
<1>6. x \in Int /\ 0 \in Int /\ x = (m * q) * 0 + x /\ 0 <= x /\ x < m * q
  BY SMTT(60), <1>2, <1>5
<1>7. x \div (m * q) = 0
  BY <1>5, <1>6, Remainder
<1> QED BY <1>4, <1>7

(* What a field of a word holds: the word's bits from lo on are the low    *)
(* bits of x.                                                              *)
Holds(f, x, lo, n) ==
  \A i \in 0 .. (n - 1) : (lo + i \in f) <=> ((x \div L!Two(i)) % 2 = 1)

Sum(f, lo, n, g) ==
  g = [i \in 0 .. n |->
        IF i = 0 THEN 0 ELSE g[i - 1] + (IF lo + (i - 1) \in f THEN L!Two(i - 1) ELSE 0)]

Grows(f, x, lo, i) ==
  x % L!Two(i) = (x % L!Two(i - 1)) + (IF lo + (i - 1) \in f THEN L!Two(i - 1) ELSE 0)

LEMMA OneMoreBit ==
  ASSUME NEW f, NEW x \in Int, NEW lo, NEW n \in 0 .. 64, Holds(f, x, lo, n), NEW i \in 1 .. n
  PROVE  Grows(f, x, lo, i)
<1>1. i - 1 \in 0 .. 63 /\ i - 1 \in 0 .. (n - 1) /\ (i - 1) + 1 = i
  BY SMTT(60)
<1>2. PICK p : p = L!Two(i - 1)
  OBVIOUS
<1>3. p \in Nat \ {0} /\ L!Two(i) = 2 * p
  BY <1>1, <1>2, Powers DEF Doubles
<1>4. x % (2 * p) = (x % p) + (IF (x \div p) % 2 = 1 THEN p ELSE 0)
  BY <1>3, NextBit
<1>5. (lo + (i - 1) \in f) <=> ((x \div p) % 2 = 1)
  BY <1>1, <1>2 DEF Holds
<1> QED BY <1>2, <1>3, <1>4, <1>5 DEF Grows

LEMMA UnsignedIs ==
  ASSUME NEW f, NEW x \in Int, NEW lo, NEW n \in 0 .. 64, Holds(f, x, lo, n)
  PROVE  L!Unsigned(f, lo, n) = x % L!Two(n)
<1> DEFINE B(i) == IF lo + (i - 1) \in f THEN L!Two(i - 1) ELSE 0
           rest == [i \in 0 .. n |-> x % L!Two(i)]
<1>0. x % L!Two(0) = 0 /\ n \in 0 .. n /\ n \in Nat
  <2>1. L!Two(0) = 1
    BY SMTT(60) DEF L!Two
  <2>2. x % 1 = 0 /\ n \in 0 .. n /\ n \in Nat
    BY SMTT(60)
  <2> QED BY <2>1, <2>2
<1>1. \A i \in 0 .. n : i # 0 => i \in 1 .. n /\ i - 1 \in 0 .. n
  BY SMTT(60)
<1>2. \A i \in 1 .. n : x % L!Two(i) = (x % L!Two(i - 1)) + B(i)
  <2>1. \A i \in 1 .. n : Grows(f, x, lo, i)
    BY OneMoreBit
  <2> QED BY <2>1 DEF Grows
<1> HIDE DEF B
<1>3. Sum(f, lo, n, rest)
  <2>1. \A i \in 0 .. n : rest[i] = x % L!Two(i)
    OBVIOUS
  <2> HIDE DEF rest
  <2>2. \A i \in 0 .. n : x % L!Two(i) = IF i = 0 THEN 0 ELSE rest[i - 1] + B(i)
    BY <1>0, <1>1, <1>2, <2>1
  <2> QED BY <2>2 DEF rest, Sum, B
<1>4. PICK g : Sum(f, lo, n, g) /\ L!Unsigned(f, lo, n) = g[n]
  <2>1. L!Unsigned(f, lo, n) = (CHOOSE g : Sum(f, lo, n, g))[n]
    BY DEF L!Unsigned, Sum
  <2> QED BY <1>3, <2>1
<1>5. \A i \in 0 .. n : g[i] = IF i = 0 THEN 0 ELSE g[i - 1] + B(i)
  BY <1>4 DEF Sum, B
<1> DEFINE T == {i \in 0 .. n : g[i] # x % L!Two(i)}
<1>6. SUFFICES ASSUME T # {} PROVE FALSE
  BY <1>0, <1>4
<1>7. T \subseteq Nat
  <2>1. 0 .. n \subseteq Nat
    BY SMTT(60)
  <2> QED BY <2>1
<1>8. PICK k \in T : \A y \in T : k <= y
  BY <1>6, <1>7, Least
<1>9. k \in 0 .. n /\ g[k] # x % L!Two(k)
  BY <1>8
<1>10. k # 0
  BY <1>0, <1>5, <1>9
<1>11. k \in 1 .. n /\ k - 1 \in 0 .. n /\ ~(k <= k - 1)
  BY SMTT(60), <1>9, <1>10
<1>12. g[k - 1] = x % L!Two(k - 1)
  BY <1>8, <1>11
<1> QED BY <1>2, <1>5, <1>9, <1>10, <1>11, <1>12

Reads(f, x, lo, n) == x \in Int /\ n \in 0 .. 64 /\ Holds(f, x, lo, n)
Gives(f, x, lo, n) == L!Unsigned(f, lo, n) = x % L!Two(n)

LEMMA UnsignedReads ==
  ASSUME NEW f, NEW x, NEW lo, NEW n, Reads(f, x, lo, n)
  PROVE  Gives(f, x, lo, n)
  BY UnsignedIs DEF Reads, Gives

(* The sign.                                                               *)
LEMMA SignBit ==
  ASSUME NEW x \in Int, NEW p \in Nat \ {0}, -p <= x, x < p
  PROVE  x = IF (x \div p) % 2 = 1 THEN (x % p) - p ELSE x % p
<1>1. CASE 0 <= x
  <2>1. x = p * 0 + x /\ 0 \in Int
    BY SMTT(60)
  <2>2. x % p = x /\ x \div p = 0
    BY <1>1, <2>1, Remainder
  <2>3. 0 % 2 # 1
    BY SMTT(60)
  <2> QED BY <2>2, <2>3
<1>2. CASE ~(0 <= x)
  <2>1. x = p * (-1) + (x + p) /\ x + p \in Int /\ 0 <= x + p /\ x + p < p /\ -1 \in Int
    BY SMTT(60), <1>2
  <2>2. x % p = x + p /\ x \div p = -1
    BY <2>1, Remainder
  <2>3. PICK m, t, e : m = 2 /\ t = 1 /\ e = -1
    OBVIOUS
  <2>4. (-1) % 2 = 1 /\ (x + p) - p = x
    <3>1. e \in Int /\ e = m * e + t /\ m \in Nat \ {0} /\ t \in Int /\ 0 <= t /\ t < m
      BY SMTT(60), <2>3
    <3>2. e % m = t
      BY <3>1, Remainder
    <3>3. (x + p) - p = x
      BY SMTT(60)
    <3> QED BY <2>3, <3>2, <3>3
  <2> QED BY <2>2, <2>4
<1> QED BY <1>1, <1>2

Fits(x, n) == -(L!Two(n - 1)) <= x /\ x < L!Two(n - 1)

LEMMA SignedIs ==
  ASSUME NEW f, NEW x \in Int, NEW lo \in Nat, NEW n \in 1 .. 64, Holds(f, x, lo, n), Fits(x, n)
  PROVE  L!Signed(f, lo, n) = x
<1>1. n - 1 \in 0 .. 63 /\ n - 1 \in 0 .. 64 /\ n - 1 \in 0 .. (n - 1) /\ lo + n - 1 = lo + (n - 1)
  BY SMTT(60)
<1>2. \A i \in 0 .. ((n - 1) - 1) : i \in 0 .. (n - 1)
  BY SMTT(60)
<1>3. Holds(f, x, lo, n - 1)
  BY <1>2 DEF Holds
<1>4. L!Unsigned(f, lo, n - 1) = x % L!Two(n - 1)
  BY <1>1, <1>3, UnsignedIs
<1>5. PICK p : p = L!Two(n - 1)
  OBVIOUS
<1>6. p \in Nat \ {0}
  BY <1>1, <1>5, Powers DEF Doubles
<1>7. x = IF (x \div p) % 2 = 1 THEN (x % p) - p ELSE x % p
  <2>1. -p <= x /\ x < p
    BY <1>5 DEF Fits
  <2> QED BY <1>6, <2>1, SignBit
<1>8. (lo + n - 1 \in f) <=> ((x \div p) % 2 = 1)
  BY <1>1, <1>5 DEF Holds
<1> QED BY <1>4, <1>5, <1>7, <1>8 DEF L!Signed

(* A field that was blended in holds what was blended in.                  *)
LEMMA Direct ==
  ASSUME NEW old, NEW x \in Int, NEW m \in 0 .. 64, NEW n \in 0 .. 64, n <= m, Width \in Nat, n <= Width
  PROVE  Holds(L!rtld_blend(old, L!Field(0, m), L!BitsOf(x)), x, 0, n)
<1> SUFFICES ASSUME NEW i \in 0 .. (n - 1)
             PROVE  (0 + i \in L!rtld_blend(old, L!Field(0, m), L!BitsOf(x))) <=> ((x \div L!Two(i)) % 2 = 1)
  BY DEF Holds
<1>1. 0 + i = i /\ i \in L!Field(0, m) /\ i \in L!Bits /\ i < Width
  BY SMTT(60) DEF L!Field, L!Bits
<1> QED BY <1>1 DEF L!rtld_blend, L!BitsOf

LEMMA Shifts ==
  ASSUME NEW x \in Int, NEW lo \in 0 .. 63, NEW n \in 0 .. 64, lo + n <= 64, Width \in Nat, n <= Width
  PROVE  Holds(L!Shifted(x, lo), x, lo, n)
<1> SUFFICES ASSUME NEW i \in 0 .. (n - 1)
             PROVE  (lo + i \in L!Shifted(x, lo)) <=> ((x \div L!Two(i)) % 2 = 1)
  BY DEF Holds
<1>1. lo + i \in L!Bits /\ i + lo = lo + i /\ i \in L!Bits /\ i < Width
  BY SMTT(60) DEF L!Bits
<1>2. \A j \in L!Bits : j + lo = lo + i => j = i
  BY SMTT(60) DEF L!Bits
<1>3. (i \in L!BitsOf(x)) <=> ((x \div L!Two(i)) % 2 = 1)
  BY <1>1 DEF L!BitsOf
<1>4. \A j \in L!BitsOf(x) : j \in L!Bits
  BY DEF L!BitsOf
<1>5. (lo + i \in L!Shifted(x, lo)) <=> (i \in L!BitsOf(x))
  BY <1>1, <1>2, <1>4 DEF L!Shifted
<1> QED BY <1>3, <1>5

LEMMA Blends ==
  ASSUME NEW old, NEW mask, NEW data, NEW x, NEW lo \in Nat, NEW n \in Nat,
         L!Field(lo, n) \subseteq mask, Holds(data, x, lo, n)
  PROVE  Holds(L!rtld_blend(old, mask, data), x, lo, n)
<1>1. \A i \in 0 .. (n - 1) : lo + i \in L!Field(lo, n)
  BY SMTT(60) DEF L!Field
<1>2. \A i \in 0 .. (n - 1) : (lo + i \in L!rtld_blend(old, mask, data)) <=> (lo + i \in data)
  BY <1>1 DEF L!rtld_blend
<1> QED BY <1>2 DEF Holds

LEMMA Moved ==
  ASSUME NEW old, NEW mask, NEW x \in Int, NEW lo \in 0 .. 63, NEW n \in 0 .. 64, lo + n <= 64,
         Width \in Nat, n <= Width, L!Field(lo, n) \subseteq mask
  PROVE  Holds(L!rtld_blend(old, mask, L!Shifted(x, lo)), x, lo, n)
<1>1. Holds(L!Shifted(x, lo), x, lo, n)
  BY Shifts
<1>2. lo \in Nat /\ n \in Nat
  BY SMTT(60)
<1> QED BY <1>1, <1>2, Blends

(* A relocation that succeeds, and one that is refused.                    *)
LEMMA Patched ==
  ASSUME NEW type, NEW old, NEW syma, NEW pc, NEW mask, NEW data,
         mask \subseteq L!Operand(type), L!InReach(type, syma, pc),
         L!Refers(type, L!Ok(L!rtld_blend(old, mask, data)), syma, pc)
  PROVE  L!WordRight(type, old, syma, pc, L!Ok(L!rtld_blend(old, mask, data)))
<1> DEFINE f == L!rtld_blend(old, mask, data)
<1>1. L!Ok(f).ret = "ok" /\ L!Ok(f).word = f
  BY SMTT(60) DEF L!Ok
<1>2. f \ L!Operand(type) = old \ L!Operand(type)
  BY DEF L!rtld_blend
<1> QED BY <1>1, <1>2 DEF L!WordRight

LEMMA Refused ==
  ASSUME NEW type, NEW old, NEW syma, NEW pc, NEW code, code # "ok", ~L!InReach(type, syma, pc)
  PROVE  L!WordRight(type, old, syma, pc, L!Error(code))
<1>1. L!Error(code).ret = code
  BY SMTT(60) DEF L!Error
<1> QED BY <1>1 DEF L!WordRight

(* Data words.                                                             *)
LEMMA Sets ==
  /\ DOMAIN L!LdSt = {"LDST8", "LDST16", "LDST32", "LDST64", "LDST128"}
  /\ DOMAIN L!MovW = {"G0", "G1", "G2", "G3"}
BY SMTT(60) DEF L!LdSt, L!MovW

LEMMA Reaches ==
  ASSUME NEW type, NEW syma, NEW pc
  PROVE  /\ type \in {"PC64", "PREL64", "64"} => L!InReach(type, syma, pc)
         /\ type \in {"ADD"} \cup DOMAIN L!LdSt => L!InReach(type, syma, pc)
         /\ type \in DOMAIN L!MovW => L!InReach(type, syma, pc)
         /\ ~L!InReach("other", syma, pc)
BY SMTT(60), Sets DEF L!InReach

LEMMA Operands ==
  ASSUME NEW type
  PROVE  /\ type \in {"PC64", "PREL64", "64"} => L!Operand(type) = L!Bits
         /\ type \in {"PC32", "PLT32", "PREL32", "32S", "32"} => L!Operand(type) = 0 .. (Word32 - 1)
         /\ type \in {"JUMP26", "CALL26"} => L!Operand(type) = 0 .. 25
         /\ type = "PG_HI21" => L!Operand(type) = (5 .. (PageField + 2)) \cup {29, 30}
         /\ type \in {"ADD"} \cup DOMAIN L!LdSt => L!Operand(type) = 10 .. 21
         /\ type \in DOMAIN L!MovW => L!Operand(type) = 5 .. 20
<1>1. type \in {"PC64", "PREL64", "64"} => L!Operand(type) = L!Bits
  BY SMTT(60), Sets DEF L!Operand
<1>2. type \in {"PC32", "PLT32", "PREL32", "32S", "32"} => L!Operand(type) = 0 .. (Word32 - 1)
  BY SMTT(60), Sets DEF L!Operand
<1>3. type \in {"JUMP26", "CALL26"} => L!Operand(type) = 0 .. 25
  BY SMTT(60), Sets DEF L!Operand
<1>4. type = "PG_HI21" => L!Operand(type) = (5 .. (PageField + 2)) \cup {29, 30}
  BY SMTT(60), Sets DEF L!Operand
<1>5. type \in {"ADD"} \cup DOMAIN L!LdSt => L!Operand(type) = 10 .. 21
  BY SMTT(60), Sets DEF L!Operand
<1>6. type \in DOMAIN L!MovW => L!Operand(type) = 5 .. 20
  BY SMTT(60), Sets DEF L!Operand
<1> QED BY <1>1, <1>2, <1>3, <1>4, <1>5, <1>6

(* The classes of relocations exclude each other.                          *)
LEMMA RefersPrel64 ==
  ASSUME NEW type, type \in {"PC64", "PREL64"}, NEW q, NEW syma, NEW pc,
         L!Signed(q.word, 0, Width) + pc = syma
  PROVE  L!Refers(type, q, syma, pc)
<1>1. /\ ~(type = "64") /\ ~(type \in {"PC32", "PLT32", "PREL32"}) /\ ~(type = "32S") /\ ~(type = "32")
      /\ ~(type \in {"JUMP26", "CALL26"}) /\ ~(type = "PG_HI21") /\ ~(type = "ADD")
      /\ ~(type \in DOMAIN L!LdSt) /\ ~(type \in DOMAIN L!MovW)
  BY SMTT(60), Sets
<1> QED BY <1>1, PTL DEF L!Refers

LEMMA RefersAbs64 ==
  ASSUME NEW type, type = "64", NEW q, NEW syma, NEW pc,
         L!Signed(q.word, 0, Width) = syma
  PROVE  L!Refers(type, q, syma, pc)
<1>1. /\ ~(type \in {"PC64", "PREL64"}) /\ ~(type \in {"PC32", "PLT32", "PREL32"}) /\ ~(type = "32S") /\ ~(type = "32")
      /\ ~(type \in {"JUMP26", "CALL26"}) /\ ~(type = "PG_HI21") /\ ~(type = "ADD")
      /\ ~(type \in DOMAIN L!LdSt) /\ ~(type \in DOMAIN L!MovW)
  BY SMTT(60), Sets
<1> QED BY <1>1, PTL DEF L!Refers

LEMMA RefersPrel32 ==
  ASSUME NEW type, type \in {"PC32", "PLT32", "PREL32"}, NEW q, NEW syma, NEW pc,
         L!Signed(q.word, 0, Word32) + pc = syma
  PROVE  L!Refers(type, q, syma, pc)
<1>1. /\ ~(type \in {"PC64", "PREL64"}) /\ ~(type = "64") /\ ~(type = "32S") /\ ~(type = "32")
      /\ ~(type \in {"JUMP26", "CALL26"}) /\ ~(type = "PG_HI21") /\ ~(type = "ADD")
      /\ ~(type \in DOMAIN L!LdSt) /\ ~(type \in DOMAIN L!MovW)
  BY SMTT(60), Sets
<1> QED BY <1>1, PTL DEF L!Refers

LEMMA RefersAbs32S ==
  ASSUME NEW type, type = "32S", NEW q, NEW syma, NEW pc,
         L!Signed(q.word, 0, Word32) = syma
  PROVE  L!Refers(type, q, syma, pc)
<1>1. /\ ~(type \in {"PC64", "PREL64"}) /\ ~(type = "64") /\ ~(type \in {"PC32", "PLT32", "PREL32"}) /\ ~(type = "32")
      /\ ~(type \in {"JUMP26", "CALL26"}) /\ ~(type = "PG_HI21") /\ ~(type = "ADD")
      /\ ~(type \in DOMAIN L!LdSt) /\ ~(type \in DOMAIN L!MovW)
  BY SMTT(60), Sets
<1> QED BY <1>1, PTL DEF L!Refers

LEMMA RefersAbs32 ==
  ASSUME NEW type, type = "32", NEW q, NEW syma, NEW pc,
         L!Unsigned(q.word, 0, Word32) = syma
  PROVE  L!Refers(type, q, syma, pc)
<1>1. /\ ~(type \in {"PC64", "PREL64"}) /\ ~(type = "64") /\ ~(type \in {"PC32", "PLT32", "PREL32"}) /\ ~(type = "32S")
      /\ ~(type \in {"JUMP26", "CALL26"}) /\ ~(type = "PG_HI21") /\ ~(type = "ADD")
      /\ ~(type \in DOMAIN L!LdSt) /\ ~(type \in DOMAIN L!MovW)
  BY SMTT(60), Sets
<1> QED BY <1>1, PTL DEF L!Refers

LEMMA RefersBranch ==
  ASSUME NEW type, type \in {"JUMP26", "CALL26"}, NEW q, NEW syma, NEW pc,
         L!BranchTarget(q, pc) = syma
  PROVE  L!Refers(type, q, syma, pc)
<1>1. /\ ~(type \in {"PC64", "PREL64"}) /\ ~(type = "64") /\ ~(type \in {"PC32", "PLT32", "PREL32"}) /\ ~(type = "32S")
      /\ ~(type = "32") /\ ~(type = "PG_HI21") /\ ~(type = "ADD")
      /\ ~(type \in DOMAIN L!LdSt) /\ ~(type \in DOMAIN L!MovW)
  BY SMTT(60), Sets
<1> QED BY <1>1, PTL DEF L!Refers

LEMMA RefersPage ==
  ASSUME NEW type, type = "PG_HI21", NEW q, NEW syma, NEW pc,
         (pc - (pc % L!PageSize)) + L!PageSize * (4 * L!Signed(q.word, 5, PageField - 2) + L!Unsigned(q.word, 29, 2))
           = syma - (syma % L!PageSize)
  PROVE  L!Refers(type, q, syma, pc)
<1>1. /\ ~(type \in {"PC64", "PREL64"}) /\ ~(type = "64") /\ ~(type \in {"PC32", "PLT32", "PREL32"}) /\ ~(type = "32S")
      /\ ~(type = "32") /\ ~(type \in {"JUMP26", "CALL26"}) /\ ~(type = "ADD")
      /\ ~(type \in DOMAIN L!LdSt) /\ ~(type \in DOMAIN L!MovW)
  BY SMTT(60), Sets
<1> QED BY <1>1, PTL DEF L!Refers

LEMMA RefersAdd ==
  ASSUME NEW type, type = "ADD", NEW q, NEW syma, NEW pc,
         L!Unsigned(q.word, 10, 12) = syma % L!PageSize
  PROVE  L!Refers(type, q, syma, pc)
<1>1. /\ ~(type \in {"PC64", "PREL64"}) /\ ~(type = "64") /\ ~(type \in {"PC32", "PLT32", "PREL32"}) /\ ~(type = "32S")
      /\ ~(type = "32") /\ ~(type \in {"JUMP26", "CALL26"}) /\ ~(type = "PG_HI21")
      /\ ~(type \in DOMAIN L!LdSt) /\ ~(type \in DOMAIN L!MovW)
  BY SMTT(60), Sets
<1> QED BY <1>1, PTL DEF L!Refers

LEMMA RefersLdSt ==
  ASSUME NEW type, type \in DOMAIN L!LdSt, NEW q, NEW syma, NEW pc,
         2^L!LdSt[type] * L!Unsigned(q.word, 10, 12 - L!LdSt[type]) = syma % L!PageSize
  PROVE  L!Refers(type, q, syma, pc)
<1>1. /\ ~(type \in {"PC64", "PREL64"}) /\ ~(type = "64") /\ ~(type \in {"PC32", "PLT32", "PREL32"}) /\ ~(type = "32S")
      /\ ~(type = "32") /\ ~(type \in {"JUMP26", "CALL26"}) /\ ~(type = "PG_HI21")
      /\ ~(type = "ADD") /\ ~(type \in DOMAIN L!MovW)
  BY SMTT(60), Sets
<1> QED BY <1>1, PTL DEF L!Refers

LEMMA RefersMovW ==
  ASSUME NEW type, type \in DOMAIN L!MovW, NEW q, NEW syma, NEW pc,
         L!Unsigned(q.word, 5, 16)
           = IF 16 * L!MovW[type] < Width THEN (syma \div L!Two(16 * L!MovW[type])) % 2^16 ELSE 0
  PROVE  L!Refers(type, q, syma, pc)
<1>1. /\ ~(type \in {"PC64", "PREL64"}) /\ ~(type = "64") /\ ~(type \in {"PC32", "PLT32", "PREL32"}) /\ ~(type = "32S")
      /\ ~(type = "32") /\ ~(type \in {"JUMP26", "CALL26"}) /\ ~(type = "PG_HI21")
      /\ ~(type = "ADD") /\ ~(type \in DOMAIN L!LdSt)
  BY SMTT(60), Sets
<1> QED BY <1>1, PTL DEF L!Refers

LEMMA Reloc64 ==
  ASSUME NEW type \in {"PC64", "PREL64", "64"}, NEW old, NEW syma \in Nat, NEW pc \in Nat, Width \in 31 .. 64,
         syma < L!Two(Width - 1), pc < L!Two(Width - 1), NEW x, x = IF type = "64" THEN syma ELSE syma - pc
  PROVE  L!WordRight(type, old, syma, pc, L!Word(old, x))
<1>0. Width - 1 \in 0 .. 63
  BY SMTT(60)
<1>00. PICK p \in Nat \ {0} : p = L!Two(Width - 1)
  BY <1>0, Powers DEF Doubles
<1>1. x \in Int /\ -p <= x /\ x < p /\ (syma - pc) + pc = syma
  BY SMTT(60), <1>00
<1>2. PICK f : f = L!rtld_blend(old, L!Field(0, 64), L!BitsOf(x))
  OBVIOUS
<1>3. 64 \in 0 .. 64 /\ Width \in 0 .. 64 /\ Width \in 1 .. 64 /\ Width <= 64 /\ 0 \in Nat /\ Width \in Nat /\ Width <= Width
  BY SMTT(60)
<1>4. Holds(f, x, 0, Width)
  BY <1>1, <1>2, <1>3, Direct
<1>5. L!Signed(f, 0, Width) = x
  <2>1. Fits(x, Width)
    BY <1>00, <1>1 DEF Fits
  <2> QED BY <1>1, <1>3, <1>4, <2>1, SignedIs
<1>6. L!Ok(f).word = f
  BY SMTT(60) DEF L!Ok
<1>7. L!Refers(type, L!Ok(f), syma, pc)
  BY <1>1, <1>5, <1>6, RefersPrel64, RefersAbs64
<1>8. L!Field(0, 64) \subseteq L!Operand(type) /\ L!InReach(type, syma, pc)
  <2>1. L!Field(0, 64) = L!Bits
    BY SMTT(60) DEF L!Field, L!Bits
  <2> QED BY <2>1, Operands, Reaches
<1>9. PICK m, d : m = L!Field(0, 64) /\ d = L!BitsOf(x)
  OBVIOUS
<1>10. m \subseteq L!Operand(type) /\ L!InReach(type, syma, pc)
  BY <1>8, <1>9
<1>11. f = L!rtld_blend(old, m, d)
  BY <1>2, <1>9
<1>12. L!WordRight(type, old, syma, pc, L!Ok(f))
  BY <1>7, <1>10, <1>11, Patched
<1> QED BY <1>2, <1>12 DEF L!Word

(* The 32-bit fields: what fits is exactly what the range checks let pass. *)
LEMMA Reloc32 ==
  ASSUME NEW type \in {"PC32", "PLT32", "PREL32", "32S", "32"}, NEW old, NEW syma \in Nat, NEW pc \in Nat,
         Width \in 31 .. 64, Word32 \in 2 .. Width, NEW x, x = IF type \in {"32S", "32"} THEN syma ELSE syma - pc,
         NEW fits, fits = IF type = "32" THEN L!rtld_elf_unsigned_range(x, Word32)
                          ELSE L!rtld_elf_signed_range(x, Word32)
  PROVE  L!WordRight(type, old, syma, pc, L!Half(old, x, fits))
<1>1. x \in Int /\ (syma - pc) + pc = syma /\ syma \in Int
  BY SMTT(60)
<1>2. PICK f : f = L!rtld_blend(old, L!Field(0, Word32), L!BitsOf(x))
  OBVIOUS
<1>3. /\ Word32 \in 0 .. 64 /\ Word32 <= Width /\ Width \in Nat /\ Word32 \in 1 .. 64 /\ Word32 <= Word32 /\ 0 \in Nat
      /\ Word32 - 1 \in 0 .. 63 /\ (Word32 - 1) + 1 = Word32
  BY SMTT(60)
<1>4. Holds(f, x, 0, Word32)
  BY <1>1, <1>2, <1>3, Direct
<1>5. PICK p \in Nat \ {0} : p = L!Two(Word32 - 1) /\ L!Two(Word32) = 2 * p
  BY <1>3, Powers DEF Doubles
<1>6. L!InReach(type, syma, pc) <=> fits
  <2>1. type \in {"PC32", "PLT32", "PREL32"} =>
          (L!InReach(type, syma, pc) <=> syma - pc \in -p .. (p - 2))
    BY SMTT(60), <1>5 DEF L!InReach
  <2>2. type = "32S" => (L!InReach(type, syma, pc) <=> syma <= p - 2)
    BY SMTT(60), <1>5 DEF L!InReach
  <2>3. type = "32" => (L!InReach(type, syma, pc) <=> syma <= 2 * p - 2)
    BY SMTT(60), <1>5 DEF L!InReach
  <2>4. L!rtld_elf_signed_range(x, Word32) <=> x >= -p /\ x < p - 1
    BY <1>5 DEF L!rtld_elf_signed_range
  <2>5. L!rtld_elf_unsigned_range(x, Word32) <=> x >= 0 /\ x < 2 * p - 1
    BY <1>5 DEF L!rtld_elf_unsigned_range
  <2>6. CASE type \in {"PC32", "PLT32", "PREL32"}
    BY SMTT(60), <1>1, <2>1, <2>4, <2>6
  <2>7. CASE type = "32S"
    BY SMTT(60), <1>1, <2>2, <2>4, <2>7
  <2>8. CASE type = "32"
    BY SMTT(60), <1>1, <2>3, <2>5, <2>8
  <2> QED BY <2>6, <2>7, <2>8
<1>7. ASSUME fits
      PROVE  L!Refers(type, L!Ok(f), syma, pc)
  <2>1. L!Ok(f).word = f
    BY SMTT(60) DEF L!Ok
  <2>2. CASE type # "32"
    <3>1. L!rtld_elf_signed_range(x, Word32)
      BY <1>7, <2>2
    <3>2. x >= -p /\ x < p - 1
      BY <1>5, <3>1 DEF L!rtld_elf_signed_range
    <3>3. -p <= x /\ x < p
      BY SMTT(60), <1>1, <3>2
    <3>4. L!Signed(f, 0, Word32) = x
      <4>1. Fits(x, Word32)
        BY <1>5, <3>3 DEF Fits
      <4>2. x \in Int /\ 0 \in Nat /\ Word32 \in 1 .. 64
        BY <1>1, <1>3
      <4> QED BY <1>4, <4>1, <4>2, SignedIs
    <3>5. CASE type = "32S"
      <4>1. L!Signed(L!Ok(f).word, 0, Word32) = syma
        BY <2>1, <3>4, <3>5
      <4> QED BY <3>5, <4>1, RefersAbs32S
    <3>6. CASE type \in {"PC32", "PLT32", "PREL32"}
      <4>1. type \notin {"32S", "32"}
        BY <3>6
      <4>2. L!Signed(L!Ok(f).word, 0, Word32) + pc = syma
        BY <1>1, <2>1, <3>4, <4>1
      <4> QED BY <3>6, <4>2, RefersPrel32
    <3> QED BY <2>2, <3>5, <3>6
  <2>3. CASE type = "32"
    <3>1. L!rtld_elf_unsigned_range(x, Word32)
      BY <1>7, <2>3
    <3>2. x >= 0 /\ x < 2 * p - 1
      BY <1>5, <3>1 DEF L!rtld_elf_unsigned_range
    <3>3. x = (2 * p) * 0 + x /\ 0 <= x /\ x < 2 * p /\ 2 * p \in Nat \ {0} /\ 0 \in Int
      BY SMTT(60), <1>1, <3>2
    <3>4. x % (2 * p) = x
      BY <1>1, <3>3, Remainder
    <3>5. L!Unsigned(f, 0, Word32) = x % L!Two(Word32)
      <4>1. Reads(f, x, 0, Word32)
        BY <1>1, <1>3, <1>4 DEF Reads
      <4>2. Gives(f, x, 0, Word32)
        BY <4>1, UnsignedReads
      <4> QED BY <4>2 DEF Gives
    <3>6. x = syma
      BY <2>3
    <3>7. L!Unsigned(L!Ok(f).word, 0, Word32) = syma
      BY <1>5, <2>1, <3>4, <3>5, <3>6
    <3> QED BY <2>3, <3>7, RefersAbs32
  <2> QED BY <2>2, <2>3
<1>8. L!Field(0, Word32) \subseteq L!Operand(type)
  <2>1. L!Field(0, Word32) = 0 .. (Word32 - 1)
    BY SMTT(60) DEF L!Field
  <2> QED BY <2>1, Operands
<1>9. CASE fits
  BY <1>2, <1>6, <1>7, <1>8, <1>9, Patched DEF L!Half
<1>10. CASE ~fits
  BY <1>6, <1>10, Refused DEF L!Half
<1> QED BY <1>9, <1>10

(* Branches, directly or through a stub.                                   *)
LEMMA BranchReads ==
  ASSUME Width \in 31 .. 64, NEW old, NEW d \in Int, L!rtld_elf_signed_range(d, 28), d % 4 = 0
  PROVE  4 * L!Signed(L!rtld_blend(old, L!Field(0, 26), L!BitsOf(d \div 4)), 0, 26) = d
<1>1. d >= -(2^27) /\ d < 2^27 - 1
  <2>1. L!Two(28 - 1) = 2^27
    BY SMTT(60) DEF L!Two
  <2> QED BY <2>1 DEF L!rtld_elf_signed_range
<1>2. PICK x \in Int : x = d \div 4
  BY SMTT(60)
<1>3. 4 * x = d
  BY SMTT(60), <1>2
<1>4. PICK c : c = 2^25 /\ c = L!Two(25)
  BY SMTT(60) DEF L!Two
<1>5. -c <= x /\ x < c
  BY SMTT(60), <1>1, <1>3, <1>4
<1>6. 26 \in 0 .. 64 /\ 26 <= Width /\ Width \in Nat /\ 26 \in 1 .. 64 /\ 26 <= 26 /\ 0 \in Nat /\ 26 - 1 = 25
  BY SMTT(60)
<1>7. PICK f : f = L!rtld_blend(old, L!Field(0, 26), L!BitsOf(x))
  OBVIOUS
<1>8. Holds(f, x, 0, 26)
  BY <1>6, <1>7, Direct
<1>9. Fits(x, 26)
  BY <1>4, <1>5, <1>6 DEF Fits
<1>10. L!Signed(f, 0, 26) = x
  BY <1>6, <1>8, <1>9, SignedIs
<1> QED BY <1>2, <1>3, <1>7, <1>10

LEMMA RelocBranch ==
  ASSUME NEW type \in {"JUMP26", "CALL26"}, NEW old, NEW syma \in Nat, NEW pc \in Nat, NEW stub \in Nat,
         Width \in 31 .. 64, syma % 4 = 0, pc % 4 = 0, stub % 4 = 0
  PROVE  L!WordRight(type, old, syma, pc, L!Branch26(old, syma, pc, stub))
<1>1. /\ syma - pc \in Int /\ (syma - pc) % 4 = 0 /\ pc + (syma - pc) = syma
      /\ stub - pc \in Int /\ (stub - pc) % 4 = 0 /\ pc + (stub - pc) = stub
  BY SMTT(60)
<1>2. L!InReach(type, syma, pc) <=> L!rtld_elf_signed_range(syma - pc, 28)
  <2>1. L!InReach(type, syma, pc) <=> syma - pc \in -(2^27) .. (2^27 - 2)
    BY SMTT(60) DEF L!InReach
  <2>2. L!rtld_elf_signed_range(syma - pc, 28) <=> (syma - pc >= -(2^27) /\ syma - pc < 2^27 - 1)
    <3>1. L!Two(28 - 1) = 2^27
      BY SMTT(60) DEF L!Two
    <3> QED BY <3>1 DEF L!rtld_elf_signed_range
  <2> QED BY SMTT(60), <2>1, <2>2
<1>3. L!Field(0, 26) \subseteq L!Operand(type)
  <2>1. L!Field(0, 26) = 0 .. 25
    BY SMTT(60) DEF L!Field
  <2> QED BY <2>1, Operands
<1>4. CASE L!rtld_elf_signed_range(syma - pc, 28)
  <2>1. PICK f : f = L!rtld_blend(old, L!Field(0, 26), L!BitsOf((syma - pc) \div 4))
    OBVIOUS
  <2>2. L!Branch26(old, syma, pc, stub) = L!Ok(f)
    BY <1>4, <2>1 DEF L!Branch26, L!Ok
  <2>3. L!Ok(f).word = f /\ L!Ok(f).stub = 0 /\ L!Ok(f).stubsym = 0
    BY SMTT(60) DEF L!Ok
  <2>4. 4 * L!Signed(f, 0, 26) = syma - pc
    BY <1>1, <1>4, <2>1, BranchReads
  <2>5. L!BranchTarget(L!Ok(f), pc) = syma
    BY <1>1, <2>3, <2>4 DEF L!BranchTarget
  <2>6. L!Refers(type, L!Ok(f), syma, pc)
    BY <2>5, RefersBranch
  <2> QED BY <1>2, <1>3, <1>4, <2>1, <2>2, <2>6, Patched
<1>5. CASE ~L!rtld_elf_signed_range(syma - pc, 28) /\ (stub = 0 \/ ~L!rtld_elf_signed_range(stub - pc, 28))
  <2>1. PICK code \in {"ENOMEM", "EINVAL"} : L!Branch26(old, syma, pc, stub) = L!Error(code)
    BY <1>5 DEF L!Branch26
  <2> QED BY <1>2, <1>5, <2>1, Refused
<1>6. CASE ~L!rtld_elf_signed_range(syma - pc, 28) /\ stub # 0 /\ L!rtld_elf_signed_range(stub - pc, 28)
  <2>1. PICK f : f = L!rtld_blend(old, L!Field(0, 26), L!BitsOf((stub - pc) \div 4))
    OBVIOUS
  <2>2. PICK q : q = [ret |-> "ok", word |-> f, stub |-> stub, stubsym |-> syma]
    OBVIOUS
  <2>3. L!Branch26(old, syma, pc, stub) = q
    BY <1>6, <2>1, <2>2 DEF L!Branch26
  <2>4. q.ret = "ok" /\ q.word = f /\ q.stub = stub /\ q.stubsym = syma
    BY SMTT(60), <2>2
  <2>5. 4 * L!Signed(f, 0, 26) = stub - pc
    BY <1>1, <1>6, <2>1, BranchReads
  <2>6. L!BranchTarget(q, pc) = syma
    BY <1>1, <2>4, <2>5 DEF L!BranchTarget
  <2>7. L!Refers(type, q, syma, pc)
    BY <2>6, RefersBranch
  <2>8. f \ L!Operand(type) = old \ L!Operand(type)
    BY <1>3, <2>1 DEF L!rtld_blend
  <2> QED BY <1>6, <2>3, <2>4, <2>7, <2>8 DEF L!WordRight
<1> QED BY <1>4, <1>5, <1>6

(* ADRP: two low bits and a signed rest, from another place of the word.   *)
LEMMA SignedWraps ==
  ASSUME NEW f, NEW z \in Int, NEW lo \in Nat, NEW n \in 1 .. 64, Fits(z, n),
         NEW y, y = z % L!Two(n), Holds(f, y, lo, n)
  PROVE  L!Signed(f, lo, n) = z
<1>1. n - 1 \in 0 .. 63 /\ n - 1 \in 0 .. 64 /\ n - 1 \in 0 .. (n - 1) /\ lo + n - 1 = lo + (n - 1)
      /\ (n - 1) + 1 = n
  BY SMTT(60)
<1>2. \A i \in 0 .. ((n - 1) - 1) : i \in 0 .. (n - 1)
  BY SMTT(60)
<1>3. PICK p \in Nat \ {0} : p = L!Two(n - 1) /\ L!Two(n) = 2 * p
  BY <1>1, Powers DEF Doubles
<1>4. -p <= z /\ z < p
  BY <1>3 DEF Fits
<1>5. y \in Int /\ 2 * p \in Nat \ {0}
  BY SMTT(60), <1>3
<1>6. Holds(f, y, lo, n - 1)
  BY <1>2 DEF Holds
<1>7. L!Unsigned(f, lo, n - 1) = y % p
  <2>1. n - 1 \in 0 .. 64 /\ y \in Int
    BY <1>1, <1>5
  <2>2. L!Unsigned(f, lo, n - 1) = y % L!Two(n - 1)
    <3>1. Reads(f, y, lo, n - 1)
      BY <1>6, <2>1 DEF Reads
    <3>2. Gives(f, y, lo, n - 1)
      BY <3>1, UnsignedReads
    <3> QED BY <3>2 DEF Gives
  <2> QED BY <1>3, <2>2
<1>8. (lo + n - 1 \in f) <=> ((y \div p) % 2 = 1)
  BY <1>1, <1>3 DEF Holds
<1>9. CASE 0 <= z
  <2>1. z = (2 * p) * 0 + z /\ z = p * 0 + z /\ z < 2 * p /\ 0 \in Int
    BY SMTT(60), <1>4
  <2>2. y = z
    <3>1. z % (2 * p) = z
      BY <1>5, <1>9, <2>1, Remainder
    <3> QED BY <1>3, <3>1
  <2>3. z % p = z /\ z \div p = 0
    BY <1>4, <1>9, <2>1, Remainder
  <2>4. 0 % 2 # 1
    BY SMTT(60)
  <2> QED BY <1>7, <1>8, <2>2, <2>3, <2>4 DEF L!Signed
<1>10. CASE ~(0 <= z)
  <2>1. PICK v \in Int : v = z + p
    BY SMTT(60)
  <2>2. z = (2 * p) * (-1) + (v + p) /\ 0 <= v + p /\ v + p < 2 * p /\ v + p \in Int /\ -1 \in Int
    BY SMTT(60), <1>4, <1>10, <2>1
  <2>3. y = v + p
    <3>1. z % (2 * p) = v + p
      BY <1>5, <2>2, Remainder
    <3> QED BY <1>3, <3>1
  <2>4. v + p = p * 1 + v /\ 0 <= v /\ v < p /\ 1 \in Int
    BY SMTT(60), <1>4, <1>10, <2>1
  <2>5. y % p = v /\ y \div p = 1
    BY <1>5, <2>3, <2>4, Remainder
  <2>6. 1 % 2 = 1 /\ v - p = z
    BY SMTT(60), <2>1
  <2> QED BY <1>3, <1>7, <1>8, <2>5, <2>6 DEF L!Signed
<1> QED BY <1>9, <1>10

PagePlace(hi, two) == hi = 29 /\ two = 2

LEMMA PageHolds ==
  ASSUME Width \in 31 .. 64, NEW hi, NEW two, PagePlace(hi, two), NEW old, NEW lowp \in 0 .. 3, NEW n \in 2 .. 22, NEW y \in Nat, y < L!Two(n),
         NEW f, f = L!rtld_blend(old, L!Field(hi, two) \cup L!Field(5, n),
                                 L!Shifted(lowp, hi) \cup L!Shifted(y, 5))
  PROVE  Holds(f, y, 5, n) /\ Holds(f, lowp, hi, two)
<1> DEFINE A == L!Shifted(lowp, hi)
           B == L!Shifted(y, 5)
<1>1. /\ hi \in 0 .. 63 /\ 5 \in 0 .. 63 /\ two \in 0 .. 64 /\ n \in 0 .. 64 /\ hi + two <= 64 /\ 5 + n <= 64
      /\ hi \in Nat /\ 5 \in Nat /\ two \in Nat /\ n \in Nat /\ lowp \in Int /\ y \in Int
      /\ Width \in Nat /\ two <= Width /\ n <= Width
  BY SMTT(60) DEF PagePlace
<1>2. Holds(A, lowp, hi, two) /\ Holds(B, y, 5, n)
  BY <1>1, Shifts
<1>3. \A i \in 0 .. (n - 1) : 5 + i \notin A
  <2>1. \A i \in 0 .. (n - 1), j \in L!Bits : j + hi # 5 + i
    BY SMTT(60) DEF L!Bits, PagePlace
  <2>2. \A j \in L!BitsOf(lowp) : j \in L!Bits
    BY DEF L!BitsOf
  <2> QED BY <2>1, <2>2 DEF L!Shifted
<1>4. \A i \in 0 .. 1 : hi + i \notin B
  <2> SUFFICES ASSUME NEW i \in 0 .. 1, hi + i \in B
               PROVE  FALSE
    OBVIOUS
  <2>1. PICK j \in L!BitsOf(y) : j + 5 = hi + i
    BY DEF L!Shifted
  <2>2. j \in L!Bits /\ (j < Width => (y \div L!Two(j)) % 2 = 1)
    BY DEF L!BitsOf
  <2>3. j \in 0 .. 63 /\ n \in 0 .. 63 /\ n <= j /\ j < Width
    BY SMTT(60), <2>1, <2>2 DEF L!Bits, PagePlace
  <2>4. y \div L!Two(j) = 0
    BY <2>3, Beyond
  <2>5. 0 % 2 # 1
    BY SMTT(60)
  <2> QED BY <2>2, <2>3, <2>4, <2>5
<1>5. Holds(A \cup B, lowp, hi, two)
  <2>1. 0 .. (two - 1) = 0 .. 1
    BY SMTT(60) DEF PagePlace
  <2>2. \A i \in 0 .. (two - 1) : (hi + i \in A \cup B) <=> (hi + i \in A)
    BY <1>4, <2>1
  <2> QED BY <1>2, <2>2 DEF Holds
<1>6. Holds(A \cup B, y, 5, n)
  <2>1. \A i \in 0 .. (n - 1) : (5 + i \in A \cup B) <=> (5 + i \in B)
    BY <1>3
  <2> QED BY <1>2, <2>1 DEF Holds
<1> HIDE DEF A, B
<1>7. PICK mask, data : mask = L!Field(hi, two) \cup L!Field(5, n) /\ data = A \cup B
  OBVIOUS
<1>8. L!Field(hi, two) \subseteq mask /\ L!Field(5, n) \subseteq mask
  BY <1>7
<1>9. f = L!rtld_blend(old, mask, data)
  BY <1>7 DEF A, B
<1>10. Holds(data, y, 5, n) /\ Holds(data, lowp, hi, two)
  BY <1>5, <1>6, <1>7
<1>11. Holds(L!rtld_blend(old, mask, data), y, 5, n)
  <2>1. 5 \in Nat /\ n \in Nat
    BY <1>1
  <2> QED BY <1>8, <1>10, <2>1, Blends
<1>12. Holds(L!rtld_blend(old, mask, data), lowp, hi, two)
  <2>1. hi \in Nat /\ two \in Nat
    BY <1>1
  <2> QED BY <1>8, <1>10, <2>1, Blends
<1> QED BY <1>9, <1>11, <1>12

LEMMA RelocPage ==
  ASSUME NEW old, NEW syma \in Nat, NEW pc \in Nat, Width \in 31 .. 64, PageField \in 4 .. 24
  PROVE  L!WordRight("PG_HI21", old, syma, pc, L!Page21(old, syma, pc))
<1>1. PICK pages \in Int : pages = L!PageDelta(syma, pc)
  BY SMTT(60) DEF L!PageDelta, L!PageSize
<1>2. PICK n \in 2 .. 22 : n = PageField - 2
  BY SMTT(60)
<1>3. /\ n - 1 \in 0 .. 63 /\ n \in 0 .. 63 /\ (n - 1) + 1 = n /\ n \in 1 .. 64 /\ 5 \in Nat
      /\ n + 1 = PageField - 1
  BY SMTT(60), <1>2
<1>4. PICK p \in Nat \ {0} : p = L!Two(n - 1) /\ L!Two(n) = 2 * p /\ L!Two(PageField - 1) = 2 * (2 * p)
  BY <1>3, Powers DEF Doubles
<1>5. PICK z \in Int, y \in Int, lowp \in 0 .. 3 :
        z = pages \div 4 /\ y = z % L!Two(n) /\ lowp = pages % 4 /\ pages = 4 * z + lowp
  BY SMTT(60), <1>4
<1> DEFINE hi == 29
           two == 2
<1>0. PagePlace(hi, two)
  BY DEF PagePlace
<1>00. lowp \in Int /\ two \in 0 .. 64
  BY SMTT(60)
<1> HIDE DEF hi, two
<1>6. L!InReach("PG_HI21", syma, pc) <=> L!rtld_elf_signed_range(pages, PageField)
  <2>1. PICK g : g = L!Two(PageField - 1)
    OBVIOUS
  <2>2. g \in Nat
    BY SMTT(60), <1>4, <2>1
  <2>3. L!InReach("PG_HI21", syma, pc) <=> (syma \div L!PageSize) - (pc \div L!PageSize) \in -g .. (g - 2)
    BY SMTT(60), <2>1 DEF L!InReach, L!PageSize
  <2>4. L!rtld_elf_signed_range(pages, PageField) <=> pages >= -g /\ pages < g - 1
    BY <2>1 DEF L!rtld_elf_signed_range
  <2>5. pages = (syma \div L!PageSize) - (pc \div L!PageSize)
    BY <1>1 DEF L!PageDelta
  <2> QED BY SMTT(60), <2>2, <2>3, <2>4, <2>5 DEF L!PageSize
<1>7. CASE ~L!rtld_elf_signed_range(pages, PageField)
  BY <1>1, <1>6, <1>7, Refused DEF L!Page21
<1>8. CASE L!rtld_elf_signed_range(pages, PageField)
  <2> DEFINE mask == L!Field(hi, two) \cup L!Field(5, n)
             data == L!Shifted(lowp, hi) \cup L!Shifted(y, 5)
  <2>1. PICK f : f = L!rtld_blend(old, mask, data)
    OBVIOUS
  <2>2. L!Page21(old, syma, pc) = L!Ok(L!rtld_blend(old, mask, data))
    BY <1>0, <1>1, <1>2, <1>5, <1>8 DEF L!Page21, PagePlace
  <2>3. pages >= -(2 * (2 * p)) /\ pages < 2 * (2 * p) - 1
    BY <1>4, <1>8 DEF L!rtld_elf_signed_range
  <2>4. -p <= z /\ z < p
    BY SMTT(60), <1>5, <2>3
  <2>5. Fits(z, n)
    BY <1>4, <2>4 DEF Fits
  <2>6. y \in Nat /\ y < L!Two(n)
    BY SMTT(60), <1>4, <1>5
  <2>7. Holds(f, y, 5, n) /\ Holds(f, lowp, hi, two)
    BY <1>0, <2>1, <2>6, PageHolds
  <2>8. L!Signed(f, 5, n) = z
    BY <1>3, <1>5, <2>5, <2>7, SignedWraps
  <2>9. L!Unsigned(f, 29, 2) = lowp
    <3>1. L!Unsigned(f, hi, two) = lowp % L!Two(two)
      <4>1. Reads(f, lowp, hi, two)
        BY <1>00, <2>7 DEF Reads
      <4>2. Gives(f, lowp, hi, two)
        BY <4>1, UnsignedReads
      <4> QED BY <4>2 DEF Gives
    <3>2. hi = 29 /\ two = 2
      BY <1>0 DEF PagePlace
    <3>3. lowp % L!Two(2) = lowp
      BY SMTT(60) DEF L!Two
    <3> QED BY <3>1, <3>2, <3>3
  <2>10. L!Ok(f).word = f
    BY SMTT(60) DEF L!Ok
  <2>11. (pc - (pc % L!PageSize)) + L!PageSize * (4 * z + lowp) = syma - (syma % L!PageSize)
    <3>1. pages = (syma \div L!PageSize) - (pc \div L!PageSize)
      BY <1>1 DEF L!PageDelta
    <3>2. pages = 4 * z + lowp
      BY <1>5
    <3> QED BY SMTT(60), <3>1, <3>2 DEF L!PageSize
  <2>12. L!Refers("PG_HI21", L!Ok(f), syma, pc)
    <3>1. L!Signed(L!Ok(f).word, 5, PageField - 2) = z /\ L!Unsigned(L!Ok(f).word, 29, 2) = lowp
      BY <1>2, <2>8, <2>9, <2>10
    <3> QED BY <2>11, <3>1, RefersPage
  <2>13. mask \subseteq L!Operand("PG_HI21")
    <3>1. L!Operand("PG_HI21") = (5 .. (PageField + 2)) \cup {29, 30}
      BY Operands
    <3>2. L!Field(hi, two) \subseteq {29, 30} /\ L!Field(5, n) \subseteq 5 .. (PageField + 2)
      BY SMTT(60), <1>0, <1>2 DEF L!Field, PagePlace
    <3> QED BY <3>1, <3>2
  <2> HIDE DEF mask, data
  <2> QED BY <1>6, <1>8, <2>1, <2>2, <2>12, <2>13, Patched
<1> QED BY <1>7, <1>8

(* The scaled low bits of an address.                                      *)
LEMMA LowReads ==
  ASSUME Width \in 31 .. 64, NEW old, NEW syma \in Nat, NEW k \in 0 .. 4, syma % 2^k = 0
  PROVE  2^k * L!Unsigned(L!rtld_blend(old, L!Field(10, 12 - k), L!Shifted(syma \div 2^k, 10)), 10, 12 - k)
           = syma % L!PageSize
<1>1. PICK x : x = syma \div 2^k
  OBVIOUS
<1>2. PICK lo, n : lo = 10 /\ n = 12 - k
  OBVIOUS
<1>3. k \in 0 .. 31 /\ lo \in 0 .. 63 /\ n \in 0 .. 64 /\ lo + n <= 64 /\ Width \in Nat /\ n <= Width
  BY SMTT(60), <1>2
<1>4. x \in Int
  <2>1. 2^k \in Nat \ {0}
    BY <1>3, Exponents DEF Double
  <2>2. syma \in Int
    BY SMTT(60)
  <2> QED BY <1>1, <2>1, <2>2, Divided
<1>5. PICK mask : mask = L!Field(lo, n)
  OBVIOUS
<1>6. L!Field(lo, n) \subseteq mask
  BY <1>5
<1>7. Holds(L!rtld_blend(old, mask, L!Shifted(x, lo)), x, lo, n)
  BY <1>3, <1>4, <1>6, Moved
<1>8. L!Unsigned(L!rtld_blend(old, mask, L!Shifted(x, lo)), lo, n) = x % L!Two(n)
  BY <1>3, <1>4, <1>7, UnsignedIs
<1>9. 2^k * (x % L!Two(n)) = syma % L!PageSize
  <2>1. CASE k = 0
    BY SMTT(60), <1>1, <1>2, <2>1 DEF L!PageSize, L!Two
  <2>2. CASE k = 1
    BY SMTT(60), <1>1, <1>2, <2>2 DEF L!PageSize, L!Two
  <2>3. CASE k = 2
    BY SMTT(60), <1>1, <1>2, <2>3 DEF L!PageSize, L!Two
  <2>4. CASE k = 3
    BY SMTT(60), <1>1, <1>2, <2>4 DEF L!PageSize, L!Two
  <2>5. CASE k = 4
    BY SMTT(60), <1>1, <1>2, <2>5 DEF L!PageSize, L!Two
  <2>6. k = 0 \/ k = 1 \/ k = 2 \/ k = 3 \/ k = 4
    BY SMTT(60)
  <2> QED BY <2>1, <2>2, <2>3, <2>4, <2>5, <2>6
<1> QED BY <1>1, <1>2, <1>5, <1>8, <1>9

LEMMA RelocLow ==
  ASSUME Width \in 31 .. 64, NEW type \in {"ADD"} \cup DOMAIN L!LdSt, NEW old, NEW syma \in Nat, NEW pc,
         NEW k, k = IF type = "ADD" THEN 0 ELSE L!LdSt[type], syma % 2^k = 0
  PROVE  L!WordRight(type, old, syma, pc, L!Low12(old, syma, k))
<1>1. k \in 0 .. 4
  BY SMTT(60), Sets DEF L!LdSt
<1>2. PICK mask, data : mask = L!Field(10, 12 - k) /\ data = L!Shifted(syma \div 2^k, 10)
  OBVIOUS
<1>3. PICK f : f = L!rtld_blend(old, mask, data)
  OBVIOUS
<1>4. L!Low12(old, syma, k) = L!Ok(L!rtld_blend(old, mask, data))
  BY <1>2 DEF L!Low12
<1>5. 2^k * L!Unsigned(f, 10, 12 - k) = syma % L!PageSize
  BY <1>1, <1>2, <1>3, LowReads
<1>6. L!Ok(f).word = f
  BY SMTT(60) DEF L!Ok
<1>7. L!Refers(type, L!Ok(f), syma, pc)
  <2>1. CASE type = "ADD"
    <3>1. k = 0 /\ 12 - 0 = 12
      BY SMTT(60), <2>1
    <3>2. PICK u : u = L!Unsigned(f, 10, 12)
      OBVIOUS
    <3>3. 2^0 * u = syma % L!PageSize
      BY <1>5, <3>1, <3>2
    <3>4. u \in Int
      <4>1. PICK x \in Int : x = syma \div 2^0
        BY SMTT(60)
      <4>2. u = x % 2^12
        <5>1. PICK lo, n : lo = 10 /\ n = 12
          OBVIOUS
        <5>2. lo \in 0 .. 63 /\ n \in 0 .. 64 /\ lo + n <= 64 /\ Width \in Nat /\ n <= Width
          BY SMTT(60), <5>1
        <5>3. f = L!rtld_blend(old, mask, L!Shifted(x, lo)) /\ L!Field(lo, n) \subseteq mask
          BY <1>2, <1>3, <3>1, <4>1, <5>1
        <5>4. Holds(L!rtld_blend(old, mask, L!Shifted(x, lo)), x, lo, n)
          BY <5>2, <5>3, Moved
        <5>5. L!Unsigned(L!rtld_blend(old, mask, L!Shifted(x, lo)), lo, n) = x % L!Two(n)
          BY <5>2, <5>4, UnsignedIs
        <5>6. L!Two(12) = 2^12
          BY SMTT(60) DEF L!Two
        <5> QED BY <3>2, <5>1, <5>3, <5>5, <5>6
      <4> QED BY SMTT(60), <4>2
    <3>5. u = syma % L!PageSize
      BY SMTT(60), <3>3, <3>4
    <3> QED BY <1>6, <2>1, <3>2, <3>5, RefersAdd
  <2>2. CASE type \in DOMAIN L!LdSt
    <3>1. type # "ADD"
      BY <2>2, Sets
    <3>2. k = L!LdSt[type]
      BY <3>1
    <3>3. 2^L!LdSt[type] * L!Unsigned(L!Ok(f).word, 10, 12 - L!LdSt[type]) = syma % L!PageSize
      BY <1>5, <1>6, <3>2
    <3> QED BY <2>2, <3>3, RefersLdSt
  <2> QED BY <2>1, <2>2
<1>8. mask \subseteq L!Operand(type)
  <2>1. L!Operand(type) = 10 .. 21
    BY Operands
  <2>2. L!Field(10, 12 - k) \subseteq 10 .. 21
    BY SMTT(60), <1>1 DEF L!Field
  <2> QED BY <1>2, <2>1, <2>2
<1>9. L!InReach(type, syma, pc)
  BY Reaches
<1> QED BY <1>3, <1>4, <1>7, <1>8, <1>9, Patched

(* Sixteen bits of an address.                                             *)
LEMMA DividedTwice ==
  ASSUME NEW x \in Int, NEW a \in Nat \ {0}, NEW b \in Nat \ {0}
  PROVE  (x \div a) \div b = x \div (a * b)
<1>1. PICK q \in Int, t \in Int : q = x \div a /\ t = x % a
  BY Divided
<1>2. x = a * q + t /\ 0 <= t /\ t < a
  BY <1>1, Divided
<1>3. PICK h \in Int, u \in Int : h = q \div b /\ u = q % b
  BY Divided
<1>4. q = b * h + u /\ 0 <= u /\ u < b
  BY <1>3, Divided
<1>5. a * (b * h + u) = (a * b) * h + a * u
  BY SMTT(60)
<1>6. PICK v \in Nat : b = u + 1 + v
  <2>1. b - 1 - u \in Nat /\ b = u + 1 + (b - 1 - u)
    BY SMTT(60), <1>4
  <2> QED BY <2>1
<1>7. a * b = a * u + a + a * v
  BY SMTT(60), <1>6
<1>8. a * b \in Nat \ {0} /\ a * u \in Nat /\ a * v \in Nat /\ (a * b) * h \in Int
  BY SMTT(60), <1>4
<1>9. 0 <= a * u + t /\ a * u + t < a * b /\ a * u + t \in Int
  BY SMTT(60), <1>2, <1>7, <1>8
<1>10. x = (a * b) * h + (a * u + t)
  BY SMTT(60), <1>2, <1>4, <1>5, <1>8
<1>11. x \div (a * b) = h
  BY <1>8, <1>9, <1>10, Remainder
<1> QED BY <1>1, <1>3, <1>11

Part(syma, part) == IF 16 * part < Width THEN syma \div L!Two(16 * part) ELSE 0

LEMMA MoveHolds ==
  ASSUME Width \in 31 .. 64, NEW syma \in Nat, syma < L!Two(Width - 1), NEW part \in 0 .. 3
  PROVE  Holds({i - 16 * part + 5 : i \in L!BitsOf(syma)}, Part(syma, part), 5, 16)
<1> SUFFICES ASSUME NEW j \in 0 .. (16 - 1)
             PROVE  (5 + j \in {i - 16 * part + 5 : i \in L!BitsOf(syma)})
                      <=> ((Part(syma, part) \div L!Two(j)) % 2 = 1)
  BY DEF Holds
<1>1. PICK a \in 0 .. 63 : a = 16 * part
  BY SMTT(60)
<1>2. PICK b \in 0 .. 63 : b = a + j
  BY SMTT(60), <1>1
<1>3. b \in L!Bits /\ b - 16 * part + 5 = 5 + j /\ j \in 0 .. 63 /\ a + j <= 63 /\ syma \in Int
  BY SMTT(60), <1>1, <1>2 DEF L!Bits
<1>4. \A i \in L!Bits : i - 16 * part + 5 = 5 + j => i = b
  BY SMTT(60), <1>1, <1>2 DEF L!Bits
<1>5. \A i \in L!BitsOf(syma) : i \in L!Bits
  BY DEF L!BitsOf
<1>6. (5 + j \in {i - 16 * part + 5 : i \in L!BitsOf(syma)}) <=> (b \in L!BitsOf(syma))
  BY <1>3, <1>4, <1>5
<1>7. (b \in L!BitsOf(syma)) <=> (IF b < Width THEN (syma \div L!Two(b)) % 2 = 1 ELSE syma < 0)
  BY <1>3 DEF L!BitsOf
<1>8. ~(syma < 0) /\ 0 % 2 # 1
  BY SMTT(60)
<1>9. PICK m \in Nat \ {0}, p \in Nat \ {0} : m = L!Two(a) /\ p = L!Two(j)
  BY <1>3, Powers DEF Doubles
<1>10. L!Two(b) = m * p
  BY <1>2, <1>3, <1>9, PowersAdd DEF Adds
<1>11. CASE a < Width
  <2>1. Part(syma, part) = syma \div m
    BY <1>1, <1>9, <1>11 DEF Part
  <2>2. (syma \div m) \div p = syma \div L!Two(b)
    <3>1. (syma \div m) \div p = syma \div (m * p)
      BY <1>3, DividedTwice
    <3> QED BY <1>10, <3>1
  <2>3. CASE b < Width
    BY <1>6, <1>7, <1>9, <2>1, <2>2, <2>3
  <2>4. CASE ~(b < Width)
    <3>1. PICK top \in 0 .. 63 : top = Width - 1 /\ top <= b
      BY SMTT(60), <2>4
    <3>2. syma \div L!Two(b) = 0
      BY <3>1, Beyond
    <3> QED BY <1>6, <1>7, <1>8, <1>9, <2>1, <2>2, <2>4, <3>2
  <2> QED BY <2>3, <2>4
<1>12. CASE ~(a < Width)
  <2>1. ~(b < Width)
    BY SMTT(60), <1>2, <1>12
  <2>2. Part(syma, part) = 0
    BY <1>1, <1>12 DEF Part
  <2>3. (0 \div p) % 2 # 1
    BY SMTT(60)
  <2> QED BY <1>6, <1>7, <1>8, <1>9, <2>1, <2>2, <2>3
<1> QED BY <1>11, <1>12

LEMMA RelocMove ==
  ASSUME Width \in 31 .. 64, NEW type \in DOMAIN L!MovW, NEW old, NEW syma \in Nat, syma < L!Two(Width - 1), NEW pc
  PROVE  L!WordRight(type, old, syma, pc, L!Move16(old, syma, L!MovW[type]))
<1>1. PICK part \in 0 .. 3 : part = L!MovW[type]
  <2>1. L!MovW[type] \in 0 .. 3
    BY SMTT(60), Sets DEF L!MovW
  <2> QED BY <2>1
<1>2. PICK mask, data, lo, n : /\ mask = L!Field(5, 16) /\ data = {i - 16 * part + 5 : i \in L!BitsOf(syma)}
                               /\ lo = 5 /\ n = 16
  OBVIOUS
<1>3. PICK f, x : f = L!rtld_blend(old, mask, data) /\ x = Part(syma, part)
  OBVIOUS
<1>4. L!Move16(old, syma, L!MovW[type]) = L!Ok(L!rtld_blend(old, mask, data))
  BY <1>1, <1>2 DEF L!Move16
<1>5. L!Unsigned(f, 5, 16) = x % 2^16
  <2>1. x \in Int
    <3>1. PICK a \in 0 .. 63 : a = 16 * part
      BY SMTT(60)
    <3>2. PICK m \in Nat \ {0} : m = L!Two(a)
      BY Powers DEF Doubles
    <3>3. syma \div m \in Int /\ 0 \in Int
      BY SMTT(60)
    <3> QED BY <1>3, <3>1, <3>2, <3>3 DEF Part
  <2>2. lo \in Nat /\ n \in Nat /\ n \in 0 .. 64
    BY SMTT(60), <1>2
  <2>3. Holds(data, x, lo, n)
    BY <1>2, <1>3, MoveHolds
  <2>4. L!Field(lo, n) \subseteq mask
    BY <1>2
  <2>5. Holds(L!rtld_blend(old, mask, data), x, lo, n)
    BY <2>2, <2>3, <2>4, Blends
  <2>6. L!Unsigned(L!rtld_blend(old, mask, data), lo, n) = x % L!Two(n)
    BY <2>1, <2>2, <2>5, UnsignedIs
  <2>7. L!Two(16) = 2^16
    BY SMTT(60) DEF L!Two
  <2> QED BY <1>2, <1>3, <2>6, <2>7
<1>6. L!Ok(f).word = f
  BY SMTT(60) DEF L!Ok
<1>7. x % 2^16 = IF 16 * part < Width THEN (syma \div L!Two(16 * part)) % 2^16 ELSE 0
  <2>1. 0 % 2^16 = 0
    BY SMTT(60)
  <2> QED BY <1>3, <2>1 DEF Part
<1>8. L!Unsigned(L!Ok(f).word, 5, 16)
        = IF 16 * L!MovW[type] < Width THEN (syma \div L!Two(16 * L!MovW[type])) % 2^16 ELSE 0
  BY <1>1, <1>5, <1>6, <1>7
<1>9. L!Refers(type, L!Ok(f), syma, pc)
  BY <1>8, RefersMovW
<1>10. mask \subseteq L!Operand(type)
  <2>1. L!Operand(type) = 5 .. 20
    BY Operands
  <2>2. L!Field(5, 16) = 5 .. 20
    BY SMTT(60) DEF L!Field
  <2> QED BY <1>2, <2>1, <2>2
<1>11. L!InReach(type, syma, pc)
  BY Reaches
<1> QED BY <1>3, <1>4, <1>9, <1>10, <1>11, Patched

(* Each kind of relocation patches its field.                              *)
AtOK(type, syma, pc, stub) ==
  /\ syma \in Nat /\ syma < L!Two(Width - 1) /\ pc \in Nat /\ pc < L!Two(Width - 1) /\ stub \in Nat
  /\ pc % 4 = 0 /\ stub % 4 = 0 /\ Width \in 31 .. 64 /\ Word32 \in 2 .. Width /\ PageField \in 4 .. 24
  /\ type \in DOMAIN L!LdSt => syma % 2^L!LdSt[type] = 0
  /\ type \in {"JUMP26", "CALL26"} => syma % 4 = 0

LEMMA RelocAt ==
  ASSUME NEW type \in L!Types, NEW old, NEW sym, NEW addend, NEW pc, NEW stub,
         AtOK(type, sym + addend, pc, stub)
  PROVE  L!WordRight(type, old, sym + addend, pc, L!rtld_reloc_at(type, old, sym, addend, pc, stub))
<1>1. PICK q : q = L!rtld_reloc_at(type, old, sym, addend, pc, stub)
  OBVIOUS
<1>2. PICK syma : syma = sym + addend
  OBVIOUS
<1>3. AtOK(type, syma, pc, stub)
  BY <1>2
<1> SUFFICES L!WordRight(type, old, syma, pc, q)
  BY <1>1, <1>2
<1>4. CASE type \in {"PC64", "PREL64"}
  <2>1. q = L!Word(old, syma - pc)
    BY SMTT(60), <1>1, <1>2, <1>4, Sets DEF L!rtld_reloc_at
  <2>2. type # "64"
    BY <1>4
  <2> QED BY <1>3, <1>4, <2>1, <2>2, Reloc64 DEF AtOK
<1>5. CASE type = "64"
  <2>1. q = L!Word(old, syma)
    BY SMTT(60), <1>1, <1>2, <1>5, Sets DEF L!rtld_reloc_at
  <2> QED BY <1>3, <1>5, <2>1, Reloc64 DEF AtOK
<1>6. CASE type \in {"PC32", "PLT32", "PREL32"}
  <2>1. q = L!Half(old, syma - pc, L!rtld_elf_signed_range(syma - pc, Word32))
    BY SMTT(60), <1>1, <1>2, <1>6, Sets DEF L!rtld_reloc_at
  <2>2. type \notin {"32S", "32"} /\ type # "32"
    BY <1>6
  <2> QED BY <1>3, <1>6, <2>1, <2>2, Reloc32 DEF AtOK
<1>7. CASE type = "32S"
  <2>1. q = L!Half(old, syma, L!rtld_elf_signed_range(syma, Word32))
    BY SMTT(60), <1>1, <1>2, <1>7, Sets DEF L!rtld_reloc_at
  <2> QED BY <1>3, <1>7, <2>1, Reloc32 DEF AtOK
<1>8. CASE type = "32"
  <2>1. q = L!Half(old, syma, L!rtld_elf_unsigned_range(syma, Word32))
    BY SMTT(60), <1>1, <1>2, <1>8, Sets DEF L!rtld_reloc_at
  <2> QED BY <1>3, <1>8, <2>1, Reloc32 DEF AtOK
<1>9. CASE type \in {"JUMP26", "CALL26"}
  <2>1. q = L!Branch26(old, syma, pc, stub)
    BY SMTT(60), <1>1, <1>2, <1>9, Sets DEF L!rtld_reloc_at
  <2> QED BY <1>3, <1>9, <2>1, RelocBranch DEF AtOK
<1>10. CASE type = "PG_HI21"
  <2>1. q = L!Page21(old, syma, pc)
    BY SMTT(60), <1>1, <1>2, <1>10, Sets DEF L!rtld_reloc_at
  <2> QED BY <1>3, <1>10, <2>1, RelocPage DEF AtOK
<1>11. CASE type = "ADD"
  <2>1. q = L!Low12(old, syma, 0)
    BY SMTT(60), <1>1, <1>2, <1>11, Sets DEF L!rtld_reloc_at
  <2>2. syma \in Nat /\ syma % 2^0 = 0 /\ Width \in 31 .. 64
    BY SMTT(60), <1>3 DEF AtOK
  <2> QED BY <1>11, <2>1, <2>2, RelocLow
<1>12. CASE type \in DOMAIN L!LdSt
  <2>1. q = L!Low12(old, syma, L!LdSt[type])
    BY SMTT(60), <1>1, <1>2, <1>12, Sets DEF L!rtld_reloc_at
  <2>2. type # "ADD"
    BY <1>12, Sets
  <2> QED BY <1>3, <1>12, <2>1, <2>2, RelocLow DEF AtOK
<1>13. CASE type \in DOMAIN L!MovW
  <2>1. q = L!Move16(old, syma, L!MovW[type])
    BY SMTT(60), <1>1, <1>2, <1>13, Sets DEF L!rtld_reloc_at
  <2> QED BY <1>3, <1>13, <2>1, RelocMove DEF AtOK
<1>14. CASE type = "other"
  <2>1. q = L!Error("EINVAL")
    BY SMTT(60), <1>1, <1>2, <1>14, Sets DEF L!rtld_reloc_at
  <2> QED BY <1>14, <2>1, Refused, Reaches
<1> QED BY <1>4, <1>5, <1>6, <1>7, <1>8, <1>9, <1>10, <1>11, <1>12, <1>13, <1>14 DEF L!Types

(* The procedure linkage table: the pointers start behind the code, near   *)
(* enough for both kinds of jump.                                          *)
LEMMA X86Slot ==
  ASSUME Width \in 31 .. 64, NEW off \in Nat, off < 2^20
  PROVE  L!Signed(L!Shifted(off - 6, 16), 16, 31) = off - 6
<1>1. PICK x, lo, n : x = off - 6 /\ lo = 16 /\ n = 31
  OBVIOUS
<1>2. x \in Int /\ lo \in 0 .. 63 /\ lo \in Nat /\ n \in 0 .. 64 /\ n \in 1 .. 64 /\ lo + n <= 64
      /\ Width \in Nat /\ n <= Width
  BY SMTT(60), <1>1
<1>3. Holds(L!Shifted(x, lo), x, lo, n)
  BY <1>2, Shifts
<1>4. Fits(x, n)
  BY SMTT(60), <1>1 DEF Fits, L!Two
<1>5. L!Signed(L!Shifted(x, lo), lo, n) = x
  BY <1>2, <1>3, <1>4, SignedIs
<1> QED BY <1>1, <1>5

LEMMA A64Slot ==
  ASSUME Width \in 31 .. 64, NEW off \in Nat, off < 2^20, off % 64 = 0
  PROVE  4 * L!Signed(L!Shifted(off, 3), 5, 19) = off
<1>1. PICK x, lo, n, m : x = off \div 4 /\ lo = 5 /\ n = 19 /\ m = 4
  OBVIOUS
<1>2. x \in Int /\ 4 * x = off /\ lo \in Nat /\ n \in 1 .. 64 /\ m \in Nat \ {0} /\ off \in Int
  BY SMTT(60), <1>1
<1>3. Holds(L!Shifted(off, 3), off, 3, 21)
  <2>1. PICK a, b : a = 3 /\ b = 21
    OBVIOUS
  <2>2. a \in 0 .. 63 /\ b \in 0 .. 64 /\ a + b <= 64 /\ Width \in Nat /\ b <= Width
    BY SMTT(60), <2>1
  <2>3. Holds(L!Shifted(off, a), off, a, b)
    BY <1>2, <2>2, Shifts
  <2> QED BY <2>1, <2>3
<1>4. Holds(L!Shifted(off, 3), x, lo, n)
  <2> SUFFICES ASSUME NEW i \in 0 .. (n - 1)
               PROVE  (lo + i \in L!Shifted(off, 3)) <=> ((x \div L!Two(i)) % 2 = 1)
    BY DEF Holds
  <2>1. i + 2 \in 0 .. (21 - 1) /\ 3 + (i + 2) = lo + i /\ i \in 0 .. 63 /\ i + 1 \in 0 .. 63
        /\ (i + 1) + 1 = i + 2
    BY SMTT(60), <1>1
  <2>2. PICK p \in Nat \ {0} : p = L!Two(i) /\ L!Two(i + 2) = 2 * (2 * p)
    BY <2>1, Powers DEF Doubles
  <2>3. 2 * (2 * p) = m * p
    BY SMTT(60), <1>1
  <2>4. (off \div m) \div p = off \div (m * p)
    BY <1>2, DividedTwice
  <2>5. (3 + (i + 2) \in L!Shifted(off, 3)) <=> ((off \div L!Two(i + 2)) % 2 = 1)
    BY <1>3, <2>1 DEF Holds
  <2>6. off \div L!Two(i + 2) = x \div L!Two(i)
    BY <1>1, <2>2, <2>3, <2>4
  <2> QED BY <2>1, <2>5, <2>6
<1>5. Fits(x, n)
  BY SMTT(60), <1>1 DEF Fits, L!Two
<1>6. L!Signed(L!Shifted(off, 3), lo, n) = x
  BY <1>2, <1>4, <1>5, SignedIs
<1> QED BY <1>1, <1>2, <1>6

LEMMA TableIsRight ==
  ASSUME L!RelocOK, NEW host \in {"x86_64", "aarch64"}
  PROVE  L!TableRight(host, L!plt_create(host))
<1>1. PICK count \in Nat : count = Len(L!PltNames) /\ count <= 2^14 + 2
  <2>1. PltFuncs \in Seq(STRING) /\ Len(PltFuncs) <= 2^14
    BY DEF L!RelocOK
  <2>2. Len(L!PltNames) = 2 + Len(PltFuncs) /\ Len(PltFuncs) \in Nat
    BY SMTT(60), <2>1 DEF L!PltNames
  <2> QED BY SMTT(60), <2>1, <2>2
<1>0. Width \in 31 .. 64
  BY DEF L!RelocOK
<1>2. PICK off : off = ((count * 8 + 63) \div 64) * 64
  OBVIOUS
<1>3. off \in Nat /\ off % 64 = 0 /\ off >= count * 8 /\ off < 2^20
  BY SMTT(60), <1>1, <1>2
<1>4. PICK plt : plt = L!plt_create(host)
  OBVIOUS
<1>5. DOMAIN plt = 0 .. (count - 1)
  BY <1>1, <1>4 DEF L!plt_create
<1>6. ASSUME NEW i \in 0 .. (count - 1)
      PROVE  /\ plt[i].data = off + 8 * i /\ plt[i].func = L!PltNames[i + 1]
             /\ plt[i].code = IF host = "x86_64" THEN L!Shifted(off - 6, 16) ELSE L!Shifted(off, 3)
  <2>1. PICK code : code = IF host = "x86_64" THEN L!Shifted(((off + 8 * i) - 8 * i) - 6, 16)
                                              ELSE L!Shifted((off + 8 * i) - 8 * i, 3)
    OBVIOUS
  <2>2. plt[i] = [data |-> off + 8 * i, func |-> L!PltNames[i + 1], code |-> code]
    BY <1>1, <1>2, <1>4, <2>1 DEF L!plt_create
  <2>3. (off + 8 * i) - 8 * i = off
    BY SMTT(60), <1>3
  <2>4. plt[i].data = off + 8 * i /\ plt[i].func = L!PltNames[i + 1] /\ plt[i].code = code
    BY SMTT(60), <2>2
  <2> QED BY <2>1, <2>3, <2>4
<1>7. ASSUME NEW i \in 0 .. (count - 1)
      PROVE  L!SlotReads(i, plt[i], host)
  <2>1. CASE host = "x86_64"
    <3>1. L!Signed(plt[i].code, 16, 31) = off - 6
      BY <1>0, <1>3, <1>6, <2>1, X86Slot
    <3>2. (8 * i + 6) + (off - 6) = off + 8 * i
      BY SMTT(60), <1>3
    <3> QED BY <1>6, <2>1, <3>1, <3>2 DEF L!SlotReads
  <2>2. CASE host # "x86_64"
    <3>1. 4 * L!Signed(plt[i].code, 5, 19) = off
      BY <1>0, <1>3, <1>6, <2>2, A64Slot
    <3>2. 8 * i + off = off + 8 * i
      BY SMTT(60), <1>3
    <3> QED BY <1>6, <2>2, <3>1, <3>2 DEF L!SlotReads
  <2> QED BY <2>1, <2>2
<1>8. ASSUME NEW i \in 0 .. (count - 1), NEW j \in 0 .. (count - 1)
      PROVE  /\ plt[i].data >= 8 * count
             /\ plt[j].data = plt[i].data => i = j
  <2>1. plt[i].data = off + 8 * i /\ plt[j].data = off + 8 * j
    BY <1>6
  <2> QED BY SMTT(60), <1>3, <2>1
<1> QED BY <1>1, <1>4, <1>5, <1>6, <1>7, <1>8 DEF L!TableRight

(* Init and the steps: what was asked for is what was done.                *)
LEMMA RelocStep == L!RelocInv /\ [L!Next]_L!vars => L!RelocInv'
<1> SUFFICES ASSUME L!RelocInv, [L!Next]_L!vars
             PROVE  L!RelocInv'
  OBVIOUS
<1>1. CASE L!Relocate
  BY <1>1 DEF L!Relocate, L!RelocInv
<1>2. CASE L!DecodeName
  BY <1>2 DEF L!DecodeName, L!RelocInv
<1>3. CASE L!CreatePlt
  BY <1>3 DEF L!CreatePlt, L!RelocInv
<1>4. CASE UNCHANGED L!vars
  BY <1>4 DEF L!vars, L!RelocInv
<1>5. CASE L!Finished
  BY <1>4, <1>5 DEF L!Finished
<1> QED BY <1>1, <1>2, <1>3, <1>4, <1>5 DEF L!Next

LEMMA RelocDone ==
  ASSUME L!RelocOK, L!RelocInv
  PROVE  L!WordsRight /\ L!PltRight
<1>1. ASSUME job = "reloc", done
      PROVE  L!WordRight(arg.type, arg.old, arg.sym + arg.addend, arg.pc, out) /\ ret = out.ret
  <2>1. arg \in L!Args /\ ret = out.ret
    BY <1>1 DEF L!RelocInv
  <2>2. PICK stub \in Stubs : out = L!rtld_reloc_at(arg.type, arg.old, arg.sym, arg.addend, arg.pc, stub)
    BY <1>1 DEF L!RelocInv
  <2>3. PICK type \in L!Types, old \in Old, sym \in Symbols, addend \in Addends, pc \in Places :
          /\ arg.type = type /\ arg.old = old /\ arg.sym = sym /\ arg.addend = addend /\ arg.pc = pc
          /\ sym + addend >= 0
          /\ type \in DOMAIN L!LdSt => (sym + addend) % 2^L!LdSt[type] = 0
          /\ type \in {"JUMP26", "CALL26"} => (sym + addend) % 4 = 0
    <3>1. arg \in [type : L!Types, old : Old, sym : Symbols, addend : Addends, pc : Places]
      BY <2>1 DEF L!Args
    <3>2. arg.type \in L!Types /\ arg.old \in Old /\ arg.sym \in Symbols /\ arg.addend \in Addends
          /\ arg.pc \in Places
      BY SMTT(60), <3>1
    <3>3. /\ arg.sym + arg.addend >= 0
          /\ arg.type \in DOMAIN L!LdSt => (arg.sym + arg.addend) % 2^L!LdSt[arg.type] = 0
          /\ arg.type \in {"JUMP26", "CALL26"} => (arg.sym + arg.addend) % 4 = 0
      BY <2>1 DEF L!Args
    <3> QED BY <3>2, <3>3
  <2>4. /\ Width \in 31 .. 64 /\ Word32 \in 2 .. Width /\ PageField \in 4 .. 24
        /\ pc \in Nat /\ pc < L!Two(Width - 1) /\ pc % 4 = 0 /\ stub \in Nat /\ stub % 4 = 0
        /\ sym + addend \in Int /\ sym + addend < L!Two(Width - 1)
    BY DEF L!RelocOK
  <2>5. sym + addend \in Nat
    BY SMTT(60), <2>3, <2>4
  <2>6. AtOK(type, sym + addend, pc, stub)
    BY <2>3, <2>4, <2>5 DEF AtOK
  <2>7. L!WordRight(type, old, sym + addend, pc, L!rtld_reloc_at(type, old, sym, addend, pc, stub))
    BY <2>6, RelocAt
  <2> QED BY <2>1, <2>2, <2>3, <2>7
<1>2. ASSUME job = "plt", done, ret = "ok"
      PROVE  L!TableRight(arg, out)
  <2>1. arg \in {"x86_64", "aarch64"} /\ out = L!plt_create(arg)
    BY <1>2 DEF L!RelocInv
  <2>2. PICK host \in {"x86_64", "aarch64"} : host = arg
    BY <2>1
  <2> QED BY <2>1, <2>2, TableIsRight
<1>3. ASSUME job = "plt", done, ret # "ok"
      PROVE  out = {}
  BY <1>3 DEF L!RelocInv
<1> QED BY <1>1, <1>2, <1>3 DEF L!WordsRight, L!PltRight

(* For every width of the fields and of addresses, 64 bits included, every *)
(* place, symbol, addend and old contents: after rtld_reloc_at the host CPU finds the symbol through the *)
(* word, nothing but the operand changed, and a relocation is refused      *)
(* exactly when the symbol is out of the field's reach and no stub helps.  *)
(* Every slot of a table that plt_create hands out jumps through its own   *)
(* pointer, and without memory it hands out none.                          *)
THEOREM RelocationsRight ==
  ASSUME L!RelocOK
  PROVE  L!Spec => [](L!WordsRight /\ L!PltRight)
<1>1. L!Init => L!RelocInv
  BY DEF L!Init, L!RelocInv
<1>2. L!RelocInv /\ [L!Next]_L!vars => L!RelocInv'
  BY RelocStep
<1>3. L!RelocInv => L!WordsRight /\ L!PltRight
  BY RelocDone
<1> QED BY <1>1, <1>2, <1>3, PTL DEF L!Spec
=============================================================================
