----------------------------- MODULE RtldTable -----------------------------
(***************************************************************************)
(* The hash table of the client's run-time linker (client/rtld.c): guest   *)
(* address to entry point, open addressing with linear probing.  rtld_set  *)
(* first finds a spot, then stores the entry and last the address, "so     *)
(* that concurrent readers only ever see valid data".  One writer and any  *)
(* number of readers (rtld_resolve) take one memory access per step.       *)
(***************************************************************************)
EXTENDS Integers

\* Definitions named X_<word> are faulty variants of X: the properties that
\* must notice them are listed with the runs.

CONSTANTS
  Addrs,      \* guest addresses
  Entries,    \* entry points of translated functions
  TableSize,  \* 1 << RTLD_HASH_BITS
  Readers,    \* concurrent callers of rtld_resolve
  None

ASSUME TableAssumption ==
  /\ Addrs \subseteq Nat \ {0}
  /\ TableSize \in Nat \ {0}
  /\ None \notin Entries

Empty == 0   \* "0 is reserved for empty"
Slots == 0 .. TableSize - 1

RTLD_HASH(a) == (a \div 4) % TableSize
Probe(a, i) == (RTLD_HASH(a) + i) % TableSize

VARIABLES
  addr,   \* [Slots -> Addrs \cup {Empty}]
  entry,  \* [Slots -> Entries \cup {None}]
  w,      \* the call of rtld_set: pc, addr, entry, i and the result ret
  r,      \* the call of rtld_resolve of each reader
  known   \* history: the entry each address was registered with

vars == <<addr, entry, w, r, known>>

Writer == [pc : {"idle", "probe", "entry", "addr"}, addr : Addrs \cup {Empty},
           entry : Entries \cup {None}, i : 0 .. TableSize,
           ret : {"0", "EEXIST", "ENOSPC"}]
Reader == [pc : {"idle", "probe", "load"}, addr : Addrs \cup {Empty},
           i : 0 .. TableSize, there : BOOLEAN,
           ret : {"none", "0", "ENOENT"}, out : Entries \cup {None}]

Init ==
  /\ addr = [j \in Slots |-> Empty]
  /\ entry = [j \in Slots |-> None]
  /\ w = [pc |-> "idle", addr |-> Empty, entry |-> None, i |-> 0, ret |-> "0"]
  /\ r = [t \in Readers |-> [pc |-> "idle", addr |-> Empty, i |-> 0,
                             there |-> FALSE, ret |-> "none", out |-> None]]
  /\ known = [a \in Addrs |-> None]
-----------------------------------------------------------------------------
(* rtld_set.                                                               *)

rtld_set(a, e) ==
  /\ w.pc = "idle"
  /\ w' = [pc |-> "probe", addr |-> a, entry |-> e, i |-> 0, ret |-> "0"]
  /\ UNCHANGED <<addr, entry, r, known>>

Return(ret) == w' = [w EXCEPT !.pc = "idle", !.ret = ret]

(* The loop covers the whole table.                                        *)
LastProbe == TableSize

(* The slot holds the address to be added.                                 *)
Taken_ignored(a) == FALSE
Taken(a) == a = w.addr

(* Load the address of the next slot.                                      *)
SetProbe ==
  LET a == addr[Probe(w.addr, w.i)]
  IN  /\ w.pc = "probe"
      /\ \/ w.i >= LastProbe /\ Return("ENOSPC")
         \/ w.i < LastProbe /\ Taken(a) /\ Return("EEXIST")
         \/ w.i < LastProbe /\ a = Empty /\ w' = [w EXCEPT !.pc = "entry"]
         \/ /\ w.i < LastProbe /\ a # Empty /\ ~Taken(a)
            /\ w' = [w EXCEPT !.i = @ + 1]
      /\ UNCHANGED <<addr, entry, r, known>>

Publish == addr' = [addr EXCEPT ![Probe(w.addr, w.i)] = w.addr]
StoreEntry == entry' = [entry EXCEPT ![Probe(w.addr, w.i)] = w.entry]

(* Store the entry (and base and size), then the address.                  *)
SetStores_swapped ==
  \/ /\ w.pc = "entry" /\ Publish
     /\ w' = [w EXCEPT !.pc = "addr"]
     /\ known' = [known EXCEPT ![w.addr] = w.entry]
     /\ UNCHANGED <<entry, r>>
  \/ /\ w.pc = "addr" /\ StoreEntry /\ Return("0")
     /\ UNCHANGED <<addr, r, known>>
SetStores ==
  \/ /\ w.pc = "entry" /\ StoreEntry
     /\ w' = [w EXCEPT !.pc = "addr"]
     /\ UNCHANGED <<addr, r, known>>
  \/ /\ w.pc = "addr" /\ Publish /\ Return("0")
     /\ known' = [known EXCEPT ![w.addr] = w.entry]
     /\ UNCHANGED <<entry, r>>
-----------------------------------------------------------------------------
(* rtld_resolve by reader t; "there" records whether the address was       *)
(* registered when the call began.                                         *)

rtld_resolve(t, a) ==
  /\ r[t].pc = "idle"
  /\ r' = [r EXCEPT ![t] = [pc |-> "probe", addr |-> a, i |-> 0,
                            there |-> known[a] # None, ret |-> "none", out |-> None]]
  /\ UNCHANGED <<addr, entry, w, known>>

Answer(t, ret, e) ==
  r' = [r EXCEPT ![t].pc = "idle", ![t].ret = ret, ![t].out = e]

ResolveLast_short == TableSize - 1
ResolveLast == TableSize
NextProbe_wrapped(i) == (i + 1) % TableSize
NextProbe(i) == i + 1

ResolveProbe(t) ==
  LET a == addr[Probe(r[t].addr, r[t].i)]
  IN  /\ r[t].pc = "probe"
      /\ \/ r[t].i >= ResolveLast /\ Answer(t, "ENOENT", None)
         \/ r[t].i < ResolveLast /\ a = Empty /\ Answer(t, "ENOENT", None)
         \/ r[t].i < ResolveLast /\ a = r[t].addr /\ r' = [r EXCEPT ![t].pc = "load"]
         \/ /\ r[t].i < ResolveLast /\ a \notin {r[t].addr, Empty}
            /\ r' = [r EXCEPT ![t].i = NextProbe(@)]
      /\ UNCHANGED <<addr, entry, w, known>>

ResolveLoad(t) ==
  /\ r[t].pc = "load"
  /\ Answer(t, "0", entry[Probe(r[t].addr, r[t].i)])
  /\ UNCHANGED <<addr, entry, w, known>>

SetStep == SetProbe \/ SetStores
ResolveStep(t) == ResolveProbe(t) \/ ResolveLoad(t)

Next == \/ \E a \in Addrs, e \in Entries : rtld_set(a, e)
        \/ SetStep
        \/ \E t \in Readers : ResolveStep(t) \/ \E a \in Addrs : rtld_resolve(t, a)

(* A thread that is inside one of the two functions goes on.               *)
Spec == /\ Init /\ [][Next]_vars
        /\ WF_vars(SetStep) /\ \A t \in Readers : WF_vars(ResolveStep(t))
-----------------------------------------------------------------------------
(* Type invariant.                                                         *)
TypeOK ==
  /\ addr \in [Slots -> Addrs \cup {Empty}]
  /\ entry \in [Slots -> Entries \cup {None}]
  /\ w \in Writer
  /\ r \in [Readers -> Reader]
  /\ known \in [Addrs -> Entries \cup {None}]

(* A concurrent rtld_resolve that finds an address gets the entry it was   *)
(* registered with: "concurrent readers only ever see valid data".         *)
ReadersSeeValid ==
  \A t \in Readers : r[t].ret = "0" => r[t].out # None /\ r[t].out = known[r[t].addr]

(* An address that was registered before rtld_resolve was called is found, *)
(* however many other addresses collide with it or are added meanwhile.    *)
RegisteredIsFound ==
  \A t \in Readers : r[t].ret = "ENOENT" => ~r[t].there

(* rtld_set gives up only if there is really no room.                      *)
FullOnlyWhenFull == w.ret = "ENOSPC" => \A j \in Slots : addr[j] # Empty

(* Neither call gives up too early: what was registered is found, and what *)
(* is refused for lack of room has no room.                                *)
GivesUpRightly == RegisteredIsFound /\ FullOnlyWhenFull

(* rtld_set refuses an address only if it has an entry already.            *)
ExistsOnlyWhenKnown ==
  w.pc = "idle" /\ w.ret = "EEXIST" => known[w.addr] # None

(* An entry point once registered is never changed.                        *)
EntriesStay == [][\A a \in Addrs : known[a] # None => known'[a] = known[a]]_vars

(* Every call of rtld_resolve and rtld_set returns, even on a full table.  *)
CallsReturn == /\ w.pc # "idle" ~> w.pc = "idle"
               /\ \A t \in Readers : r[t].pc # "idle" ~> r[t].pc = "idle"
-----------------------------------------------------------------------------
(* a sits in the i-th slot of its probe sequence and no earlier slot of it *)
(* is empty or holds a as well.                                            *)
AtProbe(a, i) ==
  /\ addr[Probe(a, i)] = a
  /\ entry[Probe(a, i)] = known[a]
  /\ \A k \in 0 .. i - 1 : addr[Probe(a, k)] \notin {Empty, a}

(* Registered addresses can be reached, and no others are in the table.    *)
ChainInv ==
  /\ \A a \in Addrs : known[a] # None => \E i \in Slots : AtProbe(a, i)
  /\ \A a \in Addrs, i \in Slots : addr[Probe(a, i)] = a => known[a] # None

(* What the writer knows about the slots it has passed.                    *)
WriterInv ==
  /\ w.pc # "idle" => w.addr \in Addrs /\ w.entry \in Entries
  /\ w.ret = "EEXIST" => w.pc = "idle" /\ w.addr \in Addrs
  /\ w.ret = "ENOSPC" => w.pc = "idle"
  /\ w.pc # "idle" => \A k \in 0 .. w.i - 1 : addr[Probe(w.addr, k)] \notin {Empty, w.addr}
  /\ w.pc \in {"entry", "addr"} => w.i < TableSize /\ addr[Probe(w.addr, w.i)] = Empty
  /\ w.pc = "addr" => entry[Probe(w.addr, w.i)] = w.entry

(* What reader t knows, and that what it returned is right.                *)
ReaderOK(t) ==
  /\ r[t].pc # "idle" => r[t].addr \in Addrs /\ r[t].ret = "none"
  /\ r[t].pc # "idle" => \A k \in 0 .. r[t].i - 1 : addr[Probe(r[t].addr, k)] \notin {Empty, r[t].addr}
  /\ r[t].pc = "load" => r[t].i < TableSize /\ addr[Probe(r[t].addr, r[t].i)] = r[t].addr
  /\ r[t].there => r[t].addr \in Addrs /\ known[r[t].addr] # None
  /\ r[t].ret = "0" => /\ r[t].addr \in Addrs /\ r[t].out # None
                       /\ r[t].out = known[r[t].addr]
  /\ r[t].ret = "ENOENT" => ~r[t].there

ReaderInv == \A t \in Readers : ReaderOK(t)

(* The inductive invariant behind ReadersSeeValid, RegisteredIsFound and   *)
(* the truth of what rtld_set returns.                                     *)
IInv == /\ TypeOK /\ ChainInv /\ WriterInv /\ ReaderInv
        /\ FullOnlyWhenFull /\ ExistsOnlyWhenKnown
=============================================================================
