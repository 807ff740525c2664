-------------------------- MODULE CodeCacheProofs --------------------------
(***************************************************************************)
(* The client always jumps to the translation of the address the guest     *)
(* wants, for every program, code arena, table and TLB size, traced or     *)
(* not; and its dispatchers have the guest's registers where the server's  *)
(* calling conventions expect them, for any number of functions entered.   *)
(***************************************************************************)
EXTENDS CodeCache, TLAPS

(* Leaves go to Zenon, with time for a slow machine; those that need       *)
(* arithmetic or sequences name the SMT solver.                            *)
USE ZenonT(60)

(* Division rounds down.                                                   *)
LEMMA DivBounds ==
  ASSUME NEW x \in Nat, NEW d \in Nat \ {0}
  PROVE  x \div d \in Nat /\ x < (x \div d) * d + d
BY SMTT(60)

(* mem_alloc_code never goes back below brk.                               *)
LEMMA AlignUpAbove ==
  ASSUME NEW v \in Nat
  PROVE  AlignUp(v) \in Nat /\ AlignUp(v) >= v
<1> DEFINE q == (v + (Align - 1)) \div Align
<1>1. Align \in Nat \ {0} /\ v + (Align - 1) \in Nat
  BY SMTT(60), CodeCacheAssumption
<1>2. q \in Nat /\ v + (Align - 1) < q * Align + Align
  BY <1>1, DivBounds
<1>3. AlignUp(v) = q * Align
  BY DEF AlignUp
<1> HIDE DEF q
<1>4. q * Align \in Nat
  BY SMTT(60), <1>1, <1>2
<1> QED
  BY SMTT(60), <1>1, <1>2, <1>3, <1>4

(* A block that fits is a new one: nothing is there yet.                   *)
LEMMA FreshBlock ==
  ASSUME TypeOK, Placed, NEW size \in Nat \ {0}, Room(size)
  PROVE  /\ AlignUp(brk) \in Code /\ AlignUp(brk) >= brk
         /\ AlignUp(brk) + size \in 1 .. CodeEnd + 1
         /\ funcAt[AlignUp(brk)] = NULL /\ ~IsStub(AlignUp(brk))
<1>1. brk \in Nat /\ brk >= 1 /\ CodeEnd \in Nat
  BY SMTT(60), CodeCacheAssumption DEF TypeOK
<1>2. AlignUp(brk) \in Nat /\ AlignUp(brk) >= brk
  BY <1>1, AlignUpAbove
<1>3. AlignUp(brk) \in Code /\ AlignUp(brk) + size \in 1 .. CodeEnd + 1
  BY SMTT(60), <1>1, <1>2 DEF Room, Code
<1>4. ASSUME NEW c \in Code, c >= brk
      PROVE  funcAt[c] = NULL /\ ~IsStub(c)
  <2>1. ~(c < brk)
    BY SMTT(60), <1>1, <1>4 DEF Code
  <2> QED
    BY <2>1, <1>4 DEF Placed, IsStub
<1> QED
  BY <1>2, <1>3, <1>4

(* The invariant holds initially.                                          *)
LEMMA InitIInv == Init => IInv
<1> SUFFICES ASSUME Init
             PROVE  IInv
  OBVIOUS
<1> USE CodeCacheAssumption
<1>1. TypeOK
  <2>1. /\ objects \in [Addrs -> Code \cup {NULL}] /\ funcAt \in [Code -> Addrs \cup {NULL}]
        /\ target \in [Sites -> Code \cup {NULL}] /\ todo \in SUBSET Addrs
        /\ stubAt \in [Code -> PatchData \cup {NoStub}]
    BY DEF Init
  <2>2. tlb \in [0 .. TlbSize - 1 -> TlbEntry]
    BY DEF Init, TlbEntry
  <2>3. brk \in 1 .. CodeEnd + 1
    BY SMTT(60) DEF Init
  <2> QED
    BY <2>1, <2>2, <2>3 DEF Init, TypeOK
<1>2. Placed /\ PatchInBounds
  BY DEF Init, Placed, PatchInBounds, IsStub
<1>3. ObjectsRight /\ TlbRight /\ CallRight /\ ObjectRight /\ AskedRight /\ EnteredRight
  BY DEF Init, ObjectsRight, TlbRight, CallRight, Busy, ObjectRight, AskedRight, EnteredRight
<1>4. SitesRight
  <2> SUFFICES ASSUME NEW s \in Sites
               PROVE  ~Live(s) /\ target[s] = NULL
    BY DEF SitesRight
  <2>1. s[1] \in Addrs
    BY DEF Sites
  <2> QED
    BY <2>1 DEF Init, Live
<1> QED
  BY <1>1, <1>2, <1>3, <1>4 DEF IInv

(* Sites have the shape of pairs of addresses.                             *)
LEMMA SiteFacts ==
  ASSUME NEW s \in Sites
  PROVE  s[1] \in Addrs /\ s[2] \in Addrs /\ s = <<s[1], s[2]>> /\ s[2] \in Calls[s[1]]
BY SMTT(60) DEF Sites

(* A call in the code of a function is a call site, and calls an address.  *)
LEMMA SiteIntro ==
  ASSUME NEW a \in Addrs, NEW b \in Calls[a]
  PROVE  <<a, b>> \in Sites /\ b \in Addrs
BY CodeCacheAssumption DEF Sites

(* The two halves of TypeOK: what a jump sets, and what linking sets.      *)
JumpType ==
  /\ pc \in {"dispatch", "resolve", "translate", "reloc", "again", "run", "fault", "exited"}
  /\ rip \in Addrs \cup {NULL} /\ addr \in Addrs \cup {NULL} /\ patch \in Code \cup {NULL}
  /\ host \in Code \cup {NULL} /\ via \in {"dispatch", "direct"}
  /\ printed \in Addrs \cup {NULL} /\ asked \subseteq Addrs \cup {NULL}
  /\ err \in {"none", "server", "object", "code", "full", "exists", "lost"}

LinkType ==
  /\ mode \in {"plain", "trace"}
  /\ obj \in Code \cup {NULL} /\ todo \in SUBSET Addrs
  /\ objects \in [Addrs -> Code \cup {NULL}]
  /\ funcAt \in [Code -> Addrs \cup {NULL}]
  /\ stubAt \in [Code -> PatchData \cup {NoStub}]
  /\ target \in [Sites -> Code \cup {NULL}]
  /\ brk \in 1 .. CodeEnd + 1
  /\ tlb \in [0 .. TlbSize - 1 -> TlbEntry]

(* TypeOK is its two halves.                                               *)
LEMMA TypeHalves == (TypeOK <=> JumpType /\ LinkType) /\ (TypeOK' <=> JumpType' /\ LinkType')
BY DEF TypeOK, JumpType, LinkType

(* A jump leaves the linking state alone.                                  *)
LEMMA LinkFrame ==
  ASSUME LinkType, UNCHANGED <<mode, obj, todo, objects, funcAt, stubAt, target, brk, tlb>>
  PROVE  LinkType'
BY DEF LinkType

(* Type correctness.                                                       *)
LEMMA StepType ==
  ASSUME IInv, Next
  PROVE  TypeOK'
<1>0. TypeOK /\ JumpType /\ LinkType
  BY TypeHalves DEF IInv
<1>h. \A a \in Addrs \cup {NULL} : QUICK_TLB_HASH(a) \in 0 .. TlbSize - 1
  BY SMTT(60), CodeCacheAssumption DEF QUICK_TLB_HASH, NULL
<1>1. CASE \E b \in Addrs \cup {NULL} : GuestJump(b)
  <2>1. JumpType'
    BY <1>0, <1>1 DEF JumpType, GuestJump, resolving
  <2> QED
    BY <1>0, <1>1, <2>1, LinkFrame, TypeHalves DEF GuestJump, linking
<1>2. CASE DispatchHit
  <2>1. tlb[QUICK_TLB_HASH(rip)] \in TlbEntry
    BY <1>0, <1>h DEF JumpType, LinkType
  <2>2. tlb[QUICK_TLB_HASH(rip)].func \in Code \cup {NULL}
    BY <2>1 DEF TlbEntry
  <2>3. JumpType'
    BY <1>0, <1>2, <2>2 DEF JumpType, DispatchHit, resolving
  <2> QED
    BY <1>0, <1>2, <2>3, LinkFrame, TypeHalves DEF DispatchHit, linking
<1>3. CASE DispatchMiss
  <2>1. JumpType'
    BY <1>0, <1>3 DEF JumpType, DispatchMiss, NoPatch, jump
  <2> QED
    BY <1>0, <1>3, <2>1, LinkFrame, TypeHalves DEF DispatchMiss, linking
<1>4. CASE \E s \in Sites : DirectCall(s[1], s[2])
  <2>1. PICK s \in Sites : DirectCall(s[1], s[2])
    BY <1>4
  <2>2. s[1] \in Addrs /\ s[2] \in Addrs /\ s = <<s[1], s[2]>>
    BY SiteFacts
  <2>3. Live(s) /\ target[s] # NULL /\ target[s] \in Code
    BY <1>0, <2>1, <2>2 DEF DirectCall, Live, IInv, SitesRight, LinkType
  <2>4. funcAt[target[s]] = NULL => StubAddr(target[s]) \in Addrs
    <3>1. ASSUME funcAt[target[s]] = NULL
          PROVE  IsStub(target[s])
      BY <2>2, <2>3, <3>1, CodeCacheAssumption DEF IInv, SitesRight, ObjectsRight, NULL
    <3>2. IsStub(target[s]) => stubAt[target[s]] \in PatchData
      BY <1>0, <2>3 DEF LinkType, IsStub
    <3> QED
      BY <3>1, <3>2 DEF StubAddr, PatchData
  <2>5. JumpType'
    <3>1. CASE funcAt[target[s]] # NULL
      BY <1>0, <2>1, <2>2, <2>3, <3>1 DEF JumpType, DirectCall, resolving
    <3>2. CASE funcAt[target[s]] = NULL
      BY <1>0, <2>1, <2>2, <2>3, <2>4, <3>2 DEF JumpType, DirectCall
    <3> QED
      BY <3>1, <3>2
  <2> QED
    BY <1>0, <2>1, <2>5, LinkFrame, TypeHalves DEF DirectCall, linking
<1>5. CASE ResolveMiss \/ TranslatorFails
  <2>1. JumpType'
    BY <1>0, <1>5 DEF JumpType, ResolveMiss, TranslatorFails, Exit, resolving, jump
  <2> QED
    BY <1>0, <1>5, <2>1, LinkFrame, TypeHalves DEF ResolveMiss, TranslatorFails, linking
<1>6. CASE AddObject
  <2>1. JumpType'
    BY <1>0, <1>6 DEF JumpType, AddObject, OutOfCode, Exit, resolving, jump
  <2>2. CASE addr \notin Addrs \ Bad \/ ~Room(Size[addr])
    BY <1>0, <1>6, <2>1, <2>2, LinkFrame, TypeHalves DEF AddObject, linking
  <2>3. CASE ~(addr \notin Addrs \ Bad \/ ~Room(Size[addr]))
    <3>1. addr \in Addrs /\ Size[addr] \in Nat \ {0} /\ Calls[addr] \in SUBSET Addrs
      BY <2>3, CodeCacheAssumption
    <3>2. AlignUp(brk) \in Code /\ AlignUp(brk) + Size[addr] \in 1 .. CodeEnd + 1
      BY <1>0, <2>3, <3>1, FreshBlock DEF IInv
    <3>3. /\ obj' = AlignUp(brk) /\ todo' = Calls[addr] /\ brk' = AlignUp(brk) + Size[addr]
          /\ UNCHANGED <<mode, objects, funcAt, stubAt, target, tlb>>
      BY <1>6, <2>3 DEF AddObject
    <3>4. LinkType'
      BY <1>0, <3>1, <3>2, <3>3 DEF LinkType
    <3> QED
      BY <2>1, <3>4, TypeHalves
  <2> QED
    BY <2>2, <2>3
<1>7. CASE \E b \in Addrs : Relocate(b)
  <2>1. PICK b \in Addrs : Relocate(b)
    BY <1>7
  <2>2. addr \in Addrs /\ b \in Calls[addr] /\ <<addr, b>> \in Sites
    BY <2>1, SiteIntro DEF Relocate, IInv, ObjectRight
  <2>3. JumpType'
    BY <1>0, <2>1 DEF JumpType, Relocate, OutOfCode, Exit, resolving, jump
  <2>4. CASE ~Link(b) /\ ~Room(StubSize)
    BY <1>0, <2>1, <2>3, <2>4, LinkFrame, TypeHalves DEF Relocate, linking
  <2>5. CASE Link(b)
    <3>1. /\ todo' = todo \ {b} /\ target' = [target EXCEPT ![<<addr, b>>] = objects[b]]
          /\ UNCHANGED <<mode, obj, objects, funcAt, stubAt, brk, tlb>>
      BY <2>1, <2>5 DEF Relocate
    <3>2. LinkType'
      BY <1>0, <3>1 DEF LinkType
    <3> QED
      BY <2>3, <3>2, TypeHalves
  <2>6. CASE ~Link(b) /\ Room(StubSize)
    <3>1. AlignUp(brk) \in Code /\ AlignUp(brk) + StubSize \in 1 .. CodeEnd + 1
      BY <1>0, <2>6, FreshBlock, CodeCacheAssumption DEF IInv
    <3>2. obj + Off[<<addr, b>>] \in Nat
      <4>1. obj \in Nat
        BY SMTT(60), <2>1 DEF Relocate, IInv, ObjectRight, Code
      <4>2. Off[<<addr, b>>] \in Nat
        BY <2>2, CodeCacheAssumption
      <4> QED
        BY SMTT(60), <4>1, <4>2
    <3>3. PatchAt(addr, b) \in PatchData
      BY <2>2, <3>2 DEF PatchAt, PatchData
    <3>4. /\ todo' = todo \ {b} /\ brk' = AlignUp(brk) + StubSize
          /\ target' = [target EXCEPT ![<<addr, b>>] = AlignUp(brk)]
          /\ stubAt' = [stubAt EXCEPT ![AlignUp(brk)] = PatchAt(addr, b)]
          /\ UNCHANGED <<mode, obj, objects, funcAt, tlb>>
      BY <2>1, <2>6 DEF Relocate
    <3>5. LinkType'
      BY <1>0, <3>1, <3>3, <3>4 DEF LinkType
    <3> QED
      BY <2>3, <3>5, TypeHalves
  <2> QED
    BY <2>4, <2>5, <2>6
<1>8. CASE Register
  <2>1. addr \in Addrs /\ obj \in Code
    BY <1>8 DEF Register, IInv, ObjectRight
  <2>2. JumpType'
    BY <1>0, <1>8 DEF JumpType, Register, Exit, resolving, jump
  <2>3. LinkType'
    BY <1>0, <1>8, <2>1 DEF LinkType, Register, Registered
  <2> QED
    BY <2>2, <2>3, TypeHalves
<1>9. CASE Resolved
  <2>1. CASE ~Found(addr)
    <3>1. JumpType'
      BY <1>0, <1>9, <2>1 DEF JumpType, Resolved, Exit
    <3> QED
      BY <1>0, <1>9, <2>1, <3>1, LinkFrame, TypeHalves DEF Resolved, linking
  <2>2. CASE Found(addr)
    <3>1. addr \in Addrs /\ objects[addr] \in Code
      BY <1>0, <2>2 DEF JumpType, LinkType, Found
    <3>2. Cached(objects[addr]) \in [0 .. TlbSize - 1 -> TlbEntry]
      BY <1>0, <1>h, <3>1 DEF Cached, LinkType, TlbEntry
    <3>3. Patched(objects[addr]) \in [Sites -> Code \cup {NULL}]
      BY <1>0, <3>1 DEF Patched, LinkType
    <3>4. target' \in [Sites -> Code \cup {NULL}] /\ tlb' \in [0 .. TlbSize - 1 -> TlbEntry]
      BY <1>0, <1>9, <2>2, <3>2, <3>3 DEF LinkType, Resolved
    <3>5. UNCHANGED <<mode, obj, todo, funcAt, stubAt, brk, objects>>
      BY <1>9, <2>2 DEF Resolved, linking
    <3>6. LinkType'
      BY <1>0, <3>4, <3>5 DEF LinkType
    <3>7. JumpType'
      BY <1>0, <1>9, <2>2, <3>1 DEF JumpType, Resolved
    <3> QED
      BY <3>6, <3>7, TypeHalves
  <2> QED
    BY <2>1, <2>2
<1>10. CASE Stopped
  BY SMTT(60), <1>0, <1>10 DEF TypeOK, Stopped, vars, resolving, jump, linking
<1> QED
  BY <1>1, <1>2, <1>3, <1>4, <1>5, <1>6, <1>7, <1>8, <1>9, <1>10 DEF Next, Client

(* The actions that touch neither memory of the code arena nor the table.  *)
Elsewhere ==
  \/ \E b \in Addrs \cup {NULL} : GuestJump(b)
  \/ DispatchHit \/ DispatchMiss
  \/ \E s \in Sites : DirectCall(s[1], s[2])
  \/ ResolveMiss \/ TranslatorFails \/ Resolved \/ Stopped

(* The steps outside rtld_add_object leave the code arena and the table alone. *)
LEMMA ElsewhereFrame == Elsewhere => UNCHANGED <<obj, todo, funcAt, stubAt, brk, objects, asked>>
BY DEF Elsewhere, GuestJump, DispatchHit, DispatchMiss, DirectCall, ResolveMiss,
       TranslatorFails, Resolved, Stopped, vars, linking

(* A step is one of rtld_add_object's three, or leaves the arena alone.    *)
LEMMA NextCases ==
  Next => Elsewhere \/ AddObject \/ Register \/ \E b \in Addrs : Relocate(b)
BY DEF Next, Client, Elsewhere

(* What the three actions of rtld_add_object do to the code arena.         *)
LEMMA AddObjectEffect ==
  ASSUME IInv, AddObject
  PROVE  /\ UNCHANGED <<rip, addr, patch, host, via, printed, funcAt, stubAt, objects, target, tlb>>
         /\ \/ pc' = "exited" /\ UNCHANGED <<obj, todo, brk>> /\ err' \in {"code", "object"}
            \/ /\ pc' = "reloc" /\ UNCHANGED err
               /\ addr \in Addrs /\ todo' = Calls[addr] /\ Size[addr] \in Nat \ {0}
               /\ obj' \in Code /\ obj' >= brk /\ brk' = obj' + Size[addr]
               /\ funcAt[obj'] = NULL /\ ~IsStub(obj')
<1> USE CodeCacheAssumption
<1>1. CASE addr \notin Addrs \ Bad \/ ~Room(Size[addr])
  BY <1>1 DEF AddObject, OutOfCode, Exit, resolving, jump, linking
<1>2. CASE ~(addr \notin Addrs \ Bad \/ ~Room(Size[addr]))
  <2>1. addr \in Addrs /\ Size[addr] \in Nat \ {0} /\ Room(Size[addr])
    BY <1>2
  <2>2. /\ AlignUp(brk) \in Code /\ AlignUp(brk) >= brk
        /\ funcAt[AlignUp(brk)] = NULL /\ ~IsStub(AlignUp(brk))
    BY <2>1, FreshBlock DEF IInv
  <2> QED
    BY <1>2, <2>1, <2>2 DEF AddObject, resolving, jump
<1> QED
  BY <1>1, <1>2

(* rtld_elf_process_rela links one call: directly, or through a new stub.  *)
LEMMA RelocateEffect ==
  ASSUME IInv, NEW b \in Addrs, Relocate(b)
  PROVE  /\ UNCHANGED <<rip, addr, patch, host, via, printed, obj, funcAt, objects, tlb, asked>>
         /\ pc = "reloc" /\ b \in todo /\ addr \in Addrs /\ <<addr, b>> \in Sites
         /\ \/ pc' = "exited" /\ UNCHANGED <<todo, stubAt, brk, target>> /\ err' = "code"
            \/ /\ pc' = "reloc" /\ UNCHANGED err /\ todo' = todo \ {b}
               /\ \/ /\ objects[b] # NULL /\ UNCHANGED <<stubAt, brk>>
                     /\ target' = [target EXCEPT ![<<addr, b>>] = objects[b]]
                  \/ \E c \in Code :
                       /\ c >= brk /\ funcAt[c] = NULL /\ ~IsStub(c)
                       /\ stubAt' = [stubAt EXCEPT ![c] = PatchAt(addr, b)]
                       /\ target' = [target EXCEPT ![<<addr, b>>] = c]
                       /\ brk' = c + StubSize
<1> USE CodeCacheAssumption
<1>0. pc = "reloc" /\ b \in todo /\ addr \in Addrs /\ b \in Calls[addr] /\ <<addr, b>> \in Sites
  BY SiteIntro DEF Relocate, IInv, ObjectRight
<1>1. CASE ~Link(b) /\ ~Room(StubSize)
  BY <1>0, <1>1 DEF Relocate, OutOfCode, Exit, resolving, jump, linking
<1>2. CASE Link(b)
  BY <1>0, <1>2 DEF Relocate, Link, resolving, jump
<1>3. CASE ~Link(b) /\ Room(StubSize)
  <2>1. /\ AlignUp(brk) \in Code /\ AlignUp(brk) >= brk
        /\ funcAt[AlignUp(brk)] = NULL /\ ~IsStub(AlignUp(brk))
    BY <1>3, FreshBlock DEF IInv
  <2> QED
    BY <1>0, <1>3, <2>1 DEF Relocate, resolving, jump
<1> QED
  BY <1>1, <1>2, <1>3

(* The end of rtld_add_object: the object becomes a function of the table. *)
LEMMA RegisterEffect ==
  ASSUME IInv, Register
  PROVE  /\ UNCHANGED <<rip, addr, patch, host, via, printed, obj, todo, stubAt, brk, target,
                        tlb, asked>>
         /\ pc = "reloc" /\ todo = {} /\ addr \in Addrs /\ objects[addr] = NULL
         /\ obj \in Code /\ obj < brk /\ funcAt[obj] = NULL /\ ~IsStub(obj)
         /\ funcAt' = [funcAt EXCEPT ![obj] = addr]
         /\ \/ pc' = "exited" /\ UNCHANGED objects /\ err' = "full"
            \/ pc' = "again" /\ objects' = [objects EXCEPT ![addr] = obj] /\ UNCHANGED err
<1>1. pc = "reloc" /\ ObjectRight /\ brk \in Nat
  BY SMTT(60), CodeCacheAssumption DEF Register, IInv, TypeOK
<1>2. addr \in Addrs /\ obj \in Nat /\ Size[addr] \in Nat \ {0} /\ obj + Size[addr] <= brk
  <2>1. addr \in Addrs /\ obj \in Code /\ obj + Size[addr] <= brk
    BY <1>1 DEF ObjectRight
  <2> QED
    BY SMTT(60), <2>1, CodeCacheAssumption DEF Code
<1>3. obj < brk
  BY SMTT(60), <1>1, <1>2
<1> QED
  <2>1. objects[addr] = NULL /\ obj \in Code /\ funcAt[obj] = NULL /\ ~IsStub(obj)
    BY <1>1 DEF ObjectRight
  <2>2. /\ todo = {} /\ funcAt' = [funcAt EXCEPT ![obj] = addr]
        /\ UNCHANGED <<rip, addr, patch, host, via, printed, obj, todo, stubAt, brk, target,
                       tlb, asked>>
    BY DEF Register, resolving, jump
  <2>3. \/ pc' = "exited" /\ UNCHANGED objects /\ err' = "full"
        \/ pc' = "again" /\ objects' = [objects EXCEPT ![addr] = obj] /\ UNCHANGED err
    BY <2>1 DEF Register, Registered, Exit
  <2> QED
    BY <1>1, <1>2, <1>3, <2>1, <2>2, <2>3

(* Nothing in the code arena or the table is ever replaced.                *)
LEMMA StepGrows ==
  ASSUME IInv, Next
  PROVE  /\ \A c \in Code : /\ (funcAt[c] # NULL => funcAt'[c] = funcAt[c])
                            /\ (IsStub(c) => stubAt'[c] = stubAt[c])
         /\ \A a \in Addrs : objects[a] # NULL => objects'[a] = objects[a]
         /\ brk \in Nat /\ brk' \in Nat /\ brk <= brk'
<1> USE CodeCacheAssumption
<1>0. TypeOK /\ TypeOK' /\ brk \in Nat /\ brk' \in Nat
  <2>1. TypeOK /\ TypeOK'
    BY StepType DEF IInv
  <2>2. brk \in 1 .. CodeEnd + 1 /\ brk' \in 1 .. CodeEnd + 1
    BY <2>1 DEF TypeOK
  <2>3. brk \in Nat /\ brk' \in Nat
    BY SMTT(60), <2>2
  <2> QED BY <2>1, <2>3
<1>1. CASE Elsewhere
  BY SMTT(60), <1>0, <1>1, ElsewhereFrame
<1>2. CASE AddObject
  BY SMTT(60), <1>0, <1>2, AddObjectEffect DEF Code
<1>3. CASE \E b \in Addrs : Relocate(b)
  <2>1. PICK b \in Addrs : Relocate(b)
    BY <1>3
  <2>2. UNCHANGED <<funcAt, objects>>
    BY <2>1, RelocateEffect
  <2>3. CASE UNCHANGED <<stubAt, brk>>
    BY SMTT(60), <1>0, <2>2, <2>3
  <2>4. CASE \E c \in Code : /\ c >= brk /\ funcAt[c] = NULL /\ ~IsStub(c)
                           /\ stubAt' = [stubAt EXCEPT ![c] = PatchAt(addr, b)]
                           /\ brk' = c + StubSize
    <3>1. PICK c \in Code : /\ c >= brk /\ ~IsStub(c)
                           /\ stubAt' = [stubAt EXCEPT ![c] = PatchAt(addr, b)]
                           /\ brk' = c + StubSize
      BY <2>4
    <3>2. brk <= brk'
      BY SMTT(60), <1>0, <3>1 DEF Code
    <3>3. \A d \in Code : IsStub(d) => stubAt'[d] = stubAt[d]
      BY <1>0, <3>1 DEF TypeOK
    <3> QED
      BY <1>0, <2>2, <3>2, <3>3
  <2> QED
    BY <2>1, <2>3, <2>4, RelocateEffect
<1>4. CASE Register
  BY SMTT(60), <1>0, <1>4, RegisterEffect DEF TypeOK
<1> QED
  BY <1>1, <1>2, <1>3, <1>4, NextCases

(* New blocks lie above all others, new stubs know their function, and     *)
(* what a stub will patch lies below brk.                                  *)
LEMMA StepPlaced ==
  ASSUME IInv, Next
  PROVE  Placed' /\ PatchInBounds'
<1> USE CodeCacheAssumption
<1>0. TypeOK /\ TypeOK' /\ Placed /\ PatchInBounds /\ brk \in Nat /\ brk' \in Nat /\ brk <= brk'
  BY StepType, StepGrows DEF IInv
<1>1. \A c \in Code : c \in Nat /\ (IsStub(c) => stubAt[c].patch_addr \in Nat)
  BY SMTT(60), <1>0 DEF Code, TypeOK, IsStub, PatchData
<1>2. CASE UNCHANGED <<funcAt, stubAt>>
  <2>1. Placed'
    BY SMTT(60), <1>0, <1>1, <1>2 DEF Placed, IsStub
  <2>2. ASSUME NEW c \in Code, IsStub(c)
        PROVE  stubAt[c].patch_addr + RelSize <= brk'
    <3>1. stubAt[c].patch_addr + RelSize <= brk
      BY <1>0, <2>2 DEF PatchInBounds, IsStub
    <3>2. stubAt[c].patch_addr \in Nat /\ RelSize \in Nat
      BY SMTT(60), <1>1, <2>2
    <3> QED
      BY SMTT(60), <1>0, <3>1, <3>2
  <2> QED
    BY <1>2, <2>1, <2>2 DEF PatchInBounds, IsStub
<1>3. CASE \E b \in Addrs : Relocate(b)
  <2>1. PICK b \in Addrs : Relocate(b)
    BY <1>3
  <2>2. CASE UNCHANGED stubAt
    BY <1>2, <2>1, <2>2, RelocateEffect
  <2>3. CASE \E c \in Code : /\ c >= brk /\ funcAt[c] = NULL /\ ~IsStub(c)
                           /\ stubAt' = [stubAt EXCEPT ![c] = PatchAt(addr, b)]
                           /\ brk' = c + StubSize
    <3>1. PICK c \in Code : /\ c >= brk /\ funcAt[c] = NULL /\ ~IsStub(c)
                           /\ stubAt' = [stubAt EXCEPT ![c] = PatchAt(addr, b)]
                           /\ brk' = c + StubSize
      BY <2>3
    <3>2. UNCHANGED funcAt /\ addr \in Addrs /\ b \in todo /\ pc = "reloc"
      BY <2>1, RelocateEffect
    <3>3. c < brk'
      BY SMTT(60), <1>0, <1>1, <3>1
    <3>4. stubAt'[c] = PatchAt(addr, b) /\ \A d \in Code \ {c} : stubAt'[d] = stubAt[d]
      BY <1>0, <3>1 DEF TypeOK
    <3>5. PatchAt(addr, b).sym_addr = PatchAt(addr, b).site[2]
      BY DEF PatchAt
    <3>6. PatchAt(addr, b).patch_addr + RelSize <= brk'
      <4>1. PatchAt(addr, b).patch_addr = obj + Off[<<addr, b>>]
        BY DEF PatchAt
      <4>2. obj \in Code /\ obj + Size[addr] <= brk /\ b \in Calls[addr]
        BY <3>2 DEF IInv, ObjectRight
      <4>3. /\ Off[<<addr, b>>] \in Nat /\ Size[addr] \in Nat /\ Off[<<addr, b>>] < Size[addr]
            /\ obj \in Nat
        BY SMTT(60), <3>2, <4>2 DEF Code
      <4>4. RelSize \in Nat /\ RelSize <= StubSize + 1 /\ StubSize \in Nat
        BY SMTT(60)
      <4>5. ASSUME NEW o \in Nat, NEW s \in Nat, o < s, obj + s <= brk, brk + StubSize <= brk'
            PROVE  (obj + o) + RelSize <= brk'
        BY SMTT(60), <1>0, <4>3, <4>4, <4>5
      <4>6. brk + StubSize <= brk'
        BY SMTT(60), <1>0, <1>1, <3>1, <4>4
      <4> QED
        BY <4>1, <4>2, <4>3, <4>5, <4>6
    <3>7. ASSUME NEW d \in Code \ {c}, IsStub(d)
          PROVE  stubAt[d].patch_addr + RelSize <= brk' /\ d < brk' /\ funcAt[d] = NULL
                 /\ stubAt[d].sym_addr = stubAt[d].site[2]
      <4>1. stubAt[d].patch_addr + RelSize <= brk
        BY <1>0, <3>7 DEF PatchInBounds, IsStub
      <4>2. d < brk /\ funcAt[d] = NULL /\ stubAt[d].sym_addr = stubAt[d].site[2]
        BY <1>0, <3>7 DEF Placed
      <4>3. stubAt[d].patch_addr \in Nat /\ RelSize \in Nat /\ d \in Nat
        BY SMTT(60), <1>1, <3>7
      <4> QED
        BY SMTT(60), <1>0, <4>1, <4>2, <4>3
    <3>8. Placed'
      <4>1. \A d \in Code : funcAt[d] # NULL => d < brk'
        BY SMTT(60), <1>0, <1>1 DEF Placed
      <4> QED
        BY <3>1, <3>2, <3>3, <3>4, <3>5, <3>7, <4>1 DEF Placed, IsStub
    <3>9. PatchInBounds'
      BY <3>4, <3>6, <3>7 DEF PatchInBounds, IsStub
    <3> QED
      BY <3>8, <3>9
  <2> QED
    BY <2>1, <2>2, <2>3, RelocateEffect
<1>4. CASE Register
  <2>1. /\ obj \in Code /\ obj < brk /\ ~IsStub(obj) /\ UNCHANGED <<stubAt, brk>>
        /\ funcAt' = [funcAt EXCEPT ![obj] = addr]
    BY <1>4, RegisterEffect
  <2>2. \A d \in Code : d # obj => funcAt'[d] = funcAt[d]
    BY <1>0, <2>1 DEF TypeOK
  <2> QED
    BY <1>0, <2>1, <2>2 DEF Placed, PatchInBounds, IsStub
<1> QED
  BY <1>2, <1>3, <1>4, ElsewhereFrame, AddObjectEffect, NextCases

(* The table and the quick TLB name translations of the right address.     *)
LEMMA StepObjects ==
  ASSUME IInv, Next
  PROVE  ObjectsRight' /\ TlbRight'
<1>0. TypeOK /\ TypeOK' /\ ObjectsRight /\ TlbRight
  BY StepType DEF IInv
<1>1. ObjectsRight'
  <2>1. ASSUME NEW a \in Addrs, objects'[a] # NULL
        PROVE  funcAt'[objects'[a]] = a
    <3>1. CASE objects[a] # NULL
      <4>1. objects[a] \in Code /\ funcAt[objects[a]] = a /\ a # NULL
        BY <1>0, <3>1, CodeCacheAssumption DEF TypeOK, ObjectsRight, NULL
      <4> QED
        BY <3>1, <4>1, StepGrows
    <3>2. CASE objects[a] = NULL
      <4>1. Register
        BY <2>1, <3>2, ElsewhereFrame, AddObjectEffect, RelocateEffect, NextCases
      <4> QED
        BY <1>0, <2>1, <3>2, <4>1, RegisterEffect DEF TypeOK
    <3> QED
      BY <3>1, <3>2
  <2> QED
    BY <2>1 DEF ObjectsRight
<1>2. TlbRight'
  <2>1. ASSUME NEW h \in 0 .. TlbSize - 1, tlb'[h] = tlb[h]
        PROVE  IF tlb'[h].addr = NULL THEN tlb'[h].func = NULL
               ELSE tlb'[h].func # NULL /\ tlb'[h].func = objects'[tlb'[h].addr]
    <3>1. tlb[h] \in TlbEntry
      BY <1>0 DEF TypeOK
    <3>2. tlb[h].addr \in Addrs \cup {NULL}
      BY <3>1 DEF TlbEntry
    <3> QED
      BY SMTT(60), <1>0, <2>1, <3>2, StepGrows DEF TlbRight
  <2>2. CASE UNCHANGED tlb
    BY <2>1, <2>2 DEF TlbRight
  <2>3. CASE Resolved /\ Found(addr) /\ ~Trace
    <3>1. tlb' = [tlb EXCEPT ![QUICK_TLB_HASH(addr)] = [addr |-> addr, func |-> objects[addr]]]
      BY <2>3 DEF Resolved, Cached
    <3>2. addr # NULL /\ objects[addr] # NULL /\ UNCHANGED objects
      BY <2>3 DEF Resolved, Found
    <3>3. ASSUME NEW h \in 0 .. TlbSize - 1
          PROVE  IF tlb'[h].addr = NULL THEN tlb'[h].func = NULL
                 ELSE tlb'[h].func # NULL /\ tlb'[h].func = objects'[tlb'[h].addr]
      <4>1. CASE tlb'[h] = tlb[h]
        BY <2>1, <4>1
      <4>2. CASE tlb'[h] = [addr |-> addr, func |-> objects[addr]]
        BY SMTT(60), <3>2, <4>2
      <4> QED
        BY <1>0, <3>1, <4>1, <4>2 DEF TypeOK
    <3> QED
      BY <3>3 DEF TlbRight
  <2>4. Elsewhere => UNCHANGED tlb \/ (Resolved /\ Found(addr) /\ ~Trace)
    BY DEF Elsewhere, GuestJump, DispatchHit, DispatchMiss, DirectCall, ResolveMiss,
           TranslatorFails, Resolved, Cached, Stopped, vars
  <2> QED
    BY <2>2, <2>3, <2>4, AddObjectEffect, RelocateEffect, RegisterEffect, NextCases
<1> QED
  BY <1>1, <1>2

(* A site that is and stays right: its target has not changed.             *)
LEMMA SiteKept ==
  ASSUME IInv, Next, NEW s \in Sites, target'[s] = target[s], Live(s)
  PROVE  /\ target'[s] # NULL
         /\ \/ target'[s] = objects'[s[2]]
            \/ IsStub(target[s])' /\ stubAt'[target'[s]].site = s
<1>1. s[2] \in Addrs /\ target[s] # NULL /\ target[s] \in Code
  BY SiteFacts DEF IInv, SitesRight, TypeOK
<1>2. CASE target[s] = objects[s[2]]
  BY <1>1, <1>2, StepGrows
<1>3. CASE IsStub(target[s]) /\ stubAt[target[s]].site = s
  <2>1. stubAt'[target[s]] = stubAt[target[s]]
    BY <1>1, <1>3, StepGrows
  <2> QED
    BY <1>1, <1>3, <2>1 DEF IsStub
<1> QED
  BY <1>2, <1>3 DEF IInv, SitesRight

(* Outside rtld_add_object, resolve_func alone changes a call site, the    *)
(* one its stub belongs to.                                                *)
LEMMA ElsewhereSites ==
  ASSUME IInv, Next, Elsewhere
  PROVE  SitesRight'
<1>0. TypeOK /\ SitesRight /\ UNCHANGED <<objects, stubAt, todo>>
  BY ElsewhereFrame DEF IInv
<1>1. \/ (pc # "reloc" /\ pc' # "reloc" /\ pc # "exited")
      \/ UNCHANGED <<pc, addr, todo, target>>
  BY DEF Elsewhere, GuestJump, DispatchHit, DispatchMiss, DirectCall, ResolveMiss,
         TranslatorFails, Resolved, Exit, Stopped, vars, linking, resolving
<1>2. \A s \in Sites : Live(s)' <=> Live(s)
  BY <1>0, <1>1 DEF Live
<1>3. ASSUME NEW s \in Sites
      PROVE  IF Live(s)'
             THEN /\ target'[s] # NULL
                  /\ \/ target'[s] = objects'[s[2]]
                     \/ IsStub(target[s])' /\ stubAt'[target'[s]].site = s
             ELSE pc' # "exited" => target'[s] = NULL
  <2>1. CASE target'[s] = target[s]
    <3>1. CASE Live(s)
      BY <1>2, <2>1, <3>1, SiteKept
    <3>2. CASE ~Live(s)
      BY <1>0, <1>1, <1>2, <2>1, <3>2 DEF SitesRight
    <3> QED
      BY <3>1, <3>2
  <2>2. CASE target'[s] # target[s]
    <3>1. Resolved /\ Found(addr) /\ target' = Patched(objects[addr]) /\ patch # NULL
      BY <2>2 DEF Elsewhere, GuestJump, DispatchHit, DispatchMiss, DirectCall,
         ResolveMiss,
                  TranslatorFails, Resolved, Patched, Stopped, vars
    <3>2. pc \in Busy
      BY <3>1 DEF Resolved, Busy
    <3>3. /\ IsStub(patch) /\ stubAt[patch].sym_addr = addr
          /\ objects[stubAt[patch].site[1]] # NULL
      BY <3>1, <3>2 DEF IInv, CallRight
    <3>4. patch \in Code /\ stubAt[patch].sym_addr = stubAt[patch].site[2]
      BY <1>0, <3>1, <3>3 DEF IInv, Placed, TypeOK
    <3>5. s = stubAt[patch].site /\ target'[s] = objects[addr]
      BY <1>0, <2>2, <3>1 DEF Patched, TypeOK
    <3> QED
      BY <1>0, <1>2, <3>1, <3>3, <3>4, <3>5 DEF Live, Found
  <2> QED
    BY <2>1, <2>2
<1> QED
  BY <1>3 DEF SitesRight

(* rtld_add_object links the sites of the new object one by one.           *)
LEMMA StepSites ==
  ASSUME IInv, Next
  PROVE  SitesRight'
<1>0. TypeOK /\ TypeOK' /\ SitesRight
  BY StepType DEF IInv
<1>1. CASE AddObject
  <2>1. /\ UNCHANGED <<objects, target, addr>> /\ pc = "translate"
        /\ (pc' = "exited" \/ (pc' = "reloc" /\ todo' = Calls[addr]))
    BY <1>1, AddObjectEffect DEF AddObject
  <2>2. \A s \in Sites : Live(s)' <=> Live(s)
    BY <2>1, SiteFacts DEF Live
  <2>3. \A s \in Sites : ~Live(s) => target'[s] = NULL
    BY <1>0, <2>1 DEF SitesRight
  <2> QED
    BY <1>1, <2>1, <2>2, <2>3, SiteKept DEF SitesRight
<1>2. CASE \E b \in Addrs : Relocate(b)
  <2>1. PICK b \in Addrs : Relocate(b)
    BY <1>2
  <2>2. /\ UNCHANGED <<objects, addr, obj>> /\ pc = "reloc" /\ addr \in Addrs
        /\ b \in todo /\ <<addr, b>> \in Sites /\ objects[addr] = NULL
    BY <2>1, RelocateEffect DEF IInv, ObjectRight
  <2>3. CASE pc' = "exited"
    <3>1. UNCHANGED target /\ (\A s \in Sites : Live(s)' => Live(s))
      BY <2>1, <2>2, <2>3, RelocateEffect DEF Live
    <3> QED
      BY <2>3, <3>1, SiteKept DEF SitesRight
  <2>4. CASE pc' # "exited"
    <3>1. /\ pc' = "reloc" /\ todo' = todo \ {b}
          /\ \/ /\ objects[b] # NULL
                /\ target' = [target EXCEPT ![<<addr, b>>] = objects[b]]
             \/ \E c \in Code : /\ stubAt' = [stubAt EXCEPT ![c] = PatchAt(addr, b)]
                                /\ target' = [target EXCEPT ![<<addr, b>>] = c]
      BY <2>1, <2>4, RelocateEffect
    <3>2. ASSUME NEW s \in Sites, s # <<addr, b>>
          PROVE  target'[s] = target[s] /\ (Live(s)' <=> Live(s))
      <4>1. s = <<s[1], s[2]>>
        BY SiteFacts
      <4>2. target'[s] = target[s]
        BY <1>0, <3>1, <3>2 DEF TypeOK
      <4> QED
        BY <2>2, <3>1, <3>2, <4>1, <4>2 DEF Live
    <3>3. /\ Live(<<addr, b>>)'
          /\ target'[<<addr, b>>] # NULL
          /\ \/ target'[<<addr, b>>] = objects'[b]
             \/ /\ IsStub(target[<<addr, b>>])'
                /\ stubAt'[target'[<<addr, b>>]].site = <<addr, b>>
      <4>1. Live(<<addr, b>>)'
        BY <2>2, <3>1 DEF Live
      <4>2. CASE objects[b] # NULL /\ target' = [target EXCEPT ![<<addr, b>>] = objects[b]]
        BY <1>0, <2>2, <4>1, <4>2 DEF TypeOK
      <4>3. CASE \E c \in Code : /\ stubAt' = [stubAt EXCEPT ![c] = PatchAt(addr, b)]
                               /\ target' = [target EXCEPT ![<<addr, b>>] = c]
        <5>1. PICK c \in Code : /\ stubAt' = [stubAt EXCEPT ![c] = PatchAt(addr, b)]
                               /\ target' = [target EXCEPT ![<<addr, b>>] = c]
          BY <4>3
        <5>2. target'[<<addr, b>>] = c /\ stubAt'[c] = PatchAt(addr, b) /\ c # NULL
          <6>1. target'[<<addr, b>>] = c /\ stubAt'[c] = PatchAt(addr, b)
            BY <1>0, <2>2, <5>1 DEF TypeOK
          <6>2. c # NULL
            BY SMTT(60), CodeCacheAssumption DEF Code, NULL
          <6> QED
            BY <6>1, <6>2
        <5>3. PatchAt(addr, b).site = <<addr, b>> /\ PatchAt(addr, b).sym_addr = b
          BY DEF PatchAt
        <5>4. PatchAt(addr, b) # NoStub
          BY SMTT(60), <5>3, CodeCacheAssumption DEF NoStub, NULL
        <5> QED
          BY <2>2, <4>1, <5>2, <5>3, <5>4 DEF IsStub
      <4> QED
        BY <3>1, <4>2, <4>3
    <3>4. ASSUME NEW s \in Sites
          PROVE  IF Live(s)'
                 THEN /\ target'[s] # NULL
                      /\ \/ target'[s] = objects'[s[2]]
                         \/ IsStub(target[s])' /\ stubAt'[target'[s]].site = s
                 ELSE pc' # "exited" => target'[s] = NULL
      <4>1. CASE s = <<addr, b>>
        BY <2>2, <3>3, <4>1
      <4>2. CASE s # <<addr, b>>
        BY <1>0, <2>2, <3>2, <4>2, SiteKept DEF SitesRight
      <4> QED
        BY <4>1, <4>2
    <3> QED
      BY <3>4 DEF SitesRight
  <2> QED
    BY <2>3, <2>4
<1>3. CASE Register
  <2>1. /\ UNCHANGED <<target, addr, todo>> /\ pc = "reloc" /\ todo = {} /\ addr \in Addrs
        /\ objects[addr] = NULL /\ obj \in Code
        /\ \/ pc' = "exited" /\ UNCHANGED objects
           \/ pc' = "again" /\ objects' = [objects EXCEPT ![addr] = obj]
    BY <1>3, RegisterEffect
  <2>2. \A s \in Sites : Live(s)' => Live(s)
    BY <1>0, <2>1, SiteFacts DEF Live, TypeOK
  <2>3. \A s \in Sites : pc' # "exited" /\ Live(s) => Live(s)'
    <3>1. obj # NULL
      BY SMTT(60), <2>1, CodeCacheAssumption DEF Code, NULL
    <3> QED
      BY <1>0, <2>1, <3>1, SiteFacts DEF Live, TypeOK
  <2> QED
    BY <1>0, <2>1, <2>2, <2>3, SiteKept DEF SitesRight
<1> QED
  BY <1>1, <1>2, <1>3, ElsewhereSites, NextCases

(* A direct call from a registered function finds the function it names or *)
(* the stub that stands for it.                                            *)
LEMMA DirectTarget ==
  ASSUME IInv, NEW s \in Sites, objects[s[1]] # NULL
  PROVE  /\ target[s] \in Code
         /\ \/ funcAt[target[s]] = s[2] /\ s[2] # NULL
            \/ /\ funcAt[target[s]] = NULL /\ IsStub(target[s])
               /\ stubAt[target[s]].site = s /\ stubAt[target[s]].sym_addr = s[2]
<1>1. s[2] \in Addrs /\ s[2] # NULL
  BY SiteFacts, CodeCacheAssumption DEF NULL
<1>2. /\ target[s] \in Code
      /\ \/ target[s] = objects[s[2]] /\ objects[s[2]] # NULL
         \/ IsStub(target[s]) /\ stubAt[target[s]].site = s
  BY DEF IInv, TypeOK, SitesRight, Live
<1>3. objects[s[2]] # NULL => funcAt[objects[s[2]]] = s[2]
  BY <1>1 DEF IInv, ObjectsRight
<1>4. IsStub(target[s]) => /\ funcAt[target[s]] = NULL
                           /\ stubAt[target[s]].sym_addr = stubAt[target[s]].site[2]
  BY <1>2 DEF IInv, Placed
<1> QED
  BY <1>1, <1>2, <1>3, <1>4

(* resolve_func keeps working for the right address and call site.         *)
LEMMA StepCall ==
  ASSUME IInv, Next
  PROVE  CallRight'
<1>0. TypeOK /\ TypeOK' /\ CallRight
  BY StepType DEF IInv
<1> SUFFICES ASSUME pc' \in Busy
             PROVE  /\ addr' = rip'
                    /\ (patch' # NULL =>
                          /\ IsStub(patch)' /\ stubAt'[patch'].sym_addr = addr'
                          /\ target'[stubAt'[patch'].site] = patch'
                          /\ objects'[stubAt'[patch'].site[1]] # NULL)
  BY DEF CallRight
<1>1. ASSUME pc \in Busy, UNCHANGED <<addr, rip, patch>>,
             patch # NULL => target'[stubAt[patch].site] = target[stubAt[patch].site]
      PROVE  /\ addr' = rip'
             /\ (patch' # NULL =>
                   /\ IsStub(patch)' /\ stubAt'[patch'].sym_addr = addr'
                   /\ target'[stubAt'[patch'].site] = patch'
                   /\ objects'[stubAt'[patch'].site[1]] # NULL)
  <2>1. addr' = rip'
    BY <1>0, <1>1 DEF CallRight
  <2>2. ASSUME patch # NULL
        PROVE  /\ IsStub(patch)' /\ stubAt'[patch].sym_addr = addr
               /\ target'[stubAt'[patch].site] = patch
               /\ objects'[stubAt'[patch].site[1]] # NULL
    <3>1. /\ patch \in Code /\ IsStub(patch) /\ stubAt[patch].sym_addr = addr
          /\ target[stubAt[patch].site] = patch /\ objects[stubAt[patch].site[1]] # NULL
      BY <1>0, <1>1, <2>2 DEF CallRight, TypeOK
    <3>2. stubAt'[patch] = stubAt[patch] /\ stubAt[patch] # NoStub
      BY <3>1, StepGrows DEF IsStub
    <3>3. stubAt[patch].site[1] \in Addrs
      <4>1. stubAt[patch] \in PatchData
        BY <1>0, <3>1, <3>2 DEF TypeOK
      <4>2. stubAt[patch].site \in Sites
        BY <4>1 DEF PatchData
      <4> QED
        BY <4>2, SiteFacts
    <3>4. objects'[stubAt[patch].site[1]] # NULL
      BY <3>1, <3>3, StepGrows
    <3> QED
      BY <1>1, <2>2, <3>1, <3>2, <3>4 DEF IsStub
  <2> QED
    BY <1>1, <2>1, <2>2
<1>2. CASE DispatchMiss
  BY <1>2 DEF DispatchMiss, NoPatch
<1>3. CASE \E s \in Sites : DirectCall(s[1], s[2])
  <2>1. PICK s \in Sites : DirectCall(s[1], s[2])
    BY <1>3
  <2>2. s = <<s[1], s[2]>> /\ pc = "run" /\ objects[s[1]] # NULL
    BY <2>1, SiteFacts DEF DirectCall
  <2>3. funcAt[target[s]] = NULL
    BY <2>1, <2>2 DEF DirectCall, Busy
  <2>4. /\ IsStub(target[s]) /\ stubAt[target[s]].site = s
        /\ stubAt[target[s]].sym_addr = s[2]
    BY <2>2, <2>3, DirectTarget
  <2>5. /\ rip' = s[2] /\ addr' = stubAt[target[s]].sym_addr /\ patch' = target[s]
        /\ UNCHANGED <<stubAt, target, objects>>
    BY <2>1, <2>2, <2>3 DEF DirectCall, StubAddr, linking
  <2> QED
    BY <2>2, <2>4, <2>5 DEF IsStub
<1>4. CASE ResolveMiss
  BY <1>1, <1>4 DEF ResolveMiss, Busy, resolving
<1>5. CASE AddObject
  <2>1. pc \in Busy /\ UNCHANGED <<addr, rip, patch, target>>
    BY <1>5, AddObjectEffect DEF AddObject, Busy
  <2> QED
    BY <1>1, <2>1
<1>6. CASE \E b \in Addrs : Relocate(b)
  <2>1. PICK b \in Addrs : Relocate(b)
    BY <1>6
  <2>2. /\ UNCHANGED <<addr, rip, patch>> /\ pc = "reloc" /\ pc \in Busy /\ objects[addr] = NULL
        /\ \E c : target' = [target EXCEPT ![<<addr, b>>] = c]
    <3>1. UNCHANGED <<addr, rip, patch>> /\ pc = "reloc" /\ objects[addr] = NULL
      BY <2>1, RelocateEffect DEF IInv, ObjectRight
    <3>2. pc' # "exited" /\ pc \in Busy
      BY <3>1 DEF Busy
    <3> QED
      BY <2>1, <3>1, <3>2, RelocateEffect
  <2>3. ASSUME patch # NULL
        PROVE  target'[stubAt[patch].site] = target[stubAt[patch].site]
    <3>1. objects[stubAt[patch].site[1]] # NULL /\ IsStub(patch) /\ patch \in Code
      BY <1>0, <2>2, <2>3 DEF CallRight, TypeOK
    <3>2. stubAt[patch] \in PatchData
      BY <1>0, <3>1 DEF TypeOK, IsStub
    <3>3. stubAt[patch].site \in Sites /\ stubAt[patch].site # <<addr, b>>
      BY SMTT(60), <2>2, <3>1, <3>2 DEF PatchData
    <3> QED
      BY <1>0, <2>2, <3>3 DEF TypeOK
  <2> QED
    BY <1>1, <2>2, <2>3
<1>7. CASE Register
  <2>1. pc \in Busy /\ UNCHANGED <<addr, rip, patch, target>>
    BY <1>7, RegisterEffect DEF Busy
  <2> QED
    BY <1>1, <2>1
<1>8. ~(\E b \in Addrs \cup {NULL} : GuestJump(b)) /\ ~DispatchHit /\ ~TranslatorFails
      /\ ~Resolved /\ ~Stopped
  BY DEF GuestJump, DispatchHit, TranslatorFails, Resolved, Exit, Stopped, vars, Busy
<1> QED
  BY <1>2, <1>3, <1>4, <1>5, <1>6, <1>7, <1>8 DEF Next, Client

(* rtld_add_object works on an object of its own, and registers it.        *)
LEMMA StepObjectRight ==
  ASSUME IInv, Next
  PROVE  ObjectRight'
<1>0. TypeOK /\ TypeOK' /\ ObjectRight
  BY StepType DEF IInv
<1>1. CASE Elsewhere
  <2>1. UNCHANGED <<obj, todo, funcAt, stubAt, brk, objects, asked>>
    BY <1>1, ElsewhereFrame
  <2>2. pc' \notin {"reloc", "again"}
    BY <1>1 DEF Elsewhere, GuestJump, DispatchHit, DispatchMiss, DirectCall,
       ResolveMiss,
                TranslatorFails, Resolved, Exit, Stopped, vars
  <2>3. pc' = "translate" => ~Found(addr)'
    BY <1>1, <2>1 DEF Elsewhere, GuestJump, DispatchHit, DispatchMiss, DirectCall,
       ResolveMiss,
                TranslatorFails, Resolved, Exit, Stopped, vars, Found, resolving
  <2> QED
    BY <2>2, <2>3 DEF ObjectRight
<1>2. CASE AddObject
  <2>1. CASE pc' = "exited"
    BY <2>1 DEF ObjectRight
  <2>2. CASE pc' # "exited"
    <3>1. /\ pc' = "reloc" /\ UNCHANGED <<addr, objects, funcAt, stubAt>> /\ addr \in Addrs
          /\ todo' = Calls[addr] /\ obj' \in Code /\ brk' = obj' + Size[addr]
          /\ Size[addr] \in Nat /\ funcAt[obj'] = NULL /\ ~IsStub(obj')
      BY <1>2, <2>2, AddObjectEffect
    <3>2. objects[addr] = NULL
      BY <1>2, <3>1, CodeCacheAssumption DEF AddObject, IInv, ObjectRight, Found, NULL
    <3>3. obj' + Size[addr] <= brk'
      BY SMTT(60), <1>0, <3>1, CodeCacheAssumption DEF Code
    <3> QED
      BY <3>1, <3>2, <3>3 DEF ObjectRight, IsStub
  <2> QED
    BY <2>1, <2>2
<1>3. CASE \E b \in Addrs : Relocate(b)
  <2>1. PICK b \in Addrs : Relocate(b)
    BY <1>3
  <2>2. CASE pc' = "exited"
    BY <2>2 DEF ObjectRight
  <2>3. CASE pc' # "exited"
    <3>1. /\ UNCHANGED <<addr, objects, funcAt, obj>> /\ pc = "reloc" /\ pc' = "reloc"
          /\ todo' = todo \ {b} /\ addr \in Addrs
      BY <2>1, <2>3, RelocateEffect
    <3>2. /\ objects[addr] = NULL /\ obj \in Code /\ funcAt[obj] = NULL /\ ~IsStub(obj)
          /\ obj + Size[addr] <= brk /\ todo \subseteq Calls[addr]
      BY <1>0, <3>1 DEF ObjectRight
    <3>3. obj + Size[addr] <= brk' /\ obj < brk
      <4>1. Size[addr] \in Nat \ {0} /\ obj \in Nat
        BY SMTT(60), <3>1, <3>2, CodeCacheAssumption DEF Code
      <4> QED
        BY SMTT(60), <3>2, <4>1, StepGrows
    <3>4. stubAt'[obj] = stubAt[obj]
      <4>1. CASE UNCHANGED stubAt
        BY <4>1
      <4>2. CASE \E c \in Code : c >= brk /\ stubAt' = [stubAt EXCEPT ![c] = PatchAt(addr, b)]
        <5>1. PICK c \in Code : c >= brk /\ stubAt' = [stubAt EXCEPT ![c] = PatchAt(addr, b)]
          BY <4>2
        <5>2. c # obj
          BY SMTT(60), <3>2, <3>3, <5>1, StepGrows DEF Code
        <5> QED
          BY <1>0, <3>2, <5>1, <5>2 DEF TypeOK
      <4> QED
        BY <2>1, <2>3, <4>1, <4>2, RelocateEffect
    <3> QED
      BY <3>1, <3>2, <3>3, <3>4 DEF ObjectRight, IsStub
  <2> QED
    BY <2>2, <2>3
<1>4. CASE Register
  <2>1. /\ addr \in Addrs /\ UNCHANGED addr /\ obj # NULL
        /\ \/ pc' = "exited"
           \/ pc' = "again" /\ objects' = [objects EXCEPT ![addr] = obj]
    BY SMTT(60), <1>4, RegisterEffect, CodeCacheAssumption DEF Code, NULL
  <2>2. addr # NULL
    BY <2>1, CodeCacheAssumption DEF NULL
  <2> QED
    BY <1>0, <2>1, <2>2 DEF ObjectRight, Found, TypeOK
<1> QED
  BY <1>1, <1>2, <1>3, <1>4, NextCases

(* The addresses asked for are those registered, and the one in the works. *)
LEMMA StepAsked ==
  ASSUME IInv, Next
  PROVE  AskedRight'
<1>0. TypeOK /\ AskedRight /\ ObjectRight
  BY DEF IInv
<1>1. CASE Elsewhere
  <2>1. UNCHANGED <<objects, asked>>
    BY <1>1, ElsewhereFrame
  <2>2. \/ (pc # "reloc" /\ pc' # "reloc" /\ pc # "exited") \/ UNCHANGED <<pc, addr>>
    BY <1>1 DEF Elsewhere, GuestJump, DispatchHit, DispatchMiss, DirectCall,
       ResolveMiss,
                TranslatorFails, Resolved, Exit, Stopped, vars, resolving
  <2>3. err' \in {err, "server"}
    BY <1>0, <1>1 DEF Elsewhere, GuestJump, DispatchHit, DispatchMiss, DirectCall,
       ResolveMiss,
                TranslatorFails, Resolved, Exit, Stopped, vars, ObjectRight, Found
  <2> QED
    BY <1>0, <2>1, <2>2, <2>3 DEF AskedRight
<1>2. CASE AddObject
  <2>1. pc = "translate" /\ asked' = asked \cup {addr} /\ UNCHANGED <<objects, addr>>
    BY <1>2, AddObjectEffect DEF AddObject
  <2>2. \/ pc' = "exited" /\ err' \in {"code", "object"}
        \/ pc' = "reloc" /\ UNCHANGED err
    BY <1>2, AddObjectEffect
  <2> QED
    BY <1>0, <2>1, <2>2 DEF AskedRight
<1>3. CASE \E b \in Addrs : Relocate(b)
  <2>1. /\ UNCHANGED <<objects, addr, asked>> /\ pc = "reloc"
        /\ (pc' = "exited" /\ err' = "code") \/ (pc' = "reloc" /\ UNCHANGED err)
    BY <1>3, RelocateEffect
  <2> QED
    BY <1>0, <2>1 DEF AskedRight
<1>4. CASE Register
  <2>1. /\ UNCHANGED <<addr, asked>> /\ pc = "reloc" /\ addr \in Addrs /\ obj # NULL
        /\ \/ pc' = "exited" /\ err' = "full"
           \/ pc' = "again" /\ objects' = [objects EXCEPT ![addr] = obj] /\ UNCHANGED err
    BY SMTT(60), <1>4, RegisterEffect, CodeCacheAssumption DEF Code, NULL
  <2>2. CASE pc' = "exited"
    BY <1>0, <2>1, <2>2 DEF AskedRight
  <2>3. CASE pc' = "again"
    <3>1. \A a \in Addrs : objects'[a] # NULL <=> objects[a] # NULL \/ a = addr
      BY <1>0, <2>1, <2>3 DEF TypeOK
    <3>2. asked = {a \in Addrs : objects[a] # NULL} \cup {addr}
      BY <1>0, <2>1 DEF AskedRight
    <3>3. asked = {a \in Addrs : objects'[a] # NULL}
      BY <2>1, <3>1, <3>2
    <3> QED
      BY <1>0, <2>1, <2>3, <3>3 DEF AskedRight
  <2> QED
    BY <2>1, <2>2, <2>3
<1> QED
  BY <1>1, <1>2, <1>3, <1>4, NextCases

(* Every jump lands on the function the guest wants.                       *)
LEMMA StepEntered ==
  ASSUME IInv, Next
  PROVE  EnteredRight'
<1>0. TypeOK /\ TlbRight /\ ObjectsRight /\ CallRight /\ EnteredRight
  BY DEF IInv
<1>1. \A a \in Addrs : objects[a] # NULL => objects[a] \in Code /\ funcAt[objects[a]] = a
  BY <1>0 DEF TypeOK, ObjectsRight
<1>2. CASE DispatchHit
  <2> DEFINE h == QUICK_TLB_HASH(rip)
  <2>1. h \in 0 .. TlbSize - 1
    BY SMTT(60), <1>0, CodeCacheAssumption DEF TypeOK, QUICK_TLB_HASH, NULL
  <2>2. /\ tlb[h].addr = rip /\ UNCHANGED <<rip, funcAt>> /\ host' = tlb[h].func
        /\ pc' = IF tlb[h].func = NULL THEN "fault" ELSE "run"
    BY <1>2 DEF DispatchHit, TLBHit, linking
  <2> HIDE DEF h
  <2>3. IF rip = NULL THEN tlb[h].func = NULL
        ELSE tlb[h].func # NULL /\ tlb[h].func = objects[rip]
    BY <1>0, <2>1, <2>2 DEF TlbRight
  <2> QED
    BY <1>0, <1>1, <2>2, <2>3 DEF EnteredRight, TypeOK
<1>3. CASE \E s \in Sites : DirectCall(s[1], s[2])
  <2>1. PICK s \in Sites : DirectCall(s[1], s[2])
    BY <1>3
  <2>2. s = <<s[1], s[2]>> /\ pc = "run" /\ objects[s[1]] # NULL
    BY <2>1, SiteFacts DEF DirectCall
  <2>3. /\ rip' = s[2] /\ UNCHANGED funcAt
        /\ IF funcAt[target[s]] # NULL THEN host' = target[s] /\ pc' = pc ELSE pc' = "resolve"
    BY <2>1, <2>2 DEF DirectCall, linking
  <2> QED
    BY <2>2, <2>3, DirectTarget DEF EnteredRight
<1>4. CASE Resolved
  <2>1. CASE ~Found(addr)
    BY <1>4, <2>1 DEF Resolved, Exit, EnteredRight
  <2>2. CASE Found(addr)
    <3>1. addr \in Addrs /\ objects[addr] # NULL /\ addr = rip
      BY <1>0, <1>4, <2>2 DEF TypeOK, Found, Resolved, CallRight, Busy
    <3>2. host' = objects[addr] /\ pc' = "run" /\ UNCHANGED <<rip, funcAt>>
      BY <1>4, <2>2 DEF Resolved, linking
    <3> QED
      BY <1>1, <3>1, <3>2 DEF EnteredRight
  <2> QED
    BY <2>1, <2>2
<1>5. CASE Stopped
  BY <1>0, <1>5 DEF EnteredRight, Stopped, vars, jump, linking
<1>6. CASE pc' \notin {"run", "fault"}
  BY <1>6 DEF EnteredRight
<1>7. CASE AddObject \/ Register \/ \E b \in Addrs : Relocate(b)
  BY <1>6, <1>7, AddObjectEffect, RegisterEffect, RelocateEffect
<1>8. CASE \/ \E b \in Addrs \cup {NULL} : GuestJump(b)
           \/ DispatchMiss \/ ResolveMiss \/ TranslatorFails
  BY <1>6, <1>8 DEF GuestJump, DispatchMiss, ResolveMiss, TranslatorFails, Exit
<1> QED
  BY <1>2, <1>3, <1>4, <1>5, <1>7, <1>8, NextCases DEF Elsewhere

(* The invariant is inductive.                                             *)
LEMMA StepIInv == IInv /\ [Next]_vars => IInv'
<1> SUFFICES ASSUME IInv, [Next]_vars
             PROVE  IInv'
  OBVIOUS
<1>1. CASE Next
  BY <1>1, StepType, StepPlaced, StepObjects, StepSites, StepCall, StepObjectRight,
     StepAsked, StepEntered DEF IInv
<1>2. CASE UNCHANGED vars
  <2>1. UNCHANGED <<mode, pc, rip, addr, patch, host, via, printed, obj, todo, funcAt, stubAt, brk,
                    objects, target, tlb, asked, err>>
    BY <1>2 DEF vars, resolving, jump, linking
  <2>2. TypeOK'
    <3>1. JumpType /\ LinkType
      BY TypeHalves DEF IInv
    <3>2. JumpType'
      BY SMTT(60), <2>1, <3>1 DEF JumpType
    <3> QED
      BY <2>1, <3>1, <3>2, LinkFrame, TypeHalves
  <2>3. Placed' /\ PatchInBounds'
    BY <2>1 DEF IInv, Placed, PatchInBounds, IsStub
  <2>4. ObjectsRight' /\ TlbRight' /\ SitesRight'
    BY <2>1 DEF IInv, ObjectsRight, TlbRight, SitesRight, Live, IsStub
  <2>5. CallRight' /\ ObjectRight' /\ AskedRight' /\ EnteredRight'
    BY <2>1 DEF IInv, CallRight, Busy, ObjectRight, Found, AskedRight, EnteredRight, IsStub, Live
  <2> QED
    BY <2>2, <2>3, <2>4, <2>5 DEF IInv
<1> QED
  BY <1>1, <1>2

(* The inductive invariant of dispatching and linking.                     *)
THEOREM CodeCacheInvariant == Spec => []IInv
<1>1. Init => IInv
  BY InitIInv
<1>2. IInv /\ [Next]_vars => IInv'
  BY StepIInv
<1> QED
  BY <1>1, <1>2, PTL DEF Spec

(* Through the quick TLB, a full resolve, a stub or a patched call site,   *)
(* the client always runs the translation of the address the guest wants.  *)
THEOREM AlwaysEnteredRight == Spec => []EnteredRight
<1>1. IInv => EnteredRight
  BY DEF IInv
<1> QED
  BY <1>1, CodeCacheInvariant, PTL

(* rtld_patch never leaves the memory handed out by mem_alloc_code.        *)
THEOREM PatchAlwaysInBounds == Spec => []PatchInBounds
<1>1. IInv => PatchInBounds
  BY DEF IInv
<1> QED
  BY <1>1, CodeCacheInvariant, PTL

(* No address is translated twice, and registering never fails with        *)
(* -EEXIST.                                                                *)
THEOREM AlwaysAskedOnce == Spec => []AskedOnce
<1>1. IInv => AskedOnce
  <2>1. NULL \notin Addrs
    BY CodeCacheAssumption DEF NULL
  <2> QED
    BY <2>1 DEF IInv, AskedOnce, AskedRight, ObjectRight, Found
<1> QED
  BY <1>1, CodeCacheInvariant, PTL

(* Patches stay within code memory and no address is linked twice.         *)
THEOREM LinkingAlwaysSound == Spec => []LinkingSound
  BY PatchAlwaysInBounds, AlwaysAskedOnce, PTL DEF LinkingSound

(* Links and patches are final.                                            *)
THEOREM AlwaysPatchedForGood == Spec => PatchedForGood
<1>1. IInv /\ [Next]_vars =>
        [\A s \in Sites : target[s] # NULL /\ target[s] \in {objects[a] : a \in Addrs}
                            => target'[s] = target[s]]_vars
  <2> SUFFICES ASSUME IInv, Next, NEW s \in Sites, NEW a \in Addrs,
                      target[s] # NULL, target[s] = objects[a]
               PROVE  target'[s] = target[s]
    OBVIOUS
  <2>0. TypeOK
    BY DEF IInv
  <2>1. funcAt[target[s]] # NULL /\ target[s] \in Code
    BY <2>0, CodeCacheAssumption DEF IInv, TypeOK, ObjectsRight, NULL
  <2>2. ~IsStub(target[s])
    BY <2>1 DEF IInv, Placed
  <2>3. CASE \E b \in Addrs : Relocate(b)
    <3>1. PICK b \in Addrs : Relocate(b)
      BY <2>3
    <3>2. /\ pc = "reloc" /\ b \in todo /\ <<addr, b>> \in Sites /\ objects[addr] = NULL
          /\ UNCHANGED target \/ \E c : target' = [target EXCEPT ![<<addr, b>>] = c]
      <4>1. pc = "reloc" /\ b \in todo /\ <<addr, b>> \in Sites
        BY <3>1, RelocateEffect
      <4>2. UNCHANGED target \/ \E c : target' = [target EXCEPT ![<<addr, b>>] = c]
        BY <3>1, RelocateEffect
      <4>3. objects[addr] = NULL
        BY <4>1 DEF IInv, ObjectRight
      <4> QED
        BY <4>1, <4>2, <4>3
    <3>3. target[<<addr, b>>] = NULL
      BY <3>2 DEF IInv, SitesRight, Live
    <3> QED
      BY <2>0, <3>2, <3>3 DEF TypeOK
  <2>4. CASE AddObject \/ Register
    BY <2>4, AddObjectEffect, RegisterEffect
  <2>5. CASE Elsewhere
    <3>1. \/ UNCHANGED target
          \/ Resolved /\ patch # NULL /\ target' = [target EXCEPT ![stubAt[patch].site] = objects[addr]]
      BY <2>5 DEF Elsewhere, GuestJump, DispatchHit, DispatchMiss, DirectCall,
         ResolveMiss,
                  TranslatorFails, Resolved, Patched, Stopped, vars
    <3>2. ASSUME Resolved, patch # NULL
          PROVE  IsStub(patch) /\ target[stubAt[patch].site] = patch
      BY <3>2 DEF IInv, CallRight, Resolved, Busy
    <3> QED
      BY <2>0, <2>2, <3>1, <3>2 DEF TypeOK
  <2> QED
    BY <2>3, <2>4, <2>5, NextCases
<1> QED
  BY <1>1, CodeCacheInvariant, PTL DEF Spec, PatchedForGood
(* No step fills the quick TLB of a client that traces, or enters code     *)
(* through a dispatcher without printing the address.                      *)
LEMMA StepTraced ==
  ASSUME IInv, TraceUncached, DispatchTraced, [Next]_vars
  PROVE  TraceUncached' /\ DispatchTraced'
<1>0. TypeOK /\ TlbRight /\ CallRight
  BY DEF IInv
<1>1. CASE UNCHANGED vars
  BY <1>1 DEF vars, jump, TraceUncached, DispatchTraced, Trace
<1>2. CASE Next
  <2>1. UNCHANGED mode
    BY <1>2 DEF Next, Client, GuestJump, DispatchHit, DispatchMiss, DirectCall,
       ResolveMiss,
                TranslatorFails, AddObject, Relocate, Register, Resolved, Stopped, vars
  <2>2. Trace' = Trace
    BY <2>1 DEF Trace
  <2>3. TraceUncached'
    <3>1. Trace => UNCHANGED tlb
      BY <1>2 DEF Next, Client, GuestJump, DispatchHit, DispatchMiss, DirectCall,
         ResolveMiss,
                  TranslatorFails, AddObject, Relocate, Register, Resolved, Cached, Stopped, vars
    <3> QED
      BY <2>2, <3>1 DEF TraceUncached
  <2>4. DispatchTraced'
    <3> SUFFICES ASSUME Trace, pc' = "run", via' = "dispatch"
                 PROVE  printed' = rip'
      BY <2>2 DEF DispatchTraced
    <3>1. CASE DispatchHit
      <4> DEFINE h == QUICK_TLB_HASH(rip)
      <4>1. h \in 0 .. TlbSize - 1
        BY SMTT(60), <1>0, CodeCacheAssumption DEF TypeOK, QUICK_TLB_HASH, NULL
      <4>2. tlb[h].func # NULL
        BY <3>1 DEF DispatchHit
      <4> HIDE DEF h
      <4>3. tlb[h].addr = NULL
        BY <4>1 DEF TraceUncached
      <4> QED
        BY <1>0, <4>1, <4>2, <4>3 DEF TlbRight
    <3>2. CASE Resolved
      <4>1. addr = rip
        BY <1>0, <3>2 DEF CallRight, Resolved, Busy
      <4> QED
        BY <3>2, <4>1 DEF Resolved, Exit
    <3>3. CASE \E s \in Sites : DirectCall(s[1], s[2])
      BY <3>3 DEF DirectCall
    <3>4. CASE Stopped
      BY <3>4 DEF Stopped, vars
    <3>5. CASE AddObject \/ Register \/ \E b \in Addrs : Relocate(b)
      BY <3>5, AddObjectEffect, RegisterEffect, RelocateEffect
    <3>6. CASE \/ \E b \in Addrs \cup {NULL} : GuestJump(b)
               \/ DispatchMiss \/ ResolveMiss \/ TranslatorFails
      BY <3>6 DEF GuestJump, DispatchMiss, ResolveMiss, TranslatorFails, Exit
    <3> QED
      BY <1>2, <3>1, <3>2, <3>3, <3>4, <3>5, <3>6, NextCases DEF Elsewhere
  <2> QED
    BY <2>3, <2>4
<1> QED
  BY <1>1, <1>2

(* A trace is complete: every entry through a dispatcher while tracing was *)
(* printed by resolve_func, with the address the guest wanted.             *)
THEOREM AlwaysTraced == Spec => []DispatchTraced
<1>1. Init => TraceUncached /\ DispatchTraced
  BY SMTT(60) DEF Init, TraceUncached, DispatchTraced
<1>2. IInv /\ TraceUncached /\ DispatchTraced /\ [Next]_vars => TraceUncached' /\ DispatchTraced'
  BY StepTraced
<1> QED
  BY <1>1, <1>2, CodeCacheInvariant, PTL DEF Spec

-----------------------------------------------------------------------------
(* The registers at the border, in variables of their own.                 *)
CONSTANTS Archs, MaxCalls
VARIABLES d_host, guest, cc, d_pc, regs, cpu, value, calls

D == INSTANCE DispatchRegs WITH host <- d_host, pc <- d_pc

(* HHVM's registers, by the argument and by the result.                    *)
LEMMA HhvmArgs ==
  /\ D!HhvmArg[0 + 1] = "rbx" /\ D!HhvmRet[0 + 1] = "rbx"
  /\ D!HhvmArg[10 + 1] = "rax" /\ D!HhvmRet[8 + 1] = "rax"
  /\ D!HhvmArg[7 + 1] = "rcx" /\ D!HhvmRet[5 + 1] = "rcx"
  /\ D!HhvmArg[6 + 1] = "rdx" /\ D!HhvmRet[4 + 1] = "rdx"
  /\ D!HhvmArg[2 + 1] = "rbp" /\ D!HhvmRet[1 + 1] = "rbp"
  /\ D!HhvmArg[3 + 1] = "r15" /\ D!HhvmRet[13 + 1] = "r15"
  /\ D!HhvmArg[13 + 1] = "r13" /\ D!HhvmRet[11 + 1] = "r13"
  /\ D!HhvmArg[5 + 1] = "rsi" /\ D!HhvmRet[3 + 1] = "rsi"
  /\ D!HhvmArg[4 + 1] = "rdi" /\ D!HhvmRet[2 + 1] = "rdi"
  /\ D!HhvmArg[8 + 1] = "r8" /\ D!HhvmRet[6 + 1] = "r8"
  /\ D!HhvmArg[9 + 1] = "r9" /\ D!HhvmRet[7 + 1] = "r9"
  /\ D!HhvmArg[11 + 1] = "r10" /\ D!HhvmRet[9 + 1] = "r10"
  /\ D!HhvmArg[12 + 1] = "r11" /\ D!HhvmRet[10 + 1] = "r11"
BY SMTT(60) DEF D!HhvmArg, D!HhvmRet

(* What dispatch_hhvm loads them from.                                     *)
LEMMA LoadsRight ==
  /\ D!HhvmLoads["rbx"] = 0
  /\ D!HhvmLoads["rax"] = 1
  /\ D!HhvmLoads["rcx"] = 2
  /\ D!HhvmLoads["rdx"] = 3
  /\ D!HhvmLoads["rbp"] = 4
  /\ D!HhvmLoads["r15"] = 5
  /\ D!HhvmLoads["r13"] = 6
  /\ D!HhvmLoads["rsi"] = 7
  /\ D!HhvmLoads["rdi"] = 8
  /\ D!HhvmLoads["r8"] = 9
  /\ D!HhvmLoads["r9"] = 10
  /\ D!HhvmLoads["r10"] = 11
  /\ D!HhvmLoads["r11"] = 12
BY SMTT(60) DEF D!HhvmLoads

(* AAPCS64's registers.                                                    *)
LEMMA AapcsArgs ==
  /\ D!AapcsArg[0 + 1] = "x0" /\ D!AapcsArg[1 + 1] = "x1" /\ D!AapcsArg[2 + 1] = "x2"
  /\ D!AapcsArg[3 + 1] = "x3" /\ D!AapcsArg[4 + 1] = "x4" /\ D!AapcsArg[5 + 1] = "x5"
  /\ D!AapcsArg[6 + 1] = "x6" /\ D!AapcsArg[7 + 1] = "x7"
BY SMTT(60) DEF D!AapcsArg

(* What dispatch_aapcsx_loop loads them from.                              *)
LEMMA AapcsLoadsRight ==
  /\ D!AapcsLoads["x0"] = 0 /\ D!AapcsLoads["x1"] = 1 /\ D!AapcsLoads["x2"] = 2 /\ D!AapcsLoads["x3"] = 3
  /\ D!AapcsLoads["x4"] = 4 /\ D!AapcsLoads["x5"] = 5 /\ D!AapcsLoads["x6"] = 7 /\ D!AapcsLoads["x7"] = 8
BY SMTT(60) DEF D!AapcsLoads

X86Names == {"rbx", "r12", "rbp", "r15", "rdi", "rsi", "rdx", "rcx", "r8", "r9", "rax", "r10", "r11", "r13", "r14"}

(* All of them.                                                            *)
LEMMA RegNames ==
  /\ D!Range(D!HhvmArg) = X86Names
  /\ D!Range(D!AapcsArg) = {"x0", "x1", "x2", "x3", "x4", "x5", "x6", "x7", "x20"}
<1>1. \A x \in D!Range(D!HhvmArg) : x \in X86Names
  BY SMTT(60) DEF D!HhvmArg, D!Range, X86Names
<1>2. \A x \in X86Names : x \in D!Range(D!HhvmArg)
  BY SMTT(60) DEF D!HhvmArg, D!Range, X86Names
<1>3. D!Range(D!AapcsArg) = {"x0", "x1", "x2", "x3", "x4", "x5", "x6", "x7", "x20"}
  BY SMTT(60) DEF D!AapcsArg, D!Range
<1> QED BY <1>1, <1>2, <1>3

(* The conventions: HHVM on x86-64, the one for AArch64 there, and the C   *)
(* convention, which has no guest registers.                               *)
IsHhvm(h, g, c) ==
  /\ h = "x86_64" /\ g \in {"x86_64", "rv64", "aarch64"}
  /\ D!Hhvm(c) /\ c # "CDECL" /\ D!GetCallConvClientNumber(c) = 1
IsAapcs(h, g, c) ==
  /\ h = "aarch64" /\ g \in {"x86_64", "aarch64"}
  /\ ~D!Hhvm(c) /\ c # "CDECL" /\ D!GetCallConvClientNumber(c) = 3
IsC(h, g, c) ==
  /\ h \in {"x86_64", "aarch64"} /\ g \in {"x86_64", "rv64", "aarch64"}
  /\ c = "CDECL" /\ ~D!Hhvm(c) /\ D!GetCallConvClientNumber(c) = 0

(* There are no others.                                                    *)
LEMMA Conventions ==
  ASSUME D!ArchsOK, NEW h, NEW g, NEW c, D!Conv(h, g, c)
  PROVE  IsHhvm(h, g, c) \/ IsAapcs(h, g, c) \/ IsC(h, g, c)
<1>1. h \in {"x86_64", "aarch64"} /\ g \in {"x86_64", "rv64", "aarch64"}
  BY DEF D!ArchsOK, D!Conv
<1>2. c = "CDECL" => IsC(h, g, c)
  BY SMTT(60), <1>1 DEF IsC, D!Hhvm, D!GetCallConvClientNumber
<1>3. CASE c = D!GetFastCC(h, g) /\ c # "CDECL"
  BY SMTT(60), <1>1, <1>3 DEF D!GetFastCC, D!Hhvm, D!GetCallConvClientNumber, IsHhvm, IsAapcs
<1> QED BY <1>2, <1>3 DEF D!Conv

(* What a table is good for: a field's register takes the argument and     *)
(* returns it, is loaded when the loop starts, survives the dispatcher and *)
(* is no other field's.                                                    *)
Scratch == {"r14", "x16", "x17"}
Safe(h, c, r) == r \in D!AllRegs \ Scratch /\ (r \in D!Saved(c) \/ r \notin D!CallerSaved(h))
Row(h, g, c, f) ==
  /\ D!RetReg(c, f) = D!ArgReg(c, f) /\ Safe(h, c, D!ArgReg(c, f)) /\ D!ArgReg(c, f) # D!SptrReg(c)
  /\ D!ArgReg(c, f) \in DOMAIN D!Loads(c)
  /\ D!First(g, D!Loads(c)[D!ArgReg(c, f)]) = D!First(g, f[1])
Single(g, c) == \A f, e \in D!Fields(c, g) : D!ArgReg(c, f) = D!ArgReg(c, e) => f[1] = e[1]
Table(h, g, c) ==
  /\ \A f \in D!Fields(c, g) : Row(h, g, c, f)
  /\ Single(g, c)
  /\ c # "CDECL" => Safe(h, c, D!SptrReg(c)) /\ D!SptrReg(c) \notin DOMAIN D!Loads(c)

(* What main left in a slot depends on little.                             *)
LEMMA SameFirst ==
  ASSUME NEW g, NEW s, NEW t, s = 0 <=> t = 0, s = D!SpSlot(g) <=> t = D!SpSlot(g)
  PROVE  D!First(g, s) = D!First(g, t)
BY DEF D!First

(* The HHVM tables.                                                        *)
LEMMA HhvmRow ==
  ASSUME NEW g \in {"x86_64", "rv64", "aarch64"}, NEW f \in D!hhvm_fields(g)
  PROVE  /\ D!HhvmArg[f[2] + 1] = D!HhvmRet[f[3] + 1]
         /\ D!HhvmArg[f[2] + 1] \in DOMAIN D!HhvmLoads
         /\ D!HhvmArg[f[2] + 1] \notin {"r12", "r14"}
         /\ D!HhvmLoads[D!HhvmArg[f[2] + 1]] = 0 <=> f[1] = 0
         /\ D!HhvmLoads[D!HhvmArg[f[2] + 1]] = D!SpSlot(g) <=> f[1] = D!SpSlot(g)
<1>1. CASE g = "x86_64"
  BY SMTT(60), <1>1, HhvmArgs, LoadsRight DEF D!hhvm_fields, D!X, D!SpSlot, D!HhvmLoads
<1>2. CASE g = "rv64"
  BY SMTT(60), <1>2, HhvmArgs, LoadsRight DEF D!hhvm_fields, D!X, D!SpSlot, D!HhvmLoads
<1>3. CASE g = "aarch64"
  BY SMTT(60), <1>3, HhvmArgs, LoadsRight DEF D!hhvm_fields, D!X, D!SpSlot, D!HhvmLoads
<1> QED BY <1>1, <1>2, <1>3

(* No register has two fields.                                             *)
LEMMA HhvmSingle ==
  ASSUME NEW g \in {"x86_64", "rv64", "aarch64"}, NEW f \in D!hhvm_fields(g), NEW e \in D!hhvm_fields(g),
         D!HhvmArg[f[2] + 1] = D!HhvmArg[e[2] + 1]
  PROVE  f[1] = e[1]
<1>1. CASE g = "x86_64"
  BY SMTT(60), <1>1, HhvmArgs DEF D!hhvm_fields
<1>2. CASE g = "rv64"
  BY SMTT(60), <1>2, HhvmArgs DEF D!hhvm_fields, D!X
<1>3. CASE g = "aarch64"
  BY SMTT(60), <1>3, HhvmArgs DEF D!hhvm_fields, D!X
<1> QED BY <1>1, <1>2, <1>3

(* So the convention is good.                                              *)
LEMMA HhvmTable ==
  ASSUME NEW h, NEW g, NEW c, IsHhvm(h, g, c)
  PROVE  Table(h, g, c)
<1>1. /\ h = "x86_64" /\ g \in {"x86_64", "rv64", "aarch64"}
      /\ D!Hhvm(c) /\ c # "CDECL" /\ D!GetCallConvClientNumber(c) = 1
  BY DEF IsHhvm
<1>2. /\ D!Fields(c, g) = D!hhvm_fields(g) /\ D!Loads(c) = D!HhvmLoads
      /\ \A f : D!ArgReg(c, f) = D!HhvmArg[f[2] + 1] /\ D!RetReg(c, f) = D!HhvmRet[f[3] + 1]
  BY <1>1 DEF D!Fields, D!Loads, D!ArgReg, D!RetReg
<1>3. D!SptrReg(c) = "r12"
  BY SMTT(60), <1>1 DEF D!SptrReg, D!HhvmArg
<1>4. \A r \in DOMAIN D!HhvmLoads : r # "r14" => Safe(h, c, r)
  BY SMTT(60), <1>1, RegNames DEF Safe, Scratch, X86Names, D!HhvmLoads, D!AllRegs, D!X86Regs, D!Saved, D!CallerSaved
<1>5. Safe(h, c, "r12") /\ "r12" \notin DOMAIN D!HhvmLoads
  BY SMTT(60), <1>1, RegNames DEF Safe, Scratch, X86Names, D!HhvmLoads, D!AllRegs, D!X86Regs, D!Saved, D!CallerSaved
<1>6. ASSUME NEW f \in D!Fields(c, g)
      PROVE  Row(h, g, c, f)
  <2>1. PICK r : r = D!HhvmArg[f[2] + 1]
    OBVIOUS
  <2>2. /\ r = D!HhvmRet[f[3] + 1] /\ r \in DOMAIN D!HhvmLoads /\ r \notin {"r12", "r14"}
        /\ D!HhvmLoads[r] = 0 <=> f[1] = 0
        /\ D!HhvmLoads[r] = D!SpSlot(g) <=> f[1] = D!SpSlot(g)
    BY <1>1, <1>2, <1>6, <2>1, HhvmRow
  <2>3. Safe(h, c, r)
    BY <1>4, <2>2
  <2>4. D!First(g, D!HhvmLoads[r]) = D!First(g, f[1])
    BY <2>2, SameFirst
  <2>5. D!ArgReg(c, f) = r /\ D!RetReg(c, f) = r
    BY <1>2, <2>1, <2>2
  <2> QED BY <1>2, <1>3, <2>2, <2>3, <2>4, <2>5 DEF Row
<1>7. Single(g, c)
  <2>1. ASSUME NEW f \in D!Fields(c, g), NEW e \in D!Fields(c, g), D!ArgReg(c, f) = D!ArgReg(c, e)
        PROVE  f[1] = e[1]
    <3>1. f \in D!hhvm_fields(g) /\ e \in D!hhvm_fields(g)
      BY <1>2, <2>1
    <3>2. D!HhvmArg[f[2] + 1] = D!HhvmArg[e[2] + 1]
      BY SMTT(60), <1>2, <2>1
    <3>3. g \in {"x86_64", "rv64", "aarch64"}
      BY <1>1
    <3> QED BY <3>1, <3>2, <3>3, HhvmSingle
  <2> QED BY <2>1 DEF Single
<1> QED BY <1>2, <1>3, <1>5, <1>6, <1>7 DEF Table

(* The AArch64 host's tables.                                              *)
LEMMA AapcsRow ==
  ASSUME NEW g \in {"x86_64", "aarch64"}, NEW f \in D!aapcsx_fields(g)
  PROVE  /\ D!AapcsArg[f[2] + 1] = D!AapcsArg[f[3] + 1]
         /\ D!AapcsArg[f[2] + 1] \in DOMAIN D!AapcsLoads
         /\ D!AapcsLoads[D!AapcsArg[f[2] + 1]] = 0 <=> f[1] = 0
         /\ D!AapcsLoads[D!AapcsArg[f[2] + 1]] = D!SpSlot(g) <=> f[1] = D!SpSlot(g)
<1>1. CASE g = "x86_64"
  BY SMTT(60), <1>1, AapcsArgs, AapcsLoadsRight DEF D!aapcsx_fields, D!X, D!SpSlot, D!AapcsLoads
<1>2. CASE g = "aarch64"
  BY SMTT(60), <1>2, AapcsArgs, AapcsLoadsRight DEF D!aapcsx_fields, D!X, D!SpSlot, D!AapcsLoads
<1> QED BY <1>1, <1>2

(* No register has two fields.                                             *)
LEMMA AapcsSingle ==
  ASSUME NEW g \in {"x86_64", "aarch64"}, NEW f \in D!aapcsx_fields(g), NEW e \in D!aapcsx_fields(g),
         D!AapcsArg[f[2] + 1] = D!AapcsArg[e[2] + 1]
  PROVE  f[1] = e[1]
<1>1. CASE g = "x86_64"
  BY SMTT(60), <1>1, AapcsArgs DEF D!aapcsx_fields
<1>2. CASE g = "aarch64"
  BY SMTT(60), <1>2, AapcsArgs DEF D!aapcsx_fields, D!X
<1> QED BY <1>1, <1>2

(* So the convention is good.                                              *)
LEMMA AapcsTable ==
  ASSUME NEW h, NEW g, NEW c, IsAapcs(h, g, c)
  PROVE  Table(h, g, c)
<1>1. /\ h = "aarch64" /\ g \in {"x86_64", "aarch64"}
      /\ ~D!Hhvm(c) /\ c # "CDECL" /\ D!GetCallConvClientNumber(c) = 3
  BY DEF IsAapcs
<1>2. /\ D!Fields(c, g) = D!aapcsx_fields(g) /\ D!Loads(c) = D!AapcsLoads
      /\ \A f : D!ArgReg(c, f) = D!AapcsArg[f[2] + 1] /\ D!RetReg(c, f) = D!AapcsArg[f[3] + 1]
  BY <1>1 DEF D!Fields, D!Loads, D!ArgReg, D!RetReg
<1>3. D!SptrReg(c) = "x20"
  BY SMTT(60), <1>1 DEF D!SptrReg, D!AapcsArg
<1>4. \A r \in DOMAIN D!AapcsLoads : r # "x20" /\ Safe(h, c, r)
  BY SMTT(60), <1>1, RegNames DEF Safe, Scratch, D!AapcsLoads, D!AllRegs, D!A64Regs, D!Saved
<1>5. Safe(h, c, "x20") /\ "x20" \notin DOMAIN D!AapcsLoads
  BY SMTT(60), <1>1, RegNames DEF Safe, Scratch, D!AapcsLoads, D!AllRegs, D!A64Regs, D!CallerSaved
<1>6. ASSUME NEW f \in D!Fields(c, g)
      PROVE  Row(h, g, c, f)
  <2>1. PICK r : r = D!AapcsArg[f[2] + 1]
    OBVIOUS
  <2>2. /\ r = D!AapcsArg[f[3] + 1] /\ r \in DOMAIN D!AapcsLoads
        /\ D!AapcsLoads[r] = 0 <=> f[1] = 0
        /\ D!AapcsLoads[r] = D!SpSlot(g) <=> f[1] = D!SpSlot(g)
    BY <1>1, <1>2, <1>6, <2>1, AapcsRow
  <2>3. r # "x20" /\ Safe(h, c, r)
    BY <1>4, <2>2
  <2>4. D!First(g, D!AapcsLoads[r]) = D!First(g, f[1])
    BY <2>2, SameFirst
  <2>5. D!ArgReg(c, f) = r /\ D!RetReg(c, f) = r
    BY <1>2, <2>1, <2>2
  <2> QED BY <1>1, <1>2, <1>3, <2>2, <2>3, <2>4, <2>5 DEF Row
<1>7. Single(g, c)
  <2>1. ASSUME NEW f \in D!Fields(c, g), NEW e \in D!Fields(c, g), D!ArgReg(c, f) = D!ArgReg(c, e)
        PROVE  f[1] = e[1]
    <3>1. f \in D!aapcsx_fields(g) /\ e \in D!aapcsx_fields(g)
      BY <1>2, <2>1
    <3>2. D!AapcsArg[f[2] + 1] = D!AapcsArg[e[2] + 1]
      BY SMTT(60), <1>2, <2>1
    <3>3. g \in {"x86_64", "aarch64"}
      BY <1>1
    <3> QED BY <3>1, <3>2, <3>3, AapcsSingle
  <2> QED BY <2>1 DEF Single
<1> QED BY <1>2, <1>3, <1>5, <1>6, <1>7 DEF Table

(* Every convention is good.                                               *)
LEMMA TableRight ==
  ASSUME D!ArchsOK, NEW h, NEW g, NEW c, D!Conv(h, g, c)
  PROVE  Table(h, g, c)
<1>1. CASE IsC(h, g, c)
  <2>1. D!Fields(c, g) = {} /\ c = "CDECL"
    BY <1>1 DEF IsC, D!Fields
  <2> QED BY <2>1 DEF Table, Single
<1> QED BY <1>1, Conventions, HhvmTable, AapcsTable

(* The C convention has no fields.                                         *)
LEMMA NoFields == ~D!Hhvm("CDECL") /\ \A g : D!Fields("CDECL", g) = {}
<1>1. ~D!Hhvm("CDECL")
  BY SMTT(60) DEF D!Hhvm, D!GetCallConvClientNumber
<1> QED BY <1>1 DEF D!Fields

(* The loop's start.                                                       *)
Started(c, mem, u) ==
  /\ DOMAIN u = D!AllRegs
  /\ \A r \in DOMAIN D!Loads(c) \cap D!AllRegs :
       u[r] = D!Ext(mem, D!Loads(c)[r])
  /\ c # "CDECL" /\ D!SptrReg(c) \notin DOMAIN D!Loads(c) /\ D!SptrReg(c) \in D!AllRegs
       => u[D!SptrReg(c)] = <<"sptr">>

IsFirst(c, g, mem) == mem = [s \in D!Slots(c, g) |-> D!First(g, s)]

Firsts(g, mem) == \A s : D!Ext(mem, s) = D!First(g, s)

(* Slots outside the fields and the start read as zero.                    *)
LEMMA FirstRight ==
  ASSUME NEW c, NEW g \in {"x86_64", "rv64", "aarch64"}, NEW mem, IsFirst(c, g, mem)
  PROVE  Firsts(g, mem)
<1> SUFFICES ASSUME NEW s
             PROVE  D!Ext(mem, s) = D!First(g, s)
  BY DEF Firsts
<1>1. 0 \in D!Slots(c, g)
  BY DEF D!Slots
<1>2. D!SpSlot(g) \in D!Slots(c, g)
  <2>1. D!SpSlot(g) \in {0, 5, D!X(g, 2), D!X(g, 31)}
    BY SMTT(60) DEF D!SpSlot, D!X
  <2> QED BY <2>1 DEF D!Slots
<1>3. CASE s \notin DOMAIN mem
  <2>1. s # 0 /\ s # D!SpSlot(g)
    BY <1>1, <1>2, <1>3 DEF IsFirst
  <2> QED BY <1>3, <2>1 DEF D!First, D!Ext
<1>4. CASE s \in DOMAIN mem
  BY <1>4 DEF D!Ext, IsFirst
<1> QED BY <1>3, <1>4

(* So every field is in its register.                                      *)
LEMMA StartRight ==
  ASSUME D!ArchsOK, NEW h, NEW g, NEW c, D!Conv(h, g, c), NEW mem, NEW u,
         IsFirst(c, g, mem), Started(c, mem, u)
  PROVE  D!InPlace(c, g, u, mem, mem)
<1>1. Table(h, g, c)
  BY TableRight
<1>2. g \in {"x86_64", "rv64", "aarch64"}
  BY DEF D!ArchsOK, D!Conv
<1>3. ASSUME NEW f \in D!Fields(c, g)
      PROVE  u[D!ArgReg(c, f)] = mem[f[1]]
  <2>1. PICK r : r = D!ArgReg(c, f)
    OBVIOUS
  <2>2. r \in DOMAIN D!Loads(c) /\ r \in D!AllRegs /\ D!First(g, D!Loads(c)[r]) = D!First(g, f[1])
    BY <1>1, <1>3, <2>1 DEF Table, Row, Safe
  <2>3. u[r] = D!First(g, D!Loads(c)[r])
    <3>1. u[r] = D!Ext(mem, D!Loads(c)[r])
      BY <2>2 DEF Started
    <3>2. Firsts(g, mem)
      BY <1>2, FirstRight
    <3> QED BY <3>1, <3>2 DEF Firsts
  <2>4. f[1] \in D!Slots(c, g)
    BY <1>3 DEF D!Slots
  <2>5. mem[f[1]] = D!First(g, f[1])
    BY <2>4 DEF IsFirst
  <2> QED BY <2>1, <2>2, <2>3, <2>5
<1>4. c # "CDECL" => u[D!SptrReg(c)] = <<"sptr">>
  BY <1>1 DEF Table, Safe, Started
<1> QED BY <1>3, <1>4 DEF D!InPlace

(* The dispatcher's own work leaves the guest's registers alone.           *)
LEMMA CarriedRight ==
  ASSUME D!ArchsOK, NEW h, NEW g, NEW c, D!Conv(h, g, c), NEW rs, NEW u, NEW mem, NEW val,
         D!InPlace(c, g, rs, mem, val),
         c # "CDECL" => \A r : Safe(h, c, r) => u[r] = rs[r]
  PROVE  D!InPlace(c, g, u, mem, val)
<1>1. Table(h, g, c)
  BY TableRight
<1>2. ASSUME NEW f \in D!Fields(c, g)
      PROVE  u[D!ArgReg(c, f)] = val[f[1]]
  <2>1. c # "CDECL"
    BY <1>2, NoFields
  <2>2. Safe(h, c, D!ArgReg(c, f))
    BY <1>1, <1>2 DEF Table, Row
  <2>3. rs[D!ArgReg(c, f)] = val[f[1]]
    BY <1>2 DEF D!InPlace
  <2> QED BY <2>1, <2>2, <2>3
<1>3. c # "CDECL" => u[D!SptrReg(c)] = <<"sptr">>
  BY <1>1 DEF Table, D!InPlace
<1> QED BY <1>2, <1>3 DEF D!InPlace

(* What a function leaves.                                                 *)
Left(c, g, e, rs, mem, val, u, m) ==
  /\ DOMAIN rs = D!AllRegs
  /\ u = [r \in DOMAIN rs |->
            IF \E f \in D!Fields(c, g) : D!Reg(c, e, f) = r THEN val[D!FieldIn(c, g, e, r)[1]]
            ELSE IF r \in D!KeptRegs(c, e) THEN rs[r] ELSE <<"junk">>]
  /\ m = [s \in DOMAIN mem |-> IF \E f \in D!Fields(c, g) : f[1] = s THEN mem[s] ELSE val[s]]

(* A function that returns or calls puts every field in its register.      *)
LEMMA LeftRight ==
  ASSUME D!ArchsOK, NEW h, NEW g, NEW c, D!Conv(h, g, c), NEW e, NEW rs, NEW mem, NEW old,
         D!InPlace(c, g, rs, mem, old), NEW val, NEW u, NEW m, Left(c, g, e, rs, mem, val, u, m)
  PROVE  D!InPlace(c, g, u, m, val)
<1>1. Table(h, g, c)
  BY TableRight
<1>2. ASSUME NEW f \in D!Fields(c, g)
      PROVE  D!Reg(c, e, f) = D!ArgReg(c, f)
  BY <1>1, <1>2 DEF Table, Row, D!Reg
<1>3. ASSUME NEW f \in D!Fields(c, g)
      PROVE  u[D!ArgReg(c, f)] = val[f[1]]
  <2>1. PICK r : r = D!ArgReg(c, f)
    OBVIOUS
  <2>2. r \in DOMAIN rs
    BY <1>1, <1>3, <2>1 DEF Table, Row, Safe, Left
  <2>3. PICK k : k = D!FieldIn(c, g, e, r)
    OBVIOUS
  <2>4. k \in D!Fields(c, g) /\ D!Reg(c, e, k) = r
    BY <1>2, <1>3, <2>1, <2>3 DEF D!FieldIn
  <2>5. k[1] = f[1]
    <3>1. D!ArgReg(c, k) = D!ArgReg(c, f)
      BY <1>2, <2>1, <2>4
    <3> QED BY <1>1, <1>3, <2>4, <3>1 DEF Table, Single
  <2>6. u[r] = val[k[1]]
    BY <2>2, <2>3, <2>4 DEF Left
  <2> QED BY <2>1, <2>5, <2>6
<1>4. ASSUME NEW r \in D!AllRegs, r \in D!KeptRegs(c, e), \A f \in D!Fields(c, g) : D!ArgReg(c, f) # r
      PROVE  u[r] = rs[r]
  <2>1. ~ \E f \in D!Fields(c, g) : D!Reg(c, e, f) = r
    BY <1>2, <1>4
  <2> QED BY <1>4, <2>1 DEF Left
<1>5. ASSUME c # "CDECL"
      PROVE  u[D!SptrReg(c)] = <<"sptr">>
  <2>1. D!SptrReg(c) \in D!AllRegs /\ \A f \in D!Fields(c, g) : D!ArgReg(c, f) # D!SptrReg(c)
    BY <1>1, <1>5 DEF Table, Row, Safe
  <2>2. D!SptrReg(c) \in D!KeptRegs(c, e)
    BY <1>5 DEF D!KeptRegs
  <2>3. rs[D!SptrReg(c)] = <<"sptr">>
    BY <1>5 DEF D!InPlace
  <2> QED BY <1>4, <2>1, <2>2, <2>3
<1>6. ASSUME NEW s \in DOMAIN m, \A f \in D!Fields(c, g) : f[1] # s
      PROVE  m[s] = val[s]
  BY <1>6 DEF Left
<1> QED BY <1>3, <1>5, <1>6 DEF D!InPlace

(* The steps.                                                              *)
(* dispatch_hhvm, dispatch_aapcsx_loop, dispatch_cdecl_loop.               *)
LEMMA EnterStep ==
  ASSUME D!ArchsOK, D!IInv, D!EnterLoop
  PROVE  D!IInv'
<1>1. /\ D!Conv(d_host, guest, cc) /\ DOMAIN regs = D!AllRegs
      /\ cpu = [s \in D!Slots(cc, guest) |-> D!First(guest, s)] /\ value = cpu
  BY DEF D!IInv, D!EnterLoop
<1>2. /\ regs' = [r \in DOMAIN regs |->
                    IF r \in DOMAIN D!Loads(cc) THEN D!Ext(cpu, D!Loads(cc)[r])
                    ELSE (IF cc = "CDECL" THEN regs ELSE [regs EXCEPT ![D!SptrReg(cc)] = <<"sptr">>])[r]]
      /\ d_pc' = (IF D!Hhvm(cc) THEN "fullresolve" ELSE "lookup")
      /\ UNCHANGED <<d_host, guest, cc, cpu, value>>
  BY DEF D!EnterLoop
<1>3. Started(cc, cpu, regs')
  <2>1. DOMAIN regs' = D!AllRegs
    BY <1>1, <1>2
  <2>2. ASSUME NEW r \in DOMAIN D!Loads(cc) \cap D!AllRegs
        PROVE  regs'[r] = D!Ext(cpu, D!Loads(cc)[r])
    BY <1>1, <1>2, <2>2
  <2>3. ASSUME cc # "CDECL", D!SptrReg(cc) \notin DOMAIN D!Loads(cc), D!SptrReg(cc) \in D!AllRegs
        PROVE  regs'[D!SptrReg(cc)] = <<"sptr">>
    <3>1. PICK r : r = D!SptrReg(cc)
      OBVIOUS
    <3>2. regs'[r] = [regs EXCEPT ![r] = <<"sptr">>][r]
      BY <1>1, <1>2, <2>3, <3>1
    <3> QED BY <1>1, <2>3, <3>1, <3>2
  <2> QED BY <2>1, <2>2, <2>3 DEF Started
<1>4. D!InPlace(cc, guest, regs', cpu, cpu)
  <2>1. IsFirst(cc, guest, cpu)
    BY <1>1 DEF IsFirst
  <2> QED BY <1>1, <1>3, <2>1, StartRight
<1>5. d_pc' # "loop"
  BY <1>2
<1>6. DOMAIN regs' = D!AllRegs
  BY <1>3 DEF Started
<1> QED BY <1>1, <1>2, <1>4, <1>5, <1>6 DEF D!IInv

(* A step that leaves the safe registers alone.                            *)
LEMMA CarryStep ==
  ASSUME D!ArchsOK, D!IInv, d_pc # "loop", d_pc' \notin {"loop", "lookup"},
         UNCHANGED <<d_host, guest, cc, cpu, value>>, DOMAIN regs' = D!AllRegs,
         cc # "CDECL" => \A r : Safe(d_host, cc, r) => regs'[r] = regs[r]
  PROVE  D!IInv'
<1>1. D!Conv(d_host, guest, cc) /\ D!InPlace(cc, guest, regs, cpu, value)
  BY DEF D!IInv
<1>2. D!InPlace(cc, guest, regs', cpu, value)
  BY <1>1, CarriedRight
<1> QED BY <1>1, <1>2 DEF D!IInv

(* The quick TLB.                                                          *)
LEMMA LookupStep ==
  ASSUME D!ArchsOK, D!IInv, NEW hit, D!Lookup(hit)
  PROVE  D!IInv'
<1>1. /\ DOMAIN regs = D!AllRegs
      /\ d_pc # "loop" /\ d_pc' \notin {"loop", "lookup"} /\ UNCHANGED <<d_host, guest, cc, cpu, value>>
  BY DEF D!Lookup, D!IInv
<1>2. regs' = CASE cc = "CDECL" -> regs
               [] D!Hhvm(cc) -> [regs EXCEPT !["r14"] = <<"index">>]
               [] OTHER -> [regs EXCEPT !["x16"] = <<"index">>, !["x17"] = <<"func">>]
  BY DEF D!Lookup
<1>3. DOMAIN regs' = D!AllRegs
  BY <1>1, <1>2, NoFields
<1>4. ASSUME NEW r, Safe(d_host, cc, r)
      PROVE  regs'[r] = regs[r]
  <2>1. r \in D!AllRegs /\ r # "r14" /\ r # "x16" /\ r # "x17"
    BY <1>4 DEF Safe, Scratch
  <2> QED BY <1>1, <1>2, <2>1, NoFields
<1> QED BY <1>1, <1>3, <1>4, CarryStep

(* resolve_func.                                                           *)
LEMMA ResolveStep ==
  ASSUME D!ArchsOK, D!IInv, D!FullResolve
  PROVE  D!IInv'
<1>1. /\ DOMAIN regs = D!AllRegs /\ D!Conv(d_host, guest, cc)
      /\ d_pc # "loop" /\ d_pc' \notin {"loop", "lookup"} /\ UNCHANGED <<d_host, guest, cc, cpu, value>>
  BY DEF D!FullResolve, D!IInv
<1>2. regs' = [r \in DOMAIN regs |->
                IF r = D!PatchDataReg(D!GetCallConvClientNumber(cc)) THEN <<"func">>
                ELSE IF r \in D!CallerSaved(d_host) \ D!Saved(cc) THEN <<"junk">> ELSE regs[r]]
  BY DEF D!FullResolve
<1>3. DOMAIN regs' = D!AllRegs
  BY <1>1, <1>2
<1>4. ASSUME cc # "CDECL"
      PROVE  D!PatchDataReg(D!GetCallConvClientNumber(cc)) \in Scratch
  <2>1. D!GetCallConvClientNumber(cc) \in {1, 3}
    BY <1>1, <1>4, Conventions DEF IsHhvm, IsAapcs, IsC
  <2> QED BY SMTT(60), <2>1 DEF D!PatchDataReg, Scratch
<1>5. ASSUME cc # "CDECL", NEW r, Safe(d_host, cc, r)
      PROVE  regs'[r] = regs[r]
  <2>1. r \in DOMAIN regs /\ r # D!PatchDataReg(D!GetCallConvClientNumber(cc))
    BY <1>1, <1>4, <1>5 DEF Safe
  <2>2. r \notin D!CallerSaved(d_host) \ D!Saved(cc)
    BY <1>5 DEF Safe
  <2> QED BY <1>2, <2>1, <2>2
<1> QED BY <1>1, <1>3, <1>5, CarryStep

(* A translated function.                                                  *)
LEMMA FunctionStep ==
  ASSUME D!ArchsOK, D!IInv, NEW slot, NEW ending, D!Function(slot, ending)
  PROVE  D!IInv'
<1>1. /\ DOMAIN regs = D!AllRegs /\ D!Conv(d_host, guest, cc) /\ D!InPlace(cc, guest, regs, cpu, value)
  BY DEF D!Function, D!IInv
<1>2. d_pc' = "lookup" /\ UNCHANGED <<d_host, guest, cc>>
  BY DEF D!Function
<1>3. Left(cc, guest, ending, regs, cpu, value', regs', cpu')
  BY <1>1 DEF D!Function, Left
<1>4. D!InPlace(cc, guest, regs', cpu', value')
  BY <1>1, <1>3, LeftRight
<1>5. DOMAIN regs' = D!AllRegs
  BY <1>1, <1>3 DEF Left
<1> QED BY <1>1, <1>2, <1>4, <1>5 DEF D!IInv

(* The invariant holds throughout.                                         *)
LEMMA RegistersInv ==
  ASSUME D!ArchsOK
  PROVE  D!Spec => []D!IInv
<1>1. D!Init => D!IInv
  <2> SUFFICES ASSUME D!Init
               PROVE  D!IInv
    OBVIOUS
  <2>1. D!Conv(d_host, guest, cc)
    <3>1. PICK a \in Archs : d_host = a[1] /\ guest = a[2]
      BY DEF D!Init
    <3>2. a = <<a[1], a[2]>>
      BY SMTT(60), <3>1 DEF D!ArchsOK
    <3> QED BY <3>1, <3>2 DEF D!Init, D!Conv
  <2>2. d_pc = "loop" /\ DOMAIN regs = D!AllRegs
    BY DEF D!Init
  <2> QED BY <2>1, <2>2 DEF D!Init, D!IInv
<1>2. D!IInv /\ [D!Next]_D!vars => D!IInv'
  <2> SUFFICES ASSUME D!IInv, [D!Next]_D!vars
               PROVE  D!IInv'
    OBVIOUS
  <2>1. CASE UNCHANGED D!vars
    BY <2>1 DEF D!vars, D!IInv
  <2>2. CASE \E hit \in BOOLEAN : D!Lookup(hit)
    BY <2>2, LookupStep
  <2>3. CASE \E slot \in DOMAIN value, ending \in {"ret", "tail", "call"} : D!Function(slot, ending)
    BY <2>3, FunctionStep
  <2> QED BY <2>1, <2>2, <2>3, EnterStep, ResolveStep DEF D!Next, D!Finished
<1> QED BY <1>1, <1>2, PTL DEF D!Spec

(* A dispatcher is there, and its tables leave its own registers alone.    *)
LEMMA TablesFit ==
  ASSUME D!ArchsOK, NEW h, NEW g, NEW c, D!Conv(h, g, c)
  PROVE  /\ D!Available(h, D!GetCallConvClientNumber(c))
         /\ \A f \in D!Fields(c, g) :
              D!ArgReg(c, f) # D!PatchDataReg(D!GetCallConvClientNumber(c)) /\ D!ArgReg(c, f) # D!SptrReg(c)
<1>1. D!Available(h, D!GetCallConvClientNumber(c))
  BY SMTT(60), Conventions DEF IsHhvm, IsAapcs, IsC, D!Available
<1>2. ASSUME NEW f \in D!Fields(c, g)
      PROVE  D!ArgReg(c, f) # D!PatchDataReg(D!GetCallConvClientNumber(c)) /\ D!ArgReg(c, f) # D!SptrReg(c)
  <2>1. D!ArgReg(c, f) \notin Scratch /\ D!ArgReg(c, f) # D!SptrReg(c)
    BY <1>2, TableRight DEF Table, Row, Safe
  <2>2. D!GetCallConvClientNumber(c) \in {1, 3}
    BY <1>2, NoFields, Conventions DEF IsHhvm, IsAapcs, IsC
  <2>3. D!PatchDataReg(D!GetCallConvClientNumber(c)) \in Scratch
    BY SMTT(60), <2>2 DEF D!PatchDataReg, Scratch
  <2> QED BY <2>1, <2>3
<1> QED BY <1>1, <1>2

(* The server's conventions (server/callconv.cc) and the client's          *)
(* dispatchers (client/dispatch.c) agree on where every guest register is, *)
(* for every pair of architectures and any number of functions entered by  *)
(* returns, tail calls and calls, resolved or found in the quick TLB.      *)
THEOREM RegistersAgree ==
  ASSUME D!ArchsOK
  PROVE  D!Spec => []D!RegistersRight
<1>1. D!IInv => D!RegistersRight
  <2> SUFFICES ASSUME D!IInv
               PROVE  D!RegistersRight
    OBVIOUS
  <2>1. D!Conv(d_host, guest, cc) /\ (d_pc = "fn" => D!InPlace(cc, guest, regs, cpu, value))
    BY DEF D!IInv
  <2> QED BY <2>1, TablesFit DEF D!RegistersRight
<1> QED BY <1>1, RegistersInv, PTL
=============================================================================
