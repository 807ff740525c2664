----------------------------- MODULE CodeCache -----------------------------
(***************************************************************************)
(* How the client gets from a guest address to translated code             *)
(* (client/dispatch.c and the linking half of client/rtld.c, x86-64 host): *)
(* the quick TLB, resolve_func, rtld_add_object with its relocations, the  *)
(* stubs for functions that are not translated yet, and rtld_patch, which  *)
(* replaces a stub by a direct jump once its target is known.              *)
(*                                                                         *)
(* The client runs one thread, so a handler is a chain of steps ordered by *)
(* pc.  Code addresses are units of the code arena (Memory), 0 is NULL.    *)
(* The hash table of RtldTable appears as the map objects.                 *)
(***************************************************************************)
EXTENDS Integers, FiniteSets

\* Definitions named X_<word> are faulty variants of X: the properties that
\* must notice them are listed with the runs.

CONSTANTS
  Addrs,      \* guest addresses of functions; 0 is the guest's NULL
  Bad,        \* those the server cannot lift: it answers with an empty object
  Calls,      \* [Addrs -> SUBSET Addrs]: the functions named by an object
  Size,       \* [Addrs -> Nat]: allocated size of an object
  Off,        \* [Addrs \X Addrs -> Nat]: r_offset of the relocation
  StubSize,   \* 0x10 + sizeof(struct RtldPatchData)
  RelSize,    \* rel_size, 8
  Align,      \* 0x40
  CodeEnd,    \* end of the code arena
  TableSize,  \* 1 << RTLD_HASH_BITS
  TlbSize     \* 1 << QUICK_TLB_BITS

ASSUME CodeCacheAssumption ==
  /\ Addrs \subseteq Nat \ {0} /\ Bad \subseteq Addrs
  /\ Calls \in [Addrs -> SUBSET Addrs]
  /\ Size \in [Addrs -> Nat \ {0}]
  /\ Off \in [Addrs \X Addrs -> Nat]
  \* rtld_elf_process_rela refuses r_offset >= sh_size
  /\ \A a \in Addrs : \A b \in Calls[a] : Off[<<a, b>>] < Size[a]
  /\ StubSize \in Nat \ {0} /\ RelSize \in 0 .. StubSize + 1
  /\ Align \in Nat \ {0} /\ CodeEnd \in Nat /\ TableSize \in Nat
  /\ TlbSize \in Nat \ {0}

NULL == 0
Code == 1 .. CodeEnd
Sites == {s \in Addrs \X Addrs : s[2] \in Calls[s[1]]}

(* struct RtldPatchData: the function wanted and the place to patch, which *)
(* patch_addr gives as a code address.                                     *)
PatchData == [sym_addr : Addrs, site : Sites, patch_addr : Nat]
NoStub == [sym_addr |-> NULL]

VARIABLES
  mode,      \* "trace" with tc_print_trace, else "plain"
  pc,        \* where the client is, see TypeOK
  rip,       \* the guest address the guest means to execute
  addr,      \* the argument of resolve_func, after patch_data was looked at
  patch,     \* patch_data: the stub that called, or NULL
  host,      \* the code address jumped to last
  via,       \* how: "dispatch" through a dispatcher, "direct" from a site
  printed,   \* what print_trace printed for the last jump, or NULL
  obj,       \* base of the object rtld_add_object works on
  todo,      \* its relocations not processed yet
  objects,   \* [Addrs -> Code \cup {NULL}]: the table of rtld_set
  funcAt,    \* [Code -> Addrs \cup {NULL}]: entries of copied functions
  stubAt,    \* [Code -> PatchData \cup {NoStub}]: stubs
  target,    \* [Sites -> Code \cup {NULL}]: where each call site jumps
  brk,       \* end of the last allocation in the code arena
  tlb,       \* quick_tlb: [0 .. TlbSize - 1 -> [addr, func]]
  asked,     \* history: the addresses the server has been asked for
  err        \* why the client exited

resolving == <<addr, patch>>
linking == <<obj, todo, funcAt, stubAt, brk>>
jump == <<host, via, printed>>
vars == <<mode, pc, rip, resolving, jump, linking, objects, target, tlb, asked, err>>

Trace == mode = "trace"

QUICK_TLB_HASH(a) == (a \div 16) % TlbSize

(* main: the server has sent its configuration; memset clears the CPU      *)
(* state, so the quick TLB maps 0 to NULL; the first address is the entry  *)
(* point of the program.                                                   *)
Init ==
  /\ mode \in {"plain", "trace"}
  /\ pc = "dispatch" /\ rip \in Addrs
  /\ addr = NULL /\ patch = NULL
  /\ host = NULL /\ via = "dispatch" /\ printed = NULL
  /\ obj = NULL /\ todo = {}
  /\ objects = [a \in Addrs |-> NULL]
  /\ funcAt = [c \in Code |-> NULL]
  /\ stubAt = [c \in Code |-> NoStub]
  /\ target = [s \in Sites |-> NULL]
  /\ brk = 1
  /\ tlb = [h \in 0 .. TlbSize - 1 |-> [addr |-> NULL, func |-> NULL]]
  /\ asked = {} /\ err = "none"

(* error: _exit(0).                                                        *)
Exit(why) == pc' = "exited" /\ err' = why
-----------------------------------------------------------------------------
(* The dispatchers.                                                        *)

(* Translated code leaves for a computed address: it returns to the loop   *)
(* or calls instrew_quick_dispatch.  The guest may also jump to 0.         *)
GuestJump(b) ==
  /\ pc = "run"
  /\ pc' = "dispatch" /\ rip' = b /\ via' = "dispatch"
  /\ UNCHANGED <<resolving, host, printed, linking, objects, target, tlb, asked, err, mode>>

TLBHit_any(a) == tlb[QUICK_TLB_HASH(a)].func # NULL

TLBHit(a) == tlb[QUICK_TLB_HASH(a)].addr = a

(* dispatch_hhvm_tail, dispatch_cdecl: the address is in the quick TLB.    *)
(* The cleared TLB "holds" address 0, and the client then jumps to NULL.   *)
DispatchHit ==
  /\ pc = "dispatch" /\ TLBHit(rip)
  /\ LET func == tlb[QUICK_TLB_HASH(rip)].func
     IN  /\ pc' = IF func = NULL THEN "fault" ELSE "run"
         /\ host' = func /\ printed' = NULL
  /\ UNCHANGED <<rip, resolving, via, linking, objects, target, tlb, asked, err, mode>>

NoPatch_stale ==
  LET ran == {c \in Code : stubAt[c] # NoStub /\ target[stubAt[c].site] # c}
  IN  IF ran = {} THEN NULL ELSE CHOOSE c \in ran : TRUE

(* xor r14, r14: "zero patch data".                                        *)
NoPatch == NULL

(* ... it is not: resolve_func(cpu_state, addr, NULL).                     *)
DispatchMiss ==
  /\ pc = "dispatch" /\ ~TLBHit(rip)
  /\ pc' = "resolve" /\ addr' = rip /\ patch' = NoPatch
  /\ UNCHANGED <<rip, jump, linking, objects, target, tlb, asked, err, mode>>

(* if (patch_data) addr = patch_data->sym_addr.                            *)
StubAddr(stub) == stubAt[stub].sym_addr

(* Translated code of a calls the function b by name (UpdateCallRet).      *)
(* Every registered function has run and may be running still, as a caller *)
(* of the current one.  A stub jumps to the full dispatcher with its patch *)
(* data: resolve_func(cpu_state, undefined, patch_data).                   *)
DirectCall(a, b) ==
  /\ pc = "run" /\ objects[a] # NULL
  /\ rip' = b /\ via' = "direct"
  /\ LET tgt == target[<<a, b>>]
     IN  IF funcAt[tgt] # NULL
         THEN /\ host' = tgt /\ printed' = NULL
              /\ UNCHANGED <<pc, resolving>>
         ELSE /\ pc' = "resolve"
              /\ addr' = StubAddr(tgt) /\ patch' = tgt
              /\ UNCHANGED <<host, printed>>
  /\ UNCHANGED <<linking, objects, target, tlb, asked, err, mode>>
-----------------------------------------------------------------------------
(* resolve_func.                                                           *)

Found(a) == a # NULL /\ objects[a] # NULL

(* The first rtld_resolve finds nothing.                                   *)
ResolveMiss ==
  /\ pc = "resolve" /\ ~Found(addr)
  /\ pc' = "translate"
  /\ UNCHANGED <<rip, resolving, jump, linking, objects, target, tlb, asked, err, mode>>

AlignUp(v) == ((v + (Align - 1)) \div Align) * Align

Room(size) == AlignUp(brk) + size <= CodeEnd + 1

(* translator_get fails: the server is gone.                               *)
TranslatorFails ==
  /\ pc = "translate"
  /\ Exit("server")
  /\ UNCHANGED <<rip, resolving, jump, linking, objects, target, tlb, asked, mode>>

OutOfCode_retried == IF pc = "reloc" THEN UNCHANGED <<pc, err>> ELSE Exit("code")

(* mem_alloc_code: -ENOMEM.                                                *)
OutOfCode == Exit("code")

(* translator_get, and the first pass of rtld_add_object: rtld_elf_init    *)
(* refuses the empty object, mem_alloc_code may be out of memory.          *)
AddObject ==
  /\ pc = "translate"
  /\ asked' = asked \cup {addr}
  /\ IF addr \notin Addrs \ Bad \/ ~Room(Size[addr])
     THEN /\ IF addr \in Addrs \ Bad THEN OutOfCode ELSE Exit("object")
          /\ UNCHANGED linking
     ELSE /\ pc' = "reloc" /\ obj' = AlignUp(brk) /\ todo' = Calls[addr]
          /\ brk' = AlignUp(brk) + Size[addr]
          /\ UNCHANGED <<funcAt, stubAt, err>>
  /\ UNCHANGED <<rip, resolving, jump, objects, target, tlb, mode>>

(* rtld_elf_resolve_sym: "we got it already", or a stub is needed.         *)
Link(b) == objects[b] # NULL

PatchAt_stub(a, b) ==
  [sym_addr |-> b, site |-> <<a, b>>, patch_addr |-> AlignUp(brk) + Off[<<a, b>>]]

PatchAt(a, b) == [sym_addr |-> b, site |-> <<a, b>>, patch_addr |-> obj + Off[<<a, b>>]]

(* One iteration of rtld_elf_process_rela.                                 *)
Relocate(b) ==
  /\ pc = "reloc" /\ b \in todo
  /\ IF ~Link(b) /\ ~Room(StubSize)
     THEN OutOfCode /\ UNCHANGED <<linking, target>>
     ELSE LET stub == AlignUp(brk)
          IN  /\ todo' = todo \ {b}
              /\ IF Link(b)
                 THEN /\ target' = [target EXCEPT ![<<addr, b>>] = objects[b]]
                      /\ UNCHANGED <<stubAt, brk>>
                 ELSE /\ target' = [target EXCEPT ![<<addr, b>>] = stub]
                      /\ stubAt' = [stubAt EXCEPT ![stub] = PatchAt(addr, b)]
                      /\ brk' = stub + StubSize
              /\ UNCHANGED <<pc, obj, funcAt, err>>
  /\ UNCHANGED <<rip, resolving, jump, objects, tlb, asked, mode>>

TableFull == Cardinality({a \in Addrs : objects[a] # NULL}) >= TableSize

Registered == [objects EXCEPT ![addr] = obj]

(* The last two passes of rtld_add_object: the code is copied, then the    *)
(* function registered (rtld_set).                                         *)
Register ==
  /\ pc = "reloc" /\ todo = {}
  /\ funcAt' = [funcAt EXCEPT ![obj] = addr]
  /\ IF objects[addr] # NULL \/ TableFull
     THEN /\ Exit(IF objects[addr] # NULL THEN "exists" ELSE "full")
          /\ UNCHANGED objects
     ELSE pc' = "again" /\ objects' = Registered /\ UNCHANGED err
  /\ UNCHANGED <<rip, resolving, jump, obj, todo, stubAt, brk, target, tlb, asked, mode>>

(* rtld_patch: the call site that led here jumps to func from now on.  A   *)
(* 32-bit offset reaches the whole arena, so rtld_reloc_at succeeds.       *)
Patched(func) ==
  IF patch = NULL THEN target ELSE [target EXCEPT ![stubAt[patch].site] = func]

Cached_always(func) == [tlb EXCEPT ![QUICK_TLB_HASH(addr)] = [addr |-> addr, func |-> func]]

Cached(func) ==
  IF Trace THEN tlb
  ELSE [tlb EXCEPT ![QUICK_TLB_HASH(addr)] = [addr |-> addr, func |-> func]]

(* resolve_func has its function, from the first rtld_resolve or from the  *)
(* one after rtld_add_object, and the dispatcher jumps there.  "If we want *)
(* a trace, don't update quick TLB."                                       *)
Resolved ==
  /\ pc = "again" \/ (pc = "resolve" /\ Found(addr))
  /\ IF Found(addr)
     THEN /\ target' = IF Trace THEN target ELSE Patched(objects[addr])
          /\ tlb' = Cached(objects[addr])
          /\ printed' = IF Trace THEN addr ELSE NULL
          /\ host' = objects[addr] /\ pc' = "run" /\ patch' = NULL
          /\ UNCHANGED err
     ELSE Exit("lost") /\ UNCHANGED <<target, tlb, printed, host, patch>>
  /\ UNCHANGED <<rip, addr, via, linking, objects, asked, mode>>

(* The client has exited, or the host faults at NULL.                      *)
Stopped == pc \in {"exited", "fault"} /\ UNCHANGED vars

Client ==
  \/ DispatchHit \/ DispatchMiss \/ ResolveMiss \/ TranslatorFails \/ AddObject
  \/ Register \/ Resolved
  \/ \E b \in Addrs : Relocate(b)

Next ==
  \/ Client
  \/ \E b \in Addrs \cup {NULL} : GuestJump(b)
  \/ \E s \in Sites : DirectCall(s[1], s[2])
  \/ Stopped

(* The client itself never rests; the guest may run for ever in one place. *)
Spec == Init /\ [][Next]_vars /\ WF_vars(Client)
-----------------------------------------------------------------------------
TlbEntry == [addr : Addrs \cup {NULL}, func : Code \cup {NULL}]

(* Types of the client's dispatch and linking state.                       *)
TypeOK ==
  /\ mode \in {"plain", "trace"}
  /\ pc \in {"dispatch", "resolve", "translate", "reloc", "again", "run", "fault", "exited"}
  /\ rip \in Addrs \cup {NULL} /\ addr \in Addrs \cup {NULL} /\ patch \in Code \cup {NULL}
  /\ host \in Code \cup {NULL} /\ via \in {"dispatch", "direct"}
  /\ printed \in Addrs \cup {NULL} /\ asked \subseteq Addrs \cup {NULL}
  /\ err \in {"none", "server", "object", "code", "full", "exists", "lost"}
  /\ obj \in Code \cup {NULL} /\ todo \in SUBSET Addrs
  /\ objects \in [Addrs -> Code \cup {NULL}]
  /\ funcAt \in [Code -> Addrs \cup {NULL}]
  /\ stubAt \in [Code -> PatchData \cup {NoStub}]
  /\ target \in [Sites -> Code \cup {NULL}]
  /\ brk \in 1 .. CodeEnd + 1
  /\ tlb \in [0 .. TlbSize - 1 -> TlbEntry]

(* Whatever the path (quick TLB, full resolve, direct jump, patched jump   *)
(* or stub), the code the client jumps to is the translation of the guest  *)
(* address the guest wanted.  It jumps to NULL only when the guest did.    *)
EnteredRight ==
  /\ pc = "run" => host \in Code /\ funcAt[host] = rip
  /\ pc = "fault" => rip = NULL

(* rtld_patch reads and writes rel_size = 8 bytes even for a relocation of *)
(* 4 at the very end of an object.  That stays in memory the arena has     *)
(* handed out, because the stub was allocated behind the object.           *)
PatchInBounds ==
  \A c \in Code : stubAt[c] # NoStub => stubAt[c].patch_addr + RelSize <= brk

(* The server is asked for an address at most once: every object received  *)
(* is registered or ends the client, so rtld_set never returns -EEXIST,    *)
(* and rtld_resolve finds what rtld_add_object has just registered.        *)
AskedOnce ==
  /\ pc = "translate" => addr \notin asked
  /\ err \notin {"exists", "lost"}

(* Linking an object is sound: its patches stay in code memory, and it is  *)
(* the only one for its address.                                           *)
LinkingSound == PatchInBounds /\ AskedOnce

(* A call site that jumps to a function keeps doing so: direct links and   *)
(* patches are final, a stub is never put back.                            *)
PatchedForGood ==
  [][\A s \in Sites : target[s] # NULL /\ target[s] \in {objects[a] : a \in Addrs}
                        => target'[s] = target[s]]_vars

(* While tracing, every jump through a dispatcher is traced: resolve_func  *)
(* "forces a full resolve on every dispatch, yielding a complete trace".   *)
(* A call linked directly to a function the table knows is no dispatch,    *)
(* and does not appear in the trace.                                       *)
DispatchTraced == Trace /\ pc = "run" /\ via = "dispatch" => printed = rip

(* A dispatch ends: the client reaches translated code, or it stops.       *)
DispatchEnds == pc = "dispatch" ~> pc \in {"run", "fault", "exited"}
-----------------------------------------------------------------------------
(* The inductive invariant.                                                *)

IsStub(c) == stubAt[c] # NoStub

(* Blocks lie below brk, and none is both a function and a stub.           *)
Placed ==
  \A c \in Code :
    /\ (funcAt[c] # NULL => c < brk)
    /\ (IsStub(c) => c < brk /\ funcAt[c] = NULL)
    /\ (IsStub(c) => stubAt[c].sym_addr = stubAt[c].site[2])

(* The table and the quick TLB name translations of the right address.     *)
ObjectsRight == \A a \in Addrs : objects[a] # NULL => funcAt[objects[a]] = a

TlbRight ==
  \A h \in 0 .. TlbSize - 1 :
    IF tlb[h].addr = NULL THEN tlb[h].func = NULL
    ELSE tlb[h].func # NULL /\ tlb[h].func = objects[tlb[h].addr]

(* The call sites of registered functions, and those relocated so far.     *)
Live(s) ==
  \/ objects[s[1]] # NULL
  \/ pc = "reloc" /\ s[1] = addr /\ s[2] \notin todo

(* A live site jumps to the function it names, or to its own stub.         *)
SitesRight ==
  \A s \in Sites :
    IF Live(s)
    THEN /\ target[s] # NULL
         /\ \/ target[s] = objects[s[2]]
            \/ IsStub(target[s]) /\ stubAt[target[s]].site = s
    ELSE pc # "exited" => target[s] = NULL

Busy == {"resolve", "translate", "reloc", "again"}

(* A call of resolve_func works for the address the guest wants, and for   *)
(* the stub its call site still jumps to.                                  *)
CallRight ==
  pc \in Busy =>
    /\ addr = rip
    /\ patch # NULL => /\ IsStub(patch) /\ stubAt[patch].sym_addr = addr
                      /\ target[stubAt[patch].site] = patch
                      /\ objects[stubAt[patch].site[1]] # NULL

(* The object rtld_add_object is working on is not registered yet and its  *)
(* memory is its own.                                                      *)
ObjectRight ==
  /\ pc = "translate" => ~Found(addr)
  /\ pc = "again" => Found(addr)
  /\ pc = "reloc" =>
       /\ addr \in Addrs /\ objects[addr] = NULL
       /\ obj \in Code /\ funcAt[obj] = NULL /\ ~IsStub(obj)
       /\ obj + Size[addr] <= brk /\ todo \subseteq Calls[addr]

AskedRight ==
  /\ err \notin {"exists", "lost"}
  /\ pc # "exited" =>
       asked = {a \in Addrs : objects[a] # NULL} \cup (IF pc = "reloc" THEN {addr} ELSE {})

IInv ==
  /\ TypeOK /\ Placed /\ ObjectsRight /\ TlbRight /\ SitesRight /\ CallRight
  /\ ObjectRight /\ AskedRight /\ EnteredRight /\ PatchInBounds

(* A client that traces never fills the quick TLB, so that every dispatch  *)
(* goes through resolve_func: with IInv this gives DispatchTraced.         *)
TraceUncached == Trace => \A h \in 0 .. TlbSize - 1 : tlb[h].addr = NULL
=============================================================================
