------------------------------ MODULE Startup -------------------------------
(***************************************************************************)
(* The client from its first instruction to the guest's: __start_main of   *)
(* client/minilibc.c reads the stack the kernel built and relocates the    *)
(* client itself, main of client/main.c sets the parts up in order and     *)
(* builds the stack the guest reads in its turn.  A stack is the sequence  *)
(* of its words from the stack pointer up; a pointer is a number that is   *)
(* not zero.  A call of another part may fail where it can.                *)
(***************************************************************************)
EXTENDS Integers, Sequences

CONSTANTS
  Stacks,     \* the client's arguments: records [args, env, aux]
  Images,     \* the client's own dynamic sections, see Relocate
  Bases,      \* where the kernel may have put the client
  StackEnd    \* the end of the guest's stack, in bytes; page-aligned

AT_NULL == 0
AT_PHDR == 3
AT_PHENT == 4
AT_PHNUM == 5
AT_PAGESZ == 6
AT_ENTRY == 9
AT_UID == 11
AT_EUID == 12
AT_GID == 13
AT_EGID == 14
AT_PLATFORM == 15
AT_HWCAP == 16
AT_CLKTCK == 17
AT_SECURE == 23
AT_RANDOM == 25
AT_HWCAP2 == 26
ENOEXEC == -8
EOPNOTSUPP == -95

VARIABLES
  pc,        \* the next step of main, "guest", or how the client ended
  start,     \* the member of Stacks
  image,     \* the member of Images
  base,      \* the member of Bases
  words,     \* the client's data: [offset -> word]
  argv, environ, auxv,   \* what __start_main found
  info,      \* BinaryInfo
  stack,     \* the guest's stack from stack_top up
  regs,      \* cpu_regs: [word -> value]
  status     \* the exit status

vars == <<pc, start, image, base, words, argv, environ, auxv, info, stack, regs, status>>
-----------------------------------------------------------------------------
(* The kernel and an ELF start routine agree on this layout.               *)
Pairs(aux) == [k \in 1..2 * Len(aux) |-> aux[(k + 1) \div 2][2 - (k % 2)]]
KernelStack(s) ==
  <<Len(s.args)>> \o (s.args \o (<<0>> \o (s.env \o (<<0>> \o (Pairs(s.aux) \o <<AT_NULL, 0>>)))))

FirstZero(s, from) == CHOOSE i \in from..Len(s) : s[i] = 0 /\ \A j \in from..(i - 1) : s[j] # 0

(* getauxval: the first entry of that type before AT_NULL, else 0.         *)
getauxval(aux, type) ==
  LET end == CHOOSE i \in 0..Len(aux) :
               /\ aux[2 * i + 1] \in {AT_NULL, type}
               /\ \A j \in 0..(i - 1) : aux[2 * j + 1] \notin {AT_NULL, type}
  IN IF aux[2 * end + 1] = AT_NULL THEN 0 ELSE aux[2 * end + 2]

(* The words behind the environment's end.                                 *)
AuxOf(s) == SubSeq(s, FirstZero(s, s[1] + 3) + 1, Len(s))
-----------------------------------------------------------------------------
(* Relocation.  An image is a record of phent (AT_PHENT is the size of the *)
(* struct), phdrs (pairs of a type and an address), dynamic (the address   *)
(* of the dynamic section), dyn (its pairs), tables (address -> entries    *)
(* <<offset, type, addend>>) and words (its data as linked).               *)

FirstDynamic(h) ==
  CHOOSE i \in 1..Len(h) : h[i][1] = "DYNAMIC" /\ \A j \in 1..(i - 1) : h[j][1] # "DYNAMIC"
LoadBase(im, dynv) ==
  IF \E i \in 1..Len(im.phdrs) : im.phdrs[i][1] = "DYNAMIC"
  THEN dynv - im.phdrs[FirstDynamic(im.phdrs)][2]
  ELSE 0

(* The last entry of a tag; the loop overwrites earlier ones.              *)
DynEntry(im, tag) ==
  LET at == {i \in 1..Len(im.dyn) : im.dyn[i][1] = tag}
  IN IF at = {} THEN 0 ELSE im.dyn[CHOOSE i \in at : \A j \in at : j <= i][2]

Entries(im, tag, size) == SubSeq(im.tables[DynEntry(im, tag)], 1, DynEntry(im, size))

(* Words of the client's data are addressed from its base.                 *)
Rel(mem, b, r) == [mem EXCEPT ![r[1]] = @ + b]
Rela(mem, b, r) == [mem EXCEPT ![r[1]] = b + r[3]]

(* A table in order, up to an entry of another type: <<data, ok>>.         *)
Applied(kind, mem, b, r) == IF kind = "REL" THEN Rel(mem, b, r) ELSE Rela(mem, b, r)
LoopStep(kind, acc, b, r) ==
  IF acc[2] /\ r[2] = "RELATIVE" THEN <<Applied(kind, acc[1], b, r), TRUE>> ELSE <<acc[1], FALSE>>
Loop(kind, table, mem, b) ==
  LET done[i \in 0..Len(table)] ==
        IF i = 0 THEN <<mem, TRUE>> ELSE LoopStep(kind, done[i - 1], b, table[i])
  IN done[Len(table)]

Relocate(im, mem, b) ==
  LET rel == Loop("REL", Entries(im, "REL", "RELSZ"), mem, b)
  IN IF rel[2] THEN Loop("RELA", Entries(im, "RELA", "RELASZ"), rel[1], b) ELSE rel

Exit(code) == pc' = "exited" /\ status' = code % 256

(* __start_main.                                                           *)
StartMain ==
  LET s == KernelStack(start)
  IN /\ pc = "_start"
     /\ argv' = SubSeq(s, 2, s[1] + 1)
     /\ environ' = SubSeq(s, s[1] + 3, FirstZero(s, s[1] + 3) - 1)
     /\ auxv' = AuxOf(s)
     /\ IF ~image.phent THEN Exit(ENOEXEC) /\ UNCHANGED words
        ELSE \E b \in {LoadBase(image, base + image.dynamic)} :
               \E r \in {Relocate(image, words, b)} :
                 /\ words' = r[1]
                 /\ IF r[2] THEN pc' = "usage" /\ UNCHANGED status ELSE Exit(ENOEXEC)
     /\ UNCHANGED <<start, image, base, info, stack, regs>>
-----------------------------------------------------------------------------
(* main.                                                                   *)

Goto(next) == pc' = next /\ UNCHANGED status
mainvars == <<start, image, base, words, environ, auxv>>

(* argc < 3; otherwise the configuration and the program's name are taken. *)
Usage ==
  /\ pc = "usage"
  /\ IF Len(argv) < 3 THEN Exit(1) /\ UNCHANGED argv
     ELSE Goto("mem_init") /\ argv' = SubSeq(argv, 3, Len(argv))
  /\ UNCHANGED <<mainvars, info, stack, regs>>

(* A call at step `here` that fails with `code`, or after which main goes  *)
(* to `next`.                                                              *)
Call(here, next, code) ==
  /\ pc = here
  /\ Goto(next) \/ Exit(code)
  /\ UNCHANGED <<mainvars, argv, info, stack, regs>>

mem_init == Call("mem_init", "load_elf_binary", -12)

BinaryInfo(m) ==
  [machine |-> m, elf_entry |-> 501, exec_entry |-> 502, phdr |-> 503, phent |-> 56, phnum |-> 9]
Machines == {"X86_64", "RISCV", "AARCH64", "OTHER"}

(* load_elf_binary fills info, also the machine.                           *)
load_elf_binary ==
  /\ pc = "load_elf_binary"
  /\ \/ Exit(ENOEXEC) /\ UNCHANGED info
     \/ /\ Goto("translator_init")
        /\ \E m \in Machines : info' = BinaryInfo(m)
  /\ UNCHANGED <<mainvars, argv, stack, regs>>

translator_init == Call("translator_init", "translator_config_fetch", -32)
translator_config_fetch == Call("translator_config_fetch", "dispatch_get", 1)
dispatch_get == Call("dispatch_get", "mmap", EOPNOTSUPP)
AllocStack == Call("mmap", "stack", -12)

Push(s, v) == <<v>> \o s

(* One entry after the other is pushed, its value before its type: the     *)
(* last one is on top.                                                     *)
PushAux(s, aux) == Pairs([i \in 1..Len(aux) |-> aux[Len(aux) + 1 - i]]) \o s

Align_none(argc, envc) == 0

(* "auxv has even number of entries"                                       *)
Align(argc, envc) == (argc + envc) % 2

(* The entries, in the order they are pushed.                              *)
AuxEntries(bin, aux) ==
  <<<<AT_ENTRY, bin.elf_entry>>, <<AT_PHDR, bin.phdr>>, <<AT_PHENT, bin.phent>>,
    <<AT_PHNUM, bin.phnum>>, <<AT_PLATFORM, 600>>,
    <<AT_RANDOM, getauxval(aux, AT_RANDOM)>>, <<AT_UID, getauxval(aux, AT_UID)>>,
    <<AT_EUID, getauxval(aux, AT_EUID)>>, <<AT_GID, getauxval(aux, AT_GID)>>,
    <<AT_EGID, getauxval(aux, AT_EGID)>>, <<AT_CLKTCK, getauxval(aux, AT_CLKTCK)>>,
    <<AT_PAGESZ, getauxval(aux, AT_PAGESZ)>>, <<AT_HWCAP, 32769>>, <<AT_HWCAP2, 0>>,
    <<AT_SECURE, 0>>>>

(* The stack is built downwards; the words skipped for the alignment are   *)
(* fresh pages.                                                            *)
Vectors(bin, aux, args, env) ==
  PushAux(Push([i \in 1..Align(Len(args), Len(env)) |-> 0], 0), AuxEntries(bin, aux))
GuestStack(bin, aux, args, env) ==
  Push(args \o Push(env \o Push(Vectors(bin, aux, args, env), 0), 0), Len(args))

BuildStack ==
  /\ pc = "stack"
  /\ stack' = GuestStack(info, auxv, argv, environ)
  /\ Goto("rtld_init")
  /\ UNCHANGED <<mainvars, argv, info, regs>>

rtld_init == Call("rtld_init", "rtld_perf_init", -12)

(* A failure of perf support is only warned about.                         *)
rtld_perf_init ==
  /\ pc = "rtld_perf_init" /\ Goto("get_object")
  /\ UNCHANGED <<mainvars, argv, info, stack, regs>>

translator_get_object == Call("get_object", "add_object", -71)

(* The initial object, if there is one.                                    *)
rtld_add_object == Call("add_object", "cpu_state", ENOEXEC)

(* mem_alloc_data's failure is not looked at: the memset faults.           *)
AllocCpuState ==
  /\ pc = "cpu_state"
  /\ \/ Goto("set_thread_area") /\ regs' = [i \in 0..33 |-> 0]
     \/ pc' = "faulted" /\ UNCHANGED <<status, regs>>
  /\ UNCHANGED <<mainvars, argv, info, stack>>

set_thread_area == Call("set_thread_area", "regs", -22)

StackTop == StackEnd - 8 * Len(stack)

SpWord(machine) ==
  CASE machine = "X86_64" -> 5 [] machine = "RISCV" -> 3 [] machine = "AARCH64" -> 33

(* The guest's first registers, and loop_func.                             *)
EnterGuest ==
  /\ pc = "regs"
  /\ IF info.machine = "OTHER" THEN Exit(ENOEXEC) /\ UNCHANGED regs
     ELSE /\ regs' = [regs EXCEPT ![0] = info.exec_entry, ![SpWord(info.machine)] = StackTop]
          /\ Goto("guest")
  /\ UNCHANGED <<mainvars, argv, info, stack>>

Init ==
  /\ pc = "_start" /\ start \in Stacks /\ image \in Images /\ base \in Bases
  /\ words = image.words
  /\ argv = <<>> /\ environ = <<>> /\ auxv = <<>> /\ info = <<>> /\ stack = <<>>
  /\ regs = <<>> /\ status = 0

Ended == pc \in {"guest", "exited", "faulted"} /\ UNCHANGED vars

Next ==
  \/ StartMain \/ Usage \/ mem_init \/ load_elf_binary \/ translator_init
  \/ translator_config_fetch \/ dispatch_get \/ AllocStack \/ BuildStack \/ rtld_init
  \/ rtld_perf_init \/ translator_get_object \/ rtld_add_object \/ AllocCpuState
  \/ set_thread_area \/ EnterGuest \/ Ended

Spec == Init /\ [][Next]_vars
-----------------------------------------------------------------------------
(* What a start routine of the guest finds at the stack pointer.           *)
GuestArgs == SubSeq(stack, 2, stack[1] + 1)
GuestEnv == SubSeq(stack, stack[1] + 3, FirstZero(stack, stack[1] + 3) - 1)
GuestAux(type) == getauxval(AuxOf(stack), type)

(* The guest starts as the kernel would have started it: with an aligned   *)
(* stack pointer in its architecture's register, at the right entry, with  *)
(* the arguments after the configuration, the whole environment, and an    *)
(* auxiliary vector that its start routine can walk to the end, describes  *)
(* the loaded program and otherwise agrees with the client's.  The client  *)
(* itself was relocated before: every word is its linked value plus the    *)
(* base for one named in a table.  A failed step ends the client with a    *)
(* status that is not zero.                                                *)
StartedRight ==
  /\ pc = "exited" => status # 0
  /\ pc \notin {"_start", "exited"} => words = [o \in DOMAIN words |-> image.linked[o] + base * image.moved[o]]
  /\ pc = "guest" =>
       /\ regs[0] = info.exec_entry
       /\ regs[CASE info.machine = "X86_64" -> 1 + 4    \* GP(4)
                 [] info.machine = "RISCV" -> 1 + 2      \* x2
                 [] info.machine = "AARCH64" -> 2 + 31]  \* SP, after PC, the flags and x0 to x30
            = StackTop
       /\ StackTop % 16 = 0
       /\ GuestArgs = SubSeq(start.args, 3, Len(start.args)) /\ GuestEnv = start.env
       /\ GuestAux(AT_ENTRY) = 501 /\ GuestAux(AT_PHDR) = 503
       /\ GuestAux(AT_PHENT) = 56 /\ GuestAux(AT_PHNUM) = 9
       /\ \A t \in {AT_UID, AT_EUID, AT_GID, AT_EGID, AT_PAGESZ, AT_CLKTCK, AT_RANDOM} :
            \A i \in 1..Len(start.aux) : start.aux[i][1] = t => GuestAux(t) = start.aux[i][2]
-----------------------------------------------------------------------------
(* What the kernel and the linker promise.  Strings are pointers and no    *)
(* auxiliary type is there twice; the program header of the dynamic        *)
(* section says where it was linked, no word is named twice in a table or  *)
(* in both, and an image's `linked` and `moved` say what its tables mean.  *)
StackOK(s) ==
  /\ s.args \in Seq(Nat \ {0}) /\ s.env \in Seq(Nat \ {0})
  /\ s.aux \in Seq((Nat \ {0}) \X Nat)
  /\ \A i, j \in 1..Len(s.aux) : s.aux[i][1] = s.aux[j][1] => i = j

Named(table, o) == \E i \in 1..Len(table) : table[i][1] = o

TablesOK(D, im, rel, rela) ==
  /\ Len(rel) \in Nat /\ Len(rela) \in Nat
  /\ \A i \in 1..Len(rel) : rel[i][1] \in D /\ ~Named(rela, rel[i][1])
  /\ \A i, j \in 1..Len(rel) : rel[i][1] = rel[j][1] => i = j
  /\ \A i \in 1..Len(rela) :
       rela[i][1] \in D /\ rela[i][3] \in Int /\ im.linked[rela[i][1]] = rela[i][3]
  /\ \A o \in D :
       /\ ~Named(rela, o) => im.linked[o] = im.words[o]
       /\ im.moved[o] = IF Named(rel, o) \/ Named(rela, o) THEN 1 ELSE 0

ImageOK(im) ==
  /\ Len(im.phdrs) \in Nat /\ im.dynamic \in Int
  /\ \E i \in 1..Len(im.phdrs) : im.phdrs[i][1] = "DYNAMIC"
  /\ \A i \in 1..Len(im.phdrs) : im.phdrs[i][1] = "DYNAMIC" => im.phdrs[i][2] = im.dynamic
  /\ im.words \in [DOMAIN im.words -> Int]
  /\ TablesOK(DOMAIN im.words, im, Entries(im, "REL", "RELSZ"), Entries(im, "RELA", "RELASZ"))

StartupOK ==
  /\ \A s \in Stacks : StackOK(s)
  /\ \A im \in Images : ImageOK(im)
  /\ Bases \subseteq Int /\ StackEnd \in Nat /\ StackEnd % 16 = 0

(* The inductive invariant: what each step of main has left.               *)
Relocated == words = [o \in DOMAIN words |-> image.linked[o] + base * image.moved[o]]
Found ==
  /\ environ = start.env /\ auxv = Pairs(start.aux) \o <<AT_NULL, 0>>
  /\ argv = IF pc = "usage" THEN start.args ELSE SubSeq(start.args, 3, Len(start.args))
  /\ pc # "usage" => Len(start.args) >= 3
InfoOK == \E m \in Machines : info = BinaryInfo(m)
FirstRegs == [i \in 0..33 |-> 0]

Unbuilt == {"usage", "mem_init", "load_elf_binary", "translator_init", "translator_config_fetch",
            "dispatch_get", "mmap", "stack"}
Built == {"rtld_init", "rtld_perf_init", "get_object", "add_object", "cpu_state", "faulted",
          "set_thread_area", "regs", "guest"}

StartupInv ==
  /\ pc \in {"_start", "exited"} \cup Unbuilt \cup Built
  /\ start \in Stacks /\ image \in Images /\ base \in Bases
  /\ pc = "_start" => words = image.words
  /\ pc = "exited" => status # 0
  /\ pc \notin {"_start", "exited"} => Relocated /\ Found
  /\ pc \notin {"_start", "exited", "usage", "mem_init", "load_elf_binary"} => InfoOK
  /\ pc \in Built => stack = GuestStack(info, auxv, argv, environ)
  /\ pc \in {"set_thread_area", "regs"} => regs = FirstRegs
  /\ pc = "guest" =>
       /\ info.machine # "OTHER"
       /\ regs = [FirstRegs EXCEPT ![0] = info.exec_entry, ![SpWord(info.machine)] = StackTop]
=============================================================================
