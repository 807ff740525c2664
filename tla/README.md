# Formal models of Instrew

Instrew runs a program of one architecture (the *guest*) on another (the *host*) by
translating it function by function with LLVM. This directory holds TLA+ models of its
components, TLC configurations that check them on small instances, and TLAPS proofs of the
central results for instances of every size. Every definition is translated from the code;
`PROJECT.json` maps each one to its lines and lists the hazards the properties are aimed at.
The map covers about a third of the implementation's 36,000 lines, the vendored libraries
included.

## 1. The system

Two processes talk over two pipes.

* The **client** (`client/`) holds the guest's address space. It loads the program, runs
  translated code, asks the server for functions it does not have, links the objects it gets,
  and emulates system calls and signals. It runs one thread; signal handlers interrupt it.
* The **server** (`server/`) decodes guest code, reading the guest's memory through the client
  page by page, lifts it to LLVM IR with **rellume** (`subprojects/rellume`), rewrites the
  calling convention, optimises, generates an object file and sends it. An on-disk cache of
  objects is shared by all servers of a user.

| Part | State | Operations | What is hard |
|---|---|---|---|
| memory arenas, `client/memory.c` | `brk`, `brkp` per arena | `arena_alloc` | the limit is tested against `brk`, pages are added at `brkp` |
| C library, `client/minilibc.c`, `client/math.c` | output buffers, signal sets | formatting, strings, rounding | ends of buffers, carries into the exponent |
| start-up, `client/main.c`, `client/minilibc.c` | the kernel's stack, the client's image, the guest's stack | `__start_main`, `main` | alignment, self-relocation, failing steps |
| protocol, `client/translator.c`, `server/connection.cc` | pipes, look-ahead header, receive buffer, stdio buffer, page cache | `translator_*`, `Conn`, `RemoteMemory`, `Run` | blocking on both sides, buffered output, end of file, guest memory that changes |
| object cache, `server/cache.cc` | names, files, locks | `Cache`, `Get`, `Put` | several servers, crashes and failures between system calls |
| linker's table, `client/rtld.c` | open-addressing table | `rtld_set`, `rtld_resolve` | concurrent readers, collisions, a full table |
| relocation and profiler output, `client/rtld.c` | words of code, PLT, map and dump files | `rtld_reloc_at`, `rtld_elf_decode_name`, `plt_create`, `rtld_perf_*` | bit fields, pages, ranges |
| dispatch and linking, `client/dispatch.c`, `client/rtld.c` | quick TLB, stubs, call sites, code arena, host registers | dispatchers, `resolve_func`, `rtld_add_object`, `rtld_patch` | code that is patched while it runs, four ways to reach a function |
| signals, `client/emulate.c` | pending signal, guest and host masks and dispositions | `signal_*` | the handler runs between any two accesses |
| system calls, `client/emulate.c` | descriptors, `struct stat`, warning bitmap | `emulate_syscall`, `emulate_cpuid` | three guests' tables, flags and layouts on two hosts |
| ELF loader, `client/elf-loader.c` | descriptors, header pages, image, one `retval` | `load_elf_binary` and helpers | every call can fail, page and segment ends |
| predecoding, `server/rewriteserver.cc`, `server/decode.cc` | work list, instruction list, hash | `Predecode`, `Lift` | overlapping and looping code, the hash as cache key |
| lifting, `rellume/src` | blocks, register facets, packs, PHI nodes | `Function::AddInst`, `Lift*`, `OptimizePacks`, `PhiDesc` | cached views of registers, stores removed over loops |
| RISC-V decoder, `frvdec` | none | `frv_decode` | scattered immediates |
| calling conventions and tools, `server/callconv.cc`, `tools-simple/` | IR of a function | `ChangeCallConv`, `FoldLoads`, `FoldStores` | what lies between a store and the call it is folded into |
| GEP passes, `server/GEPPromotePass.cc`, `server/GEPRestorePass.cc` | IR, phi nodes, work list, a global counter | `GEPpromoteMemToRegister`, `run` | SSA construction on any control flow graph; array shapes from strides |

Interactions: dispatch asks the protocol for a function; the protocol's server runs
predecoding, probes the object cache and otherwise lifts, rewrites and generates; dispatch
links the object with memory from the arenas and registers it in the table; a signal can
interrupt the wait for an answer. The server's calling convention tables and the client's
dispatchers have to agree on registers.

## 2. Modules

Definitions called `X_<word>` are faulty variants of `X`, used to see that a property notices
the mistake. The modules with theorems are `<name>Proofs`; section 6 says which component is proved
about in which.

| Module | Correspondence to the code |
|---|---|
| `Memory` | one action per call of `arena_alloc`, with all error paths; `blocks` is a history of what was handed out |
| `LibC` | `printf_driver` an iteration at a time, with `sprintf_helper` and `dprintf_helper` as sinks; string functions, signal sets and `floor`, `ceil`, `round`, `trunc` as operators of the same names |
| `Startup` | `_start` and `__start_main`, then `main` step by step, each call of another part possibly failing; stacks are sequences of words |
| `TranslateService` | abstract: the client asks for one address at a time and gets an object for it, or the conversation ends |
| `Protocol` | record `c` is the client's translator and the call it is in, `s` the server's connection and translation; blocking reads and writes move one unit (a header or a piece of a body) per step; the actions are named after the functions |
| `ObjCache` | the two names of one hash, files as inodes, POSIX locks, one system call per step and server; `Crash` at any point |
| `RtldTable` | one memory access per step of `rtld_set` and of each concurrent `rtld_resolve` |
| `Relocate` | `rtld_reloc_at` on words that are sets of bits, by relocation type, compared with what the CPU computes from the patched word; PLT stubs; name decoding |
| `PerfDump` | the two files that `rtld_perf_init` and `rtld_perf_notify` write, as sequences of records |
| `CodeCache` | `pc` orders the steps of a dispatch; `target` says where each call site jumps, `funcAt` and `stubAt` what is at a code address; the table is the map `objects` |
| `DispatchRegs` | host registers as the assembly of `dispatch.c` moves them, guest registers as the tables of `server/callconv.cc` place them; both hosts, three guests |
| `Signals` | the main flow takes one step per access to state shared with the handler, `Deliver` is the kernel with the handler |
| `Syscalls` | `emulate_syscall` for three guests on two hosts beside a kernel of the guest's own architecture; CPUID |
| `ElfLoader` | one step per stage of `load_elf_binary`, every call may fail; `unnoticed` marks failures the code does not look at |
| `Predecode` | the guest's code is chosen when it is first read; then `Predecode` and `Lift` instruction by instruction |
| `LiftFunction` | rellume from instructions to a function: blocks, branches, packs, `OptimizePacks`, PHI nodes; then the function runs beside the guest's code |
| `RegFile` | LLVM's integer and floating point operations (external); `RegFile`, `Facet` and `LifterBase`: a register is a set of facets, each with the value it has when the block runs |
| `X86Lifter`, `X86Sse` | one operator per `Lift*` method: what the IR it emits does to a state |
| `Rv64`, `A64`, `A64Simd` | likewise for RISC-V and AArch64 |
| `X86Code`, `Rv64Code`, `A64Code`, `A64SimdCode` | the architecture's definition of each instruction (external), and blocks of instructions run in the lifted and in the architecture's form side by side |
| `Frv` | `frv_decode` for 32- and 16-bit words, as functions from bit numbers to bits |
| `ChangeCallConv` | `ChangeCallConv` after a tool has worked on a function; the original and the rewritten function run side by side |
| `GEPPromote` | the pass step by step on a function of basic blocks; afterwards the original and the promoted function run side by side on every path |
| `GEPRestore` | the walk over an address expression, a value per step, and the array access made from it |
| `MC*` | constants for TLC, among them the instructions and initial states of the `*Code` modules (x86-64 in `MCElfLoader`, RISC-V in `MCCodeCache`, AArch64 in `MCA64Blocks`) |

**Composition.** `Protocol` composes client, server and guest memory and implements
`TranslateService` (refinement mapping in `Protocol`). `CodeCache` uses what the
other modules establish: the arena's blocks are disjoint (`Memory`), the table behaves as a map
(`RtldTable`), one object per request or the end (`TranslateService`). `DispatchRegs` composes
tables of the server with assembly of the client. `ChangeCallConv` composes the tools with the
rewriting.

**Several machines in one run.** Components that do not interact are checked in one run. Its
MC module extends one component, instantiates the others, and has a variable `comp` that the
initial state chooses and nothing changes: a behaviour is one component's, with the others' variables
idle. A property such as `StartedRight == comp = "startup" => ...` is about the behaviours of its
component, and fairness is stated for them alone. This is a disjoint sum and not a parallel
composition: no interleaving of, say, `Memory` and `LibC` is claimed to be explored.

## 3. Abstractions

* Data are reduced to what the properties tell apart: objects to their address and the pages
  they were made from, instructions in `Predecode` to class, length and operand, files to a
  length (the hash is taken to determine the object, and writers start at offset 0), stored
  values to where they were computed.
* Addresses in `Memory` are unbounded: requests are at most 2^31 bytes and addresses are near
  2^46, so nothing wraps at 2^64.
* `RtldTable` takes the release store and the acquire load as program order. The x86-64 host
  gives that, and so does the C11 pair for the fields read after it.
* `CodeCache` models the x86-64 host. Relocations appear as their target; their bit patterns are
  `Relocate`'s.
* The uninitialised byte that `load_elf_binary` tests, and the uninitialised name after a failed
  read, are nondeterministic choices.
* **Scaled widths.** TLC's integers have 32 bits. In the lifters' modules a byte has `ByteBits`
  bits (2 for x86-64 and AArch64 vectors, 1 for RISC-V and scalar AArch64), so that a register
  of eight bytes has 16 or 8. All definitions are in terms of byte counts, so every width,
  carry, sign and truncation of the code has its counterpart. `Relocate` keeps real bit
  positions and makes the widths of an address, of `Word32` and of the page field parameters: 31, 24 and 15 for TLC,
  any up to 64 in the proof, which covers the real 64, 32 and 21. `LibC` has floats of 7 and 10 bits.
* Floating point arithmetic in the lifters is a function that tells operations and operand
  orders apart; comparisons and NaNs are modelled.
* A lifted instruction is what its IR does, not the IR. LLVM's simplifications while building
  are taken to be correct. A locked instruction is one load and one store: a guest has one thread.
* `GEPPromote`: a slot is undefined when the function starts; the value a store writes is
  a constant or computed at the start of the store's block. `cell` says which memory a GEP points to,
  so that several GEPs may have one address; every access has a type; `others` are the users that
  are neither plain loads nor plain stores, those that `isGEPPromotable` accepts and those it refuses.
* The decoders fadec and farmdec, LLVM's dominator tree, iterated dominance frontier and
  phi simplification, the instruction sets and the kernel are external and are modelled as the
  code uses them.
* A failed start of the profiler's output (`rtld_perf_init`) only warns, as in `main`, and the
  client goes on.

## 4. Runs

| Run | Configuration | Shows |
|---|---|---|
| `memory` | `MCMemory.cfg` | `BlocksSound`: blocks accessible and disjoint; `RefusedOnlyWhenFull`; `LibraryRight`: the C library's functions against reference definitions |
| `protocol` | `MCProtocol.cfg` | `ConversationRight`: no failed assertion, no protocol error, nothing stuck in a buffer, fresh answers; `NoOrphan`, `NoHang`; `Service`: refinement of `TranslateService` |
| `objcache` | `MCObjCache.cfg` | `PublishesWhole`: while the disk works a published object is whole, one writer per file in any case; `ServedWhole`, `NeverReplaced`, `Returns` |
| `objcache_partial` | `MCObjCachePartial.cfg` | *violated:* published objects are whole even if a write fails |
| `rtld_table` | `MCRtldTable.cfg` | `ReadersSeeValid`, `GivesUpRightly` (nothing is missed, full only when full), `EntriesStay`, `CallsReturn`; `RelocRight`: relocations, PLT, names, profiler files |
| `code_cache` | `MCCodeCache.cfg` | `EnteredRight`: the right code by every path; `LinkingSound`: patches in bounds, one request per address; `PatchedForGood`, `DispatchTraced`, `DispatchReturns`; `RegistersRight`: registers at every entry; `Rv64Right`, `A64Right`, `SimdRight`: lifted code |
| `signals` | `MCSignals.cfg` | `ActionsHonoured`: dispositions agree, `SA_RESTART` is honoured, a pending signal keeps others out with two exceptions; `SyscallsRight`: other system calls and CPUID |
| `signals_dropped` | `MCSignalsDropped.cfg` | *violated:* only SIGSEGV and SIGBUS are dropped |
| `predecode` | `MCPredecode.cfg` | `FunctionFound`: exactly the reachable instructions, jump targets start blocks; `HashDetermines`: the hashed bytes read back as the function; `LiftSound`, `PredecodeEnds`; `StructCurrent`: no needed store is removed; `DecodesRight` |
| `guest_program` | `MCElfLoader.cfg` | `LoadedRight`: right image, no swallowed error, no leak; `StartedRight`: client's start and guest's stack; `X86Right`: lifted code |
| `gep_promote` | `MCGEPPromote.cfg` | `PromotedRight`: loads get the value they read before if one GEP of one type stands for the slot, valid SSA; `PassEnds`; `CallConvRight`; `RestoredRight` |
| `gep_promote_skipped` | `MCGEPPromoteSkipped.cfg` | *violated:* every block's slots are promoted |

Deadlock is checked in all runs. Where a process may really stop there is an action that says
so (`Gone`, `Stopped`, `Done`, `Out`, `Ended`, `Finished`).

### Bounds

* `memory`: two adjacent arenas of two and four pages, three blocks each, sizes of zero, less
  and more than a page, alignments too small, invalid and above a page: both ends of both
  arenas are reached in all combinations of padding. Formats with every conversion into buffers
  shorter than, as long as and longer than the text; every value of two float formats.
* `protocol`: one page of two units, pipes of two units, objects of one and three, two
  addresses, two page requests per translation (`MaxReads`): messages are longer than pipes, so
  both sides block in the middle of one; one address is the kernel when reached from the other.
* `objcache`: two servers and three files, so that each server can hold a file of its own next to
  the published one; two units per object, so that "partly written" exists.
* `rtld_table`: three slots, four addresses of which two collide: chains wrap and the table fills.
  Relocations with places and symbols on page boundaries, at and one past the ends of every
  range; every name of up to four characters over an alphabet of six. Two functions for the profilers (`MaxNotes`),
  with any set of failing writes that leave nothing or a byte.
* `code_cache`: five addresses, two slots in the quick TLB (one shared by two functions, one
  shared with address 0), a table of three, an arena that is exhausted in some orders.
  Two calls per dispatcher sequence. Blocks of two RISC-V or AArch64 instructions: the first leaves facets
  behind that the second could use wrongly; equal and different registers, zero registers.
* `signals`: SIGSEGV and two interchangeable signals. Exchanging those two maps behaviours to
  behaviours, so symmetry is sound (no liveness is checked). Two system calls in sequence, of
  every number whose arguments are translated and several that are passed on.
* `predecode`: three units of memory with the entry in the middle: jumps before the entry, into
  an instruction, past the end; all three architectures. A block that runs into undecodable bytes with another
  one behind it, which `HashDetermines` leaves out, needs one unit more; so in this run it holds
  of every function. Functions of up to three instructions
  for `LiftFunction`, with branches anywhere; RISC-V words of every major opcode with field values
  that tell their bits apart.
* `guest_program`: pages of four bytes, six pages, one or two segments with all positions of their
  ends, an interpreter of one segment. One to five arguments, up to three environment
  strings. Blocks of two x86-64 instructions in every width.
* `gep_promote`: five shapes of four blocks (diamond, two loops, a loop with two entries, an
  unreachable block), slot 1 loaded and stored in every combination, slot 2 in a few; in some of them
  both GEPs have one address, promotable or not, or the second has two types or other users. Rewritten
  functions of an entry and three blocks, acyclic, looping and partly unreachable, at most five
  blocks run (`MaxBlocks`). Array accesses of one and two dimensions with elements of 2, 4 and 8 bytes.

### Fairness

Liveness is checked under weak fairness of steps that a running process takes by itself:
each server's system calls (`ObjCache`), the calls of reader and writer (`RtldTable`), the reads,
writes and steps of both sides (`Protocol`), the client (`CodeCache`), the pass (`GEPPromote`,
`Predecode`). The operating system schedules every runnable process. No fairness is assumed of
the guest, of anybody dying, of senders of signals, or of failures. In `CodeCache`
a request to the server is one step that ends with an object or with the client's exit; that it
ends is what `NoHang` and `Service` check of the protocol.

## 5. What the runs show about the code

The properties of the passing runs hold. Three statements in the code's comments are refuted by a
run of their own (section 8 lists further defects without one):

* `server/cache.cc:131`, "someone else got it already, so nothing to do": after a failed write
  the lock and the name `hash.tmp` can belong to different files, and an unfinished file is
  published. Checking after locking that `hash.tmp` is still the open file would repair it.
* `client/emulate.c:91`, dropping "should only happen for SIGSEGV and SIGBUS":
  `signal_sigprocmask` changes the guest's mask before the host's.
* `server/GEPPromotePass.cc:880`, all blocks have to be traversed: `NumPromoteGEP` is not reset
  between blocks, so a block can be left without promotion.

Some results are less obvious than they look. The limit test of `arena_alloc` uses the "wrong"
variable and is exact all the same, because the accessible pages end less than a page beyond
`brk`. `rtld_patch`, which copies eight bytes for a four-byte relocation at the end of an
object, stays in allocated memory because the stub it patches away was allocated behind it.
`OptimizePacks` is right on loops only because a block is visited again whenever its
post-state changes (`StructCurrent` fails if each block is visited once).

`X86Right`, `Rv64Right`, `A64Right`, `SimdRight`, `DecodesRight` and `RestoredRight` are stated for
the instructions and inputs for which the code agrees with the architecture. The cases in which
it does not are left out one by one, in the `*Code` modules, the `MC*` modules and the
properties, and each is listed in section 8.

## 6. What is proved

Eight modules hold theorems, about thirteen components. The proofs of a small component are kept with those
of a larger one and are about an instance of its module.

| Module | Components |
|---|---|
| `MemoryProofs` | `Memory`; `Startup` (`S`) |
| `ClientProofs` | `Signals`; `Syscalls` (`K`), `PerfDump` (`PF`) |
| `ElfLoaderProofs` | `ElfLoader` |
| `RtldTableProofs` | `RtldTable`; `Relocate` (`L`) |
| `CodeCacheProofs` | `CodeCache`; `DispatchRegs` (`D`) |
| `ProtocolProofs` | `Protocol` |
| `ObjCacheProofs` | `ObjCache` |
| `PredecodeProofs` | `Predecode` |

Each theorem is for every value of the constants that satisfies the component's assumptions. These are
named assumptions of the module (`MemoryAssumption`, `ObjCacheAssumption`, `TableAssumption`, `CodeCacheAssumption`,
`SignalsAssumption`, `LoaderAssumption` and `LinkedAssumption`, `ProtocolAssumption`,
`PredecodeAssumption`), or a predicate that is a hypothesis of the theorem (`StartupOK`,
`PerfOK`, `RelocOK`, `ArchsOK`), which an `ASSUME` in the MC module states for the instance that TLC runs; TLC evaluates all of them. All proofs follow one scheme:
`Init => IInv`, `IInv /\ [Next]_vars => IInv'`, and `IInv` implies the property. `IInv` (`Inv`,
`StartupInv`, `PerfInv`, `RelocInv`, `WarnInv` in some modules) is defined at the end of each component's module and
was checked with TLC on the run's instance as well. It includes the type invariant, or as much of
it as the proof needs.

* **Memory** (`MemoryProofs`). `BlocksAlwaysAccessible` and `BlocksAlwaysDisjoint`, together
  `BlocksAlwaysSound`; `AlwaysRefusedOnlyWhenFull`. The invariant adds that `brkp` is page
  aligned and less than a page beyond `brk` (`PageWindow`), which is what makes the limit test
  right, and that blocks are in address order. `MemoryAssumption`: arenas are
  whole pages and do not overlap.
* **Signals** (`ClientProofs`). `SignalsHonoured`, `SignalsTyped`, `PendingNotLost`; for any set of signals,
  with the handler between any two accesses. The invariant (`HostAgrees`) says that the host has
  the disposition the guest asked for except for the one signal that `signal_sigaction` is working
  on: between its two updates the handler may run with either. `PendingMasks` says that while a signal is
  pending the process's mask has all others, also the one that `rt_sigsuspend` has put aside, unless the
  signal came between the test and the update of `signal_sigprocmask` (history variable `raced`). `PendingKeepsOut`
  follows for the mask in force, outside `rt_sigsuspend`. `PendingNotLost` is the action form: with the same two
  exceptions a pending signal stays until `signal_handle` reads it or SIGSEGV or SIGBUS replaces it.
* **Syscalls** (`ClientProofs`). `WarnsOnce`, a conjunct of `SyscallsRight`: however many calls a guest makes, it is
  warned at most once about each number below `MapBits`. Numbers share bits of the bitmap, so the invariant
  (`WarnInv`) says that the bits of every number warned about are set, and not the converse.
* **PerfDump** (`ClientProofs`). `ProfilersFind` (`PerfRight`, a conjunct of the run's `RelocRight`); for names
  and code of any size, any number of functions, any failing call of `rtld_perf_init` and any write of
  `rtld_perf_notify` failing, with any part of it done. Nobody looks at the results of these writes, so each file is
  complete unless a write to that file failed (`torn`). The invariant adds types, and that nothing is
  written before `rtld_perf_init`; the argument is that the three writes of a record put it at index `3i - 1` and add up to the
  size its header announces.
* **Startup** (`MemoryProofs`). `StartsRight` (`StartedRight`); for any arguments, environment, auxiliary vector,
  relocation tables, load address and stack. `StartupOK` states what kernel and linker promise: strings are pointers, no
  auxiliary type occurs twice, no word is named by two relocations. `StartupInv` says what each step of
  `main` has left for the next. The work is in the loops: the scans of `__start_main` find the end of each
  vector (`FirstZero`, `getauxval`), running through a table (`Loop`) relocates exactly the words it names,
  the vectors that `main` pushes are read back by the guest's own scans, and the padding aligns the stack for
  either parity of the number of words.
* **ObjCache** (`ObjCacheProofs`). `AlwaysPublishedWhole` and `AlwaysSingleWriter`, together
  `AlwaysPublishesWhole`; `PublishedForGood`; for any number of servers. The invariant ties each
  lock to the server with the file open (`LockHeld`), says that before publication all open
  files are `hash.tmp` (`OneTmp`), and how far a writer is (`Progress`). `Published`, `OneTmp` and
  `Progress` hold until a write or rename fails, which is the proviso in `PublishedWhole` and
  `NeverReplaced` and where `objcache_partial` finds its counterexample. `SingleWriter` needs no
  proviso. `AlwaysServedWhole`: a hit sends the whole object, because until a write
  fails a server that serves one has the published file open, which nobody replaces
  (`ServesReal`).
* **RtldTable** (`RtldTableProofs`). `ReadersAlwaysSeeValid`; `RegisteredIsAlwaysFound` and
  `AlwaysFullWhenRefused`, together `AlwaysGivesUpRightly`; `EntriesAlwaysStay`; for any table size
  and number of readers. The invariant says that every registered address can be reached along
  its probe sequence (`ChainInv`) and what writer and readers know of the slots they passed.
* **Relocate** (`RtldTableProofs`). `RelocationsRight` (`WordsRight` and `PltRight`, two of the three conjuncts of
  `RelocRight`); for any place, symbol, addend, stub and old contents, and any widths of addresses and of the two fields that the run
  narrows. `RelocOK`: code is aligned, addresses are in the lower half of the address space, and the widths are at most
  the real 64, 64 and 24. The state is a job and its result, so `RelocInv` is simple and the proof is about the
  operators: `UnsignedIs` and `SignedIs` show that a field written bit by bit reads back as the number, if it
  fits; then each relocation type is one lemma, with the page distance of ADRP split into page and offset.
* **CodeCache** (`CodeCacheProofs`). `AlwaysEnteredRight`; `PatchAlwaysInBounds` and `AlwaysAskedOnce`, together
  `LinkingAlwaysSound`; `AlwaysPatchedForGood`; for any functions, call graph, sizes, arena,
  table and TLB. The invariant says that table and TLB name translations of the right address,
  that a live call site jumps to its function or to its own stub, and that a call of
  `resolve_func` works for the address wanted and for the stub its site still jumps to.
  `PatchInBounds` rests on `RelSize <= StubSize + 1` and on the linker's refusal of offsets past
  the section's end. `AlwaysTraced`: with tracing on the quick TLB is never filled
  (`TraceUncached`), so each jump through a dispatcher comes from `resolve_func`, which has printed it.
* **DispatchRegs** (`CodeCacheProofs`). `RegistersAgree` (`RegistersRight`); for every pair of a host and a guest
  (`ArchsOK`) and any number of functions. The invariant says that at every place but the first the guest's registers are
  where the convention puts them (`InPlace`). A dispatcher step keeps it because of facts about the tables that
  are proved once for each convention (`HhvmTable`, `AapcsTable`, together `TableRight`): no two fields
  share a register, each comes back in the register it was passed in, the dispatcher loads it from there, and what C code
  may overwrite is saved. The patch data and the CPU struct have registers of their own (`TablesFit`).
* **ElfLoader** (`ElfLoaderProofs`). `LoaderInvariant` and `LoadsRight` (`LoadedRight`); for any number and layout
  of segments, page size and address space, and any call failing. The invariant has three parts.
  `PathInv` says for each place what `retval` a `goto` there would return and what is open
  and mapped, which is why the one variable never carries a stale success into an error exit.
  `HeadersInv` says that the headers in memory are the files'. `PlacedInv` and `MappedInv` say that
  the pages of the two files do not overlap and that every segment mapped so far is still as its
  header says: mapping segment `n` does not touch segments before it, although it
  zero-fills the rest of its last page. `LinkedAssumption` states what the loader
  takes on trust: segments ascend and share no page, their data are in the file, and interpreters are
  position independent. Where a failure goes unnoticed by the code (`unnoticed`), nothing is
  claimed of the image, but errors and leaks are still covered.
* **Protocol** (`ProtocolProofs`). `ConversationInvariant`, `ConversationHolds` (`ConversationRight`) and
  `ServiceImplemented`; for any pipe capacity, page size, guest memory, addresses and object sizes,
  any number of page requests up to any `MaxReads`, either side dying anywhere. The invariant looks at each
  direction as one stream: what the reader has of the units it waits for, then the pipe, then what
  the writer has still to write (`ToClient`, `ToServer`). Moving a unit changes no stream, so reads and
  writes of a part of a message, which are most of the steps, preserve everything at once. For each place
  in either program (`OnCfgHdr`, `OnObjBody`, `OnPageHdr`, ...) the invariant says which messages can
  be on their way; taken together, only one side has the word. `CacheRight` relates the server's
  page cache to the guest's memory. In the proof `Inv` adds the types of the records and of the units. A
  side that sees the end of a pipe stops, and nothing is claimed of the streams afterwards.
  `ServiceImplemented` is the refinement's safety part (`ServiceSafe`): the initial states map to
  initial states and every step to a step of `TranslateService` or a stutter, for any constants.
  `Pages # {}` is assumed because the guest has memory.
* **Predecode** (`PredecodeProofs`). `FunctionIsFound`, `HashIsDetermining`, `LiftIsSound`, `TypesKept`; for any guest
  code, memory size, architecture and granularity. All rest on one invariant of six parts. `MapInv`: `insts` and
  `addr_map` are inverse to each other, so nothing is found twice. `OrderInv`: an instruction that does not start a
  block follows the one before it in memory, which is what lets `Lift` cut blocks out of `insts`.
  `NeededInv`: every set that is closed under the successors read so far contains what was found; at the end this says that
  nothing else was found, without speaking of paths. `PendingInv`: a jump target is found, queued, or next in line, and
  one that is found either starts a block or follows the jump; when the work list is empty only the first and last remain.
  `LiftInv`: the blocks made so far are runs of `insts`, and the next instruction continues the last of them.
  `HashInv`: what is hashed is a sequence of offsets and instructions with nothing between them; a reader that starts
  at the entry knows from the instructions before whether an offset comes next (after a jump, and where the code
  runs into code already read), so it gets back the instructions found and is where the block in progress is. The
  one end of a block it cannot see is that before undecodable bytes; `gap` says whether the last block
  hashed ended there (harmless) or an earlier one (nothing is claimed).

**Induction.** The library's induction theorems cannot be instantiated here. Where a statement is about every prefix of a
loop or every bit of a number, the proof takes the least counterexample (`Least`, from the
library's theorem that `<` on the naturals is well founded) and shows that its predecessor is one too.

**Provers.** The proof modules begin with `USE ZenonT(60)`: leaves go to Zenon with a minute's limit, so that
a slow or loaded machine does not make a proof fail. Leaves that need arithmetic or sequences name the SMT
solver (`SMTT(60)`), and some that are propositional name `PTL`. A leaf does one or the other, which is why
arithmetic facts often have a step of their own.

## 7. What is only model-checked

* Liveness, and the refinement with its fairness (`NoOrphan`, `NoHang`, `Service`, `Returns`,
  `CallsReturn`, `DispatchReturns`, `PredecodeEnds`, `PassEnds`): the prover does not handle
  fairness and `ENABLED`. The safety part of `Service` is proved.
* `NamesRight`, the third conjunct of `RelocRight`, `LibraryRight` and `RestoredRight`: they compare folds over
  strings and expressions with powers of a variable exponent or with recursive definitions,
  which the prover cannot evaluate.
* Comparisons with the architecture (`X86Right`, `Rv64Right`, `A64Right`, `SimdRight`,
  `DecodesRight`): the lifters' modules use `Bitwise`, which the prover cannot read, and are
  about words of a fixed width.
* `SyscallsRight` except for `WarnsOnce`: a comparison of finite tables. Every host, guest and
  system call modelled is in the run; a proof would add only longer sequences of calls.
* `StructCurrent`, `PromotedRight`, `CallConvRight`: safety properties of a transformed function that runs beside
  the original. Their inductive invariants speak of all paths of a control flow graph, through closures that the modules
  define by recursion. Not proved.

## 8. What is not modelled

* `optimizer.cc`, `codegenerator.cc`: lists of LLVM passes and target set-up; behaviour is LLVM's.
* The decoders fadec and farmdec: stateless, driven by generated or very large tables. The lifters'
  models start from decoded instructions. fadec's encoder and formatter are not used.
* rellume: LODS, TZCNT, LZCNT, LAHF, SAHF, the instruction marker, overrides, the C interface.
* `config.cc` (options, once at start-up), `generate/` (a separate program), the loading of tools and
  the text that strace prints.
* Power failures (no `fsync` in `Put`), and weak memory beyond the release/acquire pair.
* `RemoteMemory::Get` across page boundaries; validation of section headers in `rtld.c`; the
  rest of `math.c`; system call wrappers, which are the system calls of the other modules.
* `GEPPromote`: slots whose loads are operands of other slots' stores, and the guest's stack before
  and after the function. `restoreGEPstore` is never called.

### Known defects that no run is about

They were found by comparing the code with a reference while modelling. Where a property would
fail on one, exactly that case is left out of the property.

*Signals.* `client/emulate.c:98` says that signals are kept masked "so that only ever at most one
signal is pending". A signal that arrives between the test of `sigpending` (line 162) and the
update of the host's mask (line 163) becomes pending, the update unmasks signals, and a second
one overwrites it. `rt_sigsuspend` (line 595) hands the guest's mask to the host although a signal is pending,
and a second one overwrites it, too. `PendingKeepsOut` shows that there is no other time at which this happens.
SIGSEGV and SIGBUS are never masked, so an asynchronous one overwrites a pending signal at any time.
`signal_handle` does not restore the host's mask when the guest ignores the pending signal.

*Client.* `strchr` compares a `char`, which is signed on x86-64, with its `int` argument without
converting that, so a character above 127 given as a positive number is not found (`minilibc.c:412`). `uname` of an
x86-64 guest shows the host's release (`emulate.c:338`), which the other guests get
replaced by a newer one if it is too old. `prctl` fails with EINVAL whatever is asked (516). `fcntl` switches on `arg0` instead of the command (`emulate.c:500`, `634`). A `poll`
timeout of -1 in 32 bits is zero extended (482). `sigsetptr` on AArch64 takes the word from
`signum` (`minilibc.c:684`). `snprintf` with size 0 writes. `dprintf` ignores short writes.
The result of `mem_alloc_data` is not checked (`main.c:160`). `fma` is not fused (`math.c:139`).
The range macros refuse the largest value (`rtld.c:28`). `rtld_elf_decode_name` succeeds without an
address for a digit that is not octal (`rtld.c:240`). `rtld_patch` ignores failed relocations,
`rtld_perf_notify` the results of all four of its writes (568, 591-593): the map then lacks a line or has a part of
one, and a reader of the jitdump file loses its place.

*x86-64 lifter.* ADC and SBB add the carry to the second operand first, which loses a flag. Shifts
by zero set flags, and the flags of SHLD, SHRD, ROL, ROR are not computed (TODO in the code).
LODS uses an address that is not set. PSHUFHW shifts its immediate wrongly. TZCNT and LZCNT are
lifted as BSF and BSR. FS or GS with a 32-bit address adds values of different types. A 16-bit POP
fails an assertion. CMPXCHG writes the accumulator also when it succeeds (`lifter-gp.cc:112`): with the
accumulator as destination the new value is lost, and in 32 bits its upper half is cleared. FXSAVE
stores zeroes for the control and status words (`lifter-sse.cc:67`, TODO in the code).

*Register passing.* `UpdateCallRet` gives back the RBP a function got only when it returns; calls and tail calls
pass an undefined value in every register that holds no guest field (`callconv.cc:307`), so the RBP that a callee
gives back need not be its caller's. The comment at 363 speaks of returns only.

*Object cache key.* `Predecode` hashes offsets and instruction bytes with nothing between them
(`rewriteserver.cc:369`). Where a block runs into undecodable bytes and another follows, the
end of the first leaves no trace, so the offset of the second may be taken for instructions: two different
functions can have the same hashed bytes. `HashDetermines` is about all other functions.

*RISC-V lifter.* Signed division by -1 returns the dividend (`rv64/lifter.cc:174`). JALR keeps bit
0 of the target (345). SC.W writes `rd` before it reads `rs1` and `rs2` and always succeeds
(461). FCLASS returns an index instead of a mask. Single precision values are not NaN-boxed, FMADD
is not fused, LR.D and SC.D are not handled, writes to CSRs are ignored. FCVT to an integer with the
dynamic rounding mode truncates (231, TODO in the code) where the mode usually is to nearest.

*AArch64 lifter.* ADCS and SBCS compute flags after the carry was added to an operand. BLR X30
reads X30 after overwriting it. ADD and SUB of W registers with UXTX or SXTX build an
invalid extension. Conversions of NaNs and of values out of range are poison. FMAX and FMIN follow
maxnum and minnum. FMADD and FMLA are not fused. STXR always succeeds. Shifts by the
element's width are poison. FCMxx on single precision scalars compares doubles. FMUL by element
adds 0.0.

*RISC-V decoder.* `C.ADD x0, rs2` decodes as EBREAK. C.LWSP and C.LDSP with `rd` 0 and C.SUBW and
C.ADDW on RV32 are not rejected. Bits that must be zero in shifts, JALR, FSQRT and FMV are not
looked at.

*GEPPromotePass.* Two GEPs with the same address are promoted separately (861-875, 922-962), so that a load
through one does not see a store through the other and becomes undef, and the stores it would still read from memory may be
deleted. Types are not compared: with LLVM 15's opaque pointers a load may be replaced by a value of
another type. `isGEPPromotable` accepts lifetime markers and casts as users, whose removal is commented out in `run`
(637); `AnalyzeGEP` casts them to `LoadInst` (78).

*GEPRestorePass.* With four or more dimensions the sizes are wrong (line 267 divides by the size
of the dimension before and not by its stride), and so they are when the outer stride comes first. A shifted index takes the shift as the dimension. Elements of one byte become i32, of 16
bytes i64. The walk may read from an empty queue after a load. The global list of results is
never cleared, and every `insertvalue` is replaced by 0.

## 9. Plan

Done: the modules above, their runs, and the proofs of thirteen components. Next, in order of importance:

1. Proofs: `OptimizePacks` (`StructCurrent`) and the folding of stores in `ChangeCallConv`.
2. Compositions: `CodeCache` with `RtldTable` as its table and `Memory` as its arena, as
   refinements instead of as assumptions; `Frv` with `Rv64`, from words to effects.
3. `RemoteMemory::Get` across pages, the configuration hash, section headers of objects.
4. `GEPPromote` with loads as operands of stores.

## 10. Running

    tlc -workers 2 -config MCMemory.cfg MCMemory      # likewise for the other configurations
    tlc -workers 2 -config MCObjCache.cfg ObjCache    # and MCObjCachePartial.cfg
    tlc -workers 2 -config MCProtocol.cfg Protocol
    tlapm MemoryProofs.tla                            # likewise for the other proof modules

The largest runs (`signals`, `predecode`, `code_cache`, `objcache`) take one to two minutes.
`MemoryProofs`, `ProtocolProofs`, `PredecodeProofs` and `RtldTableProofs` take five to eight minutes each, the other proof modules
one to four.
