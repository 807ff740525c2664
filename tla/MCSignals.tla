----------------------------- MODULE MCSignals -----------------------------
(* System calls of the guest: signals, and the translation of the other    *)
(* calls and of CPUID.  Init chooses the component a behaviour is about,   *)
(* the other one idles.                                                    *)
(*                                                                         *)
(* SIGSEGV and two signals of the guest's choice; the latter are           *)
(* interchangeable.                                                        *)
EXTENDS Signals, Sequences, TLC
CONSTANTS SEGV, USR1, USR2
MCSigs == {SEGV, USR1, USR2}
MCSync == {SEGV}
MCUser == {USR1, USR2}
Symmetry == Permutations(MCUser)

VARIABLES
  comp,   \* "signals" or "syscalls"
  guest, k_host, release, regs, mem, version, kern, warnmap, warned, want, leaf, count   \* Syscalls

(* Every call that is not passed on as it is, with arguments that take     *)
(* each path through its translation, and some that are, all by number;    *)
(* numbers beyond the warning bitmap and unknown ones.                     *)
SyArgs(a) == a \o [i \in 1..(6 - Len(a)) |-> 0]
SyCall(nr, a) == <<nr>> \o SyArgs(a)
SyFds == 0..3
SyPaths == {"file", "link", "none"}
SyFlags == {{}, {1}, {14}, {15, 16}, {17, 1}}
SyX86 ==
  {SyCall(2, <<p, f, 0>>) : p \in SyPaths, f \in SyFlags}
  \cup {SyCall(257, <<7, p, f>>) : p \in {"file"}, f \in SyFlags}
  \cup {SyCall(n, <<fd>>) : n \in {3, 32, 5}, fd \in SyFds}
  \cup {SyCall(n, <<fd, e>>) : n \in {33, 292}, fd \in SyFds, e \in SyFds}
  \cup {SyCall(72, <<fd, c, 1>>) : fd \in SyFds, c \in {0, 3}}
  \cup {SyCall(n, <<p>>) : n \in {4, 6}, p \in SyPaths}
  \cup {SyCall(262, <<-100, p, 0, f>>) : p \in SyPaths, f \in {0, 256}}
  \cup {SyCall(158, <<w, 5>>) : w \in {4098, 4097, 1}}
  \cup {SyCall(7, <<1, 2, t>>) : t \in {-1, 0, 1500}}
  \cup {SyCall(n, <<1, 2, 3, s>>) : n \in {13, 14}, s \in {4, 8}}
  \cup {SyCall(n, <<1, s>>) : n \in {127, 130}, s \in {4, 8}}
  \cup {SyCall(n, <<"file", 2, 3>>) : n \in {21, 82, 83, 84, 87, 89, 90, 92, 94}}
  \cup {SyCall(n, <<1, 2, 3, 4, 5, 6>>) :
         n \in {0, 9, 22, 34, 63, 131, 157, 186, 201, 203, 231, 260, 318, 334, 999, 1100, 31, 500, 527}}
SyGeneric ==
  {SyCall(56, <<d, p, f, 0>>) : d \in {-100, 7}, p \in SyPaths, f \in SyFlags}
  \cup {SyCall(n, <<fd>>) : n \in {57, 23, 80}, fd \in SyFds}
  \cup {SyCall(24, <<fd, e>>) : fd \in SyFds, e \in SyFds}
  \cup {SyCall(25, <<fd, c, 1>>) : fd \in SyFds, c \in {0, 3}}
  \cup {SyCall(79, <<-100, p, 0, f>>) : p \in SyPaths, f \in {0, 256}}
  \cup {SyCall(n, <<1, 2, 3, s>>) : n \in {134, 135}, s \in {4, 8}}
  \cup {SyCall(n, <<1, s>>) : n \in {133, 136}, s \in {4, 8}}
  \cup {SyCall(n, <<1, 2, 3, 4, 5, 6>>) :
         n \in {17, 35, 38, 48, 53, 54, 59, 63, 64, 78, 94, 122, 132, 160, 178, 222, 278, 293, 999, 1100}}
SyCalls == [x86_64 |-> SyX86, rv64 |-> SyGeneric, aarch64 |-> SyGeneric]

K == INSTANCE Syscalls WITH Calls <- SyCalls, MaxFd <- 2, MaxCalls <- 2, host <- k_host

kvars == <<guest, k_host, release, regs, mem, version, kern, warnmap, warned, want, leaf, count>>

MCInit ==
  /\ Init
  /\ \/ /\ comp = "signals"
        /\ guest = "idle" /\ k_host = "idle" /\ release = 0 /\ regs = <<>> /\ mem = {}
        /\ version = 0 /\ kern = <<>> /\ warnmap = {} /\ warned = <<>> /\ want = <<>>
        /\ leaf = <<>> /\ count = 0
     \/ comp = "syscalls" /\ K!Init

MCNext ==
  \/ comp = "signals" /\ Next /\ UNCHANGED <<comp, kvars>>
  \/ comp = "syscalls" /\ K!Next /\ UNCHANGED <<comp, vars>>

MCSpec == MCInit /\ [][MCNext]_<<comp, vars, kvars>>

(* After each system call the guest sees what a kernel of its own          *)
(* architecture would have shown it - its descriptors, the result, struct  *)
(* stat, the segment bases - on hosts of both architectures; CPUID answers *)
(* describe what the lifter supports; a call is warned about once.         *)
SyscallsRight == comp = "syscalls" => K!SyscallsRight /\ K!CpuidRight
=============================================================================
