------------------------------ MODULE Syscalls ------------------------------
(***************************************************************************)
(* System calls of the guest on the host's kernel (client/emulate.c).  A   *)
(* guest of one of three architectures asks, with its own call numbers,    *)
(* registers, flag bits and struct layouts, for what the kernel of another *)
(* architecture does.  `kern` is the state the client's calls leave the    *)
(* kernel in, `want` the state and the answer of a kernel of the guest's   *)
(* own architecture.  A word of an argument is a number or a token; a call *)
(* whose effect no property tells apart returns a token that names it.     *)
(***************************************************************************)
EXTENDS Integers, Sequences, TLC

CONSTANTS
  Calls,     \* Calls[g]: the calls <<nr, a0, .., a5>> a guest of architecture g makes
  MaxFd,     \* the kernel's limit on descriptors
  MaxCalls   \* bound on the calls of one behaviour

VARIABLES
  guest, host,   \* the architectures
  release,       \* the major number of the host's kernel
  regs,          \* cpu_regs: the words of the guest's register struct
  mem,           \* the guest's struct stat buffer: offsets and values
  version,       \* the guest's struct utsname: the major number, 0 before uname
  kern,          \* the descriptors of the client
  warnmap,       \* unhandled_syscall's bits
  warned,        \* history: the numbers warned about
  want,          \* the descriptors and the answer on the guest's own kernel
  leaf,          \* history: the CPUID leaf that the registers hold
  count

vars == <<guest, host, release, regs, mem, version, kern, warnmap, warned, want, leaf, count>>

EINVAL == -22
ENOSYS == -38
EBADF == -9
ENOENT == -2
EMFILE == -24
CWD == -100
F_GETFL == 3
F_DUPFD == 0
NOFOLLOW == 256
REMOVEDIR == 512
SET_GS == 4097
SET_FS == 4098

(* The open flags that move between architectures, as bit numbers.         *)
FlagBit(arch) ==
  IF arch = "aarch64" THEN [DIRECTORY |-> 14, NOFOLLOW |-> 15, DIRECT |-> 16, LARGEFILE |-> 17]
                      ELSE [DIRECT |-> 14, LARGEFILE |-> 15, DIRECTORY |-> 16, NOFOLLOW |-> 17]

FlagNames(arch, bits) ==
  {f \in {"DIRECT", "LARGEFILE", "DIRECTORY", "NOFOLLOW"} : FlagBit(arch)[f] \in bits}
-----------------------------------------------------------------------------
(* The kernel.  k maps open descriptors to <<file, flags>>.                *)

Answer(k, res) == [fds |-> k, res |-> res, st |-> <<>>]
Lowest(k, from) == CHOOSE n \in from..(MaxFd + 1) :
                     n \notin DOMAIN k /\ \A m \in from..(n - 1) : m \in DOMAIN k
Install(k, from, file) ==
  IF Lowest(k, from) > MaxFd THEN Answer(k, EMFILE)
  ELSE Answer(k @@ (Lowest(k, from) :> file), Lowest(k, from))
Stat(k, file) == [Answer(k, 0) EXCEPT !.st = <<file>>]

(* "link" is a symbolic link to "file"; any other path does not exist.     *)
Follow(path) == IF path = "link" THEN "file" ELSE path

Open(arch, k, dir, path, bits) ==
  IF path \notin {"file", "link"} THEN Answer(k, ENOENT)
  ELSE Install(k, 0, <<dir, Follow(path), FlagNames(arch, bits), bits \ (14..17)>>)

StatAt(k, dir, path, follow) ==
  IF path \notin {"file", "link"} THEN Answer(k, ENOENT)
  ELSE Stat(k, <<dir, IF follow THEN Follow(path) ELSE path>>)

(* The call c of name c[1] on a kernel of architecture arch.  The calls    *)
(* without a directory are those with the working directory.               *)
Kernel(arch, k, c) ==
  CASE c[1] = "open" -> Open(arch, k, CWD, c[2], c[3])
    [] c[1] = "openat" -> Open(arch, k, c[2], c[3], c[4])
    [] c[1] \in {"close", "dup", "dup2", "dup3", "fcntl", "fstat"} /\ c[2] \notin DOMAIN k ->
         Answer(k, EBADF)
    [] c[1] = "close" -> Answer([n \in DOMAIN k \ {c[2]} |-> k[n]], 0)
    [] c[1] = "dup" -> Install(k, 0, k[c[2]])
    [] c[1] = "dup2" /\ c[2] = c[3] -> Answer(k, c[3])
    [] c[1] = "dup3" /\ c[2] = c[3] -> Answer(k, EINVAL)
    [] c[1] \in {"dup2", "dup3"} -> IF c[3] > MaxFd THEN Answer(k, EBADF)
                                    ELSE Answer((c[3] :> k[c[2]]) @@ k, c[3])
    [] c[1] = "fcntl" /\ c[3] = F_DUPFD -> Install(k, c[4], k[c[2]])
    [] c[1] = "fcntl" /\ c[3] = F_GETFL -> Answer(k, 0)
    [] c[1] = "fstat" -> Stat(k, k[c[2]])
    [] c[1] = "stat" -> StatAt(k, CWD, c[2], TRUE)
    [] c[1] = "lstat" -> StatAt(k, CWD, c[2], FALSE)
    [] c[1] = "newfstatat" -> StatAt(k, c[2], c[3], c[5] # NOFOLLOW)
    [] c[1] \in {"access", "mkdir", "chmod"} -> Answer(k, <<"at", c[1], CWD, c[2], c[3]>>)
    [] c[1] \in {"faccessat", "mkdirat", "fchmodat"} ->
         Answer(k, <<"at", [faccessat |-> "access", mkdirat |-> "mkdir", fchmodat |-> "chmod"][c[1]],
                     c[2], c[3], c[4]>>)
    [] c[1] = "rename" -> Answer(k, <<"renameat", CWD, c[2], CWD, c[3]>>)
    [] c[1] = "renameat" -> Answer(k, <<"renameat", c[2], c[3], c[4], c[5]>>)
    [] c[1] = "rmdir" -> Answer(k, <<"unlinkat", CWD, c[2], REMOVEDIR>>)
    [] c[1] = "unlink" -> Answer(k, <<"unlinkat", CWD, c[2], 0>>)
    [] c[1] = "unlinkat" -> Answer(k, <<"unlinkat", c[2], c[3], c[4]>>)
    [] c[1] = "readlink" -> Answer(k, <<"readlinkat", CWD, c[2], c[3], c[4]>>)
    [] c[1] = "readlinkat" -> Answer(k, <<"readlinkat", c[2], c[3], c[4], c[5]>>)
    [] c[1] = "chown" -> Answer(k, <<"fchownat", CWD, c[2], c[3], c[4], 0>>)
    [] c[1] = "lchown" -> Answer(k, <<"fchownat", CWD, c[2], c[3], c[4], NOFOLLOW>>)
    [] c[1] = "fchownat" -> Answer(k, <<"fchownat", c[2], c[3], c[4], c[5], c[6]>>)
    [] c[1] = "pipe" -> Answer(k, <<"pipe2", c[2], 0>>)
    [] c[1] = "pipe2" -> Answer(k, <<"pipe2", c[2], c[3]>>)
    [] c[1] = "poll" -> Answer(k, <<"poll", c[2], c[3], c[4]>>)
    [] c[1] = "pause" -> Answer(k, <<"poll", 0, 0, -1>>)
    [] c[1] = "ppoll" ->   \* milliseconds from a timespec, -1 for none
         Answer(k, <<"poll", c[2], c[3], IF c[4] = <<>> THEN -1 ELSE c[4][1] * 1000 + c[4][2] \div 1000000>>)
    [] c[1] \in {"rt_sigaction", "rt_sigprocmask"} /\ c[5] # 8 -> Answer(k, EINVAL)
    [] c[1] \in {"rt_sigpending", "rt_sigsuspend"} /\ c[3] # 8 -> Answer(k, EINVAL)
    [] c[1] = "arch_prctl" -> Answer(k, IF c[2] \in {SET_FS, SET_GS} THEN 0 ELSE EINVAL)
    [] c[1] = "uname" -> Answer(k, 0)
    [] OTHER -> Answer(k, c)
-----------------------------------------------------------------------------
(* The guest's side of the kernel's interface: where the registers are in  *)
(* the words of the register struct, the fields of struct stat, and the    *)
(* names of the numbers that the runs use.                                 *)

Word(g, r) ==
  CASE g = "x86_64" -> [nr |-> 1, a0 |-> 8, a1 |-> 7, a2 |-> 3, a3 |-> 11, a4 |-> 9, a5 |-> 10,
                        res |-> 1, fs |-> 18, gs |-> 19][r]
    [] g = "rv64" -> [nr |-> 1 + 17, a0 |-> 1 + 10, a1 |-> 1 + 11, a2 |-> 1 + 12, a3 |-> 1 + 13,
                      a4 |-> 1 + 14, a5 |-> 1 + 15, res |-> 1 + 10][r]
    [] g = "aarch64" -> [nr |-> 2 + 8, a0 |-> 2, a1 |-> 3, a2 |-> 4, a3 |-> 5, a4 |-> 6, a5 |-> 7,
                         res |-> 2][r]

StatOffset(g) ==
  [dev |-> 0, ino |-> 8, size |-> 48, blksize |-> 56, blocks |-> 64, atime |-> 72,
   atime_nsec |-> 80, mtime |-> 88, mtime_nsec |-> 96, ctime |-> 104, ctime_nsec |-> 112]
  @@ (IF g = "x86_64" THEN [nlink |-> 16, mode |-> 24, uid |-> 28, gid |-> 32, rdev |-> 40]
                      ELSE [mode |-> 16, nlink |-> 20, uid |-> 24, gid |-> 28, rdev |-> 32])

X86Number ==
  2 :> "open" @@ 4 :> "stat" @@ 5 :> "fstat" @@ 6 :> "lstat" @@ 7 :> "poll" @@ 33 :> "dup2"
  @@ 34 :> "pause" @@ 21 :> "access" @@ 22 :> "pipe" @@ 82 :> "rename" @@ 83 :> "mkdir"
  @@ 84 :> "rmdir" @@ 87 :> "unlink" @@ 89 :> "readlink" @@ 90 :> "chmod" @@ 92 :> "chown"
  @@ 94 :> "lchown" @@ 72 :> "fcntl" @@ 157 :> "prctl" @@ 158 :> "arch_prctl" @@ 257 :> "openat"
  @@ 262 :> "newfstatat" @@ 13 :> "rt_sigaction" @@ 14 :> "rt_sigprocmask"
  @@ 127 :> "rt_sigpending" @@ 130 :> "rt_sigsuspend" @@ 131 :> "sigaltstack" @@ 201 :> "time"
  @@ 231 :> "exit_group" @@ 0 :> "read" @@ 3 :> "close" @@ 9 :> "mmap" @@ 32 :> "dup"
  @@ 63 :> "uname" @@ 186 :> "gettid" @@ 260 :> "fchownat" @@ 292 :> "dup3" @@ 318 :> "getrandom"

GenericNumber ==
  17 :> "getcwd" @@ 23 :> "dup" @@ 24 :> "dup3" @@ 25 :> "fcntl" @@ 35 :> "unlinkat"
  @@ 38 :> "renameat" @@ 48 :> "faccessat" @@ 53 :> "fchmodat" @@ 54 :> "fchownat"
  @@ 56 :> "openat" @@ 57 :> "close" @@ 59 :> "pipe2" @@ 63 :> "read" @@ 64 :> "write"
  @@ 78 :> "readlinkat" @@ 79 :> "newfstatat" @@ 80 :> "fstat" @@ 94 :> "exit_group"
  @@ 132 :> "sigaltstack" @@ 133 :> "rt_sigsuspend" @@ 134 :> "rt_sigaction"
  @@ 135 :> "rt_sigprocmask" @@ 136 :> "rt_sigpending" @@ 160 :> "uname" @@ 178 :> "gettid"
  @@ 222 :> "mmap" @@ 278 :> "getrandom"

Numbers(g) == IF g = "x86_64" THEN X86Number ELSE GenericNumber

(* The calls the client answers with an error whatever they ask for.       *)
Refused(g) == IF g = "x86_64" THEN {157, 203, 204, 334} ELSE {122, 123, 293}

(* The answer of the guest's own kernel, which knows no other numbers.     *)
Wanted(g, k, c) ==
  IF c[1] \in DOMAIN Numbers(g)
  THEN Kernel(g, k, <<Numbers(g)[c[1]]>> \o Tail(c)) ELSE Answer(k, ENOSYS)
-----------------------------------------------------------------------------
(* What the client does with a call: it passes one to the host's kernel    *)
(* (`host`), answers it itself (`res`), or does one of the few special     *)
(* things (`do`).                                                          *)
Pass(name, a) == [do |-> "host", call |-> <<name>> \o a]
Return(res) == [do |-> "res", res |-> res]
Do(what, a) == [do |-> what, call |-> a]

(* emulate_openat_flags: bits 14 to 17 to the host's O_DIRECT,             *)
(* O_LARGEFILE, O_DIRECTORY and O_NOFOLLOW.                                *)
emulate_openat_flags(bits) ==
  LET host_bit == FlagBit("aarch64")
      swap == 14 :> host_bit.DIRECT @@ 15 :> host_bit.LARGEFILE
              @@ 16 :> host_bit.DIRECTORY @@ 17 :> host_bit.NOFOLLOW
  IN IF host # "aarch64" THEN bits
     ELSE (bits \ (14..17)) \cup {swap[b] : b \in bits \cap (14..17)}

(* The calls that go to the host under their own name.                     *)
Easy ==
  0 :> "read" @@ 1 :> "write" @@ 3 :> "close" @@ 8 :> "lseek" @@ 9 :> "mmap" @@ 10 :> "mprotect"
  @@ 11 :> "munmap" @@ 12 :> "brk" @@ 16 :> "ioctl" @@ 17 :> "pread64" @@ 18 :> "pwrite64"
  @@ 19 :> "readv" @@ 20 :> "writev" @@ 24 :> "sched_yield" @@ 25 :> "mremap" @@ 28 :> "madvise"
  @@ 32 :> "dup" @@ 39 :> "getpid" @@ 41 :> "socket" @@ 42 :> "connect" @@ 63 :> "uname"
  @@ 76 :> "truncate" @@ 77 :> "ftruncate" @@ 79 :> "getcwd" @@ 80 :> "chdir" @@ 81 :> "fchdir"
  @@ 91 :> "fchmod" @@ 96 :> "gettimeofday" @@ 97 :> "getrlimit" @@ 99 :> "sysinfo"
  @@ 102 :> "getuid" @@ 104 :> "getgid" @@ 107 :> "geteuid" @@ 108 :> "getegid"
  @@ 115 :> "getgroups" @@ 116 :> "setgroups" @@ 137 :> "statfs" @@ 161 :> "chroot"
  @@ 186 :> "gettid" @@ 191 :> "getxattr" @@ 192 :> "lgetxattr" @@ 193 :> "fgetxattr"
  @@ 202 :> "futex" @@ 217 :> "getdents64" @@ 218 :> "set_tid_address" @@ 221 :> "fadvise64"
  @@ 228 :> "clock_gettime" @@ 229 :> "clock_getres" @@ 230 :> "clock_nanosleep"
  @@ 260 :> "fchownat" @@ 268 :> "fchmodat" @@ 270 :> "pselect6" @@ 271 :> "ppoll"
  @@ 273 :> "set_robust_list" @@ 274 :> "get_robust_list" @@ 292 :> "dup3" @@ 293 :> "pipe2"
  @@ 302 :> "prlimit64" @@ 318 :> "getrandom"

(* "Some are too old to work on newer platforms, but have replacements."   *)
Old(nr, a) ==
  CASE nr = 2 -> Pass("openat", <<CWD, a[1], emulate_openat_flags(a[2]), a[3], a[5], a[6]>>)
    [] nr = 257 -> Pass("openat", [a EXCEPT ![3] = emulate_openat_flags(a[3])])
    [] nr = 21 -> Pass("faccessat", <<CWD, a[1], a[2], 0, 0, 0>>)
    [] nr = 22 -> Pass("pipe2", <<a[1], 0, 0, 0, 0, 0>>)
    [] nr = 82 -> Pass("renameat", <<CWD, a[1], CWD, a[2], 0, 0>>)
    [] nr = 83 -> Pass("mkdirat", <<CWD, a[1], a[2], 0, 0, 0>>)
    [] nr = 84 -> Pass("unlinkat", <<CWD, a[1], REMOVEDIR, 0, 0, 0>>)
    [] nr = 87 -> Pass("unlinkat", <<CWD, a[1], 0, 0, 0, 0>>)
    [] nr = 89 -> Pass("readlinkat", <<CWD, a[1], a[2], a[3], 0, 0>>)
    [] nr = 90 -> Pass("fchmodat", <<CWD, a[1], a[2], 0, 0, 0>>)
    [] nr = 92 -> Pass("fchownat", <<CWD, a[1], a[2], a[3], 0, 0>>)
    [] nr = 94 -> Pass("fchownat", <<CWD, a[1], a[2], a[3], NOFOLLOW, 0>>)

(* stat, fstat, lstat and newfstatat fill a struct of the client, which is *)
(* copied to the guest's at `tgt` if the call succeeds.                    *)
StatCall(nr, a) ==
  CASE nr = 262 -> Do("stat", <<"newfstatat", a[1], a[2], "tmp", a[4], 0, 0>>)
    [] nr = 4 -> Do("stat", <<"newfstatat", CWD, a[1], "tmp", 0, 0, 0>>)
    [] nr = 5 -> Do("stat", <<"fstat", a[1], "tmp", 0, 0, 0, 0>>)
    [] nr = 6 -> Do("stat", <<"newfstatat", CWD, a[1], "tmp", NOFOLLOW, 0, 0>>)

(* The packed struct of emulate_syscall, as fields and sizes ...           *)
StatLayout ==
  <<<<"dev", 8>>, <<"ino", 8>>, <<"nlink", 8>>, <<"mode", 4>>, <<"uid", 4>>, <<"gid", 4>>,
    <<"pad0", 4>>, <<"rdev", 8>>, <<"size", 8>>, <<"blksize", 8>>, <<"blocks", 8>>,
    <<"atime", 8>>, <<"atime_nsec", 8>>, <<"mtime", 8>>, <<"mtime_nsec", 8>>,
    <<"ctime", 8>>, <<"ctime_nsec", 8>>>>

(* ... and of emulate_syscall_generic.                                     *)
GenericStatLayout ==
  <<<<"dev", 8>>, <<"ino", 8>>, <<"mode", 4>>, <<"nlink", 4>>, <<"uid", 4>>, <<"gid", 4>>,
    <<"rdev", 8>>, <<"pad0", 8>>, <<"size", 8>>, <<"blksize", 4>>, <<"pad1", 4>>,
    <<"blocks", 8>>, <<"atime", 8>>, <<"atime_nsec", 8>>, <<"mtime", 8>>, <<"mtime_nsec", 8>>,
    <<"ctime", 8>>, <<"ctime_nsec", 8>>>>

(* A layout as pairs of an offset and a field.                             *)
Placed(layout) ==
  LET f[i \in 1..Len(layout)] == IF i = 1 THEN 0 ELSE f[i - 1] + layout[i - 1][2]
  IN {<<f[i], layout[i][1]>> : i \in 1..Len(layout)}
StatPlaces == Placed(StatLayout)
GenericStatPlaces == Placed(GenericStatLayout)

(* The guest's buffer after the fields of `st` are assigned; the padding   *)
(* stays as it is.                                                         *)
CopyStat(places, st) ==
  {<<p[1], st, p[2]>> : p \in {q \in places : q[2] \notin {"pad0", "pad1"}}}

(* "Emulate kernel 5.0.0 -- glibc checks kernel versions."                 *)
uname(rel) == IF rel <= 4 THEN 5 ELSE rel

dup2_plain(a) == Pass("dup3", <<a[1], a[2], 0, 0, 0, 0>>)

(* "If oldfd == newfd return EBADF if oldfd is invalid"; dup3 would return *)
(* an error.                                                               *)
dup2(a) == IF a[1] = a[2] THEN Do("same", <<"fcntl", a[1], F_GETFL, 0, 0, 0, 0>>)
           ELSE Pass("dup3", <<a[1], a[2], 0, 0, 0, 0>>)

(* fcntl looks for the command in its first argument, the descriptor.      *)
fcntl(a) ==
  IF a[1] \in (0..8) \cup {1030} THEN Pass("fcntl", a) ELSE Do("unhandled", a)

(* rt_sigaction and rt_sigprocmask are the client's own (Signals); the     *)
(* others go to the host.                                                  *)
Signal(name, a) ==
  CASE name \in {"rt_sigaction", "rt_sigprocmask"} ->
         Return(IF a[4] # 8 THEN EINVAL ELSE <<name>> \o a)
    [] name \in {"rt_sigpending", "rt_sigsuspend"} ->
         IF a[2] # 8 THEN Return(EINVAL) ELSE Pass(name, <<a[1], a[2], 0, 0, 0, 0>>)
    [] name = "sigaltstack" -> Return(<<name>> \o a)

arch_prctl(a) ==
  IF a[1] \in {SET_GS, SET_FS} THEN Do("base", a) ELSE Return(EINVAL)

poll(a) ==
  Pass("ppoll", <<a[1], a[2], IF a[3] >= 0 THEN <<a[3] \div 1000, (a[3] % 1000) * 1000000>> ELSE <<>>,
                  0, 8, 0>>)

(* The switch of emulate_syscall.                                          *)
X86Call(nr, a) ==
  CASE nr \in DOMAIN Easy -> Pass(Easy[nr], a)
    [] nr = 23 /\ host = "x86_64" -> Pass("select", a)
    [] nr \in {2, 21, 22, 82, 83, 84, 87, 89, 90, 92, 94, 257} -> Old(nr, a)
    [] nr \in {4, 5, 6, 262} -> StatCall(nr, a)
    [] nr = 7 -> poll(a)
    [] nr = 33 -> dup2(a)
    [] nr = 34 -> Pass("ppoll", <<0, 0, <<>>, 0, 0, 0>>)
    [] nr = 72 -> fcntl(a)
    [] nr = 157 -> Return(EINVAL)
    [] nr = 158 -> arch_prctl(a)
    [] nr = 201 -> Return(<<"time">> \o a)
    [] nr = 231 -> Pass("exit_group", a)
    [] nr \in {203, 204, 334} -> Return(ENOSYS)
    [] nr = 13 -> Signal("rt_sigaction", a)
    [] nr = 14 -> Signal("rt_sigprocmask", a)
    [] nr = 127 -> Signal("rt_sigpending", a)
    [] nr = 130 -> Signal("rt_sigsuspend", a)
    [] nr = 131 -> Signal("sigaltstack", a)
    [] OTHER -> Do("unhandled", a)

GenericEasy ==
  17 :> "getcwd" @@ 23 :> "dup" @@ 24 :> "dup3" @@ 29 :> "ioctl" @@ 35 :> "unlinkat"
  @@ 38 :> "renameat" @@ 46 :> "ftruncate" @@ 48 :> "faccessat" @@ 49 :> "chdir"
  @@ 50 :> "fchdir" @@ 51 :> "chroot" @@ 52 :> "fchmod" @@ 53 :> "fchmodat" @@ 54 :> "fchownat"
  @@ 55 :> "fchown" @@ 57 :> "close" @@ 59 :> "pipe2" @@ 61 :> "getdents64" @@ 62 :> "lseek"
  @@ 63 :> "read" @@ 64 :> "write" @@ 65 :> "readv" @@ 66 :> "writev" @@ 67 :> "pread64"
  @@ 68 :> "pwrite64" @@ 73 :> "ppoll" @@ 78 :> "readlinkat" @@ 93 :> "exit"
  @@ 94 :> "exit_group" @@ 96 :> "set_tid_address" @@ 99 :> "set_robust_list"
  @@ 100 :> "get_robust_list" @@ 113 :> "clock_gettime" @@ 114 :> "clock_getres"
  @@ 115 :> "clock_nanosleep" @@ 124 :> "sched_yield" @@ 131 :> "tgkill"
  @@ 169 :> "gettimeofday" @@ 172 :> "getpid" @@ 173 :> "getppid" @@ 174 :> "getuid"
  @@ 175 :> "geteuid" @@ 176 :> "getgid" @@ 177 :> "getegid" @@ 178 :> "gettid"
  @@ 179 :> "sysinfo" @@ 214 :> "brk" @@ 215 :> "munmap" @@ 216 :> "mremap" @@ 222 :> "mmap"
  @@ 223 :> "fadvise64" @@ 226 :> "mprotect" @@ 233 :> "madvise" @@ 260 :> "wait4"
  @@ 261 :> "prlimit64" @@ 276 :> "renameat2" @@ 278 :> "getrandom"

(* The switch of emulate_syscall_generic.                                  *)
GenericCall(nr, a) ==
  CASE nr \in DOMAIN GenericEasy -> Pass(GenericEasy[nr], a)
    [] nr = 25 -> fcntl(a)
    [] nr = 56 -> Pass("openat", [a EXCEPT ![3] = emulate_openat_flags(a[3])])
    [] nr = 80 -> Do("stat", <<"fstat", a[1], "tmp", 0, 0, 0, 0>>)
    [] nr = 160 -> Do("uname", <<"uname", a[1], 0, 0, 0, 0, 0>>)
    [] nr = 79 -> Do("stat", <<"newfstatat", a[1], a[2], "tmp", a[4], 0, 0>>)
    [] nr \in {122, 123, 293} -> Return(ENOSYS)
    [] nr = 134 -> Signal("rt_sigaction", a)
    [] nr = 135 -> Signal("rt_sigprocmask", a)
    [] nr = 136 -> Signal("rt_sigpending", a)
    [] nr = 133 -> Signal("rt_sigsuspend", a)
    [] nr = 132 -> Signal("sigaltstack", a)
    [] OTHER -> Do("unhandled", a)

(* "openat on AArch64 has some swapped flags": to the generic bits.        *)
Aarch64Flags(bits) ==
  (bits \ (14..17)) \cup {b + 2 : b \in bits \cap {14, 15}} \cup {b - 2 : b \in bits \cap {16, 17}}

Aarch64Call(nr, a) ==
  IF nr = 56 THEN GenericCall(nr, [a EXCEPT ![3] = Aarch64Flags(a[3])]) ELSE GenericCall(nr, a)

(* Where each entry point takes the number and the arguments from, and     *)
(* where it puts the result.                                               *)
X86Regs == [nr |-> 1, args |-> <<8, 7, 3, 11, 9, 10>>, res |-> 1]
Rv64Regs == [nr |-> 18, args |-> <<11, 12, 13, 14, 15, 16>>, res |-> 11]
Aarch64Regs == [nr |-> 10, args |-> <<2, 3, 4, 5, 6, 7>>, res |-> 2]

Entry(g) ==
  CASE g = "x86_64" -> X86Regs [] g = "rv64" -> Rv64Regs [] g = "aarch64" -> Aarch64Regs
Emulate(g, nr, a) ==
  CASE g = "x86_64" -> X86Call(nr, a)
    [] g = "rv64" -> GenericCall(nr, a)
    [] g = "aarch64" -> Aarch64Call(nr, a)

(* sizeof(warnmap) * 8                                                     *)
MapBits == 1024

(* The bit of a number in its word of warnmap: 1 << nr % 64 on an int,     *)
(* which both hosts compute modulo 32 and sign-extend.                     *)
WarnBits(nr) ==
  {<<nr \div 64, b>> : b \in IF nr % 32 = 31 THEN 31..63 ELSE {nr % 32}}

(* "warn only once about each syscall"                                     *)
unhandled_syscall(nr) ==
  IF nr < MapBits /\ WarnBits(nr) \cap warnmap # {} THEN UNCHANGED <<warnmap, warned>>
  ELSE /\ warned' = Append(warned, nr)
       /\ warnmap' = IF nr < MapBits THEN warnmap \cup WarnBits(nr) ELSE warnmap

(* cpu_regs[18] and cpu_regs[19].                                          *)
SetBase(a) == (IF a[1] = SET_GS THEN 19 ELSE 18) :> a[2]

(* The registers with the number and the arguments where the guest's       *)
(* architecture has them.                                                  *)
Loaded(c) ==
  LET word == <<Word(guest, "nr"), Word(guest, "a0"), Word(guest, "a1"), Word(guest, "a2"),
                Word(guest, "a3"), Word(guest, "a4"), Word(guest, "a5")>>
  IN [w \in DOMAIN regs |-> IF \E i \in 1..7 : word[i] = w
                            THEN c[CHOOSE i \in 1..7 : word[i] = w] ELSE regs[w]]

(* What the call d of the client leaves in the kernel, and its result.     *)
Done(d) ==
  CASE d.do \in {"host", "stat", "same", "uname"} -> Kernel(host, kern, d.call)
    [] d.do = "res" -> Answer(kern, d.res)
    [] d.do = "base" -> Answer(kern, 0)
    [] d.do = "unhandled" -> Answer(kern, ENOSYS)

(* The guest's own kernel makes the call c.                                *)
WantCall(c) ==
  \E w \in {Wanted(guest, want.fds, c)} :
    want' = [fds |-> w.fds, res |-> w.res, refused |-> c[1] \in Refused(guest), st |-> IF w.st # <<>> THEN w.st ELSE want.st,
             fs |-> IF guest = "x86_64" /\ c[1] = 158 /\ c[2] = SET_FS THEN c[3] ELSE want.fs,
             gs |-> IF guest = "x86_64" /\ c[1] = 158 /\ c[2] = SET_GS THEN c[3] ELSE want.gs]

(* One system call: emulate_syscall, emulate_rv64_syscall or               *)
(* emulate_aarch64_syscall.                                                *)
Syscall(c) ==
  LET e == Entry(guest)
      places == IF guest = "x86_64" THEN StatPlaces ELSE GenericStatPlaces
  IN /\ count < MaxCalls /\ count' = count + 1
     /\ \E r \in {Loaded(c)} :
          \E d \in {Emulate(guest, r[e.nr], <<r[e.args[1]], r[e.args[2]], r[e.args[3]],
                                              r[e.args[4]], r[e.args[5]], r[e.args[6]]>>)} :
            \E k \in {Done(d)} :
              /\ kern' = k.fds
              /\ regs' = (e.res :> IF d.do = "same" /\ k.res >= 0 THEN r[e.args[2]] ELSE k.res)
                         @@ (IF d.do = "base" THEN SetBase(d.call) ELSE <<>>) @@ r
              /\ mem' = IF d.do = "stat" /\ k.res = 0 THEN CopyStat(places, k.st) ELSE mem
              /\ version' = CASE d.do = "uname" -> uname(release)
                             [] d.do = "host" /\ d.call[1] = "uname" -> release   \* case 63: native
                             [] OTHER -> version
              /\ IF d.do = "unhandled" THEN unhandled_syscall(r[e.nr])
                                       ELSE UNCHANGED <<warnmap, warned>>
     /\ WantCall(c) /\ leaf' = <<>>
     /\ UNCHANGED <<guest, host, release>>

(* emulate_cpuid: EAX, ECX, EDX and EBX of a leaf.  Leaf 2 has its reserved *)
(* bits (bit 31) apart.  A leaf above 7 is taken for 7.                    *)
emulate_cpuid(rax, rcx) ==
  CASE rax = 0 -> <<7, \h6c65746e, \h49656e69, \h756e6547>>
    [] rax = 1 -> <<0, \h00400000, \h07808141, 0>>
    [] rax = 2 -> <<1, \hec, 0, 0>>
    [] rax \in 3..6 -> <<0, 0, 0, 0>>
    [] OTHER -> IF rcx = 0 THEN <<0, 0, 0, \h2200>> ELSE <<0, 0, 0, 0>>

(* CPUID: the lifted code takes the two words of the result apart.         *)
Cpuid(rax, rcx) ==
  LET res == emulate_cpuid(rax, rcx)
  IN /\ guest = "x86_64" /\ count < MaxCalls /\ count' = count + 1
     /\ regs' = [regs EXCEPT ![1] = res[1], ![2] = res[2], ![3] = res[3], ![4] = res[4]]
     /\ want' = [want EXCEPT !.res = res[1], !.refused = FALSE]
     /\ leaf' = <<rax, rcx>>
     /\ UNCHANGED <<guest, host, release, mem, version, kern, warnmap, warned>>

Init ==
  /\ guest \in DOMAIN Calls /\ host \in {"x86_64", "aarch64"} /\ release \in {4, 6}
  /\ regs = [w \in 0..19 |-> 0] /\ mem = {} /\ version = 0
  /\ kern = [n \in 0..1 |-> <<CWD, "tty", {}, {}>>]
  /\ warnmap = {} /\ warned = <<>> /\ count = 0
  /\ leaf = <<>>
  /\ want = [fds |-> kern, res |-> 0, refused |-> FALSE, st |-> <<>>, fs |-> 0, gs |-> 0]

Finished == count = MaxCalls /\ UNCHANGED vars

Next ==
  \/ \E c \in Calls[guest] : Syscall(c)
  \/ \E rax \in 0..9, rcx \in {0, 1} : Cpuid(rax, rcx)
  \/ Finished

Spec == Init /\ [][Next]_vars
-----------------------------------------------------------------------------
(* No number below 1024 is warned about twice, although numbers share bits *)
(* of the map.                                                             *)
Once(w) == \A i, j \in 1..Len(w) : w[i] = w[j] /\ w[i] < MapBits => i = j
WarnedOnce == Once(warned)

(* The inductive invariant: who was warned about is in the map.            *)
Mapped(w, map) == \A i \in 1..Len(w) : w[i] < MapBits => WarnBits(w[i]) \subseteq map
IsSeq(s) == s \in Seq({s[i] : i \in 1..Len(s)})
WarnInv == IsSeq(warned) /\ WarnedOnce /\ Mapped(warned, warnmap)

(* The guest cannot tell the client from a kernel of its own: after every  *)
(* call the descriptors, the open flags, the result register, the segment  *)
(* bases and every field of its struct stat are those its own kernel would *)
(* have left; the calls the client refuses report an error.  RISC-V and    *)
(* AArch64 guests never see a kernel older than glibc accepts ("Emulate    *)
(* kernel 5.0.0"); an x86-64 guest sees the host's.                        *)
SyscallsRight ==
  /\ kern = want.fds
  /\ count > 0 => IF want.refused THEN regs[Word(guest, "res")] \in {EINVAL, ENOSYS}
                  ELSE regs[Word(guest, "res")] = want.res
  /\ guest = "x86_64" => /\ regs[Word(guest, "fs")] = want.fs
                         /\ regs[Word(guest, "gs")] = want.gs
  /\ want.st # <<>> => \A f \in DOMAIN StatOffset(guest) :
                         <<StatOffset(guest)[f], want.st, f>> \in mem
  /\ guest # "x86_64" /\ version # 0 => version >= 5
  /\ WarnedOnce

HasBits(v, bits) == \A b \in bits : (v \div 2^b) % 2 = 1

(* CPUID spells the vendor in EBX, EDX and ECX, promises every feature     *)
(* x86-64 code takes for granted (FPU, CX8, CMOV, MMX, FXSR, SSE, SSE2),   *)
(* and none of SSE3 to SSE4.2, AVX and AVX2, of which little is lifted:    *)
(* the guest's libraries choose their code by these.                       *)
CpuidRight ==
  LET cx == regs[2]  dx == regs[3]  bx == regs[4]
  IN /\ leaf # <<>> /\ leaf[1] = 0 => /\ bx = \h756e6547 /\ dx = \h49656e69
                                      /\ cx = \h6c65746e /\ regs[1] = 7
     /\ leaf # <<>> /\ leaf[1] = 1 => /\ HasBits(dx, {0, 8, 15, 23, 24, 25, 26})
                                      /\ \A b \in {0, 9, 19, 20, 28} : ~HasBits(cx, {b})
     /\ leaf # <<>> /\ leaf[1] >= 7 => ~HasBits(bx, {5})
=============================================================================
