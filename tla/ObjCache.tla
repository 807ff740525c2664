------------------------------ MODULE ObjCache ------------------------------
(***************************************************************************)
(* The object cache on disk (server/cache.cc), shared by all servers of a  *)
(* user: Cache::Get opens the file of a hash and Sendfile sends it,        *)
(* Cache::Put writes hash.tmp under a POSIX lock and renames it.           *)
(*                                                                         *)
(* The module models the two names of ONE hash, which never interact with  *)
(* those of another.  The hash determines the object and every writer      *)
(* starts at offset 0 of a file nobody truncates, so a file holds a prefix *)
(* of the object and its size is all that matters.  Files are inodes: a    *)
(* process may hold one open whose name has gone or moved.                 *)
(***************************************************************************)
EXTENDS Integers

\* Definitions named X_<word> are faulty variants of X: the properties that
\* must notice them are listed with the runs.

CONSTANTS
  Procs,      \* servers that share the cache directory
  Inodes,     \* files on the disk
  None,
  ObjLen      \* length of the object

ASSUME ObjCacheAssumption ==
  /\ None \notin Procs \cup Inodes
  /\ ObjLen \in Nat \ {0}

VARIABLES
  cachedir,   \* the cache directory exists
  tmp, real,  \* the inodes of the two names, or None
  size,       \* [Inodes -> 0 .. ObjLen]: the length of each file
  owner,      \* [Inodes -> Procs \cup {None}]: holder of the write lock
  allow,      \* allow_read ("r") and allow_write ("w") of each server
  pc, fd,     \* where each server is, and the file it has open
  pos, left,  \* position in the file, and Sendfile's size
  failed      \* history: some write or rename has failed (disk full, EIO)

files == <<tmp, real, size, owner>>
procs == <<pc, fd, pos, left>>
vars == <<cachedir, files, allow, procs, failed>>

Complete(i) == size[i] = ObjLen

Init ==
  /\ cachedir \in BOOLEAN
  /\ tmp = None /\ real = None
  /\ size = [i \in Inodes |-> 0]
  /\ owner = [i \in Inodes |-> None]
  /\ allow = [p \in Procs |-> {}]
  /\ pc = [p \in Procs |-> "start"]
  /\ fd = [p \in Procs |-> None]
  /\ pos = [p \in Procs |-> 0]
  /\ left = [p \in Procs |-> 0]
  /\ failed = FALSE

Goto(p, l) == pc' = [pc EXCEPT ![p] = l]

(* The call returns: its file is closed and its locals are gone.           *)
Leave(p, l) ==
  /\ Goto(p, l)
  /\ fd' = [fd EXCEPT ![p] = None]
  /\ pos' = [pos EXCEPT ![p] = 0]
  /\ left' = [left EXCEPT ![p] = 0]

(* Cache::Cache.  A server that had to create the directory does without   *)
(* the cache; the modes are those of cachemode, or none.                   *)
Construct(p) ==
  /\ pc[p] = "start"
  /\ cachedir' = TRUE
  /\ \E m \in SUBSET {"r", "w"} :
       /\ ~cachedir => m = {}
       /\ allow' = [allow EXCEPT ![p] = m]
  /\ Goto(p, "idle")
  /\ UNCHANGED <<files, fd, pos, left, failed>>

(* Cache::Get up to open; after a miss the server translates and calls Put. *)
Get(p) ==
  /\ pc[p] = "idle"
  /\ \/ /\ "r" \in allow[p] /\ real # None
        /\ fd' = [fd EXCEPT ![p] = real]
        /\ Goto(p, "stat")
     \/ /\ ~("r" \in allow[p] /\ real # None)
        /\ Goto(p, "put")
        /\ UNCHANGED fd
  /\ UNCHANGED <<cachedir, files, allow, pos, left, failed>>

(* fstat in Get.                                                           *)
StatSize_last(i) == IF size[i] = 0 THEN 0 ELSE size[i] - 1
StatSize(i) == size[i]

Stat(p) ==
  /\ pc[p] = "stat"
  /\ left' = [left EXCEPT ![p] = StatSize(fd[p])]
  /\ pos' = [pos EXCEPT ![p] = 0]
  /\ Goto(p, "send")
  /\ UNCHANGED <<cachedir, files, allow, fd, failed>>

(* Sendfile; at the end of the file sendfile returns 0 and the loop spins. *)
Sent_never(p) == left[p] < 0
Sent(p) == left[p] = 0

Send(p) ==
  /\ pc[p] = "send"
  /\ \/ /\ left[p] > 0 /\ pos[p] < size[fd[p]]
        /\ left' = [left EXCEPT ![p] = @ - 1]
        /\ pos' = [pos EXCEPT ![p] = @ + 1]
        /\ UNCHANGED <<pc, fd>>
     \/ Sent(p) /\ Leave(p, "idle")
  /\ UNCHANGED <<cachedir, files, allow, failed>>

Free(i) == i \notin {tmp, real} /\ \A q \in Procs : fd[q] # i

(* Put: open hash.tmp with O_CREAT and without O_TRUNC, or give up.        *)
OpenTmp(p) ==
  /\ pc[p] = "put"
  /\ \/ /\ Goto(p, "idle")             \* writing is not allowed, or open fails
        /\ UNCHANGED <<tmp, size, fd>>
     \/ /\ "w" \in allow[p] /\ tmp # None
        /\ fd' = [fd EXCEPT ![p] = tmp]
        /\ Goto(p, "lock")
        /\ UNCHANGED <<tmp, size>>
     \/ /\ "w" \in allow[p] /\ tmp = None
        /\ \E i \in Inodes :
             /\ Free(i)
             /\ tmp' = i
             /\ size' = [size EXCEPT ![i] = 0]
             /\ fd' = [fd EXCEPT ![p] = i]
        /\ Goto(p, "lock")
  /\ UNCHANGED <<cachedir, real, owner, allow, pos, left, failed>>

(* fcntl(F_SETLK): fails at once if another process has the lock.          *)
LockFree_ignored(p) == TRUE
LockFree(p) == owner[fd[p]] = None

Lock(p) ==
  /\ pc[p] = "lock"
  /\ \/ /\ LockFree(p)
        /\ owner' = [owner EXCEPT ![fd[p]] = p]
        /\ Goto(p, "check")
     \/ ~LockFree(p) /\ Goto(p, "close") /\ UNCHANGED owner
  /\ UNCHANGED <<cachedir, tmp, real, size, allow, fd, pos, left, failed>>

(* Somebody else got it already.                                           *)
RealExists_unchecked == FALSE
RealExists == real # None

Check(p) ==
  /\ pc[p] = "check"
  /\ \/ RealExists /\ tmp' = None /\ Goto(p, "close") /\ UNCHANGED pos
     \/ /\ ~RealExists /\ UNCHANGED tmp
        /\ pos' = [pos EXCEPT ![p] = 0]
        /\ Goto(p, "write")
  /\ UNCHANGED <<cachedir, real, size, owner, allow, fd, left, failed>>

(* write_full goes on until everything is written or a write fails.        *)
AllWritten(p) == pos[p] = ObjLen

Write(p) ==
  /\ pc[p] = "write"
  /\ \/ /\ ~AllWritten(p)
        /\ size' = [size EXCEPT ![fd[p]] = IF @ < pos[p] + 1 THEN pos[p] + 1 ELSE @]
        /\ pos' = [pos EXCEPT ![p] = @ + 1]
        /\ UNCHANGED <<tmp, pc, failed>>
     \/ /\ ~AllWritten(p)
        /\ tmp' = None /\ failed' = TRUE
        /\ Goto(p, "close")
        /\ UNCHANGED <<size, pos>>
     \/ AllWritten(p) /\ Goto(p, "rename") /\ UNCHANGED <<tmp, size, pos, failed>>
  /\ UNCHANGED <<cachedir, real, owner, allow, fd, left>>

(* rename moves whatever file has the name hash.tmp by now; if it fails    *)
(* the name is removed.                                                    *)
Rename(p) ==
  /\ pc[p] = "rename"
  /\ \/ tmp # None /\ real' = tmp /\ UNCHANGED failed
     \/ failed' = TRUE /\ UNCHANGED real
  /\ tmp' = None
  /\ Goto(p, "close")
  /\ UNCHANGED <<cachedir, size, owner, allow, fd, pos, left>>

(* Closing a file, or dying, drops the lock on it.                         *)
Released(p) == [i \in Inodes |-> IF owner[i] = p THEN None ELSE owner[i]]

Close(p) ==
  /\ pc[p] = "close"
  /\ owner' = Released(p)
  /\ Leave(p, "idle")
  /\ UNCHANGED <<cachedir, tmp, real, size, allow, failed>>

(* A server is killed and later a new one starts.                          *)
Crash(p) ==
  /\ pc[p] # "start"
  /\ owner' = Released(p)
  /\ allow' = [allow EXCEPT ![p] = {}]
  /\ Leave(p, "start")
  /\ UNCHANGED <<cachedir, tmp, real, size, failed>>

Step(p) == \/ Construct(p) \/ Get(p) \/ Stat(p) \/ Send(p) \/ OpenTmp(p)
           \/ Lock(p) \/ Check(p) \/ Write(p) \/ Rename(p) \/ Close(p)

Next == \E p \in Procs : Step(p) \/ Crash(p)

(* Every server that runs goes on; nobody has to crash.                    *)
Spec == Init /\ [][Next]_vars /\ \A p \in Procs : WF_vars(Step(p))
-----------------------------------------------------------------------------
Labels == {"start", "idle", "stat", "send", "put", "lock", "check", "write",
           "rename", "close"}

(* Type invariant: names, locks and positions.                             *)
TypeOK ==
  /\ cachedir \in BOOLEAN
  /\ tmp \in Inodes \cup {None} /\ real \in Inodes \cup {None}
  /\ size \in [Inodes -> 0 .. ObjLen]
  /\ owner \in [Inodes -> Procs \cup {None}]
  /\ allow \in [Procs -> SUBSET {"r", "w"}]
  /\ pc \in [Procs -> Labels]
  /\ fd \in [Procs -> Inodes \cup {None}]
  /\ pos \in [Procs -> 0 .. ObjLen]
  /\ left \in [Procs -> 0 .. ObjLen]
  /\ failed \in BOOLEAN

(* A file that has the name of the hash holds the whole object, whatever   *)
(* servers wrote, crashed or raced before: Put skips writing because       *)
(* "someone else got it already", and Get serves it.                       *)
Published == real # None => Complete(real)

(* ... as long as the disk does not fail.                                  *)
PublishedWhole == ~failed => Published

(* No two servers write the same file at a time (the lock in Put).         *)
SingleWriter ==
  \A p, q \in Procs : pc[p] = "write" /\ pc[q] = "write" /\ fd[p] = fd[q] => p = q

(* Publishing is sound: one writer at a time, and no part of a file is     *)
(* ever published.                                                         *)
PublishesWhole == PublishedWhole /\ SingleWriter

(* A hit sends the whole object: what Sendfile has sent and what it still  *)
(* has to send add up to it, even while others write or rename, as long as *)
(* the disk does not fail.                                                 *)
ServedWhole ==
  ~failed => \A p \in Procs : pc[p] = "send" => pos[p] + left[p] = ObjLen

(* Once an object is in the cache no later Put replaces or removes it, as  *)
(* long as the disk does not fail.                                         *)
NeverReplaced == [][~failed' /\ real # None => real' = real]_vars

(* Get with Sendfile, and Put, always return: neither the lock nor a file  *)
(* that is shorter than announced keeps a server waiting.                  *)
Returns == \A p \in Procs : pc[p] # "idle" ~> pc[p] = "idle"
-----------------------------------------------------------------------------
Locked == {"check", "write", "rename"}

(* A lock belongs to the server that has the file open.                    *)
LockHeld ==
  /\ \A p \in Procs : pc[p] \in Locked => fd[p] \in Inodes /\ owner[fd[p]] = p
  /\ \A i \in Inodes : owner[i] # None =>
       fd[owner[i]] = i /\ pc[owner[i]] \in Locked \cup {"close"}

(* Before the object is published all files being written are hash.tmp.    *)
OneTmp ==
  /\ real = None => \A p \in Procs : fd[p] \in {None, tmp}
  /\ \A p \in Procs : pc[p] \in {"write", "rename"} =>
       real = None /\ tmp # None /\ fd[p] = tmp

(* How far the writer has come.                                            *)
Progress ==
  /\ \A p \in Procs : pc[p] = "write" => pos[p] <= size[fd[p]]
  /\ \A p \in Procs : pc[p] = "rename" => Complete(fd[p])

(* Servers with an open file, and those without.                           *)
OpenFiles ==
  \A p \in Procs : pc[p] \in {"stat", "send", "lock", "close"} <=>
                   fd[p] # None /\ pc[p] \notin Locked

(* The inductive invariant: locks are right in any case, published objects *)
(* until a write fails.                                                    *)
IInv ==
  /\ TypeOK /\ LockHeld /\ OpenFiles
  /\ ~failed => Published /\ OneTmp /\ Progress

(* Until a write fails, a server that serves a hit has the published file  *)
(* open, which nobody replaces: with IInv this gives ServedWhole.          *)
ServesReal ==
  ~failed => \A p \in Procs : pc[p] \in {"stat", "send"} => real # None /\ fd[p] = real
=============================================================================
