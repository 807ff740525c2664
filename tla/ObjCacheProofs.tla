--------------------------- MODULE ObjCacheProofs ---------------------------
(***************************************************************************)
(* Proofs for ObjCache, for any number of servers and files: no two        *)
(* servers write the same file, and as long as no write fails only         *)
(* complete objects are published and none is ever replaced.               *)
(***************************************************************************)
EXTENDS ObjCache, TLAPS

(* Leaves go to Zenon, with time for a slow machine; those that need       *)
(* arithmetic or sequences name the SMT solver.                            *)
USE ZenonT(60)

(* The initial state has no file, no lock and no running server.           *)
LEMMA InitIInv == Init => IInv
<1> SUFFICES ASSUME Init
             PROVE  IInv
  OBVIOUS
<1>0. failed \in BOOLEAN
  BY DEF Init
<1>1. TypeOK
  BY SMTT(60), <1>0, ObjCacheAssumption DEF Init, TypeOK, Labels
<1>2. LockHeld /\ OpenFiles
  BY DEF Init, LockHeld, OpenFiles, Locked
<1>3. Published /\ OneTmp /\ Progress
  BY DEF Init, Published, OneTmp, Progress
<1> QED
  BY <1>1, <1>2, <1>3 DEF IInv

(* A failure is remembered: until one happens the whole invariant holds.   *)
LEMMA NotFailedYet ==
  ASSUME IInv, NEW p \in Procs, Step(p) \/ Crash(p), ~failed'
  PROVE  ~failed /\ Published /\ OneTmp /\ Progress
<1>1. ~failed
  BY DEF Step, Construct, Get, Stat, Send, OpenTmp, Lock, Check, Write, Rename,
         Close, Crash
<1> QED
  BY <1>1 DEF IInv

(* Every step of a server keeps the types.                                 *)
LEMMA StepType ==
  ASSUME IInv, NEW p \in Procs, Step(p) \/ Crash(p)
  PROVE  TypeOK'
<1> USE ObjCacheAssumption DEF Goto, Labels, files
<1>0. TypeOK
  BY DEF IInv
<1>1. CASE Construct(p)
  BY SMTT(60), <1>0, <1>1 DEF TypeOK, Construct
<1>2. CASE Get(p)
  BY SMTT(60), <1>0, <1>2 DEF TypeOK, Get
<1>3. CASE Stat(p)
  <2>1. fd[p] \in Inodes
    BY <1>0, <1>3 DEF IInv, OpenFiles, Stat, TypeOK
  <2> QED
    BY SMTT(60), <1>0, <1>3, <2>1 DEF TypeOK, Stat, StatSize
<1>4. CASE Send(p)
  <2>1. fd[p] \in Inodes
    BY <1>0, <1>4 DEF IInv, OpenFiles, Send, TypeOK
  <2> QED
    BY SMTT(60), <1>0, <1>4, <2>1 DEF TypeOK, Send, Leave
<1>5. CASE OpenTmp(p)
  BY SMTT(60), <1>0, <1>5 DEF TypeOK, OpenTmp
<1>6. CASE Lock(p)
  BY SMTT(60), <1>0, <1>6 DEF TypeOK, Lock
<1>7. CASE Check(p)
  BY SMTT(60), <1>0, <1>7 DEF TypeOK, Check
<1>8. CASE Write(p)
  <2>1. fd[p] \in Inodes
    BY <1>8 DEF IInv, LockHeld, Locked, Write
  <2>2. failed' \in BOOLEAN
    BY <1>0, <1>8 DEF TypeOK, Write
  <2> QED
    BY SMTT(60), <1>0, <1>8, <2>1, <2>2 DEF TypeOK, Write, AllWritten
<1>9. CASE Rename(p)
  BY <1>0, <1>9 DEF TypeOK, Rename
<1>10. CASE Close(p)
  BY SMTT(60), <1>0, <1>10 DEF TypeOK, Close, Leave, Released
<1>11. CASE Crash(p)
  BY SMTT(60), <1>0, <1>11 DEF TypeOK, Crash, Leave, Released
<1> QED
  BY <1>1, <1>2, <1>3, <1>4, <1>5, <1>6, <1>7, <1>8, <1>9, <1>10, <1>11 DEF Step

(* A server that holds the lock on a file is its only writer.              *)
LEMMA OnlyHolder ==
  ASSUME IInv, NEW p \in Procs, NEW q \in Procs,
         pc[p] \in Locked, pc[q] \in Locked, fd[p] = fd[q]
  PROVE  p = q
BY DEF IInv, LockHeld

(* Every step keeps the locks with the servers that have the file open.    *)
LEMMA StepLockHeld ==
  ASSUME IInv, NEW p \in Procs, Step(p) \/ Crash(p)
  PROVE  LockHeld'
<1> USE ObjCacheAssumption DEF Goto, Locked, files
<1>0. TypeOK /\ LockHeld /\ OpenFiles
  BY DEF IInv
<1>1. CASE Construct(p)
  BY SMTT(60), <1>0, <1>1 DEF TypeOK, LockHeld, Construct
<1>2. CASE Get(p)
  BY SMTT(60), <1>0, <1>2 DEF TypeOK, LockHeld, OpenFiles, Get
<1>3. CASE Stat(p)
  BY SMTT(60), <1>0, <1>3 DEF TypeOK, LockHeld, Stat
<1>4. CASE Send(p)
  BY SMTT(60), <1>0, <1>4 DEF TypeOK, LockHeld, Send, Leave
<1>5. CASE OpenTmp(p)
  BY SMTT(60), <1>0, <1>5 DEF TypeOK, LockHeld, OpenFiles, OpenTmp
<1>6. CASE Lock(p)
  BY SMTT(60), <1>0, <1>6 DEF TypeOK, LockHeld, OpenFiles, Lock, LockFree
<1>7. CASE Check(p)
  BY SMTT(60), <1>0, <1>7 DEF TypeOK, LockHeld, Check
<1>8. CASE Write(p)
  BY SMTT(60), <1>0, <1>8 DEF TypeOK, LockHeld, Write
<1>9. CASE Rename(p)
  BY SMTT(60), <1>0, <1>9 DEF TypeOK, LockHeld, Rename
<1>10. CASE Close(p)
  BY SMTT(60), <1>0, <1>10 DEF TypeOK, LockHeld, Close, Leave, Released
<1>11. CASE Crash(p)
  BY SMTT(60), <1>0, <1>11 DEF TypeOK, LockHeld, Crash, Leave, Released
<1> QED
  BY <1>1, <1>2, <1>3, <1>4, <1>5, <1>6, <1>7, <1>8, <1>9, <1>10, <1>11 DEF Step

(* Every step keeps open files and labels together.                        *)
LEMMA StepOpenFiles ==
  ASSUME IInv, NEW p \in Procs, Step(p) \/ Crash(p)
  PROVE  OpenFiles'
<1> USE ObjCacheAssumption DEF Goto, Locked, files
<1>0. TypeOK /\ LockHeld /\ OpenFiles
  BY DEF IInv
<1>1. CASE Construct(p)
  BY <1>0, <1>1 DEF TypeOK, OpenFiles, Construct
<1>2. CASE Get(p)
  BY <1>0, <1>2 DEF TypeOK, OpenFiles, Get
<1>3. CASE Stat(p)
  BY <1>0, <1>3 DEF TypeOK, OpenFiles, Stat
<1>4. CASE Send(p)
  BY <1>0, <1>4 DEF TypeOK, OpenFiles, Send, Leave
<1>5. CASE OpenTmp(p)
  BY SMTT(60), <1>0, <1>5 DEF TypeOK, OpenFiles, OpenTmp
<1>6. CASE Lock(p)
  BY <1>0, <1>6 DEF TypeOK, OpenFiles, Lock
<1>7. CASE Check(p)
  BY SMTT(60), <1>0, <1>7 DEF TypeOK, LockHeld, OpenFiles, Check
<1>8. CASE Write(p)
  BY SMTT(60), <1>0, <1>8 DEF TypeOK, LockHeld, OpenFiles, Write
<1>9. CASE Rename(p)
  BY SMTT(60), <1>0, <1>9 DEF TypeOK, LockHeld, OpenFiles, Rename
<1>10. CASE Close(p)
  BY <1>0, <1>10 DEF TypeOK, OpenFiles, Close, Leave
<1>11. CASE Crash(p)
  BY <1>0, <1>11 DEF TypeOK, OpenFiles, Crash, Leave
<1> QED
  BY <1>1, <1>2, <1>3, <1>4, <1>5, <1>6, <1>7, <1>8, <1>9, <1>10, <1>11 DEF Step

(* Without failing writes nobody removes the name hash.tmp before the      *)
(* object is published, so all writers have the same file open.            *)
LEMMA StepOneTmp ==
  ASSUME IInv, NEW p \in Procs, Step(p) \/ Crash(p), ~failed'
  PROVE  OneTmp'
<1> USE ObjCacheAssumption DEF Goto, files
<1>0. TypeOK /\ LockHeld /\ OneTmp /\ OpenFiles
  BY NotFailedYet DEF IInv
<1>1. CASE Construct(p)
  BY <1>0, <1>1 DEF TypeOK, OneTmp, Construct
<1>2. CASE Get(p)
  BY <1>0, <1>2 DEF TypeOK, OneTmp, Get
<1>3. CASE Stat(p)
  BY <1>0, <1>3 DEF TypeOK, OneTmp, Stat
<1>4. CASE Send(p)
  BY <1>0, <1>4 DEF TypeOK, OneTmp, Send, Leave
<1>5. CASE OpenTmp(p)
  BY <1>0, <1>5 DEF TypeOK, OneTmp, OpenTmp
<1>6. CASE Lock(p)
  BY <1>0, <1>6 DEF TypeOK, OneTmp, Lock
<1>7. CASE Check(p)
  BY SMTT(60), <1>0, <1>7 DEF TypeOK, OneTmp, LockHeld, Locked, Check, RealExists
<1>8. CASE Write(p)
  <2>1. UNCHANGED tmp
    BY <1>8 DEF Write
  <2> QED
    BY <1>0, <1>8, <2>1 DEF TypeOK, OneTmp, Write
<1>9. CASE Rename(p)
  <2>1. \A q \in Procs : pc[q] \in {"write", "rename"} => q = p
    BY <1>0, <1>9, OnlyHolder DEF OneTmp, Rename, Locked
  <2> QED
    BY <1>0, <1>9, <2>1 DEF TypeOK, OneTmp, Rename
<1>10. CASE Close(p)
  BY <1>0, <1>10 DEF TypeOK, OneTmp, Close, Leave
<1>11. CASE Crash(p)
  BY <1>0, <1>11 DEF TypeOK, OneTmp, Crash, Leave
<1> QED
  BY <1>1, <1>2, <1>3, <1>4, <1>5, <1>6, <1>7, <1>8, <1>9, <1>10, <1>11 DEF Step

(* No file that somebody has open, or that has a name, gets shorter.       *)
LEMMA StepGrows ==
  ASSUME IInv, NEW p \in Procs, Step(p) \/ Crash(p),
         NEW i \in Inodes, ~Free(i)
  PROVE  size'[i] >= size[i]
<1>0. TypeOK
  BY DEF IInv
<1>5. CASE OpenTmp(p)
  BY SMTT(60), <1>0, <1>5 DEF TypeOK, OpenTmp
<1>8. CASE Write(p)
  BY SMTT(60), <1>0, <1>8 DEF TypeOK, Write
<1>9. CASE UNCHANGED size
  BY SMTT(60), <1>0, <1>9 DEF TypeOK
<1> QED
  BY <1>5, <1>8, <1>9
  DEF Step, files, Construct, Get, Stat, Send, Lock, Check, Rename, Close, Crash

(* A writer's position never exceeds what is in the file.                  *)
LEMMA StepProgress ==
  ASSUME IInv, NEW p \in Procs, Step(p) \/ Crash(p), ~failed'
  PROVE  Progress'
<1> USE ObjCacheAssumption DEF Goto, files
<1>0. TypeOK /\ TypeOK' /\ LockHeld /\ Progress
  BY StepType, NotFailedYet DEF IInv
<1>a. ASSUME NEW q \in Procs, pc[q] \in Locked
      PROVE  fd[q] \in Inodes /\ size'[fd[q]] >= size[fd[q]]
  BY <1>a, <1>0, StepGrows DEF LockHeld, Free
<1>1. CASE Construct(p)
  BY <1>0, <1>1 DEF TypeOK, Progress, Complete, Construct
<1>2. CASE Get(p)
  BY SMTT(60), <1>0, <1>2 DEF TypeOK, Progress, Complete, Get
<1>3. CASE Stat(p)
  BY <1>0, <1>3 DEF TypeOK, Progress, Complete, Stat
<1>4. CASE Send(p)
  BY SMTT(60), <1>0, <1>4 DEF TypeOK, Progress, Complete, Send, Leave
<1>5. CASE OpenTmp(p)
  BY SMTT(60), <1>0, <1>a, <1>5 DEF TypeOK, Progress, Complete, Locked, OpenTmp
<1>6. CASE Lock(p)
  BY <1>0, <1>6 DEF TypeOK, Progress, Complete, Lock
<1>7. CASE Check(p)
  BY SMTT(60), <1>0, <1>7 DEF TypeOK, LockHeld, Locked, Progress, Complete, Check
<1>8. CASE Write(p)
  BY SMTT(60), <1>0, <1>a, <1>8 DEF TypeOK, Progress, Complete, Locked, Write, AllWritten
<1>9. CASE Rename(p)
  BY <1>0, <1>9 DEF TypeOK, Progress, Complete, Rename
<1>10. CASE Close(p)
  BY <1>0, <1>10 DEF TypeOK, Progress, Complete, Close, Leave
<1>11. CASE Crash(p)
  BY <1>0, <1>11 DEF TypeOK, Progress, Complete, Crash, Leave
<1> QED
  BY <1>1, <1>2, <1>3, <1>4, <1>5, <1>6, <1>7, <1>8, <1>9, <1>10, <1>11 DEF Step

(* Only Rename gives the hash a file, and that file is complete.           *)
LEMMA StepReal ==
  ASSUME IInv, NEW p \in Procs, Step(p) \/ Crash(p), ~failed'
  PROVE  \/ real' = real
         \/ real = None /\ real' \in Inodes /\ Complete(real') /\ UNCHANGED size
<1>1. CASE Rename(p)
  BY <1>1, NotFailedYet DEF IInv, TypeOK, OneTmp, Progress, Rename
<1> QED
  BY <1>1
  DEF Step, files, Construct, Get, Stat, Send, OpenTmp, Lock, Check, Write, Close, Crash

(* Published is kept: the new file is complete and the old ones only grow. *)
LEMMA StepPublished ==
  ASSUME IInv, NEW p \in Procs, Step(p) \/ Crash(p), ~failed'
  PROVE  Published'
<1> USE ObjCacheAssumption
<1>0. TypeOK /\ TypeOK' /\ Published
  BY StepType, NotFailedYet DEF IInv
<1>1. CASE real' = real /\ real # None
  <2>1. real \in Inodes /\ size'[real] >= size[real]
    BY <1>0, <1>1, StepGrows DEF TypeOK, Free
  <2> QED
    BY SMTT(60), <1>0, <1>1, <2>1 DEF TypeOK, Published, Complete
<1>2. CASE real' = real /\ real = None
  BY <1>2 DEF Published
<1>3. CASE real' \in Inodes /\ Complete(real') /\ UNCHANGED size
  BY <1>3 DEF Published, Complete
<1> QED
  BY <1>1, <1>2, <1>3, StepReal

(* The invariant is inductive.                                             *)
LEMMA StepIInv ==
  IInv /\ [Next]_vars => IInv'
<1> SUFFICES ASSUME IInv, [Next]_vars
             PROVE  IInv'
  OBVIOUS
<1>1. CASE Next
  BY <1>1, StepType, StepPublished, StepLockHeld, StepOneTmp, StepProgress,
     StepOpenFiles
  DEF Next, IInv
<1>2. CASE UNCHANGED vars
  BY <1>2
  DEF vars, files, procs, IInv, TypeOK, Published, LockHeld, OneTmp, Progress,
      OpenFiles, Locked, Labels, Complete
<1> QED
  BY <1>1, <1>2

(* The inductive invariant holds in every reachable state of Cache::Get    *)
(* and Cache::Put, for any servers and any crashes.                        *)
THEOREM CacheInvariant ==
  Spec => []IInv
<1>1. Init => IInv
  BY InitIInv
<1>2. IInv /\ [Next]_vars => IInv'
  BY StepIInv
<1> QED
  BY <1>1, <1>2, PTL DEF Spec

(* Until a write fails Cache::Put publishes only whole objects, so that a  *)
(* hit of Cache::Get and the early return of Put may rely on the file.     *)
THEOREM AlwaysPublishedWhole ==
  Spec => []PublishedWhole
<1>1. IInv => PublishedWhole
  BY DEF IInv, PublishedWhole
<1> QED
  BY <1>1, CacheInvariant, PTL

(* At most one server writes a file at a time, failures included: the lock *)
(* of Cache::Put.                                                          *)
THEOREM AlwaysSingleWriter ==
  Spec => []SingleWriter
<1>1. IInv => SingleWriter
  BY OnlyHolder DEF SingleWriter, Locked
<1> QED
  BY <1>1, CacheInvariant, PTL

(* No part of a file is published, and no two servers write one file.      *)
THEOREM AlwaysPublishesWhole == Spec => []PublishesWhole
  BY AlwaysPublishedWhole, AlwaysSingleWriter, PTL DEF PublishesWhole

(* Until a write fails no Cache::Put replaces or removes an object that is *)
(* in the cache.                                                           *)
THEOREM PublishedForGood ==
  Spec => NeverReplaced
<1>1. IInv /\ [Next]_vars => [~failed' /\ real # None => real' = real]_vars
  <2> SUFFICES ASSUME IInv, Next, ~failed', real # None
               PROVE  real' = real
    BY DEF vars, files
  <2> QED
    BY StepReal DEF Next
<1> QED
  BY <1>1, CacheInvariant, PTL DEF Spec, NeverReplaced
(* Serving a hit, the server has the published file open and counts right; *)
(* no step of any server changes that until a write fails.                 *)
LEMMA StepServed ==
  ASSUME IInv, IInv', ServesReal, ServedWhole, [Next]_vars
  PROVE  ServesReal' /\ ServedWhole'
<1>1. CASE UNCHANGED vars
  BY <1>1 DEF vars, files, procs, ServesReal, ServedWhole
<1>2. CASE Next
  <2> SUFFICES ASSUME ~failed', NEW q \in Procs, pc'[q] \in {"stat", "send"}
               PROVE  /\ real' # None /\ fd'[q] = real'
                      /\ pc'[q] = "send" => pos'[q] + left'[q] = ObjLen
    BY DEF ServesReal, ServedWhole
  <2>1. PICK p \in Procs : Step(p) \/ Crash(p)
    BY <1>2 DEF Next
  <2>2. ~failed /\ Published /\ TypeOK /\ (real # None => real' = real)
    BY <2>1, NotFailedYet, StepReal DEF IInv
  <2>3. CASE pc[q] \in {"stat", "send"} /\ UNCHANGED <<pc[q], fd[q], pos[q], left[q]>>
    BY <2>2, <2>3 DEF ServesReal, ServedWhole
  <2>4. CASE p # q
    <3>1. UNCHANGED <<pc[q], fd[q], pos[q], left[q]>>
      BY <2>1, <2>2, <2>4
      DEF TypeOK, Step, Construct, Get, Stat, Send, OpenTmp, Lock, Check, Write, Rename, Close,
          Crash, Goto, Leave
    <3> QED
      BY <2>3, <3>1
  <2>5. CASE p = q /\ Get(p)
    <3>1. pc'[q] = "stat" /\ real # None /\ fd'[q] = real
      BY <2>2, <2>5 DEF Get, Goto, TypeOK
    <3> QED
      BY <2>2, <3>1
  <2>6. CASE p = q /\ Stat(p)
    <3>1. fd[q] = real /\ real # None /\ size[real] = ObjLen
      BY <2>2, <2>6 DEF Stat, ServesReal, Published, Complete
    <3>2. pos'[q] = 0 /\ left'[q] = ObjLen /\ UNCHANGED fd
      BY <2>2, <2>6, <3>1 DEF Stat, StatSize, TypeOK
    <3> QED
      BY SMTT(60), <2>2, <3>1, <3>2, ObjCacheAssumption
  <2>7. CASE p = q /\ Send(p)
    <3>1. pos[q] + left[q] = ObjLen /\ fd[q] = real /\ real # None
      BY <2>2, <2>7 DEF Send, ServesReal, ServedWhole
    <3>2. UNCHANGED fd /\ pos'[q] = pos[q] + 1 /\ left'[q] = left[q] - 1
      BY <2>2, <2>7 DEF Send, Leave, Goto, TypeOK
    <3>3. pos[q] \in Int /\ left[q] \in Int
      BY SMTT(60), <2>2 DEF TypeOK
    <3> QED
      BY SMTT(60), <2>2, <3>1, <3>2, <3>3
  <2>8. CASE p = q /\ ~(Get(p) \/ Stat(p) \/ Send(p))
    <3>1. pc'[q] \notin {"stat", "send"}
      BY <2>1, <2>2, <2>8
      DEF TypeOK, Step, Construct, OpenTmp, Lock, Check, Write, Rename, Close, Crash, Goto, Leave
    <3> QED
      BY <3>1
  <2> QED
    BY <2>4, <2>5, <2>6, <2>7, <2>8
<1> QED
  BY <1>1, <1>2

(* A hit of Cache::Get sends the whole object, whatever other servers do   *)
(* to the names of the file meanwhile, until a write fails.                *)
THEOREM AlwaysServedWhole == Spec => []ServedWhole
<1>1. Init => ServesReal /\ ServedWhole
  BY DEF Init, ServesReal, ServedWhole
<1>2. IInv /\ IInv' /\ ServesReal /\ ServedWhole /\ [Next]_vars => ServesReal' /\ ServedWhole'
  BY StepServed
<1> QED
  BY <1>1, <1>2, CacheInvariant, PTL DEF Spec
=============================================================================
