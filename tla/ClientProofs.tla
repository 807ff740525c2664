---------------------------- MODULE ClientProofs ----------------------------
(***************************************************************************)
(* Proofs about the client process.  Signals: the host's dispositions are  *)
(* those the guest asked for, and a pending signal keeps others out, for   *)
(* every set of signals and every interleaving of the main flow with the   *)
(* handler.  Syscalls (K below): one warning per unknown call.  PerfDump   *)
(* (PF below): what profilers read, for any names, sizes and number of     *)
(* notifications.                                                          *)
(***************************************************************************)
EXTENDS Signals, Sequences, TLAPS

(* Leaves go to Zenon, with time for a slow machine; those that need       *)
(* arithmetic or sequences name the SMT solver.                            *)
USE ZenonT(60)

(* Every guest disposition has a host disposition.                         *)
LEMMA HostActOfType ==
  ASSUME NEW a \in GuestAct
  PROVE  HostActOf(a) \in HostAct
BY DEF GuestAct, HostAct, HostActOf

(* signal_init establishes the invariant.                                  *)
LEMMA InitIInv == Init => IInv
<1> SUFFICES ASSUME Init
             PROVE  IInv
  OBVIOUS
<1>1. TypeOK
  BY SignalsAssumption DEF Init, TypeOK, GuestAct, HostAct
<1>2. SigRight /\ HostAgrees
  BY DEF Init, SigRight, HostAgrees, HostActOf
<1>3. (\A s \in Sync : hostact[s] = "handler") /\ HonoursRestart /\ PendingMasks
  BY SignalsAssumption DEF Init, HonoursRestart, PendingMasks
<1> QED
  BY <1>1, <1>2, <1>3 DEF IInv

(* A step that leaves the dispositions and the pending signal alone and    *)
(* stays outside signal_sigaction and signal_handle.                       *)
LEMMA QuietStep ==
  ASSUME IInv, pc \notin Dead, pc # "sigaction", pc' \notin {"sigaction", "exited"}, TypeOK',
         pc' = "handle" => sig' \in Sigs, pc' = "hostmask" => sigpending' = None \/ raced',
         UNCHANGED <<sigact, hostact>>, PendingMasks'
  PROVE  IInv'
<1>1. SigRight' /\ HonoursRestart'
  BY DEF SigRight, HonoursRestart
<1>2. HostAgrees'
  BY DEF IInv, HostAgrees, Dead
<1>3. \A s \in Sync : hostact'[s] = "handler"
  BY DEF IInv
<1> QED
  BY <1>1, <1>2, <1>3 DEF IInv

(* Another process sends a signal.                                         *)
LEMMA SendStep ==
  ASSUME IInv, NEW s \in Sigs, Send(s)
  PROVE  IInv'
<1>1. TypeOK'
  BY DEF IInv, TypeOK, Send
<1>2. (SigRight /\ HonoursRestart /\ PendingMasks /\ HostAgrees)'
  BY DEF IInv, Send, SigRight, HonoursRestart, PendingMasks, HostAgrees
<1>3. \A t \in Sync : hostact'[t] = "handler"
  BY DEF IInv, Send
<1> QED
  BY <1>1, <1>2, <1>3 DEF IInv

(* The kernel delivers a signal: it is ignored, it kills the process, or   *)
(* the handler runs, which ends a wait for the server if the guest did not *)
(* ask for SA_RESTART and ends rt_sigsuspend.                              *)
LEMMA DeliverStep ==
  ASSUME IInv, NEW s \in Sigs, Deliver(s)
  PROVE  IInv'
<1>1. /\ UNCHANGED <<sig, sigmask, sigact, hostact>> /\ pc \notin Dead
      /\ hostpend' = hostpend \ {s} /\ suspend' \subseteq Sigs
  BY DEF Deliver, IInv, TypeOK
<1>2. \A t \in Sync : hostact'[t] = "handler"
  BY <1>1 DEF IInv
<1>3. CASE hostact[s] = "ign"
  <2>1. UNCHANGED <<pc, sigpending, hostmask, dropped, raced, fatal>>
    BY <1>3 DEF Deliver
  <2>2. TypeOK'
    BY <1>1, <2>1 DEF IInv, TypeOK
  <2>3. (SigRight /\ HonoursRestart /\ PendingMasks /\ HostAgrees)'
    BY <1>1, <2>1 DEF IInv, SigRight, HonoursRestart, PendingMasks, HostAgrees
  <2> QED
    BY <1>2, <2>2, <2>3 DEF IInv
<1>4. CASE hostact[s] = "dfl"
  <2>1. pc' = "killed" /\ fatal' = s /\ UNCHANGED <<sigpending, hostmask, dropped, raced>>
    BY <1>4 DEF Deliver, Killed
  <2>2. TypeOK'
    BY <1>1, <2>1 DEF IInv, TypeOK, Dead
  <2>3. (SigRight /\ HonoursRestart /\ PendingMasks /\ HostAgrees)'
    BY <2>1 DEF SigRight, HonoursRestart, PendingMasks, HostAgrees, Dead
  <2> QED
    BY <1>2, <2>2, <2>3 DEF IInv
<1>5. CASE hostact[s] \notin {"ign", "dfl"}
  <2>1. signal_handler(s)
    BY <1>5 DEF Deliver
  <2>2. \/ pc = "translate" /\ Interrupts(s) /\ pc' = "exited" /\ fatal' = s
        \/ pc = "suspend" /\ pc' = "end" /\ UNCHANGED fatal
        \/ UNCHANGED <<pc, fatal>>
    BY <1>5 DEF Deliver
  <2>3. TypeOK'
    BY <1>1, <2>1, <2>2 DEF IInv, TypeOK, Dead, signal_handler, HandlerMask
  <2>4. HostAgrees'
    <3> SUFFICES ASSUME NEW t \in Sigs \ Sync, pc' # "killed", ~(pc' = "sigaction" /\ sig' = t)
                 PROVE  hostact'[t] = HostActOf(sigact'[t])
      BY DEF HostAgrees
    <3> QED
      BY <1>1, <2>2 DEF IInv, HostAgrees, Dead
  <2>5. SigRight'
    BY <1>1, <2>1, <2>2 DEF IInv, SigRight, Dead, signal_handler
  <2>6. HonoursRestart'
    <3> SUFFICES ASSUME pc' = "exited", fatal' \notin Sync
                 PROVE  sigact'[fatal'] # "fn_restart"
      BY DEF HonoursRestart
    <3>1. pc = "translate" /\ hostact[s] = "handler" /\ fatal' = s
      BY <1>1, <2>2 DEF Dead, Interrupts
    <3>2. hostact[s] = HostActOf(sigact[s])
      BY <3>1 DEF IInv, HostAgrees
    <3> QED
      BY <1>1, <3>1, <3>2 DEF HostActOf
  <2>7. PendingMasks'
    <3>1. CASE s \in sigmask
      BY <1>1, <2>1, <2>2, <3>1 DEF IInv, PendingMasks, signal_handler, Dead
    <3>2. CASE s \notin sigmask
      BY <2>1, <3>2 DEF PendingMasks, signal_handler, HandlerMask
    <3> QED
      BY <3>1, <3>2
  <2> QED
    BY <1>2, <2>3, <2>4, <2>5, <2>6, <2>7 DEF IInv
<1> QED
  BY <1>3, <1>4, <1>5

(* Steps that end the client: a fault of translated code, rt_sigreturn.    *)
LEMMA DeathStep ==
  ASSUME IInv, pc = "guest",
         (\E s \in Sigs : Fault(s)) \/ signal_sigreturn
  PROVE  IInv'
<1>1. pc' = "killed" /\ fatal' \in Sigs \cup {"ABRT"}
  BY DEF Fault, signal_sigreturn, Killed
<1>2. UNCHANGED <<sig, suspend, sigpending, sigmask, sigact, host, dropped, raced>>
  BY DEF Fault, signal_sigreturn
<1>3. TypeOK'
  BY <1>1, <1>2 DEF IInv, TypeOK, Dead, host
<1>4. PendingMasks'
  BY <1>1 DEF PendingMasks, Dead
<1> QED
  BY <1>1, <1>2, <1>3, <1>4, QuietStep DEF Dead, host

(* Steps of the main flow that change neither dispositions nor masks.      *)
LEMMA FlowStep ==
  ASSUME IInv, \/ Translate \/ Syscall \/ CheckPending \/ SyscallEnds
               \/ \E m \in SUBSET Sigs : signal_sigprocmask(m) \/ rt_sigsuspend(m)
  PROVE  IInv'
<1>1. /\ UNCHANGED <<sigpending, sigact, host, dropped, raced, fatal>>
      /\ suspend' \subseteq Sigs /\ sigmask' \subseteq Sigs
  BY DEF IInv, TypeOK, Translate, Syscall, CheckPending, SyscallEnds, signal_sigprocmask,
     rt_sigsuspend
<1>2. /\ pc \notin Dead /\ pc # "sigaction"
      /\ pc' \in {"guest", "translate", "end", "check", "hostmask", "handle", "suspend"}
  BY DEF Translate, Syscall, CheckPending, SyscallEnds, signal_sigprocmask, rt_sigsuspend, Dead
<1>3. sig' \in Sigs \cup {None} /\ (pc' = "handle" => sig' \in Sigs)
  BY DEF IInv, TypeOK, Translate, Syscall, CheckPending, SyscallEnds, signal_sigprocmask,
     rt_sigsuspend
<1>4. TypeOK'
  BY <1>1, <1>2, <1>3 DEF IInv, TypeOK, host
<1>5. PendingMasks'
  BY <1>1, <1>2 DEF IInv, PendingMasks, host
<1>6. pc' = "hostmask" => sigpending' = None
  BY <1>1 DEF Translate, Syscall, CheckPending, SyscallEnds, signal_sigprocmask, rt_sigsuspend
<1> QED
  BY <1>1, <1>2, <1>3, <1>4, <1>5, <1>6, QuietStep DEF Dead, host

(* signal_sigaction up to the host's sigaction: from here to there the     *)
(* host has the old disposition of this one signal.                        *)
LEMMA SigactionStep ==
  ASSUME IInv, NEW s \in Sigs, NEW act \in GuestAct, signal_sigaction(s, act)
  PROVE  IInv'
<1>1. /\ pc = "guest" /\ sigact' = [sigact EXCEPT ![s] = act]
      /\ UNCHANGED <<suspend, sigpending, sigmask, hostmask, hostact, hostpend, dropped, raced, fatal>>
      /\ IF s \in Sync THEN pc' = "end" /\ UNCHANGED sig ELSE pc' = "sigaction" /\ sig' = s
  BY DEF signal_sigaction, Reserved, host
<1>2. TypeOK'
  BY <1>1 DEF IInv, TypeOK
<1>3. SigRight' /\ HonoursRestart' /\ PendingMasks'
  BY <1>1 DEF IInv, SigRight, HonoursRestart, PendingMasks, Dead
<1>4. HostAgrees'
  <2> SUFFICES ASSUME NEW t \in Sigs \ Sync, ~(pc' = "sigaction" /\ sig' = t)
               PROVE  hostact'[t] = HostActOf(sigact'[t])
    BY DEF HostAgrees
  <2>1. t # s
    BY <1>1
  <2>2. sigact'[t] = sigact[t]
    BY <1>1, <2>1 DEF IInv, TypeOK
  <2> QED
    BY <1>1, <2>2 DEF IInv, HostAgrees
<1>5. \A t \in Sync : hostact'[t] = "handler"
  BY <1>1 DEF IInv
<1> QED
  BY <1>2, <1>3, <1>4, <1>5 DEF IInv

(* The host's sigaction brings the two dispositions together again.        *)
LEMMA HostSigactionStep ==
  ASSUME IInv, HostSigaction
  PROVE  IInv'
<1>1. sig \in Sigs \ Sync /\ sigact[sig] \in GuestAct
  BY DEF IInv, TypeOK, SigRight, HostSigaction
<1>2. /\ pc = "sigaction" /\ pc' = "end" /\ sig' = None
      /\ hostact' = [hostact EXCEPT ![sig] = HostActOf(sigact[sig])]
      /\ hostpend' \subseteq hostpend
      /\ UNCHANGED <<suspend, sigpending, sigmask, sigact, hostmask, dropped, raced, fatal>>
  BY DEF HostSigaction
<1>3. HostActOf(sigact[sig]) \in HostAct
  BY <1>1, HostActOfType
<1>4. TypeOK'
  BY <1>1, <1>2, <1>3 DEF IInv, TypeOK
<1>5. SigRight' /\ HonoursRestart' /\ PendingMasks'
  BY <1>2 DEF IInv, SigRight, HonoursRestart, PendingMasks, Dead
<1>6. HostAgrees'
  <2> SUFFICES ASSUME NEW t \in Sigs \ Sync
               PROVE  hostact'[t] = HostActOf(sigact'[t])
    BY DEF HostAgrees
  <2>1. CASE t = sig
    BY <1>2, <2>1 DEF IInv, TypeOK
  <2>2. CASE t # sig
    BY <1>2, <2>2 DEF IInv, TypeOK, HostAgrees
  <2> QED
    BY <2>1, <2>2
<1>7. \A t \in Sync : hostact'[t] = "handler"
  BY <1>1, <1>2, SignalsAssumption DEF IInv, TypeOK
<1> QED
  BY <1>4, <1>5, <1>6, <1>7 DEF IInv

(* signal_update_hostmask and signal_handle, after which nothing is        *)
(* pending or the system call is about to end.                             *)
LEMMA EndStep ==
  ASSUME IInv, signal_update_hostmask \/ signal_handle
  PROVE  IInv'
<1>1. CASE signal_update_hostmask
  <2>1. TypeOK'
    BY <1>1 DEF IInv, TypeOK, signal_update_hostmask, HostMaskOf
  <2>2. PendingMasks'
    BY <1>1 DEF IInv, SigRight, PendingMasks, signal_update_hostmask
  <2> QED
    BY <1>1, <2>1, <2>2, QuietStep DEF signal_update_hostmask, Dead
<1>2. CASE signal_handle
  <2>1. sig \in Sigs
    BY <1>2 DEF IInv, SigRight, signal_handle
  <2>2. pc' \in {"guest", "killed"} /\ fatal' \in {fatal, sig}
    BY <1>2 DEF signal_handle, Killed
  <2>3. TypeOK'
    BY <1>2, <2>1, <2>2 DEF IInv, TypeOK, signal_handle, Dead, host
  <2>4. PendingMasks'
    BY <1>2 DEF PendingMasks, signal_handle
  <2> QED
    BY <1>2, <2>2, <2>3, <2>4, QuietStep DEF signal_handle, Dead, host
<1> QED
  BY <1>1, <1>2

(* Every step preserves the invariant.                                     *)
LEMMA NextIInv == IInv /\ [Next]_vars => IInv'
<1> SUFFICES ASSUME IInv, [Next]_vars
             PROVE  IInv'
  OBVIOUS
<1>1. ASSUME NEW s \in Sigs, Send(s) \/ Deliver(s)
      PROVE  IInv'
  BY <1>1, SendStep, DeliverStep
<1>2. ASSUME NEW s \in Sigs, Fault(s)
      PROVE  IInv'
  BY <1>2, DeathStep DEF Fault
<1>3. CASE Translate \/ Syscall \/ CheckPending \/ SyscallEnds
  BY <1>3, FlowStep
<1>4. ASSUME NEW m \in SUBSET Sigs, signal_sigprocmask(m) \/ rt_sigsuspend(m)
      PROVE  IInv'
  BY <1>4, FlowStep
<1>5. ASSUME NEW s \in Sigs, NEW act \in GuestAct, signal_sigaction(s, act)
      PROVE  IInv'
  BY <1>5, SigactionStep
<1>6. CASE HostSigaction
  BY <1>6, HostSigactionStep
<1>7. CASE signal_update_hostmask \/ signal_handle
  BY <1>7, EndStep
<1>8. CASE signal_sigreturn
  BY <1>8, DeathStep DEF signal_sigreturn
<1>9. CASE UNCHANGED vars
  BY <1>9 DEF IInv, TypeOK, SigRight, HostAgrees, HonoursRestart, PendingMasks, vars, host
<1> QED
  BY <1>1, <1>2, <1>3, <1>4, <1>5, <1>6, <1>7, <1>8, <1>9 DEF Next, Gone

(* The dispositions of the process and the guest's agree at every moment,  *)
(* as signal_sigaction intends.                                            *)
LEMMA IInvAgree == IInv => DispositionsAgree
<1> SUFFICES ASSUME IInv, NEW s \in Sigs \ Sync, pc \notin Dead, ~(pc = "sigaction" /\ sig = s)
             PROVE  hostact[s] \in {"handler", "handler_restart"} <=> sigact[s] \in {"fn", "fn_restart"}
  BY DEF IInv, DispositionsAgree
<1>1. hostact[s] = HostActOf(sigact[s]) /\ sigact[s] \in GuestAct
  BY DEF IInv, HostAgrees, TypeOK, Dead
<1> QED
  BY <1>1 DEF HostActOf, GuestAct

(* What the guest asks for with rt_sigaction is what the process does: the *)
(* dispositions agree, SA_RESTART is honoured while the client waits for   *)
(* the server, and a pending signal keeps others out.                      *)
THEOREM SignalsHonoured == Spec => []ActionsHonoured
<1>1. IInv => PendingKeepsOut
  BY DEF IInv, PendingMasks, PendingKeepsOut, Masked
<1>2. IInv => ActionsHonoured
  BY IInvAgree, <1>1 DEF IInv, ActionsHonoured
<1> QED
  BY InitIInv, NextIInv, <1>2, PTL DEF Spec

(* Every variable of the emulated signals keeps its type.                  *)
THEOREM SignalsTyped == Spec => []TypeOK
<1>1. IInv => TypeOK
  BY DEF IInv
<1> QED
  BY InitIInv, NextIInv, <1>1, PTL DEF Spec

(* A pending signal is not lost before signal_handle reads it: only        *)
(* SIGSEGV or SIGBUS replaces it, unless it came between the test and the  *)
(* update of signal_sigprocmask or the guest waits in rt_sigsuspend.       *)
THEOREM PendingNotLost == Spec => PendingStays
<1>1. ASSUME IInv, Next, sigpending # None, ~raced, pc # "suspend"
      PROVE  sigpending' \in {sigpending} \cup Sync \/ (pc = "handle" /\ sigpending' = None)
  <2>1. ASSUME NEW s \in Sigs, Deliver(s)
        PROVE  sigpending' \in {sigpending} \cup Sync
    <3>1. pc \notin Dead /\ s \notin hostmask
      BY <1>1, <2>1 DEF Deliver, Masked
    <3>2. s \in Sync
      BY <1>1, <3>1 DEF IInv, PendingMasks
    <3> QED
      BY <2>1, <3>2 DEF Deliver, signal_handler
  <2>2. CASE signal_handle
    BY <1>1, <2>2 DEF signal_handle
  <2> QED
    BY <1>1, <2>1, <2>2
    DEF Next, Send, Fault, Translate, Syscall, signal_sigaction, HostSigaction, signal_sigprocmask,
        rt_sigsuspend, CheckPending, signal_update_hostmask, signal_sigreturn, SyscallEnds, Gone,
        vars
<1>2. IInv /\ [Next]_vars =>
        [sigpending # None /\ ~raced /\ pc # "suspend"
           => sigpending' \in {sigpending} \cup Sync \/ (pc = "handle" /\ sigpending' = None)]_vars
  BY <1>1
<1> QED
  BY InitIInv, NextIInv, <1>2, PTL DEF Spec, PendingStays
-----------------------------------------------------------------------------
(* The other system calls.                                                 *)
CONSTANTS Calls, MaxFd, MaxCalls
VARIABLES guest, k_host, release, k_regs, k_mem, version, kern, warnmap, warned, want, leaf, count

K == INSTANCE Syscalls WITH host <- k_host, regs <- k_regs, mem <- k_mem

(* A number has a bit.                                                     *)
LEMMA BitsThere ==
  ASSUME NEW nr
  PROVE  K!WarnBits(nr) # {}
<1>1. 31 \in 31 .. 63
  BY SMTT(60)
<1>2. CASE nr % 32 = 31
  <2>1. <<nr \div 64, 31>> \in K!WarnBits(nr)
    BY <1>1, <1>2 DEF K!WarnBits
  <2> QED BY <2>1
<1>3. CASE nr % 32 # 31
  <2>1. <<nr \div 64, nr % 32>> \in K!WarnBits(nr)
    BY <1>3 DEF K!WarnBits
  <2> QED BY <2>1
<1> QED BY <1>2, <1>3

(* One more at the end.                                                    *)
Appends(v, w, x, n) ==
  /\ n \in Nat /\ Len(w) = n /\ Len(v) = n + 1 /\ v[n + 1] = x /\ K!IsSeq(v)
  /\ \A i \in 1 .. n : v[i] = w[i]

LEMMA AppendRight ==
  ASSUME NEW w, K!IsSeq(w), NEW x
  PROVE  \E n : Appends(Append(w, x), w, x, n)
<1>1. PICK B : B = {w[i] : i \in 1 .. Len(w)}
  OBVIOUS
<1>2. w \in Seq(B)
  BY <1>1 DEF K!IsSeq
<1>3. PICK A : A = B \cup {x}
  OBVIOUS
<1>4. w \in Seq(A)
  <2>1. \A C, D, s : C \subseteq D /\ s \in Seq(C) => s \in Seq(D)
    BY SMTT(60)
  <2>2. B \subseteq A
    BY <1>3
  <2> QED BY <1>2, <2>1, <2>2
<1>5. PICK n \in Nat : n = Len(w)
  BY SMTT(60), <1>4
<1>6. PICK v : v = Append(w, x)
  OBVIOUS
<1>7. /\ v \in Seq(A) /\ Len(v) = n + 1 /\ v[n + 1] = x
      /\ \A i \in 1 .. n : v[i] = w[i]
  <2>1. x \in A
    BY <1>3
  <2> QED BY SMTT(60), <1>4, <1>5, <1>6, <2>1
<1>8. PICK C : C = {v[i] : i \in 1 .. n + 1}
  OBVIOUS
<1>9. v \in [1 .. n + 1 -> C]
  <2>1. v = [i \in 1 .. n + 1 |-> v[i]]
    BY SMTT(60), <1>7
  <2>2. \A i \in 1 .. n + 1 : v[i] \in C
    BY <1>8
  <2> QED BY <2>1, <2>2
<1>10. v \in Seq(C)
  <2>1. \A D : \A k \in Nat : \A f \in [1 .. k -> D] : f \in Seq(D)
    BY SMTT(60)
  <2>2. n + 1 \in Nat
    BY SMTT(60)
  <2> QED BY <1>9, <2>1, <2>2
<1>11. K!IsSeq(v)
  BY <1>7, <1>8, <1>10 DEF K!IsSeq
<1>12. Appends(v, w, x, n)
  BY <1>5, <1>7, <1>11 DEF Appends
<1> QED BY <1>6, <1>12

(* A number that no warning was about can be added.                        *)
Warns(nr, w, m, v, u) ==
  /\ nr < K!MapBits => K!WarnBits(nr) \cap m = {}
  /\ v = Append(w, nr) /\ u = IF nr < K!MapBits THEN m \cup K!WarnBits(nr) ELSE m

LEMMA MapStep ==
  ASSUME NEW w, NEW m, K!IsSeq(w), K!Once(w), K!Mapped(w, m), NEW nr, NEW v, NEW u,
         Warns(nr, w, m, v, u)
  PROVE  K!IsSeq(v) /\ K!Once(v) /\ K!Mapped(v, u)
<1>1. PICK n : Appends(v, w, nr, n)
  <2>1. v = Append(w, nr)
    BY DEF Warns
  <2> QED BY <2>1, AppendRight
<1>2. /\ n \in Nat /\ n = Len(w) /\ Len(v) = n + 1 /\ v[n + 1] = nr /\ K!IsSeq(v)
      /\ \A i \in 1 .. n : v[i] = w[i]
  BY <1>1 DEF Appends
<1>3. \A i \in 1 .. n + 1 : i \in 1 .. n \/ i = n + 1
  <2>1. n \in Nat
    BY <1>2
  <2> QED BY SMTT(60), <2>1
<1>4. ASSUME NEW i \in 1 .. n, w[i] = nr, nr < K!MapBits
      PROVE  FALSE
  <2>1. K!WarnBits(w[i]) \subseteq m
    <3>1. i \in 1 .. Len(w)
      BY <1>2
    <3> QED BY <1>4, <3>1 DEF K!Mapped
  <2>2. K!WarnBits(nr) \cap m = {}
    BY <1>4 DEF Warns
  <2> QED BY <1>4, <2>1, <2>2, BitsThere
<1>5. ASSUME NEW i \in 1 .. n + 1, v[i] < K!MapBits
      PROVE  K!WarnBits(v[i]) \subseteq u
  <2>1. CASE i = n + 1
    <3>1. v[i] = nr
      BY <1>2, <2>1
    <3>2. u = m \cup K!WarnBits(nr)
      <4>1. nr < K!MapBits
        BY <1>5, <3>1
      <4>2. u = IF nr < K!MapBits THEN m \cup K!WarnBits(nr) ELSE m
        BY DEF Warns
      <4> QED BY <4>1, <4>2
    <3> QED BY <3>1, <3>2
  <2>2. CASE i \in 1 .. n
    <3>1. v[i] = w[i]
      BY <1>2, <2>2
    <3>2. K!WarnBits(w[i]) \subseteq m
      <4>1. i \in 1 .. Len(w)
        BY <1>2, <2>2
      <4>2. w[i] < K!MapBits
        BY <1>5, <3>1
      <4> QED BY <4>1, <4>2 DEF K!Mapped
    <3>3. m \subseteq u
      BY DEF Warns
    <3> QED BY <3>1, <3>2, <3>3
  <2> QED BY <1>3, <2>1, <2>2
<1>6. ASSUME NEW i \in 1 .. n + 1, NEW j \in 1 .. n + 1, v[i] = v[j], v[i] < K!MapBits, i # j
      PROVE  FALSE
  <2>1. CASE i \in 1 .. n /\ j \in 1 .. n
    <3>1. v[i] = w[i] /\ v[j] = w[j]
      BY <1>2, <2>1
    <3>2. w[i] = w[j] /\ w[i] < K!MapBits
      BY <1>6, <3>1
    <3>3. i \in 1 .. Len(w) /\ j \in 1 .. Len(w) /\ i # j
      <4>1. n = Len(w)
        BY <1>2
      <4> QED BY <1>6, <2>1, <4>1
    <3> QED BY <3>2, <3>3 DEF K!Once
  <2>2. CASE i = n + 1 /\ j \in 1 .. n
    <3>1. v[i] = nr /\ v[j] = w[j]
      BY <1>2, <2>2
    <3> QED BY <1>4, <1>6, <2>2, <3>1
  <2>3. CASE j = n + 1 /\ i \in 1 .. n
    <3>1. v[j] = nr /\ v[i] = w[i]
      BY <1>2, <2>3
    <3> QED BY <1>4, <1>6, <2>3, <3>1
  <2>4. i \in 1 .. n \/ i = n + 1
    BY <1>3
  <2>5. j \in 1 .. n \/ j = n + 1
    BY <1>3
  <2> QED BY <1>6, <2>1, <2>2, <2>3, <2>4, <2>5
<1>7. K!Once(v)
  <2>1. Len(v) = n + 1
    BY <1>2
  <2> QED BY <1>6, <2>1 DEF K!Once
<1>8. K!Mapped(v, u)
  <2>1. Len(v) = n + 1
    BY <1>2
  <2> QED BY <1>5, <2>1 DEF K!Mapped
<1> QED BY <1>2, <1>7, <1>8

(* unhandled_syscall warns about a number that no warning was about.       *)
LEMMA WarnStep ==
  ASSUME K!WarnInv, NEW nr, K!unhandled_syscall(nr)
  PROVE  K!WarnInv'
<1>1. K!IsSeq(warned) /\ K!Once(warned) /\ K!Mapped(warned, warnmap)
  BY DEF K!WarnInv, K!WarnedOnce
<1>2. CASE nr < K!MapBits /\ K!WarnBits(nr) \cap warnmap # {}
  <2>1. warned' = warned /\ warnmap' = warnmap
    BY <1>2 DEF K!unhandled_syscall
  <2> QED BY <1>1, <2>1 DEF K!WarnInv, K!WarnedOnce
<1>3. CASE ~(nr < K!MapBits /\ K!WarnBits(nr) \cap warnmap # {})
  <2>1. /\ warned' = Append(warned, nr)
        /\ warnmap' = IF nr < K!MapBits THEN warnmap \cup K!WarnBits(nr) ELSE warnmap
    BY <1>3 DEF K!unhandled_syscall
  <2>2. Warns(nr, warned, warnmap, warned', warnmap')
    <3>1. nr < K!MapBits => K!WarnBits(nr) \cap warnmap = {}
      BY <1>3
    <3> QED BY <2>1, <3>1 DEF Warns
  <2>3. K!IsSeq(warned') /\ K!Once(warned') /\ K!Mapped(warned', warnmap')
    BY <1>1, <2>2, MapStep
  <2> QED BY <2>3 DEF K!WarnInv, K!WarnedOnce
<1> QED BY <1>2, <1>3

(* "warn only once about each syscall" (client/emulate.c), for every       *)
(* sequence of calls of every guest.                                       *)
THEOREM WarnsOnce == K!Spec => []K!WarnedOnce
<1>1. K!Init => K!WarnInv
  <2> SUFFICES ASSUME K!Init
               PROVE  K!WarnInv
    OBVIOUS
  <2>1. warned = <<>>
    BY DEF K!Init
  <2>2. 1 .. Len(warned) = {} /\ \A B : warned \in Seq(B)
    BY SMTT(60), <2>1
  <2> QED BY <2>2 DEF K!WarnInv, K!WarnedOnce, K!IsSeq, K!Once, K!Mapped
<1>2. K!WarnInv /\ [K!Next]_K!vars => K!WarnInv'
  <2> SUFFICES ASSUME K!WarnInv, [K!Next]_K!vars
               PROVE  K!WarnInv'
    OBVIOUS
  <2>1. CASE UNCHANGED <<warnmap, warned>>
    BY <2>1 DEF K!WarnInv, K!WarnedOnce
  <2>2. CASE \E nr : K!unhandled_syscall(nr)
    BY <2>2, WarnStep
  <2>3. CASE \E c \in Calls[guest] : K!Syscall(c)
    <3>1. PICK c : K!Syscall(c)
      BY <2>3
    <3>2. (\E nr : K!unhandled_syscall(nr)) \/ UNCHANGED <<warnmap, warned>>
      BY <3>1 DEF K!Syscall
    <3> QED BY <2>1, <2>2, <3>2
  <2>4. CASE \E rax \in 0 .. 9, rcx \in {0, 1} : K!Cpuid(rax, rcx)
    BY <2>1, <2>4 DEF K!Cpuid
  <2>5. CASE UNCHANGED K!vars
    BY <2>1, <2>5 DEF K!vars
  <2> QED BY <2>3, <2>4, <2>5 DEF K!Next, K!Finished
<1>3. K!WarnInv => K!WarnedOnce
  BY DEF K!WarnInv
<1> QED BY <1>1, <1>2, <1>3, PTL DEF K!Spec
-----------------------------------------------------------------------------
(* PerfDump.  The constants and the variables of that module.              *)
CONSTANTS Labels, CodeSizes, BufSize, HeaderSize, RecordSize, Cuts, MaxNotes
VARIABLES mode, state, perfmap_fd, perfdump_fd, open, map, dump, notes, torn

PF == INSTANCE PerfDump

(* Three more elements.                                                    *)
Extended(d, rc, nm, c) == (d \o <<rc, nm>>) \o <<c>>
Longer(d, rc, nm, c, k, e) ==
  /\ Len(e) = k + 3 /\ e[k + 1] = rc /\ e[k + 2] = nm /\ e[k + 3] = c
  /\ \A i \in 1 .. k : e[i] = d[i]

LEMMA ThreeMore ==
  ASSUME NEW A, NEW d \in Seq(A), NEW rc \in A, NEW nm \in A, NEW c \in A
  PROVE  Longer(d, rc, nm, c, Len(d), Extended(d, rc, nm, c))
<1>0. PICK k \in Nat : k = Len(d)
  BY SMTT(60)
<1> DEFINE e == Extended(d, rc, nm, c)
<1> HIDE DEF e
<1>1. PICK x : x = d \o <<rc, nm>>
  OBVIOUS
<1>2. x \in Seq(A) /\ Len(x) = k + 2 /\ x[k + 1] = rc /\ x[k + 2] = nm
  BY SMTT(60), <1>0, <1>1
<1>3. \A i \in 1 .. k : x[i] = d[i]
  BY SMTT(60), <1>0, <1>1
<1>4. e = x \o <<c>>
  BY <1>1 DEF e, Extended
<1>5. Len(e) = k + 3 /\ e[k + 3] = c /\ e[k + 1] = x[k + 1] /\ e[k + 2] = x[k + 2]
  BY SMTT(60), <1>2, <1>4
<1>6. \A i \in 1 .. k : e[i] = x[i]
  BY SMTT(60), <1>2, <1>4
<1>7. Longer(d, rc, nm, c, k, e)
  BY <1>2, <1>3, <1>5, <1>6 DEF Longer
<1> QED BY <1>0, <1>7 DEF e

(* One more function in the dump.                                          *)
LEMMA DumpGrows ==
  ASSUME NEW d \in Seq(PF!Chunk), NEW ns \in Seq(PF!Note), PF!Dumped(d, ns), NEW note \in PF!Note,
         NEW rc \in PF!Chunk, NEW nm \in PF!Chunk, NEW c \in PF!Chunk,
         rc.says = rc.size + nm.size + c.size, nm.size = nm.says, c.size = note.codesize
  PROVE  PF!Dumped((d \o <<rc, nm>>) \o <<c>>, Append(ns, note))
<1>1. PICK n \in Nat : n = Len(ns)
  BY SMTT(60)
<1>2. Len(d) = 1 + 3 * n
  BY <1>1 DEF PF!Dumped
<1>3. PICK e : e = (d \o <<rc, nm>>) \o <<c>>
  OBVIOUS
<1>4. /\ Len(e) = 1 + 3 * (n + 1)
      /\ e[3 * (n + 1) - 1] = rc /\ e[3 * (n + 1)] = nm /\ e[3 * (n + 1) + 1] = c
      /\ \A i \in 1 .. (1 + 3 * n) : e[i] = d[i]
  <2>1. PICK k \in Nat : k = 1 + 3 * n
    BY SMTT(60)
  <2>2. k = Len(d)
    BY <1>2, <2>1
  <2>3. /\ Len(e) = k + 3 /\ e[k + 1] = rc /\ e[k + 2] = nm /\ e[k + 3] = c
        /\ \A i \in 1 .. k : e[i] = d[i]
    <3>1. Longer(d, rc, nm, c, Len(d), Extended(d, rc, nm, c))
      BY ThreeMore
    <3>2. e = Extended(d, rc, nm, c)
      BY <1>3 DEF Extended
    <3>3. Longer(d, rc, nm, c, k, e)
      BY <2>2, <3>1, <3>2
    <3> QED BY <3>3 DEF Longer
  <2>4. /\ k + 3 = 1 + 3 * (n + 1) /\ k + 1 = 3 * (n + 1) - 1
        /\ k + 2 = 3 * (n + 1) /\ k + 3 = 3 * (n + 1) + 1
    BY SMTT(60), <2>1
  <2> QED BY <2>1, <2>3, <2>4
<1>5. PICK m : m = Append(ns, note)
  OBVIOUS
<1>6. Len(m) = n + 1 /\ m[n + 1] = note /\ \A i \in 1 .. n : m[i] = ns[i]
  BY SMTT(60), <1>1, <1>5
<1>7. ASSUME NEW i \in 1 .. n
      PROVE  PF!Sound(e, m[i], 3 * i - 1)
  <2>1. PF!Sound(d, ns[i], 3 * i - 1)
    BY <1>1, <1>7 DEF PF!Dumped
  <2>2. {3 * i - 1, (3 * i - 1) + 1, (3 * i - 1) + 2} \subseteq 1 .. (1 + 3 * n)
    BY SMTT(60), <1>7
  <2>3. \A j \in {3 * i - 1, (3 * i - 1) + 1, (3 * i - 1) + 2} : e[j] = d[j]
    BY <1>4, <2>2
  <2> QED BY <1>6, <1>7, <2>1, <2>3 DEF PF!Sound
<1>8. PF!Sound(e, m[n + 1], 3 * (n + 1) - 1)
  <2>1. (3 * (n + 1) - 1) + 1 = 3 * (n + 1) /\ (3 * (n + 1) - 1) + 2 = 3 * (n + 1) + 1
    BY SMTT(60)
  <2> QED BY <1>4, <1>6, <2>1 DEF PF!Sound
<1>9. \A i \in 1 .. (n + 1) : i \in 1 .. n \/ i = n + 1
  BY SMTT(60)
<1> QED BY <1>3, <1>4, <1>5, <1>6, <1>7, <1>8, <1>9 DEF PF!Dumped

(* One more element.                                                       *)
OneLonger(m, line, k, e) == Len(e) = k + 1 /\ e[k + 1] = line /\ \A i \in 1 .. k : e[i] = m[i]

LEMMA OneMore ==
  ASSUME NEW A, NEW m \in Seq(A), NEW line \in A
  PROVE  OneLonger(m, line, Len(m), Append(m, line))
  BY SMTT(60) DEF OneLonger

(* One more line in the map.                                               *)
LEMMA MapGrows ==
  ASSUME NEW A, NEW m \in Seq(A), NEW ns \in Seq(PF!Note), PF!Listed(m, ns), NEW note \in PF!Note,
         NEW line \in A, line = PF!Line(note.codesize, TRUE)
  PROVE  PF!Listed(Append(m, line), Append(ns, note))
<1>1. Len(m) = Len(ns) /\ \A i \in 1 .. Len(ns) : m[i] = PF!Line(ns[i].codesize, TRUE)
  BY DEF PF!Listed
<1>2. PICK n \in Nat : n = Len(ns)
  BY SMTT(60)
<1>3. PICK e, f : e = Append(m, line) /\ f = Append(ns, note)
  OBVIOUS
<1>4. Len(f) = n + 1 /\ f[n + 1] = note /\ \A i \in 1 .. n : f[i] = ns[i]
  BY SMTT(60), <1>2, <1>3
<1>5. n = Len(m)
  BY <1>1, <1>2
<1>6. Len(e) = n + 1 /\ e[n + 1] = line /\ \A i \in 1 .. n : e[i] = m[i]
  <2>1. OneLonger(m, line, Len(m), Append(m, line))
    BY OneMore
  <2> QED BY <1>3, <1>5, <2>1 DEF OneLonger
<1>7. \A i \in 1 .. (n + 1) : i \in 1 .. n \/ i = n + 1
  BY SMTT(60)
<1>8. \A i \in 1 .. n : e[i] = PF!Line(f[i].codesize, TRUE)
  BY <1>1, <1>2, <1>4, <1>6
<1>9. PF!Listed(e, f)
  BY <1>4, <1>6, <1>7, <1>8 DEF PF!Listed
<1> QED BY <1>3, <1>9

(* What a write leaves is a chunk, and the whole one if it did not fail.   *)
LEMMA WrittenRight ==
  ASSUME NEW chunk \in PF!Chunk, NEW fails, NEW cut \in Nat
  PROVE  /\ PF!Written(chunk, fails, cut) \in PF!Chunk
         /\ chunk.what \notin fails => PF!Written(chunk, fails, cut) = chunk
<1>1. [chunk EXCEPT !.size = cut] \in PF!Chunk
  BY SMTT(60) DEF PF!Chunk
<1> QED BY <1>1 DEF PF!Written

(* What rtld_perf_notify writes.                                           *)
LEMMA ChunksRight ==
  ASSUME PF!PerfOK, NEW label \in Labels, NEW codesize \in CodeSizes, NEW k, k = PF!NameLen(label)
  PROVE  /\ PF!Record(label, k, codesize) \in PF!Chunk /\ PF!NameChunk(label, k) \in PF!Chunk
         /\ PF!Code(codesize) \in PF!Chunk
         /\ PF!Record(label, k, codesize).says =
              PF!Record(label, k, codesize).size + PF!NameChunk(label, k).size + PF!Code(codesize).size
         /\ PF!NameChunk(label, k).size = PF!NameChunk(label, k).says
         /\ PF!Code(codesize).size = codesize
<1>1. label \in Nat /\ codesize \in Nat /\ BufSize \in Nat \ {0} /\ RecordSize \in Nat
  BY DEF PF!PerfOK
<1>2. k \in Nat /\ k + 1 = IF label < BufSize THEN label + 1 ELSE BufSize
  BY SMTT(60), <1>1 DEF PF!NameLen
<1> QED BY SMTT(60), <1>1, <1>2 DEF PF!Record, PF!NameChunk, PF!Code, PF!Chunk

LEMMA NotifyStep ==
  ASSUME PF!PerfOK, PF!PerfInv, NEW label \in Labels, NEW codesize \in CodeSizes, NEW fails, NEW cut \in Cuts,
         PF!rtld_perf_notify(label, codesize, fails, cut)
  PROVE  PF!PerfInv'
<1>1. PICK note : note = [label |-> label, codesize |-> codesize]
  OBVIOUS
<1>2. note \in PF!Note /\ note.codesize = codesize
  BY SMTT(60), <1>1 DEF PF!Note
<1>3. PICK k : k = PF!NameLen(label)
  OBVIOUS
<1>4. PICK rc, nm, c : rc = PF!Record(label, k, codesize) /\ nm = PF!NameChunk(label, k) /\ c = PF!Code(codesize)
  OBVIOUS
<1>5. rc \in PF!Chunk /\ nm \in PF!Chunk /\ c \in PF!Chunk
  BY <1>3, <1>4, ChunksRight
<1>6. rc.says = rc.size + nm.size + c.size /\ nm.size = nm.says /\ c.size = note.codesize
  BY SMTT(60), <1>2, <1>3, <1>4, ChunksRight
<1> DEFINE W(chunk) == PF!Written(chunk, fails, cut)
           Lines == [codesize : CodeSizes, whole : BOOLEAN]
<1>16. cut \in Nat
  BY DEF PF!PerfOK
<1>17. W(rc) \in PF!Chunk /\ W(nm) \in PF!Chunk /\ W(c) \in PF!Chunk
  BY <1>5, <1>16, WrittenRight
<1>18. fails \cap PF!DumpWrites = {} => W(rc) = rc /\ W(nm) = nm /\ W(c) = c
  <2>1. rc.what = "record" /\ nm.what = "name" /\ c.what = "code"
    BY SMTT(60), <1>3, <1>4 DEF PF!Record, PF!NameChunk, PF!Code
  <2>2. fails \cap PF!DumpWrites = {} => rc.what \notin fails /\ nm.what \notin fails /\ c.what \notin fails
    BY <2>1 DEF PF!DumpWrites
  <2> QED BY <1>5, <1>16, <2>2, WrittenRight
<1> HIDE DEF W, Lines
<1>7. /\ notes \in Seq(PF!Note) /\ map \in Seq(Lines) /\ dump \in Seq(PF!Chunk) /\ PF!PerfRight
  BY DEF PF!PerfInv, Lines
<1>19. PICK line : line = PF!Line(codesize, "map" \notin fails)
  OBVIOUS
<1>8. /\ state = "running" /\ notes' = Append(notes, note)
      /\ map' = IF perfmap_fd THEN Append(map, line) ELSE map
      /\ torn' = torn \cup (fails \cap {"map"}) \cup (IF fails \cap PF!DumpWrites = {} THEN {} ELSE {"dump"})
      /\ UNCHANGED <<state, perfmap_fd, perfdump_fd, open>>
  BY <1>1, <1>19 DEF PF!rtld_perf_notify
<1>9. IF perfdump_fd THEN dump' = (dump \o <<W(rc), W(nm)>>) \o <<W(c)>> ELSE dump' = dump
  BY <1>3, <1>4 DEF PF!rtld_perf_notify, W
<1>20. line \in Lines
  BY SMTT(60), <1>19 DEF PF!Line, Lines
<1>10. notes' \in Seq(PF!Note) /\ map' \in Seq(Lines)
  BY SMTT(60), <1>2, <1>7, <1>8, <1>20
<1>11. dump' \in Seq(PF!Chunk)
  <2>1. dump \o <<W(rc), W(nm)>> \in Seq(PF!Chunk)
    BY SMTT(60), <1>7, <1>17
  <2>2. PICK x : x = dump \o <<W(rc), W(nm)>>
    OBVIOUS
  <2>3. x \o <<W(c)>> \in Seq(PF!Chunk)
    BY SMTT(60), <1>17, <2>1, <2>2
  <2> QED BY <1>7, <1>9, <2>2, <2>3
<1>12. ASSUME perfmap_fd, "map" \notin torn'
       PROVE  PF!Listed(map', notes')
  <2>1. "map" \notin torn /\ "map" \notin fails
    BY <1>8, <1>12
  <2>2. PF!Listed(map, notes)
    BY <1>7, <1>12, <2>1 DEF PF!PerfRight
  <2>3. line = PF!Line(note.codesize, TRUE)
    BY <1>2, <1>19, <2>1
  <2>4. PF!Listed(Append(map, line), Append(notes, note))
    BY <1>2, <1>7, <1>20, <2>2, <2>3, MapGrows
  <2> QED BY <1>8, <1>12, <2>4
<1>13. ASSUME perfdump_fd, "dump" \notin torn'
       PROVE  PF!Dumped(dump', notes')
  <2>1. "dump" \notin torn /\ fails \cap PF!DumpWrites = {}
    BY <1>8, <1>13
  <2>2. PF!Dumped(dump, notes)
    BY <1>7, <1>13, <2>1 DEF PF!PerfRight
  <2>3. dump' = (dump \o <<rc, nm>>) \o <<c>>
    BY <1>9, <1>13, <1>18, <2>1
  <2>4. PF!Dumped((dump \o <<rc, nm>>) \o <<c>>, Append(notes, note))
    BY <1>2, <1>5, <1>6, <1>7, <2>2, DumpGrows
  <2> QED BY <1>8, <2>3, <2>4
<1>14. PF!OpenRight'
  BY <1>7, <1>8 DEF PF!PerfRight, PF!OpenRight
<1>15. PF!PerfRight'
  BY <1>8, <1>12, <1>13, <1>14 DEF PF!PerfRight
<1> QED BY <1>8, <1>10, <1>11, <1>15 DEF PF!PerfInv, Lines

LEMMA InitStep ==
  ASSUME PF!PerfOK, PF!PerfInv, NEW upto, PF!rtld_perf_init(upto)
  PROVE  PF!PerfInv'
<1>1. /\ state' = "running" /\ perfmap_fd' = (mode >= 1 /\ upto # "none")
      /\ perfdump_fd' = (mode = 2 /\ upto = "all")
      /\ open' = (IF mode >= 1 /\ upto # "none" THEN {"map"} ELSE {})
                   \cup (IF mode = 2 /\ upto = "all" THEN {"dump"} ELSE {})
      /\ map = <<>> /\ notes = <<>> /\ dump = <<>> /\ UNCHANGED <<map, notes, torn>>
  BY DEF PF!rtld_perf_init, PF!PerfInv
<1>2. PICK h : h = [what |-> "header", size |-> HeaderSize, says |-> HeaderSize]
  OBVIOUS
<1>3. dump' = IF mode = 2 /\ upto \in {"marker", "all"} THEN <<h>> ELSE dump
  BY <1>2 DEF PF!rtld_perf_init
<1>4. h \in PF!Chunk
  BY SMTT(60), <1>2 DEF PF!PerfOK, PF!Chunk
<1>5. <<h>> \in Seq(PF!Chunk) /\ Len(<<h>>) = 1
  BY SMTT(60), <1>4
<1>6. dump' \in Seq(PF!Chunk)
  BY <1>3, <1>5 DEF PF!PerfInv
<1>7. perfdump_fd' => PF!Dumped(dump', notes')
  <2>1. SUFFICES ASSUME perfdump_fd'
                 PROVE  PF!Dumped(dump', notes')
    OBVIOUS
  <2>2. dump' = <<h>> /\ notes' = <<>>
    BY <1>1, <1>3, <2>1
  <2>3. Len(notes') = 0
    BY SMTT(60), <2>2
  <2>4. 1 = 1 + 3 * 0 /\ 1 .. 0 = {}
    BY SMTT(60)
  <2> QED BY <1>5, <2>2, <2>3, <2>4 DEF PF!Dumped
<1>10. PF!Listed(map', notes')
  <2>1. Len(map') = 0 /\ Len(notes') = 0 /\ 1 .. 0 = {}
    BY SMTT(60), <1>1
  <2> QED BY <2>1 DEF PF!Listed
<1>8. PF!OpenRight'
  BY <1>1 DEF PF!OpenRight
<1>9. PF!PerfRight'
  BY <1>1, <1>7, <1>8, <1>10 DEF PF!PerfRight
<1> QED BY <1>1, <1>6, <1>9 DEF PF!PerfInv

(* Profilers find every function that rtld_perf_notify was told of in each *)
(* file no write failed on, for names and code of any size, any number of  *)
(* functions and writes that fail anywhere.                                *)
THEOREM ProfilersFind ==
  ASSUME PF!PerfOK
  PROVE  PF!Spec => []PF!PerfRight
<1>1. PF!Init => PF!PerfInv
  <2> SUFFICES ASSUME PF!Init
               PROVE  PF!PerfInv
    OBVIOUS
  <2>1. notes \in Seq(PF!Note) /\ map \in Seq([codesize : CodeSizes, whole : BOOLEAN]) /\ dump \in Seq(PF!Chunk)
    BY SMTT(60) DEF PF!Init
  <2>2. PF!PerfRight
    BY DEF PF!Init, PF!PerfRight, PF!OpenRight
  <2> QED BY <2>1, <2>2 DEF PF!Init, PF!PerfInv
<1>2. PF!PerfInv /\ [PF!Next]_PF!vars => PF!PerfInv'
  <2> SUFFICES ASSUME PF!PerfInv, [PF!Next]_PF!vars
               PROVE  PF!PerfInv'
    OBVIOUS
  <2>1. CASE UNCHANGED PF!vars
    BY <2>1 DEF PF!vars, PF!PerfInv, PF!PerfRight, PF!OpenRight
  <2>2. CASE \E upto \in {"none", "map", "header", "marker", "all"} : PF!rtld_perf_init(upto)
    BY <2>2, InitStep
  <2>3. CASE \E label \in Labels, codesize \in CodeSizes, fails \in SUBSET ({"map"} \cup PF!DumpWrites),
                  cut \in Cuts : PF!rtld_perf_notify(label, codesize, fails, cut)
    BY <2>3, NotifyStep
  <2> QED BY <2>1, <2>2, <2>3 DEF PF!Next, PF!Done
<1>3. PF!PerfInv => PF!PerfRight
  BY DEF PF!PerfInv
<1> QED BY <1>1, <1>2, <1>3, PTL DEF PF!Spec
=============================================================================
