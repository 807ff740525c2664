------------------------------ MODULE Signals ------------------------------
(***************************************************************************)
(* Emulated signals (client/emulate.c, x86-64 guest).  The host handler    *)
(* only marks a signal as pending; the guest's disposition is looked at    *)
(* when a system call ends.  The main flow takes one step per access to    *)
(* state shared with the handler, and between any two of its steps the     *)
(* kernel may deliver a signal.  The handler itself runs with all signals  *)
(* masked (sa_mask is full) and is one step.                               *)
(***************************************************************************)
EXTENDS Integers

\* Definitions named X_<word> are faulty variants of X: the properties that
\* must notice them are listed with the runs.

CONSTANTS
  Sigs,       \* signals that can be caught
  Sync,       \* SIGSEGV and SIGBUS
  Sent,       \* the signals other processes send
  MaskCalls,  \* which of "sigprocmask" and "sigsuspend" the guest calls
  None

ASSUME SignalsAssumption ==
  /\ Sync \subseteq Sigs /\ Sent \subseteq Sigs /\ None \notin Sigs
  /\ MaskCalls \subseteq {"sigprocmask", "sigsuspend"}

(* A guest's disposition: default, ignore, a handler, a handler with       *)
(* SA_RESTART.  The host's: the same, or signal_handler with or without    *)
(* SA_RESTART.                                                             *)
GuestAct == {"dfl", "ign", "fn", "fn_restart"}
HostAct == {"dfl", "ign", "handler", "handler_restart"}

VARIABLES
  pc,          \* the main flow, see TypeOK
  sig,         \* signal_sigaction's argument, signal_handle's sig
  suspend,     \* the mask rt_sigsuspend was called with
  sigpending,  \* cpu_state->sigpending
  sigmask,     \* cpu_state->sigmask: the guest's mask
  sigact,      \* state->sigact: the guest's dispositions
  hostmask,    \* the process's signal mask
  hostact,     \* the process's dispositions
  hostpend,    \* the kernel's set of pending signals
  dropped,     \* history: signals the handler dropped
  raced,       \* history: the pending signal came while signal_sigprocmask
               \* was between its test of sigpending and its update
  fatal        \* history: the signal that ended the client

host == <<hostmask, hostact, hostpend>>
vars == <<pc, sig, suspend, sigpending, sigmask, sigact, host, dropped, raced, fatal>>

(* signal_init: signal_handler for SIGSEGV and SIGBUS, the guest has       *)
(* default dispositions and an empty mask.                                 *)
Init ==
  /\ pc = "guest" /\ sig = None /\ suspend = {}
  /\ sigpending = None /\ sigmask = {}
  /\ sigact = [s \in Sigs |-> "dfl"]
  /\ hostmask = {} /\ hostpend = {}
  /\ hostact = [s \in Sigs |-> IF s \in Sync THEN "handler" ELSE "dfl"]
  /\ dropped = {} /\ raced = FALSE /\ fatal = None

Dead == {"killed", "exited"}

(* abort_with_signal, or the kernel's default action.                      *)
Killed(s) == pc' = "killed" /\ fatal' = s
-----------------------------------------------------------------------------
(* The kernel and the handler.                                             *)

(* Another process sends a signal; a second one of a kind merges with it.  *)
Send(s) ==
  /\ pc \notin Dead /\ s \in Sent
  /\ hostpend' = hostpend \cup {s}
  /\ UNCHANGED <<pc, sig, suspend, sigpending, sigmask, sigact, hostmask, hostact, dropped, raced, fatal>>

(* rt_sigsuspend replaces the mask while it waits.                         *)
Masked(s) == s \in IF pc = "suspend" THEN suspend ELSE hostmask

(* "Keep all signals masked until guest signal handler executed."          *)
HandlerMask == Sigs \ Sync

Interrupts(s) == hostact[s] = "handler"

(* signal_handler for an asynchronous signal: drop it if the guest blocks  *)
(* it, else mark it pending and return with all signals masked.            *)
signal_handler(s) ==
  IF s \in sigmask
  THEN dropped' = dropped \cup {s} /\ UNCHANGED <<sigpending, hostmask, raced>>
  ELSE /\ sigpending' = s /\ hostmask' = HandlerMask
       /\ raced' = (raced \/ pc = "hostmask") /\ UNCHANGED dropped

(* The kernel delivers a signal.  Waiting for the server's answer is cut   *)
(* short by a handler without SA_RESTART: read_full gives up on EINTR, and *)
(* resolve_func exits with status 0.  rt_sigsuspend always returns.        *)
Deliver(s) ==
  /\ pc \notin Dead /\ s \in hostpend /\ ~Masked(s)
  /\ hostpend' = hostpend \ {s}
  /\ \/ hostact[s] = "ign" /\ UNCHANGED <<pc, sigpending, hostmask, dropped, raced, fatal>>
     \/ hostact[s] = "dfl" /\ Killed(s) /\ UNCHANGED <<sigpending, hostmask, dropped, raced>>
     \/ /\ hostact[s] \notin {"ign", "dfl"} /\ signal_handler(s)
        /\ IF pc = "translate" /\ Interrupts(s) THEN pc' = "exited" /\ fatal' = s
           ELSE pc' = (IF pc = "suspend" THEN "end" ELSE pc) /\ UNCHANGED fatal
  /\ suspend' = IF pc' = "suspend" THEN suspend ELSE {}
  /\ UNCHANGED <<sig, sigmask, sigact, hostact>>

(* Translated code faults: "for now, just abort".                          *)
Fault(s) ==
  /\ pc = "guest" /\ s \in Sync
  /\ Killed(s)
  /\ UNCHANGED <<sig, suspend, sigpending, sigmask, sigact, host, dropped, raced>>
-----------------------------------------------------------------------------
(* The main flow.                                                          *)

(* Translated code needs more code: translator_get waits for the server.   *)
Translate ==
  /\ \/ pc = "guest" /\ pc' = "translate"
     \/ pc = "translate" /\ pc' = "guest"
  /\ UNCHANGED <<sig, suspend, sigpending, sigmask, sigact, host, dropped, raced, fatal>>

(* A system call that changes nothing here: the many that go to the host   *)
(* as they are or under a newer name, rt_sigpending and sigaltstack.       *)
Syscall ==
  /\ pc = "guest" /\ pc' = "end"
  /\ UNCHANGED <<sig, suspend, sigpending, sigmask, sigact, host, dropped, raced, fatal>>

Reserved_none == {}

(* signal_handler stays in place for these: sig == SIGSEGV || SIGBUS.      *)
Reserved == Sync

(* signal_sigaction up to the host's sigaction.                            *)
signal_sigaction(s, act) ==
  /\ pc = "guest"
  /\ sigact' = [sigact EXCEPT ![s] = act]
  /\ IF s \in Reserved THEN pc' = "end" /\ UNCHANGED sig ELSE pc' = "sigaction" /\ sig' = s
  /\ UNCHANGED <<suspend, sigpending, sigmask, host, dropped, raced, fatal>>

HostActOf(act) ==
  CASE act = "fn" -> "handler"
    [] act = "fn_restart" -> "handler_restart"
    [] OTHER -> act

(* ... and the host's sigaction, which discards a pending signal that is   *)
(* ignored from now on.                                                    *)
HostSigaction ==
  /\ pc = "sigaction"
  /\ hostact' = [hostact EXCEPT ![sig] = HostActOf(sigact[sig])]
  /\ hostpend' = IF sigact[sig] = "ign" THEN hostpend \ {sig} ELSE hostpend
  /\ pc' = "end" /\ sig' = None
  /\ UNCHANGED <<suspend, sigpending, sigmask, sigact, hostmask, dropped, raced, fatal>>

(* signal_sigprocmask: the guest's mask ...                                *)
signal_sigprocmask(m) ==
  /\ "sigprocmask" \in MaskCalls /\ pc = "guest"
  /\ sigmask' = m /\ pc' = "check"
  /\ UNCHANGED <<sig, suspend, sigpending, sigact, host, dropped, raced, fatal>>

(* ... "Only update host mask if there is no signal pending" ...           *)
CheckPending ==
  /\ pc = "check"
  /\ pc' = IF sigpending = None THEN "hostmask" ELSE "end"
  /\ UNCHANGED <<sig, suspend, sigpending, sigmask, sigact, host, dropped, raced, fatal>>

HostMaskOf(m) == m \ Sync

(* ... and signal_update_hostmask.                                         *)
signal_update_hostmask ==
  /\ pc = "hostmask"
  /\ hostmask' = HostMaskOf(sigmask) /\ pc' = "end"
  /\ UNCHANGED <<sig, suspend, sigpending, sigmask, sigact, hostact, hostpend, dropped, raced, fatal>>

(* rt_sigsuspend goes to the host as it is.                                *)
rt_sigsuspend(m) ==
  /\ "sigsuspend" \in MaskCalls /\ pc = "guest"
  /\ suspend' = m /\ pc' = "suspend"
  /\ UNCHANGED <<sig, sigpending, sigmask, sigact, host, dropped, raced, fatal>>

(* rt_sigreturn: "guest sigreturn not implemented", abort with SIGABRT.    *)
signal_sigreturn ==
  /\ pc = "guest"
  /\ Killed("ABRT")
  /\ UNCHANGED <<sig, suspend, sigpending, sigmask, sigact, host, dropped, raced>>

(* The end of emulate_syscall: if (cpu_state->sigpending) signal_handle,   *)
(* which reads sigpending ...                                              *)
SyscallEnds ==
  /\ pc = "end"
  /\ IF sigpending = None THEN pc' = "guest" /\ UNCHANGED sig
                          ELSE pc' = "handle" /\ sig' = sigpending
  /\ UNCHANGED <<suspend, sigpending, sigmask, sigact, host, dropped, raced, fatal>>

(* ... clears it, and aborts unless the guest ignores the signal: running  *)
(* a handler of the guest is not implemented.                              *)
signal_handle ==
  /\ pc = "handle"
  /\ sigpending' = None /\ sig' = None /\ raced' = FALSE
  /\ IF sigact[sig] = "ign" THEN pc' = "guest" /\ UNCHANGED fatal ELSE Killed(sig)
  /\ UNCHANGED <<suspend, sigmask, sigact, host, dropped>>

(* The client is gone.                                                     *)
Gone == pc \in Dead /\ UNCHANGED vars

Next ==
  \/ \E s \in Sigs : Send(s) \/ Deliver(s) \/ Fault(s)
  \/ Translate \/ Syscall
  \/ \E s \in Sigs, act \in GuestAct : signal_sigaction(s, act)
  \/ HostSigaction
  \/ \E m \in SUBSET Sigs : signal_sigprocmask(m) \/ rt_sigsuspend(m)
  \/ CheckPending \/ signal_update_hostmask
  \/ signal_sigreturn \/ SyscallEnds \/ signal_handle
  \/ Gone

Spec == Init /\ [][Next]_vars
-----------------------------------------------------------------------------
TypeOK ==
  /\ pc \in {"guest", "translate", "sigaction", "check", "hostmask", "suspend", "end",
             "handle"} \cup Dead
  /\ sig \in Sigs \cup {None} /\ sigpending \in Sigs \cup {None}
  /\ suspend \subseteq Sigs /\ sigmask \subseteq Sigs
  /\ sigact \in [Sigs -> GuestAct] /\ hostact \in [Sigs -> HostAct]
  /\ hostmask \subseteq Sigs /\ hostpend \subseteq Sigs
  /\ dropped \subseteq Sigs /\ raced \in BOOLEAN /\ fatal \in Sigs \cup {None, "ABRT"}

(* Outside signal_sigaction the live process catches exactly the signals   *)
(* the guest catches, and SIGSEGV and SIGBUS always: a fault never reaches *)
(* the guest's own disposition.                                            *)
DispositionsAgree ==
  \A s \in Sigs :
    IF s \in Sync THEN hostact[s] = "handler"
    ELSE \/ pc \in Dead \/ (pc = "sigaction" /\ sig = s)
         \/ (hostact[s] \in {"handler", "handler_restart"} <=> sigact[s] \in {"fn", "fn_restart"})

(* SA_RESTART is honoured: waiting for a translation is never cut short by *)
(* a signal whose handler the guest installed with SA_RESTART.             *)
HonoursRestart == pc = "exited" => sigact[fatal] # "fn_restart" \/ fatal \in Sync

(* "Keep all signals masked until guest signal handler executed": while a  *)
(* signal is pending, the mask in force has all but SIGSEGV and SIGBUS, so *)
(* that none overwrites it.  Two exceptions, in which it is overwritten:   *)
(* the signal came while signal_sigprocmask was between its test of        *)
(* sigpending and its update, or the guest waits in rt_sigsuspend, whose   *)
(* mask goes to the host although a signal is pending.                     *)
PendingKeepsOut ==
  sigpending # None /\ ~raced /\ pc \notin Dead \cup {"suspend"} => \A s \in Sigs \ Sync : Masked(s)

(* What the guest asked for with rt_sigaction is what the process does,    *)
(* and a pending signal keeps others out until a system call ends.         *)
ActionsHonoured == DispositionsAgree /\ HonoursRestart /\ PendingKeepsOut

(* A pending signal stays until signal_handle has read it, or SIGSEGV or   *)
(* SIGBUS replaces it, but for the two exceptions of PendingKeepsOut.      *)
PendingStays ==
  [][sigpending # None /\ ~raced /\ pc # "suspend"
       => sigpending' \in {sigpending} \cup Sync \/ (pc = "handle" /\ sigpending' = None)]_vars

(* Why ActionsHonoured holds.  Until a signal kills the process, the host  *)
(* has the disposition the guest asked for, SA_RESTART included, except    *)
(* for the one signal signal_sigaction is working on; sig is that signal,  *)
(* or the one signal_handle has read.  The host's mask is about to change  *)
(* only if nothing is pending, or the pending signal came after the test.  *)
HostAgrees ==
  \A s \in Sigs \ Sync :
    pc # "killed" => (pc = "sigaction" /\ sig = s) \/ hostact[s] = HostActOf(sigact[s])

(* The mask rt_sigsuspend puts aside has all signals, too.                 *)
PendingMasks == sigpending # None /\ ~raced /\ pc \notin Dead => Sigs \ Sync \subseteq hostmask

SigRight ==
  /\ pc = "sigaction" => sig \in Sigs \ Sync
  /\ pc = "handle" => sig \in Sigs
  /\ pc = "exited" => fatal \in Sigs
  /\ pc = "hostmask" => sigpending = None \/ raced

IInv ==
  /\ TypeOK /\ SigRight /\ HostAgrees
  /\ \A s \in Sync : hostact[s] = "handler"
  /\ HonoursRestart /\ PendingMasks

(* The handler drops a blocked signal "only [...] for SIGSEGV and SIGBUS". *)
DroppedOnlySync == dropped \subseteq Sync
=============================================================================
