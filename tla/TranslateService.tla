-------------------------- MODULE TranslateService --------------------------
(***************************************************************************)
(* What the client may expect of the translation server: after start-up it *)
(* asks for one address at a time and gets one object, made for exactly    *)
(* that address, or the conversation ends.  Messages, pipes, buffers and   *)
(* page requests are not visible here.                                     *)
(***************************************************************************)
CONSTANTS Addrs, NoAddr

VARIABLES
  phase,   \* "starting", "running" (the guest executes), "waiting", "ended"
  asked,   \* the address asked for while waiting
  answer   \* the address the last object was made for

svars == <<phase, asked, answer>>

ServiceInit == phase = "starting" /\ asked = NoAddr /\ answer = NoAddr

Started ==
  /\ phase = "starting"
  /\ phase' = "running"
  /\ UNCHANGED <<asked, answer>>

Ask(a) ==
  /\ phase = "running"
  /\ phase' = "waiting"
  /\ asked' = a
  /\ answer' = NoAddr

Answer ==
  /\ phase = "waiting"
  /\ phase' = "running"
  /\ answer' = asked
  /\ UNCHANGED asked

Ended ==
  /\ phase # "ended"
  /\ phase' = "ended"
  /\ UNCHANGED <<asked, answer>>

ServiceNext == Started \/ Answer \/ Ended \/ \E a \in Addrs : Ask(a)

Service ==
  /\ ServiceInit /\ [][ServiceNext]_svars
  /\ WF_svars(Started \/ Answer \/ (phase # "running" /\ Ended))
=============================================================================
