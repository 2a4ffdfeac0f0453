-------------------------- MODULE DeadMansSwitch --------------------------
(***************************************************************************)
(* What SilentBeat promises of each switch, without its stores, handlers   *)
(* or failures: the message is released once, after the deadline that was  *)
(* promised, and never after the switch has left the armed phase.          *)
(***************************************************************************)
EXTENDS Naturals

CONSTANT Switch

VARIABLES
  clock,      \* the time
  phase,      \* where each switch is in its life
  pledge,     \* the time before which it will not be released
  owed,       \* released switches whose recipient is still to be written to
  delivered   \* release emails sent for each switch

vars == <<clock, phase, pledge, owed, delivered>>

Phase == {"none", "pending", "armed", "released", "purged", "gone"}

Init ==
  /\ clock = 0 /\ phase = [s \in Switch |-> "none"] /\ pledge = [s \in Switch |-> 0]
  /\ owed = {} /\ delivered = [s \in Switch |-> 0]

Move(s, from, to) == phase[s] \in from /\ phase' = [phase EXCEPT ![s] = to]

\* A new deadline for s; the promises made for other switches stand.
Promise(s) == /\ pledge'[s] \in Nat
              /\ pledge' = [pledge EXCEPT ![s] = pledge'[s]]

Advance == clock' = clock + 1 /\ UNCHANGED <<phase, pledge, owed, delivered>>

Create(s) == Move(s, {"none"}, "pending") /\ Promise(s) /\ UNCHANGED <<clock, owed, delivered>>

Arm(s) == Move(s, {"none", "pending"}, "armed") /\ Promise(s) /\ UNCHANGED <<clock, owed, delivered>>

CheckIn(s) == phase[s] = "armed" /\ Promise(s) /\ UNCHANGED <<clock, phase, owed, delivered>>

Release(s) ==
  /\ Move(s, {"armed"}, "released") /\ pledge[s] <= clock
  /\ owed' = owed \cup {s}
  /\ UNCHANGED <<clock, pledge, delivered>>

Deliver(s) ==
  /\ s \in owed /\ owed' = owed \ {s}
  /\ delivered' = [delivered EXCEPT ![s] = @ + 1]
  /\ UNCHANGED <<clock, phase, pledge>>

\* The worker died, or the mail provider refused the email.
Drop(s) == s \in owed /\ owed' = owed \ {s} /\ UNCHANGED <<clock, phase, pledge, delivered>>

\* By the duress PIN or by the owner; also after a release, which it does not stop.
Purge(s) == /\ Move(s, {"pending", "armed", "released", "purged"}, "purged")
            /\ UNCHANGED <<clock, pledge, owed, delivered>>

Forget == /\ phase' = [s \in Switch |-> "gone"]
          /\ UNCHANGED <<clock, pledge, owed, delivered>>

Next ==
  \/ Advance \/ Forget
  \/ \E s \in Switch : Create(s) \/ Arm(s) \/ CheckIn(s) \/ Release(s) \/ Deliver(s)
                         \/ Drop(s) \/ Purge(s)

Spec == Init /\ [][Next]_vars
=============================================================================
