-------------------------- MODULE SwitchPromises --------------------------
(***************************************************************************)
(* What SwitchLifecycle should guarantee: invariants, action properties    *)
(* and liveness properties, and a claim of a comment that the code does    *)
(* not keep.                                                               *)
(***************************************************************************)
EXTENDS SwitchLifecycle

MakeRecord == [at : MakeStep, direct : BOOLEAN, dl : Nat]
ReqRecord  == [at : ReqStep, sw : Switch \cup {Owner}, dl : Nat, rows : SUBSET Switch]
RunRecord  == [at : RunStep, sw : Switch \cup {Owner}, exp : Nat, whole : BOOLEAN]

\* The type of every variable.
TypeOK ==
  /\ now \in Nat /\ faults \in Nat /\ account \in BOOLEAN
  /\ status \in [Switch -> Status] /\ expiry \in [Switch -> Nat]
  /\ recip \in [Switch -> RecipientStatus]
  /\ envelope \subseteq Switch /\ payload \subseteq Switch /\ token \subseteq Switch
  /\ bound \subseteq Switch /\ alarm \in [Switch -> Nat \cup {None}]
  /\ log \in [Switch \cup {Owner} -> Seq(Event)]
  /\ mailed \in [Switch -> Nat] /\ warned \subseteq Switch /\ invited \subseteq Switch
  /\ pledged \in [Switch -> Nat] /\ gaveUp \subseteq Switch
  /\ make \in [Switch -> MakeRecord]
  /\ req \in [Request -> ReqRecord]
  /\ run \in [Executor -> RunRecord]
  /\ todo \in [Sweeper -> SUBSET Switch]

Entries(s, event) == {i \in DOMAIN log[s] : log[s][i] = event}

\* The requests that are deleting the account, before they drop its rows.
Closing(r) == req[r].at \in {"close", "closeBlob", "closeLog"}

\* Creations, requests and runs that are at work on switch s.
Working(s) == \/ make[s].at \notin {"idle", "made"}
              \/ \E r \in Request : req[r].sw = s \/ Closing(r)
              \/ \E e \in Executor : run[e].sw = s

-----------------------------------------------------------------------------
(* Safety *)

\* A check-in is honoured: the message is not released before the deadline
\* that the last check-in (or the arming) put in force, unless release() had
\* already read the row when that check-in was committed.
\* SwitchTimer.ts:84-93 and the check-in batch, in any order with lost RPCs.
CheckinHonoured == \A s \in Switch : status[s] = "released" => pledged[s] <= now

\* The alarm, its retries, and overlapping cron passes all run release(); at
\* most one release email and one 'release' log entry ever come of it.
AtMostOneRelease ==
  \A s \in Switch : /\ mailed[s] <= 1
                    /\ \A i, j \in Entries(s, "release") : i = j

\* Once the row says the switch is purged, its ciphertext is gone from R2,
\* whatever failed on the way (checkins.ts:100-102, switches.ts:308-311).
PurgedPayloadGone ==
  \A s \in Switch : status[s] \in {"duress_purged", "user_purged"} => s \notin payload

\* The recipient is told of a duress PIN only when there is no ciphertext
\* left to decrypt (checkins.ts:17-20).
DuressNoticeTrue == warned \cap payload = {}

\* An armed switch has an envelope, so release() never finds a recipient
\* incomplete (SwitchTimer.ts:99); and it has its ciphertext unless a purge
\* is under way or has failed half-way.
ArmedCanDeliver ==
  \A s \in Switch : status[s] = "armed" =>
    /\ s \in envelope
    /\ s \in payload \/ faults > 0
         \/ \E r \in Request : \/ req[r].sw = s /\ req[r].at \in {"duressRow", "purgeRow"}
                               \/ Closing(r)

\* In the public log no switch is armed, and no recipient enrolled, before an
\* entry says that the switch was created.
LogCausality ==
  \A s \in Switch : \A i \in Entries(s, "switch_armed") \cup Entries(s, "recipient_enrolled") :
    \E j \in Entries(s, "switch_created") : j < i

\* An armed switch whose SwitchTimer was given its switchId has an alarm set
\* whenever nothing is at work on it, whatever check-ins, stale alarms, lost
\* /checkin calls and failed runs came before (unless the runtime gave up on
\* its alarm).  SwitchTimer.ts:86-92 with checkins.ts:143-147.
TimerCovers ==
  \A s \in Switch : (status[s] = "armed" /\ s \in bound \ gaveUp /\ ~Working(s)) =>
                      alarm[s] # None

\* A switch that was released or purged is never pending or armed again, and
\* one that the account's deletion removed stays removed.
NoResurrection ==
  [][\A s \in Switch :
       /\ status[s] \in {"released", "duress_purged", "user_purged"} =>
            status'[s] \notin {"pending", "armed"}
       /\ (status[s] = "none" /\ ~account) => status'[s] = "none"]_vars

-----------------------------------------------------------------------------
(* Refinement *)

Phase(s) ==
  CASE status[s] = "none" /\ account -> "none"
    [] status[s] = "none" /\ ~account -> "gone"
    [] status[s] \in {"duress_purged", "user_purged"} -> "purged"
    [] OTHER -> status[s]

\* The switches that a run has released and whose recipient it has yet to write to.
Owed == {s \in Switch : \E e \in Executor : run[e].sw = s /\ run[e].at \in {"token", "mail"}}

Abstract == INSTANCE DeadMansSwitch
  WITH clock <- now, phase <- [s \in Switch |-> Phase(s)], pledge <- pledged,
       owed <- Owed, delivered <- mailed

\* The handlers, alarms, cron passes and failures together behave as the
\* simple switch of DeadMansSwitch: every step is one of its steps, or none.
KeepsPromise == Abstract!Spec

-----------------------------------------------------------------------------
(* Liveness *)

\* An armed switch does not stay armed for ever: check-ins are finitely many,
\* and even if its alarm is lost the cron pass finds it (README, wrangler cron).
ArmedEnds == \A s \in Switch : status[s] = "armed" ~> status[s] # "armed"

\* Once released and as long as no call fails, a switch gets its token stored,
\* its recipient one email and the public log an entry, even if its account is
\* deleted meanwhile (SwitchTimer.ts:107-205).
ReleaseCompletes ==
  \A s \in Switch : (status[s] = "released" /\ faults = 0) ~>
    \/ s \in token /\ mailed[s] = 1 /\ Entries(s, "release") # {}
    \/ faults > 0

-----------------------------------------------------------------------------
(* A claim of a comment that the code does not keep *)

\* SwitchTimer.ts:86-88: release() is a no-op if the new expiry hasn't elapsed.
ReleaseHonoursExpiry ==
  [][\A s \in Switch : (status[s] = "armed" /\ status'[s] = "released") => expiry[s] <= now]_vars
=============================================================================
