-------------------------- MODULE SwitchLifecycle --------------------------
(***************************************************************************)
(* The life of the switches of one SilentBeat account, over the four       *)
(* stores the worker writes to: the D1 rows (switches, recipients, users), *)
(* the R2 payload, the KV release token, and the alarm of the switch's     *)
(* SwitchTimer Durable Object.                                             *)
(*                                                                         *)
(* Every HTTP handler, every release() run and every cron pass is a little *)
(* process that advances by one action per awaited call, so that any other *)
(* handler may run in between.  A call that throws, or a worker that dies, *)
(* is a step of Fail* and costs one of MaxFaults faults.                   *)
(***************************************************************************)
EXTENDS Integers, Sequences, FiniteSets

CONSTANTS
  Switch,      \* the switches the account may create; also their SwitchTimer objects
  Request,     \* request slots: each serves at most one API call in a behaviour
  Sweeper,     \* cron passes that may overlap
  Owner,       \* the account, as the subject of its own log entry
  None,        \* an alarm that is not set
  Timer,       \* timer_seconds, the same for every switch
  MaxTime,     \* bound: no deadline is set, and the clock does not run, past it
  MaxActive,   \* PLAN_LIMITS[plan].maxActiveSwitches
  SweepLimit,  \* the LIMIT of the cron's SELECT
  MaxFaults    \* bound: calls that fail, and handlers that die, in a behaviour

ASSUME SwitchAssumption  == Owner \notin Switch /\ Switch \cap Sweeper = {}
ASSUME FiniteAssumption  == IsFiniteSet(Switch)
ASSUME AlarmAssumption   == None \notin Nat
ASSUME BoundsAssumption  == /\ Timer \in Nat \ {0}
                            /\ MaxTime \in Nat /\ MaxActive \in Nat
                            /\ SweepLimit \in Nat \ {0} /\ MaxFaults \in Nat

Executor == Switch \cup Sweeper   \* who runs release(): a switch's own alarm, or a cron pass

VARIABLES
  now,        \* Date.now(), the same everywhere
  account,    \* D1: the users row is there
  status,     \* D1: switches.status, "none" when there is no row
  expiry,     \* D1: switches.expiry_at
  recip,      \* D1: recipients.status of an invited recipient, "none" when there is no row
  envelope,   \* D1: switches whose row, joined with its recipient, has an encrypted share B
  payload,    \* R2: switches whose ciphertext is stored
  token,      \* KV: switches with a release token
  bound,      \* SwitchTimer storage: objects that know their switchId
  alarm,      \* SwitchTimer storage: the time of the alarm, or None
  log,        \* public audit log: the events of each switch, and of the account, in order
  mailed,     \* release emails sent for each switch
  warned,     \* switches whose recipient was told of a duress PIN
  invited,    \* switches whose recipient holds an enrollment link
  pledged,    \* history: the deadline in force that no release run had already read past
  faults,     \* failures so far
  gaveUp,     \* history: switches whose alarm threw, and which the runtime did not call again
  make,       \* progress of the POST /api/switches that creates each switch
  req,        \* progress of every other API call
  run,        \* progress of every release() run
  todo        \* the rows of its SELECT that a cron pass has not yet handled

d1       == <<account, status, expiry, recip, envelope>>
store    == <<payload, token>>
timer    == <<bound, alarm>>
outbox   == <<mailed, warned, invited>>
handlers == <<make, req>>
runs     == <<run, todo>>
history  == <<pledged, gaveUp>>
vars     == <<now, d1, store, timer, log, outbox, history, faults, handlers, runs>>

Status == {"none", "pending", "armed", "released", "duress_purged", "user_purged"}
RecipientStatus == {"none", "pending", "enrolled", "test_confirmed"}
Event == {"switch_created", "switch_armed", "checkin", "release", "duress_release",
          "user_purge", "recipient_enrolled", "account_deleted"}

MakeStep == {"idle", "blob", "row", "logCreated", "logArmed", "arm", "invite", "made"}
ReqStep  == {"ready", "verify", "defuse", "extend", "logCheckin",
             "duressBlob", "duressRow", "duressCancel", "logDuress", "notify",
             "purgeBlob", "purgeRow", "purgeCancel", "logPurge",
             "finRecipient", "finCommit", "finArm", "logFin",
             "enroll", "logEnrolled",
             "close", "closeBlob", "closeLog", "logClosed", "done"}
RunStep  == {"idle", "select", "check", "update", "token", "mail", "log", "disarm"}

Call(pc) == [at |-> pc, sw |-> Owner, dl |-> 0, rows |-> {}]          \* a request with no data
IdleRun  == [at |-> "idle", sw |-> Owner, exp |-> 0, whole |-> FALSE]

Init ==
  /\ now = 0 /\ account = TRUE /\ faults = 0
  /\ status = [s \in Switch |-> "none"] /\ expiry = [s \in Switch |-> 0]
  /\ recip = [s \in Switch |-> "none"] /\ envelope = {}
  /\ payload = {} /\ token = {}
  /\ bound = {} /\ alarm = [s \in Switch |-> None]
  /\ log = [x \in Switch \cup {Owner} |-> <<>>]
  /\ mailed = [s \in Switch |-> 0] /\ warned = {} /\ invited = {}
  /\ pledged = [s \in Switch |-> 0] /\ gaveUp = {}
  /\ make = [s \in Switch |-> [at |-> "idle", direct |-> FALSE, dl |-> 0]]
  /\ req = [r \in Request |-> Call("ready")]
  /\ run = [e \in Executor |-> IdleRun]
  /\ todo = [w \in Sweeper |-> {}]

-----------------------------------------------------------------------------
Fault == faults < MaxFaults /\ faults' = faults + 1

Write(x, event) == log' = [log EXCEPT ![x] = Append(@, event)]   \* auditlog.append

\* The SwitchTimer calls.  Input gates make each of them atomic.  The caller
\* catches a failed call and goes on, with the object as it was.
Arm(s, d)    == /\ bound' = bound \cup {s} /\ alarm' = [alarm EXCEPT ![s] = d]
                /\ UNCHANGED faults
Extend(s, d) == alarm' = [alarm EXCEPT ![s] = d] /\ UNCHANGED <<bound, faults>>
Cancel(s)    == /\ bound' = bound \ {s} /\ alarm' = [alarm EXCEPT ![s] = None]
                /\ UNCHANGED faults
LostCall     == Fault /\ UNCHANGED timer

-----------------------------------------------------------------------------
(* POST /api/switches: create a switch, for an enrolled contact (direct) or  *)
(* for a recipient still to be invited.                                      *)

Making(s, from, to) == make[s].at = from /\ make' = [make EXCEPT ![s].at = to]

Active == {s \in Switch : status[s] \in {"pending", "armed"}}   \* countActiveSwitches

\* The plan limit is checked, and the contact read, before anything is written.
CreateAdmit(s, direct) ==
  /\ make[s].at = "idle" /\ Cardinality(Active) < MaxActive
  /\ direct => account
  /\ make' = [make EXCEPT ![s] = [at |-> "blob", direct |-> direct, dl |-> 0]]
  /\ UNCHANGED <<d1, store, timer, log, outbox, pledged, faults>>

\* With a bug: the put is not awaited, and may never happen.
CreateBlobUnawaited(s) ==
  /\ make[s].at = "blob" /\ now + Timer <= MaxTime
  /\ payload' \in {payload, payload \cup {s}}
  /\ make' = [make EXCEPT ![s].at = "row", ![s].dl = now + Timer]
  /\ UNCHANGED <<d1, token, timer, log, outbox, pledged, faults>>

CreateBlob(s) ==
  /\ make[s].at = "blob" /\ now + Timer <= MaxTime
  /\ payload' = payload \cup {s}
  /\ make' = [make EXCEPT ![s].at = "row", ![s].dl = now + Timer]
  /\ UNCHANGED <<d1, token, timer, log, outbox, pledged, faults>>

CreateRow(s) ==
  LET m == make[s] IN
  /\ account /\ Making(s, "row", "logCreated")
  /\ status' = [status EXCEPT ![s] = IF m.direct THEN "armed" ELSE "pending"]
  /\ expiry' = [expiry EXCEPT ![s] = m.dl]
  /\ recip' = [recip EXCEPT ![s] = IF m.direct THEN "none" ELSE "pending"]
  /\ envelope' = IF m.direct THEN envelope \cup {s} ELSE envelope
  /\ pledged' = [pledged EXCEPT ![s] = IF m.direct THEN m.dl ELSE 0]
  /\ UNCHANGED <<account, store, timer, log, outbox, faults>>

\* Without its users row the INSERT breaks a foreign key; the blob stays.
CreateRefused(s) ==
  /\ ~account /\ Making(s, "row", "made")
  /\ UNCHANGED <<d1, store, timer, log, outbox, pledged, faults>>

\* With a bug: the append is not awaited, and may never happen.
CreateLogUnawaited(s) ==
  /\ Making(s, "logCreated", IF make[s].direct THEN "logArmed" ELSE "invite")
  /\ Write(s, "switch_created") \/ UNCHANGED log
  /\ UNCHANGED <<d1, store, timer, outbox, pledged, faults>>

CreateLogCreated(s) ==
  /\ Making(s, "logCreated", IF make[s].direct THEN "logArmed" ELSE "invite")
  /\ Write(s, "switch_created")
  /\ UNCHANGED <<d1, store, timer, outbox, pledged, faults>>

CreateLogArmed(s) ==
  /\ Making(s, "logArmed", "arm")
  /\ Write(s, "switch_armed")
  /\ UNCHANGED <<d1, store, timer, outbox, pledged, faults>>

CreateArm(s) ==
  /\ Making(s, "arm", "made")
  /\ Arm(s, make[s].dl) \/ LostCall
  /\ UNCHANGED <<d1, store, log, outbox, pledged>>

CreateInvite(s) ==
  /\ Making(s, "invite", "made")
  /\ invited' = invited \cup {s}
  /\ UNCHANGED <<d1, store, timer, log, mailed, warned, pledged, faults>>

FailCreate(s) ==
  /\ make[s].at \notin {"idle", "made"} /\ Fault
  /\ make' = [make EXCEPT ![s].at = "made"]
  /\ UNCHANGED <<d1, store, timer, log, outbox, pledged>>

Create(s) ==
  /\ \/ \E direct \in BOOLEAN : CreateAdmit(s, direct)
     \/ CreateBlob(s) \/ CreateRow(s) \/ CreateRefused(s)
     \/ CreateLogCreated(s) \/ CreateLogArmed(s) \/ CreateArm(s) \/ CreateInvite(s)
     \/ FailCreate(s)
  /\ UNCHANGED <<now, gaveUp, req, runs>>

-----------------------------------------------------------------------------
(* The calls that several request handlers make.                             *)

Begin(r, pc, s, d) ==
  /\ req[r].at = "ready"
  /\ req' = [req EXCEPT ![r] = [Call(pc) EXCEPT !.sw = s, !.dl = d]]
  /\ UNCHANGED <<d1, store, timer, log, outbox, pledged, faults>>

Goto(r, pc)       == req' = [req EXCEPT ![r] = IF pc = "done" THEN Call(pc) ELSE [@ EXCEPT !.at = pc]]
Step(r, from, to) == req[r].at = from /\ Goto(r, to)

CallTimer(r, from, to, Rpc) ==
  Step(r, from, to) /\ (Rpc \/ LostCall) /\ UNCHANGED <<d1, store, log, outbox, pledged>>

DeleteBlob(r, from, to) ==
  /\ Step(r, from, to) /\ payload' = payload \ {req[r].sw}
  /\ UNCHANGED <<d1, token, timer, log, outbox, pledged, faults>>

AppendLog(r, from, event, to) ==
  /\ Step(r, from, to) /\ Write(req[r].sw, event)
  /\ UNCHANGED <<d1, store, timer, outbox, pledged, faults>>

-----------------------------------------------------------------------------
(* POST /api/switches/:id/checkin, with the defuse PIN or the duress PIN.    *)

CheckinRead(r, s) == status[s] = "armed" /\ Begin(r, "verify", s, 0)

VerifyDefuse(r) ==
  /\ req[r].at = "verify" /\ now + Timer <= MaxTime
  /\ req' = [req EXCEPT ![r] = [@ EXCEPT !.at = "defuse", !.dl = now + Timer]]
  /\ UNCHANGED <<d1, store, timer, log, outbox, pledged, faults>>

\* With a bug: the ciphertext is kept.
VerifyDuressKeeps(r) ==
  Step(r, "verify", "duressRow") /\ UNCHANGED <<d1, store, timer, log, outbox, pledged, faults>>

VerifyDuress(r) ==
  Step(r, "verify", "duressBlob") /\ UNCHANGED <<d1, store, timer, log, outbox, pledged, faults>>

Contested(s) == \E e \in Executor : run[e].sw = s /\ run[e].at \in {"check", "update"}

\* The batch looks at no status.  Without the row it breaks a foreign key.
DefuseCommit(r) ==
  LET s == req[r].sw  d == req[r].dl IN
  /\ Step(r, "defuse", IF status[s] = "none" THEN "done" ELSE "extend")
  /\ expiry' = IF status[s] = "none" THEN expiry ELSE [expiry EXCEPT ![s] = d]
  /\ pledged' = IF status[s] # "armed" THEN pledged
                ELSE [pledged EXCEPT ![s] = IF Contested(s) THEN 0 ELSE d]
  /\ UNCHANGED <<account, status, recip, envelope, store, timer, log, outbox, faults>>

DefuseExtend(r) == CallTimer(r, "extend", "logCheckin", Extend(req[r].sw, req[r].dl))
DefuseLog(r)    == AppendLog(r, "logCheckin", "checkin", "done")

DuressBlob(r)   == DeleteBlob(r, "duressBlob", "duressRow")

DuressRow(r) ==
  LET s == req[r].sw IN
  /\ Step(r, "duressRow", IF status[s] = "none" THEN "done" ELSE "duressCancel")
  /\ status' = [status EXCEPT ![s] = IF @ = "none" THEN "none" ELSE "duress_purged"]
  /\ UNCHANGED <<account, expiry, recip, envelope, store, timer, log, outbox, pledged, faults>>

DuressCancel(r) == CallTimer(r, "duressCancel", "logDuress", Cancel(req[r].sw))
DuressLog(r)    == AppendLog(r, "logDuress", "duress_release", "notify")

\* sendDuressNotification reads the row again; its failures are swallowed (FailReq).
DuressNotify(r) ==
  /\ Step(r, "notify", "done")
  /\ warned' = warned \cup {s \in {req[r].sw} : status[s] # "none"}
  /\ UNCHANGED <<d1, store, timer, log, mailed, invited, pledged, faults>>

Checkin(r) ==
  \/ \E s \in Switch : CheckinRead(r, s)
  \/ VerifyDefuse(r) \/ DefuseCommit(r) \/ DefuseExtend(r) \/ DefuseLog(r)
  \/ VerifyDuress(r) \/ DuressBlob(r) \/ DuressRow(r) \/ DuressCancel(r)
  \/ DuressLog(r) \/ DuressNotify(r)

-----------------------------------------------------------------------------
(* DELETE /api/switches/:id                                                  *)

\* With a bug: the row is updated first.
DeleteReadRowFirst(r, s) == status[s] # "none" /\ Begin(r, "purgeRow", s, 0)

DeleteRead(r, s) == status[s] # "none" /\ Begin(r, "purgeBlob", s, 0)

PurgeBlob(r)     == DeleteBlob(r, "purgeBlob", "purgeRow")

\* With a bug: a status that the table's CHECK does not know.
PurgeRowUnknown(r) ==
  /\ Step(r, "purgeRow", "purgeCancel")
  /\ status' = [status EXCEPT ![req[r].sw] = IF @ = "none" THEN "none" ELSE "purged"]
  /\ UNCHANGED <<account, expiry, recip, envelope, store, timer, log, outbox, pledged, faults>>

PurgeRow(r) ==
  /\ Step(r, "purgeRow", "purgeCancel")
  /\ status' = [status EXCEPT ![req[r].sw] = IF @ = "none" THEN "none" ELSE "user_purged"]
  /\ UNCHANGED <<account, expiry, recip, envelope, store, timer, log, outbox, pledged, faults>>

PurgeCancel(r) == CallTimer(r, "purgeCancel", "logPurge", Cancel(req[r].sw))
PurgeLog(r)    == AppendLog(r, "logPurge", "user_purge", "done")

Delete(r) ==
  \/ \E s \in Switch : DeleteRead(r, s)
  \/ PurgeBlob(r) \/ PurgeRow(r) \/ PurgeCancel(r) \/ PurgeLog(r)

-----------------------------------------------------------------------------
(* POST /api/recipients/:id/enroll, then POST /api/switches/:id/finalize     *)

EnrollRead(r, s) == s \in invited /\ recip[s] = "pending" /\ Begin(r, "enroll", s, 0)

EnrollCommit(r) ==
  /\ Step(r, "enroll", "logEnrolled")
  /\ recip' = [recip EXCEPT ![req[r].sw] = IF @ = "none" THEN "none" ELSE "enrolled"]
  /\ UNCHANGED <<account, status, expiry, envelope, store, timer, log, outbox, pledged, faults>>

EnrollLog(r) == AppendLog(r, "logEnrolled", "recipient_enrolled", "done")

FinRead(r, s) == status[s] = "pending" /\ Begin(r, "finRecipient", s, expiry[s])

FinRecipient(r) ==
  /\ Step(r, "finRecipient", IF recip[req[r].sw] = "enrolled" THEN "finCommit" ELSE "done")
  /\ UNCHANGED <<d1, store, timer, log, outbox, pledged, faults>>

\* With a bug: the switch is armed whatever it has become.
FinCommitAnyStatus(r) ==
  LET s == req[r].sw IN
  /\ Step(r, "finCommit", "finArm")
  /\ recip' = [recip EXCEPT ![s] = IF @ = "none" THEN "none" ELSE "test_confirmed"]
  /\ envelope' = envelope \cup {x \in {s} : recip[x] # "none"}
  /\ status' = [status EXCEPT ![s] = IF @ = "none" THEN @ ELSE "armed"]
  /\ pledged' = [pledged EXCEPT ![s] = expiry[s]]
  /\ UNCHANGED <<account, expiry, store, timer, log, outbox, faults>>

\* The recipients row is updated whatever the switch has become, the switch
\* only if it is still pending; the answer is 'armed' either way.
FinCommit(r) ==
  LET s == req[r].sw IN
  /\ Step(r, "finCommit", "finArm")
  /\ recip' = [recip EXCEPT ![s] = IF @ = "none" THEN "none" ELSE "test_confirmed"]
  /\ envelope' = envelope \cup {x \in {s} : recip[x] # "none"}
  /\ status' = [status EXCEPT ![s] = IF @ = "pending" THEN "armed" ELSE @]
  /\ pledged' = [pledged EXCEPT ![s] = IF status[s] = "pending" THEN expiry[s] ELSE @]
  /\ UNCHANGED <<account, expiry, store, timer, log, outbox, faults>>

FinArm(r) == CallTimer(r, "finArm", "logFin", Arm(req[r].sw, req[r].dl))
FinLog(r) == AppendLog(r, "logFin", "switch_armed", "done")

Finalize(r) ==
  \/ \E s \in Switch : EnrollRead(r, s) \/ FinRead(r, s)
  \/ EnrollCommit(r) \/ EnrollLog(r)
  \/ FinRecipient(r) \/ FinCommit(r) \/ FinArm(r) \/ FinLog(r)

-----------------------------------------------------------------------------
(* POST /api/account/delete.  The session outlives the users row, so that a  *)
(* second call finds no rows and still goes through.                         *)

CloseRead(r) ==
  /\ req[r].at = "ready"
  /\ req' = [req EXCEPT ![r] = [Call("close") EXCEPT !.rows = {s \in Switch : status[s] # "none"}]]
  /\ UNCHANGED <<d1, store, timer, log, outbox, pledged, faults>>

CloseCancel(r, s) ==
  /\ req[r].at = "close" /\ s \in req[r].rows
  /\ Cancel(s) \/ LostCall
  /\ req' = [req EXCEPT ![r] = [@ EXCEPT !.at = "closeBlob", !.sw = s]]
  /\ UNCHANGED <<d1, store, log, outbox, pledged>>

CloseBlob(r) ==
  \/ DeleteBlob(r, "closeBlob", "closeLog")
  \/ /\ Step(r, "closeBlob", "closeLog") /\ Fault
     /\ UNCHANGED <<d1, store, timer, log, outbox, pledged>>

CloseLog(r) ==
  /\ req[r].at = "closeLog"
  /\ \/ Write(req[r].sw, "user_purge") /\ UNCHANGED faults
     \/ Fault /\ UNCHANGED log
  /\ req' = [req EXCEPT ![r] = [Call("close") EXCEPT !.rows = req[r].rows \ {req[r].sw}]]
  /\ UNCHANGED <<d1, store, timer, outbox, pledged>>

\* DELETE FROM users cascades to every switches and recipients row.
CloseDrop(r) ==
  /\ req[r].rows = {} /\ Step(r, "close", "logClosed")
  /\ account' = FALSE
  /\ status' = [s \in Switch |-> "none"] /\ recip' = [s \in Switch |-> "none"]
  /\ expiry' = [s \in Switch |-> 0] /\ envelope' = {}
  /\ UNCHANGED <<store, timer, log, outbox, pledged, faults>>

CloseDone(r) == AppendLog(r, "logClosed", "account_deleted", "done")

Close(r) ==
  \/ CloseRead(r) \/ \E s \in Switch : CloseCancel(r, s)
  \/ CloseBlob(r) \/ CloseLog(r) \/ CloseDrop(r) \/ CloseDone(r)

FailReq(r) ==
  /\ req[r].at \notin {"ready", "done"} /\ Fault /\ Goto(r, "done")
  /\ UNCHANGED <<d1, store, timer, log, outbox, pledged>>

Handle(r) ==
  /\ Checkin(r) \/ Delete(r) \/ Finalize(r) \/ Close(r) \/ FailReq(r)
  /\ UNCHANGED <<now, gaveUp, make, runs>>

-----------------------------------------------------------------------------
(* SwitchTimer.release(), run by the object's own alarm or by a cron pass.   *)

RunTo(e, pc) == run' = [run EXCEPT ![e] = IF pc = "idle" THEN IdleRun ELSE [@ EXCEPT !.at = pc]]
RunStart(e, s) == run[e].at = "idle" /\ run' = [run EXCEPT ![e] = [IdleRun EXCEPT !.at = "select", !.sw = s]]
RunStepTo(e, from, to) == run[e].at = from /\ RunTo(e, to)

\* alarm(): without a stored switchId it does nothing.
AlarmFire(s) ==
  /\ alarm[s] # None /\ alarm[s] <= now /\ run[s].at = "idle"
  /\ alarm' = [alarm EXCEPT ![s] = None]
  /\ IF s \in bound THEN RunStart(s, s) ELSE UNCHANGED run
  /\ UNCHANGED <<d1, store, bound, log, outbox, gaveUp, faults, todo>>

\* With a bug: rows that are not armed any more are selected too.
OverdueAnyStatus == {s \in Switch : status[s] # "none" /\ expiry[s] <= now}

Overdue == {s \in Switch : status[s] = "armed" /\ expiry[s] <= now}

\* SELECT ... LIMIT, without an ORDER BY: any SweepLimit of the overdue rows.
SweepQuery(w) ==
  /\ todo[w] = {} /\ run[w].at = "idle" /\ Overdue # {}
  /\ \E rows \in SUBSET Overdue :
       /\ Cardinality(rows) <= SweepLimit
       /\ rows = Overdue \/ Cardinality(rows) = SweepLimit
       /\ todo' = [todo EXCEPT ![w] = rows]
  /\ UNCHANGED <<d1, store, timer, log, outbox, gaveUp, faults, run>>

\* With a bug: /release needs the stored switchId, as alarm() does.
SweepCallStored(w, s) ==
  /\ s \in todo[w] /\ todo' = [todo EXCEPT ![w] = @ \ {s}]
  /\ IF s \in bound THEN RunStart(w, s) ELSE UNCHANGED run
  /\ UNCHANGED <<d1, store, timer, log, outbox, gaveUp, faults>>

SweepCall(w, s) ==
  /\ s \in todo[w] /\ todo' = [todo EXCEPT ![w] = @ \ {s}]
  /\ RunStart(w, s)
  /\ UNCHANGED <<d1, store, timer, log, outbox, gaveUp, faults>>

FailSweep(w) ==
  /\ todo[w] # {} /\ Fault /\ todo' = [todo EXCEPT ![w] = {}]
  /\ UNCHANGED <<d1, store, timer, log, outbox, gaveUp, run>>

ReleaseSelect(e) ==
  LET s == run[e].sw IN
  /\ run[e].at = "select"
  /\ IF status[s] = "armed"
     THEN run' = [run EXCEPT ![e] = [@ EXCEPT !.at = "check", !.exp = expiry[s],
                                              !.whole = s \in envelope]]
     ELSE RunTo(e, "idle")
  /\ UNCHANGED <<d1, store, timer, log, outbox, gaveUp, faults, todo>>

\* With a bug: a stale alarm is not turned away.
ReleaseCheckNot(e) ==
  /\ RunStepTo(e, "check", IF run[e].whole THEN "update" ELSE "idle")
  /\ UNCHANGED <<d1, store, timer, log, outbox, gaveUp, faults, todo>>

\* With a bug: a stale alarm is turned away and not set again.
ReleaseCheckForgets(e) ==
  /\ RunStepTo(e, "check", IF run[e].exp <= now /\ run[e].whole THEN "update" ELSE "idle")
  /\ UNCHANGED <<d1, store, timer, log, outbox, gaveUp, faults, todo>>

ReleaseCheck(e) ==
  /\ RunStepTo(e, "check", IF run[e].exp <= now /\ run[e].whole THEN "update" ELSE "idle")
  /\ alarm' = [alarm EXCEPT ![run[e].sw] = IF run[e].exp > now THEN run[e].exp ELSE @]
  /\ UNCHANGED <<d1, store, bound, log, outbox, gaveUp, faults, todo>>

\* With a bug: the UPDATE has no status in its WHERE clause.
ReleaseUpdateAnyStatus(e) ==
  /\ RunStepTo(e, "update", "token")
  /\ status' = [status EXCEPT ![run[e].sw] = "released"]
  /\ UNCHANGED <<account, expiry, recip, envelope, store, timer, log, outbox, gaveUp, faults, todo>>

ReleaseUpdate(e) ==
  LET s == run[e].sw IN
  /\ RunStepTo(e, "update", IF status[s] = "armed" THEN "token" ELSE "idle")
  /\ status' = [status EXCEPT ![s] = IF @ = "armed" THEN "released" ELSE @]
  /\ UNCHANGED <<account, expiry, recip, envelope, store, timer, log, outbox, gaveUp, faults, todo>>

ReleaseToken(e) ==
  /\ RunStepTo(e, "token", "mail") /\ token' = token \cup {run[e].sw}
  /\ UNCHANGED <<d1, payload, timer, log, outbox, gaveUp, faults, todo>>

\* A failed email is caught.
ReleaseMail(e) ==
  /\ RunStepTo(e, "mail", "log")
  /\ \/ mailed' = [mailed EXCEPT ![run[e].sw] = @ + 1] /\ UNCHANGED faults
     \/ Fault /\ UNCHANGED mailed
  /\ UNCHANGED <<d1, store, timer, log, warned, invited, gaveUp, todo>>

\* With a bug: the append is not awaited, and may never happen.
ReleaseLogUnawaited(e) ==
  /\ RunStepTo(e, "log", "disarm") /\ (Write(run[e].sw, "release") \/ UNCHANGED log)
  /\ UNCHANGED <<d1, store, timer, outbox, gaveUp, faults, todo>>

ReleaseLog(e) ==
  /\ RunStepTo(e, "log", "disarm") /\ Write(run[e].sw, "release")
  /\ UNCHANGED <<d1, store, timer, outbox, gaveUp, faults, todo>>

ReleaseDisarm(e) ==
  /\ RunStepTo(e, "disarm", "idle") /\ alarm' = [alarm EXCEPT ![run[e].sw] = None]
  /\ UNCHANGED <<d1, store, bound, log, outbox, gaveUp, faults, todo>>

\* A run that throws ends.  The runtime calls a failed alarm() again, or gives
\* up on it; the cron drops the error and goes on with its next row.
FailRun(e) ==
  /\ run[e].at # "idle" /\ Fault /\ RunTo(e, "idle")
  /\ \/ e \in Sweeper /\ UNCHANGED <<alarm, gaveUp>>
     \/ /\ e \in Switch /\ UNCHANGED gaveUp
        /\ alarm' = [alarm EXCEPT ![e] = IF @ = None THEN now ELSE @]
     \/ e \in Switch /\ gaveUp' = gaveUp \cup {e} /\ UNCHANGED alarm
  /\ UNCHANGED <<d1, store, bound, log, outbox, todo>>

Release(e) ==
  /\ \/ ReleaseSelect(e) \/ ReleaseCheck(e) \/ ReleaseUpdate(e) \/ ReleaseToken(e)
     \/ ReleaseMail(e) \/ ReleaseLog(e) \/ ReleaseDisarm(e)
  /\ UNCHANGED <<now, pledged, handlers>>

Sweep(w) == /\ SweepQuery(w) \/ \E s \in Switch : SweepCall(w, s)
            /\ UNCHANGED <<now, pledged, handlers>>

Execute == /\ \/ \E s \in Switch : AlarmFire(s)
              \/ \E w \in Sweeper : FailSweep(w)
              \/ \E e \in Executor : FailRun(e)
           /\ UNCHANGED <<now, pledged, handlers>>

Tick == /\ now < MaxTime /\ now' = now + 1
        /\ UNCHANGED <<d1, store, timer, log, outbox, history, faults, handlers, runs>>

-----------------------------------------------------------------------------
Next ==
  \/ Tick \/ Execute
  \/ \E s \in Switch : Create(s)
  \/ \E r \in Request : Handle(r)
  \/ \E w \in Sweeper : Sweep(w)
  \/ \E e \in Executor : Release(e)

Spec == Init /\ [][Next]_vars

\* Time passes, the cron trigger comes round again, and a release() run that
\* was started goes on until it ends.  Nothing is assumed of the alarms, of
\* the owner, or of any request.
Fairness ==
  /\ WF_vars(Tick)
  /\ \A w \in Sweeper : WF_vars(Sweep(w))
  /\ \A e \in Executor : WF_vars(Release(e))

FairSpec == Spec /\ Fairness
=============================================================================
