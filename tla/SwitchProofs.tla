---------------------------- MODULE SwitchProofs ----------------------------
(***************************************************************************)
(* Theorems about the Switch API, SwitchTimer and the cron sweeper, for    *)
(* any number of switches, requests and cron passes.                       *)
(*                                                                         *)
(* Type correctness, with a lemma per handler, and the two promises about  *)
(* time and number: no release before the deadline that was promised, and  *)
(* at most one release.  Most steps are calm: they touch no row, no        *)
(* release entry and no email, and bring no run to a new decision.  The    *)
(* eleven others have a lemma each, or share one.                          *)
(*                                                                         *)
(* The refinement of DeadMansSwitch, and what has ended does not come      *)
(* back.                                                                   *)
(*                                                                         *)
(* What the stores tell of each other: a purged row has no ciphertext, an  *)
(* armed one can deliver, the public log has causes before effects, and an *)
(* armed switch's alarm is set or its run is under way.                    *)
(***************************************************************************)
EXTENDS SwitchPromises, TLAPS

-----------------------------------------------------------------------------
(* Type correctness *)

\* The steps of a request, or of a run, that is not about one switch.
NoSwitch == {"ready", "done", "close", "logClosed"}

ReqOK ==
  req \in [Request -> ReqRecord] /\ \A r \in Request : req[r].at \notin NoSwitch => req[r].sw \in Switch
RunOK ==
  run \in [Executor -> RunRecord] /\ \A e \in Executor : run[e].at # "idle" => run[e].sw \in Switch

TypeInv == TypeOK /\ ReqOK /\ RunOK

\* The initial state has the types.
LEMMA InitTypeInv == Init => TypeInv
BY AlarmAssumption DEF Init, TypeInv, TypeOK, ReqOK, RunOK, NoSwitch, Call, IdleRun, MakeRecord,
     ReqRecord, RunRecord, Status, RecipientStatus, MakeStep, ReqStep, RunStep

(* What the helpers of the actions keep of the types.                       *)

\* Appending an event keeps the type of the public log.
LEMMA WriteType ==
  ASSUME TypeOK, NEW x \in Switch \cup {Owner}, NEW event \in Event, Write(x, event)
  PROVE  log' \in [Switch \cup {Owner} -> Seq(Event)]
<1>1. log \in [Switch \cup {Owner} -> Seq(Event)]  BY DEF TypeOK
<1>2. Append(log[x], event) \in Seq(Event)  BY <1>1
<1> QED BY <1>1, <1>2 DEF Write

\* A failure, or none, keeps the count of failures a number.
LEMMA FaultType == ASSUME TypeOK, Fault \/ UNCHANGED faults PROVE faults' \in Nat
BY DEF TypeOK, Fault

\* A SwitchTimer call, or a lost one, keeps the types of the object's storage.
LEMMA TimerType ==
  ASSUME TypeOK, NEW s \in Switch, NEW d \in Nat,
         Arm(s, d) \/ Extend(s, d) \/ Cancel(s) \/ LostCall
  PROVE  bound' \subseteq Switch /\ alarm' \in [Switch -> Nat \cup {None}] /\ faults' \in Nat
<1>1. CASE Arm(s, d)  BY <1>1 DEF TypeOK, Arm
<1>2. CASE Extend(s, d)  BY <1>2 DEF TypeOK, Extend
<1>3. CASE Cancel(s)  BY <1>3 DEF TypeOK, Cancel
<1>4. CASE LostCall  BY <1>4 DEF TypeOK, LostCall, Fault, timer
<1> QED BY <1>1, <1>2, <1>3, <1>4

\* A step of a creation keeps the type of its record.
LEMMA MakingType ==
  ASSUME TypeOK, NEW s \in Switch, NEW to \in MakeStep, make' = [make EXCEPT ![s].at = to]
  PROVE  make' \in [Switch -> MakeRecord]
BY DEF TypeOK, MakeRecord

\* A request that moves to another step keeps the types of the requests.
LEMMA GotoType ==
  ASSUME TypeInv, NEW r \in Request, NEW pc \in ReqStep, Goto(r, pc),
         pc \in NoSwitch \/ req[r].sw \in Switch
  PROVE  ReqOK'
<1>1. req \in [Request -> ReqRecord]  BY DEF TypeInv, TypeOK
<1>2. Call(pc) \in ReqRecord /\ Call(pc).at = pc  BY DEF Call, ReqRecord
<1>3. [req[r] EXCEPT !.at = pc] \in ReqRecord  BY <1>1 DEF ReqRecord
<1>4. req' \in [Request -> ReqRecord]  BY <1>1, <1>2, <1>3 DEF Goto
<1>5. ASSUME NEW x \in Request, req'[x].at \notin NoSwitch PROVE req'[x].sw \in Switch
  <2>1. CASE x = r  BY <1>1, <1>2, <1>5, <2>1 DEF Goto, NoSwitch, ReqRecord
  <2>2. CASE x # r  BY <1>1, <1>5, <2>2 DEF Goto, TypeInv, ReqOK
  <2> QED BY <2>1, <2>2
<1> QED BY <1>4, <1>5 DEF ReqOK

\* The same, from a step that is about one switch, whose id and deadline it has.
LEMMA StepType ==
  ASSUME TypeInv, NEW r \in Request, NEW from \in ReqStep \ NoSwitch, NEW to \in ReqStep,
         Step(r, from, to)
  PROVE  ReqOK' /\ req[r].sw \in Switch /\ req[r].dl \in Nat
<1>1. req[r].sw \in Switch /\ req[r].dl \in Nat  BY DEF Step, TypeInv, TypeOK, ReqOK, ReqRecord
<1> QED BY <1>1, GotoType DEF Step

\* A release() run that moves to another step keeps the types of the runs.
LEMMA RunToType ==
  ASSUME TypeInv, NEW e \in Executor, NEW pc \in RunStep, RunTo(e, pc),
         pc = "idle" \/ run[e].sw \in Switch
  PROVE  RunOK'
<1>1. run \in [Executor -> RunRecord]  BY DEF TypeInv, TypeOK
<1>2. IdleRun \in RunRecord /\ IdleRun.at = "idle"  BY DEF IdleRun, RunRecord, RunStep
<1>3. [run[e] EXCEPT !.at = pc] \in RunRecord  BY <1>1 DEF RunRecord
<1>4. run' \in [Executor -> RunRecord]  BY <1>1, <1>2, <1>3 DEF RunTo
<1>5. ASSUME NEW x \in Executor, run'[x].at # "idle" PROVE run'[x].sw \in Switch
  <2>1. CASE x = e  BY <1>1, <1>2, <1>5, <2>1 DEF RunTo, RunRecord
  <2>2. CASE x # e  BY <1>1, <1>5, <2>2 DEF RunTo, TypeInv, RunOK
  <2> QED BY <2>1, <2>2
<1> QED BY <1>4, <1>5 DEF RunOK

\* The same, from a step of a run that has begun.
LEMMA RunStepType ==
  ASSUME TypeInv, NEW e \in Executor, NEW from \in RunStep \ {"idle"}, NEW to \in RunStep,
         RunStepTo(e, from, to)
  PROVE  RunOK' /\ run[e].sw \in Switch /\ run[e].exp \in Nat
<1>1. run[e].sw \in Switch /\ run[e].exp \in Nat  BY DEF RunStepTo, TypeInv, TypeOK, RunOK, RunRecord
<1> QED BY <1>1, RunToType DEF RunStepTo

(* One lemma for each handler.                                              *)

\* POST /api/switches keeps the types.
LEMMA CreateType == ASSUME TypeInv, NEW s \in Switch, Create(s) PROVE TypeInv'
<1> SUFFICES TypeOK'
  <2>1. ReqOK' /\ RunOK'  BY DEF TypeInv, ReqOK, RunOK, Create, runs
  <2> QED BY <2>1 DEF TypeInv
<1> USE DEF TypeInv, MakeStep
<1>1. CASE \E direct \in BOOLEAN : CreateAdmit(s, direct)
  BY <1>1 DEF TypeOK, Create, CreateAdmit, MakeRecord, d1, store, timer, outbox, runs
<1>2. CASE CreateBlob(s)
  <2>1. now + Timer \in Nat  BY BoundsAssumption DEF TypeOK
  <2>2. make' \in [Switch -> MakeRecord]
    <3>1. make \in [Switch -> MakeRecord] /\ make' = [make EXCEPT ![s] = [make[s] EXCEPT !.at = "row", !.dl = now + Timer]]
      BY <1>2 DEF TypeOK, CreateBlob
    <3>2. [make[s] EXCEPT !.at = "row", !.dl = now + Timer] \in MakeRecord  BY <2>1, <3>1 DEF MakeRecord
    <3> QED BY <3>1, <3>2
  <2> QED BY <1>2, <2>2 DEF TypeOK, Create, CreateBlob, d1, store, timer, outbox, runs
<1>3. CASE CreateRow(s)
  BY <1>3 DEF TypeOK, Create, CreateRow, Making, MakeRecord, store, timer, outbox, runs, Status, RecipientStatus
<1>4. CASE CreateRefused(s) \/ FailCreate(s)
  BY <1>4, FaultType, MakingType DEF TypeOK, Create, CreateRefused, FailCreate, Making, d1, store, timer, outbox, runs
<1>5. CASE CreateLogCreated(s)
  <2>1. log' \in [Switch \cup {Owner} -> Seq(Event)]  BY <1>5, WriteType DEF CreateLogCreated, Event
  <2> QED BY <1>5, <2>1, MakingType DEF TypeOK, Create, CreateLogCreated, Making, d1, store, timer, outbox, runs
<1>6. CASE CreateLogArmed(s)
  <2>1. log' \in [Switch \cup {Owner} -> Seq(Event)]  BY <1>6, WriteType DEF CreateLogArmed, Event
  <2> QED BY <1>6, <2>1, MakingType DEF TypeOK, Create, CreateLogArmed, Making, d1, store, timer, outbox, runs
<1>7. CASE CreateArm(s)
  <2>1. make[s].dl \in Nat  BY DEF TypeOK, MakeRecord
  <2>2. bound' \subseteq Switch /\ alarm' \in [Switch -> Nat \cup {None}] /\ faults' \in Nat
    BY <1>7, <2>1, TimerType DEF CreateArm
  <2>3. make' \in [Switch -> MakeRecord]  BY <1>7, MakingType DEF CreateArm, Making
  <2> QED BY <1>7, <2>2, <2>3 DEF TypeOK, Create, CreateArm, d1, store, outbox, runs
<1>8. CASE CreateInvite(s)
  BY <1>8, MakingType DEF TypeOK, Create, CreateInvite, Making, d1, store, timer, runs
<1>9. QED BY <1>1, <1>2, <1>3, <1>4, <1>5, <1>6, <1>7, <1>8 DEF Create

\* The first step of a handler for one switch keeps the types.
LEMMA BeginType ==
  ASSUME TypeInv, NEW r \in Request, NEW pc \in ReqStep, NEW s \in Switch, NEW d \in Nat,
         Begin(r, pc, s, d), UNCHANGED <<now, gaveUp, make, runs>>
  PROVE  TypeInv'
<1>1. [Call(pc) EXCEPT !.sw = s, !.dl = d] \in ReqRecord  BY DEF Call, ReqRecord
<1>2. req' \in [Request -> ReqRecord]  BY <1>1 DEF Begin, TypeInv, TypeOK
<1>3. ReqOK'  BY <1>2 DEF Begin, Call, TypeInv, TypeOK, ReqOK
<1> QED BY <1>2, <1>3 DEF Begin, TypeInv, TypeOK, RunOK, d1, store, timer, outbox, runs

\* A handler's SwitchTimer call keeps the types.
LEMMA CallTimerType ==
  ASSUME TypeInv, NEW r \in Request, NEW from \in ReqStep \ NoSwitch, NEW to \in ReqStep,
         \/ CallTimer(r, from, to, Arm(req[r].sw, req[r].dl))
         \/ CallTimer(r, from, to, Extend(req[r].sw, req[r].dl))
         \/ CallTimer(r, from, to, Cancel(req[r].sw)),
         UNCHANGED <<now, gaveUp, make, runs>>
  PROVE  TypeInv'
<1>1. Step(r, from, to)  BY DEF CallTimer
<1>2. ReqOK' /\ req[r].sw \in Switch /\ req[r].dl \in Nat  BY <1>1, StepType
<1>3. bound' \subseteq Switch /\ alarm' \in [Switch -> Nat \cup {None}] /\ faults' \in Nat
  BY <1>2, TimerType DEF CallTimer, TypeInv
<1> QED BY <1>2, <1>3 DEF CallTimer, TypeInv, TypeOK, ReqOK, RunOK, d1, store, outbox, runs

\* A handler's R2 delete keeps the types.
LEMMA DeleteBlobType ==
  ASSUME TypeInv, NEW r \in Request, NEW from \in ReqStep \ NoSwitch, NEW to \in ReqStep,
         DeleteBlob(r, from, to), UNCHANGED <<now, gaveUp, make, runs>>
  PROVE  TypeInv'
<1>1. ReqOK'  BY StepType DEF DeleteBlob
<1> QED BY <1>1 DEF DeleteBlob, TypeInv, TypeOK, ReqOK, RunOK, d1, timer, outbox, runs

\* A handler's append to the log keeps the types.
LEMMA AppendLogType ==
  ASSUME TypeInv, NEW r \in Request, NEW from \in ReqStep \ {"ready", "done", "close"},
         NEW to \in ReqStep \ (NoSwitch \ {"done"}), NEW event \in Event,
         from = "logClosed" => to = "done",
         AppendLog(r, from, event, to), UNCHANGED <<now, gaveUp, make, runs>>
  PROVE  TypeInv'
<1>1. req[r].sw \in Switch \cup {Owner} /\ (to # "done" => req[r].sw \in Switch)
  BY DEF AppendLog, Step, TypeInv, TypeOK, ReqOK, ReqRecord, NoSwitch
<1>2. ReqOK'  BY <1>1, GotoType DEF AppendLog, Step, NoSwitch
<1>3. log' \in [Switch \cup {Owner} -> Seq(Event)]  BY <1>1, WriteType DEF AppendLog, TypeInv
<1> QED BY <1>2, <1>3 DEF AppendLog, TypeInv, TypeOK, ReqOK, RunOK, d1, store, timer, outbox, runs

\* POST /api/switches/:id/checkin keeps the types.
LEMMA CheckinType ==
  ASSUME TypeInv, NEW r \in Request, Checkin(r), UNCHANGED <<now, gaveUp, make, runs>>
  PROVE  TypeInv'
<1> USE DEF ReqStep, NoSwitch, Event
<1>1. CASE \E s \in Switch : CheckinRead(r, s)  BY <1>1, BeginType DEF CheckinRead
<1>2. CASE VerifyDefuse(r)
  <2>1. now + Timer \in Nat  BY BoundsAssumption DEF TypeInv, TypeOK
  <2>2. req[r] \in ReqRecord  BY DEF TypeInv, TypeOK
  <2>3. [req[r] EXCEPT !.at = "defuse", !.dl = now + Timer] \in ReqRecord  BY <2>1, <2>2 DEF ReqRecord
  <2>4. req' \in [Request -> ReqRecord]  BY <1>2, <2>3 DEF VerifyDefuse, TypeInv, TypeOK
  <2>5. ReqOK'  BY <1>2, <2>4 DEF VerifyDefuse, TypeInv, TypeOK, ReqOK, ReqRecord
  <2> QED BY <1>2, <2>4, <2>5 DEF VerifyDefuse, TypeInv, TypeOK, RunOK, d1, store, timer, outbox, runs
<1>3. CASE VerifyDuress(r)
  <2>1. ReqOK'  BY <1>3, StepType DEF VerifyDuress
  <2> QED BY <1>3, <2>1 DEF VerifyDuress, TypeInv, TypeOK, ReqOK, RunOK, d1, store, timer, outbox, runs
<1>4. CASE DefuseCommit(r)
  <2>1. Step(r, "defuse", "done") \/ Step(r, "defuse", "extend")  BY <1>4 DEF DefuseCommit
  <2>2. ReqOK' /\ req[r].sw \in Switch /\ req[r].dl \in Nat  BY <2>1, StepType
  <2>3. expiry' \in [Switch -> Nat] /\ pledged' \in [Switch -> Nat]
    BY <1>4, <2>2 DEF DefuseCommit, TypeInv, TypeOK
  <2> QED BY <1>4, <2>2, <2>3 DEF DefuseCommit, TypeInv, TypeOK, ReqOK, RunOK, store, timer, outbox, runs
<1>5. CASE DefuseExtend(r)  BY <1>5, CallTimerType DEF DefuseExtend
<1>6. CASE DefuseLog(r)  BY <1>6, AppendLogType DEF DefuseLog
<1>7. CASE DuressBlob(r)  BY <1>7, DeleteBlobType DEF DuressBlob
<1>8. CASE DuressRow(r)
  <2>1. Step(r, "duressRow", "done") \/ Step(r, "duressRow", "duressCancel")  BY <1>8 DEF DuressRow
  <2>2. ReqOK'  BY <2>1, StepType
  <2>3. status' \in [Switch -> Status]  BY <1>8 DEF DuressRow, TypeInv, TypeOK, Status
  <2> QED BY <1>8, <2>2, <2>3 DEF DuressRow, TypeInv, TypeOK, ReqOK, RunOK, store, timer, outbox, runs
<1>9. CASE DuressCancel(r)  BY <1>9, CallTimerType DEF DuressCancel
<1>10. CASE DuressLog(r)  BY <1>10, AppendLogType DEF DuressLog
<1>11. CASE DuressNotify(r)
  <2>1. ReqOK' /\ req[r].sw \in Switch  BY <1>11, StepType DEF DuressNotify
  <2> QED BY <1>11, <2>1 DEF DuressNotify, TypeInv, TypeOK, ReqOK, RunOK, d1, store, timer, runs
<1> QED BY <1>1, <1>2, <1>3, <1>4, <1>5, <1>6, <1>7, <1>8, <1>9, <1>10, <1>11 DEF Checkin

\* DELETE /api/switches/:id keeps the types.
LEMMA DeleteType ==
  ASSUME TypeInv, NEW r \in Request, Delete(r), UNCHANGED <<now, gaveUp, make, runs>>
  PROVE  TypeInv'
<1> USE DEF ReqStep, NoSwitch, Event
<1>1. CASE \E s \in Switch : DeleteRead(r, s)  BY <1>1, BeginType DEF DeleteRead
<1>2. CASE PurgeBlob(r)  BY <1>2, DeleteBlobType DEF PurgeBlob
<1>3. CASE PurgeRow(r)
  <2>1. ReqOK'  BY <1>3, StepType DEF PurgeRow
  <2>2. status' \in [Switch -> Status]  BY <1>3 DEF PurgeRow, TypeInv, TypeOK, Status
  <2> QED BY <1>3, <2>1, <2>2 DEF PurgeRow, TypeInv, TypeOK, ReqOK, RunOK, store, timer, outbox, runs
<1>4. CASE PurgeCancel(r)  BY <1>4, CallTimerType DEF PurgeCancel
<1>5. CASE PurgeLog(r)  BY <1>5, AppendLogType DEF PurgeLog
<1> QED BY <1>1, <1>2, <1>3, <1>4, <1>5 DEF Delete

\* Enrollment and finalize keep the types.
LEMMA FinalizeType ==
  ASSUME TypeInv, NEW r \in Request, Finalize(r), UNCHANGED <<now, gaveUp, make, runs>>
  PROVE  TypeInv'
<1> USE DEF ReqStep, NoSwitch, Event
<1>1. CASE \E s \in Switch : EnrollRead(r, s)  BY <1>1, BeginType DEF EnrollRead
<1>2. CASE \E s \in Switch : FinRead(r, s)
  <2>1. expiry \in [Switch -> Nat]  BY DEF TypeInv, TypeOK
  <2> QED BY <1>2, <2>1, BeginType DEF FinRead
<1>3. CASE EnrollCommit(r)
  <2>1. ReqOK'  BY <1>3, StepType DEF EnrollCommit
  <2>2. recip' \in [Switch -> RecipientStatus]
    BY <1>3 DEF EnrollCommit, TypeInv, TypeOK, RecipientStatus
  <2> QED BY <1>3, <2>1, <2>2 DEF EnrollCommit, TypeInv, TypeOK, ReqOK, RunOK, store, timer, outbox, runs
<1>4. CASE EnrollLog(r)  BY <1>4, AppendLogType DEF EnrollLog
<1>5. CASE FinRecipient(r)
  <2>1. Step(r, "finRecipient", "finCommit") \/ Step(r, "finRecipient", "done")  BY <1>5 DEF FinRecipient
  <2>2. ReqOK'  BY <2>1, StepType
  <2> QED BY <1>5, <2>2 DEF FinRecipient, TypeInv, TypeOK, ReqOK, RunOK, d1, store, timer, outbox, runs
<1>6. CASE FinCommit(r)
  <2>1. ReqOK' /\ req[r].sw \in Switch  BY <1>6, StepType DEF FinCommit
  <2>2. recip' \in [Switch -> RecipientStatus] /\ envelope' \subseteq Switch
    BY <1>6, <2>1 DEF FinCommit, TypeInv, TypeOK, RecipientStatus
  <2>3. status' \in [Switch -> Status] /\ pledged' \in [Switch -> Nat]
    BY <1>6, <2>1 DEF FinCommit, TypeInv, TypeOK, Status
  <2> QED BY <1>6, <2>1, <2>2, <2>3 DEF FinCommit, TypeInv, TypeOK, ReqOK, RunOK, store, timer, outbox, runs
<1>7. CASE FinArm(r)  BY <1>7, CallTimerType DEF FinArm
<1>8. CASE FinLog(r)  BY <1>8, AppendLogType DEF FinLog
<1> QED BY <1>1, <1>2, <1>3, <1>4, <1>5, <1>6, <1>7, <1>8 DEF Finalize

\* POST /api/account/delete, and a handler that fails, keep the types.
LEMMA CloseType ==
  ASSUME TypeInv, NEW r \in Request, Close(r) \/ FailReq(r), UNCHANGED <<now, gaveUp, make, runs>>
  PROVE  TypeInv'
<1> USE DEF ReqStep, NoSwitch, Event
<1>0. req \in [Request -> ReqRecord]  BY DEF TypeInv, TypeOK
<1>1. CASE CloseRead(r)
  <2>1. [Call("close") EXCEPT !.rows = {s \in Switch : status[s] # "none"}] \in ReqRecord
    BY DEF Call, ReqRecord
  <2>2. req' \in [Request -> ReqRecord]  BY <1>0, <1>1, <2>1 DEF CloseRead
  <2>3. ReqOK'  BY <1>0, <1>1, <2>2 DEF CloseRead, Call, TypeInv, ReqOK
  <2> QED BY <1>1, <2>2, <2>3 DEF CloseRead, TypeInv, TypeOK, RunOK, d1, store, timer, outbox, runs
<1>2. CASE \E s \in Switch : CloseCancel(r, s)
  <2>1. PICK s \in Switch : CloseCancel(r, s)  BY <1>2
  <2>2. bound' \subseteq Switch /\ alarm' \in [Switch -> Nat \cup {None}] /\ faults' \in Nat
    BY <2>1, TimerType DEF CloseCancel, TypeInv
  <2>3. [req[r] EXCEPT !.at = "closeBlob", !.sw = s] \in ReqRecord
    <3>1. req[r] \in ReqRecord  BY <1>0
    <3> QED BY <3>1 DEF ReqRecord
  <2>4. req' \in [Request -> ReqRecord]  BY <1>0, <2>1, <2>3 DEF CloseCancel
  <2>5. ReqOK'  BY <1>0, <2>1, <2>4 DEF CloseCancel, TypeInv, ReqOK, ReqRecord
  <2> QED BY <2>1, <2>2, <2>4, <2>5 DEF CloseCancel, TypeInv, TypeOK, RunOK, d1, store, outbox, runs
<1>3. CASE CloseBlob(r)
  <2>1. CASE DeleteBlob(r, "closeBlob", "closeLog")  BY <2>1, DeleteBlobType
  <2>2. CASE ~DeleteBlob(r, "closeBlob", "closeLog")
    <3>1. ReqOK'  BY <1>3, <2>2, StepType DEF CloseBlob
    <3> QED BY <1>3, <2>2, <3>1 DEF CloseBlob, Fault, TypeInv, TypeOK, ReqOK, RunOK, d1, store,
               timer, outbox, runs
  <2> QED BY <2>1, <2>2
<1>4. CASE CloseLog(r)
  <2>1. req[r].sw \in Switch /\ req[r].rows \subseteq Switch
    BY <1>4 DEF CloseLog, TypeInv, TypeOK, ReqOK, ReqRecord
  <2>2. log' \in [Switch \cup {Owner} -> Seq(Event)]
    <3>1. CASE Write(req[r].sw, "user_purge")  BY <2>1, <3>1, WriteType DEF TypeInv
    <3>2. CASE UNCHANGED log  BY <3>2 DEF TypeInv, TypeOK
    <3> QED BY <1>4, <3>1, <3>2 DEF CloseLog
  <2>3. [Call("close") EXCEPT !.rows = req[r].rows \ {req[r].sw}] \in ReqRecord
    BY <2>1 DEF Call, ReqRecord
  <2>4. req' \in [Request -> ReqRecord]  BY <1>0, <1>4, <2>3 DEF CloseLog
  <2>5. ReqOK'  BY <1>0, <1>4, <2>4 DEF CloseLog, Call, TypeInv, ReqOK
  <2>6. faults' \in Nat  BY <1>4 DEF CloseLog, Fault, TypeInv, TypeOK
  <2> QED BY <1>4, <2>2, <2>4, <2>5, <2>6 DEF CloseLog, TypeInv, TypeOK, RunOK, d1, store, timer, outbox, runs
<1>5. CASE CloseDrop(r)
  <2>1. ReqOK'  BY <1>5, GotoType DEF CloseDrop, Step
  <2> QED BY <1>5, <2>1 DEF CloseDrop, TypeInv, TypeOK, ReqOK, RunOK, Status, RecipientStatus,
             store, timer, outbox, runs
<1>6. CASE CloseDone(r)  BY <1>6, AppendLogType DEF CloseDone
<1>7. CASE FailReq(r)
  <2>1. ReqOK'  BY <1>7, GotoType DEF FailReq
  <2> QED BY <1>7, <2>1 DEF FailReq, Fault, TypeInv, TypeOK, ReqOK, RunOK, d1, store, timer, outbox, runs
<1> QED BY <1>1, <1>2, <1>3, <1>4, <1>5, <1>6, <1>7 DEF Close

\* Every request handler keeps the types.
LEMMA HandleType == ASSUME TypeInv, NEW r \in Request, Handle(r) PROVE TypeInv'
BY CheckinType, DeleteType, FinalizeType, CloseType DEF Handle

\* release() keeps the types.
LEMMA ReleaseType == ASSUME TypeInv, NEW e \in Executor, Release(e) PROVE TypeInv'
<1> USE DEF RunStep
<1>0. run \in [Executor -> RunRecord] /\ run[e] \in RunRecord  BY DEF TypeInv, TypeOK
<1>1. CASE ReleaseSelect(e)
  <2>1. run[e].sw \in Switch  BY <1>1 DEF ReleaseSelect, TypeInv, RunOK
  <2>2. CASE status[run[e].sw] # "armed"
    <3>1. RunOK'  BY <1>1, <2>2, RunToType DEF ReleaseSelect
    <3> QED BY <1>1, <3>1 DEF Release, ReleaseSelect, TypeInv, TypeOK, ReqOK, RunOK, d1, store, timer,
               outbox, handlers
  <2>3. CASE status[run[e].sw] = "armed"
    <3> DEFINE s == run[e].sw
               q == [run[e] EXCEPT !.at = "check", !.exp = expiry[s], !.whole = s \in envelope]
    <3>1. expiry[s] \in Nat /\ (s \in envelope) \in BOOLEAN  BY <2>1 DEF TypeInv, TypeOK
    <3>2. q \in RunRecord /\ q.sw = s  BY <1>0, <3>1 DEF RunRecord
    <3> HIDE DEF q
    <3>3. run' = [run EXCEPT ![e] = q]  BY <1>1, <2>3 DEF ReleaseSelect, q
    <3>4. run' \in [Executor -> RunRecord]  BY <1>0, <3>2, <3>3
    <3>5. RunOK'  BY <1>0, <2>1, <3>2, <3>3, <3>4 DEF TypeInv, RunOK
    <3> QED BY <1>1, <3>4, <3>5 DEF Release, ReleaseSelect, TypeInv, TypeOK, ReqOK, d1, store, timer,
               outbox, handlers
  <2> QED BY <2>2, <2>3
<1>2. CASE ReleaseCheck(e)
  <2>1. RunStepTo(e, "check", "update") \/ RunStepTo(e, "check", "idle")  BY <1>2 DEF ReleaseCheck
  <2>2. RunOK' /\ run[e].sw \in Switch /\ run[e].exp \in Nat  BY <2>1, RunStepType
  <2>3. alarm' \in [Switch -> Nat \cup {None}]  BY <1>2, <2>2 DEF ReleaseCheck, TypeInv, TypeOK
  <2> QED BY <1>2, <2>2, <2>3 DEF Release, ReleaseCheck, TypeInv, TypeOK, ReqOK, RunOK, d1, store,
             outbox, handlers
<1>3. CASE ReleaseUpdate(e)
  <2>1. RunStepTo(e, "update", "token") \/ RunStepTo(e, "update", "idle")  BY <1>3 DEF ReleaseUpdate
  <2>2. RunOK'  BY <2>1, RunStepType
  <2>3. status' \in [Switch -> Status]  BY <1>3 DEF ReleaseUpdate, TypeInv, TypeOK, Status
  <2> QED BY <1>3, <2>2, <2>3 DEF Release, ReleaseUpdate, TypeInv, TypeOK, ReqOK, RunOK, store, timer,
             outbox, handlers
<1>4. CASE ReleaseToken(e)
  <2>1. RunOK' /\ run[e].sw \in Switch  BY <1>4, RunStepType DEF ReleaseToken
  <2> QED BY <1>4, <2>1 DEF Release, ReleaseToken, TypeInv, TypeOK, ReqOK, RunOK, d1, timer, outbox, handlers
<1>5. CASE ReleaseMail(e)
  <2>1. RunOK' /\ run[e].sw \in Switch  BY <1>5, RunStepType DEF ReleaseMail
  <2>2. mailed' \in [Switch -> Nat] /\ faults' \in Nat
    BY SMTT(20), <1>5, <2>1 DEF ReleaseMail, Fault, TypeInv, TypeOK
  <2> QED BY <1>5, <2>1, <2>2 DEF Release, ReleaseMail, TypeInv, TypeOK, ReqOK, RunOK, d1, store, timer, handlers
<1>6. CASE ReleaseLog(e)
  <2>1. RunOK' /\ run[e].sw \in Switch  BY <1>6, RunStepType DEF ReleaseLog
  <2>2. log' \in [Switch \cup {Owner} -> Seq(Event)]
    BY <1>6, <2>1, WriteType DEF ReleaseLog, Event, TypeInv
  <2> QED BY <1>6, <2>1, <2>2 DEF Release, ReleaseLog, TypeInv, TypeOK, ReqOK, RunOK, d1, store, timer,
             outbox, handlers
<1>7. CASE ReleaseDisarm(e)
  <2>1. RunOK'  BY <1>7, RunStepType DEF ReleaseDisarm
  <2> QED BY <1>7, <2>1 DEF Release, ReleaseDisarm, TypeInv, TypeOK, ReqOK, RunOK, d1, store, outbox, handlers
<1> QED BY <1>1, <1>2, <1>3, <1>4, <1>5, <1>6, <1>7 DEF Release

\* The start of a release() run keeps the types of the runs.
LEMMA RunStartType ==
  ASSUME TypeInv, NEW e \in Executor, NEW s \in Switch, RunStart(e, s) PROVE RunOK'
<1>1. [IdleRun EXCEPT !.at = "select", !.sw = s] \in RunRecord  BY DEF IdleRun, RunRecord, RunStep
<1> QED BY <1>1 DEF RunStart, TypeInv, TypeOK, RunOK, IdleRun

\* The cron's pass keeps the types.
LEMMA SweepType == ASSUME TypeInv, NEW w \in Sweeper, Sweep(w) PROVE TypeInv'
<1>1. CASE SweepQuery(w)
  <2>1. todo' \in [Sweeper -> SUBSET Switch]  BY <1>1 DEF SweepQuery, Overdue, TypeInv, TypeOK
  <2> QED BY <1>1, <2>1 DEF Sweep, SweepQuery, TypeInv, TypeOK, ReqOK, RunOK, d1, store, timer, outbox, handlers
<1>2. CASE \E s \in Switch : SweepCall(w, s)
  <2>1. PICK s \in Switch : SweepCall(w, s)  BY <1>2
  <2>2. RunOK'  BY <2>1, RunStartType DEF SweepCall, Executor
  <2> QED BY <2>1, <2>2 DEF Sweep, SweepCall, TypeInv, TypeOK, ReqOK, RunOK, d1, store, timer, outbox, handlers
<1> QED BY <1>1, <1>2 DEF Sweep

\* Alarms, and runs that fail, keep the types.
LEMMA ExecuteType == ASSUME TypeInv, Execute PROVE TypeInv'
<1>1. ASSUME NEW s \in Switch, AlarmFire(s) PROVE TypeInv'
  <2>1. RunOK'
    <3>1. CASE s \in bound  BY <1>1, <3>1, RunStartType DEF AlarmFire, Executor
    <3>2. CASE s \notin bound  BY <1>1, <3>2 DEF AlarmFire, TypeInv, RunOK
    <3> QED BY <3>1, <3>2
  <2> QED BY <1>1, <2>1 DEF Execute, AlarmFire, TypeInv, TypeOK, ReqOK, RunOK, d1, store, outbox, handlers
<1>2. ASSUME NEW w \in Sweeper, FailSweep(w) PROVE TypeInv'
  BY <1>2 DEF Execute, FailSweep, Fault, TypeInv, TypeOK, ReqOK, RunOK, d1, store, timer, outbox, handlers
<1>3. ASSUME NEW e \in Executor, FailRun(e) PROVE TypeInv'
  <2>1. RunOK'  BY <1>3, RunToType DEF FailRun, RunStep
  <2>2. alarm' \in [Switch -> Nat \cup {None}] /\ gaveUp' \subseteq Switch
    <3>1. alarm \in [Switch -> Nat \cup {None}] /\ now \in Nat /\ gaveUp \subseteq Switch  BY DEF TypeInv, TypeOK
    <3>2. CASE e \in Switch /\ alarm' = [alarm EXCEPT ![e] = IF @ = None THEN now ELSE @] /\ UNCHANGED gaveUp
      BY <3>1, <3>2
    <3>3. CASE e \in Switch /\ gaveUp' = gaveUp \cup {e} /\ UNCHANGED alarm  BY <3>1, <3>3
    <3>4. CASE UNCHANGED <<alarm, gaveUp>>  BY <3>1, <3>4
    <3> QED BY <1>3, <3>2, <3>3, <3>4 DEF FailRun
  <2> QED BY <1>3, <2>1, <2>2 DEF Execute, FailRun, Fault, TypeInv, TypeOK, ReqOK, RunOK, d1, store, outbox, handlers
<1> QED BY <1>1, <1>2, <1>3 DEF Execute

\* Every step keeps the types.
LEMMA NextType == ASSUME TypeInv, [Next]_vars PROVE TypeInv'
<1>1. CASE Tick
  BY <1>1 DEF Tick, TypeInv, TypeOK, ReqOK, RunOK, d1, store, timer, outbox, history, handlers, runs
<1>2. CASE UNCHANGED vars
  BY <1>2 DEF vars, TypeInv, TypeOK, ReqOK, RunOK, d1, store, timer, outbox, history, handlers, runs
<1> QED BY <1>1, <1>2, CreateType, HandleType, ReleaseType, SweepType, ExecuteType DEF Next

\* The types, with what is at work on a switch, hold in every reachable state.
THEOREM TypeInvariance == Spec => []TypeInv
BY InitTypeInv, NextType, PTL DEF Spec

\* Type correctness: every variable keeps its type in every reachable state, a
\* POST, DELETE or finalize at work names a switch of the account, and so does
\* a run of release().
THEOREM TypeCorrect == Spec => [](TypeOK /\ ReqOK /\ RunOK)
<1>1. TypeInv => TypeOK /\ ReqOK /\ RunOK  BY DEF TypeInv
<1> QED BY <1>1, TypeInvariance, PTL

-----------------------------------------------------------------------------
(* The inductive invariant *)

\* The POST that creates s has not inserted its row yet.
Unborn(s)    == make[s].at \in {"idle", "blob", "row"}
\* s may still be released.
Alive(s)     == Unborn(s) \/ status[s] \in {"pending", "armed"}
\* e has read an armed row, and has not yet claimed the release.
Deciding(e)  == run[e].at \in {"check", "update"}
\* e has claimed the release of its switch, and has yet to write its entry.
Releasing(e) == run[e].at \in {"token", "mail", "log"}

\* No row before the INSERT.
RowsInv == \A s \in Switch : Unborn(s) => status[s] = "none"

\* What runs know of deadlines: an armed row's is at least the promised one, and so is the
\* one a run has read; a run at the UPDATE has found it past.
DeadlineInv ==
  /\ \A s \in Switch : status[s] = "armed" => pledged[s] <= expiry[s]
  /\ \A e \in Executor : Deciding(e) =>
       /\ ~Unborn(run[e].sw) /\ status[run[e].sw] # "pending" /\ pledged[run[e].sw] <= run[e].exp
  /\ \A e \in Executor : run[e].at = "update" => run[e].exp <= now
  /\ CheckinHonoured

\* A switch that may still be released has been announced nowhere, and after that one run
\* alone has it in hand.
OnceInv ==
  /\ \A s \in Switch : Alive(s) => /\ mailed[s] = 0 /\ Entries(s, "release") = {}
                                   /\ \A e \in Executor : run[e].sw = s => ~Releasing(e)
  /\ \A e, f \in Executor : Releasing(e) /\ Releasing(f) /\ run[e].sw = run[f].sw => e = f
  /\ \A e \in Executor : Releasing(e) => Entries(run[e].sw, "release") = {}
  /\ \A e \in Executor : run[e].at \in {"token", "mail"} => mailed[run[e].sw] = 0
  /\ AtMostOneRelease

IInv == TypeInv /\ RowsInv /\ DeadlineInv /\ OnceInv

\* Every initial state satisfies the inductive invariant.
LEMMA InitIInv == Init => IInv
<1> SUFFICES ASSUME Init PROVE IInv  OBVIOUS
<1>1. TypeInv  BY InitTypeInv
<1>2. RowsInv /\ DeadlineInv  BY DEF Init, RowsInv, DeadlineInv, CheckinHonoured, Unborn, Deciding, IdleRun
<1>3. \A s \in Switch : Entries(s, "release") = {}  BY DEF Init, Entries
<1>4. OnceInv  BY <1>3 DEF Init, OnceInv, AtMostOneRelease, Releasing, IdleRun
<1> QED BY <1>1, <1>2, <1>4 DEF IInv

-----------------------------------------------------------------------------

\* An entry of another event leaves the release entries of every switch.
LEMMA OtherEvent ==
  ASSUME TypeOK, NEW x \in Switch \cup {Owner}, NEW event \in Event \ {"release"}, Write(x, event),
         NEW s \in Switch
  PROVE  Entries(s, "release")' = Entries(s, "release")
<1>1. log[s] \in Seq(Event) /\ log \in [Switch \cup {Owner} -> Seq(Event)]  BY DEF TypeOK
<1>2. CASE s # x  BY <1>1, <1>2 DEF Write, Entries
<1>3. CASE s = x
  <2>1. log'[s] = Append(log[s], event)  BY <1>1, <1>3 DEF Write
  <2>2. /\ DOMAIN log[s] = 1..Len(log[s]) /\ DOMAIN log'[s] = 1..(Len(log[s]) + 1)
        /\ log'[s][Len(log[s]) + 1] = event
        /\ \A i \in 1..Len(log[s]) : log'[s][i] = log[s][i]
    BY <1>1, <2>1
  <2> QED BY <1>1, <2>2 DEF Entries
<1> QED BY <1>2, <1>3

\* A release entry for a switch that has none is its only one, and the others' stay.
LEMMA ReleaseEvent ==
  ASSUME TypeOK, NEW s \in Switch, Write(s, "release"), Entries(s, "release") = {}
  PROVE  /\ \A i, j \in Entries(s, "release")' : i = j
         /\ \A x \in Switch \ {s} : Entries(x, "release")' = Entries(x, "release")
<1>1. log[s] \in Seq(Event) /\ log \in [Switch \cup {Owner} -> Seq(Event)]  BY DEF TypeOK
<1>2. log'[s] = Append(log[s], "release")  BY <1>1 DEF Write
<1>3. /\ DOMAIN log[s] = 1..Len(log[s]) /\ DOMAIN log'[s] = 1..(Len(log[s]) + 1)
      /\ \A i \in 1..Len(log[s]) : log'[s][i] = log[s][i]
  BY <1>1, <1>2
<1>4. \A i \in Entries(s, "release")' : i = Len(log[s]) + 1  BY <1>1, <1>3 DEF Entries
<1>5. \A x \in Switch \ {s} : log'[x] = log[x]  BY <1>1 DEF Write
<1> QED BY <1>4, <1>5 DEF Entries

-----------------------------------------------------------------------------
\* Run e keeps its switch, and moves to no step that decides or announces, but for the
\* email that follows the token.
RunsOn(e) == /\ run'[e].at \in {"check", "update", "token", "mail", "log"} =>
                  /\ run'[e].sw = run[e].sw /\ run'[e].exp = run[e].exp
                  /\ run'[e].at = run[e].at \/ (run[e].at = "token" /\ run'[e].at = "mail")

\* No release entry is written.
LogSame   == \A s \in Switch : Entries(s, "release")' = Entries(s, "release")

\* What most steps have in common.
Calm ==
  /\ UNCHANGED <<account, status, expiry, pledged, mailed>>
  /\ now' \in {now, now + 1}
  /\ \A s \in Switch : Unborn(s)' => Unborn(s)
  /\ LogSame
  /\ \A e \in Executor : RunsOn(e)

\* A calm step keeps the invariants.
LEMMA CalmKeeps == ASSUME IInv, Calm PROVE RowsInv' /\ DeadlineInv' /\ OnceInv'
<1>1. /\ \A s \in Switch : expiry[s] \in Nat /\ pledged[s] \in Nat
      /\ now \in Nat /\ \A e \in Executor : run[e].exp \in Nat
  BY DEF IInv, TypeInv, TypeOK, RunRecord
<1>2. RowsInv'  BY DEF IInv, Calm, RowsInv, Unborn
<1>3. \A e \in Executor : run[e].at # "idle" => run[e].sw \in Switch  BY DEF IInv, TypeInv, RunOK
<1>4. DeadlineInv'
  <2>1. CheckinHonoured'  BY <1>1 DEF IInv, Calm, DeadlineInv, CheckinHonoured
  <2> QED BY <1>1, <1>3, <2>1 DEF IInv, Calm, RunsOn, DeadlineInv, Unborn, Deciding
<1>5. OnceInv'
  <2>1. AtMostOneRelease'  BY DEF IInv, Calm, LogSame, OnceInv, AtMostOneRelease
  <2>2. \A s \in Switch : Alive(s)' => Alive(s)  BY DEF Calm, Alive, Unborn
  <2>3. \A e \in Executor : Releasing(e)' => Releasing(e) /\ run'[e].sw = run[e].sw /\ run[e].sw \in Switch
    BY <1>3 DEF Calm, RunsOn, Releasing
  <2>4. \A s \in Switch : Alive(s)' => /\ mailed'[s] = 0 /\ Entries(s, "release")' = {}
                                       /\ \A e \in Executor : run'[e].sw = s => ~Releasing(e)'
    BY <2>2, <2>3 DEF IInv, OnceInv, Calm, LogSame
  <2>5. \A e, f \in Executor : Releasing(e)' /\ Releasing(f)' /\ run'[e].sw = run'[f].sw => e = f
    BY <2>3 DEF IInv, OnceInv
  <2>6. (\A e \in Executor : Releasing(e) => Entries(run[e].sw, "release") = {})'
    <3>1. ASSUME NEW s \in Switch, NEW e \in Executor, Releasing(e)', run'[e].sw = s
          PROVE  Entries(s, "release")' = {}
      BY <2>3, <3>1 DEF IInv, OnceInv, Calm, LogSame
    <3> QED BY <2>3, <3>1 DEF Entries
  <2>7. \A e \in Executor : run'[e].at \in {"token", "mail"} => mailed'[run'[e].sw] = 0
    BY <2>3 DEF IInv, OnceInv, Calm, RunsOn
  <2> QED BY <2>1, <2>4, <2>5, <2>6, <2>7 DEF OnceInv, Entries
<1> QED BY <1>2, <1>4, <1>5

-----------------------------------------------------------------------------

\* A step that does not write to the log leaves the release entries.
LEMMA SameLog == ASSUME UNCHANGED log PROVE LogSame
BY DEF LogSame, Entries

\* So does one that writes another event.
LEMMA OtherLog ==
  ASSUME TypeOK, NEW x \in Switch \cup {Owner}, NEW event \in Event \ {"release"}, Write(x, event)
  PROVE  LogSame
BY OtherEvent DEF LogSame

\* A step that moves no run is calm for every run.
LEMMA SameRuns == ASSUME UNCHANGED run PROVE \A e \in Executor : RunsOn(e)
BY DEF RunsOn

\* POST /api/switches is calm but for its INSERT.
LEMMA CreateCalm == ASSUME TypeInv, NEW s \in Switch, Create(s), ~CreateRow(s) PROVE Calm
<1>0. UNCHANGED <<now, run>> /\ \A e \in Executor : RunsOn(e)  BY SameRuns DEF Create, runs
<1>1. UNCHANGED <<account, status, expiry, pledged, mailed>>
  BY DEF Create, CreateAdmit, CreateBlob, CreateRefused, CreateLogCreated, CreateLogArmed, CreateArm,
         CreateInvite, FailCreate, d1, outbox
<1>2. \A x \in Switch : Unborn(x)' => Unborn(x)
  <2>1. make \in [Switch -> MakeRecord]  BY DEF TypeInv, TypeOK
  <2> QED BY <2>1 DEF Create, CreateAdmit, CreateBlob, CreateRefused, CreateLogCreated, CreateLogArmed,
         CreateArm, CreateInvite, FailCreate, Making, Unborn, MakeRecord
<1>3. LogSame
  <2>1. CASE CreateLogCreated(s)  BY <2>1, OtherLog DEF CreateLogCreated, TypeInv, Event
  <2>2. CASE CreateLogArmed(s)  BY <2>2, OtherLog DEF CreateLogArmed, TypeInv, Event
  <2>3. CASE UNCHANGED log  BY <2>3, SameLog
  <2> QED BY <2>1, <2>2, <2>3 DEF Create, CreateAdmit, CreateBlob, CreateRefused, CreateArm,
         CreateInvite, FailCreate
<1> QED BY <1>0, <1>1, <1>2, <1>3 DEF Calm

\* The steps of request handlers that write to a switches or users row.
RowStep(r) == DefuseCommit(r) \/ DuressRow(r) \/ PurgeRow(r) \/ FinCommit(r) \/ CloseDrop(r)

\* A request handler's append to the log is calm.
LEMMA AppendLogCalm ==
  ASSUME TypeInv, NEW r \in Request, NEW from \in ReqStep \ {"ready", "done", "close"}, NEW to \in ReqStep,
         NEW event \in Event \ {"release"}, AppendLog(r, from, event, to)
  PROVE  UNCHANGED <<account, status, expiry, pledged, mailed>> /\ LogSame
<1>1. req[r].sw \in Switch \cup {Owner}  BY DEF AppendLog, Step, TypeInv, TypeOK, ReqRecord
<1> QED BY <1>1, OtherLog DEF AppendLog, TypeInv, d1, outbox

\* Every request handler is calm but for the steps that write to a row.
LEMMA HandleCalm == ASSUME TypeInv, NEW r \in Request, Handle(r), ~RowStep(r) PROVE Calm
<1> USE DEF ReqStep, Event
<1>0. UNCHANGED <<now, make, run>> /\ \A e \in Executor : RunsOn(e)  BY SameRuns DEF Handle, runs
<1> SUFFICES UNCHANGED <<account, status, expiry, pledged, mailed>> /\ LogSame
  BY <1>0 DEF Calm, Unborn
<1>1. CASE Checkin(r)
  <2>1. CASE DefuseLog(r)  BY <2>1, AppendLogCalm DEF DefuseLog
  <2>2. CASE DuressLog(r)  BY <2>2, AppendLogCalm DEF DuressLog
  <2>3. CASE ~DefuseLog(r) /\ ~DuressLog(r)
    <3>1. UNCHANGED <<account, status, expiry, pledged, mailed, log>>
      BY <1>1, <2>3 DEF RowStep, Checkin, CheckinRead, Begin, VerifyDefuse, VerifyDuress, DefuseExtend,
         CallTimer, DuressBlob, DeleteBlob, DuressCancel, DuressNotify, d1, outbox
    <3> QED BY <3>1, SameLog
  <2> QED BY <2>1, <2>2, <2>3
<1>2. CASE Delete(r)
  <2>1. CASE PurgeLog(r)  BY <2>1, AppendLogCalm DEF PurgeLog
  <2>2. CASE ~PurgeLog(r)
    <3>1. UNCHANGED <<account, status, expiry, pledged, mailed, log>>
      BY <1>2, <2>2 DEF RowStep, Delete, DeleteRead, Begin, CallTimer, PurgeBlob, DeleteBlob, PurgeCancel,
         d1, outbox
    <3> QED BY <3>1, SameLog
  <2> QED BY <2>1, <2>2
<1>3. CASE Finalize(r)
  <2>1. CASE EnrollLog(r)  BY <2>1, AppendLogCalm DEF EnrollLog
  <2>2. CASE FinLog(r)  BY <2>2, AppendLogCalm DEF FinLog
  <2>3. CASE ~EnrollLog(r) /\ ~FinLog(r)
    <3>1. UNCHANGED <<account, status, expiry, pledged, mailed, log>>
      BY <1>3, <2>3 DEF RowStep, Finalize, EnrollRead, FinRead, Begin, EnrollCommit, FinRecipient, FinArm,
         CallTimer, d1, outbox
    <3> QED BY <3>1, SameLog
  <2> QED BY <2>1, <2>2, <2>3
<1>4. CASE Close(r)
  <2>1. CASE CloseDone(r)  BY <2>1, AppendLogCalm DEF CloseDone
  <2>2. CASE CloseLog(r)
    <3>1. req[r].sw \in Switch \cup {Owner}  BY DEF TypeInv, TypeOK, ReqRecord
    <3>2. LogSame
      <4>1. CASE Write(req[r].sw, "user_purge")  BY <3>1, <4>1, OtherLog DEF TypeInv
      <4>2. CASE UNCHANGED log  BY <4>2, SameLog
      <4> QED BY <2>2, <4>1, <4>2 DEF CloseLog
    <3> QED BY <2>2, <3>2 DEF CloseLog, d1, outbox
  <2>3. CASE ~CloseDone(r) /\ ~CloseLog(r)
    <3>1. UNCHANGED <<account, status, expiry, pledged, mailed, log>>
      BY <1>4, <2>3 DEF RowStep, Close, CloseRead, CloseCancel, CloseBlob, DeleteBlob, d1, outbox
    <3> QED BY <3>1, SameLog
  <2> QED BY <2>1, <2>2, <2>3
<1>5. CASE FailReq(r)  BY <1>5, SameLog DEF FailReq, d1, outbox
<1> QED BY <1>1, <1>2, <1>3, <1>4, <1>5 DEF Handle

\* A run that ends, or has only its alarm to remove, is calm.
LEMMA RunToCalm ==
  ASSUME TypeInv, NEW e \in Executor, NEW pc \in {"idle", "disarm"}, RunTo(e, pc)
  PROVE  \A f \in Executor : RunsOn(f)
<1>1. run \in [Executor -> RunRecord]  BY DEF TypeInv, TypeOK
<1> QED BY <1>1 DEF RunTo, RunsOn, IdleRun, RunRecord

\* A run that begins is calm.
LEMMA RunStartCalm ==
  ASSUME TypeInv, NEW e \in Executor, NEW s \in Switch, RunStart(e, s)
  PROVE  \A f \in Executor : RunsOn(f)
<1>1. run \in [Executor -> RunRecord]  BY DEF TypeInv, TypeOK
<1> QED BY <1>1 DEF RunStart, RunsOn, IdleRun, RunRecord

\* The cron's own steps are calm.
LEMMA SweepCalm == ASSUME TypeInv, NEW w \in Sweeper, Sweep(w) PROVE Calm
<1>1. UNCHANGED <<account, status, expiry, pledged, mailed, now, make, log>>
  BY DEF Sweep, SweepQuery, SweepCall, d1, outbox, handlers
<1>2. \A f \in Executor : RunsOn(f)
  <2>1. CASE SweepQuery(w)  BY <2>1, SameRuns DEF SweepQuery
  <2>2. CASE \E s \in Switch : SweepCall(w, s)  BY <2>2, RunStartCalm DEF SweepCall, Executor
  <2> QED BY <2>1, <2>2 DEF Sweep
<1> QED BY <1>1, <1>2, SameLog DEF Calm, Unborn

\* Alarms that fire, and runs and passes that fail, are calm.
LEMMA ExecuteCalm == ASSUME TypeInv, Execute PROVE Calm
<1>1. UNCHANGED <<account, status, expiry, pledged, mailed, now, make, log>>
  BY DEF Execute, AlarmFire, FailSweep, FailRun, d1, outbox, handlers
<1>2. \A f \in Executor : RunsOn(f)
  <2>1. ASSUME NEW s \in Switch, AlarmFire(s) PROVE \A f \in Executor : RunsOn(f)
    BY <2>1, RunStartCalm, SameRuns DEF AlarmFire, Executor
  <2>2. ASSUME NEW w \in Sweeper, FailSweep(w) PROVE \A f \in Executor : RunsOn(f)
    BY <2>2, SameRuns DEF FailSweep
  <2>3. ASSUME NEW e \in Executor, FailRun(e) PROVE \A f \in Executor : RunsOn(f)
    BY <2>3, RunToCalm DEF FailRun
  <2> QED BY <2>1, <2>2, <2>3 DEF Execute
<1> QED BY <1>1, <1>2, SameLog DEF Calm, Unborn

\* The token put and the removal of the alarm are calm.
LEMMA ReleaseCalm ==
  ASSUME TypeInv, NEW e \in Executor, Release(e), ReleaseToken(e) \/ ReleaseDisarm(e)
  PROVE  Calm
<1>1. UNCHANGED <<account, status, expiry, pledged, mailed, now, make, log>>
  BY DEF Release, ReleaseToken, ReleaseDisarm, d1, outbox, handlers
<1>2. \A f \in Executor : RunsOn(f)
  <2>1. CASE ReleaseToken(e)
    <3>1. run \in [Executor -> RunRecord]  BY DEF TypeInv, TypeOK
    <3> QED BY <2>1, <3>1 DEF ReleaseToken, RunStepTo, RunTo, RunsOn, RunRecord
  <2>2. CASE ReleaseDisarm(e)  BY <2>2, RunToCalm DEF ReleaseDisarm, RunStepTo
  <2> QED BY <2>1, <2>2
<1> QED BY <1>1, <1>2, SameLog DEF Calm, Unborn

-----------------------------------------------------------------------------

\* A step that moves no run, sends no email and writes no entry keeps OnceInv, if it
\* brings no switch back to life.
LEMMA OnceKeeps ==
  ASSUME IInv, UNCHANGED <<run, mailed, log>>, \A s \in Switch : Alive(s)' => Alive(s)
  PROVE  OnceInv'
<1>1. \A s \in Switch : Entries(s, "release")' = Entries(s, "release")  BY SameLog DEF LogSame
<1>2. \A e \in Executor : Releasing(e) => run[e].sw \in Switch  BY DEF Releasing, IInv, TypeInv, RunOK
<1>3. \A e \in Executor : Releasing(e)' = Releasing(e)  BY DEF Releasing
<1>4. AtMostOneRelease'  BY <1>1 DEF IInv, OnceInv, AtMostOneRelease
<1>5. (\A e \in Executor : Releasing(e) => Entries(run[e].sw, "release") = {})'
  BY <1>2, <1>3 DEF IInv, OnceInv, Entries
<1> QED BY <1>1, <1>3, <1>4, <1>5 DEF IInv, OnceInv

\* The INSERT keeps the invariants: no run can know of a switch that has no row yet.
LEMMA CreateRowKeeps ==
  ASSUME IInv, NEW s \in Switch, Create(s), CreateRow(s) PROVE RowsInv' /\ DeadlineInv' /\ OnceInv'
<1>0. /\ make \in [Switch -> MakeRecord] /\ status \in [Switch -> Status]
      /\ expiry \in [Switch -> Nat] /\ pledged \in [Switch -> Nat]
  BY DEF IInv, TypeInv, TypeOK
<1>1. /\ make[s].at = "row" /\ make'[s].at = "logCreated"
      /\ \A x \in Switch \ {s} : make'[x] = make[x] /\ status'[x] = status[x] /\ expiry'[x] = expiry[x]
                                   /\ pledged'[x] = pledged[x]
      /\ status'[s] \in {"armed", "pending"} /\ pledged'[s] <= expiry'[s]
  BY <1>0 DEF CreateRow, Making, MakeRecord
<1>2. UNCHANGED <<now, run, mailed, log>>  BY DEF Create, CreateRow, runs, outbox
<1>3. Unborn(s) /\ ~Unborn(s)'  BY <1>1 DEF Unborn
<1>4. \A x \in Switch \ {s} : Unborn(x)' = Unborn(x)  BY <1>1 DEF Unborn
<1>5. RowsInv'  BY <1>1, <1>3, <1>4 DEF IInv, RowsInv
<1>6. \A e \in Executor : Deciding(e) => run[e].sw \in Switch \ {s}
  BY <1>3 DEF IInv, DeadlineInv, TypeInv, RunOK, Deciding
<1>7. DeadlineInv'
  <2>1. \A e \in Executor : Deciding(e)' = Deciding(e)  BY <1>2 DEF Deciding
  <2>2. CheckinHonoured'  BY <1>1, <1>2 DEF IInv, DeadlineInv, CheckinHonoured
  <2> QED BY <1>1, <1>2, <1>4, <1>6, <2>1, <2>2 DEF IInv, DeadlineInv, Unborn
<1>8. OnceInv'  BY <1>1, <1>2, <1>3, <1>4, OnceKeeps DEF Alive
<1> QED BY <1>5, <1>7, <1>8

\* What the row steps of the other handlers have in common: the row leaves the
\* armed status, or is a pending one that arms, or keeps its status.
RowMoves(s) ==
  \/ status'[s] = status[s]
  \/ status[s] = "pending" /\ status'[s] = "armed"
  \/ status[s] # "none" /\ status'[s] \in {"duress_purged", "user_purged"}
  \/ status'[s] = "none"

\* The row steps of the request handlers keep the invariants.  A check-in may lower the
\* deadline only when no run has read the row, or else promises nothing (history variable).
LEMMA RowStepKeeps ==
  ASSUME IInv, NEW r \in Request, Handle(r), RowStep(r)
  PROVE  RowsInv' /\ DeadlineInv' /\ OnceInv'
<1>0. /\ req \in [Request -> ReqRecord] /\ status \in [Switch -> Status] /\ now \in Nat
      /\ expiry \in [Switch -> Nat] /\ pledged \in [Switch -> Nat] /\ req[r].dl \in Nat
      /\ \A e \in Executor : run[e].exp \in Nat
  BY DEF IInv, TypeInv, TypeOK, ReqRecord, RunRecord
<1>1. UNCHANGED <<now, make, run, mailed, log>>
  BY DEF Handle, RowStep, DefuseCommit, DuressRow, PurgeRow, FinCommit, CloseDrop, runs, outbox
<1>2. \A s \in Switch : RowMoves(s)
  BY <1>0 DEF RowStep, DefuseCommit, DuressRow, PurgeRow, FinCommit, CloseDrop, RowMoves
<1>3. RowsInv'
  BY <1>1, <1>2 DEF IInv, RowsInv, Unborn, RowMoves
<1>4. OnceInv'
  <2>1. \A s \in Switch : Alive(s)' => Alive(s)  BY <1>1, <1>2 DEF Alive, Unborn, RowMoves
  <2> QED BY <1>1, <2>1, OnceKeeps
<1>5. ASSUME NEW s \in Switch
      PROVE  /\ status'[s] = "armed" => pledged'[s] <= expiry'[s]
             /\ status'[s] = "released" => status[s] = "released" /\ pledged'[s] = pledged[s]
             /\ \/ pledged'[s] = pledged[s] \/ pledged'[s] = 0 \/ status[s] = "pending"
                \/ ~Contested(s)
  <2>1. CASE DefuseCommit(r)  BY <1>0, <2>1 DEF DefuseCommit, IInv, DeadlineInv
  <2>2. CASE DuressRow(r) \/ PurgeRow(r)  BY <1>0, <2>2 DEF DuressRow, PurgeRow, IInv, DeadlineInv
  <2>3. CASE FinCommit(r)  BY <1>0, <2>3 DEF FinCommit, IInv, DeadlineInv
  <2>4. CASE CloseDrop(r)  BY <1>0, <2>4 DEF CloseDrop
  <2> QED BY <2>1, <2>2, <2>3, <2>4 DEF RowStep
<1>6. DeadlineInv'
  <2>1. CheckinHonoured'  BY <1>1, <1>5 DEF IInv, DeadlineInv, CheckinHonoured
  <2>2. ASSUME NEW e \in Executor, Deciding(e)
        PROVE  /\ ~Unborn(run[e].sw)' /\ status'[run[e].sw] # "pending"
               /\ pledged'[run[e].sw] <= run[e].exp
    <3> DEFINE s == run[e].sw
    <3>1. s \in Switch /\ Contested(s)  BY <2>2 DEF Deciding, Contested, IInv, TypeInv, RunOK
    <3>2. ~Unborn(s) /\ status[s] # "pending" /\ pledged[s] <= run[e].exp  BY <2>2 DEF IInv, DeadlineInv
    <3>3. ~Unborn(s)'  BY <1>1, <3>2 DEF Unborn
    <3>4. status'[s] # "pending"  BY <1>2, <3>1, <3>2 DEF RowMoves
    <3>5. pledged'[s] <= run[e].exp  BY <1>0, <1>5, <3>1, <3>2
    <3> QED BY <3>3, <3>4, <3>5
  <2>3. \A e \in Executor : Deciding(e)' = Deciding(e)  BY <1>1 DEF Deciding
  <2> QED BY <1>1, <1>5, <2>1, <2>2, <2>3 DEF IInv, DeadlineInv, Unborn
<1> QED BY <1>3, <1>4, <1>6

-----------------------------------------------------------------------------

\* release() reads a deadline that is at least the one promised.
LEMMA SelectKeeps ==
  ASSUME IInv, NEW e \in Executor, Release(e), ReleaseSelect(e) PROVE RowsInv' /\ DeadlineInv' /\ OnceInv'
<1>0. run \in [Executor -> RunRecord] /\ run[e].sw \in Switch
  BY DEF IInv, TypeInv, TypeOK, RunOK, ReleaseSelect
<1>1. UNCHANGED <<now, make, status, expiry, pledged, mailed, log, account>>
  BY DEF Release, ReleaseSelect, d1, outbox, handlers
<1>2. CASE status[run[e].sw] # "armed"
  <2>1. \A f \in Executor : RunsOn(f)  BY <1>2, RunToCalm DEF ReleaseSelect, IInv
  <2> QED BY <1>1, <2>1, SameLog, CalmKeeps DEF Calm, Unborn
<1>3. CASE status[run[e].sw] = "armed"
  <2>1. /\ \A f \in Executor \ {e} : run'[f] = run[f]
        /\ run'[e].at = "check" /\ run'[e].sw = run[e].sw /\ run'[e].exp = expiry[run[e].sw]
    <3>1. run' = [run EXCEPT ![e] = [run[e] EXCEPT !.at = "check", !.exp = expiry[run[e].sw],
                                                   !.whole = run[e].sw \in envelope]]
      BY <1>0, <1>3 DEF ReleaseSelect
    <3>2. run'[e] = [run[e] EXCEPT !.at = "check", !.exp = expiry[run[e].sw], !.whole = run[e].sw \in envelope]
      BY <1>0, <3>1
    <3>3. run'[e].at = "check" /\ run'[e].sw = run[e].sw /\ run'[e].exp = expiry[run[e].sw]
      <4>1. run[e] \in RunRecord  BY <1>0
      <4> QED BY <3>2, <4>1 DEF RunRecord
    <3> QED BY <1>0, <3>1, <3>3
  <2>2. ~Unborn(run[e].sw) /\ pledged[run[e].sw] <= expiry[run[e].sw]
    BY <1>0, <1>3 DEF IInv, RowsInv, DeadlineInv
  <2>3. RowsInv'  BY <1>1 DEF IInv, RowsInv, Unborn
  <2>4. DeadlineInv'
    <3>1. CheckinHonoured'  BY <1>1 DEF IInv, DeadlineInv, CheckinHonoured
    <3> QED BY <1>1, <1>3, <2>1, <2>2, <3>1 DEF IInv, DeadlineInv, Deciding, Unborn
  <2>5. OnceInv'
    <3>1. \A f \in Executor : Releasing(f)' => f # e /\ Releasing(f) /\ run'[f] = run[f]
      BY <2>1 DEF Releasing
    <3>2. \A s \in Switch : Alive(s)' = Alive(s) /\ Entries(s, "release")' = Entries(s, "release")
      BY <1>1, SameLog DEF Alive, Unborn, LogSame
    <3>3. (\A f \in Executor : Releasing(f) => Entries(run[f].sw, "release") = {})'
      BY <1>1, <3>1 DEF IInv, OnceInv, Entries
    <3>4. AtMostOneRelease'  BY <1>1, <3>2 DEF IInv, OnceInv, AtMostOneRelease
    <3>5. \A f \in Executor : run'[f].at \in {"token", "mail"} => mailed'[run'[f].sw] = 0
      BY <1>1, <2>1 DEF IInv, OnceInv
    <3> QED BY <1>1, <3>1, <3>2, <3>3, <3>4, <3>5 DEF IInv, OnceInv
  <2> QED BY <2>3, <2>4, <2>5
<1> QED BY <1>2, <1>3

\* release() goes on only past the deadline it has read.
LEMMA CheckKeeps ==
  ASSUME IInv, NEW e \in Executor, Release(e), ReleaseCheck(e) PROVE RowsInv' /\ DeadlineInv' /\ OnceInv'
<1>0. run \in [Executor -> RunRecord] /\ run[e].at = "check"
  BY DEF IInv, TypeInv, TypeOK, ReleaseCheck, RunStepTo
<1>1. UNCHANGED <<now, make, status, expiry, pledged, mailed, log, account>>
  BY DEF Release, ReleaseCheck, d1, outbox, handlers
<1>2. CASE RunTo(e, "idle")
  <2>1. \A f \in Executor : RunsOn(f)  BY <1>2, RunToCalm DEF IInv
  <2> QED BY <1>1, <2>1, SameLog, CalmKeeps DEF Calm, Unborn
<1>3. CASE RunTo(e, "update") /\ run[e].exp <= now
  <2>1. /\ \A f \in Executor \ {e} : run'[f] = run[f]
        /\ run'[e].at = "update" /\ run'[e].sw = run[e].sw /\ run'[e].exp = run[e].exp
    BY <1>0, <1>3 DEF RunTo, RunRecord
  <2>2. RowsInv'  BY <1>1 DEF IInv, RowsInv, Unborn
  <2>3. DeadlineInv'
    <3>1. CheckinHonoured'  BY <1>1 DEF IInv, DeadlineInv, CheckinHonoured
    <3>2. \A f \in Executor : Deciding(f)' => Deciding(f) /\ run'[f].sw = run[f].sw /\ run'[f].exp = run[f].exp
      BY <1>0, <2>1 DEF Deciding
    <3>3. \A f \in Executor : run'[f].at = "update" => run'[f].exp <= now
      BY <1>3, <2>1 DEF IInv, DeadlineInv
    <3> QED BY <1>1, <3>1, <3>2, <3>3 DEF IInv, DeadlineInv, Unborn
  <2>4. OnceInv'
    <3>1. \A f \in Executor : Releasing(f)' => f # e /\ Releasing(f) /\ run'[f] = run[f]
      BY <2>1 DEF Releasing
    <3>2. \A s \in Switch : Alive(s)' = Alive(s) /\ Entries(s, "release")' = Entries(s, "release")
      BY <1>1, SameLog DEF Alive, Unborn, LogSame
    <3>3. (\A f \in Executor : Releasing(f) => Entries(run[f].sw, "release") = {})'
      BY <1>1, <3>1 DEF IInv, OnceInv, Entries
    <3>4. AtMostOneRelease'  BY <1>1, <3>2 DEF IInv, OnceInv, AtMostOneRelease
    <3>5. \A f \in Executor : run'[f].at \in {"token", "mail"} => mailed'[run'[f].sw] = 0
      BY <1>1, <2>1 DEF IInv, OnceInv
    <3> QED BY <1>1, <3>1, <3>2, <3>3, <3>4, <3>5 DEF IInv, OnceInv
  <2> QED BY <2>2, <2>3, <2>4
<1> QED BY <1>2, <1>3 DEF ReleaseCheck, RunStepTo

\* The conditional UPDATE lets one run through, and only after the promised deadline.
LEMMA UpdateKeeps ==
  ASSUME IInv, NEW e \in Executor, Release(e), ReleaseUpdate(e) PROVE RowsInv' /\ DeadlineInv' /\ OnceInv'
<1>0. /\ run \in [Executor -> RunRecord] /\ run[e].at = "update" /\ run[e].sw \in Switch
      /\ status \in [Switch -> Status] /\ now \in Nat /\ run[e].exp \in Nat
      /\ pledged \in [Switch -> Nat]
  BY DEF IInv, TypeInv, TypeOK, RunOK, RunRecord, ReleaseUpdate, RunStepTo
<1>1. UNCHANGED <<now, make, expiry, pledged, mailed, log, account>>
  BY DEF Release, ReleaseUpdate, outbox, handlers
<1> DEFINE s == run[e].sw
<1>2. CASE status[s] # "armed"
  <2>1. \A f \in Executor : RunsOn(f)  BY <1>2, RunToCalm DEF ReleaseUpdate, RunStepTo, IInv
  <2>2. status' = status  BY <1>0, <1>2 DEF ReleaseUpdate
  <2> QED BY <1>1, <2>1, <2>2, SameLog, CalmKeeps DEF Calm, Unborn
<1>3. CASE status[s] = "armed"
  <2>1. /\ \A f \in Executor \ {e} : run'[f] = run[f]
        /\ run'[e].at = "token" /\ run'[e].sw = s
        /\ status' = [status EXCEPT ![s] = "released"]
    BY <1>0, <1>3 DEF ReleaseUpdate, RunStepTo, RunTo, RunRecord
  <2>2. ~Unborn(s) /\ Alive(s) /\ pledged[s] <= now
    BY <1>0, <1>3 DEF IInv, DeadlineInv, RowsInv, Alive, Deciding
  <2>3. RowsInv'  BY <1>0, <1>1, <2>1, <2>2 DEF IInv, RowsInv, Unborn
  <2>4. DeadlineInv'
    <3>1. CheckinHonoured'  BY <1>0, <1>1, <2>1, <2>2 DEF IInv, DeadlineInv, CheckinHonoured
    <3>2. \A f \in Executor : Deciding(f)' => f # e /\ Deciding(f) /\ run'[f] = run[f] /\ run[f].sw \in Switch
      BY <2>1 DEF Deciding, IInv, TypeInv, RunOK
    <3>3. \A f \in Executor : Deciding(f)' => ~Unborn(run[f].sw)'  BY <1>1, <3>2 DEF IInv, DeadlineInv, Unborn
    <3>4. \A f \in Executor : run'[f].at = "update" => run'[f].exp <= now  BY <2>1 DEF IInv, DeadlineInv
    <3>5. \A f \in Executor : Deciding(f)' => status'[run[f].sw] # "pending"
      BY <1>0, <2>1, <3>2 DEF IInv, DeadlineInv
    <3>6. \A x \in Switch : status'[x] = "armed" => pledged'[x] <= expiry'[x]
      BY <1>0, <1>1, <2>1 DEF IInv, DeadlineInv
    <3> QED BY <1>1, <3>1, <3>2, <3>3, <3>4, <3>5, <3>6 DEF IInv, DeadlineInv, Unborn
  <2>5. OnceInv'
    <3>1. \A f \in Executor : Releasing(f)' => f = e \/ (Releasing(f) /\ run'[f] = run[f] /\ run[f].sw # s)
      BY <1>0, <2>1, <2>2 DEF Releasing, IInv, OnceInv
    <3>2. \A x \in Switch : (Alive(x)' => Alive(x) /\ x # s) /\ Entries(x, "release")' = Entries(x, "release")
      BY <1>0, <1>1, <2>1, <2>2, SameLog DEF Alive, Unborn, LogSame
    <3>3. Entries(s, "release") = {} /\ mailed[s] = 0  BY <1>0, <2>2 DEF IInv, OnceInv
    <3>4. (\A f \in Executor : Releasing(f) => Entries(run[f].sw, "release") = {})'
      BY <1>0, <1>1, <2>1, <3>1, <3>3 DEF IInv, OnceInv, Entries
    <3>5. AtMostOneRelease'  BY <1>1, <3>2 DEF IInv, OnceInv, AtMostOneRelease
    <3>6. \A f \in Executor : run'[f].at \in {"token", "mail"} => mailed'[run'[f].sw] = 0
      BY <1>1, <2>1, <3>3 DEF IInv, OnceInv
    <3>7. \A f, g \in Executor : Releasing(f)' /\ Releasing(g)' /\ run'[f].sw = run'[g].sw => f = g
      BY <2>1, <3>1 DEF IInv, OnceInv
    <3>8. \A x \in Switch : Alive(x)' => /\ mailed'[x] = 0 /\ Entries(x, "release")' = {}
                                         /\ \A f \in Executor : run'[f].sw = x => ~Releasing(f)'
      BY <1>1, <2>1, <3>1, <3>2 DEF IInv, OnceInv
    <3> QED BY <3>4, <3>5, <3>6, <3>7, <3>8 DEF OnceInv
  <2> QED BY <2>3, <2>4, <2>5
<1> QED BY <1>2, <1>3

\* The one run that was let through sends at most one email.
LEMMA MailKeeps ==
  ASSUME IInv, NEW e \in Executor, Release(e), ReleaseMail(e) PROVE RowsInv' /\ DeadlineInv' /\ OnceInv'
<1>0. /\ run \in [Executor -> RunRecord] /\ run[e].at = "mail" /\ run[e].sw \in Switch
      /\ mailed \in [Switch -> Nat]
  BY DEF IInv, TypeInv, TypeOK, RunOK, ReleaseMail, RunStepTo
<1>1. UNCHANGED <<now, make, status, expiry, pledged, log, account>>
  BY DEF Release, ReleaseMail, d1, handlers
<1> DEFINE s == run[e].sw
<1>2. /\ \A f \in Executor \ {e} : run'[f] = run[f]
      /\ run'[e].at = "log" /\ run'[e].sw = s
      /\ \A x \in Switch \ {s} : mailed'[x] = mailed[x]
      /\ mailed'[s] \in {mailed[s], mailed[s] + 1}
  BY <1>0 DEF ReleaseMail, RunStepTo, RunTo, RunRecord
<1>3. /\ mailed[s] = 0 /\ ~Alive(s)
      /\ \A f \in Executor : Releasing(f) /\ run[f].sw = s => f = e
  BY <1>0 DEF IInv, OnceInv, Releasing
<1>4. RowsInv'  BY <1>1 DEF IInv, RowsInv, Unborn
<1>5. DeadlineInv'
  <2>1. CheckinHonoured'  BY <1>1 DEF IInv, DeadlineInv, CheckinHonoured
  <2> QED BY <1>1, <1>2, <2>1 DEF IInv, DeadlineInv, Deciding, Unborn
<1>6. OnceInv'
  <2>1. \A f \in Executor : /\ Releasing(f)' => Releasing(f) /\ run'[f].sw = run[f].sw /\ run[f].sw \in Switch
                            /\ run'[f].at \in {"token", "mail"} => f # e /\ run'[f] = run[f]
    BY <1>0, <1>2 DEF Releasing, IInv, TypeInv, RunOK
  <2>2. \A x \in Switch : /\ Alive(x)' => Alive(x) /\ x # s
                          /\ Entries(x, "release")' = Entries(x, "release")
    BY <1>1, <1>3, SameLog DEF Alive, Unborn, LogSame
  <2>3. AtMostOneRelease'  BY <1>0, <1>2, <1>3, <2>2 DEF IInv, OnceInv, AtMostOneRelease
  <2>4. (\A f \in Executor : Releasing(f) => Entries(run[f].sw, "release") = {})'
    BY <1>1, <2>1 DEF IInv, OnceInv, Entries
  <2>5. \A f \in Executor : run'[f].at \in {"token", "mail"} => mailed'[run'[f].sw] = 0
    <3>1. ASSUME NEW f \in Executor, run'[f].at \in {"token", "mail"} PROVE mailed'[run'[f].sw] = 0
      <4>1. f # e /\ run'[f] = run[f] /\ Releasing(f)  BY <2>1, <3>1 DEF Releasing
      <4>2. run[f].sw \in Switch \ {s}  BY <1>3, <2>1, <3>1, <4>1 DEF Releasing
      <4> QED BY <1>2, <3>1, <4>1, <4>2 DEF IInv, OnceInv
    <3> QED BY <3>1
  <2>6. \A f, g \in Executor : Releasing(f)' /\ Releasing(g)' /\ run'[f].sw = run'[g].sw => f = g
    BY <2>1 DEF IInv, OnceInv
  <2>7. \A x \in Switch : Alive(x)' => /\ mailed'[x] = 0 /\ Entries(x, "release")' = {}
                                       /\ \A f \in Executor : run'[f].sw = x => ~Releasing(f)'
    BY <1>2, <2>1, <2>2 DEF IInv, OnceInv
  <2> QED BY <2>3, <2>4, <2>5, <2>6, <2>7 DEF OnceInv
<1> QED BY <1>4, <1>5, <1>6

\* The one run that was let through writes one release entry.
LEMMA LogKeeps ==
  ASSUME IInv, NEW e \in Executor, Release(e), ReleaseLog(e) PROVE RowsInv' /\ DeadlineInv' /\ OnceInv'
<1>0. run \in [Executor -> RunRecord] /\ run[e].at = "log" /\ run[e].sw \in Switch
  BY DEF IInv, TypeInv, TypeOK, RunOK, ReleaseLog, RunStepTo
<1>1. UNCHANGED <<now, make, status, expiry, pledged, mailed, account>>
  BY DEF Release, ReleaseLog, d1, outbox, handlers
<1>2. PICK s \in Switch : s = run[e].sw  BY <1>0
<1>3. \A f \in Executor \ {e} : run'[f] = run[f]
  BY <1>0 DEF ReleaseLog, RunStepTo, RunTo
<1>4. run'[e].at = "disarm"  BY <1>0 DEF ReleaseLog, RunStepTo, RunTo, RunRecord
<1>5. /\ Entries(s, "release") = {} /\ ~Alive(s)
      /\ \A f \in Executor : Releasing(f) /\ run[f].sw = s => f = e
  BY <1>0, <1>2 DEF IInv, OnceInv, Releasing
<1>6. Write(s, "release")  BY <1>2 DEF ReleaseLog
<1>7. /\ \A i, j \in Entries(s, "release")' : i = j
      /\ \A x \in Switch \ {s} : Entries(x, "release")' = Entries(x, "release")
  BY <1>5, <1>6, ReleaseEvent DEF ReleaseLog, IInv, TypeInv
<1>8. RowsInv'  BY <1>1 DEF IInv, RowsInv, Unborn
<1>9. DeadlineInv'
  <2>1. CheckinHonoured'  BY <1>1 DEF IInv, DeadlineInv, CheckinHonoured
  <2> QED BY <1>1, <1>3, <1>4, <2>1 DEF IInv, DeadlineInv, Deciding, Unborn
<1>10. OnceInv'
  <2>1. \A f \in Executor : Releasing(f)' => f # e /\ Releasing(f) /\ run'[f] = run[f] /\ run[f].sw \in Switch \ {s}
    BY <1>3, <1>4, <1>5 DEF Releasing, IInv, TypeInv, RunOK
  <2>2. \A x \in Switch : Alive(x)' => Alive(x) /\ x # s  BY <1>1, <1>5 DEF Alive, Unborn
  <2>3. AtMostOneRelease'  BY <1>1, <1>7 DEF IInv, OnceInv, AtMostOneRelease
  <2>4. (\A f \in Executor : Releasing(f) => Entries(run[f].sw, "release") = {})'
    <3>1. ASSUME NEW x \in Switch, NEW f \in Executor, Releasing(f)', run'[f].sw = x
          PROVE  Entries(x, "release")' = {}
      BY <1>7, <2>1, <3>1 DEF IInv, OnceInv
    <3> QED BY <2>1, <3>1 DEF Entries
  <2>5. \A f \in Executor : run'[f].at \in {"token", "mail"} => mailed'[run'[f].sw] = 0
    BY <1>1, <1>3, <1>4 DEF IInv, OnceInv
  <2>6. \A f, g \in Executor : Releasing(f)' /\ Releasing(g)' /\ run'[f].sw = run'[g].sw => f = g
    BY <2>1 DEF IInv, OnceInv
  <2>7. \A x \in Switch : Alive(x)' => /\ mailed'[x] = 0 /\ Entries(x, "release")' = {}
                                       /\ \A f \in Executor : run'[f].sw = x => ~Releasing(f)'
    BY <1>1, <1>7, <2>1, <2>2 DEF IInv, OnceInv
  <2> QED BY <2>3, <2>4, <2>5, <2>6, <2>7 DEF OnceInv
<1> QED BY <1>8, <1>9, <1>10

\* Every step keeps the inductive invariant.
LEMMA NextIInv == ASSUME IInv, [Next]_vars PROVE IInv'
<1> USE DEF IInv
<1>1. TypeInv'  BY NextType
<1> SUFFICES RowsInv' /\ DeadlineInv' /\ OnceInv'  BY <1>1
<1>2. ASSUME NEW s \in Switch, Create(s) PROVE RowsInv' /\ DeadlineInv' /\ OnceInv'
  BY <1>2, CreateCalm, CalmKeeps, CreateRowKeeps
<1>3. ASSUME NEW r \in Request, Handle(r) PROVE RowsInv' /\ DeadlineInv' /\ OnceInv'
  BY <1>3, HandleCalm, CalmKeeps, RowStepKeeps
<1>4. ASSUME NEW w \in Sweeper, Sweep(w) PROVE RowsInv' /\ DeadlineInv' /\ OnceInv'
  BY <1>4, SweepCalm, CalmKeeps
<1>5. CASE Execute  BY <1>5, ExecuteCalm, CalmKeeps
<1>6. ASSUME NEW e \in Executor, Release(e) PROVE RowsInv' /\ DeadlineInv' /\ OnceInv'
  <2>1. CASE ReleaseToken(e) \/ ReleaseDisarm(e)  BY <1>6, <2>1, ReleaseCalm, CalmKeeps
  <2> QED BY <1>6, <2>1, SelectKeeps, CheckKeeps, UpdateKeeps, MailKeeps, LogKeeps DEF Release
<1>7. CASE Tick
  <2>1. Calm  BY <1>7, SameLog, SameRuns DEF Tick, Calm, Unborn, d1, outbox, history, handlers, runs
  <2> QED BY <2>1, CalmKeeps
<1>8. CASE UNCHANGED vars
  <2>1. Calm  BY <1>8, SameLog, SameRuns DEF vars, Calm, Unborn, d1, outbox, history, handlers, runs
  <2> QED BY <2>1, CalmKeeps
<1> QED BY <1>2, <1>3, <1>4, <1>5, <1>6, <1>7, <1>8 DEF Next

\* The inductive invariant holds in every reachable state.
THEOREM Invariance == Spec => []IInv
BY InitIInv, NextIInv, PTL DEF Spec

\* A check-in is honoured: in no interleaving of handlers, alarms, cron passes and
\* failures is a message released before the deadline promised last (release()'s
\* guard, SwitchTimer.ts:86-93, with the check-in batch, checkins.ts:127-135).
THEOREM NeverBeforeDeadline == Spec => []CheckinHonoured
<1>1. IInv => CheckinHonoured  BY DEF IInv, DeadlineInv
<1> QED BY <1>1, Invariance, PTL

\* However many alarms, retries and cron passes run release() at once, at most one email
\* and one release entry come of a switch (the UPDATE ... AND status = 'armed',
\* SwitchTimer.ts:107-112).
THEOREM ReleasedAtMostOnce == Spec => []AtMostOneRelease
<1>1. IInv => AtMostOneRelease  BY DEF IInv, OnceInv
<1> QED BY <1>1, Invariance, PTL

-----------------------------------------------------------------------------
(* SwitchLifecycle implements DeadMansSwitch, under the mapping of           *)
(* SwitchPromises!Abstract; and what has ended does not come back.           *)


\* The abstract phase, as a function.
phase == [s \in Switch |-> Phase(s)]

\* Run e has released its switch and has yet to write to the recipient.
Writing(e) == run[e].at \in {"token", "mail"}

\* The abstract phase of each status.
LEMMA PhaseIs ==
  ASSUME NEW s \in Switch, status[s] \in Status
  PROVE  /\ status[s] = "none" /\ account => Phase(s) = "none"
         /\ status[s] = "none" /\ ~account => Phase(s) = "gone"
         /\ status[s] \in {"duress_purged", "user_purged"} => Phase(s) = "purged"
         /\ status[s] \in {"pending", "armed", "released"} => Phase(s) = status[s]
BY DEF Phase, Status

\* The same after a step.
LEMMA PhaseIsNext ==
  ASSUME NEW s \in Switch, status'[s] \in Status
  PROVE  /\ status'[s] = "none" /\ account' => Phase(s)' = "none"
         /\ status'[s] = "none" /\ ~account' => Phase(s)' = "gone"
         /\ status'[s] \in {"duress_purged", "user_purged"} => Phase(s)' = "purged"
         /\ status'[s] \in {"pending", "armed", "released"} => Phase(s)' = status'[s]
BY DEF Phase, Status

\* A step that changes one row changes one phase.
LEMMA PhaseMoves ==
  ASSUME NEW s \in Switch, UNCHANGED account, \A x \in Switch \ {s} : status'[x] = status[x]
  PROVE  phase' = [phase EXCEPT ![s] = Phase(s)']
<1>1. \A x \in Switch \ {s} : Phase(x)' = Phase(x)  BY DEF Phase
<1> QED BY <1>1 DEF phase

\* A step that changes no row changes no phase.
LEMMA PhaseStays == ASSUME UNCHANGED <<account, status>> PROVE phase' = phase
<1>1. \A x \in Switch : Phase(x)' = Phase(x)  BY DEF Phase
<1> QED BY <1>1 DEF phase

\* Who is owed an email depends on which runs are about to send one.
LEMMA OwedStays ==
  ASSUME \A e \in Executor : Writing(e)' = Writing(e) /\ (Writing(e) => run'[e].sw = run[e].sw)
  PROVE  Owed' = Owed
<1>1. Owed = {s \in Switch : \E e \in Executor : run[e].sw = s /\ Writing(e)}  BY DEF Owed, Writing
<1>2. Owed' = {s \in Switch : \E e \in Executor : run'[e].sw = s /\ Writing(e)'}  BY DEF Owed, Writing
<1> QED BY <1>1, <1>2

\* A run that is done with the email settles what is owed: no other run owes it too.
LEMMA OwedLess ==
  ASSUME IInv, NEW e \in Executor, Writing(e), ~Writing(e)',
         \A f \in Executor \ {e} : run'[f] = run[f]
  PROVE  run[e].sw \in Owed /\ Owed' = Owed \ {run[e].sw}
<1>1. Owed = {s \in Switch : \E f \in Executor : run[f].sw = s /\ Writing(f)}  BY DEF Owed, Writing
<1>2. Owed' = {s \in Switch : \E f \in Executor : run'[f].sw = s /\ Writing(f)'}  BY DEF Owed, Writing
<1>3. run[e].sw \in Switch  BY DEF Writing, IInv, TypeInv, RunOK
<1>4. \A f \in Executor : Writing(f) /\ run[f].sw = run[e].sw => f = e  BY DEF Writing, Releasing, IInv, OnceInv
<1>5. \A f \in Executor \ {e} : Writing(f)' = Writing(f)  BY DEF Writing
<1> QED BY <1>1, <1>2, <1>3, <1>4, <1>5

\* An abstract step, or none.
ANext == [Abstract!Next]_(Abstract!vars)

\* A step that touches nothing abstract is a stuttering step.
LEMMA Stutter ==
  ASSUME UNCHANGED <<now, account, status, pledged, mailed>>, Owed' = Owed
  PROVE  ANext
BY PhaseStays DEF ANext, Abstract!vars, phase

\* Initial states map to initial states.
LEMMA InitRefines == Init => Abstract!Init
<1> SUFFICES ASSUME Init PROVE Abstract!Init  OBVIOUS
<1>1. \A s \in Switch : Phase(s) = "none"  BY DEF Init, Phase
<1>2. Owed = {}  BY DEF Init, Owed, IdleRun
<1> QED BY <1>1, <1>2 DEF Init, Abstract!Init

-----------------------------------------------------------------------------

\* A step that moves no run changes nothing owed.
LEMMA SameOwed == ASSUME UNCHANGED run PROVE Owed' = Owed
BY DEF Owed

\* A row that is created, armed or checked in is an abstract Create, Arm or CheckIn.
LEMMA AMove ==
  ASSUME IInv, TypeInv', UNCHANGED <<now, account, mailed>>, Owed' = Owed, NEW s \in Switch,
         NEW v \in Nat, pledged' = [pledged EXCEPT ![s] = v],
         \A x \in Switch \ {s} : status'[x] = status[x],
         \/ status[s] = "none" /\ account /\ status'[s] \in {"pending", "armed"}
         \/ status[s] \in {"pending", "armed"} /\ status'[s] = "armed"
  PROVE  ANext
<1>0. status[s] \in Status /\ status'[s] \in Status /\ pledged \in [Switch -> Nat]
  BY DEF IInv, TypeInv, TypeOK
<1>1. phase' = [phase EXCEPT ![s] = Phase(s)']  BY PhaseMoves
<1>2. phase[s] = Phase(s)  BY DEF phase
<1>3. Abstract!Promise(s)  BY <1>0 DEF Abstract!Promise
<1>4. CASE status[s] = "none" /\ status'[s] = "pending"
  <2>1. Phase(s) = "none" /\ Phase(s)' = "pending"  BY <1>0, <1>4, PhaseIs, PhaseIsNext
  <2>2. Abstract!Create(s)  BY <1>1, <1>2, <1>3, <2>1 DEF Abstract!Create, Abstract!Move, phase
  <2> QED BY <2>2 DEF ANext, Abstract!Next
<1>5. CASE status[s] \in {"none", "pending"} /\ status'[s] = "armed"
  <2>1. Phase(s) \in {"none", "pending"} /\ Phase(s)' = "armed"  BY <1>0, <1>5, PhaseIs, PhaseIsNext
  <2>2. Abstract!Arm(s)  BY <1>1, <1>2, <1>3, <2>1 DEF Abstract!Arm, Abstract!Move, phase
  <2> QED BY <2>2 DEF ANext, Abstract!Next
<1>6. CASE status[s] = "armed" /\ status'[s] = "armed"
  <2>1. Phase(s) = "armed" /\ Phase(s)' = "armed"  BY <1>0, <1>6, PhaseIs, PhaseIsNext
  <2>2. phase' = phase  BY <1>1, <1>2, <2>1 DEF phase
  <2>3. Abstract!CheckIn(s)  BY <1>2, <1>3, <2>1, <2>2 DEF Abstract!CheckIn, phase
  <2> QED BY <2>3 DEF ANext, Abstract!Next
<1> QED BY <1>4, <1>5, <1>6

\* A row that is purged is an abstract Purge.
LEMMA APurge ==
  ASSUME IInv, TypeInv', UNCHANGED <<now, account, pledged, mailed>>, Owed' = Owed, NEW s \in Switch,
         \A x \in Switch \ {s} : status'[x] = status[x],
         status[s] # "none", status'[s] \in {"duress_purged", "user_purged"}
  PROVE  ANext
<1>0. status[s] \in Status /\ status'[s] \in Status  BY DEF IInv, TypeInv, TypeOK
<1>1. phase' = [phase EXCEPT ![s] = Phase(s)']  BY PhaseMoves
<1>2. phase[s] = Phase(s)  BY DEF phase
<1>3. Phase(s) \in {"pending", "armed", "released", "purged"} /\ Phase(s)' = "purged"
  BY <1>0, PhaseIs, PhaseIsNext DEF Status
<1>4. Abstract!Purge(s)  BY <1>1, <1>2, <1>3 DEF Abstract!Purge, Abstract!Move, phase
<1> QED BY <1>4 DEF ANext, Abstract!Next

\* POST /api/switches refines the abstract steps.
LEMMA CreateRefines == ASSUME IInv, TypeInv', NEW s \in Switch, Create(s) PROVE ANext
<1>0. UNCHANGED <<now, run>> /\ Owed' = Owed  BY SameOwed DEF Create, runs
<1>1. CASE ~CreateRow(s)
  <2>1. Calm  BY <1>1, CreateCalm DEF IInv
  <2> QED BY <1>0, <2>1, Stutter DEF Calm
<1>2. CASE CreateRow(s)
  <2>1. /\ make[s].dl \in Nat /\ status \in [Switch -> Status] /\ status[s] = "none"
    BY <1>2 DEF CreateRow, Making, Unborn, IInv, RowsInv, TypeInv, TypeOK, MakeRecord
  <2>2. PICK v \in Nat : pledged' = [pledged EXCEPT ![s] = v]  BY <1>2, <2>1 DEF CreateRow
  <2>3. UNCHANGED <<account, mailed>> /\ account /\ status'[s] \in {"pending", "armed"}
        /\ \A x \in Switch \ {s} : status'[x] = status[x]
    BY <1>2, <2>1 DEF CreateRow, outbox
  <2> QED BY <1>0, <2>1, <2>2, <2>3, AMove
<1> QED BY <1>1, <1>2

\* The other request handlers refine them.
LEMMA HandleRefines == ASSUME IInv, TypeInv', NEW r \in Request, Handle(r) PROVE ANext
<1>0. UNCHANGED <<now, run>> /\ Owed' = Owed  BY SameOwed DEF Handle, runs
<1>1. CASE ~RowStep(r)
  <2>1. Calm  BY <1>1, HandleCalm DEF IInv
  <2> QED BY <1>0, <2>1, Stutter DEF Calm
<1>2. /\ req \in [Request -> ReqRecord] /\ status \in [Switch -> Status] /\ req[r].dl \in Nat
      /\ expiry \in [Switch -> Nat]
  BY DEF IInv, TypeInv, TypeOK, ReqRecord
<1>3. CASE DefuseCommit(r)
  <2>1. req[r].sw \in Switch  BY <1>3 DEF DefuseCommit, Step, IInv, TypeInv, ReqOK, NoSwitch
  <2>2. UNCHANGED <<account, status, mailed>>  BY <1>3 DEF DefuseCommit, outbox
  <2>3. CASE status[req[r].sw] # "armed"
    <3>1. UNCHANGED pledged  BY <1>3, <2>3 DEF DefuseCommit
    <3> QED BY <1>0, <2>2, <3>1, Stutter
  <2>4. CASE status[req[r].sw] = "armed"
    <3>1. PICK v \in Nat : pledged' = [pledged EXCEPT ![req[r].sw] = v]
      BY <1>2, <1>3, <2>4 DEF DefuseCommit
    <3> QED BY <1>0, <2>1, <2>2, <2>4, <3>1, AMove
  <2> QED BY <2>3, <2>4
<1>4. CASE DuressRow(r) \/ PurgeRow(r)
  <2>1. req[r].sw \in Switch  BY <1>4 DEF DuressRow, PurgeRow, Step, IInv, TypeInv, ReqOK, NoSwitch
  <2>2. UNCHANGED <<account, pledged, mailed>>  BY <1>4 DEF DuressRow, PurgeRow, outbox
  <2>3. CASE status[req[r].sw] = "none"
    <3>1. UNCHANGED status  BY <1>2, <1>4, <2>3 DEF DuressRow, PurgeRow
    <3> QED BY <1>0, <2>2, <3>1, Stutter
  <2>4. CASE status[req[r].sw] # "none"
    <3>1. /\ status'[req[r].sw] \in {"duress_purged", "user_purged"}
          /\ \A x \in Switch \ {req[r].sw} : status'[x] = status[x]
      BY <1>2, <1>4, <2>1, <2>4 DEF DuressRow, PurgeRow
    <3> QED BY <1>0, <2>1, <2>2, <2>4, <3>1, APurge
  <2> QED BY <2>3, <2>4
<1>5. CASE FinCommit(r)
  <2>1. req[r].sw \in Switch  BY <1>5 DEF FinCommit, Step, IInv, TypeInv, ReqOK, NoSwitch
  <2>2. UNCHANGED <<account, mailed>>  BY <1>5 DEF FinCommit, outbox
  <2>3. CASE status[req[r].sw] # "pending"
    <3>1. UNCHANGED <<status, pledged>>
      BY <1>2, <1>5, <2>3 DEF FinCommit, IInv, TypeInv, TypeOK
    <3> QED BY <1>0, <2>2, <3>1, Stutter
  <2>4. CASE status[req[r].sw] = "pending"
    <3>1. PICK v \in Nat : pledged' = [pledged EXCEPT ![req[r].sw] = v]
      BY <1>2, <1>5, <2>1, <2>4 DEF FinCommit
    <3>2. /\ status'[req[r].sw] = "armed"
          /\ \A x \in Switch \ {req[r].sw} : status'[x] = status[x]
      BY <1>2, <1>5, <2>1, <2>4 DEF FinCommit
    <3> QED BY <1>0, <2>1, <2>2, <2>4, <3>1, <3>2, AMove
  <2> QED BY <2>3, <2>4
<1>6. CASE CloseDrop(r)
  <2>1. UNCHANGED <<pledged, mailed>>  BY <1>6 DEF CloseDrop, outbox
  <2>2. \A s \in Switch : status'[s] = "none" /\ ~account'  BY <1>6 DEF CloseDrop
  <2>3. \A s \in Switch : Phase(s)' = "gone"  BY <2>2 DEF Phase
  <2>4. Abstract!Forget  BY <1>0, <2>1, <2>3 DEF Abstract!Forget
  <2> QED BY <2>4 DEF ANext, Abstract!Next
<1> QED BY <1>1, <1>3, <1>4, <1>5, <1>6 DEF RowStep

\* A run that neither was nor is about to send its email changes nothing owed.
LEMMA RunOwed ==
  ASSUME IInv, NEW e \in Executor, ~Writing(e), ~Writing(e)', \A f \in Executor \ {e} : run'[f] = run[f]
  PROVE  Owed' = Owed
BY OwedStays DEF Writing

\* A run that leaves the email behind it is an abstract Deliver, or Drop.
LEMMA ADrop ==
  ASSUME IInv, NEW e \in Executor, Writing(e), ~Writing(e)',
         \A f \in Executor \ {e} : run'[f] = run[f],
         UNCHANGED <<now, account, status, pledged>>,
         mailed' \in {mailed, [mailed EXCEPT ![run[e].sw] = @ + 1]}
  PROVE  ANext
<1>1. run[e].sw \in Owed /\ Owed' = Owed \ {run[e].sw} /\ run[e].sw \in Switch
  BY OwedLess DEF Owed
<1>2. phase' = phase  BY PhaseStays
<1>3. CASE mailed' = mailed
  <2>1. Abstract!Drop(run[e].sw)  BY <1>1, <1>2, <1>3 DEF Abstract!Drop, phase
  <2> QED BY <1>1, <2>1 DEF ANext, Abstract!Next
<1>4. CASE mailed' = [mailed EXCEPT ![run[e].sw] = @ + 1]
  <2>1. Abstract!Deliver(run[e].sw)  BY <1>1, <1>2, <1>4 DEF Abstract!Deliver, phase
  <2> QED BY <1>1, <2>1 DEF ANext, Abstract!Next
<1> QED BY <1>3, <1>4

\* Where a run is after it moves.
LEMMA RunTos ==
  ASSUME IInv, NEW e \in Executor, NEW pc \in RunStep, RunTo(e, pc)
  PROVE  /\ \A f \in Executor \ {e} : run'[f] = run[f]
         /\ run'[e].at = pc /\ (pc # "idle" => run'[e].sw = run[e].sw)
<1>1. run \in [Executor -> RunRecord]  BY DEF IInv, TypeInv, TypeOK
<1> QED BY <1>1 DEF RunTo, RunRecord, IdleRun

\* A run that begins changes nothing owed.
LEMMA RunStartOwed == ASSUME IInv, NEW e \in Executor, NEW s \in Switch, RunStart(e, s) PROVE Owed' = Owed
<1>1. run \in [Executor -> RunRecord]  BY DEF IInv, TypeInv, TypeOK
<1>2. ~Writing(e) /\ ~Writing(e)' /\ \A f \in Executor \ {e} : run'[f] = run[f]
  BY <1>1 DEF RunStart, Writing, IdleRun
<1> QED BY <1>2, RunOwed

\* The cron's own steps refine the abstract steps.
LEMMA SweepRefines == ASSUME IInv, NEW w \in Sweeper, Sweep(w) PROVE ANext
<1>1. UNCHANGED <<now, account, status, pledged, mailed>>
  BY DEF Sweep, SweepQuery, SweepCall, d1, outbox
<1>2. CASE SweepQuery(w)
  <2>1. Owed' = Owed  BY <1>2, SameOwed DEF SweepQuery
  <2> QED BY <1>1, <2>1, Stutter
<1>3. CASE \E s \in Switch : SweepCall(w, s)
  <2>1. Owed' = Owed  BY <1>3, RunStartOwed DEF SweepCall, Executor
  <2> QED BY <1>1, <2>1, Stutter
<1> QED BY <1>2, <1>3 DEF Sweep

\* Alarms, and runs that fail, refine them.
LEMMA ExecuteRefines == ASSUME IInv, Execute PROVE ANext
<1>1. UNCHANGED <<now, account, status, pledged, mailed>>
  BY DEF Execute, AlarmFire, FailSweep, FailRun, d1, outbox
<1>2. ASSUME NEW s \in Switch, AlarmFire(s) PROVE ANext
  <2>1. Owed' = Owed  BY <1>2, RunStartOwed, SameOwed DEF AlarmFire, Executor
  <2> QED BY <1>1, <2>1, Stutter
<1>3. ASSUME NEW w \in Sweeper, FailSweep(w) PROVE ANext
  <2>1. Owed' = Owed  BY <1>3, SameOwed DEF FailSweep
  <2> QED BY <1>1, <2>1, Stutter
<1>4. ASSUME NEW e \in Executor, FailRun(e) PROVE ANext
  <2>1. /\ \A f \in Executor \ {e} : run'[f] = run[f]
        /\ ~Writing(e)'
    BY <1>4, RunTos DEF FailRun, RunStep, Writing
  <2>2. CASE Writing(e)  BY <1>1, <2>1, <2>2, ADrop
  <2>3. CASE ~Writing(e)
    <3>1. Owed' = Owed  BY <2>1, <2>3, RunOwed
    <3> QED BY <1>1, <3>1, Stutter
  <2> QED BY <2>2, <2>3
<1> QED BY <1>2, <1>3, <1>4 DEF Execute

\* The conditional UPDATE is an abstract Release, after the promised deadline, or nothing.
LEMMA UpdateRefines == ASSUME IInv, NEW e \in Executor, Release(e), ReleaseUpdate(e) PROVE ANext
<1>0. /\ run \in [Executor -> RunRecord] /\ run[e].at = "update" /\ run[e].sw \in Switch
      /\ status \in [Switch -> Status] /\ now \in Nat /\ run[e].exp \in Nat /\ pledged \in [Switch -> Nat]
  BY DEF IInv, TypeInv, TypeOK, RunOK, RunRecord, ReleaseUpdate, RunStepTo
<1>1. UNCHANGED <<now, account, pledged, mailed>>  BY DEF Release, ReleaseUpdate, outbox
<1>2. PICK s \in Switch : s = run[e].sw  BY <1>0
<1>3. CASE status[s] # "armed"
  <2>1. UNCHANGED status  BY <1>0, <1>2, <1>3 DEF ReleaseUpdate
  <2>2. RunTo(e, "idle")  BY <1>2, <1>3 DEF ReleaseUpdate, RunStepTo
  <2>3. ~Writing(e) /\ ~Writing(e)' /\ \A f \in Executor \ {e} : run'[f] = run[f]
    BY <1>0, <2>2, RunTos DEF Writing, RunStep
  <2>4. Owed' = Owed  BY <2>3, RunOwed
  <2> QED BY <1>1, <2>1, <2>4, Stutter
<1>4. CASE status[s] = "armed"
  <2>1. status' = [status EXCEPT ![s] = "released"]  BY <1>0, <1>2, <1>4 DEF ReleaseUpdate
  <2>2. phase' = [phase EXCEPT ![s] = Phase(s)']  BY <1>0, <1>1, <2>1, PhaseMoves
  <2>3. Phase(s) = "armed" /\ Phase(s)' = "released"
    <3>1. status[s] \in Status /\ status'[s] \in Status /\ status'[s] = "released"
      BY <1>0, <2>1 DEF Status
    <3> QED BY <1>4, <3>1, PhaseIs, PhaseIsNext
  <2>4. RunTo(e, "token")  BY <1>2, <1>4 DEF ReleaseUpdate, RunStepTo
  <2>5. /\ \A f \in Executor \ {e} : run'[f] = run[f]
        /\ run'[e].at = "token" /\ run'[e].sw = s
    BY <1>2, <2>4, RunTos DEF RunStep
  <2>6. Owed' = Owed \cup {s}
    <3>1. Owed = {x \in Switch : \E f \in Executor : run[f].sw = x /\ Writing(f)}  BY DEF Owed, Writing
    <3>2. Owed' = {x \in Switch : \E f \in Executor : run'[f].sw = x /\ Writing(f)'}  BY DEF Owed, Writing
    <3>3. /\ \A f \in Executor \ {e} : Writing(f)' = Writing(f) /\ run'[f].sw = run[f].sw
          /\ ~Writing(e) /\ Writing(e)'
      BY <1>0, <2>5 DEF Writing
    <3> QED BY <2>5, <3>1, <3>2, <3>3
  <2>7. pledged[s] <= now  BY <1>0, <1>2 DEF IInv, DeadlineInv, Deciding
  <2>8. Abstract!Release(s)
    BY <1>1, <2>2, <2>3, <2>6, <2>7 DEF Abstract!Release, Abstract!Move, phase
  <2> QED BY <2>8 DEF ANext, Abstract!Next
<1> QED BY <1>3, <1>4

\* release() refines them.
LEMMA ReleaseRefines == ASSUME IInv, NEW e \in Executor, Release(e) PROVE ANext
<1> USE DEF RunStep
<1>1. CASE ReleaseSelect(e) \/ ReleaseCheck(e) \/ ReleaseLog(e) \/ ReleaseDisarm(e)
  <2>1. UNCHANGED <<now, account, status, pledged, mailed>>
    BY <1>1 DEF Release, ReleaseSelect, ReleaseCheck, ReleaseLog, ReleaseDisarm, d1, outbox
  <2>2. ~Writing(e) /\ ~Writing(e)' /\ \A f \in Executor \ {e} : run'[f] = run[f]
    <3>1. CASE ReleaseSelect(e) /\ status[run[e].sw] = "armed"
      <4>1. run \in [Executor -> RunRecord]  BY DEF IInv, TypeInv, TypeOK
      <4> QED BY <3>1, <4>1 DEF ReleaseSelect, RunRecord, Writing
    <3>2. CASE ReleaseSelect(e) /\ status[run[e].sw] # "armed"
      BY <3>2, RunTos DEF ReleaseSelect, Writing
    <3>3. CASE ReleaseCheck(e)  BY <3>3, RunTos DEF ReleaseCheck, RunStepTo, Writing
    <3>4. CASE ReleaseLog(e) \/ ReleaseDisarm(e)
      BY <3>4, RunTos DEF ReleaseLog, ReleaseDisarm, RunStepTo, Writing
    <3> QED BY <1>1, <3>1, <3>2, <3>3, <3>4
  <2>3. Owed' = Owed  BY <2>2, RunOwed
  <2> QED BY <2>1, <2>3, Stutter
<1>2. CASE ReleaseToken(e)
  <2>1. UNCHANGED <<now, account, status, pledged, mailed>>
    BY <1>2 DEF Release, ReleaseToken, d1, outbox
  <2>2. Owed' = Owed  BY <1>2, RunTos, OwedStays DEF ReleaseToken, RunStepTo, Writing
  <2> QED BY <2>1, <2>2, Stutter
<1>3. CASE ReleaseMail(e)
  <2>1. UNCHANGED <<now, account, status, pledged>>  BY <1>3 DEF Release, ReleaseMail, d1
  <2>2. Writing(e) /\ ~Writing(e)' /\ \A f \in Executor \ {e} : run'[f] = run[f]
    BY <1>3, RunTos DEF ReleaseMail, RunStepTo, Writing
  <2> QED BY <1>3, <2>1, <2>2, ADrop DEF ReleaseMail
<1> QED BY <1>1, <1>2, <1>3, UpdateRefines DEF Release

\* Every step is an abstract step, or none.
LEMMA NextRefines == ASSUME IInv, TypeInv', [Next]_vars PROVE ANext
<1>1. CASE Tick
  <2>1. Owed' = Owed  BY <1>1, SameOwed DEF Tick, runs
  <2>2. phase' = phase  BY <1>1, PhaseStays DEF Tick, d1
  <2>3. Abstract!Advance  BY <1>1, <2>1, <2>2 DEF Tick, Abstract!Advance, phase, history, outbox
  <2> QED BY <2>3 DEF ANext, Abstract!Next
<1>2. CASE UNCHANGED vars
  <2>1. Owed' = Owed  BY <1>2, SameOwed DEF vars, runs
  <2> QED BY <1>2, <2>1, Stutter DEF vars, d1, history, outbox
<1> QED BY <1>1, <1>2, CreateRefines, HandleRefines, SweepRefines, ExecuteRefines, ReleaseRefines DEF Next

\* The handlers, SwitchTimer objects, cron passes and failures together implement the
\* abstract dead man's switch.
THEOREM ImplementsDeadMansSwitch == Spec => KeepsPromise
<1>1. IInv /\ IInv' /\ [Next]_vars => ANext  BY NextRefines DEF IInv
<1> QED BY <1>1, InitRefines, Invariance, PTL DEF Spec, KeepsPromise, Abstract!Spec, ANext

\* A step leaves what has ended as it is, or purges it.
LEMMA EndedStays ==
  ASSUME IInv, [Next]_vars, NEW s \in Switch
  PROVE  /\ status[s] \in {"released", "duress_purged", "user_purged"} =>
              status'[s] \notin {"pending", "armed"}
         /\ (status[s] = "none" /\ ~account) => status'[s] = "none"
<1>0. make \in [Switch -> MakeRecord] /\ status \in [Switch -> Status]
  BY DEF IInv, TypeInv, TypeOK
<1> SUFFICES ASSUME status' # status
             PROVE  /\ status[s] \in {"released", "duress_purged", "user_purged"} =>
                         status'[s] \notin {"pending", "armed"}
                    /\ (status[s] = "none" /\ ~account) => status'[s] = "none"
  OBVIOUS
<1> USE DEF IInv
<1>1. ASSUME NEW x \in Switch, Create(x), CreateRow(x)
      PROVE  account /\ status[x] = "none" /\ \A y \in Switch \ {x} : status'[y] = status[y]
  BY <1>0, <1>1 DEF CreateRow, Making, RowsInv, Unborn
<1>2. ASSUME NEW r \in Request, Handle(r), RowStep(r) PROVE RowMoves(s)
  BY <1>0, <1>2 DEF RowStep, DefuseCommit, DuressRow, PurgeRow, FinCommit, CloseDrop, RowMoves
<1>3. ASSUME NEW e \in Executor, Release(e)
      PROVE  status[s] = status'[s] \/ (status[s] = "armed" /\ status'[s] = "released")
  BY <1>0, <1>3 DEF Release, ReleaseSelect, ReleaseCheck, ReleaseUpdate, ReleaseToken, ReleaseMail,
                    ReleaseLog, ReleaseDisarm, d1
<1>4. ~Tick /\ ~Execute /\ status # status'
  BY ExecuteCalm DEF Calm, Tick, d1
<1> QED BY <1>1, <1>2, <1>3, <1>4, CreateCalm, HandleCalm, SweepCalm DEF Next, vars, d1, Calm, RowMoves

\* A switch that was released or purged never waits or is armed again, and one that went
\* with its account stays gone (the WHERE clauses of switches.ts:281-283 and
\* SwitchTimer.ts:107-109, and the foreign key on users).
THEOREM NeverComesBack == Spec => NoResurrection
<1>1. IInv /\ [Next]_vars =>
        [\A s \in Switch :
           /\ status[s] \in {"released", "duress_purged", "user_purged"} =>
                status'[s] \notin {"pending", "armed"}
           /\ (status[s] = "none" /\ ~account) => status'[s] = "none"]_vars
  BY EndedStays
<1> QED BY <1>1, Invariance, PTL DEF Spec, NoResurrection

-----------------------------------------------------------------------------
(* What the stores tell of each other                                      *)

\* r has deleted the ciphertext of its switch.
Erased(r) == req[r].at \in {"duressRow", "duressCancel", "logDuress", "notify",
                            "purgeRow", "purgeCancel", "logPurge"}
\* The ciphertext of s is deleted, and its row not yet marked; or its account is being deleted.
Purging(s) == \E r \in Request : \/ req[r].sw = s /\ req[r].at \in {"duressRow", "purgeRow"}
                                 \/ Closing(r)
\* The log has an entry that says s was created.
Announced(s) == Entries(s, "switch_created") # {}

\* Nobody holds, was told of, or is at work on a switch before its row is inserted.
BornInv ==
  /\ \A s \in invited \cup warned : ~Unborn(s)
  /\ \A r \in Request : /\ req[r].sw \in Switch => ~Unborn(req[r].sw)
                        /\ \A s \in req[r].rows : ~Unborn(s)

\* The ciphertext is stored before the row, and leaves only by the hand of a purge.
PayloadInv ==
  /\ \A s \in Switch : make[s].at = "row" => s \in payload
  /\ \A r \in Request : Erased(r) => req[r].sw \notin payload
  /\ \A s \in Switch : status[s] \in {"pending", "armed"} => s \in payload \/ faults > 0 \/ Purging(s)
  /\ PurgedPayloadGone
  /\ DuressNoticeTrue

\* A pending switch has a recipient to seal share B for, and an armed one has share B.
EnvelopeInv ==
  \A s \in Switch : /\ status[s] = "pending" => recip[s] # "none"
                    /\ status[s] = "armed" => s \in envelope

StoreInv == BornInv /\ PayloadInv /\ EnvelopeInv

\* Every initial state satisfies it.
LEMMA InitStoreInv == Init => StoreInv
BY SwitchAssumption DEF Init, StoreInv, BornInv, PayloadInv, EnvelopeInv, PurgedPayloadGone, DuressNoticeTrue,
   Unborn, Erased, Call

-----------------------------------------------------------------------------
\* What most steps have in common: no row changes, but that a run may release an armed one, no
\* ciphertext is stored or deleted, no notice sent, no failure forgotten.
Still ==
  /\ UNCHANGED <<make, req, recip, envelope, payload, warned, invited>>
  /\ \A s \in Switch : status'[s] = status[s] \/ status'[s] = "released"
  /\ faults' \in {faults, faults + 1}

\* A still step keeps what the stores tell of each other.
LEMMA StillKeeps == ASSUME TypeInv, StoreInv, Still PROVE StoreInv'
<1> USE DEF StoreInv, Still
<1>1. BornInv'  BY DEF BornInv, Unborn
<1>2. PayloadInv'
  <2>1. faults \in Nat  BY DEF TypeInv, TypeOK
  <2>2. \A s \in Switch : Purging(s)' = Purging(s)  BY DEF Purging, Closing
  <2> QED BY <2>1, <2>2 DEF PayloadInv, PurgedPayloadGone, DuressNoticeTrue, Erased
<1>3. EnvelopeInv'  BY DEF EnvelopeInv
<1> QED BY <1>1, <1>2, <1>3

\* What was born stays so.
LEMMA BirthStays ==
  ASSUME TypeInv, NEW s \in Switch, Create(s) PROVE \A x \in Switch : Unborn(x)' => Unborn(x)
<1>1. make \in [Switch -> MakeRecord]  BY DEF TypeInv, TypeOK
<1> QED BY <1>1 DEF Create, CreateAdmit, CreateBlob, CreateRow, CreateRefused, CreateLogCreated, CreateLogArmed,
           CreateArm, CreateInvite, FailCreate, Making, Unborn, MakeRecord

\* POST /api/switches stores the ciphertext before the row.
LEMMA CreateStore == ASSUME IInv, StoreInv, NEW s \in Switch, Create(s) PROVE StoreInv'
<1>0. /\ make \in [Switch -> MakeRecord] /\ faults \in Nat /\ RowsInv
      /\ invited \subseteq Switch /\ warned \subseteq Switch
      /\ status \in [Switch -> Status] /\ recip \in [Switch -> RecipientStatus]
      /\ req \in [Request -> ReqRecord]
  BY DEF IInv, TypeInv, TypeOK
<1>1. UNCHANGED <<req, warned>>
  BY DEF Create, CreateAdmit, CreateBlob, CreateRow, CreateRefused, CreateLogCreated, CreateLogArmed, CreateArm,
         CreateInvite, FailCreate, outbox
<1>2. \A x \in Switch : Unborn(x)' => Unborn(x)  BY BirthStays DEF IInv
<1>3. \A x \in Switch : Purging(x)' = Purging(x)  BY <1>1 DEF Purging, Closing
<1>4. BornInv'
  <2>1. invited' \subseteq invited \cup {s} /\ (s \in invited' \ invited => ~Unborn(s)')
    BY <1>0 DEF Create, CreateAdmit, CreateBlob, CreateRow, CreateRefused, CreateLogCreated, CreateLogArmed,
              CreateArm, CreateInvite, FailCreate, outbox, Making, Unborn, MakeRecord
  <2> QED BY <1>0, <1>1, <1>2, <2>1 DEF StoreInv, BornInv, ReqRecord
<1>5. CASE CreateBlob(s)
  <2>1. Unborn(s) /\ status[s] = "none" /\ s \notin warned
        /\ \A r \in Request : req[r].sw # s
    BY <1>0, <1>5 DEF CreateBlob, Unborn, RowsInv, StoreInv, BornInv
  <2>2. PayloadInv'
    BY <1>0, <1>1, <1>3, <1>5, <2>1 DEF CreateBlob, StoreInv, PayloadInv, PurgedPayloadGone, DuressNoticeTrue,
        Erased, d1, MakeRecord
  <2>3. EnvelopeInv'  BY <1>5 DEF CreateBlob, d1, StoreInv, EnvelopeInv
  <2> QED BY <1>4, <2>2, <2>3 DEF StoreInv
<1>6. CASE CreateRow(s)
  <2>1. s \in payload  BY <1>6 DEF CreateRow, Making, StoreInv, PayloadInv
  <2>2. PayloadInv'
    BY <1>0, <1>1, <1>3, <1>6, <2>1 DEF CreateRow, Making, StoreInv, PayloadInv, PurgedPayloadGone,
        DuressNoticeTrue, Erased, store, MakeRecord
  <2>3. EnvelopeInv'  BY <1>0, <1>6 DEF CreateRow, StoreInv, EnvelopeInv
  <2> QED BY <1>4, <2>2, <2>3 DEF StoreInv
<1>7. CASE ~CreateBlob(s) /\ ~CreateRow(s)
  <2>1. UNCHANGED <<d1, payload>> /\ faults' \in {faults, faults + 1}
        /\ \A x \in Switch : make'[x].at = "row" => make[x].at = "row"
    BY <1>0, <1>7 DEF Create, CreateAdmit, CreateRefused, CreateLogCreated, CreateLogArmed, CreateArm, Arm,
         LostCall, CreateInvite, FailCreate, Fault, store, Making, MakeRecord
  <2>2. PayloadInv'
    BY <1>0, <1>1, <1>3, <2>1 DEF StoreInv, PayloadInv, PurgedPayloadGone, DuressNoticeTrue, Erased, d1
  <2>3. EnvelopeInv'  BY <2>1 DEF d1, StoreInv, EnvelopeInv
  <2> QED BY <1>4, <2>2, <2>3 DEF StoreInv
<1> QED BY <1>5, <1>6, <1>7

-----------------------------------------------------------------------------
\* A step of a request moves no other one.
LEMMA HandleOne ==
  ASSUME TypeInv, NEW r \in Request, Handle(r)
  PROVE  /\ req \in [Request -> ReqRecord] /\ req' \in [Request -> ReqRecord]
         /\ \A x \in Request \ {r} : req'[x] = req[x]
<1>1. TypeInv'  BY HandleType
<1>2. req \in [Request -> ReqRecord] /\ req' \in [Request -> ReqRecord]  BY <1>1 DEF TypeInv, TypeOK
<1>3. \A x \in Request \ {r} : req'[x] = req[x]
  BY <1>2 DEF Handle, Checkin, CheckinRead, VerifyDefuse, DefuseCommit, DefuseExtend, DefuseLog, VerifyDuress,
     DuressBlob, DuressRow, DuressCancel, DuressLog, DuressNotify, Delete, DeleteRead, PurgeBlob, PurgeRow,
     PurgeCancel, PurgeLog, Finalize, EnrollRead, EnrollCommit, EnrollLog, FinRead, FinRecipient, FinCommit,
     FinArm, FinLog, Close, CloseRead, CloseCancel, CloseBlob, CloseLog, CloseDrop, CloseDone, FailReq, Begin,
     Goto, Step, CallTimer, DeleteBlob, AppendLog
<1> QED BY <1>2, <1>3

\* Where a request is after it moves to another step.
LEMMA GotoGoes ==
  ASSUME TypeInv, NEW r \in Request, NEW pc, Goto(r, pc)
  PROVE  /\ req'[r].at = pc
         /\ req'[r].sw = (IF pc = "done" THEN Owner ELSE req[r].sw)
         /\ req'[r].rows = (IF pc = "done" THEN {} ELSE req[r].rows)
BY DEF Goto, Call, TypeInv, TypeOK, ReqRecord

\* Requests only take up switches that have been born.
LEMMA HandleBorn == ASSUME IInv, StoreInv, NEW r \in Request, Handle(r) PROVE BornInv'
<1>0. /\ req \in [Request -> ReqRecord] /\ req' \in [Request -> ReqRecord]
      /\ \A x \in Request \ {r} : req'[x] = req[x]
  BY HandleOne DEF IInv
<1>1. UNCHANGED make  BY DEF Handle
<1>2. /\ req'[r].sw = req[r].sw \/ req'[r].sw = Owner \/ (req'[r].sw \in Switch /\ ~Unborn(req'[r].sw))
      /\ \A s \in req'[r].rows : ~Unborn(s)
  <2>1. \A s \in Switch : status[s] # "none" => ~Unborn(s)  BY DEF IInv, RowsInv
  <2>2. ASSUME NEW s \in Switch, CheckinRead(r, s) \/ DeleteRead(r, s) \/ EnrollRead(r, s) \/ FinRead(r, s)
        PROVE  ~Unborn(s) /\ req'[r].sw = s /\ req'[r].rows = {}
    BY <1>0, <2>1, <2>2 DEF CheckinRead, DeleteRead, EnrollRead, FinRead, Begin, Call, StoreInv, BornInv
  <2>3. CASE CloseRead(r)  BY <1>0, <2>1, <2>3 DEF CloseRead, Call
  <2>4. ASSUME NEW s \in Switch, CloseCancel(r, s) PROVE ~Unborn(s) /\ req'[r].sw = s /\ req'[r].rows = req[r].rows
    BY <1>0, <2>4 DEF CloseCancel, StoreInv, BornInv, ReqRecord
  <2>5. CASE CloseLog(r)  BY <1>0, <2>5 DEF CloseLog, Call, StoreInv, BornInv
  <2>6. CASE \/ VerifyDefuse(r) \/ DefuseCommit(r) \/ DefuseExtend(r) \/ DefuseLog(r) \/ VerifyDuress(r)
             \/ DuressBlob(r) \/ DuressRow(r) \/ DuressCancel(r) \/ DuressLog(r) \/ DuressNotify(r)
             \/ PurgeBlob(r) \/ PurgeRow(r) \/ PurgeCancel(r) \/ PurgeLog(r) \/ EnrollCommit(r) \/ EnrollLog(r)
             \/ FinRecipient(r) \/ FinCommit(r) \/ FinArm(r) \/ FinLog(r)
             \/ CloseBlob(r) \/ CloseDrop(r) \/ CloseDone(r) \/ FailReq(r)
    <3>1. VerifyDefuse(r) \/ \E pc \in ReqStep : Goto(r, pc)
      BY <2>6 DEF DefuseCommit, DefuseExtend, DefuseLog, VerifyDuress, DuressBlob, DuressRow, DuressCancel,
         DuressLog, DuressNotify, PurgeBlob, PurgeRow, PurgeCancel, PurgeLog, EnrollCommit, EnrollLog,
         FinRecipient, FinCommit, FinArm, FinLog, CloseBlob, CloseDrop, CloseDone, FailReq, Step, CallTimer,
         DeleteBlob, AppendLog, ReqStep
    <3>2. (req'[r].sw = req[r].sw /\ req'[r].rows = req[r].rows) \/ (req'[r].sw = Owner /\ req'[r].rows = {})
      <4>1. req[r] \in ReqRecord  BY <1>0
      <4>2. CASE VerifyDefuse(r)  BY <1>0, <4>1, <4>2 DEF VerifyDefuse, ReqRecord
      <4>3. CASE Goto(r, "done")  BY <1>0, <4>3 DEF Goto, Call
      <4>4. ASSUME NEW pc \in ReqStep \ {"done"}, Goto(r, pc)
            PROVE  req'[r].sw = req[r].sw /\ req'[r].rows = req[r].rows
        BY <1>0, <4>1, <4>4 DEF Goto, ReqRecord
      <4> QED BY <3>1, <4>2, <4>3, <4>4
    <3> QED BY <3>2 DEF StoreInv, BornInv
  <2> QED BY <2>2, <2>3, <2>4, <2>5, <2>6 DEF Handle, Checkin, Delete, Finalize, Close, StoreInv, BornInv
<1>3. invited' = invited /\ (\A s \in warned' \ warned : s = req[r].sw) /\ warned' \subseteq Switch
  BY <1>0, HandleType DEF IInv, TypeInv, TypeOK, Handle, Checkin, CheckinRead, VerifyDefuse, DefuseCommit,
     DefuseExtend, DefuseLog, VerifyDuress, DuressBlob, DuressRow, DuressCancel, DuressLog, DuressNotify, Delete, DeleteRead, PurgeBlob, PurgeRow,
     PurgeCancel, PurgeLog, Finalize, EnrollRead, EnrollCommit, EnrollLog, FinRead, FinRecipient, FinCommit,
     FinArm, FinLog, Close, CloseRead, CloseCancel, CloseBlob, CloseLog, CloseDrop, CloseDone, FailReq, Begin,
     Goto, Step, CallTimer, DeleteBlob, AppendLog, outbox, ReqRecord
<1> QED BY <1>0, <1>1, <1>2, <1>3, SwitchAssumption DEF StoreInv, BornInv, Unborn

\* A request that begins holds what it was asked, and nothing more.
LEMMA BeginIs ==
  ASSUME NEW r \in Request, req \in [Request -> ReqRecord], NEW pc, NEW s, NEW d, Begin(r, pc, s, d)
  PROVE  req[r].at = "ready" /\ req'[r].at = pc /\ req'[r].sw = s /\ req'[r].rows = {}
<1> DEFINE begun == [Call(pc) EXCEPT !.sw = s, !.dl = d]
<1>1. begun.at = pc /\ begun.sw = s /\ begun.rows = {}
  <2> DEFINE base == Call(pc)
  <2>1. base \in [at : {pc}, sw : {Owner}, dl : {0}, rows : {{}}]  BY DEF Call
  <2> HIDE DEF base
  <2>2. /\ [base EXCEPT !.sw = s, !.dl = d].at = pc
        /\ [base EXCEPT !.sw = s, !.dl = d].sw = s
        /\ [base EXCEPT !.sw = s, !.dl = d].rows = {}
    BY <2>1
  <2> QED BY <2>2 DEF base
<1>2. req[r].at = "ready" /\ req' = [req EXCEPT ![r] = begun]  BY DEF Begin
<1> HIDE DEF begun
<1> QED BY <1>1, <1>2

\* What a request's step does to ciphertexts and rows: it deletes a ciphertext only to go on with
\* the purge, or else fails, and marks a row as purged, and tells of it, only after that.
Purges(r) ==
  /\ payload' \subseteq payload /\ faults' \in {faults, faults + 1}
  /\ Erased(r)' => req'[r].sw \notin payload'
  /\ \A s \in Switch :
       /\ (s \in payload \ payload' \/ Purging(s)) =>
            Purging(s)' \/ faults' > faults \/ status'[s] \notin {"pending", "armed"}
       /\ status'[s] \in {"pending", "armed"} => status[s] \in {"pending", "armed"}
       /\ status'[s] \in {"duress_purged", "user_purged"} =>
            status[s] \in {"duress_purged", "user_purged"} \/ s \notin payload
  /\ warned' \cap payload \subseteq warned

\* Which every step of a request keeps to.
LEMMA HandlePurges == ASSUME IInv, StoreInv, NEW r \in Request, Handle(r) PROVE Purges(r)
<1>0. /\ req \in [Request -> ReqRecord] /\ req' \in [Request -> ReqRecord]
      /\ \A x \in Request \ {r} : req'[x] = req[x]
      /\ req[r] \in ReqRecord /\ faults \in Nat /\ payload \subseteq Switch
      /\ status \in [Switch -> Status]
  BY HandleOne DEF IInv, TypeInv, TypeOK
<1>1. Erased(r) => req[r].sw \notin payload /\ req[r].sw \in Switch
  BY DEF StoreInv, PayloadInv, IInv, TypeInv, ReqOK, Erased, NoSwitch
\* A step that comes from no purge and leads to none.
<1>2. ASSUME UNCHANGED <<payload, warned, faults>>, ~Erased(r)', ~Closing(r) \/ Closing(r)',
             req[r].at \notin {"duressRow", "purgeRow"},
             \A s \in Switch : \/ status'[s] = status[s]
                               \/ status[s] = "pending" /\ status'[s] = "armed"
      PROVE  Purges(r)
  BY <1>0, <1>2 DEF Purges, Purging, Closing, Erased
<1>3. ASSUME NEW s \in Switch, CheckinRead(r, s) \/ DeleteRead(r, s) \/ EnrollRead(r, s) \/ FinRead(r, s)
      PROVE  Purges(r)
  <2>1. PICK pc \in {"verify", "purgeBlob", "enroll", "finRecipient"} : \E d : Begin(r, pc, s, d)
    BY <1>3 DEF CheckinRead, DeleteRead, EnrollRead, FinRead
  <2>2. req[r].at = "ready" /\ req'[r].at = pc  BY <1>0, <2>1, BeginIs
  <2>3. ~Erased(r)' /\ ~Closing(r) /\ req[r].at \notin {"duressRow", "purgeRow"}
    BY <2>2 DEF Erased, Closing
  <2>4. UNCHANGED <<payload, warned, faults, status>>  BY <2>1 DEF Begin, d1, store, outbox
  <2> QED BY <1>2, <2>3, <2>4
<1>4. CASE CloseRead(r)  BY <1>0, <1>2, <1>4 DEF CloseRead, Call, Erased, Closing, d1, store, outbox
<1>5. CASE \/ VerifyDefuse(r) \/ VerifyDuress(r) \/ DefuseCommit(r) \/ DefuseLog(r)
           \/ EnrollCommit(r) \/ EnrollLog(r) \/ FinRecipient(r) \/ FinCommit(r) \/ FinLog(r) \/ CloseDone(r)
  <2>1. UNCHANGED <<payload, warned, faults>>
    BY <1>5 DEF VerifyDefuse, VerifyDuress, DefuseCommit, DefuseLog, EnrollCommit, EnrollLog, FinRecipient,
       FinCommit, FinLog, CloseDone, AppendLog, store, outbox
  <2>2. ~Erased(r)' /\ ~Closing(r) /\ req[r].at \notin {"duressRow", "purgeRow"}
    <3>1. CASE VerifyDefuse(r)  BY <1>0, <3>1 DEF VerifyDefuse, Erased, Closing, ReqRecord
    <3>2. CASE \E from \in {"verify", "defuse", "logCheckin", "enroll", "logEnrolled", "finRecipient",
                            "finCommit", "logFin", "logClosed"},
                  to \in {"duressBlob", "extend", "done", "logEnrolled", "finCommit", "finArm"} :
                  Step(r, from, to)
      <4>1. PICK from \in {"verify", "defuse", "logCheckin", "enroll", "logEnrolled", "finRecipient",
                           "finCommit", "logFin", "logClosed"},
                 to \in {"duressBlob", "extend", "done", "logEnrolled", "finCommit", "finArm"} :
                 Step(r, from, to)
        BY <3>2
      <4>2. req[r].at = from /\ req'[r].at = to  BY <4>1, GotoGoes DEF Step, IInv
      <4> QED BY <4>2 DEF Erased, Closing
    <3> QED BY <1>5, <3>1, <3>2 DEF VerifyDuress, DefuseCommit, DefuseLog, EnrollCommit, EnrollLog, FinRecipient,
       FinCommit, FinLog, CloseDone, AppendLog
  <2>3. \A s \in Switch : status'[s] = status[s] \/ (status[s] = "pending" /\ status'[s] = "armed")
    BY <1>0, <1>5 DEF VerifyDefuse, VerifyDuress, DefuseCommit, DefuseLog, EnrollCommit, EnrollLog, FinRecipient,
       FinCommit, FinLog, CloseDone, AppendLog, d1
  <2> QED BY <1>2, <2>1, <2>2, <2>3
<1>6. CASE DefuseExtend(r) \/ FinArm(r) \/ DuressCancel(r) \/ PurgeCancel(r) \/ DuressLog(r) \/ PurgeLog(r)
  BY <1>0, <1>1, <1>6 DEF DefuseExtend, FinArm, DuressCancel, PurgeCancel, DuressLog, PurgeLog, CallTimer, AppendLog,
     Arm, Extend, Cancel, LostCall, Fault, Step, Goto, Call, Erased, Closing, Purges, Purging, d1, store,
     outbox, ReqRecord
<1>7. CASE DuressBlob(r) \/ PurgeBlob(r)
  BY <1>0, <1>7 DEF DuressBlob, PurgeBlob, DeleteBlob, Step, Goto, Call, Erased, Closing, Purges, Purging, d1,
     outbox, ReqRecord
<1>8. CASE DuressRow(r) \/ PurgeRow(r)
  BY <1>0, <1>1, <1>8 DEF DuressRow, PurgeRow, Step, Goto, Call, Erased, Closing, Purges, Purging, store,
     outbox, ReqRecord
<1>9. CASE DuressNotify(r)
  BY <1>0, <1>1, <1>9 DEF DuressNotify, Step, Goto, Call, Erased, Closing, Purges, Purging, d1, store, ReqRecord
<1>10. CASE CloseBlob(r) \/ CloseLog(r) \/ \E s \in Switch : CloseCancel(r, s)
  <2>1. UNCHANGED <<status, warned>> /\ payload' \subseteq payload /\ faults' \in {faults, faults + 1}
    BY <1>10 DEF CloseBlob, CloseLog, CloseCancel, DeleteBlob, Cancel, LostCall, Fault, d1, store, outbox
  <2>2. Closing(r)' /\ ~Erased(r)'
    <3>1. CASE CloseBlob(r)
      <4>1. Goto(r, "closeLog")  BY <3>1 DEF CloseBlob, DeleteBlob, Step
      <4> QED BY <4>1, GotoGoes DEF IInv, Closing, Erased
    <3>2. CASE CloseLog(r)  BY <1>0, <3>2 DEF CloseLog, Call, Closing, Erased
    <3>3. ASSUME NEW s \in Switch, CloseCancel(r, s) PROVE Closing(r)' /\ ~Erased(r)'
      BY <1>0, <3>3 DEF CloseCancel, Closing, Erased, ReqRecord
    <3> QED BY <1>10, <3>1, <3>2, <3>3
  <2> QED BY <1>0, <2>1, <2>2 DEF Purges, Purging
<1>11. CASE CloseDrop(r)
  BY <1>0, <1>11 DEF CloseDrop, Step, Goto, Call, Erased, Closing, Purges, Purging, store, outbox, ReqRecord
<1>12. CASE FailReq(r)
  BY <1>0, <1>12 DEF FailReq, Fault, Goto, Call, Erased, Closing, Purges, Purging, d1, store, outbox, ReqRecord
<1> QED BY <1>3, <1>4, <1>5, <1>6, <1>7, <1>8, <1>9, <1>10, <1>11, <1>12
        DEF Handle, Checkin, Delete, Finalize, Close

\* A request's step keeps what the stores tell of each other.
LEMMA HandleStore == ASSUME IInv, StoreInv, NEW r \in Request, Handle(r) PROVE StoreInv'
<1>0. /\ req \in [Request -> ReqRecord] /\ req' \in [Request -> ReqRecord]
      /\ \A x \in Request \ {r} : req'[x] = req[x]
      /\ faults \in Nat /\ payload \subseteq Switch /\ make' = make
      /\ status \in [Switch -> Status] /\ recip \in [Switch -> RecipientStatus]
  BY HandleOne DEF IInv, TypeInv, TypeOK, Handle
<1>1. Purges(r)  BY HandlePurges
<1>2. PayloadInv'
  <2>1. (\A s \in Switch : make[s].at = "row" => s \in payload)'
    <3>1. ASSUME NEW s \in Switch, make[s].at = "row" PROVE s \in payload'
      <4>1. s \in payload /\ Unborn(s)  BY <3>1 DEF StoreInv, PayloadInv, Unborn
      <4>2. req[r].sw # s  BY <4>1 DEF StoreInv, BornInv
      <4>3. payload' = payload \/ payload' = payload \ {req[r].sw}
        BY DEF Handle, Checkin, CheckinRead, VerifyDefuse, DefuseCommit, DefuseExtend, DefuseLog, VerifyDuress,
           DuressBlob, DuressRow, DuressCancel, DuressLog, DuressNotify, Delete, DeleteRead, PurgeBlob, PurgeRow,
           PurgeCancel, PurgeLog, Finalize, EnrollRead, EnrollCommit, EnrollLog, FinRead, FinRecipient, FinCommit,
           FinArm, FinLog, Close, CloseRead, CloseCancel, CloseBlob, CloseLog, CloseDrop, CloseDone, FailReq, Begin,
           CallTimer, DeleteBlob, AppendLog, store
      <4> QED BY <4>1, <4>2, <4>3
    <3> QED BY <1>0, <3>1
  <2>2. (\A x \in Request : Erased(x) => req[x].sw \notin payload)'
    BY <1>0, <1>1 DEF Purges, Erased, StoreInv, PayloadInv
  <2>3. (\A s \in Switch : status[s] \in {"pending", "armed"} => s \in payload \/ faults > 0 \/ Purging(s))'
    BY <1>0, <1>1 DEF Purges, StoreInv, PayloadInv
  <2>4. PurgedPayloadGone' /\ DuressNoticeTrue'
    BY <1>1 DEF Purges, StoreInv, PayloadInv, PurgedPayloadGone, DuressNoticeTrue
  <2> QED BY <2>1, <2>2, <2>3, <2>4 DEF PayloadInv
<1>3. EnvelopeInv'
  <2>1. CASE FinCommit(r)  BY <1>0, <2>1 DEF FinCommit, StoreInv, EnvelopeInv, RecipientStatus
  <2>2. CASE EnrollCommit(r)  BY <1>0, <2>2 DEF EnrollCommit, StoreInv, EnvelopeInv
  <2>3. CASE CloseDrop(r)  BY <2>3 DEF CloseDrop, EnvelopeInv
  <2>4. CASE DuressRow(r) \/ PurgeRow(r)  BY <1>0, <2>4 DEF DuressRow, PurgeRow, StoreInv, EnvelopeInv
  <2>5. CASE ~(FinCommit(r) \/ EnrollCommit(r) \/ CloseDrop(r) \/ DuressRow(r) \/ PurgeRow(r))
    <3>1. UNCHANGED <<status, recip, envelope>>
      BY <2>5 DEF Handle, Checkin, CheckinRead, VerifyDefuse, DefuseCommit, DefuseExtend, DefuseLog, VerifyDuress,
         DuressBlob, DuressCancel, DuressLog, DuressNotify, Delete, DeleteRead, PurgeBlob, PurgeCancel, PurgeLog,
         Finalize, EnrollRead, EnrollLog, FinRead, FinRecipient, FinArm, FinLog, Close, CloseRead, CloseCancel,
         CloseBlob, CloseLog, CloseDone, FailReq, Begin, CallTimer, DeleteBlob, AppendLog, d1
    <3> QED BY <3>1 DEF StoreInv, EnvelopeInv
  <2> QED BY <2>1, <2>2, <2>3, <2>4, <2>5
<1> QED BY <1>2, <1>3, HandleBorn DEF StoreInv

\* Every step keeps what the stores tell of each other.
LEMMA NextStoreInv == ASSUME IInv, StoreInv, [Next]_vars PROVE StoreInv'
<1> USE DEF IInv
<1>1. CASE Tick  BY <1>1, StillKeeps DEF Tick, Still, d1, store, outbox, handlers
<1>2. CASE UNCHANGED vars  BY <1>2, StillKeeps DEF vars, Still, d1, store, outbox, handlers
<1>3. CASE Execute
  BY <1>3, StillKeeps DEF Execute, AlarmFire, FailSweep, FailRun, Fault, Still, d1, store, outbox, handlers
<1>4. ASSUME NEW w \in Sweeper, Sweep(w) PROVE StoreInv'
  BY <1>4, StillKeeps DEF Sweep, SweepQuery, SweepCall, Still, d1, store, outbox, handlers
<1>5. ASSUME NEW e \in Executor, Release(e) PROVE StoreInv'
  <2>1. UNCHANGED <<make, req, recip, envelope, payload, warned, invited>> /\ faults' \in {faults, faults + 1}
    BY <1>5 DEF Release, ReleaseSelect, ReleaseCheck, ReleaseUpdate, ReleaseToken, ReleaseMail, ReleaseLog,
       ReleaseDisarm, Fault, d1, store, outbox, handlers
  <2>2. \A s \in Switch : status'[s] = status[s] \/ status'[s] = "released"
    BY <1>5 DEF Release, ReleaseSelect, ReleaseCheck, ReleaseUpdate, ReleaseToken, ReleaseMail, ReleaseLog,
       ReleaseDisarm, d1, TypeInv, TypeOK
  <2> QED BY <2>1, <2>2, StillKeeps DEF Still
<1> QED BY <1>1, <1>2, <1>3, <1>4, <1>5, CreateStore, HandleStore DEF Next

\* What the stores tell of each other holds in every reachable state.
THEOREM StoreInvariance == Spec => []StoreInv
BY InitStoreInv, NextStoreInv, Invariance, PTL DEF Spec

\* Once a row says purged, its ciphertext is gone (checkins.ts:100-102, switches.ts:308-311).
THEOREM PurgeErases == Spec => []PurgedPayloadGone
<1>1. StoreInv => PurgedPayloadGone  BY DEF StoreInv, PayloadInv
<1> QED BY <1>1, StoreInvariance, PTL

\* A recipient who is told of a duress PIN can decrypt nothing (checkins.ts:17-20).
THEOREM NoticeIsTrue == Spec => []DuressNoticeTrue
<1>1. StoreInv => DuressNoticeTrue  BY DEF StoreInv, PayloadInv
<1> QED BY <1>1, StoreInvariance, PTL

\* An armed switch has share B, and its ciphertext unless a purge is under way or has failed
\* (SwitchTimer.ts:99).
THEOREM ArmedDelivers == Spec => []ArmedCanDeliver
<1>1. StoreInv => ArmedCanDeliver  BY DEF StoreInv, PayloadInv, EnvelopeInv, Purging, ArmedCanDeliver
<1> QED BY <1>1, StoreInvariance, PTL

-----------------------------------------------------------------------------
(* The public log                                                           *)

\* r is enrolling a recipient, or arming a switch after an enrollment.
Enrolling(r) == req[r].at \in {"enroll", "logEnrolled", "finCommit", "finArm", "logFin"}

\* Whoever may write, or may lead to, an armed or enrolled entry comes after the created one.
LogInv ==
  /\ \A s \in Switch : make[s].at \in {"logArmed", "invite"} => Announced(s)
  /\ \A s \in Switch : s \in invited \/ recip[s] \in {"enrolled", "test_confirmed"} => Announced(s)
  /\ \A r \in Request : Enrolling(r) => Announced(req[r].sw)
  /\ LogCausality

\* Every initial state satisfies it.
LEMMA InitLogInv == Init => LogInv
BY DEF Init, LogInv, Enrolling, Call, LogCausality, Entries

\* An entry keeps the order of causes and effects, if one about an arming or an enrollment comes
\* after the switch's created entry; and no entry is lost.
LEMMA WriteOrdered ==
  ASSUME TypeOK, LogCausality, NEW x \in Switch \cup {Owner}, NEW event \in Event, Write(x, event),
         event \in {"switch_armed", "recipient_enrolled"} => x \in Switch /\ Announced(x)
  PROVE  /\ LogCausality'
         /\ \A s \in Switch : Announced(s) => Announced(s)'
         /\ event = "switch_created" => Announced(x)'
<1>1. log \in [Switch \cup {Owner} -> Seq(Event)] /\ log[x] \in Seq(Event)  BY DEF TypeOK
<1>2. log'[x] = Append(log[x], event) /\ \A s \in Switch \ {x} : log'[s] = log[s]  BY <1>1 DEF Write
<1>3. /\ DOMAIN log[x] = 1..Len(log[x]) /\ DOMAIN log'[x] = 1..(Len(log[x]) + 1) /\ Len(log[x]) \in Nat
      /\ log'[x][Len(log[x]) + 1] = event
      /\ \A i \in 1..Len(log[x]) : log'[x][i] = log[x][i]
  BY <1>1, <1>2
<1>4. \A i \in 1..Len(log[x]) : i \in 1..(Len(log[x]) + 1) /\ i < Len(log[x]) + 1  BY <1>3
<1>5. \A ev : /\ Entries(x, ev) \subseteq 1..Len(log[x])
              /\ Entries(x, ev)' = Entries(x, ev) \cup {i \in {Len(log[x]) + 1} : event = ev}
  BY <1>3, <1>4 DEF Entries
<1>6. \A s \in Switch \ {x}, ev \in Event : Entries(s, ev)' = Entries(s, ev)  BY <1>2 DEF Entries
<1>7. \A s \in Switch : Announced(s) => Announced(s)'  BY <1>5, <1>6 DEF Announced, Event
<1>8. event = "switch_created" => Announced(x)'  BY <1>5 DEF Announced
<1>9. LogCausality'
  <2>1. ASSUME NEW s \in Switch, NEW i \in (Entries(s, "switch_armed") \cup Entries(s, "recipient_enrolled"))'
        PROVE  \E j \in Entries(s, "switch_created")' : j < i
    <3>1. CASE s # x  BY <1>6, <2>1, <3>1 DEF LogCausality, Event
    <3>2. CASE s = x /\ i \in Entries(x, "switch_armed") \cup Entries(x, "recipient_enrolled")
      BY <1>5, <3>2 DEF LogCausality
    <3>3. CASE s = x /\ i \notin Entries(x, "switch_armed") \cup Entries(x, "recipient_enrolled")
      <4>1. i = Len(log[x]) + 1 /\ event \in {"switch_armed", "recipient_enrolled"}  BY <1>5, <2>1, <3>3
      <4>2. PICK j \in Entries(x, "switch_created") : TRUE  BY <4>1 DEF Announced
      <4> QED BY <1>4, <1>5, <3>3, <4>1, <4>2
    <3> QED BY <3>1, <3>2, <3>3
  <2> QED BY <2>1 DEF LogCausality
<1> QED BY <1>7, <1>8, <1>9

\* What a step does to the log: nothing, or one entry in its order.
Orderly == LogCausality' /\ \A s \in Switch : Announced(s) => Announced(s)'

\* A step that writes nothing, or an entry about neither an arming nor an enrollment, is orderly.
LEMMA OtherOrderly ==
  ASSUME TypeOK, LogCausality, NEW x \in Switch \cup {Owner},
         NEW event \in Event \ {"switch_armed", "recipient_enrolled"}, Write(x, event) \/ UNCHANGED log
  PROVE  Orderly
<1>1. CASE Write(x, event)  BY <1>1, WriteOrdered DEF Orderly
<1>2. CASE UNCHANGED log  BY <1>2 DEF Orderly, LogCausality, Announced, Entries
<1> QED BY <1>1, <1>2

\* POST /api/switches announces a switch before it arms it or invites a recipient.
LEMMA CreateLogKeeps == ASSUME TypeInv, LogInv, NEW s \in Switch, Create(s) PROVE LogInv'
<1>0. /\ make \in [Switch -> MakeRecord] /\ recip \in [Switch -> RecipientStatus] /\ UNCHANGED req /\ TypeOK
      /\ LogCausality /\ invited \subseteq Switch /\ req \in [Request -> ReqRecord]
      /\ \A r \in Request : Enrolling(r) => req[r].sw \in Switch
  BY DEF TypeInv, TypeOK, LogInv, Create, ReqOK, Enrolling, NoSwitch
<1>1. Orderly /\ (CreateLogCreated(s) => Announced(s)')
  <2>1. CASE CreateLogCreated(s)
    <3>1. Write(s, "switch_created")  BY <2>1 DEF CreateLogCreated
    <3> QED BY <1>0, <3>1, WriteOrdered DEF Orderly, Event
  <2>2. CASE CreateLogArmed(s)
    <3>1. Write(s, "switch_armed") /\ Announced(s)  BY <2>2 DEF CreateLogArmed, Making, LogInv
    <3> QED BY <1>0, <2>2, <3>1, WriteOrdered DEF Orderly, Event, CreateLogCreated, CreateLogArmed, Making
  <2>3. CASE ~CreateLogCreated(s) /\ ~CreateLogArmed(s)
    <3>1. UNCHANGED log
      BY <2>3 DEF Create, CreateAdmit, CreateBlob, CreateRow, CreateRefused, CreateArm, CreateInvite, FailCreate
    <3> QED BY <1>0, <2>3, <3>1, OtherOrderly DEF Event
  <2> QED BY <2>1, <2>2, <2>3
<1>2. \A x \in Switch : make'[x].at \in {"logArmed", "invite"} =>
                          make[x].at \in {"logArmed", "invite"} \/ (x = s /\ CreateLogCreated(s))
  BY <1>0 DEF Create, CreateAdmit, CreateBlob, CreateRow, CreateRefused, CreateLogCreated, CreateLogArmed, CreateArm,
     CreateInvite, FailCreate, Making, MakeRecord
<1>3. \A x \in invited' : x \in invited \/ (x = s /\ make[s].at = "invite")
  BY <1>0 DEF Create, CreateAdmit, CreateBlob, CreateRow, CreateRefused, CreateLogCreated, CreateLogArmed, CreateArm,
     CreateInvite, FailCreate, Making, outbox
<1>4. \A x \in Switch : recip'[x] \in {"enrolled", "test_confirmed"} => recip'[x] = recip[x]
  BY <1>0 DEF Create, CreateAdmit, CreateBlob, CreateRow, CreateRefused, CreateLogCreated, CreateLogArmed, CreateArm,
     CreateInvite, FailCreate, d1
<1>5. ASSUME NEW r \in Request, NEW x \in Switch, Enrolling(r)', req'[r].sw = x PROVE Announced(x)'
  BY <1>0, <1>1, <1>5 DEF Orderly, LogInv, Enrolling
<1>6. (\A r \in Request : Enrolling(r) => Announced(req[r].sw))'
  BY <1>0, <1>5 DEF Enrolling, Announced, Entries
<1> QED BY <1>1, <1>2, <1>3, <1>4, <1>6 DEF Orderly, LogInv

\* A request enrolls a recipient, or arms a switch, only after the switch was announced.
LEMMA HandleLogKeeps == ASSUME TypeInv, LogInv, NEW r \in Request, Handle(r) PROVE LogInv'
<1>0. /\ req \in [Request -> ReqRecord] /\ req' \in [Request -> ReqRecord]
      /\ \A x \in Request \ {r} : req'[x] = req[x]
      /\ make' = make /\ recip \in [Switch -> RecipientStatus] /\ TypeOK /\ LogCausality
      /\ \A x \in Request : req[x].at \notin NoSwitch => req[x].sw \in Switch
  BY HandleOne DEF TypeInv, TypeOK, ReqOK, LogInv, Handle
<1>1. Orderly
  <2>1. ASSUME NEW from \in ReqStep, NEW to \in ReqStep, NEW event \in Event \ {"switch_armed", "recipient_enrolled"},
               AppendLog(r, from, event, to)
        PROVE  Orderly
    <3>1. req[r].sw \in Switch \cup {Owner} /\ Write(req[r].sw, event)  BY <1>0, <2>1 DEF AppendLog, ReqRecord
    <3> QED BY <1>0, <3>1, OtherOrderly
  <2>2. ASSUME NEW event \in {"switch_armed", "recipient_enrolled"}, Write(req[r].sw, event), Enrolling(r)
        PROVE  Orderly
    <3>1. req[r].sw \in Switch /\ Announced(req[r].sw)  BY <1>0, <2>2 DEF Enrolling, NoSwitch, LogInv
    <3> QED BY <1>0, <2>2, <3>1, WriteOrdered DEF Orderly, Event
  <2>3. CASE DefuseLog(r)  BY <2>1, <2>3 DEF DefuseLog, ReqStep, Event
  <2>4. CASE DuressLog(r)  BY <2>1, <2>4 DEF DuressLog, ReqStep, Event
  <2>5. CASE PurgeLog(r)   BY <2>1, <2>5 DEF PurgeLog, ReqStep, Event
  <2>6. CASE CloseDone(r)  BY <2>1, <2>6 DEF CloseDone, ReqStep, Event
  <2>7. CASE EnrollLog(r)  BY <2>2, <2>7 DEF EnrollLog, AppendLog, Step, Enrolling
  <2>8. CASE FinLog(r)     BY <2>2, <2>8 DEF FinLog, AppendLog, Step, Enrolling
  <2>9. CASE CloseLog(r)
    <3>1. req[r].sw \in Switch  BY <1>0, <2>9 DEF CloseLog, NoSwitch
    <3> QED BY <1>0, <2>9, <3>1, OtherOrderly DEF CloseLog, Event
  <2>10. CASE ~(DefuseLog(r) \/ DuressLog(r) \/ PurgeLog(r) \/ CloseDone(r) \/ EnrollLog(r) \/ FinLog(r) \/ CloseLog(r))
    <3>1. UNCHANGED log
      BY <2>10 DEF Handle, Checkin, CheckinRead, VerifyDefuse, DefuseCommit, DefuseExtend, VerifyDuress,
         DuressBlob, DuressRow, DuressCancel, DuressNotify, Delete, DeleteRead, PurgeBlob, PurgeRow, PurgeCancel,
         Finalize, EnrollRead, EnrollCommit, FinRead, FinRecipient, FinCommit, FinArm, Close, CloseRead,
         CloseCancel, CloseBlob, CloseDrop, FailReq, Begin, CallTimer, DeleteBlob
    <3> QED BY <1>0, <3>1, OtherOrderly DEF Event
  <2> QED BY <2>3, <2>4, <2>5, <2>6, <2>7, <2>8, <2>9, <2>10
<1>2. \A s \in Switch : recip'[s] \in {"enrolled", "test_confirmed"} =>
        recip[s] \in {"enrolled", "test_confirmed"} \/ (Enrolling(r) /\ req[r].sw = s)
  <2>1. CASE EnrollCommit(r)  BY <1>0, <2>1 DEF EnrollCommit, Step, Enrolling
  <2>2. CASE FinCommit(r)  BY <1>0, <2>2 DEF FinCommit, Step, Enrolling
  <2>3. CASE CloseDrop(r)  BY <2>3 DEF CloseDrop
  <2>4. CASE ~(EnrollCommit(r) \/ FinCommit(r) \/ CloseDrop(r))
    <3>1. UNCHANGED recip
      BY <2>4 DEF Handle, Checkin, CheckinRead, VerifyDefuse, DefuseCommit, DefuseExtend, DefuseLog, VerifyDuress,
         DuressBlob, DuressRow, DuressCancel, DuressLog, DuressNotify, Delete, DeleteRead, PurgeBlob, PurgeRow,
         PurgeCancel, PurgeLog, Finalize, EnrollRead, EnrollLog, FinRead, FinRecipient, FinArm, FinLog, Close,
         CloseRead, CloseCancel, CloseBlob, CloseLog, CloseDone, FailReq, Begin, CallTimer, DeleteBlob, AppendLog, d1
    <3> QED BY <3>1
  <2> QED BY <2>1, <2>2, <2>3, <2>4
<1>3. Enrolling(r)' => /\ req'[r].sw \in Switch
                       /\ \/ Enrolling(r) /\ req'[r].sw = req[r].sw
                          \/ req'[r].sw \in invited
                          \/ recip[req'[r].sw] = "enrolled"
  <2>1. ASSUME NEW s \in Switch, EnrollRead(r, s) PROVE req'[r].sw = s /\ s \in invited
    <3>1. s \in invited /\ Begin(r, "enroll", s, 0)  BY <2>1 DEF EnrollRead
    <3>2. req'[r].sw = s  BY <1>0, <3>1, BeginIs
    <3> QED BY <3>1, <3>2
  <2>2. ASSUME NEW s \in Switch, CheckinRead(r, s) \/ DeleteRead(r, s) \/ FinRead(r, s) PROVE ~Enrolling(r)'
    <3>1. PICK pc \in {"verify", "purgeBlob", "finRecipient"} : \E d : Begin(r, pc, s, d)
      BY <2>2 DEF CheckinRead, DeleteRead, FinRead
    <3>2. req'[r].at = pc  BY <1>0, <3>1, BeginIs
    <3> QED BY <3>2 DEF Enrolling
  <2>3. CASE CloseRead(r) \/ CloseLog(r) \/ VerifyDefuse(r) \/ \E s \in Switch : CloseCancel(r, s)
    <3>1. ASSUME NEW s \in Switch, CloseCancel(r, s) PROVE ~Enrolling(r)'
      BY <1>0, <3>1 DEF CloseCancel, Enrolling, ReqRecord
    <3>2. CASE CloseRead(r) \/ CloseLog(r)  BY <1>0, <3>2 DEF CloseRead, CloseLog, Call, Enrolling
    <3>3. CASE VerifyDefuse(r)  BY <1>0, <3>3 DEF VerifyDefuse, Enrolling, ReqRecord
    <3> QED BY <2>3, <3>1, <3>2, <3>3
  <2>4. CASE EnrollCommit(r) \/ EnrollLog(r) \/ FinCommit(r) \/ FinArm(r) \/ FinLog(r)
    <3>1. PICK pc \in ReqStep : Goto(r, pc)
      BY <2>4 DEF EnrollCommit, EnrollLog, FinCommit, FinArm, FinLog, CallTimer, AppendLog, Step, ReqStep
    <3>2. Enrolling(r)
      BY <2>4 DEF EnrollCommit, EnrollLog, FinCommit, FinArm, FinLog, CallTimer, AppendLog, Step, Enrolling
    <3>3. req[r].sw \in Switch  BY <1>0, <3>2 DEF Enrolling, NoSwitch
    <3> QED BY <3>1, <3>2, <3>3, GotoGoes DEF Enrolling
  <2>5. CASE FinRecipient(r)
    <3>1. CASE recip[req[r].sw] = "enrolled"
      <4>1. Step(r, "finRecipient", "finCommit")  BY <2>5, <3>1 DEF FinRecipient
      <4>2. req[r].sw \in Switch  BY <1>0, <4>1 DEF Step, NoSwitch
      <4> QED BY <3>1, <4>1, <4>2, GotoGoes DEF Step
    <3>2. CASE recip[req[r].sw] # "enrolled"
      <4>1. Goto(r, "done")  BY <2>5, <3>2 DEF FinRecipient, Step
      <4> QED BY <4>1, GotoGoes DEF Enrolling
    <3> QED BY <3>1, <3>2
  <2>6. CASE \/ DefuseCommit(r) \/ DefuseExtend(r) \/ DefuseLog(r) \/ VerifyDuress(r)
             \/ DuressBlob(r) \/ DuressRow(r) \/ DuressCancel(r) \/ DuressLog(r) \/ DuressNotify(r)
             \/ PurgeBlob(r) \/ PurgeRow(r) \/ PurgeCancel(r) \/ PurgeLog(r)
             \/ CloseBlob(r) \/ CloseDrop(r) \/ CloseDone(r) \/ FailReq(r)
    <3>1. \E pc \in ReqStep \ {"enroll", "logEnrolled", "finCommit", "finArm", "logFin"} : Goto(r, pc)
      BY <2>6 DEF DefuseCommit, DefuseExtend, DefuseLog, VerifyDuress, DuressBlob, DuressRow, DuressCancel,
         DuressLog, DuressNotify, PurgeBlob, PurgeRow, PurgeCancel, PurgeLog, CloseBlob, CloseDrop, CloseDone,
         FailReq, Step, CallTimer, DeleteBlob, AppendLog, ReqStep
    <3> QED BY <3>1, GotoGoes DEF Enrolling
  <2> QED BY <2>1, <2>2, <2>3, <2>4, <2>5, <2>6 DEF Handle, Checkin, Delete, Finalize, Close
<1>4. invited' = invited
  BY DEF Handle, Checkin, CheckinRead, VerifyDefuse, DefuseCommit, DefuseExtend, DefuseLog, VerifyDuress,
     DuressBlob, DuressRow, DuressCancel, DuressLog, DuressNotify, Delete, DeleteRead, PurgeBlob, PurgeRow,
     PurgeCancel, PurgeLog, Finalize, EnrollRead, EnrollCommit, EnrollLog, FinRead, FinRecipient, FinCommit,
     FinArm, FinLog, Close, CloseRead, CloseCancel, CloseBlob, CloseLog, CloseDrop, CloseDone, FailReq, Begin,
     CallTimer, DeleteBlob, AppendLog, outbox
<1>5. ASSUME NEW x \in Request, NEW s \in Switch, Enrolling(x)', req'[x].sw = s PROVE Announced(s)'
  <2>1. CASE x = r
    <3>1. Announced(s)  BY <1>3, <1>5, <2>1 DEF LogInv
    <3> QED BY <1>1, <3>1 DEF Orderly
  <2>2. CASE x # r
    <3>1. Announced(s)  BY <1>0, <1>5, <2>2 DEF LogInv, Enrolling
    <3> QED BY <1>1, <3>1 DEF Orderly
  <2> QED BY <2>1, <2>2
<1>6. \A x \in Request : Enrolling(x)' => req'[x].sw \in Switch
  BY HandleType DEF TypeInv, ReqOK, Enrolling, NoSwitch
<1>7. (\A x \in Request : Enrolling(x) => Announced(req[x].sw))'  BY <1>5, <1>6 DEF Enrolling, Announced, Entries
<1>8. \A s \in Switch : recip'[s] \in {"enrolled", "test_confirmed"} => Announced(s)'
  BY <1>1, <1>2 DEF Orderly, LogInv
<1> QED BY <1>0, <1>1, <1>4, <1>7, <1>8 DEF Orderly, LogInv

\* Every step keeps the order of the log.
LEMMA NextLogInv == ASSUME TypeInv, LogInv, [Next]_vars PROVE LogInv'
<1>0. TypeOK /\ LogCausality  BY DEF TypeInv, LogInv
\* A step of no handler.
<1>1. ASSUME Orderly, UNCHANGED <<make, invited, recip, req>> PROVE LogInv'
  <2>1. (\A r \in Request : Enrolling(r) => Announced(req[r].sw))'
    <3>1. ASSUME NEW r \in Request, NEW s \in Switch, Enrolling(r)', req'[r].sw = s PROVE Announced(s)'
      BY <1>1, <3>1 DEF Orderly, LogInv, Enrolling
    <3>2. \A r \in Request : Enrolling(r)' => req'[r].sw \in Switch
      BY <1>1 DEF TypeInv, ReqOK, Enrolling, NoSwitch
    <3> QED BY <3>1, <3>2 DEF Enrolling, Announced, Entries
  <2> QED BY <1>1, <2>1 DEF Orderly, LogInv
<1>2. ASSUME UNCHANGED <<log, make, invited, recip, req>> PROVE LogInv'
  BY <1>0, <1>1, <1>2, OtherOrderly DEF Event
<1>3. CASE Tick \/ UNCHANGED vars  BY <1>2, <1>3 DEF Tick, vars, d1, outbox, handlers
<1>4. CASE Execute  BY <1>2, <1>4 DEF Execute, AlarmFire, FailSweep, FailRun, d1, outbox, handlers
<1>5. ASSUME NEW w \in Sweeper, Sweep(w) PROVE LogInv'
  BY <1>2, <1>5 DEF Sweep, SweepQuery, SweepCall, d1, outbox, handlers
<1>6. ASSUME NEW e \in Executor, Release(e) PROVE LogInv'
  <2>1. UNCHANGED <<make, invited, recip, req>>
    BY <1>6 DEF Release, ReleaseSelect, ReleaseCheck, ReleaseUpdate, ReleaseToken, ReleaseMail, ReleaseLog,
       ReleaseDisarm, d1, outbox, handlers
  <2>2. CASE ReleaseLog(e)
    <3>1. run[e].sw \in Switch  BY <2>2 DEF ReleaseLog, RunStepTo, TypeInv, RunOK
    <3> QED BY <1>0, <1>1, <2>1, <2>2, <3>1, OtherOrderly DEF ReleaseLog, Event
  <2>3. CASE ~ReleaseLog(e)
    BY <1>2, <1>6, <2>1, <2>3 DEF Release, ReleaseSelect, ReleaseCheck, ReleaseUpdate, ReleaseToken, ReleaseMail,
       ReleaseDisarm
  <2> QED BY <2>2, <2>3
<1> QED BY <1>3, <1>4, <1>5, <1>6, CreateLogKeeps, HandleLogKeeps DEF Next

\* In no interleaving does the public log say that a switch is armed, or a recipient enrolled,
\* before it says that the switch was created (switches.ts:132-154, recipients.ts:81-85).
THEOREM CausesFirst == Spec => []LogCausality
<1>1. Init => LogInv  BY InitLogInv
<1>2. TypeInv /\ LogInv /\ [Next]_vars => LogInv'  BY NextLogInv
<1>3. LogInv => LogCausality  BY DEF LogInv
<1> QED BY <1>1, <1>2, <1>3, TypeInvariance, PTL DEF Spec

-----------------------------------------------------------------------------
(* Alarms                                                                   *)

\* The SwitchTimer's own run of release() is on its way to a decision.
OnDuty(s) == run[s].sw = s /\ run[s].at \in {"select", "check", "update"}

\* A timer is given its switchId only after the switch is armed; a run only goes on for a switch
\* that has an envelope, and past the UPDATE for one that was armed no more; and an armed switch
\* whose timer knows its id has an alarm, or its own run on its way.
TimerInv ==
  /\ \A s \in Switch : Unborn(s) \/ status[s] = "pending" => s \notin bound
  /\ \A s \in Switch :
       make[s].at \in {"logArmed", "arm"} \/ (make[s].at = "logCreated" /\ make[s].direct) =>
         status[s] # "pending"
  /\ \A r \in Request : req[r].at = "finArm" => status[req[r].sw] # "pending"
  /\ \A e \in Executor : Deciding(e) => run[e].whole
  /\ \A e \in Executor : run[e].at \in {"token", "mail", "log", "disarm"} =>
       ~Unborn(run[e].sw) /\ status[run[e].sw] \notin {"pending", "armed"}
  /\ \A s \in Switch : status[s] = "armed" /\ s \in bound \ gaveUp => alarm[s] # None \/ OnDuty(s)

\* Every initial state satisfies it.
LEMMA InitTimerInv == Init => TimerInv
BY DEF Init, TimerInv, Call, IdleRun, Deciding

\* POST /api/switches arms the timer only of a switch that is pending no more.
LEMMA CreateTimer == ASSUME IInv, StoreInv, TimerInv, NEW s \in Switch, Create(s) PROVE TimerInv'
<1>0. /\ make \in [Switch -> MakeRecord] /\ RowsInv /\ UNCHANGED <<req, run, gaveUp>>
      /\ bound \subseteq Switch /\ status \in [Switch -> Status] /\ alarm \in [Switch -> Nat \cup {None}]
      /\ None \notin Nat /\ req \in [Request -> ReqRecord] /\ run \in [Executor -> RunRecord]
      /\ \A e \in Executor : run[e].at # "idle" => run[e].sw \in Switch
      /\ \A r \in Request : req[r].at = "finArm" => req[r].sw \in Switch
  BY AlarmAssumption DEF IInv, TypeInv, TypeOK, RunOK, ReqOK, NoSwitch, Create, runs
<1>1. \A x \in Switch : Unborn(x)' => Unborn(x)  BY BirthStays DEF IInv
<1>2. CASE CreateRow(s)
  <2>1. Unborn(s) /\ s \notin bound /\ status[s] = "none"
    BY <1>0, <1>2 DEF CreateRow, Making, Unborn, TimerInv, RowsInv
  <2>2. \A e \in Executor : run[e].at \in {"token", "mail", "log", "disarm"} => run[e].sw # s
    BY <2>1 DEF TimerInv
  <2>3. UNCHANGED <<bound, alarm>> /\ \A x \in Switch \ {s} : status'[x] = status[x] /\ make'[x] = make[x]
    BY <1>0, <1>2 DEF CreateRow, Making, timer
  <2>4. ~Unborn(s)' /\ make'[s].at = "logCreated" /\ (make'[s].direct => status'[s] = "armed")
    BY <1>0, <1>2 DEF CreateRow, Making, Unborn, MakeRecord
  <2>5. \A r \in Request : req[r].at = "finArm" => status'[req[r].sw] # "pending"
    BY <1>0, <1>2, <2>1, <2>3 DEF TimerInv, StoreInv, BornInv
  <2> QED BY <1>0, <2>1, <2>2, <2>3, <2>4, <2>5 DEF TimerInv, Unborn, Deciding, OnDuty
<1>3. CASE CreateArm(s)
  <2>1. make[s].at = "arm" /\ status[s] # "pending" /\ make[s].dl \in Nat /\ UNCHANGED status
    BY <1>0, <1>3 DEF CreateArm, Making, TimerInv, MakeRecord, d1
  <2>2. make' = [make EXCEPT ![s].at = "made"]  BY <1>3 DEF CreateArm, Making
  <2>3. \A x \in Switch \ {s} : make'[x] = make[x]  BY <1>0, <2>2
  <2>4. make'[s].at = "made"  BY <1>0, <2>2 DEF MakeRecord
  <2>5. \/ bound' = bound \cup {s} /\ alarm' = [alarm EXCEPT ![s] = make[s].dl]
        \/ UNCHANGED <<bound, alarm>>
    BY <1>3 DEF CreateArm, Arm, LostCall, timer
  <2>6. ~Unborn(s)  BY <2>1 DEF Unborn
  <2> QED BY <1>0, <1>1, <2>1, <2>3, <2>4, <2>5, <2>6 DEF TimerInv, Unborn, Deciding, OnDuty
<1>4. CASE ~CreateRow(s) /\ ~CreateArm(s)
  <2>1. UNCHANGED <<status, bound, alarm>>
    BY <1>4 DEF Create, CreateAdmit, CreateBlob, CreateRefused, CreateLogCreated, CreateLogArmed, CreateInvite,
       FailCreate, d1, timer
  <2>2. \A x \in Switch :
          make'[x].at \in {"logArmed", "arm"} \/ (make'[x].at = "logCreated" /\ make'[x].direct) =>
          make[x].at \in {"logArmed", "arm"} \/ (make[x].at = "logCreated" /\ make[x].direct)
    BY SMTT(20), <1>0, <1>4 DEF Create, CreateAdmit, CreateBlob, CreateRefused, CreateLogCreated, CreateLogArmed, CreateInvite,
       FailCreate, Making, MakeRecord
  <2> QED BY <1>0, <1>1, <2>1, <2>2 DEF TimerInv, Deciding, OnDuty
<1> QED BY <1>2, <1>3, <1>4

\* What most steps of a request do to alarms: they leave the timers, or set an alarm, or take a
\* timer's switchId away; and no row becomes pending, or armed.
Tends(r) ==
  /\ bound' \subseteq bound
  /\ \A s \in Switch : /\ alarm'[s] = alarm[s] \/ alarm'[s] # None \/ s \notin bound'
                       /\ status'[s] \in {"pending", "armed"} => status'[s] = status[s]
  /\ req'[r].at # "finArm"

\* Such a step keeps the alarms of armed switches.
LEMMA TendsKeeps ==
  ASSUME IInv, TimerInv, NEW r \in Request, Handle(r), Tends(r) PROVE TimerInv'
<1>0. /\ UNCHANGED <<make, run, gaveUp>>
      /\ \A x \in Request \ {r} : req'[x] = req[x]
      /\ \A e \in Executor : run[e].at # "idle" => run[e].sw \in Switch
      /\ \A x \in Request : req[x].at = "finArm" => req[x].sw \in Switch
  BY HandleOne DEF IInv, TypeInv, RunOK, ReqOK, NoSwitch, Handle, runs
<1> QED BY <1>0 DEF TimerInv, Tends, Unborn, Deciding, OnDuty

\* A request keeps the alarms of armed switches.
LEMMA HandleTimer == ASSUME IInv, StoreInv, TimerInv, NEW r \in Request, Handle(r) PROVE TimerInv'
<1>0. /\ req \in [Request -> ReqRecord] /\ req' \in [Request -> ReqRecord]
      /\ \A x \in Request \ {r} : req'[x] = req[x]
      /\ UNCHANGED <<make, run, gaveUp>>
      /\ bound \subseteq Switch /\ status \in [Switch -> Status] /\ alarm \in [Switch -> Nat \cup {None}]
      /\ None \notin Nat
      /\ \A e \in Executor : run[e].at # "idle" => run[e].sw \in Switch
      /\ \A x \in Request : req[x].at \notin NoSwitch => req[x].sw \in Switch /\ ~Unborn(req[x].sw)
  BY AlarmAssumption, HandleOne DEF IInv, TypeInv, TypeOK, RunOK, ReqOK, Handle, runs, StoreInv, BornInv
<1>1. CASE FinCommit(r)
  <2> DEFINE s == req[r].sw
  <2>1. s \in Switch /\ req'[r].at = "finArm" /\ req'[r].sw = s
    BY <1>0, <1>1, GotoGoes DEF FinCommit, Step, NoSwitch, IInv
  <2>2. UNCHANGED timer /\ status' = [status EXCEPT ![s] = IF @ = "pending" THEN "armed" ELSE @]
    BY <1>1 DEF FinCommit
  <2>3. status[s] = "pending" => s \notin bound  BY <2>1 DEF TimerInv
  <2>4. \A e \in Executor : run[e].at \in {"token", "mail", "log", "disarm"} =>
          ~Unborn(run[e].sw) /\ status'[run[e].sw] \notin {"pending", "armed"}
    BY <1>0, <2>1, <2>2 DEF TimerInv
  <2>5. \A x \in Request : req'[x].at = "finArm" => status'[req'[x].sw] # "pending"
    BY <1>0, <2>1, <2>2 DEF TimerInv, NoSwitch
  <2>6. \A x \in Switch : /\ status'[x] = "pending" => status[x] = "pending"
                          /\ status'[x] = "armed" => status[x] = "armed" \/ x \notin bound
    BY <1>0, <2>1, <2>2, <2>3
  <2> QED BY <1>0, <2>2, <2>4, <2>5, <2>6 DEF TimerInv, Unborn, Deciding, OnDuty, timer
<1>2. CASE FinArm(r)
  <2> DEFINE s == req[r].sw
  <2>1. s \in Switch /\ ~Unborn(s) /\ status[s] # "pending" /\ req[r].dl \in Nat /\ req'[r].at = "logFin"
    BY <1>0, <1>2, GotoGoes DEF FinArm, CallTimer, Step, NoSwitch, IInv, TimerInv, ReqRecord
  <2>2. UNCHANGED status  BY <1>2 DEF FinArm, CallTimer, d1
  <2>3. \/ bound' = bound \cup {s} /\ alarm' = [alarm EXCEPT ![s] = req[r].dl]
        \/ UNCHANGED <<bound, alarm>>
    BY <1>2 DEF FinArm, CallTimer, Arm, LostCall, timer
  <2> QED BY <1>0, <2>1, <2>2, <2>3 DEF TimerInv, Unborn, Deciding, OnDuty
<1>3. CASE ~FinCommit(r) /\ ~FinArm(r)
  <2>1. req'[r].at # "finArm"
    <3>1. ASSUME NEW pc \in ReqStep \ {"finArm"}, Goto(r, pc) PROVE req'[r].at # "finArm"
      BY <3>1, GotoGoes DEF IInv
    <3>2. CASE \/ DefuseCommit(r) \/ DefuseExtend(r) \/ DefuseLog(r) \/ VerifyDuress(r)
               \/ DuressBlob(r) \/ DuressRow(r) \/ DuressCancel(r) \/ DuressLog(r) \/ DuressNotify(r)
               \/ PurgeBlob(r) \/ PurgeRow(r) \/ PurgeCancel(r) \/ PurgeLog(r) \/ EnrollCommit(r) \/ EnrollLog(r)
               \/ FinRecipient(r) \/ FinLog(r) \/ CloseBlob(r) \/ CloseDrop(r) \/ CloseDone(r) \/ FailReq(r)
      <4>1. \E pc \in ReqStep \ {"finArm"} : Goto(r, pc)
        BY <3>2 DEF DefuseCommit, DefuseExtend, DefuseLog, VerifyDuress, DuressBlob, DuressRow, DuressCancel,
           DuressLog, DuressNotify, PurgeBlob, PurgeRow, PurgeCancel, PurgeLog, EnrollCommit, EnrollLog,
           FinRecipient, FinLog, CloseBlob, CloseDrop, CloseDone, FailReq, Step, CallTimer, DeleteBlob, AppendLog,
           ReqStep
      <4> QED BY <3>1, <4>1
    <3>3. CASE VerifyDefuse(r) \/ CloseRead(r) \/ CloseLog(r)
      <4>1. req[r] \in ReqRecord  BY <1>0
      <4>2. CASE VerifyDefuse(r)  BY <1>0, <4>1, <4>2 DEF VerifyDefuse, ReqRecord
      <4>3. CASE CloseRead(r)  BY <1>0, <4>3 DEF CloseRead, Call
      <4>4. CASE CloseLog(r)  BY <1>0, <4>4 DEF CloseLog, Call
      <4> QED BY <3>3, <4>2, <4>3, <4>4
    <3>4. ASSUME NEW s \in Switch, CloseCancel(r, s) PROVE req'[r].at # "finArm"
      BY <1>0, <3>4 DEF CloseCancel, ReqRecord
    <3>5. ASSUME NEW s \in Switch, CheckinRead(r, s) \/ DeleteRead(r, s) \/ EnrollRead(r, s) \/ FinRead(r, s)
          PROVE  req'[r].at # "finArm"
      BY <1>0, <3>5 DEF CheckinRead, DeleteRead, EnrollRead, FinRead, Begin, Call
    <3> QED BY <1>3, <3>2, <3>3, <3>4, <3>5 DEF Handle, Checkin, Delete, Finalize, Close
  <2>2. \A s \in Switch : status'[s] \in {"pending", "armed"} => status'[s] = status[s]
    BY <1>0, <1>3 DEF Handle, Checkin, CheckinRead, VerifyDefuse, DefuseCommit, DefuseExtend, DefuseLog, VerifyDuress,
         DuressBlob, DuressRow, DuressCancel, DuressLog, DuressNotify, Delete, DeleteRead, PurgeBlob, PurgeRow,
         PurgeCancel, PurgeLog, Finalize, EnrollRead, EnrollCommit, EnrollLog, FinRead, FinRecipient, FinLog, Close,
         CloseRead, CloseCancel, CloseBlob, CloseLog, CloseDrop, CloseDone, FailReq, Begin, CallTimer, DeleteBlob,
         AppendLog, d1
  <2>3. /\ bound' \subseteq bound
        /\ \A s \in Switch : alarm'[s] = alarm[s] \/ alarm'[s] # None \/ s \notin bound'
    <3>1. req[r].dl \in Nat  BY <1>0 DEF ReqRecord
    <3>2. ASSUME NEW s \in Switch \cup {Owner}, \/ Extend(s, req[r].dl) \/ Cancel(s) \/ LostCall
          PROVE  /\ bound' \subseteq bound
                 /\ \A x \in Switch : alarm'[x] = alarm[x] \/ alarm'[x] # None \/ x \notin bound'
      BY <1>0, <3>1, <3>2 DEF Extend, Cancel, LostCall, timer
    <3>3. CASE DefuseExtend(r) \/ DuressCancel(r) \/ PurgeCancel(r)
      BY <1>0, <3>2, <3>3 DEF DefuseExtend, DuressCancel, PurgeCancel, CallTimer, ReqRecord
    <3>4. CASE \E s \in Switch : CloseCancel(r, s)  BY <3>2, <3>4 DEF CloseCancel
    <3>5. CASE ~(DefuseExtend(r) \/ DuressCancel(r) \/ PurgeCancel(r) \/ \E s \in Switch : CloseCancel(r, s))
      <4>1. UNCHANGED timer
        BY <1>3, <3>5 DEF Handle, Checkin, CheckinRead, VerifyDefuse, DefuseCommit, DefuseLog, VerifyDuress, DuressBlob,
           DuressRow, DuressLog, DuressNotify, Delete, DeleteRead, PurgeBlob, PurgeRow, PurgeLog, Finalize, EnrollRead,
           EnrollCommit, EnrollLog, FinRead, FinRecipient, FinLog, Close, CloseRead, CloseBlob, CloseLog, CloseDrop,
           CloseDone, FailReq, Begin, DeleteBlob, AppendLog
      <4> QED BY <4>1 DEF timer
    <3> QED BY <3>3, <3>4, <3>5
  <2> QED BY <2>1, <2>2, <2>3, TendsKeeps DEF Tends
<1> QED BY <1>1, <1>2, <1>3

\* release() sets again the alarm that it turns away, and takes it down only of a switch that is
\* armed no more.
LEMMA ReleaseTimer == ASSUME IInv, StoreInv, TimerInv, NEW e \in Executor, Release(e) PROVE TimerInv'
<1>0. /\ run \in [Executor -> RunRecord] /\ run[e] \in RunRecord
      /\ UNCHANGED <<make, req, gaveUp, bound>> /\ RowsInv
      /\ bound \subseteq Switch /\ status \in [Switch -> Status] /\ alarm \in [Switch -> Nat \cup {None}]
      /\ None \notin Nat
      /\ \A f \in Executor : run[f].at # "idle" => run[f].sw \in Switch
      /\ \A x \in Request : req[x].at = "finArm" => req[x].sw \in Switch
      /\ Switch \subseteq Executor
  BY AlarmAssumption DEF IInv, TypeInv, TypeOK, RunOK, ReqOK, NoSwitch, Executor, Release, ReleaseSelect, ReleaseCheck,
     ReleaseUpdate, ReleaseToken, ReleaseMail, ReleaseLog, ReleaseDisarm, handlers, timer
<1> DEFINE s == run[e].sw
<1>1. CASE ReleaseSelect(e)
  <2>1. UNCHANGED <<status, alarm>> /\ \A f \in Executor \ {e} : run'[f] = run[f]
    BY <1>0, <1>1 DEF ReleaseSelect, RunTo, d1, timer
  <2>2. CASE status[s] = "armed"
    <3>1. s \in Switch /\ s \in envelope  BY <1>0, <1>1, <2>2 DEF ReleaseSelect, StoreInv, EnvelopeInv
    <3>2. run'[e].at = "check" /\ run'[e].sw = s /\ run'[e].whole
      <4>1. (s \in envelope) = TRUE  BY <3>1
      <4>2. run' = [run EXCEPT ![e] = [@ EXCEPT !.at = "check", !.exp = expiry[s], !.whole = TRUE]]
        BY <1>1, <2>2, <4>1 DEF ReleaseSelect
      <4> QED BY <1>0, <4>2 DEF RunRecord
    <3>3. \A x \in Switch : OnDuty(x) => OnDuty(x)'  BY <1>0, <2>1, <3>2 DEF OnDuty
    <3>4. \A f \in Executor : Deciding(f)' => run'[f].whole  BY <1>0, <2>1, <3>2 DEF TimerInv, Deciding
    <3>5. \A f \in Executor : run'[f].at \in {"token", "mail", "log", "disarm"} => f # e /\ run'[f] = run[f]
      BY <2>1, <3>2
    <3> QED BY <1>0, <2>1, <3>3, <3>4, <3>5 DEF TimerInv, Unborn
  <2>3. CASE status[s] # "armed"
    <3>1. run'[e].at = "idle"  BY <1>0, <1>1, <2>3 DEF ReleaseSelect, RunTo, IdleRun
    <3> QED BY <1>0, <2>1, <2>3, <3>1 DEF TimerInv, Unborn, Deciding, OnDuty
  <2> QED BY <2>2, <2>3
<1>2. CASE ReleaseCheck(e)
  <2>1. UNCHANGED status /\ (\A f \in Executor \ {e} : run'[f] = run[f])
        /\ alarm' = [alarm EXCEPT ![s] = IF run[e].exp > now THEN run[e].exp ELSE @]
        /\ s \in Switch /\ run[e].whole /\ run[e].exp \in Nat /\ now \in Nat
    BY <1>0, <1>2 DEF ReleaseCheck, RunStepTo, RunTo, d1, timer, TimerInv, Deciding, RunRecord, IInv, TypeInv, TypeOK
  <2>2. CASE run[e].exp <= now
    <3>1. run'[e].at = "update" /\ run'[e].sw = s /\ run'[e].whole /\ alarm' = alarm
      BY <1>0, <1>2, <2>1, <2>2 DEF ReleaseCheck, RunStepTo, RunTo, RunRecord
    <3>2. \A x \in Switch : OnDuty(x) => OnDuty(x)'  BY <1>0, <2>1, <3>1 DEF OnDuty
    <3>3. \A f \in Executor : Deciding(f)' => run'[f].whole  BY <1>0, <2>1, <3>1 DEF TimerInv, Deciding
    <3>4. \A f \in Executor : run'[f].at \in {"token", "mail", "log", "disarm"} => f # e /\ run'[f] = run[f]
      BY <2>1, <3>1
    <3> QED BY <1>0, <2>1, <3>1, <3>2, <3>3, <3>4 DEF TimerInv, Unborn
  <2>3. CASE run[e].exp > now
    <3>1. run'[e].at = "idle" /\ alarm' = [alarm EXCEPT ![s] = run[e].exp]
      <4>1. (run[e].exp <= now /\ run[e].whole) = FALSE  BY <2>1, <2>3
      <4>2. RunTo(e, "idle")  BY <1>2, <4>1 DEF ReleaseCheck, RunStepTo
      <4> QED BY <1>0, <2>1, <2>3, <4>2 DEF RunTo, IdleRun
    <3>2. alarm'[s] # None /\ \A x \in Switch \ {s} : alarm'[x] = alarm[x]  BY <1>0, <2>1, <3>1
    <3>3. \A x \in Switch : status[x] = "armed" /\ x \in bound \ gaveUp => alarm'[x] # None \/ OnDuty(x)'
      <4>1. \A x \in Switch \ {s} : OnDuty(x) => x # e /\ OnDuty(x)'  BY <1>0, <2>1 DEF OnDuty
      <4> QED BY <3>2, <4>1 DEF TimerInv
    <3> QED BY <1>0, <2>1, <3>1, <3>3 DEF TimerInv, Unborn, Deciding
  <2> QED BY <2>1, <2>2, <2>3
<1>3. CASE ReleaseUpdate(e)
  <2>1. UNCHANGED alarm /\ (\A f \in Executor \ {e} : run'[f] = run[f]) /\ s \in Switch
        /\ status' = [status EXCEPT ![s] = IF @ = "armed" THEN "released" ELSE @]
    BY <1>0, <1>3 DEF ReleaseUpdate, RunStepTo, RunTo, timer
  <2>2. CASE status[s] = "armed"
    <3>1. ~Unborn(s) /\ status'[s] = "released"  BY <1>0, <2>1, <2>2 DEF RowsInv
    <3>2. run'[e].at = "token" /\ run'[e].sw = s
      BY <1>0, <1>3, <2>2 DEF ReleaseUpdate, RunStepTo, RunTo, RunRecord
    <3>3. \A x \in Switch \ {s} : status'[x] = status[x]  BY <1>0, <2>1
    <3>4. \A x \in Switch : status'[x] = "armed" /\ x \in bound \ gaveUp => alarm'[x] # None \/ OnDuty(x)'
      <4>1. \A x \in Switch \ {s} : OnDuty(x) => x # e /\ OnDuty(x)'  BY <1>0, <2>1 DEF OnDuty
      <4> QED BY <2>1, <3>1, <3>3, <4>1 DEF TimerInv
    <3>5. \A f \in Executor : run'[f].at \in {"token", "mail", "log", "disarm"} =>
            run'[f].sw \in Switch /\ ~Unborn(run[f].sw)
              /\ run'[f].sw = run[f].sw /\ status'[run'[f].sw] \notin {"pending", "armed"}
      BY <1>0, <2>1, <3>1, <3>2, <3>3 DEF TimerInv, Unborn
    <3> QED BY <1>0, <2>1, <3>1, <3>2, <3>3, <3>4, <3>5 DEF TimerInv, Unborn, Deciding
  <2>3. CASE status[s] # "armed"
    <3>1. run'[e].at = "idle" /\ status' = status
      BY <1>0, <1>3, <2>1, <2>3 DEF ReleaseUpdate, RunStepTo, RunTo, IdleRun
    <3> QED BY <1>0, <2>1, <2>3, <3>1 DEF TimerInv, Unborn, Deciding, OnDuty
  <2> QED BY <2>2, <2>3
<1>4. CASE ReleaseToken(e) \/ ReleaseMail(e) \/ ReleaseLog(e)
  <2>1. UNCHANGED <<status, alarm>> /\ (\A f \in Executor \ {e} : run'[f] = run[f])
        /\ run[e].at \in {"token", "mail", "log"}
        /\ run'[e].at \in {"mail", "log", "disarm"} /\ run'[e].sw = s
    BY <1>0, <1>4 DEF ReleaseToken, ReleaseMail, ReleaseLog, RunStepTo, RunTo, RunRecord, d1, timer
  <2> QED BY <1>0, <2>1 DEF TimerInv, Unborn, Deciding, OnDuty
<1>5. CASE ReleaseDisarm(e)
  <2>1. UNCHANGED status /\ (\A f \in Executor \ {e} : run'[f] = run[f]) /\ run[e].at = "disarm"
        /\ run'[e].at = "idle" /\ alarm' = [alarm EXCEPT ![s] = None]
    BY <1>0, <1>5 DEF ReleaseDisarm, RunStepTo, RunTo, IdleRun, d1
  <2>2. status[s] # "armed"  BY <2>1 DEF TimerInv
  <2> QED BY <1>0, <2>1, <2>2 DEF TimerInv, Unborn, Deciding, OnDuty
<1> QED BY <1>1, <1>2, <1>3, <1>4, <1>5 DEF Release

\* An alarm that fires starts its own run; and a run that throws has its alarm set again, or is
\* given up.
LEMMA ExecuteTimer == ASSUME IInv, TimerInv, Execute PROVE TimerInv'
<1>0. /\ run \in [Executor -> RunRecord]
      /\ UNCHANGED <<make, req, bound, status>>
      /\ bound \subseteq Switch /\ alarm \in [Switch -> Nat \cup {None}] /\ now \in Nat
      /\ None \notin Nat /\ gaveUp \subseteq Switch /\ Switch \cap Sweeper = {}
      /\ \A f \in Executor : run[f].at # "idle" => run[f].sw \in Switch
      /\ \A x \in Request : req[x].at = "finArm" => req[x].sw \in Switch
      /\ Switch \subseteq Executor
  BY AlarmAssumption, SwitchAssumption DEF IInv, TypeInv, TypeOK, RunOK, ReqOK, NoSwitch, Executor, Execute, AlarmFire,
     FailSweep, FailRun, handlers, d1, timer
<1>1. ASSUME NEW s \in Switch, AlarmFire(s) PROVE TimerInv'
  <2>1. alarm' = [alarm EXCEPT ![s] = None] /\ UNCHANGED gaveUp  BY <1>1 DEF AlarmFire
  <2>2. CASE s \in bound
    <3> DEFINE r == [IdleRun EXCEPT !.at = "select", !.sw = s]
    <3>1. r.at = "select" /\ r.sw = s  BY DEF IdleRun
    <3>2. run' = [run EXCEPT ![s] = r]  BY <1>1, <2>2 DEF AlarmFire, RunStart
    <3> HIDE DEF r
    <3>3. s \in Executor  BY <1>0
    <3>4. run'[s].at = "select" /\ run'[s].sw = s /\ \A f \in Executor \ {s} : run'[f] = run[f]
      BY <1>0, <3>1, <3>2, <3>3
    <3> QED BY <1>0, <2>1, <3>4 DEF TimerInv, Unborn, Deciding, OnDuty
  <2>3. CASE s \notin bound
    <3>1. UNCHANGED run  BY <1>1, <2>3 DEF AlarmFire
    <3> QED BY <1>0, <2>1, <2>3, <3>1 DEF TimerInv, Unborn, Deciding, OnDuty
  <2> QED BY <2>2, <2>3
<1>2. ASSUME NEW w \in Sweeper, FailSweep(w) PROVE TimerInv'
  BY <1>0, <1>2 DEF FailSweep, timer, TimerInv, Unborn, Deciding, OnDuty
<1>3. ASSUME NEW e \in Executor, FailRun(e) PROVE TimerInv'
  <2>1. run'[e].at = "idle" /\ (\A f \in Executor \ {e} : run'[f] = run[f])
    BY <1>0, <1>3 DEF FailRun, RunTo, IdleRun
  <2>2. /\ \A x \in Switch : alarm[x] # None => alarm'[x] # None
        /\ gaveUp \subseteq gaveUp'
        /\ e \in Switch => alarm'[e] # None \/ e \in gaveUp'
    BY <1>0, <1>3 DEF FailRun
  <2> QED BY <1>0, <2>1, <2>2 DEF TimerInv, Unborn, Deciding, OnDuty
<1> QED BY <1>1, <1>2, <1>3 DEF Execute

\* Every step keeps the alarms of armed switches.
LEMMA NextTimerInv == ASSUME IInv, StoreInv, TimerInv, [Next]_vars PROVE TimerInv'
<1>0. /\ run \in [Executor -> RunRecord] /\ Switch \cap Sweeper = {}
      /\ \A x \in Request : req[x].at = "finArm" => req[x].sw \in Switch
      /\ \A f \in Executor : run[f].at # "idle" => run[f].sw \in Switch
  BY SwitchAssumption DEF IInv, TypeInv, TypeOK, RunOK, ReqOK, NoSwitch
<1>1. CASE Tick \/ UNCHANGED vars
  BY <1>0, <1>1 DEF Tick, vars, d1, timer, handlers, runs, history, TimerInv, Unborn, Deciding, OnDuty
<1>2. ASSUME NEW w \in Sweeper, Sweep(w) PROVE TimerInv'
  <2>1. UNCHANGED <<make, req, status, bound, alarm, gaveUp>>
    BY <1>2 DEF Sweep, SweepQuery, SweepCall, d1, timer, handlers
  <2>2. \A e \in Executor : run'[e] = run[e] \/ (e = w /\ run'[e].at = "select")
    BY <1>0, <1>2 DEF Sweep, SweepQuery, SweepCall, RunStart, IdleRun
  <2> QED BY <1>0, <2>1, <2>2 DEF TimerInv, Unborn, Deciding, OnDuty, Executor
<1> QED BY <1>1, <1>2, CreateTimer, HandleTimer, ReleaseTimer, ExecuteTimer DEF Next

\* An armed switch whose timer knows its id has an alarm set, or a run at work, whatever
\* check-ins, stale alarms, lost calls and failed runs came before (SwitchTimer.ts:86-92).
THEOREM TimerAlwaysCovers == Spec => []TimerCovers
<1>1. TimerInv => TimerCovers
  BY DEF TimerInv, TimerCovers, Working, OnDuty, Executor
<1> QED BY <1>1, InitTimerInv, NextTimerInv, Invariance, StoreInvariance, PTL DEF Spec
=============================================================================
