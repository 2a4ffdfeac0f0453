----------------------------- MODULE StatusPage -----------------------------
(***************************************************************************)
(* What the public is told of the pipeline while the audit log grows: the  *)
(* heartbeat that a cron pass leaves in KV (cron.ts), the three panels     *)
(* that GET /api/status/pipeline makes of three reads (routes/status.ts),  *)
(* the page that polls it every 30 s (status.js), and the signed           *)
(* checkpoint of GET /api/log/root (routes/log.ts).                        *)
(***************************************************************************)
EXTENDS AuditLog, Displays

CONSTANTS
  Sweep,        \* cron passes, which may overlap
  Poll,         \* requests of the page, each made at most once
  Checkpoint,   \* requests of /api/log/root, each made at most once
  MaxVisits,    \* bound: polls and checkpoints of a behaviour
  Dispatch,     \* the events that stand for an email: releases and enrollments
  Never,        \* null: no heartbeat
  OkAge,        \* SWEEPER_OK_MS, and AUDIT_OK_MS
  DegradedAge   \* SWEEPER_DEGRADED_MS, and AUDIT_DEGRADED_MS

ASSUME DispatchAssumption == Dispatch \subseteq Event
ASSUME VisitAssumption == MaxVisits \in Nat
ASSUME AgeAssumption == OkAge \in Nat /\ DegradedAge \in Nat /\ OkAge <= DegradedAge /\ Never \notin Int

VARIABLES
  beat,    \* KV status:sweeper:last_run
  sweep,   \* progress of every cron pass
  poll,    \* progress of every poll of the page, and what it has read
  page,    \* the panels that are shown
  root     \* progress of every checkpoint

statusVars == <<beat, sweep, poll, page, root>>

Ready == [at |-> "ready", asOf |-> 0, seq |-> 0, beat |-> Never, sent |-> 0, whole |-> TRUE]

StatusInit ==
  /\ Init /\ beat \in {Never, -1}   \* no pass was ever made, or one began a step ago
  /\ sweep = [w \in Sweep |-> [at |-> "ready", start |-> 0]]
  /\ poll = [p \in Poll |-> Ready]
  /\ page = [asOf |-> 0, audit |-> "none", sweeper |-> "none", seq |-> 0, sent |-> 0, whole |-> TRUE]
  /\ root = [k \in Checkpoint |-> [at |-> "ready", seq |-> 0, root |-> Genesis, last |-> 0, stamp |-> 0]]

Visits == Cardinality({p \in Poll : poll[p].at # "ready"})
            + Cardinality({k \in Checkpoint : root[k].at # "ready"})
Visit  == Visits < MaxVisits

-----------------------------------------------------------------------------
(* sweepExpired: the time of its start is stored when it has ended.          *)

SweepBegin(w) ==
  /\ sweep[w].at = "ready" /\ sweep' = [sweep EXCEPT ![w] = [at |-> "sweeping", start |-> now]]
  /\ UNCHANGED <<vars, beat, poll, page, root>>

\* With a bug: the heartbeat is the time of the put.
SweepEndNow(w) ==
  /\ sweep[w].at = "sweeping" /\ sweep' = [sweep EXCEPT ![w].at = "done"]
  /\ beat' \in {now, beat}
  /\ UNCHANGED <<vars, poll, page, root>>

\* A put that fails is swallowed.
SweepEnd(w) ==
  /\ sweep[w].at = "sweeping" /\ sweep' = [sweep EXCEPT ![w].at = "done"]
  /\ beat' \in {sweep[w].start, beat}
  /\ UNCHANGED <<vars, poll, page, root>>

-----------------------------------------------------------------------------
(* GET /api/status/pipeline: a read that fails counts as one that found      *)
(* nothing.                                                                  *)

PollTo(p, pc, r) == poll' = [poll EXCEPT ![p] = [r EXCEPT !.at = pc]]
Polled == UNCHANGED <<vars, beat, sweep, root>>

Asked(p) == /\ poll[p].at = "ready" /\ Visit /\ PollTo(p, "audit", [Ready EXCEPT !.asOf = now])
            /\ UNCHANGED page /\ Polled

ReadAudit(p) ==
  /\ poll[p].at = "audit" /\ UNCHANGED page /\ Polled
  /\ \/ PollTo(p, "sweeper", [poll[p] EXCEPT !.seq = Len(rows)])
     \/ PollTo(p, "sweeper", [poll[p] EXCEPT !.whole = FALSE])

ReadBeat(p) ==
  /\ poll[p].at = "sweeper" /\ UNCHANGED page /\ Polled
  /\ \/ PollTo(p, "dispatch", [poll[p] EXCEPT !.beat = beat])
     \/ PollTo(p, "dispatch", [poll[p] EXCEPT !.whole = FALSE])

\* The newest entry that stands for an email.
LastDispatch == LET at == {i \in DOMAIN rows : rows[i].event \in Dispatch}
                IN  IF at = {} THEN 0 ELSE CHOOSE i \in at : \A j \in at : j <= i

\* With a bug: only the newest entry is looked at.
ReadDispatchTop(p) ==
  /\ poll[p].at = "dispatch" /\ UNCHANGED page /\ Polled
  /\ \/ PollTo(p, "answer", [poll[p] EXCEPT !.sent = IF LastDispatch = Len(rows) THEN Len(rows) ELSE 0])
     \/ PollTo(p, "answer", [poll[p] EXCEPT !.whole = FALSE])

ReadDispatch(p) ==
  /\ poll[p].at = "dispatch" /\ UNCHANGED page /\ Polled
  /\ \/ PollTo(p, "answer", [poll[p] EXCEPT !.sent = LastDispatch])
     \/ PollTo(p, "answer", [poll[p] EXCEPT !.whole = FALSE])

\* ageState: each test is made only when those before it fail.
AgeState(at, asOf) == IF at = Never THEN "down"
                      ELSE IF asOf - at <= OkAge THEN "ok"
                      ELSE IF asOf - at <= DegradedAge THEN "degraded"
                      ELSE "down"

\* `sweeperAt ? now - sweeperAt : null` is never asked of a pass at time zero.
Panels(r) == [asOf |-> r.asOf, seq |-> r.seq, sent |-> r.sent, whole |-> r.whole,
              audit   |-> AgeState(IF r.seq = 0 THEN Never ELSE rows[r.seq].at, r.asOf),
              sweeper |-> AgeState(r.beat, r.asOf)]

\* loadPipeline: the answer is shown, or the dots go down and as_of stays.
Shown(p) ==
  /\ poll[p].at = "answer" /\ Polled /\ PollTo(p, "done", Ready)
  /\ page' \in {Panels(poll[p]), [page EXCEPT !.audit = "down", !.sweeper = "down"]}

-----------------------------------------------------------------------------
(* GET /api/log/root                                                         *)

\* With a bug: the checkpoint is dated before its entry is read.
RootReadDated(k) ==
  \/ /\ root[k].at = "ready" /\ Visit /\ root' = [root EXCEPT ![k].at = "stamp", ![k].stamp = now]
     /\ UNCHANGED <<vars, beat, sweep, poll, page>>
  \/ /\ root[k].at = "stamp"
     /\ root' = [root EXCEPT ![k] = [at |-> "signed", seq |-> Len(rows), root |-> LastHash,
                   last |-> IF rows = <<>> THEN 0 ELSE rows[Len(rows)].at, stamp |-> @.stamp]]
     /\ UNCHANGED <<vars, beat, sweep, poll, page>>

RootRead(k) ==
  /\ root[k].at = "ready" /\ Visit
  /\ root' = [root EXCEPT ![k] = [at |-> "stamp", seq |-> Len(rows), root |-> LastHash,
                last |-> IF rows = <<>> THEN 0 ELSE rows[Len(rows)].at, stamp |-> 0]]
  /\ UNCHANGED <<vars, beat, sweep, poll, page>>

RootSign(k) ==
  /\ root[k].at = "stamp" /\ root' = [root EXCEPT ![k].at = "signed", ![k].stamp = now]
  /\ UNCHANGED <<vars, beat, sweep, poll, page>>

PollStep(p) == Asked(p) \/ ReadAudit(p) \/ ReadBeat(p) \/ ReadDispatch(p) \/ Shown(p)

StatusNext ==
  \/ Next /\ UNCHANGED statusVars
  \/ \E w \in Sweep : SweepBegin(w) \/ SweepEnd(w)
  \/ \E p \in Poll : PollStep(p)
  \/ \E k \in Checkpoint : RootRead(k) \/ RootSign(k)

StatusSpec == StatusInit /\ [][StatusNext]_<<vars, statusVars>>

-----------------------------------------------------------------------------
\* The sweeper panel is green only if a pass that began no longer than OkAge
\* before the answer went through all its switches, and yellow only if one did
\* within DegradedAge, however slow a pass is and whatever put is lost
\* (cron.ts:6, 19).
SweeperTold ==
  LET Started     == {sweep[w].start : w \in {v \in Sweep : sweep[v].at = "done"}} \cup {-1}
      Within(age) == \E start \in Started : page.asOf - start <= age
  IN  /\ page.sweeper = "ok" => Within(OkAge)
      /\ page.sweeper = "degraded" => Within(DegradedAge)

\* The panels of one answer agree, though the log grows between its reads: an
\* answer of whole reads never tells of an entry that stands for an email and
\* of no such email, or of an older one.
PanelsAgree ==
  page.whole => \A i \in 1..page.seq : rows[i].event \in Dispatch => i <= page.sent

\* A signed checkpoint is a fact about the log for ever: its root is the hash
\* of the entry with its seq, no younger than the checkpoint, and a mirror that
\* is complete down from there holds that very entry (log.ts:17-40).
CheckpointHolds ==
  \A k \in Checkpoint : LET c == root[k]  got == mirror.pages IN
    c.at = "signed" /\ c.seq > 0 =>
      /\ c.root = rows[c.seq].entry_hash /\ c.last = rows[c.seq].at /\ c.last <= c.stamp
      /\ mirror.done /\ c.seq <= got[1].seq =>
           \E i \in DOMAIN got : got[i].seq = c.seq /\ got[i].entry_hash = c.root

\* Once an answer is drawn, what the page and the others compute of theirs is
\* what they should show: ages, incidents, recent events and controls.
DisplaysTrue ==
  page.audit # "none" => TimesShown /\ BarsShowWorst /\ ActivityLatest /\ ControlsHold
=============================================================================
