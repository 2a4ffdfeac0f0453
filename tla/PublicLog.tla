------------------------------ MODULE PublicLog ------------------------------
(***************************************************************************)
(* What the audit log promises those who write to it: an append is one     *)
(* step, or none.  AuditLog is such a log; the other modules see no more   *)
(* of it than this (SwitchLifecycle.Write).                                *)
(***************************************************************************)
EXTENDS Naturals, Sequences

CONSTANTS Caller, Subject, Event

VARIABLES
  now,    \* the time
  log,    \* the entries, in the order of their seq
  call    \* what each caller asks to have published, and the answer it has

vars == <<now, log, call>>

Init == /\ now = 0 /\ log = <<>>
        /\ call \in [Caller -> [at : {"asked"}, subject : Subject, event : Event, seq : {0}]]

Answer(c, reply, seq) ==
  call' = [call EXCEPT ![c] = [at |-> reply, subject |-> @.subject, event |-> @.event, seq |-> seq]]

\* The entry is dated between the one before it and now; its caller is told
\* its seq, or gets no answer.
Publish(c) ==
  /\ call[c].at = "asked"
  /\ \E t \in 0..now :
       /\ \A i \in DOMAIN log : log[i].at <= t
       /\ log' = Append(log, [subject |-> call[c].subject, event |-> call[c].event, at |-> t])
  /\ Answer(c, "ok", Len(log) + 1) \/ Answer(c, "failed", 0)
  /\ UNCHANGED now

Refuse(c) == call[c].at = "asked" /\ Answer(c, "failed", 0) /\ UNCHANGED <<now, log>>

Tick == now' = now + 1 /\ UNCHANGED <<log, call>>

Next == Tick \/ \E c \in Caller : Publish(c) \/ Refuse(c)
Spec == Init /\ [][Next]_vars

\* Every entry is of one call that is over, no call has two, and one that was
\* told a seq has the entry there.
Authored ==
  \E by \in [DOMAIN log -> Caller] :
    /\ \A i, j \in DOMAIN log : by[i] = by[j] => i = j
    /\ \A i \in DOMAIN log : LET c == call[by[i]] IN
         c.at # "asked" /\ log[i].subject = c.subject /\ log[i].event = c.event
    /\ \A c \in Caller : call[c].at = "ok" => call[c].seq \in DOMAIN log /\ by[call[c].seq] = c
=============================================================================
