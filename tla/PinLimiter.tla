----------------------------- MODULE PinLimiter -----------------------------
(***************************************************************************)
(* The sliding-window limiter of wrong PINs, for one switch and one        *)
(* address: a list of failure times under one KV key, read and written     *)
(* back in two calls (lib/ratelimit.ts, and checkins.ts around it).        *)
(*                                                                         *)
(* A time is kept as its age in steps of the clock, and Window stands for  *)
(* every age that no longer counts, so that the clock need not be bounded. *)
(***************************************************************************)
EXTENDS Lists

CONSTANTS
  Client,      \* check-in requests in flight at once
  Window,      \* WINDOW_MS, and KV_TTL_S
  Threshold    \* THRESHOLD

ASSUME LimitAssumption == Window \in Nat \ {0} /\ Threshold \in Nat \ {0}

VARIABLES
  fails,     \* KV pin-fail:<switch>:<ip>: the ages of the failures, oldest first
  client,    \* progress of every request, and the list it is about to write
  wrong,     \* history: the ages of the failures counted within the window
  guessed,   \* history: the ages of the PINs found wrong since the last right one
  crossed    \* history: a request overlapped another or threw, within the window

vars == <<fails, client, wrong, guessed, crossed>>

Recent(list) == Keep(list, 0..(Window - 1))
Newest(list) == IF Len(list) <= Threshold + 1 THEN list ELSE Tail(list)   \* all the histories need
Older(list)  == [i \in DOMAIN list |-> IF list[i] < Window THEN list[i] + 1 ELSE Window]

\* With a bug: the failures of the hour before still count.
LockedByAll(list) == Len(list) >= Threshold

LockedBy(list) == Len(Recent(list)) >= Threshold
Locked == LockedBy(fails)   \* pinIsLocked

Init ==
  /\ fails = <<>> /\ wrong = <<>> /\ guessed = <<>> /\ crossed = FALSE
  /\ client = [c \in Client |-> [at |-> "ready", list |-> <<>>]]

InFlight == {c \in Client : client[c].at # "ready"}
To(c, pc, list) == client' = [client EXCEPT ![c] = [at |-> pc, list |-> list]]

-----------------------------------------------------------------------------
\* With a bug: a request that is turned away counts as a failure too.
TestLockCounting(c) ==
  /\ client[c].at = "ready"
  /\ IF Locked THEN /\ fails' = Append(Tail(Recent(fails)), 0) /\ UNCHANGED <<client, crossed>>
     ELSE /\ To(c, "verify", <<>>) /\ crossed' = (crossed \/ InFlight # {})
          /\ UNCHANGED fails
  /\ UNCHANGED <<wrong, guessed>>

\* pinIsLocked: a locked request is answered 429 and counts for nothing.
TestLock(c) ==
  /\ client[c].at = "ready" /\ ~Locked
  /\ To(c, "verify", <<>>) /\ crossed' = (crossed \/ InFlight # {})
  /\ UNCHANGED <<fails, wrong, guessed>>

\* verifyPin for both slots: the failure list is dropped, or a failure is due.
RightPin(c) ==
  /\ client[c].at = "verify" /\ To(c, "clear", <<>>) /\ guessed' = <<>>
  /\ UNCHANGED <<fails, wrong, crossed>>

WrongPin(c) ==
  /\ client[c].at = "verify" /\ To(c, "read", <<>>)
  /\ guessed' = Newest(Append(guessed, 0))
  /\ UNCHANGED <<fails, wrong, crossed>>

ClearFailures(c) ==
  /\ client[c].at = "clear" /\ To(c, "ready", <<>>) /\ fails' = <<>>
  /\ UNCHANGED <<wrong, guessed, crossed>>

\* With a bug: the list that was read is written back without the new failure.
RecordReadStale(c) ==
  /\ client[c].at = "read" /\ To(c, "write", Recent(fails))
  /\ wrong' = Newest(Append(wrong, 0))
  /\ UNCHANGED <<fails, guessed, crossed>>

RecordRead(c) ==
  /\ client[c].at = "read" /\ To(c, "write", Append(Recent(fails), 0))
  /\ wrong' = Newest(Append(wrong, 0))
  /\ UNCHANGED <<fails, guessed, crossed>>

RecordWrite(c) ==
  /\ client[c].at = "write" /\ To(c, "ready", <<>>) /\ fails' = client[c].list
  /\ UNCHANGED <<wrong, guessed, crossed>>

\* A KV call throws, and the request with it.
Throw(c) ==
  /\ client[c].at \in {"verify", "clear", "read", "write"} /\ To(c, "ready", <<>>)
  /\ UNCHANGED <<fails, wrong, guessed>> /\ crossed' = TRUE

\* A step of the clock.  KV_TTL_S drops a list an hour after it was written,
\* when nothing on it counts any more; what was wrong long ago is forgotten.
Tick ==
  /\ fails' = IF Recent(Older(fails)) = <<>> THEN <<>> ELSE Older(fails)
  /\ wrong' = Recent(Older(wrong)) /\ guessed' = Recent(Older(guessed))
  /\ client' = [c \in Client |-> [client[c] EXCEPT !.list = Older(@)]]
  /\ crossed' = (crossed /\ (wrong' # <<>> \/ guessed' # <<>> \/ InFlight # {}))

Next ==
  \/ \E c \in Client : \/ TestLock(c) \/ RightPin(c) \/ WrongPin(c) \/ ClearFailures(c)
                       \/ RecordRead(c) \/ RecordWrite(c) \/ Throw(c)
  \/ Tick

Spec == Init /\ [][Next]_vars

\* Time goes on, whatever the requests do.
LiveSpec == Spec /\ WF_vars(Tick)

-----------------------------------------------------------------------------
Ages == Seq(0..Window)

TypeOK ==
  /\ fails \in Ages /\ crossed \in BOOLEAN
  /\ client \in [Client -> [at : {"ready", "verify", "clear", "read", "write"}, list : Ages]]
  /\ wrong \in Seq(0..(Window - 1)) /\ guessed \in Seq(0..(Window - 1))

\* Nobody is locked out who has not, within the last hour, had as many PINs
\* found wrong as the limit allows, however the two KV calls of the requests
\* interleave with each other, with the clock and with a right PIN.
LockIsEarned == Locked => Len(wrong) >= Threshold

\* Requests that come one after the other have at most Threshold PINs found
\* wrong between two right ones, or within an hour (ratelimit.ts:1-2).
GuessesLimited == ~crossed => Len(guessed) <= Threshold

\* A lockout always comes to an end: what is turned away does not prolong it.
LockoutEnds == Locked ~> ~Locked
=============================================================================
