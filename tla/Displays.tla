------------------------------ MODULE Displays ------------------------------
(***************************************************************************)
(* What the pages compute from what they are told: ages and countdowns     *)
(* (status.js, app.js), the bars and the figure of the last days' incidents*)
(* (status.js), the RECENT panel of a switch (switches.ts), and the controls*)
(* of the tweaks panel (tweaks-panel.jsx).  Wording is left out: an age is *)
(* a number and the length of its unit.                                    *)
(***************************************************************************)
EXTENDS Integers, SequencesExt

FmtAge(sec) ==
  IF sec < 60 THEN <<sec, 1>>
  ELSE IF sec < 3600 THEN <<sec \div 60, 60>>
  ELSE IF sec < 86400 THEN <<sec \div 3600, 3600>>
  ELSE <<sec \div 86400, 86400>>

TimeAgo(ms) ==
  LET s == ms \div 1000  m == s \div 60  h == m \div 60 IN
  IF s < 60 THEN <<s, 1>>
  ELSE IF m < 60 THEN <<m, 60>>
  ELSE IF h < 24 THEN <<h, 3600>> ELSE <<h \div 24, 86400>>

MsToDhms(ms) ==
  LET s == ms \div 1000 IN
  IF ms <= 0 THEN [d |-> 0, h |-> 0, m |-> 0, s |-> 0, expired |-> TRUE]
  ELSE [d |-> s \div 86400, h |-> (s % 86400) \div 3600, m |-> (s % 3600) \div 60,
        s |-> s % 60, expired |-> FALSE]

-----------------------------------------------------------------------------
(* Incidents, in the order of the file, and the days that are shown.         *)

Severity(inc) == IF inc.severity = "outage" THEN "down" ELSE "degraded"

\* With a bug: the last incident of a day decides.
WorseLast(state, inc) == Severity(inc)

Worse(state, inc) == IF Severity(inc) = "down" \/ state = "ok" THEN Severity(inc) ELSE state

\* The state of a day after the incidents so far; those of other days leave it alone.
Bar(incidents, day) ==
  LET bar[i \in 0..Len(incidents)] ==
        IF i = 0 THEN "ok"
        ELSE IF incidents[i].day = day THEN Worse(bar[i - 1], incidents[i]) ELSE bar[i - 1]
  IN  bar[Len(incidents)]

OkDays(incidents, days) == Cardinality({d \in days : Bar(incidents, d) = "ok"})

-----------------------------------------------------------------------------
(* GET /api/switches/:id/activity                                            *)

\* An event has its time and the place n it is pushed at: 0 for created, 1 for enrolled, the
\* check-ins after them in the order of their SELECT.  The sort is stable.
Newer(e, f) == e.at > f.at \/ (e.at = f.at /\ e.n < f.n)
Rank(E, e)  == Cardinality({f \in E : Newer(f, e)})

NewestFirst(E) == [i \in 1..Cardinality(E) |-> CHOOSE e \in E : Rank(E, e) = i - 1]
First(list, n) == SubSeq(list, 1, Min({n, Len(list)}))

CheckinRows(checkins) == First(NewestFirst(checkins), 5)

\* The switch's own events, those that have a time, join the five last check-ins.
Activity(own, checkins) == First(NewestFirst(own \cup ToSet(CheckinRows(checkins))), 6)

-----------------------------------------------------------------------------
(* The controls of the tweaks panel, in whole pixels and steps.              *)

\* The option, from 0, under a pointer x pixels into a track of that width.
SegAt(x, width, n) == Min({n - 1, Max({0, (x * n) \div width})})

Bounded(v, min, max) == IF v < min THEN min ELSE IF v > max THEN max ELSE v

\* A drag of dx pixels from val, snapped to the nearest multiple of step.
Scrub(val, dx, step, min, max) ==
  LET raw == val + dx * step IN Bounded(step * ((2 * raw + step) \div (2 * step)), min, max)

-----------------------------------------------------------------------------
\* Seconds around the edges of the units, up to 23 days (TLC's integers end at 2^31 ms).
Edges == {k * u + d : u \in {60, 3600, 86400}, k \in {1, 2, 23}, d \in {-1, 0, 1}}
           \cup {k * u + d : u \in {60, 3600}, k \in {24, 59, 60}, d \in {-1, 0, 1}}

\* The two formatters of an age tell the same one, which is not more than the
\* age and short of it by less than their unit, and the parts of a countdown
\* are its seconds, at the edges of every unit (status.js:8-14, app.js:307-335).
TimeShown(sec, ms) ==
  /\ TimeAgo(ms) = FmtAge(sec)
  /\ LET n == FmtAge(sec)[1]  unit == FmtAge(sec)[2] IN n * unit <= sec /\ sec < (n + 1) * unit
  /\ LET t == MsToDhms(ms) IN
     /\ t.expired <=> ms = 0
     /\ t.d * 86400 + t.h * 3600 + t.m * 60 + t.s = sec /\ t.h < 24 /\ t.m < 60 /\ t.s < 60

TimesShown == \A sec \in Edges \cup {0, 1} : \A ms \in {1000 * sec, 1000 * sec + 999} : TimeShown(sec, ms)

\* A day's bar shows the worst of its incidents, in whatever order the file
\* lists them, and the uptime counts the days without any (status.js:84-113).
BarsShow(file, days) ==
  LET of(day) == {Severity(inc) : inc \in {i \in ToSet(file) : i.day = day}} IN
  /\ \A day \in days : Bar(file, day) = IF "down" \in of(day) THEN "down"
                                        ELSE IF of(day) = {} THEN "ok" ELSE "degraded"
  /\ OkDays(file, days) = Cardinality({d \in days : of(d) = {}})

BarsShowWorst ==
  LET Incident == [day : {0, 1, 2}, severity : {"outage", "degraded", "none"}]
  IN  \A file \in SeqOf(Incident, 3) : BarsShow(file, {1, 2})

\* The RECENT panel lists at most six events of the switch, newest first, and an event is
\* left out only for six newer ones, or a check-in for five newer check-ins (switches.ts:228-254).
ActivityShown(own, checkins) ==
  LET shown == Activity(own, checkins) IN
  /\ Len(shown) <= 6 /\ ToSet(shown) \subseteq own \cup checkins
  /\ \A i, j \in 1..Len(shown) : i < j => Newer(shown[i], shown[j])
  /\ \A e \in (own \cup checkins) \ ToSet(shown) :
       \/ Len(shown) = 6 /\ \A i \in 1..6 : Newer(shown[i], e)
       \/ e \in checkins /\ Rank(checkins, e) >= 5

\* Check-ins in pairs that share a time.
ActivityLatest ==
  \A N \in SUBSET (3..9), enrolled \in {{}, {[at |-> 1, n |-> 1]}} :
    ActivityShown({[at |-> 0, n |-> 0]} \cup enrolled, {[at |-> 1 + (n \div 2), n |-> n] : n \in N})

\* A drag over a track passes its options in order, all of them, and stops at the ends; a
\* scrubbed number is within its limits, and by no more than half a step from where the
\* pointer put it unless a limit is (tweaks-panel.jsx:373-377, 439-454).
TrackHolds(n, width, X) ==
  /\ {SegAt(x, width, n) : x \in 0..(width - 1)} = 0..(n - 1)
  /\ \A x \in X : SegAt(x, width, n) \in 0..(n - 1) /\ SegAt(x, width, n) <= SegAt(x + 1, width, n)

ScrubHolds(val, dx, step, min, max) ==
  LET raw == val + dx * step  r == Scrub(val, dx, step, min, max) IN
  /\ r \in min..max
  /\ r \in {min, max} \/ (2 * (r - raw) <= step /\ 2 * (raw - r) <= step)

ControlsHold ==
  /\ \A n \in 2..3, width \in 3..7 : TrackHolds(n, width, -2..(width + 1))
  /\ \A val \in 0..9, dx \in -4..4, step \in 1..3 : ScrubHolds(val, dx, step, 0, 9)
=============================================================================
