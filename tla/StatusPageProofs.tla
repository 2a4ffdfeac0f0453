-------------------------- MODULE StatusPageProofs --------------------------
(***************************************************************************)
(* Theorems about the audit log, its mirrors and the status page, for any  *)
(* number of appends, pages, cron passes, polls and checkpoints.           *)
(***************************************************************************)
EXTENDS StatusPage, ListsProofs

-----------------------------------------------------------------------------
(* Type correctness of the log                                              *)

Row == [seq : Nat, subject : Subject, event : Event, at : Nat, prev_hash : Hash, entry_hash : Hash,
        signature : Nat \X Event \X Nat \X Hash \X Hash]
CallRecord == [pc : Steps, subject : Subject, event : Event, at : Nat, prev : Hash, seq : Nat]

TypeInv == TypeOK /\ call \in [Caller -> CallRecord]

\* The initial state has the types.
LEMMA InitTypeInv == Init => TypeInv
<1> SUFFICES ASSUME Init PROVE TypeInv  OBVIOUS
<1>1. Genesis \in Hash  BY DEF Hash
<1>2. call \in [Caller -> CallRecord]  BY <1>1 DEF Init, CallRecord, Steps
<1>3. rows \in Seq(Row)  BY DEF Init
<1> QED BY <1>1, <1>2, <1>3 DEF Init, TypeInv, TypeOK, CallRecord, Row

\* What an INSERT makes of the log.
LEMMA InsertAppends ==
  ASSUME TypeInv, NEW c \in Caller, Insert(c)
  PROVE  /\ Len(rows) \in Nat /\ DOMAIN rows = 1..Len(rows)
         /\ Len(rows') = Len(rows) + 1 /\ DOMAIN rows' = 1..(Len(rows) + 1)
         /\ rows'[Len(rows) + 1] = Entry(c)
         /\ \A i \in 1..Len(rows) : i # Len(rows) + 1 /\ i \in 1..(Len(rows) + 1) /\ rows'[i] = rows[i]
         /\ Hash \subseteq Hash' /\ Entry(c).entry_hash \in Hash'
<1>1. rows \in Seq(Row)  BY DEF TypeInv, TypeOK, Row
<1>2. rows' = Append(rows, Entry(c))  BY DEF Insert
<1>3. /\ Len(rows) \in Nat /\ DOMAIN rows = 1..Len(rows)
      /\ Len(rows') = Len(rows) + 1 /\ DOMAIN rows' = 1..(Len(rows) + 1)
      /\ rows'[Len(rows) + 1] = Entry(c)
      /\ \A i \in 1..Len(rows) : i # Len(rows) + 1 /\ i \in 1..(Len(rows) + 1) /\ rows'[i] = rows[i]
  BY <1>1, <1>2
<1>4. Hash \subseteq Hash'  BY <1>3 DEF Hash
<1>5. Entry(c).entry_hash \in Hash'
  <2>1. Len(rows) + 1 \in DOMAIN rows'  BY <1>3
  <2> QED BY <1>3, <2>1 DEF Hash
<1> QED BY <1>3, <1>4, <1>5

\* Every step of the log keeps the types.
LEMMA NextTypeInv == ASSUME TypeInv, [Next]_vars PROVE TypeInv'
<1>0. rows \in Seq(Row) /\ call \in [Caller -> CallRecord] /\ now \in Nat /\ inside \in Caller \cup {NoCaller}
  BY DEF TypeInv, TypeOK, Row
<1>1. Len(rows) \in Nat /\ LastHash \in Hash
  <2>1. Len(rows) \in Nat /\ DOMAIN rows = 1..Len(rows)  BY <1>0
  <2>2. CASE rows = <<>>  BY <2>1, <2>2 DEF LastHash, Hash
  <2>3. CASE rows # <<>>
    <3>1. Len(rows) \in DOMAIN rows  BY <1>0, <2>1, <2>3
    <3> QED BY <2>3, <3>1 DEF LastHash, Hash
  <2> QED BY <2>1, <2>2, <2>3
\* The log stays, and one append moves on.
<1>2. ASSUME UNCHANGED rows, call' \in [Caller -> CallRecord], now' \in Nat, inside' \in Caller \cup {NoCaller}
      PROVE  TypeInv'
  <2>1. Hash' = Hash  BY <1>2 DEF Hash
  <2>2. CallRecord' = CallRecord /\ Row' = Row  BY <2>1 DEF CallRecord, Row
  <2>3. rows' \in Seq(Row')  BY <1>0, <1>2, <2>2
  <2> QED BY <1>2, <2>1, <2>2, <2>3 DEF TypeInv, TypeOK, CallRecord, Row
<1>3. ASSUME NEW c \in Caller, Enter(c) PROVE TypeInv'
  <2>1. [call[c] EXCEPT !.pc = "select", !.at = now] \in CallRecord
    <3>1. call[c] \in CallRecord /\ now \in Nat  BY <1>0
    <3> QED BY <3>1 DEF CallRecord, Steps
  <2>2. call' = [call EXCEPT ![c] = [call[c] EXCEPT !.pc = "select", !.at = now]]  BY <1>0, <1>3 DEF Enter
  <2>3. call' \in [Caller -> CallRecord]  BY <1>0, <2>1, <2>2
  <2> QED BY <1>0, <1>2, <1>3, <2>3 DEF Enter
<1>4. ASSUME NEW c \in Caller, SelectLast(c) PROVE TypeInv'
  <2> DEFINE next == [call[c] EXCEPT !.pc = "insert", !.prev = LastHash, !.seq = Len(rows) + 1]
  <2>a. next \in CallRecord
    <3>1. call[c] \in CallRecord /\ Len(rows) + 1 \in Nat  BY <1>0, <1>1
    <3> QED BY <1>1, <3>1 DEF CallRecord, Steps
  <2>b. call' = [call EXCEPT ![c] = next]  BY <1>4 DEF SelectLast
  <2>1. call' \in [Caller -> CallRecord]
    <3> HIDE DEF next
    <3> QED BY <1>0, <2>a, <2>b
  <2> QED BY <1>0, <1>2, <1>4, <2>1 DEF SelectLast
<1>5. ASSUME NEW c \in Caller, Abort(c) PROVE TypeInv'
  <2>1. call' \in [Caller -> CallRecord]  BY <1>0, <1>5 DEF Abort, CallRecord, Steps
  <2> QED BY <1>0, <1>2, <1>5, <2>1 DEF Abort
<1>6. ASSUME NEW c \in Caller, Insert(c) PROVE TypeInv'
  <2>1. Hash \subseteq Hash' /\ Entry(c).entry_hash \in Hash'  BY <1>6, InsertAppends
  <2>2. Entry(c) \in Row'
    <3>1. call[c] \in CallRecord  BY <1>0
    <3>2. Entry(c).entry_hash = EntryHash(call[c].prev, call[c].subject, call[c].event, call[c].at)
      BY DEF Entry
    <3> QED BY <1>1, <2>1, <3>1, <3>2 DEF Entry, Signature, Row, CallRecord
  <2>3. rows' \in Seq(Row')
    <3>1. Row \subseteq Row'  BY <2>1 DEF Row
    <3>2. rows \in Seq(Row')
      <4>1. Len(rows) \in Nat /\ DOMAIN rows = 1..Len(rows) /\ \A i \in 1..Len(rows) : rows[i] \in Row'
        BY <1>0, <3>1
      <4> QED BY <1>0, <4>1
    <3> QED BY <1>6, <2>2, <3>2 DEF Insert
  <2>4. call' \in [Caller -> CallRecord']
    <3>1. PICK reply \in {"ok", "failed"} : call' = [call EXCEPT ![c].pc = reply]  BY <1>6 DEF Insert
    <3>2. \A d \in Caller : call[d] \in CallRecord'  BY <1>0, <2>1 DEF CallRecord
    <3>3. [call[c] EXCEPT !.pc = reply] \in CallRecord'  BY <3>2 DEF CallRecord, Steps
    <3> QED BY <1>0, <3>1, <3>2, <3>3
  <2> QED BY <1>0, <1>6, <2>3, <2>4 DEF Insert, TypeInv, TypeOK, CallRecord, Row
<1>7. CASE ReadPage \/ Tick \/ UNCHANGED vars
  BY <1>0, <1>2, <1>7 DEF ReadPage, Tick, vars
<1> QED BY <1>3, <1>4, <1>5, <1>6, <1>7 DEF Next

-----------------------------------------------------------------------------
(* The chain                                                                *)

\* c is inside the critical section, and has its time.
Busy(c) == call[c].pc \in {"select", "insert"}

\* One append at a time is inside: its time is the latest, and what it has read of the last row
\* is still so.
GateInv ==
  \A c \in Caller :
    /\ Busy(c) => /\ inside = c /\ call[c].at <= now
                  /\ \A i \in DOMAIN rows : rows[i].at <= call[c].at
    /\ call[c].pc = "insert" => call[c].prev = LastHash /\ call[c].seq = Len(rows) + 1

TimeInv  == (\A i \in DOMAIN rows : rows[i].at <= now) /\ TimesOrdered
ChainInv == ChainLinear /\ AnsweredIsLogged
LogInv   == TypeInv /\ GateInv /\ TimeInv /\ ChainInv

\* Every initial state satisfies it.
LEMMA InitLogInv == Init => LogInv
<1> SUFFICES ASSUME Init PROVE LogInv  OBVIOUS
<1>1. TypeInv  BY InitTypeInv
<1>2. DOMAIN rows = {}  BY DEF Init
<1>3. \A c \in Caller : call[c].pc = "asked"  BY DEF Init
<1> QED BY <1>1, <1>2, <1>3 DEF LogInv, GateInv, Busy, TimeInv, TimesOrdered, ChainInv, ChainLinear, AnsweredIsLogged

\* An INSERT keeps the chain, and answers with the entry it made.
LEMMA InsertKeeps == ASSUME LogInv, NEW c \in Caller, Insert(c) PROVE GateInv' /\ TimeInv' /\ ChainInv'
<1>0. /\ rows \in Seq(Row) /\ call \in [Caller -> CallRecord] /\ now \in Nat /\ UNCHANGED now
      /\ call[c].pc = "insert" /\ inside = c
      /\ call[c].prev = LastHash /\ call[c].seq = Len(rows) + 1 /\ call[c].at <= now
      /\ \A i \in DOMAIN rows : rows[i].at <= call[c].at /\ rows[i].at \in Nat
  <2>1. rows \in Seq(Row) /\ call \in [Caller -> CallRecord] /\ now \in Nat
    BY DEF LogInv, TypeInv, TypeOK, Row
  <2>2. \A i \in DOMAIN rows : rows[i].at \in Nat
    <3>1. \A i \in DOMAIN rows : rows[i] \in Row  BY <2>1
    <3> QED BY <3>1 DEF Row
  <2>3. UNCHANGED now /\ call[c].pc = "insert"  BY DEF Insert
  <2>4. /\ inside = c /\ call[c].prev = LastHash /\ call[c].seq = Len(rows) + 1 /\ call[c].at <= now
        /\ \A i \in DOMAIN rows : rows[i].at <= call[c].at
    BY <2>3 DEF LogInv, GateInv, Busy
  <2> QED BY <2>1, <2>2, <2>3, <2>4
<1>1. /\ Len(rows) \in Nat /\ DOMAIN rows = 1..Len(rows)
      /\ Len(rows') = Len(rows) + 1 /\ DOMAIN rows' = 1..(Len(rows) + 1)
      /\ rows'[Len(rows) + 1] = Entry(c)
      /\ \A i \in 1..Len(rows) : i # Len(rows) + 1 /\ i \in 1..(Len(rows) + 1) /\ rows'[i] = rows[i]
  BY InsertAppends DEF LogInv
<1>2. /\ \A d \in Caller \ {c} : call'[d] = call[d] /\ ~Busy(d)
      /\ call'[c].pc \in {"ok", "failed"} /\ call'[c].subject = call[c].subject
      /\ call'[c].event = call[c].event /\ call'[c].seq = call[c].seq
  BY <1>0 DEF Insert, CallRecord, LogInv, GateInv, Busy
<1>3. /\ Entry(c).seq = Len(rows) + 1 /\ Entry(c).at = call[c].at /\ Entry(c).at \in Nat
      /\ Entry(c).subject = call[c].subject /\ Entry(c).event = call[c].event
      /\ Entry(c).prev_hash = LastHash /\ Entry(c).signature[1] = Len(rows) + 1
      /\ Entry(c).entry_hash = EntryHash(LastHash, call[c].subject, call[c].event, call[c].at)
  <2>1. call[c] \in CallRecord  BY <1>0
  <2>2. call[c].at \in Nat  BY <2>1 DEF CallRecord
  <2> QED BY <1>0, <2>2 DEF Entry, Signature
<1>4. \A i \in 1..(Len(rows) + 1) : i \in 1..Len(rows) \/ i = Len(rows) + 1  BY <1>1
<1>5. GateInv'  BY <1>2 DEF GateInv, Busy
<1>6. TimeInv'
  <2>1. \A i \in DOMAIN rows' : rows'[i].at <= now  BY <1>0, <1>1, <1>3, <1>4 DEF LogInv, TimeInv
  <2>2. TimesOrdered'
    <3>1. ASSUME NEW i \in DOMAIN rows', NEW j \in DOMAIN rows', i < j PROVE rows'[i].at <= rows'[j].at
      <4>1. i \in 1..Len(rows)  BY <1>1, <3>1
      <4>2. CASE j \in 1..Len(rows)  BY <1>1, <3>1, <4>1, <4>2 DEF LogInv, TimeInv, TimesOrdered
      <4>3. CASE j = Len(rows) + 1  BY <1>0, <1>1, <1>3, <4>1, <4>3
      <4> QED BY <1>1, <1>4, <4>2, <4>3
    <3> QED BY <3>1 DEF TimesOrdered
  <2> QED BY <1>0, <2>1, <2>2 DEF TimeInv
<1>7. ChainInv'
  <2>1. ChainLinear'
    <3>1. ASSUME NEW i \in 1..Len(rows)
          PROVE  /\ rows'[i].prev_hash = IF i = 1 THEN Genesis ELSE rows'[i - 1].entry_hash
                 /\ rows'[i].entry_hash = EntryHash(rows'[i].prev_hash, rows'[i].subject, rows'[i].event, rows'[i].at)
                 /\ rows'[i].seq = i /\ rows'[i].signature[1] = i
      <4>1. i # 1 => i - 1 \in 1..Len(rows)  BY <1>1
      <4> QED BY <1>1, <4>1 DEF LogInv, ChainInv, ChainLinear
    <3>2. LastHash = IF Len(rows) + 1 = 1 THEN Genesis ELSE rows'[Len(rows) + 1 - 1].entry_hash
      <4>1. CASE rows = <<>>  BY <1>1, <4>1 DEF LastHash
      <4>2. CASE rows # <<>>
        <5>1. Len(rows) \in 1..Len(rows) /\ Len(rows) + 1 # 1 /\ Len(rows) + 1 - 1 = Len(rows)
          BY <1>0, <1>1, <4>2
        <5> QED BY <1>1, <4>2, <5>1 DEF LastHash
      <4> QED BY <4>1, <4>2
    <3> QED BY <1>1, <1>3, <1>4, <3>1, <3>2 DEF ChainLinear
  <2>2. AnsweredIsLogged'
    <3>1. ASSUME NEW d \in Caller, call'[d].pc = "ok"
          PROVE  /\ call'[d].seq \in DOMAIN rows'
                 /\ rows'[call'[d].seq].subject = call'[d].subject /\ rows'[call'[d].seq].event = call'[d].event
                 /\ d # c => call'[d].seq # Len(rows) + 1
      <4>1. CASE d = c  BY <1>0, <1>1, <1>2, <1>3, <4>1
      <4>2. CASE d # c
        <5>1. call[d].pc = "ok" /\ call'[d] = call[d]  BY <1>2, <3>1, <4>2
        <5>2. call[d].seq \in 1..Len(rows)  BY <1>1, <5>1 DEF LogInv, ChainInv, AnsweredIsLogged
        <5> QED BY <1>1, <4>2, <5>1, <5>2 DEF LogInv, ChainInv, AnsweredIsLogged
      <4> QED BY <4>1, <4>2
    <3>2. ASSUME NEW d \in Caller, NEW e \in Caller \ {d}, call'[d].pc = "ok", call'[e].pc = "ok"
          PROVE  call'[e].seq # call'[d].seq
      <4>1. CASE d = c \/ e = c  BY <1>0, <1>2, <3>1, <3>2, <4>1
      <4>2. CASE d # c /\ e # c  BY <1>2, <3>2, <4>2 DEF LogInv, ChainInv, AnsweredIsLogged
      <4> QED BY <4>1, <4>2
    <3> QED BY <3>1, <3>2 DEF AnsweredIsLogged
  <2> QED BY <2>1, <2>2 DEF ChainInv
<1> QED BY <1>5, <1>6, <1>7

\* Every step of the log keeps the chain.
LEMMA NextLogInv == ASSUME LogInv, [Next]_vars PROVE LogInv'
<1>0. /\ call \in [Caller -> CallRecord] /\ now \in Nat /\ NoCaller \notin Caller
      /\ \A i \in DOMAIN rows : rows[i].at \in Nat
  <2>1. rows \in Seq(Row) /\ call \in [Caller -> CallRecord] /\ now \in Nat
    BY DEF LogInv, TypeInv, TypeOK, Row
  <2>2. \A i \in DOMAIN rows : rows[i] \in Row  BY <2>1
  <2>3. \A i \in DOMAIN rows : rows[i].at \in Nat  BY <2>2 DEF Row
  <2> QED BY <2>1, <2>3, CallerAssumption
<1>1. TypeInv'  BY NextTypeInv DEF LogInv
<1> SUFFICES GateInv' /\ TimeInv' /\ ChainInv'  BY <1>1 DEF LogInv
\* The log stays, and so does what it says to the others.
<1>2. ASSUME UNCHANGED rows, now' \in {now, now + 1},
             \A c \in Caller : call'[c].pc = "ok" => call'[c] = call[c]
      PROVE  TimeInv' /\ ChainInv'
  <2>1. TimeInv'  BY <1>0, <1>2 DEF LogInv, TimeInv, TimesOrdered
  <2>2. ChainInv'  BY <1>2 DEF LogInv, ChainInv, ChainLinear, AnsweredIsLogged
  <2> QED BY <2>1, <2>2
<1>3. ASSUME NEW c \in Caller, Enter(c) PROVE GateInv' /\ TimeInv' /\ ChainInv'
  <2>1. /\ \A d \in Caller \ {c} : call'[d] = call[d] /\ ~Busy(d)
        /\ call'[c].pc = "select" /\ call'[c].at = now /\ inside' = c /\ UNCHANGED <<now, rows>>
    BY <1>0, <1>3 DEF Enter, CallRecord, LogInv, GateInv
  <2>2. GateInv'  BY <1>0, <2>1 DEF GateInv, Busy, LogInv, TimeInv
  <2> QED BY <1>2, <2>1, <2>2
<1>4. ASSUME NEW c \in Caller, SelectLast(c) PROVE GateInv' /\ TimeInv' /\ ChainInv'
  <2>1. /\ \A d \in Caller \ {c} : call'[d] = call[d] /\ ~Busy(d)
        /\ call[c].pc = "select" /\ call'[c].pc = "insert" /\ call'[c].at = call[c].at
        /\ call'[c].prev = LastHash /\ call'[c].seq = Len(rows) + 1 /\ UNCHANGED <<now, rows, inside>>
    BY <1>0, <1>4 DEF SelectLast, CallRecord, LogInv, GateInv, Busy
  <2>2. GateInv'  BY <2>1 DEF GateInv, Busy, LogInv, LastHash
  <2> QED BY <1>2, <2>1, <2>2
<1>5. ASSUME NEW c \in Caller, Abort(c) PROVE GateInv' /\ TimeInv' /\ ChainInv'
  <2>1. /\ \A d \in Caller \ {c} : call'[d] = call[d]
        /\ call'[c].pc = "failed" /\ UNCHANGED <<now, rows>>
        /\ \A d \in Caller \ {c} : inside = d => inside' = d
    BY <1>0, <1>5 DEF Abort, CallRecord
  <2>2. GateInv'  BY <2>1 DEF GateInv, Busy, LogInv, LastHash
  <2> QED BY <1>2, <2>1, <2>2
<1>6. ASSUME NEW c \in Caller, Insert(c) PROVE GateInv' /\ TimeInv' /\ ChainInv'
  BY <1>6, InsertKeeps
<1>7. CASE ReadPage \/ Tick \/ UNCHANGED vars
  <2>1. UNCHANGED <<rows, inside, call>> /\ now' \in {now, now + 1}  BY <1>7 DEF ReadPage, Tick, vars
  <2>2. GateInv'
    <3>1. \A c \in Caller : call[c].at \in Nat  BY <1>0 DEF CallRecord
    <3> QED BY <1>0, <2>1, <3>1 DEF GateInv, Busy, LogInv, LastHash
  <2> QED BY <1>2, <2>1, <2>2
<1> QED BY <1>3, <1>4, <1>5, <1>6, <1>7 DEF Next

\* The log only grows, and the clock only goes on.
LEMMA LogGrows ==
  ASSUME LogInv, [Next]_vars
  PROVE  /\ rows \in Seq(Row) /\ Len(rows) \in Nat /\ DOMAIN rows = 1..Len(rows)
         /\ Len(rows') \in Nat /\ DOMAIN rows' = 1..Len(rows') /\ Len(rows) <= Len(rows')
         /\ \A i \in 1..Len(rows) : i \in 1..Len(rows') /\ rows'[i] = rows[i]
         /\ now \in Nat /\ now' \in {now, now + 1}
<1>1. rows \in Seq(Row) /\ now \in Nat  BY DEF LogInv, TypeInv, TypeOK, Row
<1>2. Len(rows) \in Nat /\ DOMAIN rows = 1..Len(rows)  BY <1>1
<1>3. CASE \E c \in Caller : Insert(c)
  <2>1. UNCHANGED now  BY <1>3 DEF Insert
  <2> QED BY <1>1, <1>3, <2>1, InsertAppends DEF LogInv
<1>4. CASE UNCHANGED rows /\ now' \in {now, now + 1}  BY <1>1, <1>2, <1>4
<1> QED BY <1>3, <1>4 DEF Next, Enter, SelectLast, Abort, ReadPage, Tick, vars

\* So do the hashes and the rows that it can hold.
LEMMA HashesGrow == ASSUME LogInv, [Next]_vars PROVE Hash \subseteq Hash' /\ Row \subseteq Row'
<1>1. Hash \subseteq Hash'  BY LogGrows DEF Hash
<1> QED BY <1>1 DEF Row

-----------------------------------------------------------------------------
(* The mirror                                                               *)

\* The mirror holds the rows from its newest one down to the one it asks before.
MirrorInv ==
  /\ mirror \in [pages : Seq(Row), before : Nat, done : BOOLEAN]
  /\ mirror.pages = <<>> => mirror.before = 0 /\ ~mirror.done
  /\ mirror.pages # <<>> => /\ mirror.before = mirror.pages[1].seq + 1 - Len(mirror.pages)
                            /\ mirror.before >= 1 /\ (mirror.done => mirror.before = 1)
  /\ \A i \in DOMAIN mirror.pages :
       /\ mirror.pages[i].seq = mirror.pages[1].seq + 1 - i /\ mirror.pages[i].seq \in DOMAIN rows
       /\ mirror.pages[i] = rows[mirror.pages[i].seq]

\* A sequence over a set is one over a larger set.
LEMMA SeqWidens == ASSUME NEW S, NEW T, S \subseteq T, NEW s \in Seq(S) PROVE s \in Seq(T)
<1>1. Len(s) \in Nat /\ DOMAIN s = 1..Len(s) /\ \A i \in 1..Len(s) : s[i] \in T  OBVIOUS
<1> QED BY <1>1

\* The page that read() answers: the rows just below where the mirror is.
LEMMA PageBelow ==
  ASSUME LogInv, MirrorInv
  PROVE  \E top \in 0..Len(rows), n \in 0..Len(rows) :
           /\ top = (IF mirror.pages = <<>> THEN Len(rows) ELSE mirror.before - 1)
           /\ n <= top /\ (n = 0 => top = 0)
           /\ Page(mirror.before) \in Seq(Row) /\ Len(Page(mirror.before)) = n
           /\ \A i \in 1..n : Page(mirror.before)[i] = rows[top + 1 - i] /\ top + 1 - i \in 1..Len(rows)
<1>1. rows \in Seq(Row) /\ Len(rows) \in Nat /\ DOMAIN rows = 1..Len(rows)
  BY DEF LogInv, TypeInv, TypeOK, Row
<1>2. mirror.pages \in Seq(Row) /\ mirror.before \in Nat  BY DEF MirrorInv
<1>3. mirror.pages # <<>> => mirror.before \in 1..Len(rows)
  <2>1. SUFFICES ASSUME mirror.pages # <<>> PROVE mirror.before \in 1..Len(rows)  OBVIOUS
  <2>2. 1 \in DOMAIN mirror.pages /\ Len(mirror.pages) \in Nat \ {0}  BY <1>2, <2>1
  <2>3. mirror.pages[1].seq \in 1..Len(rows)  BY <1>1, <2>2 DEF MirrorInv
  <2> QED BY <1>1, <2>1, <2>2, <2>3 DEF MirrorInv
<1>4. mirror.pages = <<>> => mirror.before = 0  BY DEF MirrorInv
<1> DEFINE top == IF mirror.before = 0 \/ mirror.before > Len(rows) THEN Len(rows) ELSE mirror.before - 1
           n   == IF top < PageSize THEN top ELSE PageSize
<1>5. top \in 0..Len(rows) /\ top = (IF mirror.pages = <<>> THEN Len(rows) ELSE mirror.before - 1)
  BY <1>1, <1>2, <1>3, <1>4
<1>6. Page(mirror.before) = [i \in 1..n |-> rows[top + 1 - i]]  BY DEF Page
<1>a. top \in Nat /\ top <= Len(rows)  BY <1>1, <1>5
<1> HIDE DEF top
<1>7. n \in Nat /\ n <= top /\ (n = 0 => top = 0)  BY <1>a, PageAssumption
<1> HIDE DEF n
<1>8. \A i \in 1..n : top + 1 - i \in 1..Len(rows)  BY <1>1, <1>a, <1>7
<1>9. \A i \in 1..n : rows[top + 1 - i] \in Row  BY <1>1, <1>8
<1>10. /\ Page(mirror.before) \in Seq(Row) /\ Len(Page(mirror.before)) = n
       /\ \A i \in 1..n : Page(mirror.before)[i] = rows[top + 1 - i]
  BY <1>6, <1>7, <1>9
<1>11. n \in 0..Len(rows)  BY <1>1, <1>a, <1>7
<1> QED BY <1>5, <1>7, <1>8, <1>10, <1>11

\* A page lengthens the mirror by the rows below it, or tells it that it has them all.
LEMMA ReadPageMirrorInv == ASSUME LogInv, MirrorInv, ReadPage PROVE MirrorInv'
<1> DEFINE got == mirror.pages
           new == Page(mirror.before)
<1>1. /\ Len(rows) \in Nat /\ DOMAIN rows = 1..Len(rows) /\ UNCHANGED rows /\ Row' = Row
      /\ \A i \in DOMAIN rows : rows[i].seq = i
  <2>1. UNCHANGED rows  BY DEF ReadPage
  <2>2. rows \in Seq(Row)  BY DEF LogInv, TypeInv, TypeOK, Row
  <2>3. Row' = Row  BY <2>1 DEF Row, Hash
  <2> QED BY <2>1, <2>2, <2>3 DEF LogInv, ChainInv, ChainLinear
<1>2. /\ got \in Seq(Row) /\ Len(got) \in Nat /\ DOMAIN got = 1..Len(got)
      /\ (got = <<>> <=> Len(got) = 0)
  BY DEF MirrorInv
<1>3. PICK top \in 0..Len(rows), n \in 0..Len(rows) :
        /\ top = (IF got = <<>> THEN Len(rows) ELSE mirror.before - 1)
        /\ n <= top /\ (n = 0 => top = 0)
        /\ new \in Seq(Row) /\ Len(new) = n
        /\ \A i \in 1..n : new[i] = rows[top + 1 - i] /\ top + 1 - i \in 1..Len(rows)
  BY PageBelow
<1>4. /\ new = <<>>  => mirror' = [mirror EXCEPT !.done = got # <<>>]
      /\ new # <<>> => mirror' = [mirror EXCEPT !.pages = @ \o new, !.before = new[Len(new)].seq]
      /\ ~mirror.done
  BY DEF ReadPage
<1> HIDE DEF new
<1>a. /\ top \in Nat /\ n \in Nat /\ n <= top /\ top <= Len(rows)
      /\ got # <<>> => top = mirror.before - 1
      /\ got = <<>> => top = Len(rows)
  <2>1. top \in Nat /\ n \in Nat /\ top <= Len(rows)  BY <1>1
  <2> QED BY <1>3, <2>1
<1>5. CASE new = <<>>
  <2>1. (got # <<>>) \in BOOLEAN  OBVIOUS
  <2>2. mirror' \in [pages : Seq(Row), before : Nat, done : BOOLEAN]  BY <1>4, <1>5, <2>1 DEF MirrorInv
  <2>3. mirror'.pages = got /\ mirror'.before = mirror.before /\ (mirror'.done <=> got # <<>>)
    BY <1>4, <1>5 DEF MirrorInv
  <2>4. n = 0 /\ top = 0  BY <1>3, <1>5
  <2>5. got # <<>> => mirror.before = 1  BY <1>3, <2>4 DEF MirrorInv
  <2> QED BY <1>1, <2>2, <2>3, <2>5 DEF MirrorInv
<1>6. CASE new # <<>>
  <2>1. n >= 1 /\ Len(new) = n /\ n \in 1..n  BY <1>3, <1>6
  <2>2. new[n].seq = top + 1 - n  BY <1>1, <1>3, <2>1
  <2>3. mirror' = [mirror EXCEPT !.pages = got \o new, !.before = top + 1 - n]
    BY <1>4, <1>6, <2>1, <2>2
  <2>4. got \o new \in Seq(Row)  BY <1>2, <1>3
  <2>5. top + 1 - n \in Nat /\ top + 1 - n >= 1  BY <1>a
  <2>6. mirror' \in [pages : Seq(Row), before : Nat, done : BOOLEAN]
    BY <2>3, <2>4, <2>5 DEF MirrorInv
  <2>7. mirror'.pages = got \o new /\ mirror'.before = top + 1 - n /\ mirror'.done = mirror.done
    BY <2>3 DEF MirrorInv
  <2> DEFINE all == got \o new
  <2>8. /\ Len(all) = Len(got) + n /\ DOMAIN all = 1..(Len(got) + n)
        /\ \A i \in 1..Len(got) : all[i] = got[i]
        /\ \A i \in 1..(Len(got) + n) :
             i \in 1..Len(got) \/ (i - Len(got) \in 1..n /\ all[i] = new[i - Len(got)])
    <3>0. new \in Seq(Row)  BY <1>3
    <3>1. /\ all \in Seq(Row) /\ Len(all) = Len(got) + Len(new)
          /\ \A i \in 1..(Len(got) + Len(new)) : all[i] = IF i <= Len(got) THEN got[i] ELSE new[i - Len(got)]
      BY <1>2, <3>0, ConcatProperties
    <3>2. Len(new) = n /\ n \in Nat /\ Len(got) \in Nat /\ DOMAIN all = 1..Len(all)  BY <1>2, <1>3, <1>a, <3>1
    <3>3. \A i \in 1..Len(got) : i \in 1..(Len(got) + n) /\ i <= Len(got)  BY <3>2
    <3>4. \A i \in 1..(Len(got) + n) : i \in 1..Len(got) \/ (i - Len(got) \in 1..n /\ ~(i <= Len(got)))  BY <3>2
    <3> HIDE DEF all
    <3> QED BY <3>1, <3>2, <3>3, <3>4
  <2> HIDE DEF all
  <2>9. all[1].seq - Len(got) = top /\ all[1].seq \in Nat
    <3>1. CASE got = <<>>
      <4>1. Len(got) = 0 /\ 1 \in 1..n /\ all[1] = new[1]  BY <1>2, <2>1, <2>8, <3>1
      <4>2. all[1] = rows[top] /\ top \in 1..Len(rows)  BY <1>3, <4>1
      <4> QED BY <1>1, <4>1, <4>2
    <3>2. CASE got # <<>>
      <4>1. 1 \in 1..Len(got) /\ all[1] = got[1]  BY <1>2, <2>8, <3>2
      <4>2. got[1].seq \in 1..Len(rows)  BY <1>1, <1>2, <4>1 DEF MirrorInv
      <4>3. top = mirror.before - 1 /\ mirror.before = got[1].seq + 1 - Len(got)
        BY <1>a, <3>2 DEF MirrorInv
      <4> QED BY <1>2, <4>1, <4>2, <4>3
    <3> QED BY <3>1, <3>2
  <2>10. \A i \in DOMAIN all : /\ all[i].seq = all[1].seq + 1 - i /\ all[i].seq \in 1..Len(rows)
                               /\ all[i] = rows[all[i].seq]
    <3>1. ASSUME NEW i \in 1..Len(got)
          PROVE  all[i].seq = all[1].seq + 1 - i /\ all[i].seq \in 1..Len(rows) /\ all[i] = rows[all[i].seq]
      <4>1. 1 \in 1..Len(got) /\ all[1] = got[1] /\ all[i] = got[i]  BY <1>2, <2>8
      <4> QED BY <1>1, <1>2, <4>1 DEF MirrorInv
    <3>2. ASSUME NEW i \in 1..(Len(got) + n), i - Len(got) \in 1..n, all[i] = new[i - Len(got)]
          PROVE  all[i].seq = all[1].seq + 1 - i /\ all[i].seq \in 1..Len(rows) /\ all[i] = rows[all[i].seq]
      <4>1. top + 1 - (i - Len(got)) \in 1..Len(rows) /\ all[i] = rows[top + 1 - (i - Len(got))]
        BY <1>3, <3>2
      <4>2. all[i].seq = top + 1 - (i - Len(got))  BY <1>1, <4>1
      <4>3. Len(got) \in Nat /\ i \in Int /\ top \in Int  BY <1>2, <1>a, <3>2
      <4>4. all[i].seq = all[1].seq + 1 - i
        <5>1. all[1].seq = top + Len(got)  BY <2>9, <4>3
        <5>2. top + 1 - (i - Len(got)) = (top + Len(got)) + 1 - i  BY <4>3
        <5> QED BY <4>2, <5>1, <5>2
      <4>5. all[i].seq \in 1..Len(rows) /\ all[i] = rows[all[i].seq]  BY <4>1, <4>2
      <4> QED BY <4>4, <4>5
    <3> QED BY <2>8, <3>1, <3>2
  <2>11. all # <<>> /\ top + 1 - n = all[1].seq + 1 - Len(all)
    <3>1. Len(all) # 0  BY <1>2, <2>1, <2>8
    <3>2. all # <<>>  BY <3>1
    <3> QED BY <1>2, <2>8, <2>9, <3>2
  <2>12. mirror'.pages = all  BY <2>7 DEF all
  <2> QED BY <1>1, <1>4, <2>5, <2>6, <2>7, <2>10, <2>11, <2>12 DEF MirrorInv
<1> QED BY <1>5, <1>6

\* Every step of the log keeps what the mirror holds.
LEMMA NextMirrorInv == ASSUME LogInv, MirrorInv, [Next]_vars PROVE MirrorInv'
<1>1. CASE ReadPage  BY <1>1, ReadPageMirrorInv
<1>2. CASE UNCHANGED mirror
  <2>1. /\ mirror \in [pages : Seq(Row), before : Nat, done : BOOLEAN]
        /\ Row \subseteq Row'
    BY HashesGrow DEF MirrorInv
  <2>2. mirror.pages \in Seq(Row')  BY <2>1, SeqWidens
  <2>3. mirror' \in [pages : Seq(Row'), before : Nat, done : BOOLEAN]  BY <1>2, <2>1, <2>2
  <2>4. \A i \in DOMAIN mirror.pages : /\ mirror.pages[i].seq \in DOMAIN rows'
                                       /\ mirror.pages[i] = rows'[mirror.pages[i].seq]
    BY LogGrows DEF MirrorInv
  <2> QED BY <1>2, <2>3, <2>4 DEF MirrorInv
<1> QED BY <1>1, <1>2 DEF Next, Enter, SelectLast, Insert, Abort, Tick, vars

\* What the mirror holds is the chain without a gap.
LEMMA MirrorIsChain == ASSUME LogInv, MirrorInv PROVE MirrorUnbroken
<1> DEFINE got == mirror.pages
<1>1. got \in Seq(Row) /\ Len(got) \in Nat /\ DOMAIN got = 1..Len(got)  BY DEF MirrorInv
<1>2. rows \in Seq(Row) /\ Len(rows) \in Nat /\ DOMAIN rows = 1..Len(rows)
  BY DEF LogInv, TypeInv, TypeOK, Row
<1>3. ASSUME NEW i \in 1..(Len(got) - 1) PROVE got[i].prev_hash = got[i + 1].entry_hash
  <2>1. i \in DOMAIN got /\ i + 1 \in DOMAIN got /\ 1 \in DOMAIN got  BY <1>1
  <2>2. /\ got[i].seq \in 1..Len(rows) /\ got[i + 1].seq \in 1..Len(rows)
        /\ got[i].seq = got[1].seq + 1 - i /\ got[i + 1].seq = got[1].seq + 1 - (i + 1)
        /\ got[i] = rows[got[i].seq] /\ got[i + 1] = rows[got[i + 1].seq] /\ got[1].seq \in 1..Len(rows)
    BY <1>2, <2>1 DEF MirrorInv
  <2>3. got[i + 1].seq = got[i].seq - 1 /\ got[i].seq # 1  BY <1>2, <2>2
  <2>4. rows[got[i].seq].prev_hash = rows[got[i].seq - 1].entry_hash
    BY <1>2, <2>2, <2>3 DEF LogInv, ChainInv, ChainLinear
  <2> QED BY <2>2, <2>3, <2>4
<1>4. ASSUME mirror.done PROVE got[Len(got)].prev_hash = Genesis
  <2>1. got # <<>> /\ got[1].seq + 1 - Len(got) = 1  BY <1>4 DEF MirrorInv
  <2>2. Len(got) \in DOMAIN got /\ 1 \in DOMAIN got  BY <1>1, <2>1
  <2>3. /\ got[Len(got)].seq = got[1].seq + 1 - Len(got) /\ got[Len(got)].seq \in 1..Len(rows)
        /\ got[Len(got)] = rows[got[Len(got)].seq]
    BY <1>2, <2>2 DEF MirrorInv
  <2> QED BY <1>2, <2>1, <2>3 DEF LogInv, ChainInv, ChainLinear
<1> QED BY <1>3, <1>4 DEF MirrorUnbroken

-----------------------------------------------------------------------------
(* Type correctness of the status page                                      *)

PollRecord == [at : {"ready", "audit", "sweeper", "dispatch", "answer", "done"}, asOf : Nat, seq : Nat,
               beat : Int \cup {Never}, sent : Nat, whole : BOOLEAN]
RootRecord == [at : {"ready", "stamp", "signed"}, seq : Nat, root : Hash, last : Nat, stamp : Nat]
States == {"none", "ok", "degraded", "down"}

StatusTypes ==
  /\ beat \in Int \cup {Never}
  /\ sweep \in [Sweep -> [at : {"ready", "sweeping", "done"}, start : Nat]]
  /\ poll \in [Poll -> PollRecord]
  /\ page \in [asOf : Nat, seq : Nat, sent : Nat, whole : BOOLEAN, audit : States, sweeper : States]
  /\ root \in [Checkpoint -> RootRecord]

\* The latest entry that stands for an email is one, and none is later.
LEMMA LastDispatchLatest ==
  ASSUME LogInv
  PROVE  LastDispatch \in Nat /\ \A i \in DOMAIN rows : rows[i].event \in Dispatch => i <= LastDispatch
<1> DEFINE sent == {i \in DOMAIN rows : rows[i].event \in Dispatch}
<1>1. Len(rows) \in Nat /\ DOMAIN rows = 1..Len(rows)
  <2>1. rows \in Seq(Row)  BY DEF LogInv, TypeInv, TypeOK, Row
  <2> QED BY <2>1
<1>2. CASE sent = {}  BY <1>2 DEF LastDispatch
<1>3. CASE sent # {}
  <2> DEFINE below == {Len(rows) - i : i \in sent}
  <2>1. below \subseteq Nat /\ below # {}  BY <1>1, <1>3
  <2>2. PICK low \in below : \A n \in below : low <= n
    <3> HIDE DEF below
    <3> QED BY <2>1, LeastExists
  <2>3. \A n \in below : ~(n < low)
    <3> HIDE DEF below
    <3> QED BY <2>1, <2>2
  <2>4. PICK top \in sent : low = Len(rows) - top  OBVIOUS
  <2>5. ASSUME NEW i \in sent PROVE i <= top
    <3>1. Len(rows) - i \in below  OBVIOUS
    <3>2. ~(Len(rows) - i < Len(rows) - top)  BY <2>3, <2>4, <3>1
    <3> QED BY <1>1, <3>2
  <2>6. LastDispatch \in sent /\ \A i \in sent : i <= LastDispatch  BY <1>3, <2>5 DEF LastDispatch
  <2> QED BY <1>1, <2>6
<1> QED BY <1>2, <1>3

\* What the steps of the log leave of the types of the status page.
LEMMA LogStepStatusTypes == ASSUME LogInv, StatusTypes, [Next]_vars, UNCHANGED statusVars PROVE StatusTypes'
<1>1. Hash \subseteq Hash'  BY HashesGrow
<1>2. RootRecord \subseteq RootRecord'  BY <1>1 DEF RootRecord
<1>3. root' \in [Checkpoint -> RootRecord']  BY <1>2 DEF StatusTypes, statusVars
<1> QED BY <1>3 DEF StatusTypes, statusVars, PollRecord

\* A step of the status page keeps its types.
LEMMA StatusStepTypes ==
  ASSUME LogInv, StatusTypes, UNCHANGED vars,
         \/ \E w \in Sweep : SweepBegin(w) \/ SweepEnd(w)
         \/ \E p \in Poll : PollStep(p)
         \/ \E k \in Checkpoint : RootRead(k) \/ RootSign(k)
  PROVE  StatusTypes'
<1>0. /\ rows \in Seq(Row) /\ Len(rows) \in Nat /\ DOMAIN rows = 1..Len(rows) /\ now \in Nat
      /\ Hash' = Hash /\ RootRecord' = RootRecord /\ UNCHANGED <<rows, now>>
  <2>1. rows \in Seq(Row) /\ now \in Nat  BY DEF LogInv, TypeInv, TypeOK, Row
  <2>2. Hash' = Hash  BY DEF Hash, vars
  <2> QED BY <2>1, <2>2 DEF RootRecord, vars
<1>1. ASSUME NEW w \in Sweep, SweepBegin(w) \/ SweepEnd(w) PROVE StatusTypes'
  <2>1. sweep' \in [Sweep -> [at : {"ready", "sweeping", "done"}, start : Nat]] /\ beat' \in Int \cup {Never}
    <3>1. sweep[w] \in [at : {"ready", "sweeping", "done"}, start : Nat]  BY DEF StatusTypes
    <3>2. CASE SweepBegin(w)
      <4>1. [at |-> "sweeping", start |-> now] \in [at : {"ready", "sweeping", "done"}, start : Nat]  BY <1>0
      <4> QED BY <3>2, <4>1 DEF SweepBegin, StatusTypes
    <3>3. CASE SweepEnd(w)
      <4>1. [sweep[w] EXCEPT !.at = "done"] \in [at : {"ready", "sweeping", "done"}, start : Nat]  BY <3>1
      <4>2. sweep[w].start \in Int  BY <3>1
      <4> QED BY <3>3, <4>1, <4>2 DEF SweepEnd, StatusTypes
    <3> QED BY <1>1, <3>2, <3>3
  <2>2. UNCHANGED <<poll, page, root>>  BY <1>1 DEF SweepBegin, SweepEnd
  <2> QED BY <1>0, <2>1, <2>2 DEF StatusTypes, PollRecord
<1>2. ASSUME NEW p \in Poll, PollStep(p) PROVE StatusTypes'
  <2>0. poll[p] \in PollRecord /\ Ready \in PollRecord  BY DEF StatusTypes, PollRecord, Ready
  <2>1. UNCHANGED <<beat, sweep, root>>  BY <1>2 DEF PollStep, Asked, ReadAudit, ReadBeat, ReadDispatch, Shown, Polled
  <2>2. ASSUME NEW r \in PollRecord, NEW pc \in {"audit", "sweeper", "dispatch", "answer", "done"},
               PollTo(p, pc, r)
        PROVE  poll' \in [Poll -> PollRecord]
    <3>1. [r EXCEPT !.at = pc] \in PollRecord  BY DEF PollRecord
    <3> QED BY <2>2, <3>1 DEF PollTo, StatusTypes
  <2>3. CASE Asked(p)
    <3>1. [Ready EXCEPT !.asOf = now] \in PollRecord  BY <1>0, <2>0 DEF PollRecord
    <3>2. poll' \in [Poll -> PollRecord]  BY <2>2, <2>3, <3>1 DEF Asked
    <3> QED BY <1>0, <2>1, <2>3, <3>2 DEF Asked, StatusTypes, PollRecord
  <2>4. CASE ReadAudit(p)
    <3>1. [poll[p] EXCEPT !.seq = Len(rows)] \in PollRecord /\ [poll[p] EXCEPT !.whole = FALSE] \in PollRecord
      BY <1>0, <2>0 DEF PollRecord
    <3>2. poll' \in [Poll -> PollRecord]  BY <2>2, <2>4, <3>1 DEF ReadAudit
    <3> QED BY <1>0, <2>1, <2>4, <3>2 DEF ReadAudit, StatusTypes, PollRecord
  <2>5. CASE ReadBeat(p)
    <3>1. [poll[p] EXCEPT !.beat = beat] \in PollRecord /\ [poll[p] EXCEPT !.whole = FALSE] \in PollRecord
      BY <2>0 DEF PollRecord, StatusTypes
    <3>2. poll' \in [Poll -> PollRecord]  BY <2>2, <2>5, <3>1 DEF ReadBeat
    <3> QED BY <1>0, <2>1, <2>5, <3>2 DEF ReadBeat, StatusTypes, PollRecord
  <2>6. CASE ReadDispatch(p)
    <3>1. [poll[p] EXCEPT !.sent = LastDispatch] \in PollRecord /\ [poll[p] EXCEPT !.whole = FALSE] \in PollRecord
      BY <2>0, LastDispatchLatest DEF PollRecord
    <3>2. poll' \in [Poll -> PollRecord]  BY <2>2, <2>6, <3>1 DEF ReadDispatch
    <3> QED BY <1>0, <2>1, <2>6, <3>2 DEF ReadDispatch, StatusTypes, PollRecord
  <2>7. CASE Shown(p)
    <3>1. poll' \in [Poll -> PollRecord]  BY <2>0, <2>2, <2>7 DEF Shown
    <3>2. \A at, asOf : AgeState(at, asOf) \in States  BY DEF AgeState, States
    <3>3. Panels(poll[p]) \in [asOf : Nat, seq : Nat, sent : Nat, whole : BOOLEAN, audit : States, sweeper : States]
      BY <2>0, <3>2 DEF Panels, PollRecord
    <3>4. page' \in [asOf : Nat, seq : Nat, sent : Nat, whole : BOOLEAN, audit : States, sweeper : States]
      BY <2>7, <3>3 DEF Shown, StatusTypes, States
    <3> QED BY <1>0, <2>1, <3>1, <3>4 DEF StatusTypes, PollRecord
  <2> QED BY <1>2, <2>3, <2>4, <2>5, <2>6, <2>7 DEF PollStep
<1>3. ASSUME NEW k \in Checkpoint, RootRead(k) \/ RootSign(k) PROVE StatusTypes'
  <2>1. LastHash \in Hash /\ (rows # <<>> => rows[Len(rows)].at \in Nat)
    <3>1. CASE rows = <<>>  BY <3>1 DEF LastHash, Hash
    <3>2. CASE rows # <<>>
      <4>1. Len(rows) \in DOMAIN rows  BY <1>0, <3>2
      <4>2. rows[Len(rows)] \in Row  BY <1>0, <4>1
      <4> QED BY <3>2, <4>1, <4>2 DEF LastHash, Hash, Row
    <3> QED BY <3>1, <3>2
  <2>2. root' \in [Checkpoint -> RootRecord]
    <3>1. root[k] \in RootRecord  BY DEF StatusTypes
    <3>2. CASE RootRead(k)
      <4> DEFINE read == [at |-> "stamp", seq |-> Len(rows), root |-> LastHash,
                          last |-> IF rows = <<>> THEN 0 ELSE rows[Len(rows)].at, stamp |-> 0]
      <4>1. read \in RootRecord  BY <1>0, <2>1 DEF RootRecord
      <4>2. root' = [root EXCEPT ![k] = read]  BY <3>2 DEF RootRead
      <4> HIDE DEF read
      <4> QED BY <4>1, <4>2 DEF StatusTypes
    <3>3. CASE RootSign(k)
      <4>1. [root[k] EXCEPT !.at = "signed", !.stamp = now] \in RootRecord  BY <1>0, <3>1 DEF RootRecord
      <4> QED BY <3>3, <4>1 DEF RootSign, StatusTypes
    <3> QED BY <1>3, <3>2, <3>3
  <2> QED BY <1>0, <1>3, <2>2 DEF RootRead, RootSign, StatusTypes, PollRecord
<1> QED BY <1>1, <1>2, <1>3

-----------------------------------------------------------------------------
(* What the page and the checkpoints say                                    *)

\* When the passes began that went through all their switches.
Started == {sweep[w].start : w \in {v \in Sweep : sweep[v].at = "done"}} \cup {-1}

\* Whatever heartbeat is stored or read is one of them.
SweepInv ==
  /\ beat \in Started \cup {Never} /\ \A p \in Poll : poll[p].beat \in Started \cup {Never}
  /\ SweeperTold

\* No entry for an email that an answer has counted is later than the one that it tells.
Covered(r) == \A i \in 1..r.seq : rows[i].event \in Dispatch => i <= r.sent

\* What is read of the log is of rows that are there, and a whole answer tells the latest email.
PollInv ==
  /\ \A p \in Poll : poll[p].seq <= Len(rows) /\ (poll[p].at = "answer" /\ poll[p].whole => Covered(poll[p]))
  /\ page.seq <= Len(rows) /\ (page.whole => Covered(page))

\* What a checkpoint has read is of its row, and what it signs is no older.
RootInv ==
  \A k \in Checkpoint : root[k].at # "ready" /\ root[k].seq > 0 =>
    /\ root[k].seq <= Len(rows)
    /\ root[k].root = rows[root[k].seq].entry_hash /\ root[k].last = rows[root[k].seq].at
    /\ root[k].at = "signed" => root[k].last <= root[k].stamp

StatusInv == LogInv /\ MirrorInv /\ StatusTypes /\ SweepInv /\ PollInv /\ RootInv

\* Every initial state satisfies it.
LEMMA InitStatusInv == StatusInit => StatusInv
<1> SUFFICES ASSUME StatusInit PROVE StatusInv  OBVIOUS
<1>1. LogInv  BY InitLogInv DEF StatusInit
<1>2. MirrorInv  BY DEF StatusInit, Init, MirrorInv
<1>3. /\ beat \in {Never, -1} /\ rows = <<>> /\ Len(rows) = 0
      /\ \A p \in Poll : poll[p] = Ready
      /\ page.sweeper = "none" /\ page.seq = 0
      /\ \A k \in Checkpoint : root[k].at = "ready"
  BY DEF StatusInit, Init
<1>4. StatusTypes
  <2>1. Genesis \in Hash  BY DEF Hash
  <2>2. root \in [Checkpoint -> RootRecord]  BY <2>1 DEF StatusInit, RootRecord
  <2>3. poll \in [Poll -> PollRecord]  BY DEF StatusInit, PollRecord, Ready
  <2> QED BY <2>2, <2>3 DEF StatusInit, StatusTypes, States
<1>5. SweepInv  BY <1>3 DEF SweepInv, Started, SweeperTold, Ready
<1>6. PollInv  BY <1>3 DEF PollInv, Covered, Ready
<1>7. RootInv  BY <1>3 DEF RootInv
<1> QED BY <1>1, <1>2, <1>4, <1>5, <1>6, <1>7 DEF StatusInv

\* The log's growth leaves what was read of it true.
LEMMA LogStepKeeps == ASSUME StatusInv, [Next]_vars, UNCHANGED statusVars PROVE StatusInv'
<1>1. LogInv' /\ MirrorInv' /\ StatusTypes'
  BY NextLogInv, NextMirrorInv, LogStepStatusTypes DEF StatusInv
<1>2. SweepInv'
  <2>1. Started' = Started  BY DEF Started, statusVars
  <2> QED BY <2>1 DEF StatusInv, SweepInv, SweeperTold, Started, statusVars
<1>3. /\ Len(rows) \in Nat /\ Len(rows') \in Nat /\ Len(rows) <= Len(rows')
      /\ \A i \in 1..Len(rows) : rows'[i] = rows[i]
  BY LogGrows DEF StatusInv
<1>4. PollInv'
  <2>1. ASSUME NEW p \in Poll
        PROVE  poll[p].seq \in Nat /\ poll[p].seq <= Len(rows') /\ \A i \in 1..poll[p].seq : rows'[i] = rows[i]
    <3>1. poll[p] \in PollRecord  BY DEF StatusInv, StatusTypes
    <3>2. poll[p].seq \in Nat  BY <3>1 DEF PollRecord
    <3>3. poll[p].seq <= Len(rows)  BY DEF StatusInv, PollInv
    <3> QED BY <1>3, <3>2, <3>3
  <2>2. page.seq \in Nat /\ page.seq <= Len(rows') /\ \A i \in 1..page.seq : rows'[i] = rows[i]
    <3>1. page.seq \in Nat  BY DEF StatusInv, StatusTypes
    <3>2. page.seq <= Len(rows)  BY DEF StatusInv, PollInv
    <3> QED BY <1>3, <3>1, <3>2
  <2> QED BY <2>1, <2>2 DEF StatusInv, PollInv, Covered, statusVars
<1>5. RootInv'
  <2>1. ASSUME NEW k \in Checkpoint, root[k].at # "ready", root[k].seq > 0
        PROVE  root[k].seq <= Len(rows') /\ rows'[root[k].seq] = rows[root[k].seq]
    <3>1. root[k] \in RootRecord  BY DEF StatusInv, StatusTypes
    <3>2. root[k].seq \in Nat  BY <3>1 DEF RootRecord
    <3>3. root[k].seq <= Len(rows)  BY <2>1 DEF StatusInv, RootInv
    <3> QED BY <1>3, <2>1, <3>2, <3>3
  <2> QED BY <2>1 DEF StatusInv, RootInv, statusVars
<1> QED BY <1>1, <1>2, <1>4, <1>5 DEF StatusInv

\* A pass that ends adds its start to those a heartbeat may be.
LEMMA SweepKeeps == ASSUME StatusInv, NEW w \in Sweep, SweepBegin(w) \/ SweepEnd(w) PROVE SweepInv'
<1>0. UNCHANGED <<poll, page>>  BY DEF SweepBegin, SweepEnd
<1>1. \A v \in Sweep : sweep[v].at = "done" => sweep'[v] = sweep[v]
  BY DEF StatusInv, StatusTypes, SweepBegin, SweepEnd
<1>2. Started \subseteq Started'
  <2>1. \A v \in Sweep : sweep[v].at = "done" => sweep'[v].at = "done" /\ sweep'[v].start = sweep[v].start
    BY <1>1
  <2> QED BY <2>1 DEF Started
<1>3. beat' \in Started' \cup {Never}
  <2>1. CASE SweepBegin(w)  BY <1>2, <2>1 DEF SweepBegin, StatusInv, SweepInv
  <2>2. CASE SweepEnd(w)
    <3>1. sweep'[w].at = "done" /\ sweep'[w].start = sweep[w].start
      BY <2>2 DEF SweepEnd, StatusInv, StatusTypes
    <3>2. sweep[w].start \in Started'  BY <3>1 DEF Started
    <3> QED BY <1>2, <2>2, <3>2 DEF SweepEnd, StatusInv, SweepInv
  <2> QED BY <2>1, <2>2
<1>4. SweeperTold'  BY <1>0, <1>2 DEF StatusInv, SweepInv, SweeperTold, Started
<1> QED BY <1>0, <1>2, <1>3, <1>4 DEF StatusInv, SweepInv

\* A step of a poll tells what it read, and reads what is there.
LEMMA PollKeeps ==
  ASSUME StatusInv, NEW p \in Poll, PollStep(p)
  PROVE  SweepInv' /\ PollInv'
<1>0. /\ UNCHANGED <<rows, beat, sweep, now>> /\ Len(rows) \in Nat /\ DOMAIN rows = 1..Len(rows)
      /\ poll \in [Poll -> PollRecord] /\ Ready \in PollRecord
  <2>1. rows \in Seq(Row)  BY DEF StatusInv, LogInv, TypeInv, TypeOK, Row
  <2>2. UNCHANGED <<rows, beat, sweep, now>>
    BY DEF PollStep, Asked, ReadAudit, ReadBeat, ReadDispatch, Shown, Polled, vars
  <2>3. poll \in [Poll -> PollRecord] /\ Ready \in PollRecord
    BY DEF StatusInv, StatusTypes, PollRecord, Ready
  <2> QED BY <2>1, <2>2, <2>3
<1>1. /\ Started' = Started /\ beat \in Started \cup {Never}
      /\ \A q \in Poll : poll[q].beat \in Started \cup {Never}
      /\ \A q \in Poll : poll[q].seq <= Len(rows) /\ (poll[q].at = "answer" /\ poll[q].whole => Covered(poll[q]))
      /\ page.seq <= Len(rows) /\ (page.whole => Covered(page)) /\ SweeperTold
  BY <1>0 DEF StatusInv, SweepInv, PollInv, Started
\* What is enough of the poll that moves, and of the page.
<1>2. ASSUME NEW r \in PollRecord, poll' = [poll EXCEPT ![p] = r],
             r.beat \in Started \cup {Never}, r.seq <= Len(rows),
             r.at = "answer" /\ r.whole => Covered(r)
      PROVE  /\ \A q \in Poll : poll'[q].beat \in Started \cup {Never}
             /\ \A q \in Poll : poll'[q].seq <= Len(rows)
                                /\ (poll'[q].at = "answer" /\ poll'[q].whole => Covered(poll'[q]))
  <2>1. \A q \in Poll : poll'[q] = IF q = p THEN r ELSE poll[q]  BY <1>0, <1>2
  <2> QED BY <1>1, <1>2, <2>1
<1>3. ASSUME \A q \in Poll : poll'[q].beat \in Started \cup {Never},
             \A q \in Poll : poll'[q].seq <= Len(rows)
                             /\ (poll'[q].at = "answer" /\ poll'[q].whole => Covered(poll'[q])),
             page'.seq <= Len(rows), page'.whole => Covered(page'), SweeperTold'
      PROVE  SweepInv' /\ PollInv'
  <2>1. SweepInv'  BY <1>0, <1>1, <1>3 DEF SweepInv
  <2>2. PollInv'  BY <1>0, <1>3 DEF PollInv, Covered
  <2> QED BY <2>1, <2>2
<1>4. UNCHANGED page => SweeperTold'  BY <1>0, <1>1 DEF SweeperTold
<1>5. poll[p] \in PollRecord  BY <1>0
<1>6. CASE Asked(p)
  <2> DEFINE r == [[Ready EXCEPT !.asOf = now] EXCEPT !.at = "audit"]
  <2>1. r \in PollRecord /\ r.beat = Never /\ r.seq = 0 /\ r.at = "audit"
    <3>1. now \in Nat  BY DEF StatusInv, LogInv, TypeInv, TypeOK
    <3> QED BY <3>1 DEF PollRecord, Ready
  <2>2. poll' = [poll EXCEPT ![p] = r] /\ UNCHANGED page  BY <1>6 DEF Asked, PollTo
  <2> HIDE DEF r
  <2> QED BY <1>0, <1>1, <1>2, <1>3, <1>4, <2>1, <2>2
<1>7. CASE ReadAudit(p)
  <2>1. PICK r \in PollRecord :
          /\ r.beat = poll[p].beat /\ r.seq \in {poll[p].seq, Len(rows)} /\ r.at = "sweeper"
          /\ poll' = [poll EXCEPT ![p] = r]
    <3>1. [[poll[p] EXCEPT !.seq = Len(rows)] EXCEPT !.at = "sweeper"] \in PollRecord
      BY <1>0, <1>5 DEF PollRecord
    <3>2. [[poll[p] EXCEPT !.whole = FALSE] EXCEPT !.at = "sweeper"] \in PollRecord
      BY <1>0, <1>5 DEF PollRecord
    <3>3. CASE PollTo(p, "sweeper", [poll[p] EXCEPT !.seq = Len(rows)])
      BY <1>5, <3>1, <3>3 DEF PollTo, PollRecord
    <3>4. CASE PollTo(p, "sweeper", [poll[p] EXCEPT !.whole = FALSE])
      BY <1>5, <3>2, <3>4 DEF PollTo, PollRecord
    <3> QED BY <1>7, <3>3, <3>4 DEF ReadAudit
  <2>2. UNCHANGED page  BY <1>7 DEF ReadAudit
  <2> QED BY <1>0, <1>1, <1>2, <1>3, <1>4, <2>1, <2>2
<1>8. CASE ReadBeat(p)
  <2>1. PICK r \in PollRecord :
          /\ r.beat \in {poll[p].beat, beat} /\ r.seq = poll[p].seq /\ r.at = "dispatch"
          /\ poll' = [poll EXCEPT ![p] = r]
    <3>0. beat \in Int \cup {Never}  BY DEF StatusInv, StatusTypes
    <3>1. [[poll[p] EXCEPT !.beat = beat] EXCEPT !.at = "dispatch"] \in PollRecord
      BY <1>5, <3>0 DEF PollRecord
    <3>2. [[poll[p] EXCEPT !.whole = FALSE] EXCEPT !.at = "dispatch"] \in PollRecord
      BY <1>5 DEF PollRecord
    <3>3. CASE PollTo(p, "dispatch", [poll[p] EXCEPT !.beat = beat])
      BY <1>5, <3>1, <3>3 DEF PollTo, PollRecord
    <3>4. CASE PollTo(p, "dispatch", [poll[p] EXCEPT !.whole = FALSE])
      BY <1>5, <3>2, <3>4 DEF PollTo, PollRecord
    <3> QED BY <1>8, <3>3, <3>4 DEF ReadBeat
  <2>2. UNCHANGED page  BY <1>8 DEF ReadBeat
  <2> QED BY <1>0, <1>1, <1>2, <1>3, <1>4, <2>1, <2>2
<1>9. CASE ReadDispatch(p)
  <2>0. LastDispatch \in Nat /\ \A i \in 1..Len(rows) : rows[i].event \in Dispatch => i <= LastDispatch
    BY <1>0, LastDispatchLatest DEF StatusInv
  <2>1. PICK r \in PollRecord :
          /\ r.beat = poll[p].beat /\ r.seq = poll[p].seq /\ (r.whole => r.sent = LastDispatch)
          /\ poll' = [poll EXCEPT ![p] = r]
    <3>1. [[poll[p] EXCEPT !.sent = LastDispatch] EXCEPT !.at = "answer"] \in PollRecord
      BY <1>5, <2>0 DEF PollRecord
    <3>2. [[poll[p] EXCEPT !.whole = FALSE] EXCEPT !.at = "answer"] \in PollRecord
      BY <1>5 DEF PollRecord
    <3>3. CASE PollTo(p, "answer", [poll[p] EXCEPT !.sent = LastDispatch])
      BY <1>5, <3>1, <3>3 DEF PollTo, PollRecord
    <3>4. CASE PollTo(p, "answer", [poll[p] EXCEPT !.whole = FALSE])
      BY <1>5, <3>2, <3>4 DEF PollTo, PollRecord
    <3> QED BY <1>9, <3>3, <3>4 DEF ReadDispatch
  <2>2. UNCHANGED page  BY <1>9 DEF ReadDispatch
  <2>3. r.seq \in Nat /\ r.seq <= Len(rows) /\ (r.whole => Covered(r))
    <3>1. r.seq \in Nat  BY DEF PollRecord
    <3>2. r.seq <= Len(rows)  BY <1>1, <2>1
    <3>3. \A i \in 1..r.seq : i \in 1..Len(rows)  BY <1>0, <3>1, <3>2
    <3> QED BY <2>0, <2>1, <3>1, <3>2, <3>3 DEF Covered
  <2> QED BY <1>1, <1>2, <1>3, <1>4, <2>1, <2>2, <2>3
<1>10. CASE Shown(p)
  <2>1. [Ready EXCEPT !.at = "done"] \in PollRecord  BY <1>0 DEF PollRecord
  <2>2. /\ poll' = [poll EXCEPT ![p] = [Ready EXCEPT !.at = "done"]]
        /\ poll[p].at = "answer"
        /\ page' \in {Panels(poll[p]), [page EXCEPT !.audit = "down", !.sweeper = "down"]}
    BY <1>10 DEF Shown, PollTo
  <2>3. /\ \A q \in Poll : poll'[q].beat \in Started \cup {Never}
        /\ \A q \in Poll : poll'[q].seq <= Len(rows)
                           /\ (poll'[q].at = "answer" /\ poll'[q].whole => Covered(poll'[q]))
    <3>1. /\ [Ready EXCEPT !.at = "done"].beat = Never /\ [Ready EXCEPT !.at = "done"].seq = 0
          /\ [Ready EXCEPT !.at = "done"].at = "done"
      BY DEF Ready
    <3>2. [Ready EXCEPT !.at = "done"].seq <= Len(rows)  BY <1>0, <3>1
    <3> DEFINE r == [Ready EXCEPT !.at = "done"]
    <3>3. r \in PollRecord /\ poll' = [poll EXCEPT ![p] = r] /\ r.beat = Never /\ r.at = "done" /\ r.seq <= Len(rows)
      BY <2>1, <2>2, <3>1, <3>2
    <3> HIDE DEF r
    <3> QED BY <1>2, <3>3
  <2>4. CASE page' = Panels(poll[p])
    <3>1. /\ page'.seq = poll[p].seq /\ page'.whole = poll[p].whole /\ page'.sent = poll[p].sent
          /\ page'.asOf = poll[p].asOf /\ page'.sweeper = AgeState(poll[p].beat, poll[p].asOf)
      BY <2>4 DEF Panels
    <3>2. page'.seq <= Len(rows) /\ (page'.whole => Covered(page'))  BY <1>1, <2>2, <3>1 DEF Covered
    <3>3. poll[p].beat # Never => poll[p].beat \in Started  BY <1>1
    <3>4. page'.sweeper = "ok" => poll[p].beat # Never /\ poll[p].asOf - poll[p].beat <= OkAge
      BY <3>1 DEF AgeState
    <3>5. page'.sweeper = "degraded" => poll[p].beat # Never /\ poll[p].asOf - poll[p].beat <= DegradedAge
      BY <3>1 DEF AgeState
    <3>6. SweeperTold'
      <4>1. page'.sweeper = "ok" => \E start \in Started : page'.asOf - start <= OkAge  BY <3>1, <3>3, <3>4
      <4>2. page'.sweeper = "degraded" => \E start \in Started : page'.asOf - start <= DegradedAge
        BY <3>1, <3>3, <3>5
      <4> QED BY <1>0, <4>1, <4>2 DEF SweeperTold, Started
    <3> QED BY <1>3, <2>3, <3>2, <3>6
  <2>5. CASE page' = [page EXCEPT !.audit = "down", !.sweeper = "down"]
    <3>1. /\ page'.seq = page.seq /\ page'.whole = page.whole /\ page'.sent = page.sent /\ page'.sweeper = "down"
      BY <2>5 DEF StatusInv, StatusTypes
    <3>2. page'.seq <= Len(rows) /\ (page'.whole => Covered(page'))  BY <1>1, <3>1 DEF Covered
    <3>3. SweeperTold'  BY <3>1 DEF SweeperTold
    <3> QED BY <1>3, <2>3, <3>2, <3>3
  <2> QED BY <2>2, <2>4, <2>5
<1> QED BY <1>6, <1>7, <1>8, <1>9, <1>10 DEF PollStep

\* A checkpoint reads the last row, and is dated when all rows are past.
LEMMA RootKeeps ==
  ASSUME StatusInv, NEW k \in Checkpoint, RootRead(k) \/ RootSign(k)
  PROVE  RootInv'
<1>0. /\ UNCHANGED rows /\ Len(rows) \in Nat /\ DOMAIN rows = 1..Len(rows) /\ rows \in Seq(Row)
      /\ root \in [Checkpoint -> RootRecord]
  BY DEF RootRead, RootSign, vars, StatusInv, StatusTypes, LogInv, TypeInv, TypeOK, Row
<1>1. CASE RootRead(k)
  <2>1. /\ root' = [root EXCEPT ![k] = [at |-> "stamp", seq |-> Len(rows), root |-> LastHash,
                     last |-> IF rows = <<>> THEN 0 ELSE rows[Len(rows)].at, stamp |-> 0]]
    BY <1>1 DEF RootRead
  <2>2. /\ root'[k].at = "stamp" /\ root'[k].seq = Len(rows)
        /\ root'[k].seq > 0 => root'[k].root = rows[Len(rows)].entry_hash /\ root'[k].last = rows[Len(rows)].at
    <3>1. root'[k] = [at |-> "stamp", seq |-> Len(rows), root |-> LastHash,
                      last |-> IF rows = <<>> THEN 0 ELSE rows[Len(rows)].at, stamp |-> 0]
      BY <1>0, <2>1
    <3>2. Len(rows) > 0 => rows # <<>>  BY <1>0
    <3> QED BY <3>1, <3>2 DEF LastHash
  <2>3. \A l \in Checkpoint \ {k} : root'[l] = root[l]  BY <1>0, <2>1
  <2> QED BY <1>0, <2>2, <2>3 DEF StatusInv, RootInv
<1>2. CASE RootSign(k)
  <2>1. /\ root[k].at = "stamp"
        /\ root'[k].at = "signed" /\ root'[k].stamp = now /\ root'[k].seq = root[k].seq
        /\ root'[k].root = root[k].root /\ root'[k].last = root[k].last
    BY <1>0, <1>2 DEF RootSign, RootRecord
  <2>2. \A l \in Checkpoint \ {k} : root'[l] = root[l]  BY <1>0, <1>2 DEF RootSign
  <2>3. root[k].seq > 0 => root[k].last <= now
    <3>1. root[k].seq \in Nat  BY <1>0 DEF RootRecord
    <3> QED BY <1>0, <2>1, <3>1 DEF StatusInv, RootInv, LogInv, TimeInv
  <2> QED BY <1>0, <2>1, <2>2, <2>3 DEF StatusInv, RootInv
<1> QED BY <1>1, <1>2

\* Every step keeps the whole invariant.
LEMMA NextStatusInv == ASSUME StatusInv, [StatusNext]_<<vars, statusVars>> PROVE StatusInv'
<1>1. CASE Next /\ UNCHANGED statusVars  BY <1>1, LogStepKeeps
<1>2. CASE UNCHANGED <<vars, statusVars>>  BY <1>2, LogStepKeeps
<1>3. UNCHANGED vars => LogInv' /\ MirrorInv'
  BY NextLogInv, NextMirrorInv DEF StatusInv
<1>4. ASSUME NEW w \in Sweep, SweepBegin(w) \/ SweepEnd(w) PROVE StatusInv'
  <2>1. UNCHANGED <<vars, poll, page, root>> /\ UNCHANGED rows  BY <1>4 DEF SweepBegin, SweepEnd, vars
  <2>2. PollInv' /\ RootInv'  BY <2>1 DEF StatusInv, PollInv, RootInv, Covered
  <2>3. StatusTypes'  BY <1>4, <2>1, StatusStepTypes DEF StatusInv
  <2> QED BY <1>3, <1>4, <2>1, <2>2, <2>3, SweepKeeps DEF StatusInv
<1>5. ASSUME NEW p \in Poll, PollStep(p) PROVE StatusInv'
  <2>1. UNCHANGED <<vars, root>> /\ UNCHANGED rows
    BY <1>5 DEF PollStep, Asked, ReadAudit, ReadBeat, ReadDispatch, Shown, Polled, vars
  <2>2. RootInv'  BY <2>1 DEF StatusInv, RootInv
  <2>3. StatusTypes'  BY <1>5, <2>1, StatusStepTypes DEF StatusInv
  <2> QED BY <1>3, <1>5, <2>1, <2>2, <2>3, PollKeeps DEF StatusInv
<1>6. ASSUME NEW k \in Checkpoint, RootRead(k) \/ RootSign(k) PROVE StatusInv'
  <2>1. UNCHANGED <<vars, beat, sweep, poll, page>> /\ UNCHANGED rows  BY <1>6 DEF RootRead, RootSign, vars
  <2>2. PollInv' /\ SweepInv'
    BY <2>1 DEF StatusInv, PollInv, SweepInv, Covered, SweeperTold, Started
  <2>3. StatusTypes'  BY <1>6, <2>1, StatusStepTypes DEF StatusInv
  <2> QED BY <1>3, <1>6, <2>1, <2>2, <2>3, RootKeeps DEF StatusInv
<1> QED BY <1>1, <1>2, <1>4, <1>5, <1>6 DEF StatusNext

\* A complete mirror holds the row that a checkpoint signed.
LEMMA MirrorHoldsRoot == ASSUME StatusInv PROVE CheckpointHolds
<1> SUFFICES ASSUME NEW k \in Checkpoint, root[k].at = "signed", root[k].seq > 0
             PROVE  /\ root[k].root = rows[root[k].seq].entry_hash /\ root[k].last = rows[root[k].seq].at
                    /\ root[k].last <= root[k].stamp
                    /\ mirror.done /\ root[k].seq <= mirror.pages[1].seq =>
                         \E i \in DOMAIN mirror.pages : /\ mirror.pages[i].seq = root[k].seq
                                                        /\ mirror.pages[i].entry_hash = root[k].root
  BY DEF CheckpointHolds
<1> DEFINE got == mirror.pages
<1>1. /\ root[k].root = rows[root[k].seq].entry_hash /\ root[k].last = rows[root[k].seq].at
      /\ root[k].last <= root[k].stamp
  BY DEF StatusInv, RootInv
<1>2. ASSUME mirror.done, root[k].seq <= got[1].seq
      PROVE  \E i \in DOMAIN got : got[i].seq = root[k].seq /\ got[i].entry_hash = root[k].root
  <2>1. root[k].seq \in Nat
    <3>1. root[k] \in RootRecord  BY DEF StatusInv, StatusTypes
    <3> QED BY <3>1 DEF RootRecord
  <2>2. got \in Seq(Row) /\ Len(got) \in Nat /\ DOMAIN got = 1..Len(got)  BY DEF StatusInv, MirrorInv
  <2>3. got # <<>> /\ got[1].seq + 1 - Len(got) = 1  BY <1>2 DEF StatusInv, MirrorInv
  <2>4. 1 \in DOMAIN got  BY <2>2, <2>3
  <2>5. got[1].seq \in Nat
    <3>1. got[1] \in Row  BY <2>2, <2>4
    <3> QED BY <3>1 DEF Row
  <2>6. got[1].seq + 1 - root[k].seq \in DOMAIN got  BY SMTT(20), <1>2, <2>1, <2>2, <2>3, <2>5
  <2>7. /\ got[got[1].seq + 1 - root[k].seq].seq = root[k].seq
        /\ got[got[1].seq + 1 - root[k].seq] = rows[root[k].seq]
    <3> DEFINE i == got[1].seq + 1 - root[k].seq
    <3>1. i \in DOMAIN got /\ got[1].seq + 1 - i = root[k].seq  BY <2>1, <2>5, <2>6
    <3> HIDE DEF i
    <3>2. got[i].seq = got[1].seq + 1 - i /\ got[i] = rows[got[i].seq]
      BY <3>1 DEF StatusInv, MirrorInv
    <3> QED BY <3>1, <3>2 DEF i
  <2> QED BY <1>1, <2>6, <2>7
<1> QED BY <1>1, <1>2

-----------------------------------------------------------------------------
\* Theorem: the inductive invariant of the log, its mirror and the status page
\* holds in every reachable state.
THEOREM StatusInvariance == StatusSpec => []StatusInv
BY InitStatusInv, NextStatusInv, PTL DEF StatusSpec

\* Theorem: the log's state has its type in every reachable state.
THEOREM LogTypes == StatusSpec => []TypeOK
<1>1. StatusInv => TypeOK  BY DEF StatusInv, LogInv, TypeInv
<1> QED BY <1>1, StatusInvariance, PTL

\* Theorem: every entry's prev_hash is the hash of the row just before it and
\* its signature is over its own seq, however many appends are in flight and
\* whichever of them fail (AuditLogger.ts).
THEOREM ChainIsLinear == StatusSpec => []ChainLinear
<1>1. StatusInv => ChainLinear  BY DEF StatusInv, LogInv, ChainInv
<1> QED BY <1>1, StatusInvariance, PTL

\* Theorem: a caller that was told ok has exactly its entry at the seq that it
\* was told (AuditLogger.append).
THEOREM AnswersAreLogged == StatusSpec => []AnsweredIsLogged
<1>1. StatusInv => AnsweredIsLogged  BY DEF StatusInv, LogInv, ChainInv
<1> QED BY <1>1, StatusInvariance, PTL

\* Theorem: the log's times never go back from one entry to the next, though
\* each append takes its time before it reads the last row.
THEOREM TimesNeverGoBack == StatusSpec => []TimesOrdered
<1>1. StatusInv => TimesOrdered  BY DEF StatusInv, LogInv, TimeInv
<1> QED BY <1>1, StatusInvariance, PTL

\* Theorem: a mirror made page by page while the log grows has no gap and no
\* entry twice, down to the first when it is done (GET /api/log).
THEOREM MirrorsAreUnbroken == StatusSpec => []MirrorUnbroken
<1>1. StatusInv => MirrorUnbroken  BY MirrorIsChain DEF StatusInv
<1> QED BY <1>1, StatusInvariance, PTL

\* Theorem: the sweeper panel is green or yellow only when a pass that began
\* within that age went through all its switches (cron.ts, routes/status.ts).
THEOREM SweeperIsTold == StatusSpec => []SweeperTold
<1>1. StatusInv => SweeperTold  BY DEF StatusInv, SweepInv
<1> QED BY <1>1, StatusInvariance, PTL

\* Theorem: an answer of whole reads never tells of an entry that stands for an
\* email and of an older such email, or of none (routes/status.ts).
THEOREM PanelsAlwaysAgree == StatusSpec => []PanelsAgree
<1>1. StatusInv => PanelsAgree  BY DEF StatusInv, PollInv, PanelsAgree, Covered
<1> QED BY <1>1, StatusInvariance, PTL

\* Theorem: a signed checkpoint is a fact about the log for ever, and a complete
\* mirror holds its entry (routes/log.ts).
THEOREM CheckpointsHold == StatusSpec => []CheckpointHolds
BY MirrorHoldsRoot, StatusInvariance, PTL

-----------------------------------------------------------------------------
(* The log as one step per append                                           *)

Notice == [subject : Subject, event : Event, at : Nat]
PNext  == [Public!Next]_(Public!vars)

\* What the mapping makes of the rows.
LEMMA PublishedIs ==
  ASSUME TypeInv
  PROVE  /\ Published \in Seq(Notice) /\ Len(Published) = Len(rows) /\ Len(rows) \in Nat
         /\ DOMAIN rows = 1..Len(rows) /\ DOMAIN Published = 1..Len(rows)
         /\ \A i \in 1..Len(rows) :
              Published[i] = [subject |-> rows[i].subject, event |-> rows[i].event, at |-> rows[i].at]
<1>1. rows \in Seq(Row)  BY DEF TypeInv, TypeOK, Row
<1>2. Len(rows) \in Nat /\ DOMAIN rows = 1..Len(rows) /\ \A i \in 1..Len(rows) : rows[i] \in Row  BY <1>1
<1>3. \A i \in 1..Len(rows) :
        /\ Published[i] = [subject |-> rows[i].subject, event |-> rows[i].event, at |-> rows[i].at]
        /\ Published[i] \in Notice
  BY <1>2 DEF Published, Row, Notice
<1>4. DOMAIN Published = 1..Len(rows) /\ Published = [i \in 1..Len(rows) |-> Published[i]]
  BY <1>2 DEF Published
<1>5. Published \in [1..Len(rows) -> Notice]  BY <1>3, <1>4
<1>6. Published \in Seq(Notice) /\ Len(Published) = Len(rows)  BY <1>2, <1>4, <1>5
<1> QED BY <1>2, <1>3, <1>4, <1>6

\* The same of the state after a step.
LEMMA PublishedIsNext ==
  ASSUME TypeInv'
  PROVE  /\ Published' \in Seq(Notice) /\ Len(Published') = Len(rows') /\ Len(rows') \in Nat
         /\ DOMAIN rows' = 1..Len(rows') /\ DOMAIN Published' = 1..Len(rows')
         /\ \A i \in 1..Len(rows') :
              Published'[i] = [subject |-> rows'[i].subject, event |-> rows'[i].event, at |-> rows'[i].at]
<1>1. rows' \in Seq(Row')  BY DEF TypeInv, TypeOK, Row
<1>2. Len(rows') \in Nat /\ DOMAIN rows' = 1..Len(rows') /\ \A i \in 1..Len(rows') : rows'[i] \in Row'
  BY <1>1
<1>3. \A i \in 1..Len(rows') :
        /\ Published'[i] = [subject |-> rows'[i].subject, event |-> rows'[i].event, at |-> rows'[i].at]
        /\ Published'[i] \in Notice
  BY <1>2 DEF Published, Row, Notice
<1>4. DOMAIN Published' = 1..Len(rows') /\ Published' = [i \in 1..Len(rows') |-> Published'[i]]
  BY <1>2 DEF Published
<1>5. Published' \in [1..Len(rows') -> Notice]  BY <1>3, <1>4
<1>6. Published' \in Seq(Notice) /\ Len(Published') = Len(rows')  BY <1>2, <1>4, <1>5
<1> QED BY <1>2, <1>3, <1>4, <1>6

\* What the mapping makes of the calls.
LEMMA AskingIs ==
  /\ DOMAIN Asking = Caller /\ Asking = [c \in Caller |-> Asking[c]]
  /\ \A c \in Caller :
       Asking[c] = [at |-> IF call[c].pc \in {"ok", "failed"} THEN call[c].pc ELSE "asked",
                    subject |-> call[c].subject, event |-> call[c].event,
                    seq |-> IF call[c].pc = "ok" THEN call[c].seq ELSE 0]
BY DEF Asking

\* The same of the state after a step.
LEMMA AskingIsNext ==
  /\ DOMAIN Asking' = Caller /\ Asking' = [c \in Caller |-> Asking'[c]]
  /\ \A c \in Caller :
       Asking'[c] = [at |-> IF call'[c].pc \in {"ok", "failed"} THEN call'[c].pc ELSE "asked",
                     subject |-> call'[c].subject, event |-> call'[c].event,
                     seq |-> IF call'[c].pc = "ok" THEN call'[c].seq ELSE 0]
BY DEF Asking

\* The log begins as an empty one that nobody has written to.
LEMMA InitIsPublic == Init => Public!Init
<1> SUFFICES ASSUME Init PROVE Public!Init  OBVIOUS
<1>1. now = 0 /\ Published = <<>>
  <2>1. rows = <<>> /\ now = 0  BY DEF Init
  <2>2. DOMAIN Published = 1..0 /\ Len(Published) = 0 /\ Published \in Seq(Notice)
    BY <2>1, InitTypeInv, PublishedIs
  <2> QED BY <2>1, <2>2
<1>2. Asking \in [Caller -> [at : {"asked"}, subject : Subject, event : Event, seq : {0}]]
  <2>1. \A c \in Caller : call[c].pc = "asked" /\ call[c].subject \in Subject /\ call[c].event \in Event
    BY DEF Init
  <2>2. \A c \in Caller :
          Asking[c] = [at |-> "asked", subject |-> call[c].subject, event |-> call[c].event, seq |-> 0]
    BY <2>1, AskingIs
  <2>3. \A c \in Caller : Asking[c] \in [at : {"asked"}, subject : Subject, event : Event, seq : {0}]
    <3>1. TAKE c \in Caller
    <3>2. [at |-> "asked", subject |-> call[c].subject, event |-> call[c].event, seq |-> 0]
            \in [at : {"asked"}, subject : Subject, event : Event, seq : {0}]
      BY <2>1
    <3> QED BY <2>2, <3>2
  <2> QED BY <2>3, AskingIs
<1> QED BY <1>1, <1>2 DEF Public!Init

\* An INSERT publishes the entry, with the time that its append has had since
\* it went in; nobody else was inside.
LEMMA InsertPublishes == ASSUME LogInv, NEW c \in Caller, Insert(c) PROVE Public!Publish(c)
<1> DEFINE e == [subject |-> call[c].subject, event |-> call[c].event, at |-> call[c].at]
<1>0. TypeInv /\ call \in [Caller -> CallRecord] /\ now \in Nat  BY DEF LogInv, TypeInv, TypeOK
<1>1. /\ call[c].pc = "insert" /\ call[c].seq = Len(rows) + 1 /\ call[c].at \in 0..now
      /\ \A i \in DOMAIN rows : rows[i].at <= call[c].at
  <2>1. call[c].pc = "insert"  BY DEF Insert
  <2>2. call[c].at \in Nat  BY <1>0 DEF CallRecord
  <2> QED BY <1>0, <2>1, <2>2 DEF LogInv, GateInv, Busy
<1>2. PICK reply \in {"ok", "failed"} : call' = [call EXCEPT ![c].pc = reply]  BY DEF Insert
<1>3. /\ \A d \in Caller \ {c} : call'[d] = call[d]
      /\ call'[c].pc = reply /\ call'[c].seq = call[c].seq
      /\ call'[c].subject = call[c].subject /\ call'[c].event = call[c].event
  BY <1>0, <1>2 DEF CallRecord
<1>4. Published' = Append(Published, [subject |-> Asking[c].subject, event |-> Asking[c].event,
                                      at |-> call[c].at])
  <2>1. TypeInv'  BY <1>0, NextTypeInv DEF Next
  <2>2. /\ Published \in Seq(Notice) /\ Published' \in Seq(Notice)
        /\ Len(rows) \in Nat /\ Len(Published) = Len(rows)
        /\ Len(Published') = Len(rows) + 1 /\ Len(rows') = Len(rows) + 1
    BY <1>0, <2>1, InsertAppends, PublishedIs, PublishedIsNext
  <2>3. Published'[Len(rows) + 1] = e
    <3>1. rows'[Len(rows) + 1] = Entry(c)  BY <1>0, InsertAppends
    <3>2. Published'[Len(rows) + 1] = [subject |-> rows'[Len(rows) + 1].subject,
              event |-> rows'[Len(rows) + 1].event, at |-> rows'[Len(rows) + 1].at]
      BY <2>1, <2>2, PublishedIsNext
    <3>3. /\ Entry(c).subject = call[c].subject /\ Entry(c).event = call[c].event
          /\ Entry(c).at = call[c].at
      BY DEF Entry
    <3> QED BY <3>1, <3>2, <3>3
  <2>4. \A i \in 1..Len(rows) : Published'[i] = Published[i]
    <3>1. \A i \in 1..Len(rows) : rows'[i] = rows[i]  BY <1>0, InsertAppends
    <3> QED BY <1>0, <2>1, <2>2, <3>1, PublishedIs, PublishedIsNext
  <2>5. e \in Notice  BY <1>0, <1>1 DEF CallRecord, Notice
  <2>6. Published' = Append(Published, e)  BY <2>2, <2>3, <2>4, <2>5
  <2> QED BY <2>6, AskingIs
<1>5. Public!Answer(c, "ok", Len(Published) + 1) \/ Public!Answer(c, "failed", 0)
  <2>1. Len(Published) = Len(rows)  BY <1>0, PublishedIs
  <2>2. \A d \in Caller \ {c} : Asking'[d] = Asking[d]  BY <1>3, AskingIs, AskingIsNext
  <2>3. Asking[c].subject = call[c].subject /\ Asking[c].event = call[c].event  BY AskingIs
  <2>4. CASE reply = "ok"
    <3>1. Asking'[c] = [at |-> "ok", subject |-> Asking[c].subject, event |-> Asking[c].event,
                        seq |-> Len(Published) + 1]
      BY <1>1, <1>3, <2>1, <2>3, <2>4, AskingIsNext
    <3> QED BY <2>2, <3>1, AskingIs, AskingIsNext DEF Public!Answer
  <2>5. CASE reply = "failed"
    <3>1. Asking'[c] = [at |-> "failed", subject |-> Asking[c].subject, event |-> Asking[c].event, seq |-> 0]
      BY <1>3, <2>3, <2>5, AskingIsNext
    <3> QED BY <2>2, <3>1, AskingIs, AskingIsNext DEF Public!Answer
  <2> QED BY <2>4, <2>5
<1>6. Asking[c].at = "asked" /\ \A i \in DOMAIN Published : Published[i].at <= call[c].at
  BY <1>0, <1>1, AskingIs, PublishedIs
<1> QED BY <1>1, <1>4, <1>5, <1>6 DEF Public!Publish, Insert

\* A call that fails before its INSERT is refused.
LEMMA AbortRefuses == ASSUME LogInv, NEW c \in Caller, Abort(c) PROVE Public!Refuse(c)
<1>0. call \in [Caller -> CallRecord]  BY DEF LogInv, TypeInv
<1>1. /\ \A d \in Caller \ {c} : call'[d] = call[d]
      /\ call[c].pc \notin {"ok", "failed"} /\ call'[c].pc = "failed"
      /\ call'[c].subject = call[c].subject /\ call'[c].event = call[c].event
  BY <1>0 DEF Abort, CallRecord
<1>2. \A d \in Caller \ {c} : Asking'[d] = Asking[d]  BY <1>1, AskingIs, AskingIsNext
<1>3. /\ Asking[c].at = "asked"
      /\ Asking'[c] = [at |-> "failed", subject |-> Asking[c].subject, event |-> Asking[c].event, seq |-> 0]
  BY <1>1, AskingIs, AskingIsNext
<1>4. Public!Answer(c, "failed", 0)  BY <1>2, <1>3, AskingIs, AskingIsNext DEF Public!Answer
<1>5. UNCHANGED <<now, Published>>  BY DEF Abort, Published
<1> QED BY <1>3, <1>4, <1>5 DEF Public!Refuse

\* Every step of the log is one of the promise, or none.
LEMMA LogStepIsPublic == ASSUME LogInv, [Next]_vars PROVE PNext
<1>0. call \in [Caller -> CallRecord]  BY DEF LogInv, TypeInv
<1>1. ASSUME NEW c \in Caller, Enter(c) \/ SelectLast(c) PROVE PNext
  <2>1. UNCHANGED <<now, rows>>  BY <1>1 DEF Enter, SelectLast
  <2>2. \A d \in Caller : /\ call'[d].subject = call[d].subject /\ call'[d].event = call[d].event
                          /\ d # c => call'[d] = call[d]
                          /\ call[c].pc \notin {"ok", "failed"} /\ call'[c].pc \notin {"ok", "failed"}
    BY <1>0, <1>1 DEF Enter, SelectLast, CallRecord
  <2>3. \A d \in Caller : Asking'[d] = Asking[d]  BY <2>2, AskingIs, AskingIsNext
  <2>4. Asking' = Asking /\ Published' = Published  BY <2>1, <2>3, AskingIs, AskingIsNext DEF Published
  <2> QED BY <2>1, <2>4 DEF PNext, Public!vars
<1>2. ASSUME NEW c \in Caller, Insert(c) \/ Abort(c) PROVE PNext
  BY <1>2, InsertPublishes, AbortRefuses DEF PNext, Public!Next
<1>3. CASE ReadPage \/ UNCHANGED vars
  BY <1>3 DEF ReadPage, vars, PNext, Public!vars, Published, Asking
<1>4. CASE Tick
  <2>1. Public!Tick  BY <1>4 DEF Tick, Public!Tick, Published, Asking
  <2> QED BY <2>1 DEF PNext, Public!Next
<1> QED BY <1>1, <1>2, <1>3, <1>4 DEF Next

\* So is every step of what watches the log: it writes nothing there.
LEMMA StatusStepIsPublic == ASSUME LogInv, [StatusNext]_<<vars, statusVars>> PROVE PNext
<1>1. [Next]_vars
  BY DEF StatusNext, SweepBegin, SweepEnd, PollStep, Asked, ReadAudit, ReadBeat, ReadDispatch, Shown,
         Polled, RootRead, RootSign
<1> QED BY <1>1, LogStepIsPublic

\* An empty log has no entry to account for.
LEMMA InitAuthored == Init => Public!Authored
<1> SUFFICES ASSUME Init PROVE Public!Authored  OBVIOUS
<1>1. DOMAIN Published = {} /\ \A c \in Caller : Asking[c].at = "asked"
  <2>1. rows = <<>> /\ \A c \in Caller : call[c].pc = "asked"  BY DEF Init
  <2>2. DOMAIN Published = 1..0  BY <2>1, InitTypeInv, PublishedIs
  <2> QED BY <2>1, <2>2, AskingIs
<1>2. [i \in DOMAIN Published |-> CHOOSE c \in Caller : TRUE] \in [DOMAIN Published -> Caller]
  BY <1>1
<1> QED BY <1>1, <1>2 DEF Public!Authored

\* Whoever publishes has the new entry, and had none.
LEMMA PublishAuthored ==
  ASSUME TypeInv, Public!Authored, NEW c \in Caller, Public!Publish(c)
  PROVE  Public!Authored'
<1> DEFINE n == Len(rows) + 1
<1>0. /\ Published \in Seq(Notice) /\ Len(Published) = Len(rows) /\ Len(rows) \in Nat
      /\ DOMAIN Published = 1..Len(rows)
  BY PublishedIs
<1>1. PICK by \in [DOMAIN Published -> Caller] :
        /\ \A i, j \in DOMAIN Published : by[i] = by[j] => i = j
        /\ \A i \in DOMAIN Published :
             /\ Asking[by[i]].at # "asked" /\ Published[i].subject = Asking[by[i]].subject
             /\ Published[i].event = Asking[by[i]].event
        /\ \A d \in Caller : Asking[d].at = "ok" =>
             Asking[d].seq \in DOMAIN Published /\ by[Asking[d].seq] = d
  BY DEF Public!Authored
<1>2. /\ DOMAIN Published' = 1..n /\ \A i \in 1..Len(rows) : Published'[i] = Published[i]
      /\ Published'[n].subject = Asking[c].subject /\ Published'[n].event = Asking[c].event
  <2>1. PICK t \in 0..now : Published' = Append(Published, [subject |-> Asking[c].subject,
                                                           event |-> Asking[c].event, at |-> t])
    BY DEF Public!Publish
  <2>2. now \in Nat /\ call \in [Caller -> CallRecord]  BY DEF TypeInv, TypeOK
  <2>3. Asking[c].subject \in Subject /\ Asking[c].event \in Event  BY <2>2, AskingIs DEF CallRecord
  <2>4. [subject |-> Asking[c].subject, event |-> Asking[c].event, at |-> t] \in Notice
    BY <2>2, <2>3 DEF Notice
  <2> QED BY <1>0, <2>1, <2>4
<1>3. /\ Asking[c].at = "asked" /\ Asking'[c].at \in {"ok", "failed"}
      /\ Asking'[c].at = "ok" => Asking'[c].seq = n
      /\ Asking'[c].subject = Asking[c].subject /\ Asking'[c].event = Asking[c].event
      /\ \A d \in Caller \ {c} : Asking'[d] = Asking[d]
  <2>1. Asking[c].at = "asked"  BY DEF Public!Publish
  <2>2. ASSUME NEW reply, NEW seq, Public!Answer(c, reply, seq)
        PROVE  /\ Asking'[c].at = reply /\ Asking'[c].seq = seq
               /\ Asking'[c].subject = Asking[c].subject /\ Asking'[c].event = Asking[c].event
               /\ \A d \in Caller \ {c} : Asking'[d] = Asking[d]
    <3>1. Asking'[c] = [at |-> reply, subject |-> Asking[c].subject, event |-> Asking[c].event, seq |-> seq]
      BY <2>2, AskingIs DEF Public!Answer
    <3>2. \A d \in Caller \ {c} : Asking'[d] = Asking[d]  BY <2>2, AskingIs DEF Public!Answer
    <3> QED BY <3>1, <3>2
  <2>3. CASE Public!Answer(c, "ok", n)  BY <2>1, <2>2, <2>3
  <2>4. CASE Public!Answer(c, "failed", 0)  BY <2>1, <2>2, <2>4
  <2> QED BY <1>0, <2>3, <2>4 DEF Public!Publish
<1>4. PICK of \in [1..n -> Caller] : of[n] = c /\ \A i \in 1..Len(rows) : of[i] = by[i]
  <2> DEFINE f == [i \in 1..n |-> IF i = n THEN c ELSE by[i]]
  <2>1. \A i \in 1..n : i # n => i \in 1..Len(rows)  BY <1>0
  <2>2. \A i \in 1..Len(rows) : by[i] \in Caller  BY <1>0
  <2>3. f \in [1..n -> Caller]  BY <2>1, <2>2
  <2>4. f[n] = c /\ \A i \in 1..Len(rows) : f[i] = by[i]  BY <1>0
  <2> QED BY <2>3, <2>4
<1>5. \A i \in 1..Len(rows) : by[i] \in Caller \ {c}  BY <1>0, <1>1, <1>3
<1>6. \A i, j \in 1..n : of[i] = of[j] => i = j  BY <1>0, <1>1, <1>4, <1>5
<1>7. \A i \in 1..n : /\ Asking'[of[i]].at # "asked"
                      /\ Published'[i].subject = Asking'[of[i]].subject
                      /\ Published'[i].event = Asking'[of[i]].event
  <2>1. TAKE i \in 1..n
  <2>2. CASE i = n  BY <1>2, <1>3, <1>4, <2>2
  <2>3. CASE i \in 1..Len(rows)  BY <1>0, <1>1, <1>2, <1>3, <1>4, <1>5, <2>3
  <2> QED BY <1>0, <2>2, <2>3
<1>8. \A d \in Caller : Asking'[d].at = "ok" => Asking'[d].seq \in 1..n /\ of[Asking'[d].seq] = d
  BY <1>0, <1>1, <1>3, <1>4
<1> QED BY <1>2, <1>4, <1>6, <1>7, <1>8 DEF Public!Authored

\* Every other step leaves the log and its authors alone.
LEMMA NextAuthored == ASSUME TypeInv, Public!Authored, PNext PROVE Public!Authored'
<1>1. CASE Public!Tick \/ UNCHANGED Public!vars
  BY <1>1 DEF Public!Tick, Public!vars, Public!Authored
<1>2. ASSUME NEW c \in Caller, Public!Refuse(c) PROVE Public!Authored'
  <2>1. PICK by \in [DOMAIN Published -> Caller] :
          /\ \A i, j \in DOMAIN Published : by[i] = by[j] => i = j
          /\ \A i \in DOMAIN Published :
               /\ Asking[by[i]].at # "asked" /\ Published[i].subject = Asking[by[i]].subject
               /\ Published[i].event = Asking[by[i]].event
          /\ \A d \in Caller : Asking[d].at = "ok" =>
               Asking[d].seq \in DOMAIN Published /\ by[Asking[d].seq] = d
    BY DEF Public!Authored
  <2>2. Asking[c].at = "asked" /\ Published' = Published  BY <1>2 DEF Public!Refuse
  <2>3. Asking'[c].at = "failed" /\ \A d \in Caller \ {c} : Asking'[d] = Asking[d]
    BY <1>2, AskingIs DEF Public!Refuse, Public!Answer
  <2>4. \A i \in DOMAIN Published : by[i] \in Caller \ {c}  BY <2>1, <2>2
  <2> QED BY <2>1, <2>2, <2>3, <2>4 DEF Public!Authored
<1> QED BY <1>1, <1>2, PublishAuthored DEF PNext, Public!Next

\* Theorem: an append is one step or none for those who write to the log: its
\* SELECT, its INSERT, its time and its reply, with whatever fails between them,
\* implement PublicLog (AuditLogger.ts:9-11).
THEOREM AppendsAreOneStep == StatusSpec => AppendsAreAtomic
<1>1. StatusInit => Public!Init  BY InitIsPublic DEF StatusInit
<1>2. StatusInv /\ [StatusNext]_<<vars, statusVars>> => [Public!Next]_(Public!vars)
  BY StatusStepIsPublic DEF StatusInv, PNext
<1> QED BY <1>1, <1>2, StatusInvariance, PTL DEF StatusSpec, AppendsAreAtomic, Public!Spec

\* Theorem: every entry of the log is of one call that is over, no call has two
\* of them, and a call that was told a seq has the entry there: nobody who asks
\* once is published twice, however its reply was lost.
THEOREM EntriesAreAuthored == StatusSpec => []Public!Authored
<1>1. StatusInit => Public!Authored  BY InitAuthored DEF StatusInit
<1>2. StatusInv /\ Public!Authored /\ [StatusNext]_<<vars, statusVars>> => Public!Authored'
  BY StatusStepIsPublic, NextAuthored DEF StatusInv, LogInv
<1> QED BY <1>1, <1>2, StatusInvariance, PTL DEF StatusSpec

-----------------------------------------------------------------------------
(* What the pages compute (Displays)                                        *)

\* The quotient, between its bounds.
LEMMA Quotient ==
  ASSUME NEW a \in Int, NEW b \in Nat \ {0}
  PROVE  a \div b \in Int /\ b * (a \div b) <= a /\ a < b * (a \div b) + b
OBVIOUS

\* Of two numbers.
LEMMA MinMax ==
  /\ \A x, y \in Int : Min({x, y}) = IF x <= y THEN x ELSE y
  /\ \A x, y \in Int : Max({x, y}) = IF x <= y THEN y ELSE x
<1>1. ASSUME NEW x \in Int, NEW y \in Int PROVE Min({x, y}) = IF x <= y THEN x ELSE y
  BY <1>1 DEF Min
<1>2. ASSUME NEW x \in Int, NEW y \in Int PROVE Max({x, y}) = IF x <= y THEN y ELSE x
  BY <1>2 DEF Max
<1> QED BY <1>1, <1>2

\* The conversions of units that TimeAgo does one after the other.
LEMMA Units ==
  ASSUME NEW sec \in Nat, NEW ms \in (1000 * sec)..(1000 * sec + 999)
  PROVE  /\ ms \in Nat /\ ms \div 1000 = sec
         /\ (sec \div 60) \div 60 = sec \div 3600
         /\ (sec \div 3600) \div 24 = sec \div 86400
OBVIOUS

\* Theorem: the two formatters of an age agree on every age, tell what is not
\* more than it and short of it by less than their unit, and the parts of a
\* countdown are its seconds (status.js:8-14, app.js:307-335); TLC has the
\* edges of the units only.
THEOREM AllTimesShown == \A sec \in Nat : \A ms \in (1000 * sec)..(1000 * sec + 999) : TimeShown(sec, ms)
<1> SUFFICES ASSUME NEW sec \in Nat, NEW ms \in (1000 * sec)..(1000 * sec + 999) PROVE TimeShown(sec, ms)
  OBVIOUS
<1>1. \A unit \in {60, 3600, 86400} : /\ sec \div unit \in Nat
                                      /\ (sec \div unit) * unit <= sec /\ sec < (sec \div unit + 1) * unit
  OBVIOUS
<1>2. TimeAgo(ms) = FmtAge(sec)  BY Units DEF TimeAgo, FmtAge
<1>3. LET n == FmtAge(sec)[1]  unit == FmtAge(sec)[2] IN n * unit <= sec /\ sec < (n + 1) * unit
  BY <1>1 DEF FmtAge
<1>4. LET t == MsToDhms(ms) IN
      /\ t.expired <=> ms = 0
      /\ t.d * 86400 + t.h * 3600 + t.m * 60 + t.s = sec /\ t.h < 24 /\ t.m < 60 /\ t.s < 60
  <2>1. CASE ms = 0  BY <2>1 DEF MsToDhms
  <2>2. CASE ms # 0
    <3> DEFINE s == ms \div 1000
    <3>1. ~(ms <= 0) /\ s = sec  BY <2>2, Units
    <3>2. MsToDhms(ms) = [d |-> s \div 86400, h |-> (s % 86400) \div 3600, m |-> (s % 3600) \div 60,
                          s |-> s % 60, expired |-> FALSE]
      BY <3>1 DEF MsToDhms
    <3> HIDE DEF s
    <3>3. /\ (sec \div 86400) * 86400 + ((sec % 86400) \div 3600) * 3600 + ((sec % 3600) \div 60) * 60
               + (sec % 60) = sec
          /\ (sec % 86400) \div 3600 < 24 /\ (sec % 3600) \div 60 < 60 /\ sec % 60 < 60
      OBVIOUS
    <3> QED BY <2>2, <3>1, <3>2, <3>3
  <2> QED BY <2>1, <2>2
<1> QED BY <1>2, <1>3, <1>4 DEF TimeShown

\* Theorem: a scrubbed number is within its limits, and by no more than half a
\* step from where the pointer put it unless a limit is, for any limits and
\* step (tweaks-panel.jsx:439-454).
THEOREM AllScrubsHold ==
  \A val, dx, min, max \in Int, step \in Nat \ {0} : min <= max => ScrubHolds(val, dx, step, min, max)
<1> SUFFICES ASSUME NEW val \in Int, NEW dx \in Int, NEW min \in Int, NEW max \in Int, min <= max,
                    NEW step \in Nat \ {0}
             PROVE  ScrubHolds(val, dx, step, min, max)
  OBVIOUS
<1> DEFINE raw == val + dx * step
           q == (2 * raw + step) \div (2 * step)
           w == step * q
<1>1. raw \in Int  OBVIOUS
<1> HIDE DEF raw
<1>2. q \in Int /\ 2 * step * q <= 2 * raw + step /\ 2 * raw + step < 2 * step * q + 2 * step
  <2> DEFINE a == 2 * raw + step
             b == 2 * step
  <2>1. a \in Int /\ b \in Nat \ {0}  BY <1>1
  <2>2. a \div b \in Int /\ b * (a \div b) <= a /\ a < b * (a \div b) + b  BY <2>1, Quotient
  <2> QED BY <2>2
<1> HIDE DEF q
<1>3. w \in Int /\ 2 * w <= 2 * raw + step /\ 2 * raw < 2 * w + step  BY <1>1, <1>2
<1> HIDE DEF w
<1>4. Scrub(val, dx, step, min, max) = IF w < min THEN min ELSE IF w > max THEN max ELSE w
  BY DEF Scrub, Bounded, w, q, raw
<1> QED BY <1>1, <1>3, <1>4 DEF raw, ScrubHolds

\* Theorem: a drag over a track passes its options in order, all of them, and
\* stops at the ends, if there is a pixel for each (tweaks-panel.jsx:373-377).
THEOREM AllTracksHold == \A n, width \in Nat \ {0} : n <= width => TrackHolds(n, width, Int)
<1> SUFFICES ASSUME NEW n \in Nat \ {0}, NEW width \in Nat \ {0}, n <= width PROVE TrackHolds(n, width, Int)
  OBVIOUS
<1> DEFINE q(x) == (x * n) \div width
           Seg(x) == SegAt(x, width, n)
<1>1. ASSUME NEW x \in Int PROVE q(x) \in Int /\ width * q(x) <= x * n /\ x * n < width * q(x) + width
  <2>1. x * n \in Int  OBVIOUS
  <2> QED BY <2>1, Quotient
<1>2. ASSUME NEW x \in Int PROVE Seg(x) = IF q(x) < 0 THEN 0 ELSE IF q(x) > n - 1 THEN n - 1 ELSE q(x)
  BY <1>1, MinMax DEF SegAt
\* To the right is no earlier option.
<1>3. ASSUME NEW x \in Int PROVE q(x) <= q(x + 1)
  <2> DEFINE a == q(x)
             b == q(x + 1)
  <2>1. a \in Int /\ b \in Int /\ width * a <= x * n /\ (x + 1) * n < width * b + width  BY <1>1
  <2> HIDE DEF a, b
  <2>2. x * n \in Int /\ (x + 1) * n = x * n + n  OBVIOUS
  <2>3. width * a < width * (b + 1)  BY <2>1, <2>2
  <2>4. a < b + 1  BY <2>1, <2>3
  <2> QED BY <2>1, <2>4 DEF a, b
\* The first pixel of option k is k * width / n, rounded up.
<1>4. ASSUME NEW k \in 0..(n - 1) PROVE \E x \in 0..(width - 1) : q(x) = k
  <2> DEFINE x == (k * width + (n - 1)) \div n
             c == q(x)
  <2>1. k * width + (n - 1) \in Int  OBVIOUS
  <2>2. x \in Int /\ n * x <= k * width + (n - 1) /\ k * width + (n - 1) < n * x + n  BY <2>1, Quotient
  <2> HIDE DEF x
  <2>3. k * width <= n * x /\ n * x < (k + 1) * width
    <3>1. k * width \in Int /\ (k + 1) * width = k * width + width  OBVIOUS
    <3>2. n * x \in Int  BY <2>2
    <3> QED BY <2>2, <3>1, <3>2
  <2>4. x \in 0..(width - 1)
    <3>1. k * width >= 0  OBVIOUS
    <3>2. x >= 0  BY <2>2, <2>3, <3>1
    <3>3. k + 1 <= n /\ k + 1 \in Int  OBVIOUS
    <3>4. (k + 1) * width <= n * width  BY <3>3
    <3>5. n * x < n * width  BY <2>2, <2>3, <3>4
    <3>6. x < width  BY <2>2, <3>5
    <3> QED BY <2>2, <3>2, <3>6
  <2>5. c \in Int /\ width * c <= x * n /\ x * n < width * c + width  BY <1>1, <2>2
  <2> HIDE DEF c
  <2>6. x * n = n * x /\ n * x \in Int  BY <2>2
  <2>7. width * c < width * (k + 1) /\ width * k < width * (c + 1)  BY <2>3, <2>5, <2>6
  <2>8. c < k + 1 /\ k < c + 1  BY <2>5, <2>7
  <2>9. c = k  BY <2>5, <2>8
  <2> QED BY <2>4, <2>9 DEF c
<1>5. ASSUME NEW x \in Int PROVE Seg(x) \in 0..(n - 1)  BY <1>1, <1>2
<1>6. ASSUME NEW x \in Int PROVE Seg(x) <= Seg(x + 1)
  <2> DEFINE a == q(x)
             b == q(x + 1)
  <2>1. x + 1 \in Int  OBVIOUS
  <2>2. a \in Int /\ b \in Int /\ a <= b  BY <2>1, <1>1, <1>3
  <2>3. /\ Seg(x) = IF a < 0 THEN 0 ELSE IF a > n - 1 THEN n - 1 ELSE a
        /\ Seg(x + 1) = IF b < 0 THEN 0 ELSE IF b > n - 1 THEN n - 1 ELSE b
    BY <2>1, <1>2
  <2> HIDE DEF a, b, Seg
  <2> QED BY <2>2, <2>3
<1>7. {Seg(x) : x \in 0..(width - 1)} = 0..(n - 1)
  <2>1. ASSUME NEW k \in 0..(n - 1) PROVE \E x \in 0..(width - 1) : Seg(x) = k
    <3>1. PICK x \in 0..(width - 1) : q(x) = k  BY <1>4
    <3>2. Seg(x) = k  BY <1>2, <3>1
    <3> QED BY <3>2
  <2>2. \A x \in 0..(width - 1) : Seg(x) \in 0..(n - 1)  BY <1>5
  <2> HIDE DEF Seg
  <2> QED BY <2>1, <2>2
<1> QED BY <1>5, <1>6, <1>7 DEF TrackHolds
-----------------------------------------------------------------------------
(* The bars of the days                                                     *)

\* What the bar of a day is to be after the first i incidents.
BarAt(f, file, day, i) ==
  IF i = 0 THEN "ok" ELSE IF file[i].day = day THEN Worse(f[i - 1], file[i]) ELSE f[i - 1]

\* The incidents of a day among the first i, and the worst of some.
OfDay(file, day, i) == {Severity(inc) : inc \in {x \in Among(file, i) : x.day = day}}
Worst(S) == IF "down" \in S THEN "down" ELSE IF S = {} THEN "ok" ELSE "degraded"

\* So that Bar is what its recursion says.
LEMMA BarIs ==
  ASSUME NEW T, NEW file \in Seq(T), NEW day
  PROVE  \E f : Bar(file, day) = f[Len(file)] /\ \A i \in 0..Len(file) : f[i] = BarAt(f, file, day, i)
<1> DEFINE n     == Len(file)
           State == {"ok", "down", "degraded"}
           step  == [p \in (1..n) \X State |-> IF file[p[1]].day = day THEN Worse(p[2], file[p[1]]) ELSE p[2]]
<1>1. n \in Nat  OBVIOUS
<1> HIDE DEF n
<1>2. step \in [(1..n) \X State -> State]
  <2>1. \A s \in State : \A inc : Worse(s, inc) \in State  BY DEF Worse, Severity
  <2>2. \A p \in (1..n) \X State : p[2] \in State  OBVIOUS
  <2> HIDE DEF State
  <2> QED BY <2>1, <2>2
<1>3. PICK f \in [0..n -> State] : f[0] = "ok" /\ \A i \in 1..n : f[i] = step[<<i, f[i - 1]>>]
  <2>1. "ok" \in State  OBVIOUS
  <2> HIDE DEF step, State
  <2>2. Folded(State, "ok", n, step)  BY <1>1, <1>2, <2>1, FoldExists
  <2> QED BY <2>2 DEF Folded
<1>4. f = [i \in 0..n |-> BarAt(f, file, day, i)]
  <2>1. f = [i \in 0..n |-> f[i]]  OBVIOUS
  <2>2. ASSUME NEW i \in 0..n PROVE f[i] = BarAt(f, file, day, i)
    <3>1. CASE i = 0  BY <1>3, <3>1 DEF BarAt
    <3>2. CASE i # 0
      <4>1. i \in 1..n /\ i - 1 \in 0..n  BY <1>1, <3>2
      <4>2. <<i, f[i - 1]>> \in (1..n) \X State
        <5> HIDE DEF State
        <5> QED BY <4>1
      <4>3. f[i] = IF file[i].day = day THEN Worse(f[i - 1], file[i]) ELSE f[i - 1]
        <5> HIDE DEF State
        <5> QED BY <1>3, <4>1, <4>2
      <4> QED BY <3>2, <4>3 DEF BarAt
    <3> QED BY <3>1, <3>2
  <2>3. \A i \in 0..n : f[i] = BarAt(f, file, day, i)  BY <2>2
  <2> HIDE DEF step, State
  <2> QED BY <2>1, <2>3
<1> DEFINE bar == CHOOSE g : g = [i \in 0..n |-> BarAt(g, file, day, i)]
<1>5. bar = [i \in 0..n |-> BarAt(bar, file, day, i)]  BY <1>4
<1>6. Bar(file, day) = bar[n]  BY DEF Bar, BarAt, n
<1> HIDE DEF bar
<1> QED BY <1>5, <1>6 DEF n

\* The bar of a day shows its worst incident.
LEMMA BarIsWorst ==
  ASSUME NEW T, NEW file \in Seq(T), NEW day
  PROVE  Bar(file, day) = Worst(OfDay(file, day, Len(file)))
<1>0. Len(file) \in Nat  OBVIOUS
<1>1. PICK f : Bar(file, day) = f[Len(file)] /\ \A i \in 0..Len(file) : f[i] = BarAt(f, file, day, i)
  BY BarIs
<1> DEFINE good == {n \in Nat : n <= Len(file) => f[n] = Worst(OfDay(file, day, n))}
<1>2. 0 \in good
  <2>1. f[0] = "ok"  BY <1>0, <1>1 DEF BarAt
  <2>2. OfDay(file, day, 0) = {}  BY DEF OfDay, Among
  <2> QED BY <2>1, <2>2 DEF Worst
<1>3. ASSUME NEW n \in Nat, n \in good, n + 1 <= Len(file) PROVE f[n + 1] = Worst(OfDay(file, day, n + 1))
  <2> DEFINE inc    == file[n + 1]
             before == OfDay(file, day, n)
  <2>0. n + 1 \in 0..Len(file) /\ n + 1 # 0 /\ (n + 1) - 1 = n /\ n <= Len(file)  BY <1>0, <1>3
  <2>1. f[n] = Worst(before)  BY <1>3, <2>0
  <2>2. f[n + 1] = IF inc.day = day THEN Worse(f[n], inc) ELSE f[n]  BY <1>1, <2>0 DEF BarAt
  <2>3. OfDay(file, day, n + 1) = IF inc.day = day THEN before \cup {Severity(inc)} ELSE before
    <3>1. \A j \in 1..(n + 1) : j \in 1..n \/ j = n + 1  BY <1>3
    <3>2. n + 1 \in 1..(n + 1) /\ \A j \in 1..n : j \in 1..(n + 1)  BY <1>3
    <3>3. Among(file, n + 1) = Among(file, n) \cup {inc}  BY <3>1, <3>2 DEF Among
    <3> QED BY <3>3 DEF OfDay
  <2>4. before \subseteq {"down", "degraded"} /\ Severity(inc) \in {"down", "degraded"}
    BY DEF OfDay, Severity
  <2> HIDE DEF inc, before
  <2> QED BY <2>1, <2>2, <2>3, <2>4 DEF Worse, Worst
<1>4. Nat \subseteq good
  <2>1. \A n \in Nat : n \in good => n + 1 \in good  BY <1>3
  <2> HIDE DEF good
  <2> QED BY <1>2, <2>1, Induction
<1> QED BY <1>0, <1>1, <1>4

\* Theorem: a day's bar shows the worst of its incidents, in whatever order
\* and however many times the file lists them, and the uptime counts the days
\* without any (status.js:84-113); TLC has three incidents and two days only.
THEOREM AllBarsHold == ASSUME NEW T, NEW file \in Seq(T), NEW days PROVE BarsShow(file, days)
<1> DEFINE of(day) == {Severity(inc) : inc \in {i \in ToSet(file) : i.day = day}}
<1>1. ASSUME NEW day PROVE of(day) = OfDay(file, day, Len(file))
  <2>1. ToSet(file) = Among(file, Len(file))  BY DEF ToSet, Among
  <2> QED BY <2>1 DEF OfDay
<1>2. ASSUME NEW day PROVE Bar(file, day) = Worst(of(day))  BY <1>1, BarIsWorst
<1>3. \A day : (Bar(file, day) = "ok") <=> of(day) = {}
  <2> HIDE DEF of
  <2> QED BY <1>2 DEF Worst
<1>4. OkDays(file, days) = Cardinality({d \in days : of(d) = {}})
  <2> HIDE DEF of
  <2> QED BY <1>3 DEF OkDays
<1> HIDE DEF of
<1>5. \A day \in days : Bar(file, day) = IF "down" \in of(day) THEN "down"
                                         ELSE IF of(day) = {} THEN "ok" ELSE "degraded"
  BY <1>2 DEF Worst
<1> QED BY <1>4, <1>5 DEF BarsShow, of
-----------------------------------------------------------------------------
(* The RECENT panel                                                         *)

\* Finitely many events, each with a time and a place of its own.
Events(E) == IsFiniteSet(E) /\ \A e \in E : /\ e.at \in Int /\ e.n \in Int
                                            /\ \A f \in E : e.n = f.n => e = f

\* Of two events one is the newer, and the order goes on.
LEMMA NewerIs ==
  ASSUME NEW E, Events(E)
  PROVE  /\ \A e \in E : ~Newer(e, e)
         /\ \A e, f \in E : e = f \/ Newer(e, f) \/ Newer(f, e)
         /\ \A e, f \in E : Newer(e, f) => ~Newer(f, e)
         /\ \A e, f, g \in E : Newer(e, f) /\ Newer(f, g) => Newer(e, g)
BY DEF Events, Newer

\* A rank counts up to one less than the events, and more for an older event.
LEMMA RankIs ==
  ASSUME NEW E, Events(E)
  PROVE  /\ Cardinality(E) \in Nat
         /\ \A e \in E : Rank(E, e) \in 0..(Cardinality(E) - 1)
         /\ \A e, f \in E : Newer(e, f) => Rank(E, e) < Rank(E, f)
<1> DEFINE before(e) == {f \in E : Newer(f, e)}
<1>0. IsFiniteSet(E) /\ Cardinality(E) \in Nat  BY FS_CardinalityType DEF Events
<1>1. ASSUME NEW e PROVE Rank(E, e) = Cardinality(before(e)) /\ before(e) \in SUBSET E  BY DEF Rank
<1> HIDE DEF before
<1>2. ASSUME NEW e
      PROVE  IsFiniteSet(before(e)) /\ Rank(E, e) \in Nat /\ Rank(E, e) <= Cardinality(E)
             /\ (Rank(E, e) = Cardinality(E) => before(e) = E)
  <2>1. IsFiniteSet(before(e)) /\ Cardinality(before(e)) <= Cardinality(E)
        /\ (Cardinality(E) = Cardinality(before(e)) => E = before(e))
    BY <1>0, <1>1, FS_Subset
  <2>2. Cardinality(before(e)) \in Nat  BY <2>1, FS_CardinalityType
  <2> QED BY <1>1, <2>1, <2>2
<1>3. ASSUME NEW e \in E PROVE Rank(E, e) \in 0..(Cardinality(E) - 1)
  <2>1. before(e) # E  BY NewerIs DEF before
  <2> QED BY <1>0, <1>2, <2>1
<1>4. ASSUME NEW e \in E, NEW f \in E, Newer(e, f) PROVE Rank(E, e) < Rank(E, f)
  <2>1. before(e) \in SUBSET before(f) /\ e \in before(f) /\ e \notin before(e)
    BY <1>4, NewerIs DEF before
  <2>2. Cardinality(before(e)) <= Cardinality(before(f))
        /\ (Cardinality(before(f)) = Cardinality(before(e)) => before(f) = before(e))
    BY <1>2, <2>1, FS_Subset
  <2>3. Rank(E, e) \in Nat /\ Rank(E, f) \in Nat  BY <1>2
  <2> QED BY <1>1, <2>1, <2>2, <2>3
<1> QED BY <1>0, <1>3, <1>4

\* Each rank is that of one event.
LEMMA RankHas ==
  ASSUME NEW E, Events(E), NEW k \in 0..(Cardinality(E) - 1)
  PROVE  \E e \in E : Rank(E, e) = k
<1> DEFINE n == Cardinality(E)
           T == 0..(n - 1)
           r == [e \in E |-> Rank(E, e)]
<1>0. n \in Nat /\ IsFiniteSet(E)  BY RankIs DEF Events
<1>1. r \in [E -> T]  BY RankIs
<1>2. \A e, f \in E : r[e] = r[f] => e = f
  <2>1. ASSUME NEW e \in E, NEW f \in E, Rank(E, e) = Rank(E, f) PROVE e = f
    <3>1. Rank(E, e) \in Int  BY RankIs
    <3> QED BY <2>1, <3>1, NewerIs, RankIs
  <2> QED BY <2>1
<1>3. IsFiniteSet(T) /\ Cardinality(T) = n
  <2> HIDE DEF n
  <2>1. 0 \in Int /\ n - 1 \in Int  BY <1>0
  <2>2. IsFiniteSet(0..(n - 1)) /\ Cardinality(0..(n - 1)) = IF 0 > n - 1 THEN 0 ELSE n - 1 - 0 + 1
    BY <2>1, FS_Interval
  <2>3. (IF 0 > n - 1 THEN 0 ELSE n - 1 - 0 + 1) = n  BY <1>0
  <2> QED BY <2>2, <2>3
<1> HIDE DEF T, r
<1>4. r \in Injection(E, T)  BY <1>1, <1>2 DEF Injection, IsInjective
<1>5. r \in Surjection(E, T)  BY <1>0, <1>3, <1>4, FS_Injection
<1>6. \E e \in E : r[e] = k  BY <1>5 DEF Surjection, T
<1> QED BY <1>6 DEF r

\* The n first of the events, newest first: those that fewer than n are newer than.
FirstOf(E, n) == {e \in E : Rank(E, e) < n}

LEMMA FirstHas ==
  ASSUME NEW E, Events(E), NEW n \in Nat, NEW l, l = First(NewestFirst(E), n)
  PROVE  /\ Len(l) \in Nat /\ Len(l) <= n /\ Len(l) <= Cardinality(E)
         /\ Len(l) = n \/ Len(l) = Cardinality(E)
         /\ DOMAIN l = 1..Len(l) /\ \A i \in 1..Len(l) : l[i] \in E /\ Rank(E, l[i]) = i - 1
         /\ ToSet(l) = FirstOf(E, n)
<1> DEFINE all == NewestFirst(E)
           c   == Cardinality(E)
           m   == IF n <= c THEN n ELSE c
<1>0. c \in Nat /\ m \in Nat /\ m <= c /\ m <= n /\ (m = n \/ m = c)  BY RankIs
<1>1. ASSUME NEW i \in 1..c PROVE all[i] \in E /\ Rank(E, all[i]) = i - 1
  <2>1. i - 1 \in 0..(c - 1)  BY <1>0
  <2>2. \E e \in E : Rank(E, e) = i - 1  BY <2>1, RankHas
  <2> QED BY <2>2 DEF NewestFirst
<1>2. all \in Seq(E) /\ Len(all) = c
  <2>1. all = [i \in 1..c |-> all[i]]  BY DEF NewestFirst
  <2> HIDE DEF all, c
  <2> QED BY <1>0, <1>1, <2>1
<1> HIDE DEF all
<1>3. l = SubSeq(all, 1, m)
  <2>1. Min({n, c}) = m  BY <1>0, MinMax
  <2> QED BY <1>2, <2>1 DEF First, all
<1> HIDE DEF c, m
<1>4. Len(l) = m /\ DOMAIN l = 1..m /\ \A i \in 1..m : i \in 1..c /\ l[i] = all[i]
  <2>1. 1 \in 1..(Len(all) + 1) /\ m \in (1 - 1)..Len(all)  BY <1>0, <1>2
  <2> QED BY <1>0, <1>2, <1>3, <2>1
<1>5. \A i \in 1..m : l[i] \in E /\ Rank(E, l[i]) = i - 1  BY <1>1, <1>4
<1>6. ToSet(l) = FirstOf(E, n)
  <2>1. ASSUME NEW i \in 1..m PROVE l[i] \in FirstOf(E, n)  BY <1>0, <1>5, <2>1 DEF FirstOf
  <2>2. ASSUME NEW e \in FirstOf(E, n) PROVE \E i \in 1..m : l[i] = e
    <3>1. e \in E /\ Rank(E, e) \in 0..(c - 1) /\ Rank(E, e) < n  BY RankIs DEF FirstOf, c
    <3>2. Rank(E, e) + 1 \in 1..m  BY <1>0, <3>1
    <3>3. l[Rank(E, e) + 1] \in E /\ Rank(E, l[Rank(E, e) + 1]) = Rank(E, e)  BY <1>0, <1>5, <3>1, <3>2
    <3>4. \A f \in E : Rank(E, f) = Rank(E, e) => f = e
      <4>1. Rank(E, e) \in Int  BY <3>1
      <4> QED BY <3>1, <4>1, NewerIs, RankIs
    <3> QED BY <3>2, <3>3, <3>4
  <2> QED BY <1>4, <2>1, <2>2 DEF ToSet
<1> QED BY <1>0, <1>4, <1>5, <1>6 DEF c

\* Theorem: the RECENT panel lists at most six events of the switch, newest
\* first, and leaves one out only for six newer ones, or a check-in for five
\* newer check-ins, for any events and times, shared ones included
\* (switches.ts:228-254); TLC has seven check-ins and two events besides.
THEOREM AllActivityShown ==
  ASSUME NEW own, NEW checkins, Events(own \cup checkins)
  PROVE  ActivityShown(own, checkins)
<1> DEFINE all   == own \cup checkins
           last  == CheckinRows(checkins)
           kept  == ToSet(last)
           ev    == own \cup kept
           shown == Activity(own, checkins)
<1>1. Events(checkins)
  <2>1. IsFiniteSet(checkins)
    <3>1. IsFiniteSet(all) /\ checkins \in SUBSET all  BY DEF Events
    <3> QED BY <3>1, FS_Subset
  <2> QED BY <2>1 DEF Events
<1>2. kept = FirstOf(checkins, 5)
  <2>1. last = First(NewestFirst(checkins), 5)  BY DEF CheckinRows
  <2> HIDE DEF last
  <2> QED BY <1>1, <2>1, FirstHas
<1>3. ev \in SUBSET all  BY <1>2 DEF FirstOf
<1>4. Events(ev)
  <2>1. IsFiniteSet(ev)  BY <1>3, FS_Subset DEF Events
  <2> QED BY <1>3, <2>1 DEF Events
<1>5. shown = First(NewestFirst(ev), 6)  BY DEF Activity
<1> HIDE DEF shown, kept
<1>6. /\ Len(shown) \in Nat /\ Len(shown) <= 6 /\ Len(shown) <= Cardinality(ev)
      /\ Len(shown) = 6 \/ Len(shown) = Cardinality(ev)
      /\ DOMAIN shown = 1..Len(shown)
      /\ \A i \in 1..Len(shown) : shown[i] \in ev /\ Rank(ev, shown[i]) = i - 1
      /\ ToSet(shown) = FirstOf(ev, 6)
  <2> HIDE DEF ev
  <2> QED BY <1>4, <1>5, FirstHas
<1> HIDE DEF ev
\* An event of less rank is newer.
<1>7. ASSUME NEW e \in ev, NEW f \in ev, Rank(ev, e) < Rank(ev, f) PROVE Newer(e, f)
  <2>1. Rank(ev, e) \in Int /\ Rank(ev, f) \in Int  BY <1>4, RankIs
  <2> QED BY <1>4, <1>7, <2>1, NewerIs, RankIs
<1>8. ASSUME NEW i \in 1..Len(shown), NEW j \in 1..Len(shown), i < j PROVE Newer(shown[i], shown[j])
  <2>1. Rank(ev, shown[i]) < Rank(ev, shown[j])  BY <1>6, <1>8
  <2> QED BY <1>6, <1>7, <2>1
<1>9. ASSUME NEW e \in all, e \notin ToSet(shown), e \notin ev
      PROVE  e \in checkins /\ Rank(checkins, e) >= 5
  <2>1. e \in checkins /\ ~(Rank(checkins, e) < 5)  BY <1>2, <1>9 DEF ev, FirstOf
  <2>2. Rank(checkins, e) \in Int  BY <1>1, <2>1, RankIs
  <2> QED BY <2>1, <2>2
<1>10. ASSUME NEW e \in ev, e \notin ToSet(shown)
       PROVE  Len(shown) = 6 /\ \A i \in 1..6 : Newer(shown[i], e)
  <2>1. Rank(ev, e) \in 0..(Cardinality(ev) - 1) /\ Rank(ev, e) >= 6 /\ Cardinality(ev) \in Nat
    <3>1. Rank(ev, e) \in 0..(Cardinality(ev) - 1) /\ Cardinality(ev) \in Nat  BY <1>4, RankIs
    <3>2. ~(Rank(ev, e) < 6)  BY <1>6, <1>10 DEF FirstOf
    <3> QED BY <3>1, <3>2
  <2>2. Len(shown) = 6  BY <1>6, <2>1
  <2>3. ASSUME NEW i \in 1..6 PROVE Newer(shown[i], e)
    <3>1. shown[i] \in ev /\ Rank(ev, shown[i]) < Rank(ev, e)  BY <1>6, <2>1, <2>2
    <3> QED BY <1>7, <3>1
  <2> QED BY <2>2, <2>3
<1>11. ToSet(shown) \subseteq all  BY <1>3, <1>6 DEF FirstOf
<1> QED BY <1>6, <1>8, <1>9, <1>10, <1>11 DEF ActivityShown, shown

-----------------------------------------------------------------------------
(* All that the pages compute                                               *)

\* The invariant's parts are instances of the theorems above.
LEMMA PartsShown == TimesShown /\ BarsShowWorst /\ ActivityLatest /\ ControlsHold
<1>1. TimesShown
  <2>1. Edges \cup {0, 1} \subseteq Nat  BY DEF Edges
  <2>2. \A sec \in Nat : \A ms \in {1000 * sec, 1000 * sec + 999} : ms \in (1000 * sec)..(1000 * sec + 999)
    OBVIOUS
  <2> QED BY <2>1, <2>2, AllTimesShown DEF TimesShown
<1>2. BarsShowWorst
  <2>1. ASSUME NEW T, NEW file \in SeqOf(T, 3) PROVE BarsShow(file, {1, 2})
    <3>1. PICK m \in 0..3 : file \in [1..m -> T]  BY DEF SeqOf
    <3>2. m \in Nat  OBVIOUS
    <3>3. file \in Seq(T)  BY <3>1, <3>2, SeqDef
    <3> QED BY <3>3, AllBarsHold
  <2> QED BY <2>1 DEF BarsShowWorst
<1>3. ActivityLatest
  <2> SUFFICES ASSUME NEW N \in SUBSET (3..9), NEW enrolled \in {{}, {[at |-> 1, n |-> 1]}}
               PROVE  ActivityShown({[at |-> 0, n |-> 0]} \cup enrolled,
                                    {[at |-> 1 + (n \div 2), n |-> n] : n \in N})
    BY DEF ActivityLatest
  <2> DEFINE own      == {[at |-> 0, n |-> 0]} \cup enrolled
             at       == [n \in N |-> [at |-> 1 + (n \div 2), n |-> n]]
             checkins == {[at |-> 1 + (n \div 2), n |-> n] : n \in N}
  <2>1. IsFiniteSet(N)
    <3>1. 3 \in Int /\ 9 \in Int  OBVIOUS
    <3> QED BY <3>1, FS_Interval, FS_Subset
  <2>2. IsFiniteSet(checkins)
    <3>1. at \in Surjection(N, checkins)  BY DEF Surjection
    <3> HIDE DEF at, checkins
    <3> QED BY <2>1, <3>1, FS_Surjection
  <2>3. IsFiniteSet(own \cup checkins)
    <3>1. IsFiniteSet(checkins \cup {[at |-> 0, n |-> 0]})  BY <2>2, FS_AddElement
    <3>2. IsFiniteSet((checkins \cup {[at |-> 0, n |-> 0]}) \cup {[at |-> 1, n |-> 1]})  BY <3>1, FS_AddElement
    <3>3. \/ own \cup checkins = checkins \cup {[at |-> 0, n |-> 0]}
          \/ own \cup checkins = (checkins \cup {[at |-> 0, n |-> 0]}) \cup {[at |-> 1, n |-> 1]}
      OBVIOUS
    <3> QED BY <3>1, <3>2, <3>3
  <2>4. \A e \in own \cup checkins : /\ e.at \in Int /\ e.n \in Int
                                     /\ \A f \in own \cup checkins : e.n = f.n => e = f
    <3>1. \A e \in own : e.n \in {0, 1} /\ e.at = e.n /\ e = [at |-> e.n, n |-> e.n]  OBVIOUS
    <3>2. \A e \in checkins : e.n \in 3..9 /\ e.at \in Int /\ e = [at |-> 1 + (e.n \div 2), n |-> e.n]  OBVIOUS
    <3> HIDE DEF own, checkins
    <3>3. \A e \in own \cup checkins : e.n \in Int /\ e.at \in Int  BY <3>1, <3>2
    <3>4. ASSUME NEW e \in own \cup checkins, NEW f \in own \cup checkins, e.n = f.n PROVE e = f
      <4>1. CASE e \in own /\ f \in own  BY <3>1, <3>4, <4>1
      <4>2. CASE e \in checkins /\ f \in checkins  BY <3>2, <3>4, <4>2
      <4>3. CASE e \in own /\ f \in checkins  BY <3>1, <3>2, <3>4, <4>3
      <4>4. CASE e \in checkins /\ f \in own  BY <3>1, <3>2, <3>4, <4>4
      <4> QED BY <4>1, <4>2, <4>3, <4>4
    <3> QED BY <3>3, <3>4
  <2>5. Events(own \cup checkins)  BY <2>3, <2>4 DEF Events
  <2> HIDE DEF own, checkins
  <2>6. ActivityShown(own, checkins)  BY <2>5, AllActivityShown
  <2> QED BY <2>6 DEF own, checkins
<1>4. ControlsHold
  <2>1. ASSUME NEW n \in 2..3, NEW width \in 3..7 PROVE TrackHolds(n, width, -2..(width + 1))
    <3>1. n \in Nat \ {0} /\ width \in Nat \ {0} /\ n <= width  OBVIOUS
    <3>2. TrackHolds(n, width, Int)  BY <3>1, AllTracksHold
    <3>3. -2..(width + 1) \subseteq Int  OBVIOUS
    <3> QED BY <3>2, <3>3 DEF TrackHolds
  <2>2. ASSUME NEW val \in 0..9, NEW dx \in -4..4, NEW step \in 1..3 PROVE ScrubHolds(val, dx, step, 0, 9)
    <3>1. val \in Int /\ dx \in Int /\ 0 \in Int /\ 9 \in Int /\ step \in Nat \ {0} /\ 0 <= 9  OBVIOUS
    <3> QED BY <3>1, AllScrubsHold
  <2> QED BY <2>1, <2>2 DEF ControlsHold
<1> QED BY <1>1, <1>2, <1>3, <1>4

\* Theorem: what the pages compute from what they were told is what they should show.
THEOREM DisplaysAreTrue == StatusSpec => []DisplaysTrue
<1>1. DisplaysTrue  BY PartsShown DEF DisplaysTrue
<1> QED BY <1>1, PTL
=============================================================================
