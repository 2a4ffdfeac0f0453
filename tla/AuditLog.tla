------------------------------ MODULE AuditLog ------------------------------
(***************************************************************************)
(* The public audit log: the singleton AuditLogger object that appends to  *)
(* the D1 table audit_log, the callers that ask it to, and a reader that   *)
(* mirrors the log page by page through GET /api/log while it grows.       *)
(*                                                                         *)
(* A hash is the tuple of what was hashed, so that two hashes are equal    *)
(* only if their inputs are; a signature is the tuple of what was signed.  *)
(***************************************************************************)
EXTENDS Integers, Sequences

CONSTANTS
  Caller,     \* calls of append() or appendUserScoped(), one entry each
  Subject,    \* salted hashes of switch ids and user ids
  Event,      \* AuditEvent
  Genesis,    \* the prev_hash of the first entry
  NoCaller,   \* nobody is inside blockConcurrencyWhile
  PageSize,   \* the limit of GET /api/log
  MaxTime     \* bound: the clock stops here

ASSUME CallerAssumption == NoCaller \notin Caller
ASSUME PageAssumption   == PageSize \in Nat \ {0} /\ MaxTime \in Nat

VARIABLES
  now,      \* Date.now()
  rows,     \* D1: audit_log, by seq
  inside,   \* the caller whose append holds the object's critical section
  call,     \* progress of every append
  mirror    \* the reader: the pages it has, newest entry first, and its next ?before=

vars == <<now, rows, inside, call, mirror>>

EntryHash(prev, subject, event, at)    == <<prev, subject, event, at>>
Signature(seq, event, at, prev, entry) == <<seq, event, at, prev, entry>>

LastHash == IF rows = <<>> THEN Genesis ELSE rows[Len(rows)].entry_hash

Init ==
  /\ now = 0 /\ rows = <<>> /\ inside = NoCaller
  /\ call \in [Caller -> [pc : {"asked"}, subject : Subject, event : Event,
                          at : {0}, prev : {Genesis}, seq : {0}]]
  /\ mirror = [pages |-> <<>>, before |-> 0, done |-> FALSE]

-----------------------------------------------------------------------------
\* With a bug: nothing keeps two appends out of the section at once.
EnterAnyTime(c) ==
  /\ call[c].pc = "asked"
  /\ inside' = c
  /\ call' = [call EXCEPT ![c].pc = "select", ![c].at = now]
  /\ UNCHANGED <<now, rows, mirror>>

\* blockConcurrencyWhile; the time is taken inside.
Enter(c) ==
  /\ call[c].pc = "asked" /\ inside = NoCaller
  /\ inside' = c
  /\ call' = [call EXCEPT ![c].pc = "select", ![c].at = now]
  /\ UNCHANGED <<now, rows, mirror>>

\* With a bug: the signature is over the seq of the row before.
SelectLastOffByOne(c) ==
  /\ call[c].pc = "select"
  /\ call' = [call EXCEPT ![c].pc = "insert", ![c].prev = LastHash, ![c].seq = Len(rows)]
  /\ UNCHANGED <<now, rows, inside, mirror>>

\* SELECT seq, entry_hash ... ORDER BY seq DESC LIMIT 1
SelectLast(c) ==
  /\ call[c].pc = "select"
  /\ call' = [call EXCEPT ![c].pc = "insert", ![c].prev = LastHash, ![c].seq = Len(rows) + 1]
  /\ UNCHANGED <<now, rows, inside, mirror>>

\* The row that append c inserts; its own seq is the next AUTOINCREMENT.
Entry(c) ==
  LET k == call[c]  hash == EntryHash(k.prev, k.subject, k.event, k.at) IN
  [seq |-> Len(rows) + 1, subject |-> k.subject, event |-> k.event, at |-> k.at,
   prev_hash |-> k.prev, entry_hash |-> hash,
   signature |-> Signature(k.seq, k.event, k.at, k.prev, hash)]

\* The reply is lost when the connection to the object breaks after the INSERT.
Insert(c) ==
  /\ call[c].pc = "insert"
  /\ rows' = Append(rows, Entry(c))
  /\ inside' = NoCaller
  /\ \E reply \in {"ok", "failed"} : call' = [call EXCEPT ![c].pc = reply]
  /\ UNCHANGED <<now, mirror>>

\* A statement fails, or the object is reset before it inserts.
Abort(c) ==
  /\ call[c].pc \in {"asked", "select", "insert"}
  /\ call' = [call EXCEPT ![c].pc = "failed"]
  /\ inside' = IF inside = c THEN NoCaller ELSE inside
  /\ UNCHANGED <<now, rows, mirror>>

-----------------------------------------------------------------------------
\* With a bug: the page starts at the entry the reader named.
PageFrom(before) ==
  LET top == IF before = 0 \/ before > Len(rows) THEN Len(rows) ELSE before
      n   == IF top < PageSize THEN top ELSE PageSize
  IN  [i \in 1..n |-> rows[top + 1 - i]]

\* read(): the PageSize newest entries, or the PageSize newest before an entry.
Page(before) ==
  LET top == IF before = 0 \/ before > Len(rows) THEN Len(rows) ELSE before - 1
      n   == IF top < PageSize THEN top ELSE PageSize
  IN  [i \in 1..n |-> rows[top + 1 - i]]

\* A reader asks for the newest page, then for what came before its oldest
\* entry, until a page is empty.
ReadPage ==
  LET page == Page(mirror.before) IN
  /\ ~mirror.done
  /\ mirror' = IF page = <<>> THEN [mirror EXCEPT !.done = mirror.pages # <<>>]
               ELSE [mirror EXCEPT !.pages = @ \o page, !.before = page[Len(page)].seq]
  /\ UNCHANGED <<now, rows, inside, call>>

Tick == now < MaxTime /\ now' = now + 1 /\ UNCHANGED <<rows, inside, call, mirror>>

Next ==
  \/ \E c \in Caller : Enter(c) \/ SelectLast(c) \/ Insert(c) \/ Abort(c)
  \/ ReadPage \/ Tick

Spec == Init /\ [][Next]_vars

-----------------------------------------------------------------------------
Hash  == UNION {{Genesis}, {rows[i].entry_hash : i \in DOMAIN rows}}
Steps == {"asked", "select", "insert", "ok", "failed"}

\* The type of the log's own state.
TypeOK ==
  /\ now \in Nat /\ rows \in Seq([seq : Nat, subject : Subject, event : Event, at : Nat,
                                  prev_hash : Hash, entry_hash : Hash,
                                  signature : Nat \X Event \X Nat \X Hash \X Hash])
  /\ inside \in Caller \cup {NoCaller}
  /\ \A c \in Caller : /\ call[c].pc \in Steps /\ call[c].subject \in Subject
                       /\ call[c].event \in Event /\ call[c].at \in Nat
                       /\ call[c].prev \in Hash /\ call[c].seq \in Nat

\* Every entry's prev_hash is the hash of the row just before it, and its
\* signature is over its own seq, however many appends are in flight and
\* whichever of them fail (AuditLogger.ts:9-11).
ChainLinear ==
  \A i \in DOMAIN rows :
    /\ rows[i].prev_hash = IF i = 1 THEN Genesis ELSE rows[i - 1].entry_hash
    /\ rows[i].entry_hash = EntryHash(rows[i].prev_hash, rows[i].subject, rows[i].event, rows[i].at)
    /\ rows[i].seq = i /\ rows[i].signature[1] = i

\* The log's times never go back from one entry to the next.
TimesOrdered == \A i, j \in DOMAIN rows : i < j => rows[i].at <= rows[j].at

\* A caller that was told ok has exactly its entry at the seq it was told.
AnsweredIsLogged ==
  \A c \in Caller : call[c].pc = "ok" =>
    /\ call[c].seq \in DOMAIN rows
    /\ rows[call[c].seq].subject = call[c].subject /\ rows[call[c].seq].event = call[c].event
    /\ \A d \in Caller \ {c} : call[d].pc = "ok" => call[d].seq # call[c].seq

\* A mirror made page by page while the log grows has no gap and no entry
\* twice: each entry hashes over the next one, down to the first when it is
\* done, so that "if we omit entries, mirrors will detect the gap".
MirrorUnbroken ==
  LET got == mirror.pages IN
  /\ \A i \in 1..(Len(got) - 1) : got[i].prev_hash = got[i + 1].entry_hash
  /\ mirror.done => got[Len(got)].prev_hash = Genesis

-----------------------------------------------------------------------------
\* What a reader makes of the rows and a caller of its call.
Published == [i \in DOMAIN rows |->
                [subject |-> rows[i].subject, event |-> rows[i].event, at |-> rows[i].at]]
Asking    == [c \in Caller |->
                [at |-> IF call[c].pc \in {"ok", "failed"} THEN call[c].pc ELSE "asked",
                 subject |-> call[c].subject, event |-> call[c].event,
                 seq |-> IF call[c].pc = "ok" THEN call[c].seq ELSE 0]]

Public == INSTANCE PublicLog WITH log <- Published, call <- Asking

\* The read and the write of an append, its time and its reply are as one step,
\* which happens or does not, whatever fails between them: the object strictly
\* orders them (AuditLogger.ts:9-11).
AppendsAreAtomic == Public!Spec
=============================================================================
