------------------------------ MODULE Contacts ------------------------------
(***************************************************************************)
(* The contacts of one account (D1 account_recipients): the owner invites  *)
(* and re-invites them, and a contact enrolls from a page opened with an   *)
(* invitation link.  Every handler advances by one action per awaited      *)
(* call.  The salt, the credential and the key pair that a page produces   *)
(* are named by the page: no two pages draw the same one.  The owner's     *)
(* DELETE of a contact needs the switches, and is in Delivery.             *)
(***************************************************************************)
EXTENDS Integers, Envelope

CONSTANTS
  Contact,     \* ids of account_recipients
  Tab,         \* pages open at enroll-account.html
  Call,        \* the owner's calls, each of them made at most once
  MaxInvites   \* bound: invitations sent to one contact

ASSUME NoneAssumption   == None \notin Tab
ASSUME InviteAssumption == MaxInvites \in Nat \ {0}

VARIABLES
  row,      \* D1: one account_recipients row for each contact
  issued,   \* how many invite tokens were drawn for each contact; they are 1, 2, ...
  mailed,   \* the invite tokens that reached each contact
  chal,     \* KV recip-reg-chal:<id>: the page whose challenge it is
  tab,      \* progress of every enrollment page
  call,     \* progress of every call of the owner
  overlap   \* history: contacts with two begins, or two finishes, in flight at once

contactVars == <<row, issued, mailed, chal, tab, call, overlap>>

NoRow == [status |-> "none", invite |-> 0, fresh |-> FALSE,
          salt |-> None, credential |-> None, wrapped |-> None, pub |-> None]

ContactsInit ==
  /\ row = [c \in Contact |-> NoRow]
  /\ issued = [c \in Contact |-> 0] /\ mailed = [c \in Contact |-> {}]
  /\ chal = [c \in Contact |-> None]
  /\ tab \in [Tab -> [at : {"open"}, c : Contact, invite : {0}, salt : {None}]]
  /\ call = [k \in Call |-> [at |-> "ready", c |-> {}, invite |-> 0]]
  /\ overlap = {}

Exists(c) == row[c].status \in {"invited", "enrolled"}

-----------------------------------------------------------------------------
(* The owner: POST /api/account/recipients and POST /:id/reinvite.           *)

OwnerAt(k, pc, c)    == call[k].at = pc /\ call[k].c = {c}
OwnerTo(k, pc, c, i) == call' = [call EXCEPT ![k] = [at |-> pc, c |-> {c}, invite |-> i]]

NewInvite(c, r) ==
  /\ issued[c] < MaxInvites
  /\ issued' = [issued EXCEPT ![c] = @ + 1]
  /\ row' = [row EXCEPT ![c] = [r EXCEPT !.invite = issued[c] + 1, !.fresh = TRUE]]

Invite(k, c) ==
  /\ call[k].at = "ready" /\ row[c].status = "none"
  /\ NewInvite(c, [NoRow EXCEPT !.status = "invited"])
  /\ OwnerTo(k, "mail", c, issued'[c])
  /\ UNCHANGED <<mailed, chal, tab, overlap>>

\* sendEmail: the provider may have the mail although the call throws, or not.
SendEmail(c, i) == mailed' \in {mailed, [mailed EXCEPT ![c] = @ \cup {i}]}

\* When the mail fails the answer is an error, and the row stays.
Mail(k, c) ==
  /\ OwnerAt(k, "mail", c) /\ OwnerTo(k, "done", c, 0)
  /\ SendEmail(c, call[k].invite)
  /\ UNCHANGED <<row, issued, chal, tab, overlap>>

ReinviteRead(k, c) ==
  /\ call[k].at = "ready" /\ row[c].status # "none"
  /\ OwnerTo(k, IF row[c].status = "invited" THEN "reissue" ELSE "done", c, 0)
  /\ UNCHANGED <<row, issued, mailed, chal, tab, overlap>>

\* UPDATE ... WHERE id = ?: the status is not tested again, and a contact that
\* has gone meanwhile is mailed a token no row has (here 0).
Reissue(k, c) ==
  /\ OwnerAt(k, "reissue", c)
  /\ \/ Exists(c) /\ NewInvite(c, row[c]) /\ OwnerTo(k, "mail", c, issued'[c])
     \/ ~Exists(c) /\ UNCHANGED <<row, issued>> /\ OwnerTo(k, "mail", c, 0)
  /\ UNCHANGED <<mailed, chal, tab, overlap>>

InviteExpires(c) ==
  /\ row[c].fresh /\ row' = [row EXCEPT ![c].fresh = FALSE]
  /\ UNCHANGED <<issued, mailed, chal, tab, call, overlap>>

-----------------------------------------------------------------------------
(* The enrollment page and the two handlers it calls.                        *)

\* status invited, the token's hash is the row's, and it has not expired.
Valid(p, c) == row[c].status = "invited" /\ row[c].invite = tab[p].invite /\ row[c].fresh

Others(p, c, steps) == \E q \in Tab \ {p} : tab[q].c = c /\ tab[q].at \in steps

To(p, pc) == tab' = [tab EXCEPT ![p].at = pc]
Refused(p) == To(p, "open")   \* the page shows the error and offers the button again

\* The contact opens a link it was mailed and accepts: SELECT, and the checks.
BeginRead(p, i) ==
  LET c == tab[p].c  self == [tab[p] EXCEPT !.invite = i] IN
  /\ tab[p].at = "open" /\ i \in mailed[c]
  /\ row[c].status = "invited" /\ row[c].invite = i /\ row[c].fresh
  /\ tab' = [tab EXCEPT ![p] =
               IF row[c].salt = None THEN [self EXCEPT !.at = "salt", !.salt = p]
               ELSE [self EXCEPT !.at = "chal", !.salt = row[c].salt]]
  /\ UNCHANGED <<row, issued, mailed, chal, call, overlap>>

SaltWrite(p) ==
  LET c == tab[p].c IN
  /\ tab[p].at = "salt" /\ To(p, "chal")
  /\ row' = IF Exists(c) THEN [row EXCEPT ![c].salt = p] ELSE row
  /\ overlap' = IF Others(p, c, {"salt"}) THEN overlap \cup {c} ELSE overlap
  /\ UNCHANGED <<issued, mailed, chal, call>>

\* The page gets its options and the salt, creates the passkey, evaluates the
\* PRF at that salt, draws a key pair and wraps its private half.
ChalPut(p) ==
  /\ tab[p].at = "chal" /\ To(p, "wrapped")
  /\ chal' = [chal EXCEPT ![tab[p].c] = p]
  /\ UNCHANGED <<row, issued, mailed, call, overlap>>

ChalExpires(c) ==
  /\ chal[c] # None /\ chal' = [chal EXCEPT ![c] = None]
  /\ UNCHANGED <<row, issued, mailed, tab, call, overlap>>

\* With a bug: finish does not look at the status or the token again.
FinReadAlways(p) ==
  /\ tab[p].at = "wrapped" /\ To(p, "verify")
  /\ UNCHANGED <<row, issued, mailed, chal, call, overlap>>

FinRead(p) ==
  /\ tab[p].at = "wrapped"
  /\ IF Valid(p, tab[p].c) THEN To(p, "verify") ELSE Refused(p)
  /\ UNCHANGED <<row, issued, mailed, chal, call, overlap>>

\* verifyRegistrationResponse: the response answers the page's own challenge.
FinVerify(p) ==
  /\ tab[p].at = "verify"
  /\ IF chal[tab[p].c] = p THEN To(p, "update") ELSE Refused(p)
  /\ UNCHANGED <<row, issued, mailed, chal, call, overlap>>

\* UPDATE ... WHERE id = ?, whatever the row has become.
FinUpdate(p) ==
  LET c == tab[p].c IN
  /\ tab[p].at = "update" /\ To(p, "cleanup")
  /\ row' = IF ~Exists(c) THEN row
            ELSE [row EXCEPT ![c] = [@ EXCEPT !.status = "enrolled", !.invite = 0,
                    !.fresh = FALSE, !.credential = p, !.pub = p,
                    !.wrapped = WrapPrivkey(p, Prf(p, tab[p].salt))]]
  /\ overlap' = IF Others(p, c, {"verify", "update"}) THEN overlap \cup {c} ELSE overlap
  /\ UNCHANGED <<issued, mailed, chal, call>>

FinCleanup(p) ==
  /\ tab[p].at = "cleanup" /\ To(p, "enrolled")
  /\ chal' = [chal EXCEPT ![tab[p].c] = None]
  /\ UNCHANGED <<row, issued, mailed, call, overlap>>

ContactsNext ==
  \/ \E k \in Call, c \in Contact :
       Invite(k, c) \/ Mail(k, c) \/ ReinviteRead(k, c) \/ Reissue(k, c)
  \/ \E c \in Contact : InviteExpires(c) \/ ChalExpires(c)
  \/ \E p \in Tab :
       \/ \E i \in 1..MaxInvites : BeginRead(p, i)
       \/ SaltWrite(p) \/ ChalPut(p)
       \/ FinRead(p) \/ FinVerify(p) \/ FinUpdate(p) \/ FinCleanup(p)
=============================================================================
