--------------------------- MODULE DeliveryProofs ---------------------------
(***************************************************************************)
(* Theorems about the delivery of a message, for any number of contacts,   *)
(* enrollment pages, calls of the owner, switches and reading pages.       *)
(***************************************************************************)
EXTENDS Delivery, TLAPS

-----------------------------------------------------------------------------
(* Types                                                                    *)

TabSteps  == {"open", "salt", "chal", "wrapped", "verify", "update", "cleanup", "enrolled"}
CallSteps == {"ready", "mail", "reissue", "delete", "done", "failed"}
MakeSteps == {"ready", "encrypted", "put", "insert", "made", "failed"}
RunSteps  == {"idle", "token", "mail", "over"}
ReadSteps == {"idle", "fetch", "blob", "spend", "body", "read"}
Statuses  == {"none", "armed", "released", "user_purged"}
Wrapped   == {WrapPrivkey(p, Prf(p, q)) : p, q \in Tab}
Sealed    == [ct : [Bits -> BOOLEAN], under : Tab]

RowRecord    == [status : {"none", "invited", "enrolled", "gone"}, invite : 0..MaxInvites, fresh : BOOLEAN,
                 salt : Tab \cup {None}, credential : Tab \cup {None}, pub : Tab \cup {None},
                 wrapped : Wrapped \cup {None}]
TabRecord    == [at : TabSteps, c : Contact, invite : 0..MaxInvites, salt : Tab \cup {None}]
CallRecord   == [at : CallSteps, c : SUBSET Contact, invite : 0..MaxInvites]
MakeRecord   == [at : MakeSteps, c : SUBSET Contact, envelope : Sealed \cup {None}]
SwitchRecord == [status : Statuses, c : SUBSET Contact, envelope : Sealed \cup {None}]
ReaderRecord == [at : ReadSteps, s : SUBSET Switch]

ContactTypes ==
  /\ row \in [Contact -> RowRecord] /\ tab \in [Tab -> TabRecord] /\ call \in [Call -> CallRecord]
  /\ issued \in [Contact -> 0..MaxInvites] /\ mailed \in [Contact -> SUBSET (0..MaxInvites)]
  /\ chal \in [Contact -> Tab \cup {None}] /\ overlap \subseteq Contact

SwitchTypes ==
  /\ make \in [Switch -> MakeRecord] /\ sw \in [Switch -> SwitchRecord] /\ run \in [Switch -> RunSteps]
  /\ reader \in [Reader -> ReaderRecord]
  /\ payload \cup token \cup linked \cup purge \cup lost \cup expired \subseteq Switch

-----------------------------------------------------------------------------
(* The invariant                                                            *)

\* A page has the salt of the contact's row from the time that it has read it; one that has
\* yet to write its own found none; and none is on its way to enroll who is enrolled.
PageOK(p) ==
  /\ row[tab[p].c].status = "none" => tab[p].at = "open"
  /\ tab[p].at \in {"salt", "chal", "wrapped", "verify", "update"} => tab[p].salt \in Tab
  /\ tab[p].at = "salt" => tab[p].salt = p
  /\ Exists(tab[p].c) /\ tab[p].c \notin overlap =>
       /\ tab[p].at = "salt" => row[tab[p].c].salt = None
       /\ tab[p].at \in {"chal", "wrapped", "verify", "update"} => row[tab[p].c].salt = tab[p].salt
       /\ row[tab[p].c].status = "enrolled" => tab[p].at \notin {"verify", "update"}

\* The bundle of an enrolled contact is of one key pair and of the salt in its row.
BundleOK(c) ==
  row[c].status = "enrolled" =>
    /\ row[c].pub \in Tab
    /\ c \notin overlap =>
         /\ row[c].salt \in Tab /\ row[c].credential = row[c].pub
         /\ row[c].wrapped = WrapPrivkey(row[c].pub, Prf(row[c].pub, row[c].salt))

ContactInv == ContactTypes /\ (\A p \in Tab : PageOK(p)) /\ (\A c \in Contact : BundleOK(c))

\* The envelope of switch s for the key that contact c has now.
EnvelopeFor(s, c) == EciesEncrypt(SplitKey(Key[s], ShareA[s]).shareB, row[c].pub)

\* A switch is there from the INSERT on, for one contact.
StatusOK(s) == /\ make[s].at # "made" => sw[s] = Nobody
               /\ sw[s] = Nobody \/ (sw[s].status # "none" /\ \E c \in Contact : sw[s].c = {c})
               /\ s \in purge => sw[s].status # "none"

\* A contact whose key was fetched stays enrolled until it goes.
MakeOK(s) == make[s].at \in {"encrypted", "put", "insert"} =>
               \A c \in make[s].c : /\ row[c].status \in {"enrolled", "gone"}
                                    /\ row[c].status = "enrolled" /\ c \notin overlap =>
                                         make[s].envelope = EnvelopeFor(s, c)

\* One that a switch refers to stays.
SentOK(s) == \A c \in sw[s].c : /\ row[c].status = "enrolled"
                                /\ c \notin overlap => sw[s].envelope = EnvelopeFor(s, c)

SwitchOK(s) == StatusOK(s) /\ MakeOK(s) /\ SentOK(s)

SwitchInv == SwitchTypes /\ \A s \in Switch : SwitchOK(s)

\* The ciphertext is stored before the row that refers to it; a token is put by a run that
\* won the UPDATE, and before it mails the link; and a page reads what was mailed.
TokenOK(s) ==
  /\ make[s].at \in {"insert", "made"} => s \in payload \cup purge
  /\ run[s] # "idle" => sw[s].status \in {"released", "user_purged"}
  /\ s \in token \cup linked \cup expired => run[s] \in {"mail", "over"}
  /\ run[s] = "mail" => s \notin linked /\ s \in token \cup expired
ReaderOK(r) == /\ reader[r].at = "idle" => reader[r].s = {}
               /\ reader[r].at # "idle" => \E s \in linked : reader[r].s = {s}
TokenInv == (\A s \in Switch : TokenOK(s)) /\ (\A r \in Reader : ReaderOK(r))

IInv == ContactInv /\ SwitchInv /\ TokenInv /\ MessageReachable

-----------------------------------------------------------------------------
(* The contacts                                                             *)

\* An enrolled contact stays so, with the bundle it has unless two pages were in flight at
\* once; and one that has gone does not come back.
Kept(c) ==
  /\ row[c].status = "enrolled" =>
       /\ row'[c].status = "enrolled"
       /\ c \notin overlap' => /\ row'[c].salt = row[c].salt /\ row'[c].pub = row[c].pub
                               /\ row'[c].wrapped = row[c].wrapped
  /\ row[c].status = "gone" => row'[c].status = "gone"

AllKept == overlap \subseteq overlap' /\ \A c \in Contact : Kept(c)

\* A row that keeps its status and its bundle.
SameRow(c) == /\ row'[c].status = row[c].status /\ row'[c].salt = row[c].salt /\ row'[c].pub = row[c].pub
              /\ row'[c].credential = row[c].credential /\ row'[c].wrapped = row[c].wrapped

\* What a page and a bundle promise stays true while the row is the same.
LEMMA SameKeeps ==
  ASSUME ContactInv, overlap \subseteq overlap'
  PROVE  /\ \A p \in Tab : tab'[p] = tab[p] /\ SameRow(tab[p].c) => PageOK(p)'
         /\ \A c \in Contact : SameRow(c) => BundleOK(c)' /\ Kept(c)
<1>1. ASSUME NEW p \in Tab, tab'[p] = tab[p], SameRow(tab[p].c) PROVE PageOK(p)'
  <2>1. PageOK(p)  BY DEF ContactInv
  <2> QED BY <1>1, <2>1 DEF PageOK, SameRow, Exists
<1>2. ASSUME NEW c \in Contact, SameRow(c) PROVE BundleOK(c)' /\ Kept(c)
  <2>1. BundleOK(c)  BY DEF ContactInv
  <2> QED BY <1>2, <2>1 DEF BundleOK, SameRow, Kept
<1> QED BY <1>1, <1>2

\* Where To takes a page.
LEMMA TabGoes ==
  ASSUME ContactTypes, NEW p \in Tab, NEW pc \in TabSteps, To(p, pc)
  PROVE  /\ tab' \in [Tab -> TabRecord] /\ \A q \in Tab \ {p} : tab'[q] = tab[q]
         /\ tab'[p].at = pc /\ tab'[p].c = tab[p].c /\ tab'[p].salt = tab[p].salt
<1>1. tab[p] \in TabRecord /\ tab \in [Tab -> TabRecord]  BY DEF ContactTypes
<1>2. [tab[p] EXCEPT !.at = pc] \in TabRecord  BY <1>1 DEF TabRecord
<1>3. tab' \in [Tab -> TabRecord]  BY <1>1, <1>2 DEF To
<1> QED BY <1>1, <1>3 DEF To, TabRecord

\* Where OwnerTo takes a call.
LEMMA CallGoes ==
  ASSUME ContactTypes, NEW k \in Call, NEW pc \in CallSteps, NEW c \in Contact, NEW i \in 0..MaxInvites,
         OwnerTo(k, pc, c, i)
  PROVE  call' \in [Call -> CallRecord]
<1>1. [at |-> pc, c |-> {c}, invite |-> i] \in CallRecord  BY DEF CallRecord
<1> QED BY <1>1 DEF ContactTypes, OwnerTo

\* What NewInvite makes of a contact whose row becomes r.
LEMMA Invited ==
  ASSUME ContactTypes, NEW c \in Contact, NEW r \in RowRecord, NewInvite(c, r)
  PROVE  /\ row' \in [Contact -> RowRecord] /\ issued' \in [Contact -> 0..MaxInvites]
         /\ issued'[c] \in 0..MaxInvites /\ \A d \in Contact \ {c} : row'[d] = row[d]
         /\ row'[c].status = r.status /\ row'[c].salt = r.salt /\ row'[c].pub = r.pub
         /\ row'[c].credential = r.credential /\ row'[c].wrapped = r.wrapped
<1>1. /\ row \in [Contact -> RowRecord] /\ issued \in [Contact -> 0..MaxInvites]
      /\ MaxInvites \in Nat /\ issued[c] \in 0..MaxInvites /\ issued[c] < MaxInvites
  BY InviteAssumption DEF ContactTypes, NewInvite
<1>2. issued[c] + 1 \in 0..MaxInvites  BY <1>1
<1> DEFINE s == [r EXCEPT !.invite = issued[c] + 1, !.fresh = TRUE]
<1>3. /\ s \in RowRecord /\ s.status = r.status /\ s.salt = r.salt /\ s.pub = r.pub
      /\ s.credential = r.credential /\ s.wrapped = r.wrapped
  BY <1>2 DEF RowRecord
<1>4. row' = [row EXCEPT ![c] = s] /\ issued' = [issued EXCEPT ![c] = issued[c] + 1]  BY DEF NewInvite
<1> HIDE DEF s
<1> QED BY <1>1, <1>2, <1>3, <1>4

\* A contact that has a row has one status.
LEMMA RowStatus ==
  ASSUME ContactTypes, NEW c \in Contact
  PROVE  row[c] \in RowRecord /\ row[c].status \in {"none", "invited", "enrolled", "gone"}
BY DEF ContactTypes, RowRecord

\* The owner's calls leave every bundle as it is.
LEMMA OwnerKeeps ==
  ASSUME ContactInv, NEW k \in Call, NEW c \in Contact,
         Invite(k, c) \/ Mail(k, c) \/ ReinviteRead(k, c) \/ Reissue(k, c)
  PROVE  ContactInv' /\ AllKept
<1>0. ContactTypes /\ MaxInvites \in Nat /\ 0 \in 0..MaxInvites /\ UNCHANGED <<tab, overlap>> /\ call[k] \in CallRecord
  BY InviteAssumption DEF ContactInv, ContactTypes, Invite, Mail, ReinviteRead, Reissue
<1>1. CASE Mail(k, c) \/ ReinviteRead(k, c) \/ (Reissue(k, c) /\ ~Exists(c))
  <2>1. UNCHANGED <<row, issued, chal>>  BY <1>1 DEF Mail, ReinviteRead, Reissue
  <2>2. call' \in [Call -> CallRecord]
    BY <1>0, <1>1, CallGoes DEF Mail, ReinviteRead, Reissue, CallSteps
  <2>3. mailed' \in [Contact -> SUBSET (0..MaxInvites)]
    <3>1. call[k].invite \in 0..MaxInvites  BY <1>0 DEF CallRecord
    <3>2. mailed \in [Contact -> SUBSET (0..MaxInvites)]  BY DEF ContactInv, ContactTypes
    <3>3. CASE UNCHANGED mailed  BY <3>2, <3>3
    <3>4. CASE mailed' = [mailed EXCEPT ![c] = @ \cup {call[k].invite}]  BY <3>1, <3>2, <3>4
    <3> QED BY <1>1, <3>3, <3>4 DEF Mail, SendEmail, ReinviteRead, Reissue
  <2>4. ContactTypes'  BY <1>0, <2>1, <2>2, <2>3 DEF ContactTypes
  <2>5. \A d \in Contact : SameRow(d)  BY <2>1 DEF SameRow
  <2>6. \A p \in Tab : tab[p].c \in Contact  BY <1>0 DEF ContactTypes, TabRecord
  <2> QED BY <1>0, <2>4, <2>5, <2>6, SameKeeps DEF ContactInv, AllKept
<1>2. CASE Reissue(k, c) /\ Exists(c)
  <2>1. NewInvite(c, row[c]) /\ OwnerTo(k, "mail", c, issued'[c]) /\ UNCHANGED <<mailed, chal>>
    BY <1>2 DEF Reissue
  <2>2. row[c] \in RowRecord  BY <1>0, RowStatus
  <2>3. /\ row' \in [Contact -> RowRecord] /\ issued' \in [Contact -> 0..MaxInvites]
        /\ issued'[c] \in 0..MaxInvites /\ \A d \in Contact : SameRow(d)
    BY <1>0, <2>1, <2>2, Invited DEF SameRow
  <2>4. call' \in [Call -> CallRecord]  BY <1>0, <2>1, <2>3, CallGoes DEF CallSteps
  <2>5. ContactTypes'  BY <1>0, <2>1, <2>3, <2>4 DEF ContactTypes
  <2>6. \A p \in Tab : tab[p].c \in Contact  BY <1>0 DEF ContactTypes, TabRecord
  <2> QED BY <1>0, <2>3, <2>5, <2>6, SameKeeps DEF ContactInv, AllKept
<1>3. CASE Invite(k, c)
  <2> DEFINE r == [NoRow EXCEPT !.status = "invited"]
  <2>1. r \in RowRecord /\ r.status = "invited" /\ r.salt = None  BY <1>0 DEF RowRecord, NoRow
  <2>2. NewInvite(c, r) /\ OwnerTo(k, "mail", c, issued'[c]) /\ UNCHANGED <<mailed, chal>> /\ row[c].status = "none"
    BY <1>3 DEF Invite
  <2> HIDE DEF r
  <2>3. /\ row' \in [Contact -> RowRecord] /\ issued' \in [Contact -> 0..MaxInvites]
        /\ issued'[c] \in 0..MaxInvites /\ \A d \in Contact \ {c} : SameRow(d)
        /\ row'[c].status = "invited"
    BY <1>0, <2>1, <2>2, Invited DEF SameRow
  <2>4. call' \in [Call -> CallRecord]  BY <1>0, <2>2, <2>3, CallGoes DEF CallSteps
  <2>5. ContactTypes'  BY <1>0, <2>2, <2>3, <2>4 DEF ContactTypes
  <2>6. \A p \in Tab : tab[p].c \in Contact  BY <1>0 DEF ContactTypes, TabRecord
  <2>7. ASSUME NEW p \in Tab, tab[p].c = c PROVE PageOK(p)'
    <3>1. tab'[p] = tab[p] /\ tab[p].at = "open"  BY <1>0, <2>2, <2>7 DEF ContactInv, PageOK
    <3> QED BY <2>3, <2>7, <3>1 DEF PageOK
  <2>8. BundleOK(c)' /\ Kept(c)  BY <2>2, <2>3 DEF BundleOK, Kept
  <2> QED BY <1>0, <2>3, <2>5, <2>6, <2>7, <2>8, SameKeeps DEF ContactInv, AllKept
<1> QED BY <1>1, <1>2, <1>3 DEF Reissue

\* An invitation or a challenge that comes to its end leaves them too.
LEMMA ExpiryKeeps ==
  ASSUME ContactInv, NEW c \in Contact, InviteExpires(c) \/ ChalExpires(c)
  PROVE  ContactInv' /\ AllKept
<1>0. UNCHANGED <<issued, mailed, tab, call, overlap>> /\ ContactTypes
  BY DEF InviteExpires, ChalExpires, ContactInv
<1>1. row' \in [Contact -> RowRecord] /\ chal' \in [Contact -> Tab \cup {None}] /\ \A d \in Contact : SameRow(d)
  <2>1. CASE InviteExpires(c)
    <3>1. row[c] \in RowRecord  BY <1>0, RowStatus
    <3> DEFINE s == [row[c] EXCEPT !.fresh = FALSE]
    <3>2. /\ s \in RowRecord /\ s.status = row[c].status /\ s.salt = row[c].salt /\ s.pub = row[c].pub
          /\ s.credential = row[c].credential /\ s.wrapped = row[c].wrapped
      BY <3>1 DEF RowRecord
    <3>3. row' = [row EXCEPT ![c] = s] /\ UNCHANGED chal  BY <2>1 DEF InviteExpires
    <3> HIDE DEF s
    <3> QED BY <1>0, <3>2, <3>3 DEF ContactTypes, SameRow
  <2>2. CASE ChalExpires(c)  BY <1>0, <2>2 DEF ChalExpires, ContactTypes, SameRow
  <2> QED BY <2>1, <2>2
<1>2. ContactTypes'  BY <1>0, <1>1 DEF ContactTypes
<1>3. \A p \in Tab : tab[p].c \in Contact  BY <1>0 DEF ContactTypes, TabRecord
<1> QED BY <1>0, <1>1, <1>2, <1>3, SameKeeps DEF ContactInv, AllKept

\* A page that moves over rows that stay keeps all, if it is as it should be itself.
LEMMA PageMoves ==
  ASSUME ContactInv, NEW p \in Tab, UNCHANGED <<row, issued, mailed, call, overlap>>,
         tab' \in [Tab -> TabRecord], chal' \in [Contact -> Tab \cup {None}],
         \A q \in Tab \ {p} : tab'[q] = tab[q], PageOK(p)'
  PROVE  ContactInv' /\ AllKept
<1>1. ContactTypes'  BY DEF ContactInv, ContactTypes
<1>2. \A c \in Contact : SameRow(c)  BY DEF SameRow
<1>3. \A q \in Tab : tab[q].c \in Contact  BY DEF ContactInv, ContactTypes, TabRecord
<1> QED BY <1>1, <1>2, <1>3, SameKeeps DEF ContactInv, AllKept

\* A step that writes the row of one contact keeps all, if that contact and its pages
\* are as they should be.
LEMMA RowChanges ==
  ASSUME ContactInv, ContactTypes', overlap \subseteq overlap', NEW p \in Tab, NEW c \in Contact,
         tab[p].c = c, \A q \in Tab \ {p} : tab'[q] = tab[q], \A d \in Contact \ {c} : SameRow(d),
         \A q \in Tab : tab[q].c = c => PageOK(q)', BundleOK(c)', Kept(c)
  PROVE  ContactInv' /\ AllKept
<1>1. \A q \in Tab : tab[q].c \in Contact  BY DEF ContactInv, ContactTypes, TabRecord
<1>2. ASSUME NEW q \in Tab PROVE PageOK(q)'
  <2>1. CASE tab[q].c = c  BY <2>1
  <2>2. CASE tab[q].c # c
    <3>1. q # p /\ tab'[q] = tab[q] /\ SameRow(tab[q].c)  BY <1>1, <2>2
    <3> QED BY <3>1, SameKeeps
  <2> QED BY <2>1, <2>2
<1>3. ASSUME NEW d \in Contact PROVE BundleOK(d)' /\ Kept(d)
  <2>1. CASE d = c  BY <2>1
  <2>2. CASE d # c  BY <2>2, SameKeeps
  <2> QED BY <2>1, <2>2
<1> QED BY <1>2, <1>3 DEF ContactInv, AllKept

\* The steps of a page that write no row.
LEMMA PageReadKeeps ==
  ASSUME ContactInv, NEW p \in Tab,
         \/ \E i \in 1..MaxInvites : BeginRead(p, i)
         \/ ChalPut(p) \/ FinRead(p) \/ FinVerify(p) \/ FinCleanup(p)
  PROVE  ContactInv' /\ AllKept
<1>0. /\ ContactTypes /\ PageOK(p) /\ tab[p] \in TabRecord /\ tab[p].c \in Contact
      /\ row[tab[p].c] \in RowRecord /\ chal \in [Contact -> Tab \cup {None}]
  BY RowStatus DEF ContactInv, ContactTypes, TabRecord
<1>1. UNCHANGED <<row, issued, mailed, call, overlap>>
  BY DEF BeginRead, ChalPut, FinRead, FinVerify, FinCleanup
<1>2. chal' \in [Contact -> Tab \cup {None}]
  BY <1>0 DEF BeginRead, ChalPut, FinRead, FinVerify, FinCleanup
<1>3. ASSUME NEW i \in 1..MaxInvites, BeginRead(p, i) PROVE ContactInv' /\ AllKept
  <2>0. i \in 0..MaxInvites  BY InviteAssumption
  <2>1. row[tab[p].c].status = "invited" /\ row[tab[p].c].salt \in Tab \cup {None}
    BY <1>0, <1>3 DEF BeginRead, RowRecord
  <2> DEFINE r == IF row[tab[p].c].salt = None THEN [[tab[p] EXCEPT !.invite = i] EXCEPT !.at = "salt", !.salt = p]
                  ELSE [[tab[p] EXCEPT !.invite = i] EXCEPT !.at = "chal", !.salt = row[tab[p].c].salt]
  <2>2. r \in TabRecord /\ r.c = tab[p].c /\ r.salt \in Tab
        /\ \/ r.at = "salt" /\ r.salt = p /\ row[tab[p].c].salt = None
           \/ r.at = "chal" /\ r.salt = row[tab[p].c].salt
    <3>1. CASE row[tab[p].c].salt = None
      <4>1. r = [[tab[p] EXCEPT !.invite = i] EXCEPT !.at = "salt", !.salt = p]  BY <3>1
      <4> QED BY <1>0, <2>0, <3>1, <4>1 DEF TabRecord, TabSteps
    <3>2. CASE row[tab[p].c].salt # None
      <4>1. r = [[tab[p] EXCEPT !.invite = i] EXCEPT !.at = "chal", !.salt = row[tab[p].c].salt]  BY <3>2
      <4> QED BY <1>0, <2>0, <2>1, <3>2, <4>1 DEF TabRecord, TabSteps
    <3> QED BY <3>1, <3>2
  <2>3. tab' = [tab EXCEPT ![p] = r]  BY <1>3 DEF BeginRead
  <2> HIDE DEF r
  <2>4. tab' \in [Tab -> TabRecord] /\ tab'[p] = r /\ \A q \in Tab \ {p} : tab'[q] = tab[q]
    BY <1>0, <2>2, <2>3 DEF ContactTypes
  <2>5. PageOK(p)'  BY <1>1, <2>1, <2>2, <2>4 DEF PageOK, Exists
  <2> QED BY <1>1, <1>2, <2>4, <2>5, PageMoves
<1>4. CASE ChalPut(p) \/ FinVerify(p)
  <2>1. PICK pc \in {"wrapped", "update", "open"} : To(p, pc) /\ tab[p].at \in {"chal", "verify"}
                                                   /\ (pc = "update" => tab[p].at = "verify")
    BY <1>4 DEF ChalPut, FinVerify, Refused
  <2>2. /\ tab' \in [Tab -> TabRecord] /\ \A q \in Tab \ {p} : tab'[q] = tab[q]
        /\ tab'[p].at = pc /\ tab'[p].c = tab[p].c /\ tab'[p].salt = tab[p].salt
    BY <1>0, <2>1, TabGoes DEF TabSteps
  <2>3. PageOK(p)'  BY <1>0, <1>1, <2>1, <2>2 DEF PageOK, Exists
  <2> QED BY <1>1, <1>2, <2>2, <2>3, PageMoves
<1>5. CASE FinRead(p)
  <2>1. PICK pc \in {"verify", "open"} : To(p, pc) /\ (pc = "verify" => row[tab[p].c].status = "invited")
    BY <1>5 DEF FinRead, Refused, Valid
  <2>2. /\ tab' \in [Tab -> TabRecord] /\ \A q \in Tab \ {p} : tab'[q] = tab[q]
        /\ tab'[p].at = pc /\ tab'[p].c = tab[p].c /\ tab'[p].salt = tab[p].salt
    BY <1>0, <2>1, TabGoes DEF TabSteps
  <2>3. tab[p].at = "wrapped"  BY <1>5 DEF FinRead
  <2>4. PageOK(p)'  BY <1>0, <1>1, <2>1, <2>2, <2>3 DEF PageOK, Exists
  <2> QED BY <1>1, <1>2, <2>2, <2>4, PageMoves
<1>6. CASE FinCleanup(p)
  <2>1. /\ tab' \in [Tab -> TabRecord] /\ \A q \in Tab \ {p} : tab'[q] = tab[q]
        /\ tab'[p].at = "enrolled" /\ tab'[p].c = tab[p].c /\ tab[p].at = "cleanup"
    BY <1>0, <1>6, TabGoes DEF FinCleanup, TabSteps
  <2>2. PageOK(p)'  BY <1>0, <1>1, <2>1 DEF PageOK, Exists
  <2> QED BY <1>1, <1>2, <2>1, <2>2, PageMoves
<1> QED BY <1>3, <1>4, <1>5, <1>6

\* The salt is written when no page has another, or two begins are in flight.
LEMMA SaltWriteKeeps == ASSUME ContactInv, NEW p \in Tab, SaltWrite(p) PROVE ContactInv' /\ AllKept
<1>c. PICK c \in Contact : c = tab[p].c  BY DEF ContactInv, ContactTypes, TabRecord
<1>0. /\ ContactTypes /\ PageOK(p) /\ tab[p] \in TabRecord /\ c \in Contact /\ row[c] \in RowRecord
      /\ tab[p].at = "salt" /\ tab[p].salt = p
      /\ \A d \in Contact : BundleOK(d)
  BY <1>c, RowStatus DEF ContactInv, ContactTypes, TabRecord, SaltWrite, PageOK
<1>1. UNCHANGED <<issued, mailed, chal, call>>
      /\ row' = (IF Exists(c) THEN [row EXCEPT ![c].salt = p] ELSE row)
      /\ overlap' = (IF Others(p, c, {"salt"}) THEN overlap \cup {c} ELSE overlap)
  BY <1>c DEF SaltWrite
<1>2. /\ tab' \in [Tab -> TabRecord] /\ \A q \in Tab \ {p} : tab'[q] = tab[q]
      /\ tab'[p].at = "chal" /\ tab'[p].c = c /\ tab'[p].salt = p
  BY <1>c, <1>0, TabGoes DEF SaltWrite, TabSteps
<1>3. overlap \subseteq overlap' /\ overlap' \subseteq Contact  BY <1>c, <1>0, <1>1 DEF ContactTypes
<1>4. CASE ~Exists(c)
  <2>1. UNCHANGED row /\ \A d \in Contact : SameRow(d)  BY <1>c, <1>1, <1>4 DEF SameRow
  <2>2. ContactTypes'  BY <1>c, <1>0, <1>1, <1>2, <1>3, <2>1 DEF ContactTypes
  <2>3. PageOK(p)'  BY <1>c, <1>0, <1>2, <1>4, <2>1 DEF PageOK, Exists
  <2>4. \A q \in Tab : tab[q].c \in Contact  BY <1>c, <1>0 DEF ContactTypes, TabRecord
  <2> QED BY <1>c, <1>2, <1>3, <2>1, <2>2, <2>3, <2>4, SameKeeps DEF ContactInv, AllKept
<1>5. CASE Exists(c)
  <2> DEFINE r == [row[c] EXCEPT !.salt = p]
  <2>1. r \in RowRecord /\ r.salt = p /\ r.status = row[c].status /\ r.pub = row[c].pub
        /\ r.credential = row[c].credential /\ r.wrapped = row[c].wrapped
    BY <1>c, <1>0 DEF RowRecord
  <2>2. row' = [row EXCEPT ![c] = r]  BY <1>c, <1>1, <1>5
  <2> HIDE DEF r
  <2>3. /\ row' \in [Contact -> RowRecord] /\ row'[c] = r /\ \A d \in Contact \ {c} : SameRow(d)
    BY <1>c, <1>0, <2>1, <2>2 DEF ContactTypes, SameRow
  <2>4. ContactTypes'  BY <1>c, <1>0, <1>1, <1>2, <1>3, <2>3 DEF ContactTypes
  \* A contact whose pages find no salt is not enrolled yet.
  <2>6. c \notin overlap' => c \notin overlap /\ row[c].salt = None /\ row[c].status # "enrolled"
    BY <1>c, <1>0, <1>3, <1>5, NoneAssumption DEF PageOK, BundleOK
  <2>7. BundleOK(c)' /\ Kept(c)
    <3>1. row[c].status = "enrolled" => row[c].pub \in Tab  BY <1>c, <1>0 DEF BundleOK
    <3>2. row[c].status # "gone"  BY <1>c, <1>5 DEF Exists
    <3>3. BundleOK(c)'  BY <2>1, <2>3, <2>6, <3>1 DEF BundleOK
    <3>4. Kept(c)  BY <2>1, <2>3, <2>6, <3>2 DEF Kept
    <3> QED BY <3>3, <3>4
  <2>8. ASSUME NEW q \in Tab \ {p}, tab[q].c = c PROVE PageOK(q)'
    <3>1. tab'[q] = tab[q] /\ PageOK(q)  BY <1>c, <1>2 DEF ContactInv
    <3>2. c \notin overlap' => tab[q].at # "salt"  BY <1>c, <1>0, <1>1, <2>8 DEF Others
    <3>3. c \notin overlap' => tab[q].at \notin {"chal", "wrapped", "verify", "update"}
      BY <1>c, <1>5, <2>6, <2>8, <3>1, NoneAssumption DEF PageOK
    <3> QED BY <1>c, <1>5, <2>1, <2>3, <2>8, <3>1, <3>2, <3>3 DEF PageOK, Exists
  <2>9. PageOK(p)'  BY <1>c, <1>2, <1>5, <2>1, <2>3 DEF PageOK, Exists
  <2>10. \A q \in Tab : tab[q].c = c => PageOK(q)'  BY <2>8, <2>9
  <2> QED BY <1>c, <1>0, <1>2, <1>3, <2>3, <2>4, <2>7, <2>10, RowChanges
<1> QED BY <1>c, <1>4, <1>5

\* A contact that is enrolled already is enrolled by a second page only if two finishes
\* were in flight.
LEMMA FinUpdateKeeps == ASSUME ContactInv, NEW p \in Tab, FinUpdate(p) PROVE ContactInv' /\ AllKept
<1>c. PICK c \in Contact : c = tab[p].c  BY DEF ContactInv, ContactTypes, TabRecord
<1>0. /\ ContactTypes /\ PageOK(p) /\ tab[p] \in TabRecord /\ c \in Contact /\ row[c] \in RowRecord
      /\ tab[p].at = "update" /\ tab[p].salt \in Tab
  BY <1>c, RowStatus DEF ContactInv, ContactTypes, TabRecord, FinUpdate, PageOK
<1>1. UNCHANGED <<issued, mailed, chal, call>>
      /\ overlap' = (IF Others(p, c, {"verify", "update"}) THEN overlap \cup {c} ELSE overlap)
  BY <1>c DEF FinUpdate
<1>2. /\ tab' \in [Tab -> TabRecord] /\ \A q \in Tab \ {p} : tab'[q] = tab[q]
      /\ tab'[p].at = "cleanup" /\ tab'[p].c = c /\ tab'[p].salt = tab[p].salt
  BY <1>c, <1>0, TabGoes DEF FinUpdate, TabSteps
<1> DEFINE r == [row[c] EXCEPT !.status = "enrolled", !.invite = 0, !.fresh = FALSE, !.credential = p, !.pub = p,
                               !.wrapped = WrapPrivkey(p, Prf(p, tab[p].salt))]
<1>a. row' = IF ~Exists(c) THEN row ELSE [row EXCEPT ![c] = r]  BY <1>c DEF FinUpdate
<1>3. overlap \subseteq overlap' /\ overlap' \subseteq Contact  BY <1>c, <1>0, <1>1 DEF ContactTypes
<1>4. CASE ~Exists(c)
  <2>1. UNCHANGED row /\ \A d \in Contact : SameRow(d)  BY <1>c, <1>a, <1>4 DEF SameRow
  <2>2. ContactTypes'  BY <1>c, <1>0, <1>1, <1>2, <1>3, <2>1 DEF ContactTypes
  <2>3. PageOK(p)'  BY <1>c, <1>0, <1>2, <1>4, <2>1 DEF PageOK, Exists
  <2>4. \A q \in Tab : tab[q].c \in Contact  BY <1>c, <1>0 DEF ContactTypes, TabRecord
  <2> QED BY <1>c, <1>2, <1>3, <2>1, <2>2, <2>3, <2>4, SameKeeps DEF ContactInv, AllKept
<1>5. CASE Exists(c)
  <2>0. 0 \in 0..MaxInvites /\ WrapPrivkey(p, Prf(p, tab[p].salt)) \in Wrapped
    BY <1>c, <1>0, InviteAssumption DEF Wrapped
  <2>1. r \in RowRecord /\ r.status = "enrolled" /\ r.salt = row[c].salt /\ r.pub = p /\ r.credential = p
        /\ r.wrapped = WrapPrivkey(p, Prf(p, tab[p].salt))
    BY <1>c, <1>0, <2>0 DEF RowRecord
  <2>2. row' = [row EXCEPT ![c] = r]  BY <1>c, <1>a, <1>5
  <2> HIDE DEF r
  <2>3. /\ row' \in [Contact -> RowRecord] /\ row'[c] = r /\ \A d \in Contact \ {c} : SameRow(d)
    BY <1>c, <1>0, <2>1, <2>2 DEF ContactTypes, SameRow
  <2>4. ContactTypes'  BY <1>c, <1>0, <1>1, <1>2, <1>3, <2>3 DEF ContactTypes
  <2>6. c \notin overlap' => c \notin overlap /\ row[c].salt = tab[p].salt /\ row[c].status # "enrolled"
    BY <1>c, <1>0, <1>3, <1>5 DEF PageOK
  <2>7. BundleOK(c)' /\ Kept(c)
    <3>1. row[c].status # "gone"  BY <1>c, <1>5 DEF Exists
    <3>2. BundleOK(c)'  BY <1>c, <1>0, <2>1, <2>3, <2>6 DEF BundleOK
    <3>3. Kept(c)  BY <2>1, <2>3, <2>6, <3>1 DEF Kept
    <3> QED BY <3>2, <3>3
  <2>8. ASSUME NEW q \in Tab \ {p}, tab[q].c = c PROVE PageOK(q)'
    <3>1. tab'[q] = tab[q] /\ PageOK(q)  BY <1>c, <1>2 DEF ContactInv
    <3>2. c \notin overlap' => tab[q].at \notin {"verify", "update"}  BY <1>c, <1>0, <1>1, <2>8 DEF Others
    <3> QED BY <1>c, <1>3, <1>5, <2>1, <2>3, <2>8, <3>1, <3>2 DEF PageOK, Exists
  <2>9. PageOK(p)'  BY <1>c, <1>2, <1>5, <2>1, <2>3 DEF PageOK, Exists
  <2>10. \A q \in Tab : tab[q].c = c => PageOK(q)'  BY <2>8, <2>9
  <2> QED BY <1>c, <1>0, <1>2, <1>3, <2>3, <2>4, <2>7, <2>10, RowChanges
<1> QED BY <1>c, <1>4, <1>5

\* Whatever the owner and the pages do, every bundle that is made is kept.
LEMMA ContactsKeep == ASSUME ContactInv, ContactsNext PROVE ContactInv' /\ AllKept
BY OwnerKeeps, ExpiryKeeps, PageReadKeeps, SaltWriteKeeps, FinUpdateKeeps DEF ContactsNext

-----------------------------------------------------------------------------
(* The contacts and the owner's deletes, seen from the switches.             *)

\* What a switch promises stays true as long as every bundle is kept.
LEMMA KeptKeeps == ASSUME IInv, ContactInv', AllKept, UNCHANGED deliveryVars PROVE IInv'
<1>1. UNCHANGED <<sw, make, run, payload, token, linked, purge, reader, lost, expired>>  BY DEF deliveryVars
<1>2. SwitchTypes' /\ TokenInv' /\ MessageReachable'
  BY <1>1 DEF IInv, SwitchInv, SwitchTypes, TokenInv, TokenOK, ReaderOK, MessageReachable
<1>3. ASSUME NEW s \in Switch PROVE SwitchOK(s)'
  <2>1. SwitchOK(s) /\ make[s].c \subseteq Contact /\ sw[s].c \subseteq Contact
    BY DEF IInv, SwitchInv, SwitchTypes, MakeRecord, SwitchRecord
  <2>2. ASSUME NEW c \in Contact, row[c].status = "enrolled"
        PROVE  /\ row'[c].status = "enrolled"
               /\ c \notin overlap' => c \notin overlap /\ EnvelopeFor(s, c)' = EnvelopeFor(s, c)
    BY <2>2 DEF AllKept, Kept, EnvelopeFor
  <2>3. \A c \in Contact : row[c].status = "gone" => row'[c].status = "gone"  BY DEF AllKept, Kept
  <2>4. MakeOK(s)'
    <3> SUFFICES ASSUME make[s].at \in {"encrypted", "put", "insert"}, NEW c \in make[s].c
                 PROVE  /\ row'[c].status \in {"enrolled", "gone"}
                        /\ row'[c].status = "enrolled" /\ c \notin overlap' => make[s].envelope = EnvelopeFor(s, c)'
      BY <1>1 DEF MakeOK
    <3>1. /\ c \in Contact /\ row[c].status \in {"enrolled", "gone"}
          /\ row[c].status = "enrolled" /\ c \notin overlap => make[s].envelope = EnvelopeFor(s, c)
      BY <2>1 DEF SwitchOK, MakeOK
    <3> QED BY <2>2, <2>3, <3>1
  <2>5. SentOK(s)'
    <3> SUFFICES ASSUME NEW c \in sw[s].c
                 PROVE  /\ row'[c].status = "enrolled"
                        /\ c \notin overlap' => sw[s].envelope = EnvelopeFor(s, c)'
      BY <1>1 DEF SentOK
    <3>1. /\ c \in Contact /\ row[c].status = "enrolled"
          /\ c \notin overlap => sw[s].envelope = EnvelopeFor(s, c)
      BY <2>1 DEF SwitchOK, SentOK
    <3> QED BY <2>2, <3>1
  <2>6. StatusOK(s)'  BY <1>1, <2>1 DEF SwitchOK, StatusOK
  <2> QED BY <2>4, <2>5, <2>6 DEF SwitchOK
<1> QED BY <1>2, <1>3 DEF IInv, SwitchInv

\* A call of the owner alone keeps all.
LEMMA CallKeeps ==
  ASSUME IInv, UNCHANGED <<row, issued, mailed, chal, tab, overlap, deliveryVars>>, call' \in [Call -> CallRecord]
  PROVE  IInv'
<1>1. ContactTypes'  BY DEF IInv, ContactInv, ContactTypes
<1>2. \A c \in Contact : SameRow(c)  BY DEF SameRow
<1>3. \A p \in Tab : tab[p].c \in Contact  BY DEF IInv, ContactInv, ContactTypes, TabRecord
<1>4. ContactInv' /\ AllKept  BY <1>1, <1>2, <1>3, SameKeeps DEF IInv, ContactInv, AllKept
<1> QED BY <1>4, KeptKeeps

\* The row of a contact goes only when no switch has it for its contact.
LEMMA DeleteKeeps ==
  ASSUME IInv, NEW k \in Call, NEW c \in Contact, DeleteCount(k, c) \/ Delete(k, c) PROVE IInv'
<1>0. ContactInv /\ ContactTypes /\ 0 \in 0..MaxInvites /\ SwitchTypes
  BY InviteAssumption DEF IInv, ContactInv, SwitchInv
<1>1. PICK pc \in {"delete", "done", "failed"} : OwnerTo(k, pc, c, 0)  BY DEF DeleteCount, Delete
<1>2. call' \in [Call -> CallRecord]  BY <1>0, <1>1, CallGoes DEF CallSteps
<1>3. CASE UNCHANGED row
  <2>1. UNCHANGED <<row, issued, mailed, chal, tab, overlap, deliveryVars>>  BY <1>3 DEF DeleteCount, Delete
  <2> QED BY <1>2, <2>1, CallKeeps
<1>4. CASE Delete(k, c) /\ Refer(c, Active \cup Final) = {}
  <2> DEFINE r == [NoRow EXCEPT !.status = "gone"]
  <2>1. r \in RowRecord /\ r.status = "gone"  BY <1>0 DEF RowRecord, NoRow
  <2>2. row' = [row EXCEPT ![c] = r] /\ UNCHANGED <<issued, mailed, chal, tab, overlap, deliveryVars>>
    BY <1>4 DEF Delete
  <2> HIDE DEF r
  <2>3. row' \in [Contact -> RowRecord] /\ row'[c].status = "gone" /\ \A d \in Contact \ {c} : row'[d] = row[d]
    BY <1>0, <2>1, <2>2 DEF ContactTypes
  <2>4. ContactTypes'  BY <1>0, <1>2, <2>2, <2>3 DEF ContactTypes
  <2>5. \A d \in Contact \ {c} : SameRow(d)  BY <2>3 DEF SameRow
  <2>6. ASSUME NEW p \in Tab PROVE PageOK(p)'
    <3>1. PageOK(p) /\ tab'[p] = tab[p] /\ tab[p].c \in Contact  BY <1>0, <2>2 DEF ContactInv, ContactTypes, TabRecord
    <3>2. CASE tab[p].c = c  BY <2>3, <3>1, <3>2 DEF PageOK, Exists
    <3>3. CASE tab[p].c # c  BY <1>0, <2>2, <2>5, <3>1, <3>3, SameKeeps
    <3> QED BY <3>2, <3>3
  <2>7. ASSUME NEW d \in Contact PROVE BundleOK(d)'
    <3>1. CASE d = c  BY <2>3, <3>1 DEF BundleOK
    <3>2. CASE d # c  BY <1>0, <2>2, <2>5, <3>2, SameKeeps
    <3> QED BY <3>1, <3>2
  <2>8. ContactInv'  BY <2>4, <2>6, <2>7 DEF ContactInv
  <2>9. UNCHANGED <<sw, make, run, payload, token, linked, purge, reader, lost, expired>>  BY <2>2 DEF deliveryVars
  <2>10. SwitchTypes' /\ TokenInv' /\ MessageReachable'
    BY <2>9 DEF IInv, SwitchInv, SwitchTypes, TokenInv, TokenOK, ReaderOK, MessageReachable
  <2>11. ASSUME NEW s \in Switch PROVE SwitchOK(s)'
    <3>1. SwitchOK(s) /\ make[s].c \subseteq Contact /\ sw[s].c \subseteq Contact /\ sw[s].status \in Statuses
      BY DEF IInv, SwitchInv, SwitchTypes, MakeRecord, SwitchRecord
    <3>2. c \notin sw[s].c
      <4>1. s \notin Refer(c, Active \cup Final)  BY <1>4
      <4>2. ~(sw[s].c = {c} /\ sw[s].status # "none")  BY <3>1, <4>1 DEF Refer, Active, Final, Statuses
      <4>3. Nobody.c = {}  BY DEF Nobody
      <4> QED BY <3>1, <4>2, <4>3 DEF SwitchOK, StatusOK
    <3>3. \A d \in Contact \ {c} : EnvelopeFor(s, d)' = EnvelopeFor(s, d)  BY <2>3 DEF EnvelopeFor
    <3>4. SentOK(s)'  BY <2>2, <2>3, <2>9, <3>1, <3>2, <3>3 DEF SwitchOK, SentOK
    <3>5. MakeOK(s)'  BY <2>2, <2>3, <2>9, <3>1, <3>3 DEF SwitchOK, MakeOK
    <3>6. StatusOK(s)'  BY <2>9, <3>1 DEF SwitchOK, StatusOK
    <3> QED BY <3>4, <3>5, <3>6 DEF SwitchOK
  <2> QED BY <2>8, <2>10, <2>11 DEF IInv, SwitchInv
<1> QED BY <1>3, <1>4 DEF DeleteCount, Delete

-----------------------------------------------------------------------------
(* The owner's page, the release and the reading pages                      *)

\* The two shares make the key again.
LEMMA SharesCombine ==
  ASSUME NEW s \in Switch
  PROVE  /\ SplitKey(Key[s], ShareA[s]).shareB \in [Bits -> BOOLEAN]
         /\ CombineShares(ShareA[s], SplitKey(Key[s], ShareA[s]).shareB) = Key[s]
<1> DEFINE k == Key[s]
           a == ShareA[s]
           b == Xor(k, a)
<1>1. k \in [Bits -> BOOLEAN] /\ a \in [Bits -> BOOLEAN]  BY KeyAssumption
<1> HIDE DEF k, a
<1>2. b = [i \in Bits |-> k[i] # a[i]]  BY <1>1 DEF Xor
<1>3. \A i \in Bits : (k[i] # a[i]) \in BOOLEAN  OBVIOUS
<1>4. b \in [Bits -> BOOLEAN]  BY <1>2, <1>3
<1>5. b # None  BY <1>4, ValueAssumption
<1>6. Xor(a, b) = [i \in Bits |-> a[i] # (k[i] # a[i])]  BY <1>1, <1>2 DEF Xor
<1>7. \A i \in Bits : k[i] \in BOOLEAN /\ a[i] \in BOOLEAN  BY <1>1
<1>8. \A i \in Bits : (a[i] # (k[i] # a[i])) = k[i]  BY <1>7
<1>9. Xor(a, b) = k  BY <1>1, <1>6, <1>8
<1> QED BY <1>4, <1>5, <1>9 DEF CombineShares, SplitKey, k, a

\* A step that leaves the contacts, and so all but the switch s, as they are.
LEMMA SwitchMoves ==
  ASSUME IInv, UNCHANGED contactVars, NEW s \in Switch, SwitchTypes', SwitchOK(s)',
         \A t \in Switch \ {s} : sw'[t] = sw[t] /\ make'[t] = make[t] /\ (t \in purge' <=> t \in purge),
         TokenInv', MessageReachable'
  PROVE  IInv'
<1>1. UNCHANGED <<row, issued, mailed, chal, tab, call, overlap>>  BY DEF contactVars
<1>2. ContactInv'
  BY <1>1 DEF IInv, ContactInv, ContactTypes, PageOK, BundleOK, Exists
<1>3. ASSUME NEW t \in Switch PROVE SwitchOK(t)'
  <2>1. CASE t = s  BY <2>1
  <2>2. CASE t # s
    <3>1. SwitchOK(t) /\ sw'[t] = sw[t] /\ make'[t] = make[t] /\ (t \in purge' <=> t \in purge)
      BY <2>2 DEF IInv, SwitchInv
    <3>2. StatusOK(t)'  BY <3>1 DEF SwitchOK, StatusOK
    <3>3. MakeOK(t)'  BY <1>1, <3>1 DEF SwitchOK, MakeOK, EnvelopeFor
    <3>4. SentOK(t)'  BY <1>1, <3>1 DEF SwitchOK, SentOK, EnvelopeFor
    <3> QED BY <3>2, <3>3, <3>4 DEF SwitchOK
  <2> QED BY <2>1, <2>2
<1> QED BY <1>2, <1>3 DEF IInv, SwitchInv

\* The page that creates a switch encrypts for the key that its contact has, and the
\* statement that refers to the contact finds it there.
LEMMA MakeKeeps ==
  ASSUME IInv, NEW s \in Switch, NEW c \in Contact,
         FetchKey(s, c) \/ CheckContact(s, c) \/ PutPayload(s, c) \/ InsertSwitch(s, c)
  PROVE  IInv'
<1>0. /\ UNCHANGED <<contactVars, run, token, linked, purge, reader, lost, expired>>
      /\ SwitchTypes /\ SwitchOK(s) /\ TokenInv /\ MessageReachable /\ BundleOK(c) /\ UNCHANGED <<row, overlap>>
      /\ make[s] \in MakeRecord /\ payload' \subseteq Switch /\ payload \subseteq payload' /\ TokenOK(s)
  BY DEF FetchKey, CheckContact, PutPayload, InsertSwitch, IInv, SwitchInv, SwitchTypes, ContactInv, contactVars,
         TokenInv
<1>1. make[s].at # "made" /\ sw[s] = Nobody
  BY <1>0 DEF FetchKey, CheckContact, PutPayload, InsertSwitch, MakingFor, SwitchOK, StatusOK
<1>2. sw[s].status = "none" /\ s \notin purge /\ run[s] = "idle" /\ s \notin token \cup linked \cup expired
  BY <1>0, <1>1 DEF Nobody, SwitchOK, StatusOK, TokenOK
<1>3. ASSUME UNCHANGED sw, make' \in [Switch -> MakeRecord], \A t \in Switch \ {s} : make'[t] = make[t],
             make'[s].at # "made", MakeOK(s)', make'[s].at = "insert" => s \in payload'
      PROVE  IInv'
  <2>1. SwitchTypes' /\ MessageReachable'
    BY <1>0, <1>3 DEF SwitchTypes, MessageReachable
  <2>4. TokenInv'
    <3>1. TokenOK(s)'  BY <1>0, <1>3 DEF TokenOK
    <3>2. \A t \in Switch \ {s} : TokenOK(t)'  BY <1>0, <1>3 DEF TokenInv, TokenOK
    <3> QED BY <1>0, <3>1, <3>2 DEF TokenInv, ReaderOK
  <2>2. StatusOK(s)'  BY <1>0, <1>1, <1>3 DEF SwitchOK, StatusOK
  <2>3. SentOK(s)'  BY <1>1, <1>3 DEF SentOK, Nobody
  <2> QED BY <1>0, <1>3, <2>1, <2>2, <2>3, <2>4, SwitchMoves DEF SwitchOK
<1>4. CASE FetchKey(s, c)
  <2> DEFINE share == SplitKey(Key[s], ShareA[s]).shareB
             m == [at |-> "encrypted", c |-> {c}, envelope |-> EciesEncrypt(share, row[c].pub)]
  <2>1. share \in [Bits -> BOOLEAN]  BY SharesCombine
  <2>2. row[c].pub \in Tab  BY <1>0, <1>4 DEF FetchKey, BundleOK
  <2>3. m.envelope = EnvelopeFor(s, c) /\ m.at = "encrypted" /\ m.c = {c}  BY DEF EnvelopeFor
  <2>4. make' = [make EXCEPT ![s] = m] /\ UNCHANGED sw /\ row[c].status = "enrolled"  BY <1>4 DEF FetchKey
  <2> HIDE DEF share
  <2>5. EciesEncrypt(share, row[c].pub) \in Sealed  BY <2>1, <2>2 DEF EciesEncrypt, Sealed
  <2>6. m \in MakeRecord  BY <2>5 DEF MakeRecord, MakeSteps
  <2> HIDE DEF m
  <2>7. /\ make' \in [Switch -> MakeRecord] /\ make'[s] = m /\ \A t \in Switch \ {s} : make'[t] = make[t]
    BY <1>0, <2>4, <2>6 DEF SwitchTypes
  <2>8. MakeOK(s)'  BY <1>0, <2>3, <2>4, <2>7 DEF MakeOK, EnvelopeFor
  <2> QED BY <1>3, <2>3, <2>4, <2>7, <2>8
<1>5. ASSUME NEW pc \in {"put", "insert", "failed"}, MakeTo(s, pc), UNCHANGED sw,
             make[s].at \in {"encrypted", "put", "insert"}, pc = "insert" => s \in payload'
      PROVE  IInv'
  <2>1. [make[s] EXCEPT !.at = pc] \in MakeRecord  BY <1>0 DEF MakeRecord, MakeSteps
  <2>2. make' = [make EXCEPT ![s] = [make[s] EXCEPT !.at = pc]]  BY <1>5 DEF MakeTo
  <2>3. /\ make' \in [Switch -> MakeRecord] /\ \A t \in Switch \ {s} : make'[t] = make[t]
        /\ make'[s].at = pc /\ make'[s].c = make[s].c /\ make'[s].envelope = make[s].envelope
    BY <1>0, <2>1, <2>2 DEF SwitchTypes, MakeRecord
  <2>4. MakeOK(s)'  BY <1>0, <1>5, <2>3 DEF SwitchOK, MakeOK, EnvelopeFor
  <2> QED BY <1>3, <1>5, <2>3, <2>4
<1>6. CASE InsertSwitch(s, c) /\ Exists(c)
  <2> DEFINE w == [status |-> "armed", c |-> {c}, envelope |-> make[s].envelope]
  <2>1. w \in SwitchRecord /\ w # Nobody /\ w.status = "armed" /\ w.c = {c} /\ w.envelope = make[s].envelope
    BY <1>0 DEF SwitchRecord, MakeRecord, Statuses, Nobody
  <2>2. sw' = [sw EXCEPT ![s] = w] /\ MakeTo(s, "made") /\ make[s].at = "insert" /\ make[s].c = {c}
    BY <1>6 DEF InsertSwitch, MakingFor
  <2> HIDE DEF w
  <2>3. sw' \in [Switch -> SwitchRecord] /\ sw'[s] = w /\ \A t \in Switch \ {s} : sw'[t] = sw[t]
    BY <1>0, <2>1, <2>2 DEF SwitchTypes
  <2>4. [make[s] EXCEPT !.at = "made"] \in MakeRecord  BY <1>0 DEF MakeRecord, MakeSteps
  <2>5. /\ make' \in [Switch -> MakeRecord] /\ make'[s].at = "made" /\ \A t \in Switch \ {s} : make'[t] = make[t]
    BY <1>0, <2>2, <2>4 DEF SwitchTypes, MakeTo, MakeRecord
  <2>6. row[c].status = "enrolled" /\ (c \notin overlap => make[s].envelope = EnvelopeFor(s, c))
    BY <1>0, <1>6, <2>2 DEF SwitchOK, MakeOK, Exists
  <2>7. StatusOK(s)'  BY <2>1, <2>3, <2>5 DEF StatusOK
  <2>8. MakeOK(s)'  BY <2>5 DEF MakeOK
  <2>9. SentOK(s)'  BY <1>0, <2>1, <2>3, <2>6 DEF SentOK, EnvelopeFor
  <2>10. SwitchTypes'  BY <1>0, <2>3, <2>5 DEF SwitchTypes
  <2>11. TokenInv'
    <3>1. TokenOK(s)'  BY <1>0, <1>2, <2>2 DEF TokenOK
    <3>2. \A t \in Switch \ {s} : TokenOK(t)'  BY <1>0, <2>3, <2>5 DEF TokenInv, TokenOK
    <3> QED BY <1>0, <3>1, <3>2 DEF TokenInv, ReaderOK
  <2>12. MessageReachable'  BY <1>0 DEF MessageReachable
  <2> QED BY <1>0, <2>3, <2>5, <2>7, <2>8, <2>9, <2>10, <2>11, <2>12, SwitchMoves DEF SwitchOK
<1>7. CASE CheckContact(s, c) \/ PutPayload(s, c) \/ (InsertSwitch(s, c) /\ ~Exists(c))
  BY <1>5, <1>7 DEF CheckContact, PutPayload, InsertSwitch, MakingFor
<1> QED BY <1>4, <1>6, <1>7

\* A switch that is released or destroyed keeps its contact and its envelope; only the
\* UPDATE begins a run, and a token that expires leaves nobody with a good link.
LEMMA StatusKeeps ==
  ASSUME IInv, NEW s \in Switch, ReleaseUpdate(s) \/ PurgePayload(s) \/ PurgeRow(s) \/ TokenExpires(s)
  PROVE  IInv'
<1>0. /\ UNCHANGED <<contactVars, make, linked, reader, lost, row, overlap>> /\ SwitchTypes /\ SwitchOK(s) /\ TokenInv
      /\ MessageReachable /\ sw[s] \in SwitchRecord /\ run[s] \in RunSteps /\ TokenOK(s)
  BY DEF ReleaseUpdate, PurgePayload, PurgeRow, TokenExpires, IInv, SwitchInv, SwitchTypes, TokenInv, contactVars
<1>1. /\ (payload \cup token \cup linked \cup purge \cup lost \cup expired)' \subseteq Switch
      /\ sw[s].status # "none" /\ (token \cup expired)' = token \cup expired /\ expired \subseteq expired'
      /\ payload \cup purge \subseteq (payload \cup purge)'
      /\ \A t \in Switch \ {s} : t \in purge' <=> t \in purge
  <2>1. s \in token => run[s] # "idle"  BY <1>0 DEF TokenOK
  <2> QED BY <1>0, <2>1 DEF ReleaseUpdate, PurgePayload, PurgeRow, TokenExpires, SwitchTypes, SwitchOK, StatusOK, TokenOK
<1>2. PICK st \in {"released", "user_purged", sw[s].status}, pc \in {"token", run[s]} :
        /\ sw' = [sw EXCEPT ![s] = [sw[s] EXCEPT !.status = st]] /\ run' = [run EXCEPT ![s] = pc]
        /\ pc # "idle" => st \in {"released", "user_purged"}
        /\ pc # run[s] => run[s] = "idle"
  <2>1. /\ sw = [sw EXCEPT ![s] = [sw[s] EXCEPT !.status = sw[s].status]] /\ run = [run EXCEPT ![s] = run[s]]
        /\ run[s] # "idle" => sw[s].status \in {"released", "user_purged"}
    BY <1>0 DEF SwitchTypes, SwitchRecord, TokenOK
  <2>2. CASE ReleaseUpdate(s)
    <3>1. sw[s].status = "armed" /\ run[s] = "idle"  BY <2>1, <2>2 DEF ReleaseUpdate
    <3> QED BY <2>2, <3>1 DEF ReleaseUpdate, RunTo
  <2>3. CASE PurgeRow(s)  BY <2>1, <2>3 DEF PurgeRow
  <2>4. CASE PurgePayload(s) \/ TokenExpires(s)  BY <2>1, <2>4 DEF PurgePayload, TokenExpires
  <2> QED BY <2>2, <2>3, <2>4
<1> DEFINE w == [sw[s] EXCEPT !.status = st]
<1>3. w \in SwitchRecord /\ w.status = st /\ w.c = sw[s].c /\ w.envelope = sw[s].envelope
  BY <1>0, <1>2 DEF SwitchRecord, Statuses
<1>4. sw' = [sw EXCEPT ![s] = w]  BY <1>2
<1> HIDE DEF w
<1>5. /\ sw' \in [Switch -> SwitchRecord] /\ sw'[s] = w /\ run' \in [Switch -> RunSteps] /\ run'[s] = pc
      /\ \A t \in Switch \ {s} : sw'[t] = sw[t] /\ run'[t] = run[t]
  BY <1>0, <1>2, <1>3, <1>4 DEF SwitchTypes, RunSteps
<1>6. SwitchTypes'  BY <1>0, <1>1, <1>5 DEF SwitchTypes
<1>7. SwitchOK(s)'
  <2>1. make[s].at = "made" /\ sw[s] # Nobody /\ st # "none"
    BY <1>0, <1>1, <1>2 DEF SwitchOK, StatusOK, Nobody
  <2>2. StatusOK(s)'  BY <1>0, <1>3, <1>5, <2>1 DEF SwitchOK, StatusOK
  <2>3. MakeOK(s)'  BY <1>0, <2>1 DEF MakeOK
  <2>4. SentOK(s)'  BY <1>0, <1>3, <1>5 DEF SwitchOK, SentOK, EnvelopeFor
  <2> QED BY <2>2, <2>3, <2>4 DEF SwitchOK
<1>8. TokenInv'
  <2>1. TokenOK(s)'  BY <1>0, <1>1, <1>2, <1>3, <1>5 DEF TokenOK, RunSteps
  <2>2. ASSUME NEW t \in Switch \ {s} PROVE TokenOK(t)'
    <3>1. TokenOK(t)  BY <1>0 DEF TokenInv
    <3> QED BY <1>0, <1>1, <1>5, <3>1 DEF TokenOK
  <2>3. \A r \in Reader : ReaderOK(r)'  BY <1>0 DEF TokenInv, ReaderOK
  <2> QED BY <2>1, <2>2, <2>3 DEF TokenInv
<1>9. MessageReachable'  BY <1>0, <1>1 DEF MessageReachable
<1> QED BY <1>0, <1>1, <1>5, <1>6, <1>7, <1>8, <1>9, SwitchMoves

\* A run mails a link only of a switch whose token it has put; and a switch that is there
\* has its ciphertext, unless its owner had it destroyed.
LEMMA RunKeeps == ASSUME IInv, NEW s \in Switch, PutToken(s) \/ MailLink(s) PROVE IInv'
<1>0. /\ UNCHANGED <<contactVars, sw, make, payload, purge, reader, lost, expired, row, overlap>>
      /\ SwitchTypes /\ SwitchOK(s) /\ TokenInv /\ MessageReachable /\ TokenOK(s)
  BY DEF PutToken, MailLink, IInv, SwitchInv, TokenInv, contactVars
<1>1. PICK pc \in {"mail", "over"} :
        /\ run' = [run EXCEPT ![s] = pc] /\ run[s] \in {"token", "mail"}
        /\ token \subseteq token' /\ token' \subseteq token \cup {s}
        /\ linked \subseteq linked' /\ linked' \subseteq linked \cup {s}
        /\ pc = "mail" => run[s] = "token" /\ s \in token' /\ linked' = linked
        /\ s \in linked' /\ s \notin linked => run[s] = "mail" /\ token' = token
  BY DEF PutToken, MailLink, RunTo
<1>2. run' \in [Switch -> RunSteps] /\ run'[s] = pc /\ \A t \in Switch \ {s} : run'[t] = run[t]
  BY <1>0, <1>1 DEF SwitchTypes, RunSteps
<1>3. SwitchTypes'  BY <1>0, <1>1, <1>2 DEF SwitchTypes
<1>4. SwitchOK(s)'  BY <1>0 DEF SwitchOK, StatusOK, MakeOK, SentOK, EnvelopeFor
<1>5. TokenInv'
  <2>1. TokenOK(s)'  BY <1>0, <1>1, <1>2 DEF TokenOK
  <2>2. ASSUME NEW t \in Switch \ {s} PROVE TokenOK(t)'
    <3>1. TokenOK(t)  BY <1>0 DEF TokenInv
    <3> QED BY <1>0, <1>1, <1>2, <3>1 DEF TokenOK
  <2>3. \A r \in Reader : ReaderOK(r)'  BY <1>0, <1>1 DEF TokenInv, ReaderOK
  <2> QED BY <2>1, <2>2, <2>3 DEF TokenInv
<1>6. MessageReachable'
  <2> SUFFICES ASSUME NEW t \in Switch, t \in linked', t \notin lost \cup expired
               PROVE  \/ t \in token /\ t \in payload \cup purge
                      \/ \E r \in Reader : reader[r].s = {t} /\ reader[r].at \in {"body", "read"}
    BY <1>0, <1>1 DEF MessageReachable
  <2>1. CASE t \in linked  BY <1>0, <2>1 DEF MessageReachable
  <2>2. CASE t \notin linked
    <3>1. t = s /\ run[s] = "mail"  BY <1>1, <2>2
    <3>2. s \in token /\ sw[s].status # "none"  BY <1>0, <3>1 DEF TokenOK
    <3>3. make[s].at = "made"  BY <1>0, <3>2 DEF SwitchOK, StatusOK, Nobody
    <3> QED BY <1>0, <3>1, <3>2, <3>3 DEF TokenOK
  <2> QED BY <2>1, <2>2
<1> QED BY <1>0, <1>3, <1>4, <1>5, <1>6, SwitchMoves

\* A reading page that moves: it leaves a download that it was served only for a loss.
LEMMA ReaderKeeps ==
  ASSUME IInv, NEW r \in Reader, NEW s \in Switch,
         Unlock(r, s) \/ ReadToken(r, s) \/ ReadBlob(r, s) \/ SpendToken(r, s) \/ Body(r, s)
  PROVE  IInv'
<1>0. /\ UNCHANGED <<contactVars, sw, make, run, payload, linked, purge, expired>> /\ SwitchTypes /\ SwitchOK(s)
      /\ TokenInv /\ MessageReachable /\ reader[r] \in ReaderRecord /\ ReaderOK(r)
  BY DEF Unlock, ReadToken, ReadBlob, SpendToken, Body, IInv, SwitchInv, SwitchTypes, TokenInv
<1>1. /\ token' \subseteq token /\ token \ {s} \subseteq token' /\ lost \subseteq lost' /\ lost' \subseteq Switch
  BY <1>0 DEF Unlock, ReadToken, ReadBlob, SpendToken, Body, SwitchTypes
<1>2. s \in linked /\ (reader[r].at # "idle" => reader[r].s = {s})
  <2>1. CASE Unlock(r, s)  BY <2>1 DEF Unlock
  <2>2. CASE Reading(r, "fetch", s) \/ Reading(r, "blob", s) \/ Reading(r, "spend", s) \/ Reading(r, "body", s)
    BY <1>0, <2>2 DEF Reading, ReaderOK
  <2> QED BY <2>1, <2>2 DEF ReadToken, ReadBlob, SpendToken, Body
<1>3. PICK pc \in ReadSteps :
        /\ reader' = [reader EXCEPT ![r] = [at |-> pc, s |-> IF pc = "idle" THEN {} ELSE {s}]]
        /\ s \in token /\ s \notin token' => pc = "body"
        /\ reader[r].at \in {"body", "read"} => pc = "read" \/ s \in lost'
  <2>1. \A pc \in ReadSteps \ {"idle"} : reader[r].at # "idle" /\ ReaderTo(r, pc) =>
          reader' = [reader EXCEPT ![r] = [at |-> pc, s |-> IF pc = "idle" THEN {} ELSE {s}]]
    <3> SUFFICES ASSUME NEW pc \in ReadSteps \ {"idle"}, reader[r].at # "idle"
                 PROVE  [reader[r] EXCEPT !.at = pc] = [at |-> pc, s |-> {s}]
      BY DEF ReaderTo
    <3> QED BY <1>0, <1>2 DEF ReaderRecord
  <2>2. CASE Unlock(r, s)  BY <2>2 DEF Unlock, ReadSteps
  <2>3. CASE ReadToken(r, s)
    <3>1. reader[r].at = "fetch" /\ UNCHANGED token  BY <2>3 DEF ReadToken, Reading
    <3> QED BY <2>1, <2>3, <3>1 DEF ReadToken, ReaderFails, ReadSteps
  <2>4. CASE ReadBlob(r, s)
    <3>1. reader[r].at = "blob" /\ UNCHANGED token  BY <2>4 DEF ReadBlob, Reading
    <3> QED BY <2>1, <2>4, <3>1 DEF ReadBlob, ReaderFails, ReadSteps
  <2>5. CASE SpendToken(r, s)
    <3>1. reader[r].at = "spend"  BY <2>5 DEF SpendToken, Reading
    <3> QED BY <2>1, <2>5, <3>1 DEF SpendToken, ReadSteps
  <2>6. CASE Body(r, s)
    <3>1. reader[r].at = "body" /\ UNCHANGED token  BY <2>6 DEF Body, Reading
    <3> QED BY <2>1, <2>6, <3>1 DEF Body, ReaderFails, ReadSteps
  <2> QED BY <2>2, <2>3, <2>4, <2>5, <2>6
<1> DEFINE x == [at |-> pc, s |-> IF pc = "idle" THEN {} ELSE {s}]
<1>4. x \in ReaderRecord /\ x.at = pc /\ (pc = "idle" => x.s = {}) /\ (pc # "idle" => x.s = {s})
  BY DEF ReaderRecord
<1>5. reader' = [reader EXCEPT ![r] = x]  BY <1>3
<1> HIDE DEF x
<1>6. reader' \in [Reader -> ReaderRecord] /\ reader'[r] = x /\ \A q \in Reader \ {r} : reader'[q] = reader[q]
  BY <1>0, <1>4, <1>5 DEF SwitchTypes
<1>7. SwitchTypes'  BY <1>0, <1>1, <1>6 DEF SwitchTypes
<1>8. TokenInv'
  <2>1. \A t \in Switch : TokenOK(t)'  BY <1>0, <1>1, <1>2 DEF TokenInv, TokenOK
  <2>2. ReaderOK(r)'  BY <1>0, <1>2, <1>4, <1>6 DEF ReaderOK
  <2>3. \A q \in Reader \ {r} : ReaderOK(q)'  BY <1>0, <1>6 DEF TokenInv, ReaderOK
  <2> QED BY <2>1, <2>2, <2>3 DEF TokenInv
<1>9. MessageReachable'
  <2> SUFFICES ASSUME NEW t \in Switch, t \in linked, t \notin lost' \cup expired,
                      ~(t \in token' /\ t \in payload \cup purge)
               PROVE  \E q \in Reader : reader'[q].s = {t} /\ reader'[q].at \in {"body", "read"}
    BY <1>0 DEF MessageReachable
  <2>1. CASE t \in token /\ t \in payload \cup purge
    <3>1. t = s /\ pc = "body"  BY <1>1, <1>3, <2>1
    <3> QED BY <1>4, <1>6, <3>1
  <2>2. CASE ~(t \in token /\ t \in payload \cup purge)
    <3>1. PICK q \in Reader : reader[q].s = {t} /\ reader[q].at \in {"body", "read"}
      BY <1>0, <1>1, <2>2 DEF MessageReachable
    <3>2. CASE q = r
      <4>1. t = s /\ pc = "read"  BY <1>2, <1>3, <3>1, <3>2
      <4> QED BY <1>4, <1>6, <4>1
    <3>3. CASE q # r  BY <1>6, <3>1, <3>3
    <3> QED BY <3>2, <3>3
  <2> QED BY <2>1, <2>2
<1>10. SwitchOK(s)'
  <2>1. UNCHANGED <<row, overlap>>  BY <1>0 DEF contactVars
  <2> QED BY <1>0, <2>1 DEF SwitchOK, StatusOK, MakeOK, SentOK, EnvelopeFor
<1> QED BY <1>0, <1>7, <1>8, <1>9, <1>10, SwitchMoves

-----------------------------------------------------------------------------
(* The invariant, from the first state on                                   *)

\* The initial state has the inductive invariant.
LEMMA InitIInv == Init => IInv
<1> SUFFICES ASSUME Init PROVE IInv  OBVIOUS
<1>0. 0 \in 0..MaxInvites  BY InviteAssumption
<1>1. NoRow \in RowRecord /\ NoRow.status = "none"  BY <1>0 DEF NoRow, RowRecord
<1>2. tab \in [Tab -> TabRecord] /\ \A p \in Tab : tab[p].at = "open"
  BY <1>0 DEF Init, ContactsInit, TabRecord, TabSteps
<1>3. ContactTypes
  <2>1. [at |-> "ready", c |-> {}, invite |-> 0] \in CallRecord  BY <1>0 DEF CallRecord, CallSteps
  <2>2. row \in [Contact -> RowRecord]  BY <1>1 DEF Init, ContactsInit
  <2>3. call \in [Call -> CallRecord]  BY <2>1 DEF Init, ContactsInit
  <2> QED BY <1>0, <1>2, <2>2, <2>3 DEF Init, ContactsInit, ContactTypes
<1>4. \A c \in Contact : row[c].status = "none"  BY <1>1 DEF Init, ContactsInit
<1>5. ContactInv
  <2>1. \A p \in Tab : tab[p].c \in Contact  BY <1>2 DEF TabRecord
  <2>2. \A p \in Tab : PageOK(p)  BY <1>2, <1>4, <2>1 DEF PageOK, Exists
  <2>3. \A c \in Contact : BundleOK(c)  BY <1>4 DEF BundleOK
  <2> QED BY <1>3, <2>2, <2>3 DEF ContactInv
<1>6. Nobody \in SwitchRecord /\ Nobody.status = "none" /\ Nobody.c = {}
  BY DEF Nobody, SwitchRecord, Statuses
<1>7. [at |-> "ready", c |-> {}, envelope |-> None] \in MakeRecord  BY DEF MakeRecord, MakeSteps
<1>8. [at |-> "idle", s |-> {}] \in ReaderRecord  BY DEF ReaderRecord, ReadSteps
<1>9. SwitchTypes  BY <1>6, <1>7, <1>8 DEF Init, SwitchTypes, RunSteps
<1>10. \A s \in Switch : SwitchOK(s)
  BY <1>6 DEF Init, SwitchOK, StatusOK, MakeOK, SentOK
<1>11. TokenInv /\ MessageReachable  BY DEF Init, TokenInv, TokenOK, ReaderOK, MessageReachable
<1> QED BY <1>5, <1>9, <1>10, <1>11 DEF IInv, SwitchInv

\* Every step keeps it.
LEMMA NextIInv == ASSUME IInv, [Next]_vars PROVE IInv'
<1>1. CASE ContactsNext /\ UNCHANGED deliveryVars  BY <1>1, ContactsKeep, KeptKeeps DEF IInv
<1>2. CASE UNCHANGED vars
  <2>1. UNCHANGED <<row, issued, mailed, chal, tab, overlap, deliveryVars>> /\ call' = call
    BY <1>2 DEF vars, contactVars
  <2>2. call' \in [Call -> CallRecord]  BY <2>1 DEF IInv, ContactInv, ContactTypes
  <2> QED BY <2>1, <2>2, CallKeeps
<1> QED BY <1>1, <1>2, DeleteKeeps, MakeKeeps, StatusKeeps, RunKeeps, ReaderKeeps DEF Next

-----------------------------------------------------------------------------
(* The download token is a one-time ticket                                  *)

\* An abstract step, or none.
TNext == [Ticket!TicketNext]_<<TicketOf, UseOf>>

\* The ticket of each switch.
LEMMA TicketIs ==
  ASSUME NEW s \in Switch
  PROVE  /\ s \in token => TicketOf[s] = "issued"
         /\ s \in linked \cup expired /\ s \notin token => TicketOf[s] = "spent"
         /\ s \notin linked \cup expired /\ s \notin token => TicketOf[s] = "none"
BY DEF TicketOf

\* The same after a step.
LEMMA TicketIsNext ==
  ASSUME NEW s \in Switch
  PROVE  /\ s \in token' => TicketOf'[s] = "issued"
         /\ s \in (linked \cup expired)' /\ s \notin token' => TicketOf'[s] = "spent"
         /\ s \notin (linked \cup expired)' /\ s \notin token' => TicketOf'[s] = "none"
BY DEF TicketOf

\* What a page holds of a token.
LEMMA UseIs ==
  ASSUME NEW r \in Reader
  PROVE  /\ reader[r].at \in {"blob", "spend"} => UseOf[r] = [at |-> "accepted", t |-> reader[r].s]
         /\ reader[r].at = "body" => UseOf[r] = [at |-> "marked", t |-> reader[r].s]
         /\ reader[r].at = "read" => UseOf[r] = [at |-> "served", t |-> reader[r].s]
         /\ reader[r].at \in {"idle", "fetch"} => UseOf[r] = Ticket!Idle
BY DEF UseOf, Ticket!Idle

\* The same after a step.
LEMMA UseIsNext ==
  ASSUME NEW r \in Reader
  PROVE  /\ reader'[r].at \in {"blob", "spend"} => UseOf'[r] = [at |-> "accepted", t |-> reader'[r].s]
         /\ reader'[r].at = "body" => UseOf'[r] = [at |-> "marked", t |-> reader'[r].s]
         /\ reader'[r].at = "read" => UseOf'[r] = [at |-> "served", t |-> reader'[r].s]
         /\ reader'[r].at \in {"idle", "fetch"} => UseOf'[r] = Ticket!Idle
BY DEF UseOf, Ticket!Idle

\* Tokens and pages that stay change no ticket and no use.
LEMMA Stays == /\ UNCHANGED <<token, linked, expired>> => UNCHANGED TicketOf
               /\ UNCHANGED reader => UNCHANGED UseOf
BY DEF TicketOf, UseOf

\* A page that moves changes one use.
LEMMA UseMoves ==
  ASSUME NEW r \in Reader, NEW x, reader' = [reader EXCEPT ![r] = x], SwitchTypes
  PROVE  UseOf' = [UseOf EXCEPT ![r] = UseOf'[r]] /\ reader'[r] = x
<1>1. reader'[r] = x /\ \A q \in Reader \ {r} : reader'[q] = reader[q]  BY DEF SwitchTypes
<1>2. \A q \in Reader \ {r} : UseOf'[q] = UseOf[q]  BY <1>1 DEF UseOf
<1>3. DOMAIN UseOf = Reader /\ UseOf' = [q \in Reader |-> UseOf'[q]] /\ UseOf = [q \in Reader |-> UseOf[q]]
  BY DEF UseOf
<1> QED BY <1>1, <1>2, <1>3

\* A release issues a token, mails it to the contact or not, and the end of its seven days
\* withdraws it.
LEMMA TokenRefines ==
  ASSUME IInv, NEW s \in Switch, PutToken(s) \/ MailLink(s) \/ TokenExpires(s) PROVE TNext
<1>0. /\ UNCHANGED reader /\ TokenOK(s) /\ UNCHANGED UseOf
      /\ DOMAIN TicketOf = Switch /\ TicketOf = [t \in Switch |-> TicketOf[t]]
      /\ TicketOf' = [t \in Switch |-> TicketOf'[t]]
      /\ \A t \in Switch \ {s} : TicketOf'[t] = TicketOf[t]
  BY Stays DEF PutToken, MailLink, TokenExpires, IInv, TokenInv, TicketOf
<1>1. CASE TicketOf'[s] = TicketOf[s]
  <2>1. UNCHANGED TicketOf  BY <1>0, <1>1
  <2> QED BY <1>0, <2>1 DEF TNext
<1>2. CASE PutToken(s) /\ s \in token'
  <2>1. s \notin token \cup linked \cup expired  BY <1>0, <1>2 DEF PutToken, TokenOK
  <2>2. TicketOf[s] = "none" /\ TicketOf'[s] = "issued"  BY <1>2, <2>1, TicketIs, TicketIsNext
  <2>3. TicketOf' = [TicketOf EXCEPT ![s] = "issued"]  BY <1>0, <2>2
  <2>4. Ticket!Issue(s)  BY <1>0, <2>2, <2>3 DEF Ticket!Issue
  <2> QED BY <2>4 DEF TNext, Ticket!TicketNext
<1>3. CASE PutToken(s) /\ s \notin token'
  <2>1. TicketOf'[s] = TicketOf[s]  BY <1>3 DEF PutToken, TicketOf
  <2> QED BY <1>1, <2>1
<1>4. CASE MailLink(s)
  <2>1. s \in token \cup expired /\ UNCHANGED <<token, expired>>  BY <1>0, <1>4 DEF MailLink, TokenOK
  <2>2. TicketOf'[s] = TicketOf[s]  BY <2>1, TicketIs, TicketIsNext
  <2> QED BY <1>1, <2>2
<1>5. CASE TokenExpires(s)
  <2>1. s \in token /\ s \in expired' /\ s \notin token'  BY <1>5 DEF TokenExpires
  <2>2. TicketOf[s] = "issued" /\ TicketOf'[s] = "spent"  BY <2>1, TicketIs, TicketIsNext
  <2>3. TicketOf' = [t \in Switch |-> IF t \in {s} THEN "spent" ELSE TicketOf[t]]  BY <1>0, <2>2
  <2>4. Ticket!Withdraw({s})  BY <1>0, <2>2, <2>3 DEF Ticket!Withdraw
  <2> QED BY <2>4 DEF TNext, Ticket!TicketNext
<1> QED BY <1>2, <1>3, <1>4, <1>5

\* A page that fails leaves its ticket, or had none.
LEMMA FailRefines ==
  ASSUME IInv, NEW r \in Reader, ReaderFails(r), UNCHANGED <<token, linked, expired>> PROVE TNext
<1>0. SwitchTypes /\ reader[r].at \in ReadSteps  BY DEF IInv, SwitchInv, SwitchTypes, ReaderRecord
<1>1. UseOf' = [UseOf EXCEPT ![r] = UseOf'[r]] /\ reader'[r] = [at |-> "idle", s |-> {}]
  BY <1>0, UseMoves DEF ReaderFails
<1>2. UseOf'[r] = Ticket!Idle /\ UNCHANGED TicketOf
  <2>1. reader'[r].at = "idle"  BY <1>1
  <2> QED BY <2>1, UseIsNext, Stays
<1>3. CASE reader[r].at \in {"idle", "fetch"}
  <2>1. UseOf[r] = Ticket!Idle /\ UseOf = [q \in Reader |-> UseOf[q]]  BY <1>3, UseIs DEF UseOf
  <2>2. UNCHANGED UseOf  BY <1>1, <1>2, <2>1
  <2> QED BY <1>2, <2>2 DEF TNext
<1>4. CASE reader[r].at \in {"blob", "spend", "body", "read"}
  <2>1. UseOf[r].at # "idle"  BY <1>4 DEF UseOf
  <2>2. Ticket!Leave(r)  BY <1>1, <1>2, <2>1 DEF Ticket!Leave
  <2> QED BY <2>2 DEF TNext, Ticket!TicketNext
<1> QED BY <1>0, <1>3, <1>4 DEF ReadSteps

\* Every step of a page is a step of its use of the ticket, or none.
LEMMA ReaderRefines ==
  ASSUME IInv, NEW r \in Reader, NEW s \in Switch,
         Unlock(r, s) \/ ReadToken(r, s) \/ ReadBlob(r, s) \/ SpendToken(r, s) \/ Body(r, s)
  PROVE  TNext
<1>0. SwitchTypes /\ TokenInv /\ reader[r] \in ReaderRecord /\ UNCHANGED <<linked, expired>>
  BY DEF IInv, SwitchInv, SwitchTypes, Unlock, ReadToken, ReadBlob, SpendToken, Body
<1>1. UseOf = [q \in Reader |-> UseOf[q]] /\ DOMAIN UseOf = Reader  BY DEF UseOf
<1>2. ASSUME NEW pc \in ReadSteps, ReaderTo(r, pc)
      PROVE  /\ UseOf' = [UseOf EXCEPT ![r] = UseOf'[r]]
             /\ reader'[r].at = pc /\ reader'[r].s = reader[r].s
  <2>1. reader' = [reader EXCEPT ![r] = [reader[r] EXCEPT !.at = pc]]  BY <1>2 DEF ReaderTo
  <2>2. [reader[r] EXCEPT !.at = pc].at = pc /\ [reader[r] EXCEPT !.at = pc].s = reader[r].s
    BY <1>0 DEF ReaderRecord
  <2> QED BY <1>0, <2>1, <2>2, UseMoves
<1>3. CASE Unlock(r, s)
  <2>1. /\ UseOf' = [UseOf EXCEPT ![r] = UseOf'[r]] /\ reader'[r] = [at |-> "fetch", s |-> {s}]
        /\ reader[r].at = "idle" /\ UNCHANGED token
    BY <1>0, <1>3, UseMoves DEF Unlock
  <2>2. reader'[r].at = "fetch"  BY <2>1
  <2>3. UseOf'[r] = Ticket!Idle /\ UseOf[r] = Ticket!Idle  BY <2>1, <2>2, UseIs, UseIsNext
  <2>4. UNCHANGED UseOf  BY <1>1, <2>1, <2>3
  <2> QED BY <1>0, <2>1, <2>4, Stays DEF TNext
<1>4. CASE ReadToken(r, s) /\ s \in token
  <2>1. ReaderTo(r, "blob") /\ reader[r].at = "fetch" /\ reader[r].s = {s} /\ UNCHANGED token
    BY <1>4 DEF ReadToken, Reading
  <2>2. UseOf' = [UseOf EXCEPT ![r] = UseOf'[r]] /\ reader'[r].at = "blob" /\ reader'[r].s = {s}
    BY <1>2, <2>1 DEF ReadSteps
  <2>3. UseOf[r] = Ticket!Idle /\ UseOf'[r] = [at |-> "accepted", t |-> {s}]  BY <2>1, <2>2, UseIs, UseIsNext
  <2>4. Ticket!Accept(r, s)
    BY <1>0, <1>4, <2>1, <2>2, <2>3, Stays, TicketIs DEF Ticket!Accept, Ticket!Idle
  <2> QED BY <2>4 DEF TNext, Ticket!TicketNext
<1>5. CASE ReadBlob(r, s) /\ s \in payload
  <2>1. ReaderTo(r, "spend") /\ reader[r].at = "blob" /\ UNCHANGED token  BY <1>5 DEF ReadBlob, Reading
  <2>2. UseOf' = [UseOf EXCEPT ![r] = UseOf'[r]] /\ reader'[r].at = "spend" /\ reader'[r].s = reader[r].s
    BY <1>2, <2>1 DEF ReadSteps
  <2>3. UseOf'[r] = UseOf[r]  BY <1>1, <2>1, <2>2 DEF UseOf
  <2>4. UNCHANGED UseOf  BY <1>1, <2>2, <2>3
  <2> QED BY <1>0, <2>1, <2>4, Stays DEF TNext
<1>6. CASE SpendToken(r, s)
  <2>1. ReaderTo(r, "body") /\ reader[r].at = "spend" /\ reader[r].s = {s} /\ token' = token \ {s}
    BY <1>6 DEF SpendToken, Reading
  <2>2. UseOf' = [UseOf EXCEPT ![r] = UseOf'[r]] /\ reader'[r].at = "body" /\ reader'[r].s = {s}
    BY <1>2, <2>1 DEF ReadSteps
  <2>3. UseOf[r] = [at |-> "accepted", t |-> {s}] /\ UseOf'[r] = [at |-> "marked", t |-> {s}]
    BY <2>1, <2>2, UseIs, UseIsNext
  <2>4. UseOf' = [UseOf EXCEPT ![r].at = "marked"]  BY <1>1, <2>2, <2>3
  <2>5. s \in linked
    <3>1. PICK t \in linked : reader[r].s = {t}  BY <1>0, <2>1 DEF TokenInv, ReaderOK
    <3> QED BY <2>1, <3>1
  <2>6. TicketOf'[s] = "spent"  BY <1>0, <2>1, <2>5, TicketIsNext
  <2>7. \A t \in Switch \ {s} : TicketOf'[t] = TicketOf[t]  BY <1>0, <2>1 DEF TicketOf
  <2>8. DOMAIN TicketOf = Switch /\ TicketOf = [t \in Switch |-> TicketOf[t]]
        /\ TicketOf' = [t \in Switch |-> TicketOf'[t]]
    BY DEF TicketOf
  <2>9. TicketOf' = [TicketOf EXCEPT ![s] = "spent"]  BY <2>6, <2>7, <2>8
  <2>10. Ticket!Spend(r, s)  BY <2>3, <2>4, <2>9 DEF Ticket!Spend
  <2> QED BY <2>10 DEF TNext, Ticket!TicketNext
<1>7. CASE Body(r, s) /\ ReaderTo(r, "read")
  <2>1. reader[r].at = "body" /\ UNCHANGED token  BY <1>7 DEF Body, Reading
  <2>2. UseOf' = [UseOf EXCEPT ![r] = UseOf'[r]] /\ reader'[r].at = "read" /\ reader'[r].s = reader[r].s
    BY <1>2, <1>7 DEF ReadSteps
  <2>3. UseOf[r] = [at |-> "marked", t |-> reader[r].s] /\ UseOf'[r] = [at |-> "served", t |-> reader[r].s]
    BY <2>1, <2>2, UseIs, UseIsNext
  <2>4. UseOf' = [UseOf EXCEPT ![r].at = "served"]  BY <1>1, <2>2, <2>3
  <2>5. Ticket!Serve(r)  BY <1>0, <2>1, <2>3, <2>4, Stays DEF Ticket!Serve
  <2> QED BY <2>5 DEF TNext, Ticket!TicketNext
<1>8. CASE ReaderFails(r) /\ UNCHANGED token  BY <1>0, <1>8, FailRefines
<1> QED BY <1>3, <1>4, <1>5, <1>6, <1>7, <1>8 DEF ReadToken, ReadBlob, Body

\* Every step is a step of the ticket, or a stutter.
LEMMA NextRefines == ASSUME IInv, [Next]_vars PROVE TNext
<1>1. CASE UNCHANGED <<token, linked, expired, reader>>  BY <1>1, Stays DEF TNext
<1>2. \/ UNCHANGED <<token, linked, expired, reader>>
      \/ \E s \in Switch : \/ PutToken(s) \/ MailLink(s) \/ TokenExpires(s)
                           \/ \E r \in Reader : \/ Unlock(r, s) \/ ReadToken(r, s) \/ ReadBlob(r, s)
                                                \/ SpendToken(r, s) \/ Body(r, s)
  BY DEF Next, vars, deliveryVars, DeleteCount, Delete, FetchKey, CheckContact, PutPayload, InsertSwitch,
         ReleaseUpdate, PurgePayload, PurgeRow
<1> QED BY <1>1, <1>2, TokenRefines, ReaderRefines

\* The first state has no ticket and no use.
LEMMA InitRefines == Init => Ticket!TicketInit
BY DEF Init, Ticket!TicketInit, Ticket!Idle, TicketOf, UseOf

\* A ticket has its state and a use its two fields.
LEMMA TicketsAre ==
  /\ TicketOf = [t \in Switch |-> TicketOf[t]]
  /\ UseOf = [u \in Reader |-> UseOf[u]] /\ \A u \in Reader : UseOf[u] = [at |-> UseOf[u].at, t |-> UseOf[u].t]
BY DEF TicketOf, UseOf

\* What a step of the tickets keeps, whatever it is.
LEMMA TicketKeeps ==
  ASSUME TNext, Ticket!ServedWhenSpent
  PROVE  Ticket!ServedWhenSpent' /\ Ticket!SpentStays
<1> DEFINE k == TicketOf
           v == UseOf
           l == TicketOf'
           w == UseOf'
<1>1. /\ k = [t \in Switch |-> k[t]]
      /\ v = [u \in Reader |-> v[u]] /\ \A u \in Reader : v[u] = [at |-> v[u].at, t |-> v[u].t]
  BY TicketsAre
<1>2. \A u \in Reader, t \in Switch : v[u].at \in {"marked", "served"} /\ t \in v[u].t => k[t] = "spent"
  BY DEF Ticket!ServedWhenSpent
<1> DEFINE Fine ==
      /\ \A u \in Reader, t \in Switch : w[u].at \in {"marked", "served"} /\ t \in w[u].t => l[t] = "spent"
      /\ \A t \in Switch : k[t] = "spent" => l[t] = "spent" /\ \A u \in Reader : t \in w[u].t => t \in v[u].t
<1> SUFFICES Fine  BY DEF Ticket!ServedWhenSpent, Ticket!SpentStays
<1> HIDE DEF k, v, l, w
<1>3. CASE l = k /\ w = v  BY <1>2, <1>3
<1>4. ASSUME NEW t \in Switch, k[t] = "none", l = [k EXCEPT ![t] = "issued"], w = v PROVE Fine
  BY <1>1, <1>2, <1>4
<1>5. ASSUME NEW T \in SUBSET Switch, l = [t \in Switch |-> IF t \in T THEN "spent" ELSE k[t]], w = v PROVE Fine
  BY <1>1, <1>2, <1>5
<1>6. ASSUME NEW u \in Reader, NEW t \in Switch, k[t] = "issued", l = k,
             w = [v EXCEPT ![u] = [at |-> "accepted", t |-> {t}]]
      PROVE  Fine
  <2>1. w[u] = [at |-> "accepted", t |-> {t}] /\ \A d \in Reader \ {u} : w[d] = v[d]  BY <1>1, <1>6
  <2> QED BY <1>2, <1>6, <2>1
<1>7. ASSUME NEW u \in Reader, NEW t \in Switch, v[u] = [at |-> "accepted", t |-> {t}],
             w = [v EXCEPT ![u].at = "marked"], l = [k EXCEPT ![t] = "spent"]
      PROVE  Fine
  <2>1. w[u] = [at |-> "marked", t |-> {t}] /\ \A d \in Reader \ {u} : w[d] = v[d]  BY <1>1, <1>7
  <2>2. l[t] = "spent" /\ \A d \in Switch \ {t} : l[d] = k[d]  BY <1>1, <1>7
  <2> QED BY <1>2, <1>7, <2>1, <2>2
<1>8. ASSUME NEW u \in Reader, v[u].at = "marked", w = [v EXCEPT ![u].at = "served"], l = k PROVE Fine
  <2>1. w[u].at = "served" /\ w[u].t = v[u].t /\ \A d \in Reader \ {u} : w[d] = v[d]  BY <1>1, <1>8
  <2> QED BY <1>2, <1>8, <2>1
<1>9. ASSUME NEW u \in Reader, w = [v EXCEPT ![u] = [at |-> "idle", t |-> {}]], l = k PROVE Fine
  <2>1. w[u] = [at |-> "idle", t |-> {}] /\ \A d \in Reader \ {u} : w[d] = v[d]  BY <1>1, <1>9
  <2> QED BY <1>2, <1>9, <2>1
<1>10. \/ l = k /\ w = v
       \/ \E t \in Switch : k[t] = "none" /\ l = [k EXCEPT ![t] = "issued"] /\ w = v
       \/ \E T \in SUBSET Switch : l = [t \in Switch |-> IF t \in T THEN "spent" ELSE k[t]] /\ w = v
       \/ \E u \in Reader :
            \/ v[u].at = "marked" /\ w = [v EXCEPT ![u].at = "served"] /\ l = k
            \/ w = [v EXCEPT ![u] = [at |-> "idle", t |-> {}]] /\ l = k
            \/ \E t \in Switch :
                 \/ k[t] = "issued" /\ w = [v EXCEPT ![u] = [at |-> "accepted", t |-> {t}]] /\ l = k
                 \/ /\ v[u] = [at |-> "accepted", t |-> {t}] /\ w = [v EXCEPT ![u].at = "marked"]
                    /\ l = [k EXCEPT ![t] = "spent"]
  BY DEF TNext, Ticket!TicketNext, Ticket!Issue, Ticket!Withdraw, Ticket!Accept, Ticket!Spend, Ticket!Serve,
         Ticket!Leave, Ticket!Idle, k, v, l, w
<1> HIDE DEF Fine
<1> QED BY <1>3, <1>4, <1>5, <1>6, <1>7, <1>8, <1>9, <1>10

\* No use has a ticket at first.
LEMMA TicketBegins == Init => Ticket!ServedWhenSpent
<1>1. ASSUME Init PROVE \A u \in Reader : UseOf[u].at = "idle"
  BY <1>1 DEF Init, UseOf
<1> QED BY <1>1 DEF Ticket!ServedWhenSpent

-----------------------------------------------------------------------------
\* Theorem: the inductive invariant of the delivery holds in every reachable state.
THEOREM Invariance == Spec => []IInv
BY InitIInv, NextIInv, PTL DEF Spec

\* Theorem: every variable has its type in every reachable state.
THEOREM TypeCorrect == Spec => []TypeOK
<1>1. ASSUME IInv PROVE TypeOK
  <2>1. row \in [Contact -> [status : {"none", "invited", "enrolled", "gone"}, invite : 0..MaxInvites,
                             fresh : BOOLEAN, salt : Tab \cup {None}, credential : Tab \cup {None},
                             pub : Tab \cup {None},
                             wrapped : {WrapPrivkey(p, Prf(p, q)) : p, q \in Tab} \cup {None}]]
    BY <1>1 DEF IInv, ContactInv, ContactTypes, RowRecord, Wrapped
  <2>2. \A s \in Switch : /\ sw[s].status \in {"none", "armed", "released", "user_purged"}
                          /\ sw[s].c \subseteq Contact
                          /\ sw[s].envelope # None => sw[s].envelope.under \in Tab
    <3>1. \A s \in Switch : sw[s] \in SwitchRecord  BY <1>1 DEF IInv, SwitchInv, SwitchTypes
    <3> QED BY <3>1 DEF SwitchRecord, Statuses, Sealed
  <2>3. /\ reader \in [Reader -> [at : {"idle", "fetch", "blob", "spend", "body", "read"}, s : SUBSET Switch]]
        /\ run \in [Switch -> {"idle", "token", "mail", "over"}]
    BY <1>1 DEF IInv, SwitchInv, SwitchTypes, ReaderRecord, ReadSteps, RunSteps
  <2>4. /\ issued \in [Contact -> 0..MaxInvites] /\ mailed \in [Contact -> SUBSET (0..MaxInvites)]
        /\ chal \in [Contact -> Tab \cup {None}] /\ overlap \subseteq Contact
        /\ payload \cup token \cup linked \cup purge \cup lost \cup expired \subseteq Switch
    BY <1>1 DEF IInv, ContactInv, ContactTypes, SwitchInv, SwitchTypes
  <2> QED BY <2>1, <2>2, <2>3, <2>4 DEF TypeOK
<1> QED BY <1>1, Invariance, PTL

\* Theorem: once a contact is enrolled no step replaces its key pair or its
\* salt, unless two of its begins or of its finishes were in flight at once:
\* an enrolled contact refuses every token, and a salt is only ever written
\* where there was none (recipient_enroll.ts:57, 177-182).
THEOREM KeysAreFinal == Spec => KeyFinal
<1> DEFINE Kept2 == \A c \in Contact :
             row[c].status = "enrolled" /\ row'[c].status = "enrolled" /\ c \notin overlap'
               => row'[c].wrapped = row[c].wrapped /\ row'[c].pub = row[c].pub /\ row'[c].salt = row[c].salt
<1>1. ASSUME IInv, [Next]_vars PROVE [Kept2]_vars
  <2>1. CASE ContactsNext
    <3>1. AllKept  BY <1>1, <2>1, ContactsKeep DEF IInv
    <3> QED BY <3>1 DEF AllKept, Kept
  <2>2. ASSUME NEW k \in Call, NEW d \in Contact, DeleteCount(k, d) \/ Delete(k, d) PROVE Kept2
    <3>1. CASE UNCHANGED row  BY <3>1
    <3>2. CASE row' = [row EXCEPT ![d] = [NoRow EXCEPT !.status = "gone"]]
      <4>1. [NoRow EXCEPT !.status = "gone"].status = "gone"  BY DEF NoRow
      <4>2. row \in [Contact -> RowRecord]  BY <1>1 DEF IInv, ContactInv, ContactTypes
      <4>3. row'[d].status = "gone" /\ \A c \in Contact \ {d} : row'[c] = row[c]  BY <3>2, <4>1, <4>2
      <4> QED BY <4>3
    <3> QED BY <2>2, <3>1, <3>2 DEF DeleteCount, Delete
  <2>3. CASE UNCHANGED row  BY <2>3
  <2>4. \/ ContactsNext \/ UNCHANGED vars \/ UNCHANGED row
        \/ \E k \in Call, d \in Contact : DeleteCount(k, d) \/ Delete(k, d)
    <3>1. CASE \E s \in Switch : \E r \in Reader : \/ Unlock(r, s) \/ ReadToken(r, s) \/ ReadBlob(r, s)
                                               \/ SpendToken(r, s) \/ Body(r, s)
      <4>1. UNCHANGED contactVars
        BY <3>1 DEF Unlock, ReadToken, ReadBlob, SpendToken, Body
      <4> QED BY <4>1 DEF contactVars
    <3>2. CASE \E s \in Switch : \/ ReleaseUpdate(s) \/ PutToken(s) \/ MailLink(s)
                                 \/ PurgePayload(s) \/ PurgeRow(s) \/ TokenExpires(s)
                                 \/ \E c \in Contact : \/ FetchKey(s, c) \/ CheckContact(s, c)
                                                       \/ PutPayload(s, c) \/ InsertSwitch(s, c)
      <4>1. UNCHANGED contactVars
        BY <3>2 DEF ReleaseUpdate, PutToken, MailLink, PurgePayload, PurgeRow, TokenExpires, FetchKey, CheckContact, PutPayload, InsertSwitch
      <4> QED BY <4>1 DEF contactVars
    <3> QED BY <1>1, <3>1, <3>2 DEF Next
  <2> QED BY <2>1, <2>2, <2>3, <2>4
<1> QED BY <1>1, Invariance, PTL DEF Spec, KeyFinal

\* Theorem: the contact of an armed or a released switch opens the envelope it
\* was sent with the bundle that the server has for it, under the proviso of
\* KeysAreFinal: whatever was deleted, re-invited or enrolled meanwhile.
THEOREM EnvelopesOpen == Spec => []EnvelopeOpens
<1>1. ASSUME IInv, NEW s \in Switch, NEW c \in sw[s].c, c \notin overlap PROVE Opens(s, c)
  <2>1. c \in Contact  BY <1>1 DEF IInv, SwitchInv, SwitchTypes, SwitchRecord
  <2>2. row[c].status = "enrolled" /\ sw[s].envelope = EnvelopeFor(s, c)
    BY <1>1 DEF IInv, SwitchInv, SwitchOK, SentOK
  <2>3. row[c].credential = row[c].pub /\ row[c].wrapped = WrapPrivkey(row[c].pub, Prf(row[c].pub, row[c].salt))
    BY <1>1, <2>1, <2>2 DEF IInv, ContactInv, BundleOK
  <2>4. UnwrapPrivkey(row[c].wrapped, Prf(row[c].credential, row[c].salt)) = row[c].pub
    BY <2>3 DEF UnwrapPrivkey, WrapPrivkey
  <2>5. EciesDecrypt(sw[s].envelope, row[c].pub) = SplitKey(Key[s], ShareA[s]).shareB
    BY <2>2 DEF EnvelopeFor, EciesEncrypt, EciesDecrypt
  <2>6. BundleKey(s, c) = Key[s]  BY <2>4, <2>5, SharesCombine DEF BundleKey
  <2> QED BY <2>2, <2>6 DEF Opens, EncryptPayload, DecryptPayload
<1>2. IInv => EnvelopeOpens  BY <1>1 DEF EnvelopeOpens
<1> QED BY <1>2, Invariance, PTL

\* Theorem: whoever was mailed a link has a good token and a ciphertext to fetch with it,
\* or a page was served it, unless a body was lost, the seven days are over or the owner had
\* it destroyed; and this wherever a release stops (SwitchTimer.ts:103-197: the token is put
\* before the link is mailed; switches.ts:103-115: the ciphertext is put before the row;
\* release.ts:23-51: it is fetched before the token is spent).
THEOREM MessagesReachable == Spec => []MessageReachable
<1>1. IInv => MessageReachable  BY DEF IInv
<1> QED BY <1>1, Invariance, PTL

\* Of two PINs that differ, whatever they are, each does its own, in either slot, and no
\* other does anything; what was sealed for one switch says nothing of another's PINs.
LEMMA PinsMean ==
  ASSUME NEW defuse, NEW duress, defuse # duress, NEW pin, NEW flip \in BOOLEAN
  PROVE  LET set == PinSlots(defuse, duress, flip, "id") IN
         /\ Meaning(pin, set, "id") = CASE pin = defuse -> "defuse" [] pin = duress -> "duress"
                                        [] OTHER -> "wrong"
         /\ Meaning(pin, set, "other") \in {"wrong", "error"}
<1>1. None # 1 /\ None # 2  BY ValueAssumption
<1> DEFINE d == HashPin(defuse, 1)
           u == HashPin(duress, 2)
           set == PinSlots(defuse, duress, flip, "id")
           slot == IF VerifyPin(pin, set.hashes[1]) THEN 1
                   ELSE IF VerifyPin(pin, set.hashes[2]) THEN 2 ELSE None
           own == AeadDecrypt(set.duressSlot, "id")
<1>2. /\ set.hashes = (IF flip THEN <<u, d>> ELSE <<d, u>>)
      /\ set.duressSlot = AeadEncrypt(IF flip THEN 1 ELSE 2, "id")
  BY DEF PinSlots
<1>3. own = (IF flip THEN 1 ELSE 2) /\ AeadDecrypt(set.duressSlot, "other") = None
  BY <1>2 DEF AeadEncrypt, AeadDecrypt
<1>4. VerifyPin(pin, d) = (defuse = pin) /\ VerifyPin(pin, u) = (duress = pin)
  BY DEF VerifyPin, HashPin
<1> HIDE DEF d, u
<1>5. /\ VerifyPin(pin, set.hashes[1]) = IF flip THEN duress = pin ELSE defuse = pin
      /\ VerifyPin(pin, set.hashes[2]) = IF flip THEN defuse = pin ELSE duress = pin
  <2>1. CASE flip
    <3>1. set.hashes = <<u, d>>  BY <1>2, <2>1
    <3>2. set.hashes[1] = u /\ set.hashes[2] = d  BY <3>1
    <3> QED BY <1>4, <2>1, <3>2
  <2>2. CASE ~flip
    <3>1. set.hashes = <<d, u>>  BY <1>2, <2>2
    <3>2. set.hashes[1] = d /\ set.hashes[2] = u  BY <3>1
    <3> QED BY <1>4, <2>2, <3>2
  <2> QED BY <2>1, <2>2
<1>6. /\ slot = None <=> pin \notin {defuse, duress}
      /\ slot = own <=> pin = duress
  BY <1>1, <1>3, <1>5
<1>7. /\ Meaning(pin, set, "id") = CASE slot = None                -> "wrong"
                                     [] slot # None /\ own = None  -> "error"
                                     [] slot # None /\ slot = own  -> "duress"
                                     [] OTHER                      -> "defuse"
      /\ Meaning(pin, set, "other") \in {"wrong", "error"}
  <2>1. AeadDecrypt(set.duressSlot, "other") = None  BY <1>3
  <2> HIDE DEF set
  <2> QED BY <2>1 DEF Meaning
<1> HIDE DEF slot, own, set
<1>8. own # None  BY <1>1, <1>3
<1> QED BY <1>6, <1>7, <1>8 DEF set

\* Theorem: of two PINs that differ each does its own, whichever slot it fell
\* in, and nothing else does anything (switches.ts:92-98, checkins.ts:84-98).
THEOREM PinsAreTold == Spec => []PinsDistinguished
<1>1. PinsTold  BY PinsMean DEF PinsTold
<1>2. PinsDistinguished  BY <1>1 DEF PinsDistinguished
<1> QED BY <1>2, PTL

\* Theorem: the release endpoint, with its look-up, its fetch of the ciphertext,
\* its delete of the token, and the losses and the expiry around them, implements
\* OneTimeTicket: no download begins with a token that is spent, and nothing is
\* sent before it is.
THEOREM DownloadsAreTickets == Spec => DownloadIsTicket
<1>1. IInv /\ [Next]_vars => TNext  BY NextRefines
<1> QED BY <1>1, InitRefines, Invariance, PTL DEF Spec, DownloadIsTicket, Ticket!TicketSpec, TNext

\* Theorem: nothing is sent before its token is taken out of the store; and a token that
\* was taken, or has expired, is never good again and lets no page in that was not let in
\* before (release.ts:26-49): OneTimeTicket says what a reader of it expects.
THEOREM SpentTokensAdmitNobody == Spec => []Ticket!ServedWhenSpent /\ Ticket!SpentForGood
<1>1. IInv /\ [Next]_vars => TNext  BY NextRefines
<1>2. TNext /\ Ticket!ServedWhenSpent => Ticket!ServedWhenSpent'  BY TicketKeeps
<1>3. TNext /\ Ticket!ServedWhenSpent => [Ticket!SpentStays]_<<TicketOf, UseOf>>  BY TicketKeeps
<1> QED BY <1>1, <1>2, <1>3, TicketBegins, Invariance, PTL DEF Spec, Ticket!SpentForGood

\* Theorem: a half of a key tells nothing of it: whatever the half that is held, any key can be
\* the one that was split, by exactly one draw of share A or with exactly one share B
\* (app.js:67-78; "Neither half decrypts on its own", README.md:35).
THEOREM HalvesTellNothing ==
  ASSUME NEW K \in [Bits -> BOOLEAN], NEW half \in [Bits -> BOOLEAN]
  PROVE  /\ \E a \in [Bits -> BOOLEAN] :
              \A draw \in [Bits -> BOOLEAN] : SplitKey(K, draw).shareB = half <=> draw = a
         /\ \E b \in [Bits -> BOOLEAN] :
              \A other \in [Bits -> BOOLEAN] : CombineShares(half, other) = K <=> other = b
<1> DEFINE x == [i \in Bits |-> K[i] # half[i]]
<1>1. x \in [Bits -> BOOLEAN] /\ \A i \in Bits : x[i] = (K[i] # half[i])  OBVIOUS
<1> HIDE DEF x
<1>2. ASSUME NEW y \in [Bits -> BOOLEAN] PROVE Xor(K, y) = half <=> y = x
  <2>1. Xor(K, y) = [i \in Bits |-> K[i] # y[i]]  BY DEF Xor
  <2>2. Xor(K, y) = half <=> \A i \in Bits : (K[i] # y[i]) = half[i]  BY <2>1
  <2>3. y = x <=> \A i \in Bits : y[i] = x[i]  BY <1>1
  <2>4. ASSUME NEW i \in Bits PROVE (K[i] # y[i]) = half[i] <=> y[i] = x[i]
    <3>1. K[i] \in BOOLEAN /\ y[i] \in BOOLEAN /\ half[i] \in BOOLEAN /\ x[i] = (K[i] # half[i])  BY <1>1
    <3> QED BY <3>1
  <2> QED BY <2>2, <2>3, <2>4
<1>3. ASSUME NEW y \in [Bits -> BOOLEAN] PROVE Xor(half, y) = K <=> y = x
  <2>1. Xor(half, y) = [i \in Bits |-> half[i] # y[i]]  BY DEF Xor
  <2>2. Xor(half, y) = K <=> \A i \in Bits : (half[i] # y[i]) = K[i]  BY <2>1
  <2>3. y = x <=> \A i \in Bits : y[i] = x[i]  BY <1>1
  <2>4. ASSUME NEW i \in Bits PROVE (half[i] # y[i]) = K[i] <=> y[i] = x[i]
    <3>1. K[i] \in BOOLEAN /\ y[i] \in BOOLEAN /\ half[i] \in BOOLEAN /\ x[i] = (K[i] # half[i])  BY <1>1
    <3> QED BY <3>1
  <2> QED BY <2>2, <2>3, <2>4
<1>4. \A draw \in [Bits -> BOOLEAN] : SplitKey(K, draw).shareB = half <=> draw = x  BY <1>2 DEF SplitKey
<1>5. \A other \in [Bits -> BOOLEAN] : CombineShares(half, other) = K <=> other = x
  BY <1>3, ValueAssumption DEF CombineShares
<1> QED BY <1>1, <1>4, <1>5
=============================================================================
