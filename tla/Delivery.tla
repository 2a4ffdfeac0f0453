------------------------------ MODULE Delivery ------------------------------
(***************************************************************************)
(* A message to a contact, end to end: the owner's page encrypts share B   *)
(* for the public key of an enrolled contact and creates an armed switch   *)
(* (create.html, POST /api/switches), the switch is released or destroyed, *)
(* and the contact's page unwraps its private key and downloads the        *)
(* ciphertext with the one-time token (decrypt.html, routes/release.ts).   *)
(* When a switch comes to be released is SwitchLifecycle's; from the       *)
(* UPDATE on, a release that fails or dies is not made again, and here it  *)
(* may do so before and after each of its calls.  Any other call that      *)
(* throws may be made again; a body that is cut off on its way costs one   *)
(* of MaxFaults faults.                                                    *)
(***************************************************************************)
EXTENDS Contacts, FiniteSets

CONSTANTS
  Switch,     \* switches the owner may create for contacts
  Reader,     \* pages open at decrypt.html
  Bits,       \* the bits of a key (256)
  Key,        \* the random key that each switch's message is encrypted with
  ShareA,     \* the random half that is kept by the server
  MaxFaults   \* bound: bodies that are lost on their way

ASSUME KeyAssumption   == Key \in [Switch -> [Bits -> BOOLEAN]] /\ ShareA \in [Switch -> [Bits -> BOOLEAN]]
ASSUME FaultAssumption == MaxFaults \in Nat
ASSUME ValueAssumption == None \notin Int /\ None \notin [Bits -> BOOLEAN]   \* null is no slot and no share

VARIABLES
  sw,        \* D1: switches.status, account_recipient_id and encrypted_share_b_json
  make,      \* progress of the page that creates each switch
  payload,   \* R2: the switches with a ciphertext
  run,       \* progress of the release of each switch
  token,     \* KV release-token:<id>: the switches with one
  linked,    \* the switches whose contact was mailed a link
  purge,     \* switches whose ciphertext the owner's DELETE has removed
  reader,    \* progress of every reading page
  lost,      \* history: switches whose ciphertext was cut off on its way
  expired    \* history: switches whose token came to the end of its seven days

deliveryVars == <<sw, make, run, payload, token, linked, purge, reader, lost, expired>>
vars == <<contactVars, deliveryVars>>

Nobody == [status |-> "none", c |-> {}, envelope |-> None]
Active == {"armed"}
Final  == {"released", "user_purged"}

Init ==
  /\ ContactsInit
  /\ sw = [s \in Switch |-> Nobody]
  /\ make = [s \in Switch |-> [at |-> "ready", c |-> {}, envelope |-> None]]
  /\ run = [s \in Switch |-> "idle"]
  /\ payload = {} /\ token = {} /\ linked = {} /\ purge = {} /\ lost = {} /\ expired = {}
  /\ reader = [r \in Reader |-> [at |-> "idle", s |-> {}]]

-----------------------------------------------------------------------------
(* DELETE /api/account/recipients/:id                                        *)

Refer(c, statuses) == {s \in Switch : sw[s].c = {c} /\ sw[s].status \in statuses}

DeleteCount(k, c) ==
  /\ call[k].at = "ready" /\ row[c].status # "none"
  /\ OwnerTo(k, IF Refer(c, Active) = {} THEN "delete" ELSE "done", c, 0)
  /\ UNCHANGED <<row, issued, mailed, chal, tab, overlap, deliveryVars>>

\* The statement fails as long as any switches row, whatever its status, has
\* the contact as its account_recipient_id (REFERENCES, with no ON DELETE).
Delete(k, c) ==
  /\ OwnerAt(k, "delete", c)
  /\ IF Refer(c, Active \cup Final) = {}
     THEN /\ row' = [row EXCEPT ![c] = [NoRow EXCEPT !.status = "gone"]]
          /\ OwnerTo(k, "done", c, 0)
     ELSE UNCHANGED row /\ OwnerTo(k, "failed", c, 0)
  /\ UNCHANGED <<issued, mailed, chal, tab, overlap, deliveryVars>>

-----------------------------------------------------------------------------
(* The owner's page and POST /api/switches with an accountRecipientId.       *)

MakeTo(s, pc) == make' = [make EXCEPT ![s].at = pc]
MakingFor(s, pc, c) == make[s].at = pc /\ make[s].c = {c}

\* GET /:id/pubkey of an enrolled contact; share B is encrypted to that key.
FetchKey(s, c) ==
  /\ make[s].at = "ready" /\ row[c].status = "enrolled"
  /\ make' = [make EXCEPT ![s] =
       [at |-> "encrypted", c |-> {c},
        envelope |-> EciesEncrypt(SplitKey(Key[s], ShareA[s]).shareB, row[c].pub)]]
  /\ UNCHANGED <<contactVars, sw, run, payload, token, linked, purge, reader, lost, expired>>

CheckContact(s, c) ==
  /\ MakingFor(s, "encrypted", c)
  /\ MakeTo(s, IF row[c].status = "enrolled" THEN "put" ELSE "failed")
  /\ UNCHANGED <<contactVars, sw, run, payload, token, linked, purge, reader, lost, expired>>

PutPayload(s, c) ==
  /\ MakingFor(s, "put", c) /\ MakeTo(s, "insert")
  /\ payload' = payload \cup {s}
  /\ UNCHANGED <<contactVars, sw, run, token, linked, purge, reader, lost, expired>>

\* The INSERT fails when the contact has gone: its ciphertext stays in R2.
InsertSwitch(s, c) ==
  /\ MakingFor(s, "insert", c)
  /\ IF Exists(c)
     THEN /\ sw' = [sw EXCEPT ![s] = [status |-> "armed", c |-> {c}, envelope |-> make[s].envelope]]
          /\ MakeTo(s, "made")
     ELSE UNCHANGED sw /\ MakeTo(s, "failed")
  /\ UNCHANGED <<contactVars, run, payload, token, linked, purge, reader, lost, expired>>

-----------------------------------------------------------------------------
(* SwitchTimer.release(), once its SELECT has found the switch armed and     *)
(* expired, and DELETE /api/switches/:id.                                    *)

RunTo(s, pc) == run' = [run EXCEPT ![s] = pc]

\* The conditional UPDATE.
ReleaseUpdate(s) ==
  /\ sw[s].status = "armed" /\ sw' = [sw EXCEPT ![s].status = "released"] /\ RunTo(s, "token")
  /\ UNCHANGED <<contactVars, make, payload, token, linked, purge, reader, lost, expired>>

\* With a bug: the put is not awaited, and the link is mailed whatever comes of it.
PutTokenUnawaited(s) ==
  /\ run[s] = "token" /\ RunTo(s, "mail") /\ token' \in {token, token \cup {s}}
  /\ UNCHANGED <<contactVars, sw, make, payload, linked, purge, reader, lost, expired>>

\* The run may throw, or its isolate die, before the put and after it.
PutToken(s) ==
  /\ run[s] = "token"
  /\ \/ RunTo(s, "mail") /\ token' = token \cup {s}
     \/ RunTo(s, "over") /\ token' \in {token, token \cup {s}}
  /\ UNCHANGED <<contactVars, sw, make, payload, linked, purge, reader, lost, expired>>

\* A mail that fails is logged, and no more is done about it.
MailLink(s) ==
  /\ run[s] = "mail" /\ RunTo(s, "over") /\ linked' \in {linked, linked \cup {s}}
  /\ UNCHANGED <<contactVars, sw, make, payload, token, purge, reader, lost, expired>>

\* A DELETE in flight may find the switch released by the time it writes.
PurgePayload(s) ==
  /\ sw[s].status # "none" /\ s \notin purge
  /\ payload' = payload \ {s} /\ purge' = purge \cup {s}
  /\ UNCHANGED <<contactVars, sw, make, run, token, linked, reader, lost, expired>>

\* With a bug: a status that the CHECK of the column does not list.
PurgeRowUnknown(s) ==
  /\ s \in purge /\ sw[s].status # "user_purged"
  /\ sw' = [sw EXCEPT ![s].status = "purged"]
  /\ UNCHANGED <<contactVars, make, run, payload, token, linked, purge, reader, lost, expired>>

PurgeRow(s) ==
  /\ s \in purge /\ sw[s].status # "user_purged"
  /\ sw' = [sw EXCEPT ![s].status = "user_purged"]
  /\ UNCHANGED <<contactVars, make, run, payload, token, linked, purge, reader, lost, expired>>

TokenExpires(s) ==
  /\ s \in token /\ token' = token \ {s} /\ expired' = expired \cup {s}
  /\ UNCHANGED <<contactVars, sw, make, run, payload, linked, purge, reader, lost>>

-----------------------------------------------------------------------------
(* decrypt.html and GET /api/release/:id/payload.                            *)

Reading(r, pc, s) == reader[r] = [at |-> pc, s |-> {s}]
ReaderTo(r, pc)   == reader' = [reader EXCEPT ![r].at = pc]
ReaderFails(r)    == reader' = [reader EXCEPT ![r] = [at |-> "idle", s |-> {}]]

\* With a bug: the salt of the bundle is not the one of the enrollment.
BundleKeyUnsalted(s, c) ==
  LET privkey == UnwrapPrivkey(row[c].wrapped, Prf(row[c].credential, None))
  IN  CombineShares(ShareA[s], EciesDecrypt(sw[s].envelope, privkey))

\* The key that the page makes of the contact's bundle and of the link.
BundleKey(s, c) ==
  LET prf     == Prf(row[c].credential, row[c].salt)
      privkey == UnwrapPrivkey(row[c].wrapped, prf)
  IN  CombineShares(ShareA[s], EciesDecrypt(sw[s].envelope, privkey))

\* The page shows the message that the owner's page encrypted.
Opens(s, c) == /\ row[c].status = "enrolled"
               /\ DecryptPayload(EncryptPayload(s, Key[s]), BundleKey(s, c)) = s

\* GET /:id/decrypt-bundle, the PRF, the private key, share B: all before the
\* download.  The page that fails offers its button again.
Unlock(r, s) ==
  /\ reader[r].at = "idle" /\ s \in linked /\ \E c \in sw[s].c : Opens(s, c)
  /\ reader' = [reader EXCEPT ![r] = [at |-> "fetch", s |-> {s}]]
  /\ UNCHANGED <<contactVars, sw, make, run, payload, token, linked, purge, lost, expired>>

\* With a bug: the token is not looked up again for the second page.
ReadTokenMailed(r, s) ==
  /\ Reading(r, "fetch", s) /\ ReaderTo(r, "blob")
  /\ UNCHANGED <<contactVars, sw, make, run, payload, token, linked, purge, lost, expired>>

ReadToken(r, s) ==
  /\ Reading(r, "fetch", s)
  /\ IF s \in token THEN ReaderTo(r, "blob") ELSE ReaderFails(r)
  /\ UNCHANGED <<contactVars, sw, make, run, payload, token, linked, purge, lost, expired>>

ReadBlob(r, s) ==
  /\ Reading(r, "blob", s)
  /\ IF s \in payload THEN ReaderTo(r, "spend") ELSE ReaderFails(r)
  /\ UNCHANGED <<contactVars, sw, make, run, payload, token, linked, purge, lost, expired>>

SpendToken(r, s) ==
  /\ Reading(r, "spend", s) /\ ReaderTo(r, "body") /\ token' = token \ {s}
  /\ UNCHANGED <<contactVars, sw, make, run, payload, linked, purge, lost, expired>>

Body(r, s) ==
  /\ Reading(r, "body", s)
  /\ \/ ReaderTo(r, "read") /\ UNCHANGED lost
     \/ Cardinality(lost) < MaxFaults /\ lost' = lost \cup {s} /\ ReaderFails(r)
  /\ UNCHANGED <<contactVars, sw, make, run, payload, token, linked, purge, expired>>

Next ==
  \/ ContactsNext /\ UNCHANGED deliveryVars
  \/ \E k \in Call, c \in Contact : DeleteCount(k, c) \/ Delete(k, c)
  \/ \E s \in Switch :
       \/ \E c \in Contact : FetchKey(s, c) \/ CheckContact(s, c) \/ PutPayload(s, c)
                             \/ InsertSwitch(s, c)
       \/ ReleaseUpdate(s) \/ PutToken(s) \/ MailLink(s)
       \/ PurgePayload(s) \/ PurgeRow(s) \/ TokenExpires(s)
       \/ \E r \in Reader : Unlock(r, s) \/ ReadToken(r, s) \/ ReadBlob(r, s)
                            \/ SpendToken(r, s) \/ Body(r, s)

Spec == Init /\ [][Next]_vars
-----------------------------------------------------------------------------
TypeOK ==
  /\ row \in [Contact -> [status : {"none", "invited", "enrolled", "gone"}, invite : 0..MaxInvites,
                          fresh : BOOLEAN, salt : Tab \cup {None}, credential : Tab \cup {None},
                          pub : Tab \cup {None},
                          wrapped : {WrapPrivkey(p, Prf(p, q)) : p, q \in Tab} \cup {None}]]
  /\ issued \in [Contact -> 0..MaxInvites] /\ mailed \in [Contact -> SUBSET (0..MaxInvites)]
  /\ chal \in [Contact -> Tab \cup {None}] /\ overlap \subseteq Contact
  /\ \A s \in Switch : /\ sw[s].status \in {"none", "armed", "released", "user_purged"}
                       /\ sw[s].c \subseteq Contact
                       /\ sw[s].envelope # None => sw[s].envelope.under \in Tab
  /\ run \in [Switch -> {"idle", "token", "mail", "over"}]
  /\ payload \cup token \cup linked \cup purge \cup lost \cup expired \subseteq Switch
  /\ reader \in [Reader -> [at : {"idle", "fetch", "blob", "spend", "body", "read"},
                           s : SUBSET Switch]]

\* Once a contact is enrolled, its key pair and its salt are the ones every
\* envelope is made for: no later page of the same contact replaces them,
\* unless two of its begins or of its finishes were in flight at once
\* (recipient_enroll.ts:57, 177-182).
KeyFinal ==
  [][\A c \in Contact :
       row[c].status = "enrolled" /\ row'[c].status = "enrolled" /\ c \notin overlap'
         => row'[c].wrapped = row[c].wrapped /\ row'[c].pub = row[c].pub
            /\ row'[c].salt = row[c].salt]_vars

\* The contact of an armed or a released switch can open the envelope it was
\* sent, with the bundle the server gives it now (decrypt.html), under the same
\* proviso: no delete, re-invitation or other page makes the message unreadable.
EnvelopeOpens ==
  \A s \in Switch : sw[s].status \in {"armed", "released"} =>
    \A c \in sw[s].c : c \in overlap \/ Opens(s, c)

\* Whoever was mailed a link can still get the message with it: the token is
\* there and so is the ciphertext, unless the owner had it destroyed, or a page
\* has the ciphertext or is being sent it.  This whatever step of the release,
\* of a download or of the owner's page fails (SwitchTimer.ts:103-197,
\* switches.ts:82-115, release.ts:23-51).
MessageReachable ==
  \A s \in Switch : s \in linked /\ s \notin lost \cup expired =>
    \/ s \in token /\ s \in payload \cup purge
    \/ \E r \in Reader : reader[r].s = {s} /\ reader[r].at \in {"body", "read"}

\* The owner of an armed switch has a PIN that defuses it and one that destroys
\* it, whichever slot each fell in, and no other PIN and no other switch's does
\* anything (switches.ts:92-98, checkins.ts:84-98).
PinsDistinguished == \A s \in Switch : sw[s].status = "armed" => PinsTold

\* The token of a switch as a ticket, and a reading page as its use: it holds
\* the ticket from the look-up that finds the token until the page fails.
TicketOf == [s \in Switch |-> CASE s \in token                        -> "issued"
                               [] s \in (linked \cup expired) \ token -> "spent"
                               [] OTHER                              -> "none"]
UseOf == [r \in Reader |->
            CASE reader[r].at \in {"blob", "spend"} -> [at |-> "accepted", t |-> reader[r].s]
              [] reader[r].at = "body"              -> [at |-> "marked", t |-> reader[r].s]
              [] reader[r].at = "read"              -> [at |-> "served", t |-> reader[r].s]
              [] OTHER                              -> [at |-> "idle", t |-> {}]]

\* The download token is a one-time ticket in the sense of OneTimeTicket.
Ticket == INSTANCE OneTimeTicket WITH
  Ticket <- Switch, Use <- Reader, ticket <- TicketOf, use <- UseOf
DownloadIsTicket == Ticket!TicketSpec
=============================================================================
