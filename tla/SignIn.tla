------------------------------- MODULE SignIn -------------------------------
(***************************************************************************)
(* How the owner signs in and out: magic links, passkeys and the sessions  *)
(* in KV (routes/auth.ts, middleware.ts, account.ts, lib/session.ts), and  *)
(* the pages of the browsers that hold them (app.js, signin.html,          *)
(* dashboard.html, settings.html).  There is one email address; an account *)
(* deleted and made again is a new users row, with a number of its own.    *)
(*                                                                         *)
(* A browser does one thing at a time, one action per awaited call.  When  *)
(* a call is refused or throws, the page says so and is idle again; a page *)
(* whose load fails, by anything but a 401, stays with the session it has. *)
(***************************************************************************)
EXTENDS Integers

CONSTANTS
  Browser,
  Link,       \* rows of magic_tokens, and the links mailed
  Session,    \* keys s:<token>, each drawn once
  Key,        \* passkeys the owner's authenticators may make
  None,       \* no link, no session, no key, no challenge
  MaxUsers    \* bound: users rows made for the address

ASSUME NoneAssumption  == None \notin Link \cup Session \cup Key \cup Browser /\ Link \cap Key = {}
ASSUME UsersAssumption == MaxUsers \in Nat \ {0}

VARIABLES
  user,     \* D1: the users row of the address, 0 when there is none
  made,     \* how many users rows there have been
  link,     \* D1: magic_tokens
  session,  \* KV: the sessions, and whose they are
  key,      \* D1: passkey_credentials: whose each passkey is, 0 when it is not there
  chal,     \* KV pk-reg-chal:<user>: the browser whose challenge it is
  act,      \* the page and the progress of every browser
  held,     \* localStorage sb_session
  stray     \* history: sessions nobody signed out of: replaced, or a sign-out that was lost

vars == <<user, made, link, session, key, chal, act, held, stray>>
db   == <<user, made, link, key>>

Users  == 1..MaxUsers
Page   == {"signin", "dashboard", "settings"}
At(b, pc)   == act[b].at = pc
To(b, pc)   == act' = [act EXCEPT ![b].at = pc]
ToFor(b, pc, u, i) == act' = [act EXCEPT ![b].at = pc, ![b].u = u, ![b].item = i]
Back(b)     == act' = [act EXCEPT ![b] = [page |-> @.page, at |-> "idle", u |-> 0, item |-> None]]
Unloaded(b) == act' = [act EXCEPT ![b] = [page |-> @.page, at |-> "unloaded", u |-> 0, item |-> None]]
Open(b, p)  == act' = [act EXCEPT ![b] = [page |-> p, at |-> "load", u |-> 0, item |-> None]]
Idle(b, ps) == act[b].at \in {"idle", "unloaded"} /\ act[b].page \in ps

Live(s)  == s # None /\ session[s].st = "live"
Whose(b) == session[held[b]].u                  \* c.get('userId')

Init ==
  /\ user = 0 /\ made = 0 /\ link = [l \in Link |-> [st |-> "none", u |-> 0]]
  /\ session = [s \in Session |-> [st |-> "none", u |-> 0]]
  /\ key = [k \in Key |-> 0] /\ chal = [u \in Users |-> None]
  /\ act = [b \in Browser |-> [page |-> "signin", at |-> "load", u |-> 0, item |-> None]]
  /\ held = [b \in Browser |-> None] /\ stray = {}

-----------------------------------------------------------------------------
(* The pages as they load, and requireUser.                                  *)

\* signin.html and signup.html send a browser that holds a session on.
LoadSignin(b) ==
  /\ act[b].page = "signin" /\ At(b, "load")
  /\ IF held[b] = None THEN Back(b) ELSE Open(b, "dashboard")
  /\ UNCHANGED <<db, session, chal, held, stray>>

\* With a bug: the dashboard goes to sign in with the session that was refused.
LoadDashboardKeeps(b) ==
  /\ act[b].page = "dashboard" /\ At(b, "load")
  /\ \/ IF Live(held[b]) THEN Back(b) ELSE Open(b, "signin")
     \/ held[b] # None /\ Unloaded(b)
  /\ UNCHANGED <<db, session, chal, held, stray>>

\* GET /api/switches; a 401 clears the session, another error is shown.
LoadDashboard(b) ==
  /\ act[b].page = "dashboard" /\ At(b, "load")
  /\ \/ /\ Live(held[b]) /\ Back(b) /\ UNCHANGED held
     \/ /\ ~Live(held[b]) /\ Open(b, "signin")
        /\ held' = [held EXCEPT ![b] = None]
     \/ held[b] # None /\ Unloaded(b) /\ UNCHANGED held
  /\ UNCHANGED <<db, session, chal, stray>>

\* GET /api/auth/me answers 200 with no user, and the session is kept; an
\* error is shown nowhere.
LoadSettings(b) ==
  /\ act[b].page = "settings" /\ At(b, "load")
  /\ \/ IF Live(held[b]) /\ Whose(b) = user THEN Back(b) ELSE Open(b, "signin")
     \/ held[b] # None /\ Unloaded(b)
  /\ UNCHANGED <<db, session, chal, held, stray>>

Navigate(b) ==
  /\ Idle(b, Page) /\ \E p \in Page \ {act[b].page} : Open(b, p)
  /\ UNCHANGED <<db, session, chal, held, stray>>

\* requireUser, at the start of a call that goes on at step pc.
Admit(b, pc, i) ==
  IF Live(held[b]) THEN ToFor(b, pc, Whose(b), i) ELSE Back(b)

-----------------------------------------------------------------------------
(* POST /magic/request and GET /magic/consume.                               *)

RequestLink(b) ==
  /\ Idle(b, {"signin"})
  /\ IF user = 0 THEN To(b, "newUser") ELSE ToFor(b, "newLink", user, None)
  /\ UNCHANGED <<db, session, chal, held, stray>>

\* users.email is UNIQUE: of two requests that find no row, one fails.
NewUser(b) ==
  /\ At(b, "newUser") /\ made < MaxUsers
  /\ IF user = 0 THEN /\ user' = made + 1 /\ made' = made + 1
                      /\ ToFor(b, "newLink", made + 1, None)
     ELSE Back(b) /\ UNCHANGED <<user, made>>
  /\ UNCHANGED <<link, session, key, chal, held, stray>>

\* With a bug: a link is made for a row that has gone.
NewLinkUnchecked(b, l) ==
  /\ At(b, "newLink") /\ link[l].st = "none" /\ Back(b)
  /\ link' = [link EXCEPT ![l] = [st |-> "fresh", u |-> act[b].u]]
  /\ UNCHANGED <<user, made, session, key, chal, held, stray>>

\* The INSERT, whose foreign key fails when the row has gone, and the mail.
NewLink(b, l) ==
  /\ At(b, "newLink") /\ link[l].st = "none" /\ Back(b)
  /\ link' = IF act[b].u = user THEN [link EXCEPT ![l] = [st |-> "fresh", u |-> user]] ELSE link
  /\ UNCHANGED <<user, made, session, key, chal, held, stray>>

\* With a bug: nobody looks at consumed_at.
ConsumeReadAny(b, l) ==
  /\ Idle(b, Page) /\ link[l].st \in {"fresh", "consumed"}
  /\ ToFor(b, "mark", link[l].u, l)
  /\ UNCHANGED <<db, session, chal, held, stray>>

\* The owner opens a mailed link, on whatever page the browser is.
ConsumeRead(b, l) ==
  /\ Idle(b, Page) /\ link[l].st = "fresh"
  /\ ToFor(b, "mark", link[l].u, l)
  /\ UNCHANGED <<db, session, chal, held, stray>>

\* UPDATE consumed_at and last_seen_at WHERE id = ?
ConsumeMark(b) ==
  LET l == act[b].item IN
  /\ At(b, "mark") /\ To(b, "open")
  /\ link' = IF link[l].st = "gone" THEN link ELSE [link EXCEPT ![l].st = "consumed"]
  /\ UNCHANGED <<user, made, session, key, chal, held, stray>>

\* createSession, readSession and destroySession.
NewSession(s, u)  == session[s].st = "none" /\ session' = [session EXCEPT ![s] = [st |-> "live", u |-> u]]
EndedSession(s)   == [session EXCEPT ![s].st = "over"]

\* A session is made, for whatever user the step before has read; the answer's
\* page stores it, or setSession does, over any session that was there.  An
\* answer that is lost leaves a session that no browser holds.
OpenSession(b, s) ==
  /\ At(b, "open") /\ NewSession(s, act[b].u)
  /\ \/ /\ held' = [held EXCEPT ![b] = s] /\ Open(b, "dashboard")
        /\ stray' = stray \cup ({held[b]} \ {None})
     \/ stray' = stray \cup {s} /\ UNCHANGED held /\ Back(b)
  /\ UNCHANGED <<db, chal>>

LinkExpires(l) ==
  /\ link[l].st = "fresh" /\ link' = [link EXCEPT ![l].st = "expired"]
  /\ UNCHANGED <<user, made, session, key, chal, act, held, stray>>

SessionExpires(s) ==
  /\ Live(s) /\ session' = [session EXCEPT ![s].st = "over"]
  /\ UNCHANGED <<db, chal, act, held, stray>>

-----------------------------------------------------------------------------
(* Sign-out and account deletion, from settings.html.                        *)

\* With a bug: the page forgets the session before it asks to end it.
SignOutForgets(b) ==
  /\ Idle(b, {"settings"}) /\ held' = [held EXCEPT ![b] = None] /\ Open(b, "signin")
  /\ UNCHANGED <<db, session, chal, stray>>

\* The page swallows a failed call, and forgets the session all the same.
SignOut(b) ==
  /\ Idle(b, {"settings"}) /\ held[b] # None
  /\ \/ session' = EndedSession(held[b]) /\ UNCHANGED stray
     \/ UNCHANGED session /\ stray' = stray \cup {held[b]}
  /\ held' = [held EXCEPT ![b] = None] /\ Open(b, "signin")
  /\ UNCHANGED <<db, chal>>

DeleteAccount(b) ==
  /\ Idle(b, {"settings"}) /\ Admit(b, "deleteUser", None)
  /\ UNCHANGED <<db, session, chal, held, stray>>

\* DELETE FROM users, and by cascade passkeys and links.  (Switches: SwitchLifecycle.)
DeleteUser(b) ==
  /\ At(b, "deleteUser") /\ To(b, "endSession")
  /\ user' = IF user = act[b].u THEN 0 ELSE user
  /\ key'  = [k \in Key |-> IF key[k] = act[b].u THEN 0 ELSE key[k]]
  /\ link' = [l \in Link |-> IF link[l].u = act[b].u THEN [link[l] EXCEPT !.st = "gone"] ELSE link[l]]
  /\ UNCHANGED <<made, session, chal, held, stray>>

\* destroySession of the bearer, and the page's clearSession if it has the answer.
EndSession(b) ==
  /\ At(b, "endSession") /\ session' = EndedSession(held[b])
  /\ \/ Open(b, "signin") /\ held' = [held EXCEPT ![b] = None]
     \/ Back(b) /\ UNCHANGED held
  /\ UNCHANGED <<db, chal, stray>>

-----------------------------------------------------------------------------
(* Passkeys: register begin and finish, remove, authenticate begin and       *)
(* finish.  A passkey answers one challenge, in the call that follows.       *)

RegisterBegin(b) ==
  /\ Idle(b, {"dashboard", "settings"}) /\ Admit(b, "regUser", None)
  /\ UNCHANGED <<db, session, chal, held, stray>>

RegisterUser(b) ==
  /\ At(b, "regUser") /\ IF user = act[b].u THEN To(b, "regPut") ELSE Back(b)
  /\ UNCHANGED <<db, session, chal, held, stray>>

\* The challenge is the user's, and a second begin replaces it.
RegisterPut(b) ==
  /\ At(b, "regPut") /\ To(b, "regMade") /\ chal' = [chal EXCEPT ![act[b].u] = b]
  /\ UNCHANGED <<db, session, held, stray>>

\* The authenticator makes a passkey it has not made, and finish is sent.
RegisterFinish(b) ==
  /\ At(b, "regMade") /\ Admit(b, "regRead", None)
  /\ UNCHANGED <<db, session, chal, held, stray>>

RegisterVerify(b) ==
  /\ At(b, "regRead") /\ IF chal[act[b].u] = b THEN To(b, "regStore") ELSE Back(b)
  /\ UNCHANGED <<db, session, chal, held, stray>>

\* The INSERT; its foreign key fails when the row has gone.
RegisterStore(b, k) ==
  /\ At(b, "regStore") /\ key[k] = 0
  /\ IF user = act[b].u THEN key' = [key EXCEPT ![k] = user] /\ To(b, "regClean")
     ELSE UNCHANGED key /\ Back(b)
  /\ UNCHANGED <<user, made, link, session, chal, held, stray>>

RegisterClean(b) ==
  /\ At(b, "regClean") /\ Back(b) /\ chal' = [chal EXCEPT ![act[b].u] = None]
  /\ UNCHANGED <<db, session, held, stray>>

ChalExpires(u) ==
  /\ chal[u] # None /\ chal' = [chal EXCEPT ![u] = None]
  /\ UNCHANGED <<db, session, act, held, stray>>

RemoveKey(b, k) ==
  /\ Idle(b, {"settings"}) /\ Admit(b, "remove", k)
  /\ UNCHANGED <<db, session, chal, held, stray>>

RemoveRow(b) ==
  LET k == act[b].item IN
  /\ At(b, "remove") /\ Back(b)
  /\ key' = IF key[k] = act[b].u THEN [key EXCEPT ![k] = 0] ELSE key
  /\ UNCHANGED <<user, made, link, session, chal, held, stray>>

\* finish: the challenge is the page's own and the passkey's row is there.
Authenticate(b, k) ==
  /\ Idle(b, {"signin"}) /\ key[k] # 0 /\ ToFor(b, "bump", key[k], k)
  /\ UNCHANGED <<db, session, chal, held, stray>>

\* UPDATE counter, UPDATE last_seen_at, and the challenge is deleted.
AuthBump(b) ==
  /\ At(b, "bump") /\ To(b, "open")
  /\ UNCHANGED <<db, session, chal, held, stray>>

\* A call throws, its handler ends, and the page reports it.
Throw(b) ==
  /\ act[b].at \in {"newUser", "newLink", "mark", "open", "deleteUser", "endSession", "regUser",
                    "regPut", "regMade", "regRead", "regStore", "regClean", "remove", "bump"}
  /\ Back(b) /\ UNCHANGED <<db, session, chal, held, stray>>

Load(b) == LoadSignin(b) \/ LoadDashboard(b) \/ LoadSettings(b)

Register(b) ==
  \/ RegisterBegin(b) \/ RegisterUser(b) \/ RegisterPut(b) \/ RegisterFinish(b)
  \/ RegisterVerify(b) \/ RegisterClean(b) \/ \E k \in Key : RegisterStore(b, k)

Next ==
  \/ \E b \in Browser :
       \/ Load(b) \/ Navigate(b) \/ Throw(b)
       \/ RequestLink(b) \/ NewUser(b) \/ ConsumeMark(b)
       \/ \E l \in Link : NewLink(b, l) \/ ConsumeRead(b, l)
       \/ \E s \in Session : OpenSession(b, s)
       \/ SignOut(b) \/ DeleteAccount(b) \/ DeleteUser(b) \/ EndSession(b)
       \/ Register(b) \/ RemoveRow(b) \/ AuthBump(b)
       \/ \E k \in Key : RemoveKey(b, k) \/ Authenticate(b, k)
  \/ \E l \in Link : LinkExpires(l)
  \/ \E s \in Session : SessionExpires(s)
  \/ \E u \in Users : ChalExpires(u)

Spec == Init /\ [][Next]_vars

\* A page that has begun to load makes its call and acts on the answer.
LiveSpec == Spec /\ \A b \in Browser : WF_vars(Load(b))

-----------------------------------------------------------------------------
TypeOK ==
  /\ user \in 0..made /\ made \in 0..MaxUsers
  /\ link \in [Link -> [st : {"none", "fresh", "consumed", "expired", "gone"}, u : 0..MaxUsers]]
  /\ session \in [Session -> [st : {"none", "live", "over"}, u : 0..MaxUsers]]
  /\ key \in [Key -> 0..MaxUsers] /\ chal \in [Users -> Browser \cup {None}]
  /\ held \in [Browser -> Session \cup {None}] /\ stray \subseteq Session
  /\ \A b \in Browser : /\ act[b].page \in Page /\ act[b].u \in 0..MaxUsers
                        /\ act[b].item \in Link \cup Key \cup {None}

\* A passkey or a link that is still good belongs to the account as it is now:
\* nothing that was in flight when the account was deleted, and made again,
\* leaves one behind (0001_init.sql, account.ts:35-37).
NoOrphans ==
  /\ \A k \in Key : key[k] # 0 => key[k] = user
  /\ \A l \in Link : link[l].st = "fresh" => link[l].u = user

\* A session that is alive is held by a browser, unless its answer or its
\* sign-out was lost, or a later sign-in of the same browser took its place:
\* signing out and deleting the account end the session the browser held.
SessionsAccounted ==
  \A s \in Session : session[s].st = "live" => s \in stray \/ \E b \in Browser : held[b] = s

\* A browser that opens any page with a session that has ended comes, through
\* the pages' redirects, to forget it, or stays at a page whose call failed: no
\* two pages send it round for ever (signin.html:74, dashboard.html:273-277,
\* settings.html:178-187).
EndedSessionLeaves ==
  \A b \in Browser :
    (At(b, "load") /\ held[b] # None /\ ~Live(held[b])) ~> (held[b] = None \/ At(b, "unloaded"))

\* A magic link as a ticket, and a browser as its use: it holds the link from
\* the SELECT that finds it good until the session is made or the call throws.
TicketOf == [l \in Link |-> CASE link[l].st = "none"  -> "none"
                              [] link[l].st = "fresh" -> "issued"
                              [] OTHER                -> "spent"]
UseOf == [b \in Browser |->
            CASE At(b, "mark") -> [at |-> "accepted", t |-> {act[b].item}]
              [] At(b, "open") /\ act[b].item \in Link -> [at |-> "marked", t |-> {act[b].item}]
              [] OTHER -> [at |-> "idle", t |-> {}]]

\* A magic link is a one-time ticket in the sense of OneTimeTicket.
Ticket == INSTANCE OneTimeTicket WITH
  Ticket <- Link, Use <- Browser, ticket <- TicketOf, use <- UseOf
LinkIsTicket == Ticket!TicketSpec
=============================================================================
