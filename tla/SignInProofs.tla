---------------------------- MODULE SignInProofs ----------------------------
(***************************************************************************)
(* Theorems about the sign-in of the owner, for any number of browsers,    *)
(* links, sessions, passkeys and accounts.                                 *)
(***************************************************************************)
EXTENDS SignIn, TLAPS

Pcs == {"load", "idle", "unloaded", "newUser", "newLink", "mark", "open", "deleteUser", "endSession",
        "regUser", "regPut", "regMade", "regRead", "regStore", "regClean", "remove", "bump"}
ActRecord == [page : Page, at : Pcs, u : 0..MaxUsers, item : Link \cup Key \cup {None}]

\* A call that will make, or delete, what is the account's has an account; and
\* what it will use is a link or a passkey.
Owned(r) ==
  /\ r.at \in {"newLink", "mark", "bump", "open", "deleteUser"} => r.u # 0
  /\ r.at = "mark" => r.item \in Link
  /\ r.at = "bump" => r.item \in Key
  /\ r.at = "open" => r.item \in Link \cup Key

ActsInv == act \in [Browser -> ActRecord] /\ \A b \in Browser : Owned(act[b])

LinkRecord    == [st : {"none", "fresh", "consumed", "expired", "gone"}, u : 0..MaxUsers]
SessionRecord == [st : {"none", "live", "over"}, u : 0..MaxUsers]

DataTypes ==
  /\ user \in 0..made /\ made \in 0..MaxUsers
  /\ link \in [Link -> LinkRecord] /\ session \in [Session -> SessionRecord]
  /\ key \in [Key -> 0..MaxUsers] /\ chal \in [Users -> Browser \cup {None}]
  /\ held \in [Browser -> Session \cup {None}] /\ stray \subseteq Session

\* A link that was not made is nobody's; a good one, and a live session, is somebody's.
RowsOwned ==
  /\ \A l \in Link : (link[l].st = "none" => link[l].u = 0) /\ (link[l].st = "fresh" => link[l].u # 0)
  /\ \A s \in Session : session[s].st = "live" => session[s].u # 0

DataInv == DataTypes /\ RowsOwned /\ NoOrphans /\ SessionsAccounted
IInv    == ActsInv /\ DataInv

\* The initial state satisfies it.
LEMMA InitIInv == Init => IInv
<1> SUFFICES ASSUME Init PROVE IInv  OBVIOUS
<1>0. MaxUsers \in Nat \ {0}  BY UsersAssumption
<1>1. ActsInv  BY <1>0 DEF Init, ActsInv, ActRecord, Pcs, Page, Owned
<1>2. DataTypes  BY <1>0 DEF Init, DataTypes, LinkRecord, SessionRecord
<1>3. RowsOwned /\ NoOrphans /\ SessionsAccounted
  BY DEF Init, RowsOwned, NoOrphans, SessionsAccounted
<1> QED BY <1>1, <1>2, <1>3 DEF IInv, DataInv

-----------------------------------------------------------------------------
(* Where a browser goes on                                                  *)

\* A browser that moves to a record that is well owned leaves the others so.
LEMMA ActMoves ==
  ASSUME ActsInv, NEW b \in Browser, NEW r \in ActRecord, Owned(r), act' = [act EXCEPT ![b] = r]
  PROVE  ActsInv'
<1>1. \A d \in Browser : act'[d] = IF d = b THEN r ELSE act[d]  BY DEF ActsInv
<1>2. act' \in [Browser -> ActRecord]  BY DEF ActsInv
<1> QED BY <1>1, <1>2 DEF ActsInv, Owned

\* Back, Unloaded and Open leave a browser that does nothing.
LEMMA ActRests ==
  ASSUME ActsInv, NEW b \in Browser, Back(b) \/ Unloaded(b) \/ \E p \in Page : Open(b, p)
  PROVE  ActsInv'
<1>0. act[b] \in ActRecord /\ MaxUsers \in Nat  BY UsersAssumption DEF ActsInv
<1>1. ASSUME NEW pc \in {"idle", "unloaded"},
             act' = [act EXCEPT ![b] = [page |-> @.page, at |-> pc, u |-> 0, item |-> None]]
      PROVE  ActsInv'
  <2> DEFINE r == [page |-> act[b].page, at |-> pc, u |-> 0, item |-> None]
  <2>1. r \in ActRecord /\ Owned(r)  BY <1>0 DEF ActRecord, Pcs, Owned
  <2>2. act' = [act EXCEPT ![b] = r]  BY <1>1
  <2> HIDE DEF r
  <2> QED BY <2>1, <2>2, ActMoves
<1>2. ASSUME NEW p \in Page, Open(b, p) PROVE ActsInv'
  <2> DEFINE r == [page |-> p, at |-> "load", u |-> 0, item |-> None]
  <2>1. r \in ActRecord /\ Owned(r)  BY <1>0 DEF ActRecord, Pcs, Owned
  <2>2. act' = [act EXCEPT ![b] = r]  BY <1>2 DEF Open
  <2> HIDE DEF r
  <2> QED BY <2>1, <2>2, ActMoves
<1> QED BY <1>1, <1>2 DEF Back, Unloaded

\* To keeps the account and the item of the call.
LEMMA ActGoesOn ==
  ASSUME ActsInv, NEW b \in Browser, NEW pc \in Pcs, To(b, pc),
         \/ pc \notin {"newLink", "mark", "bump", "open", "deleteUser"}
         \/ pc = "open" /\ act[b].at \in {"mark", "bump"}
  PROVE  ActsInv'
<1>0. act[b] \in ActRecord /\ Owned(act[b])  BY DEF ActsInv
<1> DEFINE r == [act[b] EXCEPT !.at = pc]
<1>1. r \in ActRecord /\ r.at = pc /\ r.u = act[b].u /\ r.item = act[b].item
  BY <1>0 DEF ActRecord
<1>2. act' = [act EXCEPT ![b] = r]  BY DEF To
<1> HIDE DEF r
<1>3. Owned(r)  BY <1>0, <1>1 DEF Owned
<1> QED BY <1>1, <1>2, <1>3, ActMoves

\* ToFor begins a call for an account, with an item.
LEMMA ActBegins ==
  ASSUME ActsInv, NEW b \in Browser, NEW pc \in Pcs, NEW u \in 0..MaxUsers,
         NEW i \in Link \cup Key \cup {None}, ToFor(b, pc, u, i),
         pc \in {"newLink", "mark", "bump", "deleteUser"} => u # 0,
         pc = "mark" => i \in Link, pc = "bump" => i \in Key, pc # "open"
  PROVE  ActsInv'
<1>0. act[b] \in ActRecord  BY DEF ActsInv
<1> DEFINE r == [act[b] EXCEPT !.at = pc, !.u = u, !.item = i]
<1>1. r \in ActRecord /\ r.at = pc /\ r.u = u /\ r.item = i  BY <1>0 DEF ActRecord
<1>2. act' = [act EXCEPT ![b] = r]  BY DEF ToFor
<1> HIDE DEF r
<1>3. Owned(r)  BY <1>1 DEF Owned
<1> QED BY <1>1, <1>2, <1>3, ActMoves

\* requireUser begins a call for the user of a live session, which there is.
LEMMA ActAdmits ==
  ASSUME IInv, NEW b \in Browser, NEW pc \in Pcs \ {"mark", "bump", "open"},
         NEW i \in Link \cup Key \cup {None}, Admit(b, pc, i)
  PROVE  ActsInv'
<1>1. CASE Live(held[b])
  <2>1. held[b] \in Session /\ session[held[b]] \in SessionRecord /\ session[held[b]].st = "live"
    BY <1>1 DEF Live, IInv, DataInv, DataTypes
  <2>2. Whose(b) \in 0..MaxUsers /\ Whose(b) # 0
    BY <2>1 DEF Whose, IInv, DataInv, RowsOwned, SessionRecord
  <2>3. ToFor(b, pc, Whose(b), i)  BY <1>1 DEF Admit
  <2> HIDE DEF Whose
  <2> QED BY <2>2, <2>3, ActBegins DEF IInv
<1>2. CASE ~Live(held[b])  BY <1>2, ActRests DEF Admit, IInv
<1> QED BY <1>1, <1>2

\* The answers of the calls that change no row, session or held session.
LEMMA DataStays ==
  ASSUME DataInv, UNCHANGED <<user, made, link, session, key, held, stray>>,
         chal' \in [Users -> Browser \cup {None}]
  PROVE  DataInv'
BY DEF DataInv, DataTypes, RowsOwned, NoOrphans, SessionsAccounted, LinkRecord, SessionRecord

-----------------------------------------------------------------------------
(* Each action keeps it                                                     *)

\* The pages as they load.  A dashboard forgets a session that has ended.
LEMMA LoadKeeps == ASSUME IInv, NEW b \in Browser, Load(b) \/ Navigate(b) PROVE IInv'
<1>0. "signin" \in Page /\ "dashboard" \in Page /\ "settings" \in Page  BY DEF Page
<1>1. ActsInv'
  BY <1>0, ActRests DEF IInv, Load, Navigate, LoadSignin, LoadDashboard, LoadSettings
<1>2. CASE UNCHANGED <<db, session, chal, held, stray>>
  BY <1>1, <1>2, DataStays DEF IInv, db, DataInv, DataTypes
<1>3. CASE LoadDashboard(b) /\ held' = [held EXCEPT ![b] = None] /\ ~Live(held[b])
  <2>1. /\ UNCHANGED <<user, made, link, session, key, chal, stray>>
        /\ held' = [held EXCEPT ![b] = None] /\ held \in [Browser -> Session \cup {None}]
    BY <1>3 DEF LoadDashboard, db, IInv, DataInv, DataTypes
  <2>2. DataTypes'  BY <2>1 DEF IInv, DataInv, DataTypes, LinkRecord, SessionRecord
  <2>3. SessionsAccounted'
    <3>1. ASSUME NEW s \in Session, session[s].st = "live", NEW d \in Browser, held[d] = s
          PROVE  d # b /\ held'[d] = s
      <4>1. s # None  BY <3>1, NoneAssumption
      <4> QED BY <1>3, <2>1, <3>1, <4>1 DEF Live
    <3> QED BY <2>1, <3>1 DEF IInv, DataInv, SessionsAccounted
  <2> QED BY <1>1, <2>1, <2>2, <2>3 DEF IInv, DataInv, RowsOwned, NoOrphans
<1>4. CASE LoadDashboard(b) /\ UNCHANGED held
  BY <1>1, <1>4, DataStays DEF LoadDashboard, IInv, db, DataInv, DataTypes
<1> QED BY <1>2, <1>3, <1>4 DEF Load, Navigate, LoadSignin, LoadDashboard, LoadSettings

\* A new users row: nothing was good while there was none.
LEMMA NewUserKeeps == ASSUME IInv, NEW b \in Browser, NewUser(b) PROVE IInv'
<1>0. MaxUsers \in Nat /\ made \in Nat /\ made < MaxUsers /\ user \in 0..made
      /\ UNCHANGED <<link, session, key, chal, held, stray>>
  BY UsersAssumption DEF NewUser, IInv, DataInv, DataTypes
<1>1. CASE user # 0
  <2>1. Back(b) /\ UNCHANGED <<user, made>>  BY <1>1 DEF NewUser
  <2> QED BY <1>0, <2>1, ActRests, DataStays DEF IInv, DataInv, DataTypes
<1>2. CASE user = 0
  <2>1. user' = made + 1 /\ made' = made + 1 /\ ToFor(b, "newLink", made + 1, None)
    BY <1>2 DEF NewUser
  <2>2. made + 1 \in 0..MaxUsers /\ made + 1 # 0  BY <1>0
  <2>3. ActsInv'  BY <2>1, <2>2, ActBegins DEF IInv, Pcs
  <2>4. DataTypes'  BY <1>0, <2>1, <2>2 DEF IInv, DataInv, DataTypes, LinkRecord, SessionRecord
  <2>5. NoOrphans'
    <3>1. \A k \in Key : key[k] = 0  BY <1>2 DEF IInv, DataInv, NoOrphans
    <3>2. \A l \in Link : link[l].st # "fresh"  BY <1>2 DEF IInv, DataInv, NoOrphans, RowsOwned
    <3> QED BY <1>0, <3>1, <3>2 DEF NoOrphans
  <2> QED BY <1>0, <2>3, <2>4, <2>5 DEF IInv, DataInv, RowsOwned, SessionsAccounted
<1> QED BY <1>1, <1>2

\* A link is made for the account as it is.
LEMMA NewLinkKeeps == ASSUME IInv, NEW b \in Browser, NEW l \in Link, NewLink(b, l) PROVE IInv'
<1>1. ActsInv'  BY ActRests DEF NewLink, IInv
<1>2. UNCHANGED <<user, made, session, key, chal, held, stray>>  BY DEF NewLink
<1>3. act[b].u # 0  BY DEF NewLink, At, IInv, ActsInv, Owned
<1>4. CASE act[b].u # user  BY <1>1, <1>2, <1>4, DataStays DEF NewLink, IInv, DataInv, DataTypes
<1>5. CASE act[b].u = user
  <2>0. user \in 0..MaxUsers
    BY UsersAssumption DEF IInv, DataInv, DataTypes
  <2>1. [st |-> "fresh", u |-> user] \in LinkRecord  BY <2>0 DEF LinkRecord
  <2>2. link' = [link EXCEPT ![l] = [st |-> "fresh", u |-> user]]  BY <1>5 DEF NewLink
  <2>3. link' \in [Link -> LinkRecord]  BY <2>1, <2>2 DEF IInv, DataInv, DataTypes
  <2>4. \A m \in Link : link'[m] = IF m = l THEN [st |-> "fresh", u |-> user] ELSE link[m]
    BY <2>2 DEF IInv, DataInv, DataTypes
  <2>5. DataTypes'  BY <1>2, <2>3 DEF IInv, DataInv, DataTypes, LinkRecord, SessionRecord
  <2>6. RowsOwned' /\ NoOrphans'
    BY <1>2, <1>3, <1>5, <2>4 DEF IInv, DataInv, RowsOwned, NoOrphans
  <2> QED BY <1>1, <1>2, <2>5, <2>6 DEF IInv, DataInv, SessionsAccounted
<1> QED BY <1>4, <1>5

\* A link that stops being good.
LEMMA LinkLapses ==
  ASSUME DataInv, NEW l \in Link, NEW st \in {"consumed", "expired"},
         link' = [link EXCEPT ![l].st = st],
         UNCHANGED <<user, made, session, key, chal, held, stray>>
  PROVE  DataInv'
<1>1. link \in [Link -> LinkRecord] /\ link[l] \in LinkRecord  BY DEF DataInv, DataTypes
<1>2. [link[l] EXCEPT !.st = st] \in LinkRecord  BY <1>1 DEF LinkRecord
<1>3. link' \in [Link -> LinkRecord]  BY <1>1, <1>2
<1>4. \A m \in Link : (m # l => link'[m] = link[m]) /\ (m = l => link'[m].st = st)
  BY <1>1 DEF LinkRecord
<1>5. DataTypes'  BY <1>3 DEF DataInv, DataTypes, LinkRecord, SessionRecord
<1>6. RowsOwned' /\ NoOrphans'  BY <1>4 DEF DataInv, RowsOwned, NoOrphans
<1> QED BY <1>5, <1>6 DEF DataInv, SessionsAccounted

\* A link that is opened, marked or out of date.
LEMMA ConsumeKeeps ==
  ASSUME IInv, NEW b \in Browser,
         ConsumeMark(b) \/ \E l \in Link : ConsumeRead(b, l) \/ LinkExpires(l)
  PROVE  IInv'
<1>1. ASSUME NEW l \in Link, ConsumeRead(b, l) PROVE IInv'
  <2>1. link[l].u \in 0..MaxUsers /\ link[l].u # 0
    <3>1. link[l] \in LinkRecord  BY DEF IInv, DataInv, DataTypes
    <3> QED BY <1>1, <3>1 DEF ConsumeRead, LinkRecord, IInv, DataInv, RowsOwned
  <2>2. ToFor(b, "mark", link[l].u, l)  BY <1>1 DEF ConsumeRead
  <2>3. ActsInv'  BY <2>1, <2>2, ActBegins DEF IInv, Pcs
  <2> QED BY <1>1, <2>3, DataStays DEF ConsumeRead, IInv, db, DataInv, DataTypes
<1>2. CASE ConsumeMark(b)
  <2>1. ActsInv'  BY <1>2, ActGoesOn DEF ConsumeMark, IInv, At, Pcs
  <2>2. act[b].item \in Link  BY <1>2 DEF ConsumeMark, At, IInv, ActsInv, Owned
  <2>3. UNCHANGED <<user, made, session, key, chal, held, stray>>  BY <1>2 DEF ConsumeMark
  <2>4. CASE link[act[b].item].st = "gone"
    BY <1>2, <2>1, <2>3, <2>4, DataStays DEF ConsumeMark, IInv, DataInv, DataTypes
  <2>5. CASE link[act[b].item].st # "gone"
    <3>1. link' = [link EXCEPT ![act[b].item].st = "consumed"]  BY <1>2, <2>5 DEF ConsumeMark
    <3> QED BY <2>1, <2>2, <2>3, <3>1, LinkLapses DEF IInv
  <2> QED BY <2>4, <2>5
<1>3. ASSUME NEW l \in Link, LinkExpires(l) PROVE IInv'
  BY <1>3, LinkLapses DEF LinkExpires, IInv, ActsInv, Owned
<1> QED BY <1>1, <1>2, <1>3

\* A new session is held by the browser that asked for it, or is a stray one; so
\* is the session whose place it takes.
LEMMA OpenSessionKeeps ==
  ASSUME IInv, NEW b \in Browser, NEW s \in Session, OpenSession(b, s)
  PROVE  IInv'
<1>1. ActsInv'
  <2>1. "dashboard" \in Page  BY DEF Page
  <2> QED BY <2>1, ActRests DEF OpenSession, IInv
<1>2. /\ UNCHANGED <<user, made, link, key, chal>>
      /\ session' = [session EXCEPT ![s] = [st |-> "live", u |-> act[b].u]]
      /\ \/ held' = [held EXCEPT ![b] = s] /\ stray' = stray \cup ({held[b]} \ {None})
         \/ stray' = stray \cup {s} /\ UNCHANGED held
  BY DEF OpenSession, NewSession, db
<1>3. /\ act[b].u \in 0..MaxUsers /\ act[b].u # 0
      /\ session \in [Session -> SessionRecord] /\ held \in [Browser -> Session \cup {None}]
      /\ stray \subseteq Session
  <2>1. act[b] \in ActRecord /\ Owned(act[b]) /\ act[b].at = "open"
    BY DEF IInv, ActsInv, OpenSession, At
  <2> QED BY <2>1 DEF ActRecord, Owned, IInv, DataInv, DataTypes
<1>4. session' \in [Session -> SessionRecord]
  <2>1. [st |-> "live", u |-> act[b].u] \in SessionRecord  BY <1>3 DEF SessionRecord
  <2> QED BY <1>2, <1>3, <2>1
<1>5. held' \in [Browser -> Session \cup {None}] /\ stray' \subseteq Session  BY <1>2, <1>3
<1>6. DataTypes'  BY <1>2, <1>4, <1>5 DEF IInv, DataInv, DataTypes, LinkRecord, SessionRecord
<1>7. \A t \in Session : session'[t] = IF t = s THEN [st |-> "live", u |-> act[b].u] ELSE session[t]
  BY <1>2, <1>3
<1>8. RowsOwned' /\ NoOrphans'  BY <1>2, <1>3, <1>7 DEF IInv, DataInv, RowsOwned, NoOrphans
<1>9. SessionsAccounted'
  <2>1. ASSUME NEW t \in Session, session'[t].st = "live"
        PROVE  t \in stray' \/ \E d \in Browser : held'[d] = t
    <3>1. CASE t = s  BY <1>2, <1>3, <3>1
    <3>2. CASE t # s
      <4>1. t \in stray \/ \E d \in Browser : held[d] = t
        BY <1>7, <2>1, <3>2 DEF IInv, DataInv, SessionsAccounted
      <4>2. t # None  BY NoneAssumption
      <4> QED BY <1>2, <1>3, <4>1, <4>2
    <3> QED BY <3>1, <3>2
  <2> QED BY <2>1 DEF SessionsAccounted
<1> QED BY <1>1, <1>6, <1>8, <1>9 DEF IInv, DataInv

\* A session that ends takes nothing from the others.
LEMMA SessionEnds ==
  ASSUME DataInv, NEW t, session' = [session EXCEPT ![t].st = "over"],
         UNCHANGED <<user, made, link, key, chal, stray>>,
         \/ UNCHANGED held
         \/ \E b \in Browser : t = held[b] /\ held' = [held EXCEPT ![b] = None]
  PROVE  DataInv'
<1>1. session \in [Session -> SessionRecord] /\ held \in [Browser -> Session \cup {None}]
  BY DEF DataInv, DataTypes
<1>2. \A s \in Session : s # t => session'[s] = session[s]  BY <1>1
<1>3. \A s \in Session : s = t => session'[s] = [session[s] EXCEPT !.st = "over"]  BY <1>1
<1>4. \A s \in Session : [session[s] EXCEPT !.st = "over"] \in SessionRecord
                         /\ [session[s] EXCEPT !.st = "over"].st = "over"
  <2>1. \A s \in Session : session[s] \in SessionRecord  BY <1>1
  <2> QED BY <2>1 DEF SessionRecord
<1>5. session' \in [Session -> SessionRecord]
  <2>1. DOMAIN session' = Session /\ session' = [s \in DOMAIN session' |-> session'[s]]  BY <1>1
  <2>2. \A s \in Session : session'[s] \in SessionRecord  BY <1>1, <1>2, <1>3, <1>4
  <2> QED BY <2>1, <2>2
<1>6. \A s \in Session : session'[s].st = "live" => s # t /\ session[s] = session'[s]
  BY <1>2, <1>3, <1>4
<1>7. held' \in [Browser -> Session \cup {None}]  BY <1>1
<1>8. \A d \in Browser : held[d] # t => held'[d] = held[d]  BY <1>1
<1>9. SessionsAccounted'  BY <1>6, <1>8 DEF DataInv, SessionsAccounted
<1>10. DataTypes'  BY <1>5, <1>7 DEF DataInv, DataTypes, LinkRecord, SessionRecord
<1> QED BY <1>6, <1>9, <1>10 DEF DataInv, RowsOwned, NoOrphans

\* A sign-out ends the session, or leaves it a stray one.
LEMMA SignOutKeeps == ASSUME IInv, NEW b \in Browser, SignOut(b) PROVE IInv'
<1>1. ActsInv'
  <2>1. "signin" \in Page  BY DEF Page
  <2> QED BY <2>1, ActRests DEF SignOut, IInv
<1>2. UNCHANGED <<user, made, link, key, chal>> /\ held' = [held EXCEPT ![b] = None]
  BY DEF SignOut, db
<1>3. CASE session' = EndedSession(held[b]) /\ UNCHANGED stray
  BY <1>1, <1>2, <1>3, SessionEnds DEF EndedSession, IInv
<1>4. CASE UNCHANGED session /\ stray' = stray \cup {held[b]}
  <2>1. held \in [Browser -> Session \cup {None}] /\ held[b] \in Session /\ stray \subseteq Session
    BY DEF SignOut, IInv, DataInv, DataTypes
  <2>2. held' \in [Browser -> Session \cup {None}] /\ stray' \subseteq Session  BY <1>2, <1>4, <2>1
  <2>3. DataTypes'  BY <1>2, <1>4, <2>2 DEF IInv, DataInv, DataTypes, LinkRecord, SessionRecord
  <2>4. SessionsAccounted'
    <3>1. \A d \in Browser : held[d] \in stray' \/ held'[d] = held[d]  BY <1>2, <1>4, <2>1
    <3>2. stray \subseteq stray'  BY <1>4
    <3> QED BY <1>4, <3>1, <3>2 DEF IInv, DataInv, SessionsAccounted
  <2> QED BY <1>1, <1>2, <1>4, <2>3, <2>4 DEF IInv, DataInv, RowsOwned, NoOrphans
<1> QED BY <1>3, <1>4 DEF SignOut

\* The account that is deleted takes its passkeys and links with it.
LEMMA DeleteUserKeeps == ASSUME IInv, NEW b \in Browser, DeleteUser(b) PROVE IInv'
<1>1. ActsInv'  BY ActGoesOn DEF DeleteUser, IInv, Pcs
<1>2. /\ UNCHANGED <<made, session, chal, held, stray>>
      /\ user' = IF user = act[b].u THEN 0 ELSE user
      /\ key'  = [k \in Key |-> IF key[k] = act[b].u THEN 0 ELSE key[k]]
      /\ link' = [l \in Link |-> IF link[l].u = act[b].u THEN [link[l] EXCEPT !.st = "gone"] ELSE link[l]]
  BY DEF DeleteUser
<1>3. act[b].u # 0  BY DEF DeleteUser, At, IInv, ActsInv, Owned
<1>4. \A l \in Link : link[l] \in LinkRecord /\ [link[l] EXCEPT !.st = "gone"] \in LinkRecord
                      /\ [link[l] EXCEPT !.st = "gone"].st = "gone"
  <2>1. \A l \in Link : link[l] \in LinkRecord  BY DEF IInv, DataInv, DataTypes
  <2> QED BY <2>1 DEF LinkRecord
<1>5. \A l \in Link : \/ link[l].u = act[b].u /\ link'[l].st = "gone"
                      \/ link[l].u # act[b].u /\ link'[l] = link[l]
  BY <1>2, <1>4
<1>6. link' \in [Link -> LinkRecord]  BY <1>2, <1>4
<1>7. key' \in [Key -> 0..MaxUsers] /\ user' \in 0..made
  BY <1>2, UsersAssumption DEF IInv, DataInv, DataTypes
<1>8. DataTypes'  BY <1>2, <1>6, <1>7 DEF IInv, DataInv, DataTypes, LinkRecord, SessionRecord
<1>9. NoOrphans'
  <2>1. \A k \in Key : key'[k] # 0 => key[k] # act[b].u /\ key'[k] = key[k]  BY <1>2
  <2>2. \A k \in Key : key'[k] # 0 => key'[k] = user'
    BY <1>2, <2>1 DEF IInv, DataInv, NoOrphans
  <2>3. \A l \in Link : link'[l].st = "fresh" => link'[l].u = user'
    BY <1>2, <1>5 DEF IInv, DataInv, NoOrphans
  <2> QED BY <2>2, <2>3 DEF NoOrphans
<1>10. RowsOwned'  BY <1>2, <1>5 DEF IInv, DataInv, RowsOwned
<1> QED BY <1>1, <1>2, <1>8, <1>9, <1>10 DEF IInv, DataInv, SessionsAccounted

\* A passkey is registered for the account as it is, and removed by its owner.
LEMMA KeyKeeps ==
  ASSUME IInv, NEW b \in Browser, RemoveRow(b) \/ \E k \in Key : RegisterStore(b, k)
  PROVE  IInv'
<1>1. ActsInv'  BY ActRests, ActGoesOn DEF RemoveRow, RegisterStore, IInv, Pcs
<1>2. UNCHANGED <<user, made, link, session, chal, held, stray>>  BY DEF RemoveRow, RegisterStore
<1>3. user \in 0..MaxUsers /\ key \in [Key -> 0..MaxUsers] /\ 0 \in 0..MaxUsers
  BY UsersAssumption DEF IInv, DataInv, DataTypes
<1>4. key' \in [Key -> 0..MaxUsers] /\ \A k \in Key : key'[k] \in {key[k], 0, user}
  BY <1>3 DEF RemoveRow, RegisterStore
<1>5. DataTypes'  BY <1>2, <1>4 DEF IInv, DataInv, DataTypes, LinkRecord, SessionRecord
<1>6. NoOrphans'  BY <1>2, <1>4 DEF IInv, DataInv, NoOrphans
<1> QED BY <1>1, <1>2, <1>5, <1>6 DEF IInv, DataInv, RowsOwned, SessionsAccounted

\* The steps that only read, and those that put or delete a challenge.
LEMMA ReadKeeps ==
  ASSUME IInv, NEW b \in Browser,
         \/ Throw(b) \/ RequestLink(b) \/ DeleteAccount(b) \/ AuthBump(b)
         \/ RegisterBegin(b) \/ RegisterUser(b) \/ RegisterPut(b) \/ RegisterFinish(b)
         \/ RegisterVerify(b) \/ RegisterClean(b)
         \/ \E k \in Key : RemoveKey(b, k) \/ Authenticate(b, k)
  PROVE  IInv'
<1>0. user \in 0..MaxUsers /\ chal \in [Users -> Browser \cup {None}]
  BY UsersAssumption DEF IInv, DataInv, DataTypes
<1>1. DataInv'
  <2>1. UNCHANGED <<user, made, link, session, key, held, stray>>
    BY DEF Throw, RequestLink, DeleteAccount, AuthBump, RegisterBegin, RegisterUser, RegisterPut, RegisterFinish,
           RegisterVerify, RegisterClean, RemoveKey, Authenticate, db
  <2>2. chal' \in [Users -> Browser \cup {None}]
    BY <1>0 DEF Throw, RequestLink, DeleteAccount, AuthBump, RegisterBegin, RegisterUser, RegisterPut,
           RegisterFinish, RegisterVerify, RegisterClean, RemoveKey, Authenticate
  <2> QED BY <2>1, <2>2, DataStays DEF IInv
<1> SUFFICES ActsInv'  BY <1>1 DEF IInv
<1>2. CASE Throw(b) \/ RegisterClean(b)  BY <1>2, ActRests DEF Throw, RegisterClean, IInv
<1>3. CASE RequestLink(b)
  <2>1. CASE user = 0  BY <1>3, <2>1, ActGoesOn DEF RequestLink, IInv, Pcs
  <2>2. CASE user # 0  BY <1>0, <1>3, <2>2, ActBegins DEF RequestLink, IInv, Pcs
  <2> QED BY <2>1, <2>2
<1>4. CASE DeleteAccount(b) \/ RegisterBegin(b) \/ RegisterFinish(b) \/ \E k \in Key : RemoveKey(b, k)
  BY <1>4, ActAdmits DEF DeleteAccount, RegisterBegin, RegisterFinish, RemoveKey, Pcs
<1>5. CASE AuthBump(b)  BY <1>5, ActGoesOn DEF AuthBump, At, IInv, Pcs
<1>6. CASE RegisterUser(b) \/ RegisterPut(b) \/ RegisterVerify(b)
  BY <1>6, ActGoesOn, ActRests DEF RegisterUser, RegisterPut, RegisterVerify, IInv, Pcs
<1>7. ASSUME NEW k \in Key, Authenticate(b, k) PROVE ActsInv'
  <2>1. key[k] \in 0..MaxUsers /\ key[k] # 0  BY <1>7 DEF Authenticate, IInv, DataInv, DataTypes
  <2> QED BY <1>7, <2>1, ActBegins DEF Authenticate, IInv, Pcs
<1> QED BY <1>2, <1>3, <1>4, <1>5, <1>6, <1>7

\* Every step keeps the invariant.
LEMMA NextIInv == ASSUME IInv, [Next]_vars PROVE IInv'
<1>1. ASSUME NEW b \in Browser, EndSession(b) PROVE IInv'
  <2>1. "signin" \in Page  BY DEF Page
  <2>2. ActsInv'  BY <1>1, <2>1, ActRests DEF EndSession, IInv
  <2> QED BY <1>1, <2>2, SessionEnds DEF EndSession, EndedSession, IInv, db
<1>2. ASSUME NEW s \in Session, SessionExpires(s) PROVE IInv'
  BY <1>2, SessionEnds DEF SessionExpires, IInv, ActsInv, Owned, db
<1>3. ASSUME NEW u \in Users, ChalExpires(u) PROVE IInv'
  <2>1. chal' \in [Users -> Browser \cup {None}]  BY <1>3 DEF ChalExpires, IInv, DataInv, DataTypes
  <2> QED BY <1>3, <2>1, DataStays DEF ChalExpires, IInv, ActsInv, Owned, db
<1>4. ASSUME NEW l \in Link, LinkExpires(l) PROVE IInv'
  BY <1>4, LinkLapses DEF LinkExpires, IInv, ActsInv, Owned
<1>5. CASE UNCHANGED vars
  BY <1>5, DataStays DEF vars, IInv, ActsInv, Owned, DataInv, DataTypes
<1> QED BY <1>1, <1>2, <1>3, <1>4, <1>5, LoadKeeps, NewUserKeeps, NewLinkKeeps, ConsumeKeeps, OpenSessionKeeps,
           SignOutKeeps, DeleteUserKeeps, KeyKeeps, ReadKeeps DEF Next, Register

-----------------------------------------------------------------------------
(* A magic link is a one-time ticket                                        *)

\* An abstract step, or none.
TNext == [Ticket!TicketNext]_<<TicketOf, UseOf>>

\* The ticket of each link, and the use of each browser.
LEMMA TicketIs ==
  ASSUME NEW l \in Link
  PROVE  /\ link[l].st = "none" => TicketOf[l] = "none"
         /\ link[l].st = "fresh" => TicketOf[l] = "issued"
         /\ link[l].st \notin {"none", "fresh"} => TicketOf[l] = "spent"
BY DEF TicketOf

\* The same after a step.
LEMMA TicketIsNext ==
  ASSUME NEW l \in Link
  PROVE  /\ link'[l].st = "none" => TicketOf'[l] = "none"
         /\ link'[l].st = "fresh" => TicketOf'[l] = "issued"
         /\ link'[l].st \notin {"none", "fresh"} => TicketOf'[l] = "spent"
BY DEF TicketOf

\* What a browser holds of a link.
LEMMA UseIs ==
  ASSUME NEW b \in Browser
  PROVE  /\ act[b].at = "mark" => UseOf[b] = [at |-> "accepted", t |-> {act[b].item}]
         /\ act[b].at = "open" /\ act[b].item \in Link => UseOf[b] = [at |-> "marked", t |-> {act[b].item}]
         /\ act[b].at # "mark" /\ ~(act[b].at = "open" /\ act[b].item \in Link) => UseOf[b] = Ticket!Idle
BY DEF UseOf, At, Ticket!Idle

\* The same after a step.
LEMMA UseIsNext ==
  ASSUME NEW b \in Browser
  PROVE  /\ act'[b].at = "mark" => UseOf'[b] = [at |-> "accepted", t |-> {act'[b].item}]
         /\ act'[b].at = "open" /\ act'[b].item \in Link => UseOf'[b] = [at |-> "marked", t |-> {act'[b].item}]
         /\ act'[b].at # "mark" /\ ~(act'[b].at = "open" /\ act'[b].item \in Link) => UseOf'[b] = Ticket!Idle
BY DEF UseOf, At, Ticket!Idle

\* A browser that moves changes one use; links that stay change no ticket.
LEMMA UseMoves ==
  ASSUME NEW b \in Browser, \A d \in Browser \ {b} : act'[d] = act[d]
  PROVE  UseOf' = [UseOf EXCEPT ![b] = UseOf'[b]]
<1>1. \A d \in Browser \ {b} : UseOf'[d] = UseOf[d]  BY DEF UseOf, At
<1>2. DOMAIN UseOf = Browser /\ UseOf' = [d \in Browser |-> UseOf'[d]] /\ UseOf = [d \in Browser |-> UseOf[d]]
  BY DEF UseOf
<1> QED BY <1>1, <1>2

\* No ticket changes when no link does.
LEMMA TicketStays == UNCHANGED link => UNCHANGED TicketOf
BY DEF TicketOf

\* Browser b moves to where it holds no link.
Idles(b) == /\ \A d \in Browser \ {b} : act'[d] = act[d]
            /\ act'[b].at # "mark" /\ ~(act'[b].at = "open" /\ act'[b].item \in Link)

\* A browser that ends so leaves its link, or had none.
LEMMA IdleRefines == ASSUME NEW b \in Browser, Idles(b), UNCHANGED link PROVE TNext
<1>1. UseOf' = [UseOf EXCEPT ![b] = Ticket!Idle]  
  <2>1. UseOf'[b] = Ticket!Idle  BY UseIsNext DEF Idles
  <2>2. UseOf' = [UseOf EXCEPT ![b] = UseOf'[b]]  BY UseMoves DEF Idles
  <2> QED BY <2>1, <2>2
<1>2. UseOf = [d \in Browser |-> UseOf[d]]  BY DEF UseOf
<1>3. CASE UseOf[b].at = "idle"
  <2>1. UseOf[b] = Ticket!Idle
    <3>1. [at |-> "accepted", t |-> {act[b].item}].at = "accepted"
          /\ [at |-> "marked", t |-> {act[b].item}].at = "marked"
      OBVIOUS
    <3>2. act[b].at # "mark" /\ ~(act[b].at = "open" /\ act[b].item \in Link)  BY <1>3, <3>1, UseIs
    <3> QED BY <3>2, UseIs
  <2>2. UNCHANGED UseOf  BY <1>1, <1>2, <2>1
  <2> QED BY <2>2, TicketStays DEF TNext
<1>4. CASE UseOf[b].at # "idle"
  <2>1. Ticket!Leave(b)  BY <1>1, <1>4, TicketStays DEF Ticket!Leave
  <2> QED BY <2>1 DEF TNext, Ticket!TicketNext
<1> QED BY <1>3, <1>4

\* Where Back, Unloaded, Open, To, ToFor and Admit lead.
LEMMA GoesIdle ==
  ASSUME ActsInv, NEW b \in Browser
  PROVE  /\ Back(b) \/ Unloaded(b) => Idles(b)
         /\ \A p \in Page : Open(b, p) => Idles(b)
         /\ \A pc \in Pcs \ {"mark", "open"} : To(b, pc) => Idles(b)
         /\ \A pc \in Pcs \ {"mark", "open"} : \A u, i : ToFor(b, pc, u, i) => Idles(b)
         /\ \A pc \in Pcs \ {"mark", "open"} : \A i : Admit(b, pc, i) => Idles(b)
<1>1. act \in [Browser -> ActRecord] /\ act[b] \in ActRecord  BY DEF ActsInv
<1>2. Back(b) \/ Unloaded(b) => Idles(b)  BY <1>1 DEF Back, Unloaded, Idles
<1>3. \A p \in Page : Open(b, p) => Idles(b)  BY <1>1 DEF Open, Idles
<1>4. \A pc \in Pcs \ {"mark", "open"} : To(b, pc) => Idles(b)  BY <1>1 DEF To, Idles, ActRecord
<1>5. \A pc \in Pcs \ {"mark", "open"} : \A u, i : ToFor(b, pc, u, i) => Idles(b)
  BY <1>1 DEF ToFor, Idles, ActRecord
<1>6. \A pc \in Pcs \ {"mark", "open"} : \A i : Admit(b, pc, i) => Idles(b)  BY <1>2, <1>5 DEF Admit
<1> QED BY <1>2, <1>3, <1>4, <1>5, <1>6

\* The steps of a browser that change no link, but the one that reads it.
LEMMA QuietRefines ==
  ASSUME IInv, NEW b \in Browser,
         \/ Load(b) \/ Navigate(b) \/ Throw(b) \/ RequestLink(b) \/ NewUser(b)
         \/ \E s \in Session : OpenSession(b, s)
         \/ SignOut(b) \/ DeleteAccount(b) \/ EndSession(b)
         \/ Register(b) \/ RemoveRow(b) \/ AuthBump(b)
         \/ \E k \in Key : RemoveKey(b, k) \/ Authenticate(b, k)
  PROVE  TNext
<1>0. {"signin", "dashboard", "settings"} \subseteq Page  BY DEF Page
<1>1. UNCHANGED link
  BY DEF Load, LoadSignin, LoadDashboard, LoadSettings, Navigate, Throw, RequestLink, NewUser, OpenSession, SignOut,
         DeleteAccount, EndSession, Register, RegisterBegin, RegisterUser, RegisterPut, RegisterFinish,
         RegisterVerify, RegisterClean, RegisterStore, RemoveRow, AuthBump, RemoveKey, Authenticate, db
<1>2. CASE Load(b) \/ Navigate(b) \/ Throw(b) \/ (\E s \in Session : OpenSession(b, s)) \/ SignOut(b)
           \/ EndSession(b) \/ RemoveRow(b)
  <2>1. Idles(b)
    BY <1>0, <1>2, GoesIdle DEF IInv, Load, LoadSignin, LoadDashboard, LoadSettings, Navigate, Throw, OpenSession,
           SignOut, EndSession, RemoveRow
  <2> QED BY <1>1, <2>1, IdleRefines
<1>3. CASE RequestLink(b) \/ NewUser(b) \/ DeleteAccount(b) \/ \E k \in Key : RemoveKey(b, k) \/ Authenticate(b, k)
  <2>1. Idles(b)
    BY <1>3, GoesIdle DEF IInv, RequestLink, NewUser, DeleteAccount, RemoveKey, Authenticate, Pcs
  <2> QED BY <1>1, <2>1, IdleRefines
<1>4. CASE Register(b)
  <2>1. Idles(b)
    BY <1>4, GoesIdle DEF IInv, Register, RegisterBegin, RegisterUser, RegisterPut, RegisterFinish,
         RegisterVerify, RegisterClean, RegisterStore, Pcs
  <2> QED BY <1>1, <2>1, IdleRefines
<1>5. CASE AuthBump(b)
  <2>1. act[b].item \notin Link
    BY <1>5, NoneAssumption DEF AuthBump, At, IInv, ActsInv, Owned
  <2>2. act' = [act EXCEPT ![b].at = "open"] /\ act \in [Browser -> ActRecord]
    BY <1>5 DEF AuthBump, To, IInv, ActsInv
  <2>3. act[b] \in ActRecord  BY <2>2
  <2>4. Idles(b)  BY <2>1, <2>2, <2>3 DEF Idles, ActRecord
  <2> QED BY <1>1, <2>4, IdleRefines
<1> QED BY <1>2, <1>3, <1>4, <1>5

\* A link that is found good is accepted, and one that is marked is spent.
LEMMA ConsumeRefines ==
  ASSUME IInv, NEW b \in Browser, ConsumeMark(b) \/ \E l \in Link : ConsumeRead(b, l)
  PROVE  TNext
<1>0. act \in [Browser -> ActRecord] /\ act[b] \in ActRecord /\ Owned(act[b])  BY DEF IInv, ActsInv
<1>1. ASSUME NEW l \in Link, ConsumeRead(b, l) PROVE TNext
  <2>1. /\ act[b].at \in {"idle", "unloaded"} /\ act'[b].at = "mark" /\ act'[b].item = l
        /\ \A d \in Browser \ {b} : act'[d] = act[d]
    BY <1>0, <1>1 DEF ConsumeRead, Idle, ToFor, ActRecord
  <2>a. UseOf[b] = Ticket!Idle  BY <2>1, UseIs
  <2>2. UseOf[b].at = "idle"  BY <2>a DEF Ticket!Idle
  <2>3. UseOf' = [UseOf EXCEPT ![b] = [at |-> "accepted", t |-> {l}]]  BY <2>1, UseMoves, UseIsNext
  <2>4. TicketOf[l] = "issued"  BY <1>1, TicketIs DEF ConsumeRead
  <2>5. UNCHANGED TicketOf  BY <1>1, TicketStays DEF ConsumeRead, db
  <2>6. Ticket!Accept(b, l)  BY <2>2, <2>3, <2>4, <2>5 DEF Ticket!Accept
  <2> QED BY <2>6 DEF TNext, Ticket!TicketNext
<1>2. CASE ConsumeMark(b)
  <2> DEFINE l == act[b].item
  <2>1. /\ act[b].at = "mark" /\ l \in Link /\ act'[b].at = "open" /\ act'[b].item = l
        /\ \A d \in Browser \ {b} : act'[d] = act[d]
    BY <1>0, <1>2 DEF ConsumeMark, At, To, Owned, ActRecord
  <2> HIDE DEF l
  <2>2. UseOf[b] = [at |-> "accepted", t |-> {l}]  BY <2>1, UseIs DEF l
  <2>3. UseOf'[b] = [at |-> "marked", t |-> {l}]  BY <2>1, UseIsNext
  <2>4. UseOf' = [UseOf EXCEPT ![b] = [at |-> "marked", t |-> {l}]]  BY <2>1, <2>3, UseMoves
  <2>5. UseOf' = [UseOf EXCEPT ![b].at = "marked"]
    <3>1. [UseOf[b] EXCEPT !.at = "marked"] = [at |-> "marked", t |-> {l}]  BY <2>2
    <3> QED BY <2>4, <3>1
  <2>6. link \in [Link -> LinkRecord]  BY DEF IInv, DataInv, DataTypes
  <2>7. link'[l].st \notin {"none", "fresh"} /\ \A m \in Link \ {l} : link'[m] = link[m]
    BY <1>2, <2>1, <2>6 DEF ConsumeMark, LinkRecord, l
  <2>8. TicketOf'[l] = "spent" /\ \A m \in Link \ {l} : TicketOf'[m] = TicketOf[m]
    BY <2>1, <2>7, TicketIsNext DEF TicketOf
  <2>9. TicketOf' = [TicketOf EXCEPT ![l] = "spent"]
    <3>1. TicketOf' = [m \in Link |-> TicketOf'[m]] /\ TicketOf = [m \in Link |-> TicketOf[m]]
      BY DEF TicketOf
    <3> QED BY <2>1, <2>8, <3>1
  <2>10. Ticket!Spend(b, l)  BY <2>2, <2>5, <2>9 DEF Ticket!Spend
  <2> QED BY <2>1, <2>10 DEF TNext, Ticket!TicketNext
<1> QED BY <1>1, <1>2

\* Links that lapse together are withdrawn.
LEMMA LapseRefines ==
  ASSUME NEW T \in SUBSET Link, \A l \in T : link[l].st = "fresh" /\ link'[l].st \notin {"none", "fresh"},
         \A l \in Link \ T : TicketOf'[l] = TicketOf[l], UNCHANGED UseOf
  PROVE  TNext
<1>1. \A l \in T : TicketOf[l] = "issued" /\ TicketOf'[l] = "spent"  BY TicketIs, TicketIsNext
<1>2. TicketOf' = [l \in Link |-> TicketOf'[l]]  BY DEF TicketOf
<1>3. TicketOf' = [l \in Link |-> IF l \in T THEN "spent" ELSE TicketOf[l]]  BY <1>1, <1>2
<1>4. Ticket!Withdraw(T)  BY <1>1, <1>3 DEF Ticket!Withdraw
<1> QED BY <1>4 DEF TNext, Ticket!TicketNext

\* A link that is made is issued; one that expires, and all those of an account that is
\* deleted, are withdrawn.
LEMMA LinkRefines ==
  ASSUME IInv, NEW l \in Link, LinkExpires(l) \/ \E b \in Browser : NewLink(b, l) \/ DeleteUser(b)
  PROVE  TNext
<1>0. link \in [Link -> LinkRecord] /\ \A m \in Link : link[m] \in LinkRecord
  BY DEF IInv, DataInv, DataTypes
<1>1. CASE LinkExpires(l)
  <2>1. /\ UNCHANGED act /\ link[l].st = "fresh" /\ link'[l].st = "expired"
        /\ \A m \in Link \ {l} : link'[m] = link[m]
    BY <1>0, <1>1 DEF LinkExpires, LinkRecord
  <2>2. UNCHANGED UseOf /\ \A m \in Link \ {l} : TicketOf'[m] = TicketOf[m]  BY <2>1 DEF UseOf, At, TicketOf
  <2> QED BY <2>1, <2>2, LapseRefines
<1>2. ASSUME NEW b \in Browser, NewLink(b, l) PROVE TNext
  <2>1. Idles(b) /\ act[b].at = "newLink"  BY <1>2, GoesIdle DEF NewLink, At, IInv
  <2>2. CASE act[b].u # user  BY <1>2, <2>1, <2>2, IdleRefines DEF NewLink
  <2>3. CASE act[b].u = user
    <3>1. /\ link[l].st = "none" /\ link'[l].st = "fresh"
          /\ \A m \in Link \ {l} : link'[m] = link[m]
      BY <1>0, <1>2, <2>3 DEF NewLink
    <3>2. TicketOf[l] = "none" /\ TicketOf'[l] = "issued" /\ \A m \in Link \ {l} : TicketOf'[m] = TicketOf[m]
      BY <3>1, TicketIs, TicketIsNext DEF TicketOf
    <3>3. TicketOf' = [TicketOf EXCEPT ![l] = "issued"]
      <4>1. TicketOf' = [m \in Link |-> TicketOf'[m]] /\ TicketOf = [m \in Link |-> TicketOf[m]]
        BY DEF TicketOf
      <4> QED BY <3>2, <4>1
    <3>4. UNCHANGED UseOf
      <4>1. UseOf[b] = Ticket!Idle /\ UseOf'[b] = Ticket!Idle  BY <2>1, UseIs, UseIsNext DEF Idles
      <4>2. UseOf = [d \in Browser |-> UseOf[d]]  BY DEF UseOf
      <4> QED BY <2>1, <4>1, <4>2, UseMoves DEF Idles
    <3>5. Ticket!Issue(l)  BY <3>2, <3>3, <3>4 DEF Ticket!Issue
    <3> QED BY <3>5 DEF TNext, Ticket!TicketNext
  <2> QED BY <2>2, <2>3
<1>3. ASSUME NEW b \in Browser, DeleteUser(b) PROVE TNext
  <2>1. Idles(b) /\ act[b].at = "deleteUser" /\ act[b].u # 0
    BY <1>3, GoesIdle DEF DeleteUser, At, IInv, Pcs, ActsInv, Owned
  <2>2. UNCHANGED UseOf
    <3>1. UseOf[b] = Ticket!Idle /\ UseOf'[b] = Ticket!Idle  BY <2>1, UseIs, UseIsNext DEF Idles
    <3>2. UseOf = [d \in Browser |-> UseOf[d]]  BY DEF UseOf
    <3> QED BY <2>1, <3>1, <3>2, UseMoves DEF Idles
  <2>3. \A m \in Link : \/ link[m].u = act[b].u /\ link'[m].st = "gone" /\ link[m].st # "none"
                        \/ link[m].u # act[b].u /\ link'[m] = link[m]
    <3>1. \A m \in Link : [link[m] EXCEPT !.st = "gone"].st = "gone"  BY <1>0 DEF LinkRecord
    <3>2. \A m \in Link : link'[m] = IF link[m].u = act[b].u THEN [link[m] EXCEPT !.st = "gone"] ELSE link[m]
      BY <1>3 DEF DeleteUser
    <3>3. \A m \in Link : link[m].u = act[b].u => link[m].st # "none"
      BY <2>1 DEF IInv, DataInv, RowsOwned
    <3> QED BY <3>1, <3>2, <3>3
  <2> DEFINE T == {m \in Link : link[m].u = act[b].u /\ link[m].st = "fresh"}
  <2>4. \A m \in T : link[m].st = "fresh" /\ link'[m].st \notin {"none", "fresh"}  BY <2>3
  <2>5. ASSUME NEW m \in Link \ T PROVE TicketOf'[m] = TicketOf[m]
    <3>1. CASE link'[m] = link[m]  BY <3>1 DEF TicketOf
    <3>2. CASE link'[m].st = "gone" /\ link[m].st \notin {"none", "fresh"}  BY <3>2, TicketIs, TicketIsNext
    <3> QED BY <2>3, <2>5, <3>1, <3>2
  <2> HIDE DEF T
  <2>6. T \in SUBSET Link  BY DEF T
  <2> QED BY <2>2, <2>4, <2>5, <2>6, LapseRefines
<1> QED BY <1>1, <1>2, <1>3

\* An account that is deleted when there is no link withdraws none.
LEMMA DeleteUserRefines == ASSUME IInv, NEW b \in Browser, DeleteUser(b) PROVE TNext
<1>1. CASE Link = {}
  <2>1. UNCHANGED link  BY <1>1 DEF DeleteUser, IInv, DataInv, DataTypes
  <2>2. Idles(b)  BY GoesIdle DEF DeleteUser, IInv, Pcs
  <2> QED BY <2>1, <2>2, IdleRefines
<1>2. CASE Link # {}  BY <1>2, LinkRefines
<1> QED BY <1>1, <1>2

\* Every step is a step of the tickets, or none.
LEMMA NextRefines == ASSUME IInv, [Next]_vars PROVE TNext
<1>1. CASE UNCHANGED <<link, act>>
  BY <1>1, TicketStays DEF TNext, UseOf, At
<1>2. (\E s \in Session : SessionExpires(s)) \/ (\E u \in Users : ChalExpires(u)) \/ UNCHANGED vars
        => UNCHANGED <<link, act>>
  BY DEF SessionExpires, ChalExpires, vars, db
<1> QED BY <1>1, <1>2, QuietRefines, ConsumeRefines, LinkRefines, DeleteUserRefines DEF Next

\* The initial state has no ticket and no use.
LEMMA InitRefines == Init => Ticket!TicketInit
BY DEF Init, Ticket!TicketInit, Ticket!Idle, TicketOf, UseOf, At

\* A ticket has its state and a use its two fields.
LEMMA TicketsAre ==
  /\ TicketOf = [t \in Link |-> TicketOf[t]]
  /\ UseOf = [u \in Browser |-> UseOf[u]] /\ \A u \in Browser : UseOf[u] = [at |-> UseOf[u].at, t |-> UseOf[u].t]
BY DEF TicketOf, UseOf

\* What a step of the tickets keeps, whatever it is.
LEMMA TicketKeeps ==
  ASSUME TNext, Ticket!ServedWhenSpent
  PROVE  Ticket!ServedWhenSpent' /\ Ticket!SpentStays
<1> DEFINE k == TicketOf
           v == UseOf
           l == TicketOf'
           w == UseOf'
<1>1. /\ k = [t \in Link |-> k[t]]
      /\ v = [u \in Browser |-> v[u]] /\ \A u \in Browser : v[u] = [at |-> v[u].at, t |-> v[u].t]
  BY TicketsAre
<1>2. \A u \in Browser, t \in Link : v[u].at \in {"marked", "served"} /\ t \in v[u].t => k[t] = "spent"
  BY DEF Ticket!ServedWhenSpent
<1> DEFINE Fine ==
      /\ \A u \in Browser, t \in Link : w[u].at \in {"marked", "served"} /\ t \in w[u].t => l[t] = "spent"
      /\ \A t \in Link : k[t] = "spent" => l[t] = "spent" /\ \A u \in Browser : t \in w[u].t => t \in v[u].t
<1> SUFFICES Fine  BY DEF Ticket!ServedWhenSpent, Ticket!SpentStays
<1> HIDE DEF k, v, l, w
<1>3. CASE l = k /\ w = v  BY <1>2, <1>3
<1>4. ASSUME NEW t \in Link, k[t] = "none", l = [k EXCEPT ![t] = "issued"], w = v PROVE Fine
  BY <1>1, <1>2, <1>4
<1>5. ASSUME NEW T \in SUBSET Link, l = [t \in Link |-> IF t \in T THEN "spent" ELSE k[t]], w = v PROVE Fine
  BY <1>1, <1>2, <1>5
<1>6. ASSUME NEW u \in Browser, NEW t \in Link, k[t] = "issued", l = k,
             w = [v EXCEPT ![u] = [at |-> "accepted", t |-> {t}]]
      PROVE  Fine
  <2>1. w[u] = [at |-> "accepted", t |-> {t}] /\ \A d \in Browser \ {u} : w[d] = v[d]  BY <1>1, <1>6
  <2> QED BY <1>2, <1>6, <2>1
<1>7. ASSUME NEW u \in Browser, NEW t \in Link, v[u] = [at |-> "accepted", t |-> {t}],
             w = [v EXCEPT ![u].at = "marked"], l = [k EXCEPT ![t] = "spent"]
      PROVE  Fine
  <2>1. w[u] = [at |-> "marked", t |-> {t}] /\ \A d \in Browser \ {u} : w[d] = v[d]  BY <1>1, <1>7
  <2>2. l[t] = "spent" /\ \A d \in Link \ {t} : l[d] = k[d]  BY <1>1, <1>7
  <2> QED BY <1>2, <1>7, <2>1, <2>2
<1>8. ASSUME NEW u \in Browser, v[u].at = "marked", w = [v EXCEPT ![u].at = "served"], l = k PROVE Fine
  <2>1. w[u].at = "served" /\ w[u].t = v[u].t /\ \A d \in Browser \ {u} : w[d] = v[d]  BY <1>1, <1>8
  <2> QED BY <1>2, <1>8, <2>1
<1>9. ASSUME NEW u \in Browser, w = [v EXCEPT ![u] = [at |-> "idle", t |-> {}]], l = k PROVE Fine
  <2>1. w[u] = [at |-> "idle", t |-> {}] /\ \A d \in Browser \ {u} : w[d] = v[d]  BY <1>1, <1>9
  <2> QED BY <1>2, <1>9, <2>1
<1>10. \/ l = k /\ w = v
       \/ \E t \in Link : k[t] = "none" /\ l = [k EXCEPT ![t] = "issued"] /\ w = v
       \/ \E T \in SUBSET Link : l = [t \in Link |-> IF t \in T THEN "spent" ELSE k[t]] /\ w = v
       \/ \E u \in Browser :
            \/ v[u].at = "marked" /\ w = [v EXCEPT ![u].at = "served"] /\ l = k
            \/ w = [v EXCEPT ![u] = [at |-> "idle", t |-> {}]] /\ l = k
            \/ \E t \in Link :
                 \/ k[t] = "issued" /\ w = [v EXCEPT ![u] = [at |-> "accepted", t |-> {t}]] /\ l = k
                 \/ /\ v[u] = [at |-> "accepted", t |-> {t}] /\ w = [v EXCEPT ![u].at = "marked"]
                    /\ l = [k EXCEPT ![t] = "spent"]
  BY DEF TNext, Ticket!TicketNext, Ticket!Issue, Ticket!Withdraw, Ticket!Accept, Ticket!Spend, Ticket!Serve,
         Ticket!Leave, Ticket!Idle, k, v, l, w
<1> HIDE DEF Fine
<1> QED BY <1>3, <1>4, <1>5, <1>6, <1>7, <1>8, <1>9, <1>10

\* No use has a ticket at first.
LEMMA TicketBegins == Init => Ticket!ServedWhenSpent
<1>1. ASSUME Init PROVE \A u \in Browser : UseOf[u].at = "idle"
  BY <1>1 DEF Init, UseOf, At
<1> QED BY <1>1 DEF Ticket!ServedWhenSpent

-----------------------------------------------------------------------------
\* Theorem: the inductive invariant of the sign-in holds in every reachable state.
THEOREM Invariance == Spec => []IInv
BY InitIInv, NextIInv, PTL DEF Spec

\* Theorem: every variable has its type in every reachable state.
THEOREM TypeCorrect == Spec => []TypeOK
<1>1. IInv => TypeOK
  BY DEF IInv, ActsInv, ActRecord, DataInv, DataTypes, LinkRecord, SessionRecord, TypeOK
<1> QED BY <1>1, Invariance, PTL

\* Theorem: a passkey or a link that is still good belongs to the account as it
\* is now, whatever was in flight when the account was deleted and made again
\* (the foreign keys of 0001_init.sql, and account.ts).
THEOREM NothingOrphaned == Spec => []NoOrphans
<1>1. IInv => NoOrphans  BY DEF IInv, DataInv
<1> QED BY <1>1, Invariance, PTL

\* Theorem: a live session is held by a browser, unless its answer or its
\* sign-out was lost or a later sign-in took its place (routes/auth.ts, app.js).
THEOREM AllSessionsAccounted == Spec => []SessionsAccounted
<1>1. IInv => SessionsAccounted  BY DEF IInv, DataInv
<1> QED BY <1>1, Invariance, PTL

\* Theorem: the two statements of GET /magic/consume, with requests, expiry and
\* account deletion around them, implement OneTimeTicket: nobody is admitted
\* with a link that is spent, and nobody is signed in before it is.
THEOREM LinksAreTickets == Spec => LinkIsTicket
<1>1. IInv /\ [Next]_vars => TNext  BY NextRefines
<1> QED BY <1>1, InitRefines, Invariance, PTL DEF Spec, LinkIsTicket, Ticket!TicketSpec, TNext

\* Theorem: no session is made before its link is spent; and a link that was used, or has
\* lapsed with its account, is never good again and lets no browser in that was not let in
\* before (routes/auth.ts:57-80): OneTimeTicket says what a reader of it expects.
THEOREM SpentLinksAdmitNobody == Spec => []Ticket!ServedWhenSpent /\ Ticket!SpentForGood
<1>1. IInv /\ [Next]_vars => TNext  BY NextRefines
<1>2. TNext /\ Ticket!ServedWhenSpent => Ticket!ServedWhenSpent'  BY TicketKeeps
<1>3. TNext /\ Ticket!ServedWhenSpent => [Ticket!SpentStays]_<<TicketOf, UseOf>>  BY TicketKeeps
<1> QED BY <1>1, <1>2, <1>3, TicketBegins, Invariance, PTL DEF Spec, Ticket!SpentForGood
=============================================================================
