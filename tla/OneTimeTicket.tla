--------------------------- MODULE OneTimeTicket ---------------------------
(***************************************************************************)
(* What a ticket kept in a store promises when "is it there" and "take it  *)
(* away" are two calls: nobody is admitted after it is spent, nothing is   *)
(* served before it is spent, and a spent ticket is never good again.  Two *)
(* uses that were both admitted before either spent it are both served.    *)
(* Delivery's download token and SignIn's magic link are such tickets.     *)
(***************************************************************************)
CONSTANTS Ticket, Use

VARIABLES
  ticket,   \* "none" before it is issued, "issued" while it is good, then "spent"
  use       \* the ticket each use holds, and how far it is

Idle == [at |-> "idle", t |-> {}]

TicketInit == /\ ticket = [t \in Ticket |-> "none"]
              /\ use = [u \in Use |-> Idle]

Issue(t) == ticket[t] = "none" /\ ticket' = [ticket EXCEPT ![t] = "issued"] /\ UNCHANGED use

\* Tickets that lapse together: one that expires, or all those of an account that is deleted.
Withdraw(T) == /\ \A t \in T : ticket[t] = "issued"
               /\ ticket' = [t \in Ticket |-> IF t \in T THEN "spent" ELSE ticket[t]]
               /\ UNCHANGED use

Accept(u, t) == /\ use[u].at = "idle" /\ ticket[t] = "issued"
                /\ use' = [use EXCEPT ![u] = [at |-> "accepted", t |-> {t}]]
                /\ UNCHANGED ticket
Spend(u, t)  == /\ use[u] = [at |-> "accepted", t |-> {t}]
                /\ use' = [use EXCEPT ![u].at = "marked"]
                /\ ticket' = [ticket EXCEPT ![t] = "spent"]
Serve(u)     == /\ use[u].at = "marked"
                /\ use' = [use EXCEPT ![u].at = "served"] /\ UNCHANGED ticket
Leave(u)     == /\ use[u].at # "idle"
                /\ use' = [use EXCEPT ![u] = Idle] /\ UNCHANGED ticket

TicketNext ==
  \/ \E t \in Ticket : Issue(t)
  \/ \E T \in SUBSET Ticket : Withdraw(T)
  \/ \E u \in Use : Serve(u) \/ Leave(u) \/ \E t \in Ticket : Accept(u, t) \/ Spend(u, t)

TicketSpec == TicketInit /\ [][TicketNext]_<<ticket, use>>

\* Nothing is served before its ticket is spent.
ServedWhenSpent ==
  \A u \in Use, t \in Ticket : use[u].at \in {"marked", "served"} /\ t \in use[u].t => ticket[t] = "spent"

\* A ticket that is spent stays so, and admits nobody who was not admitted before.
SpentStays ==
  \A t \in Ticket : ticket[t] = "spent" =>
    ticket'[t] = "spent" /\ \A u \in Use : t \in use'[u].t => t \in use[u].t
SpentForGood == [][SpentStays]_<<ticket, use>>
=============================================================================
