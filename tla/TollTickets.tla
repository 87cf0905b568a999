----------------------------- MODULE TollTickets -----------------------------
(***************************************************************************)
(* What the coordinator promises about one comment toll ticket: it is      *)
(* created once, as "held"; its owner, its amount and its deadline never   *)
(* change; after the deadline its status is final, whatever it is; and     *)
(* money leaves it only by a settlement that happens before the deadline   *)
(* and leaves a verdict on it.  A restart of the process may forget        *)
(* tickets, or their latest moves, but it never invents one.               *)
(*                                                                         *)
(* It promises no more than that: a ticket may be settled again before its *)
(* deadline, and a settled ticket may be submitted again.                  *)
(***************************************************************************)
EXTENDS Integers

CONSTANTS Ids,       \* ticket ids
          Terms,     \* what a ticket fixes for good: owner and amount
          Deadlines

VARIABLES clock, tickets, settlements

Verdicts == {"approved", "spam", "trash"}
Statuses == {"held", "submitted"} \cup Verdicts

tvars == <<clock, tickets, settlements>>

TInit ==
  /\ clock = 0
  /\ tickets = [t \in {} |-> t]
  /\ settlements = [t \in Ids |-> 0]

Pass == clock' = clock + 1 /\ UNCHANGED <<tickets, settlements>>

Issue(t) ==
  /\ t \notin DOMAIN tickets
  /\ DOMAIN tickets' = DOMAIN tickets \cup {t}
  /\ \A x \in DOMAIN tickets : tickets'[x] = tickets[x]
  /\ tickets'[t].terms \in Terms
  /\ tickets'[t].deadline \in Deadlines /\ tickets'[t].deadline >= clock
  /\ tickets'[t].status = "held"
  /\ UNCHANGED <<clock, settlements>>

Move(t, status) ==
  /\ t \in DOMAIN tickets /\ tickets[t].deadline >= clock
  /\ tickets' = [tickets EXCEPT ![t].status = status]
  /\ UNCHANGED clock

Submit(t) == Move(t, "submitted") /\ UNCHANGED settlements

Settle(t, verdict) ==
  /\ Move(t, verdict)
  /\ settlements' = [settlements EXCEPT ![t] = @ + 1]

\* The tickets as a new process finds them on disk.
Reload ==
  /\ DOMAIN tickets' \subseteq DOMAIN tickets
  /\ \A t \in DOMAIN tickets' :
       /\ tickets'[t].terms = tickets[t].terms
       /\ tickets'[t].deadline = tickets[t].deadline
       /\ tickets'[t].status \in Statuses
  /\ UNCHANGED <<clock, settlements>>

TNext ==
  \/ Pass
  \/ \E t \in Ids : Issue(t)
  \/ \E t \in Ids : Submit(t)
  \/ \E t \in Ids, v \in Verdicts : Settle(t, v)
  \/ Reload

TSpec == TInit /\ [][TNext]_tvars
=============================================================================
