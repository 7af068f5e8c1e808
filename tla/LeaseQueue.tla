------------------------------ MODULE LeaseQueue ------------------------------
(***************************************************************************)
(* What a queue in a table promises to those who work it off, whatever the *)
(* table, the statements and the processes are: items are handed out only  *)
(* while they wait, a claim that lapses does not take the ticket back from *)
(* its holder, and an outcome is reported by a ticket holder only.  The    *)
(* webhook deliveries (WebhookLease) and the function jobs (JobLease) are  *)
(* shown to implement it.                                                  *)
(***************************************************************************)
EXTENDS Naturals, FiniteSets

CONSTANTS Items, Holders

VARIABLES
  item,      \* where each item is
  tickets,   \* those who may still report the outcome of an item
  lapses     \* how often a claim of the item has lapsed

leaseVars == <<item, tickets, lapses>>

Places == {"absent", "waiting", "claimed", "done", "dead", "removed"}

LeaseTypeOK ==
  /\ item \in [Items -> Places]
  /\ tickets \in [Items -> SUBSET Holders]
  /\ lapses \in [Items -> Nat]

LeaseInit ==
  /\ item = [i \in Items |-> "absent"]
  /\ tickets = [i \in Items |-> {}]
  /\ lapses = [i \in Items |-> 0]

Offer(i) ==
  /\ item[i] = "absent"
  /\ item' = [item EXCEPT ![i] = "waiting"]
  /\ UNCHANGED <<tickets, lapses>>

\* One holder takes some of the items that wait.
Claim(h, S) ==
  /\ \A i \in S : item[i] = "waiting"
  /\ item' = [i \in Items |-> IF i \in S THEN "claimed" ELSE item[i]]
  /\ tickets' = [i \in Items |-> IF i \in S THEN tickets[i] \cup {h} ELSE tickets[i]]
  /\ UNCHANGED lapses

\* The outcome of a holder, which may be late; who reports success may keep
\* the ticket for the rest of its work and take the success back with it.
Report(h, i, outcome) ==
  /\ h \in tickets[i] /\ item[i] # "removed"
  /\ item' = [item EXCEPT ![i] = outcome]
  /\ \/ tickets' = [tickets EXCEPT ![i] = @ \ {h}]
     \/ outcome = "done" /\ UNCHANGED tickets
  /\ UNCHANGED lapses

\* Holders give up, or die, and say nothing.
Release(H, S) ==
  /\ UNCHANGED <<item, lapses>>
  /\ tickets' = [i \in Items |-> IF i \in S THEN tickets[i] \ H ELSE tickets[i]]

\* Claims are taken for abandoned, with or without reason.
Lapse(S) ==
  /\ \A i \in S : item[i] = "claimed"
  /\ item' = [i \in Items |-> IF i \in S THEN "waiting" ELSE item[i]]
  /\ lapses' = [i \in Items |-> IF i \in S THEN lapses[i] + 1 ELSE lapses[i]]
  /\ UNCHANGED tickets

Retry(i) ==
  /\ item[i] = "dead"
  /\ item' = [item EXCEPT ![i] = "waiting"]
  /\ UNCHANGED <<tickets, lapses>>

\* The queue is deleted with everything in it.
Remove ==
  /\ item' = [i \in Items |-> "removed"]
  /\ UNCHANGED <<tickets, lapses>>

LeaseNext ==
  \/ \E H \in SUBSET Holders, S \in SUBSET Items : Release(H, S)
  \/ \E i \in Items : Offer(i) \/ Retry(i)
  \/ \E h \in Holders, S \in SUBSET Items : Claim(h, S)
  \/ \E h \in Holders, i \in Items, outcome \in {"done", "waiting", "dead"} : Report(h, i, outcome)
  \/ \E S \in SUBSET Items : Lapse(S)
  \/ Remove

LeaseSpec == LeaseInit /\ [][LeaseNext]_leaseVars
-----------------------------------------------------------------------------
(* Properties                                                              *)

\* An item is in the hands of one holder, and of one more for every claim of
\* it that lapsed; while it waits, or is dead, only lapsed ones are left.
TicketsBounded ==
  \A i \in Items :
    /\ Cardinality(tickets[i]) <= lapses[i] + 1
    /\ item[i] \in {"waiting", "dead"} => Cardinality(tickets[i]) <= lapses[i]
    /\ item[i] = "absent" => tickets[i] = {}
=============================================================================
