----------------------------- MODULE WebhookLease -----------------------------
(* The webhook delivery queue as a LeaseQueue: the loops are the holders.  *)
EXTENDS WebhookDelivery

PlaceOf(i) ==
  IF ~hook.exists THEN "removed"
  ELSE CASE row[i].status = "absent"                -> "absent"
         [] row[i].status \in {"pending", "failed"} -> "waiting"
         [] row[i].status = "processing"            -> "claimed"
         [] row[i].status = "delivered"             -> "done"
         [] row[i].status = "dead_letter"           -> "dead"

\* A loop that has written a success but not the webhook can take it back.
TicketHolders(i) ==
  {w \in Workers : \/ \E c \in batch[w] : c.id = i
                   \/ task[w].id = i /\ task[w].stage \in Unwritten \cup {"okhook"}}

Lease == INSTANCE LeaseQueue WITH
  Items   <- QueueIds,
  Holders <- Workers,
  item    <- [i \in QueueIds |-> PlaceOf(i)],
  tickets <- [i \in QueueIds |-> TicketHolders(i)],
  lapses  <- [i \in QueueIds |-> recovered[i]]

\* The claims, recoveries, late writes, crashes and errors of the delivery
\* queue do what LeaseQueue allows and no more: in particular only a loop that
\* holds the row settles it or reopens what is settled.
ImplementsLease == Lease!LeaseSpec
=============================================================================
