------------------------------- MODULE JobLease -------------------------------
(* The job queue of the functions as a LeaseQueue: the holders are the     *)
(* processQueue calls.                                                     *)
EXTENDS FunctionQueue

PlaceOf(i) ==
  IF target = "deleted" THEN "removed"
  ELSE CASE job[i].status = "absent"      -> "absent"
         [] job[i].status = "queued"      -> "waiting"
         [] job[i].status = "processing"  -> "claimed"
         [] job[i].status = "completed"   -> "done"
         [] job[i].status = "dead_letter" -> "dead"

Lease == INSTANCE LeaseQueue WITH
  Items   <- Jobs,
  Holders <- Calls,
  item    <- [i \in Jobs |-> PlaceOf(i)],
  tickets <- [i \in Jobs |-> CallsOf(i)],
  lapses  <- reset

\* Starts of instances that requeue what others run, claims that are dropped,
\* crashes and late outcomes do what LeaseQueue allows and no more.
ImplementsLease == Lease!LeaseSpec
=============================================================================
