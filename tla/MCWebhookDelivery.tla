-------------------------- MODULE MCWebhookDelivery --------------------------
(* Small instances of WebhookDelivery and its queue for TLC. *)
EXTENDS WebhookLease, TLC

CONSTANTS e1, e2, r1, t1, w1, w2, x1

NoEdits == {}
\* An edit of the name alone, a reactivation with another limit or with one
\* that is too high.
FewEdits == {[active |-> "keep", max |-> 0], [active |-> "on", max |-> 1],
             [active |-> "on", max |-> Cap + 1]}

WorkerSymmetry == Permutations(Workers)
=============================================================================
