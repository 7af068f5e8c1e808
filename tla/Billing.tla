------------------------------- MODULE Billing -------------------------------
(***************************************************************************)
(* The full refunds of one paid invoice and the events of one subscription *)
(* (src/server/billing/localBillingEngine.ts).  Paddle, which is external, *)
(* answers or not, decides on refunds in its own time, and sends its       *)
(* events in any order and more than once.  A step is one statement, one   *)
(* transaction or one call of Paddle.                                      *)
(***************************************************************************)
EXTENDS Naturals, FiniteSets

CONSTANTS
  Refunds,           \* ids of refund requests
  Handlers,          \* bound: webhook requests in flight
  SubscriptionCount, \* bound: events of the subscription, the first is its creation
  MaxDeliveries,     \* bound: deliveries of events
  MaxBillingFaults   \* bound: statements that fail, answers that are late, processes that end

ASSUME BillingAssumption ==
  SubscriptionCount \in Nat /\ MaxDeliveries \in Nat /\ MaxBillingFaults \in Nat

VARIABLES
  refund,        \* rows of billing_refunds
  asking,        \* where refund() stands, and Paddle's answer
  adjustment,    \* Paddle: the refund of each request
  occurred,      \* Paddle: the events there are
  recorded,      \* rows of billing_events
  subscription,  \* row of billing_subscriptions: number of the event it shows, 0 is no row
  handler,       \* the webhook requests
  givenUp,       \* history: requests marked failed after Paddle had been asked
  crossed,       \* history: an event about one refund changed the row of another
  overtaken,     \* history: a subscription event came late or next to another one
  cut,           \* history: a recorded event was not applied
  deliveries, billingFaults

billingVars == <<refund, asking, adjustment, occurred, recorded, subscription, handler,
                 givenUp, crossed, overtaken, cut, deliveries, billingFaults>>
refundVars == <<refund, asking, givenUp>>
eventVars == <<recorded, subscription, handler, overtaken, cut, deliveries>>

Statuses == {"pending", "succeeded", "failed"}
SubscriptionEvents == [about : {"subscription"}, no : 1 .. SubscriptionCount]
AdjustmentEvents == [about : Refunds, status : Statuses]
Events == SubscriptionEvents \cup AdjustmentEvents
NoEvent == [about |-> "nothing"]
Unused == [stage |-> "idle", event |-> NoEvent]

BillingTypeOK ==
  /\ refund \in [Refunds -> {"absent"} \cup Statuses]
  /\ asking \in [Refunds -> [stage : {"idle", "ask", "wait", "write", "invoice", "event", "catch", "done"},
                             answer : Statuses]]
  /\ adjustment \in [Refunds -> {"none"} \cup Statuses]
  /\ occurred \subseteq Events /\ recorded \subseteq occurred
  /\ subscription \in 0 .. SubscriptionCount
  /\ handler \in [Handlers -> [stage : {"idle", "record", "insert", "apply"}, event : Events \cup {NoEvent}]]
  /\ givenUp \subseteq Refunds /\ crossed \in BOOLEAN /\ overtaken \in BOOLEAN /\ cut \in BOOLEAN
  /\ deliveries \in Nat /\ billingFaults \in Nat

BillingInit ==
  /\ refund = [r \in Refunds |-> "absent"]
  /\ asking = [r \in Refunds |-> [stage |-> "idle", answer |-> "pending"]]
  /\ adjustment = [r \in Refunds |-> "none"]
  /\ occurred = {} /\ recorded = {} /\ subscription = 0
  /\ handler = [h \in Handlers |-> Unused]
  /\ givenUp = {} /\ crossed = FALSE /\ overtaken = FALSE /\ cut = FALSE
  /\ deliveries = 0 /\ billingFaults = 0

Asking(r, stage) == asking[r].stage = stage
AskGo(r, stage) == asking' = [asking EXCEPT ![r].stage = stage]

-----------------------------------------------------------------------------
(* refund()                                                                *)

\* Rows that hold the balance of the invoice; the mutant forgets pending ones.
ReservedLate == {r \in Refunds : refund[r] = "succeeded"}
Reserved == {r \in Refunds : refund[r] \in {"pending", "succeeded"}}

\* One transaction, under the lock of the invoice: all of it or nothing.
Reserve(r) ==
  /\ Asking(r, "idle") /\ Reserved = {}
  /\ refund' = [refund EXCEPT ![r] = "pending"]
  /\ AskGo(r, "ask")
  /\ UNCHANGED <<adjustment, occurred, eventVars, givenUp, crossed, billingFaults>>

Ask(r) ==
  /\ Asking(r, "ask")
  /\ AskGo(r, "wait")
  /\ UNCHANGED <<refund, adjustment, occurred, eventVars, givenUp, crossed, billingFaults>>

WriteRefund(r) ==
  /\ Asking(r, "write")
  /\ refund' = [refund EXCEPT ![r] = asking[r].answer]
  /\ AskGo(r, IF asking[r].answer = "succeeded" THEN "invoice" ELSE "event")
  /\ UNCHANGED <<adjustment, occurred, eventVars, givenUp, crossed, billingFaults>>

\* refunded_cents is shown only; then the refund is recorded as an event.
UpdateInvoice(r) ==
  /\ Asking(r, "invoice")
  /\ AskGo(r, "event")
  /\ UNCHANGED <<refund, adjustment, occurred, eventVars, givenUp, crossed, billingFaults>>

RecordRefund(r) ==
  /\ Asking(r, "event")
  /\ AskGo(r, "done")
  /\ UNCHANGED <<refund, adjustment, occurred, eventVars, givenUp, crossed, billingFaults>>

\* The catch block, whatever Paddle has done.
GiveUp(r) ==
  /\ Asking(r, "catch")
  /\ refund' = [refund EXCEPT ![r] = "failed"]
  /\ givenUp' = givenUp \cup {r}
  /\ AskGo(r, "done")
  /\ UNCHANGED <<adjustment, occurred, eventVars, crossed, billingFaults>>

\* A statement fails or the answer is late; or the process ends.
RefundFails(r) ==
  /\ asking[r].stage \notin {"idle", "done"} /\ billingFaults < MaxBillingFaults
  /\ billingFaults' = billingFaults + 1
  /\ \E stage \in {"catch", "done"} : AskGo(r, stage)
  /\ UNCHANGED <<refund, adjustment, occurred, eventVars, givenUp, crossed>>

-----------------------------------------------------------------------------
(* Paddle                                                                  *)

PaddleAnswers(r, status) ==
  /\ Asking(r, "wait") /\ adjustment[r] = "none"
  /\ adjustment' = [adjustment EXCEPT ![r] = status]
  /\ occurred' = occurred \cup {[about |-> r, status |-> status]}
  /\ asking' = [asking EXCEPT ![r] = [stage |-> "write", answer |-> status]]
  /\ UNCHANGED <<refund, eventVars, givenUp, crossed, billingFaults>>

\* The request arrives although nobody waits for the answer any more.
PaddleAcceptsLate(r, status) ==
  /\ r \in givenUp /\ adjustment[r] = "none"
  /\ adjustment' = [adjustment EXCEPT ![r] = status]
  /\ occurred' = occurred \cup {[about |-> r, status |-> status]}
  /\ UNCHANGED <<refundVars, eventVars, crossed, billingFaults>>

PaddleDecides(r, status) ==
  /\ adjustment[r] = "pending"
  /\ adjustment' = [adjustment EXCEPT ![r] = status]
  /\ occurred' = occurred \cup {[about |-> r, status |-> status]}
  /\ UNCHANGED <<refundVars, eventVars, crossed, billingFaults>>

SubscriptionChanges ==
  LET no == Cardinality(occurred \cap SubscriptionEvents) + 1 IN
  /\ no <= SubscriptionCount
  /\ occurred' = occurred \cup {[about |-> "subscription", no |-> no]}
  /\ UNCHANGED <<adjustment, refundVars, eventVars, crossed, billingFaults>>

-----------------------------------------------------------------------------
(* applyPaddleEvent()                                                      *)

Deliver(h, e) ==
  /\ handler[h] = Unused /\ deliveries < MaxDeliveries
  /\ deliveries' = deliveries + 1
  /\ handler' = [handler EXCEPT ![h] = [stage |-> "record", event |-> e]]
  /\ UNCHANGED <<refundVars, adjustment, occurred, recorded, subscription, crossed,
                 overtaken, cut, billingFaults>>

OutOfOrder(h, e) ==
  \/ recorded \cap SubscriptionEvents # {f \in SubscriptionEvents : f.no < e.no}
  \/ \E g \in Handlers \ {h} : handler[g].stage \in {"insert", "apply"}
                               /\ handler[g].event \in SubscriptionEvents

\* INSERT ... ON CONFLICT(id) DO NOTHING; the mutant knows no event again.
KnownNever(e) == FALSE
Known(e) == e \in recorded
RecordEvent(h) ==
  /\ handler[h].stage = "record"
  /\ LET e == handler[h].event IN
     IF Known(e) THEN handler' = [handler EXCEPT ![h] = Unused] /\ UNCHANGED <<recorded, overtaken>>
     ELSE /\ recorded' = recorded \cup {e}
          /\ handler' = [handler EXCEPT ![h].stage =
               IF e \in SubscriptionEvents /\ e.no = 1 THEN "insert" ELSE "apply"]
          /\ overtaken' = (overtaken \/ (e \in SubscriptionEvents \ recorded /\ OutOfOrder(h, e)))
  /\ UNCHANGED <<refundVars, adjustment, occurred, subscription, crossed, cut, deliveries, billingFaults>>

\* subscription.created: other subscriptions end, which are not of this model.
EndOthers(h) ==
  /\ handler[h].stage = "insert"
  /\ handler' = [handler EXCEPT ![h].stage = "apply"]
  /\ UNCHANGED <<refundVars, adjustment, occurred, recorded, subscription, crossed,
                 overtaken, cut, deliveries, billingFaults>>

\* An update of a row that is not there changes nothing.
ApplySubscription(h) ==
  /\ handler[h].stage = "apply" /\ handler[h].event \in SubscriptionEvents
  /\ subscription' = IF handler[h].event.no = 1 \/ subscription # 0
                     THEN handler[h].event.no ELSE subscription
  /\ handler' = [handler EXCEPT ![h] = Unused]
  /\ UNCHANGED <<refundVars, adjustment, occurred, recorded, crossed, overtaken, cut,
                 deliveries, billingFaults>>

\* Every refund of the invoice takes the status.
ApplyAdjustment(h) ==
  /\ handler[h].stage = "apply" /\ handler[h].event \in AdjustmentEvents
  /\ LET e == handler[h].event
         rows == {r \in Refunds : refund[r] # "absent"} IN
     /\ refund' = [r \in Refunds |-> IF r \in rows THEN e.status ELSE refund[r]]
     /\ crossed' = (crossed \/ \E r \in rows \ {e.about} : refund[r] # e.status)
  /\ handler' = [handler EXCEPT ![h] = Unused]
  /\ UNCHANGED <<asking, givenUp, adjustment, occurred, recorded, subscription, overtaken, cut,
                 deliveries, billingFaults>>

HandlerFails(h) ==
  /\ handler[h] # Unused /\ billingFaults < MaxBillingFaults
  /\ billingFaults' = billingFaults + 1
  /\ cut' = (cut \/ handler[h].stage # "record")
  /\ handler' = [handler EXCEPT ![h] = Unused]
  /\ UNCHANGED <<refundVars, adjustment, occurred, recorded, subscription, crossed, overtaken, deliveries>>

BillingNext ==
  \/ \E r \in Refunds :
       \/ Reserve(r) \/ Ask(r) \/ WriteRefund(r) \/ UpdateInvoice(r) \/ RecordRefund(r)
       \/ GiveUp(r) \/ RefundFails(r)
       \/ \E status \in Statuses : PaddleAnswers(r, status) \/ PaddleAcceptsLate(r, status)
       \/ \E status \in {"succeeded", "failed"} : PaddleDecides(r, status)
  \/ SubscriptionChanges
  \/ \E h \in Handlers :
       \/ RecordEvent(h) \/ EndOthers(h) \/ ApplySubscription(h) \/ ApplyAdjustment(h) \/ HandlerFails(h)
       \/ \E e \in Events : e \in occurred /\ Deliver(h, e)

BillingSpec == BillingInit /\ [][BillingNext]_billingVars
-----------------------------------------------------------------------------
(* Properties                                                              *)

\* "Reserva transacional de refunds": the invoice is refunded once, be requests
\* concurrent, Paddle slow, events early or repeated and processes ended; but
\* for a request given up after Paddle was asked, and for an event about one
\* refund that was applied to another.
RefundedWithinBalance ==
  givenUp = {} /\ ~crossed =>
    Cardinality({r \in Refunds : adjustment[r] \in {"pending", "succeeded"}}) <= 1

\* A repeated delivery, early or late, does not set the subscription back: it
\* shows the newest event there is a record of, unless its first delivery was
\* out of order or failed half way.
RepeatsDoNotSetBack ==
  ~overtaken /\ ~cut /\ (\A h \in Handlers : handler[h].stage \notin {"insert", "apply"}) =>
    subscription = Cardinality(recorded \cap SubscriptionEvents)
=============================================================================
