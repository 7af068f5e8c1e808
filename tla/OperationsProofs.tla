-------------------------- MODULE OperationsProofs --------------------------
(* Proofs about the refunds of an invoice and the events of a subscription   *)
(* (Billing), and about the chains of backups (BackupChain).                 *)
EXTENDS Billing, BackupChain, FiniteSetTheorems, WellFoundedInduction, TLAPS

-----------------------------------------------------------------------------
(* Events                                                                   *)

Upto(n) == {e \in SubscriptionEvents : e.no <= n}

\* The events of the subscription are as many as their numbers.
LEMMA UptoCounts ==
  ASSUME NEW n \in 0 .. SubscriptionCount
  PROVE  IsFiniteSet(Upto(n)) /\ Cardinality(Upto(n)) = n
<1> DEFINE f == [i \in 1 .. n |-> [about |-> "subscription", no |-> i]]
<1>0. SubscriptionCount \in Nat /\ n \in Nat  BY BillingAssumption DEF BillingAssumption
<1>1. f \in [1 .. n -> Upto(n)]
  <2> SUFFICES ASSUME NEW i \in 1 .. n
               PROVE  [about |-> "subscription", no |-> i] \in Upto(n)
    OBVIOUS
  <2> QED  BY <1>0 DEF Upto, SubscriptionEvents
<1>2. \A i, j \in 1 .. n : f[i] = f[j] => i = j
  <2> SUFFICES ASSUME NEW i \in 1 .. n, NEW j \in 1 .. n, f[i] = f[j]  PROVE i = j
    OBVIOUS
  <2>1. f[i].no = i /\ f[j].no = j  OBVIOUS
  <2> QED  BY <2>1
<1>3. \A e \in Upto(n) : \E i \in 1 .. n : f[i] = e
  <2> SUFFICES ASSUME NEW e \in Upto(n)  PROVE \E i \in 1 .. n : f[i] = e
    OBVIOUS
  <2>1. e = [about |-> "subscription", no |-> e.no] /\ e.no \in 1 .. n
    BY <1>0 DEF Upto, SubscriptionEvents
  <2>2. f[e.no] = e  BY <2>1
  <2> QED  BY <2>1, <2>2
<1> HIDE DEF f
<1>4. f \in Bijection(1 .. n, Upto(n))
  BY <1>1, <1>2, <1>3 DEF Bijection, Injection, Surjection, IsInjective
<1>5. ExistsBijection(1 .. n, Upto(n))  BY <1>4 DEF ExistsBijection
<1>6. IsFiniteSet(1 .. n) /\ Cardinality(1 .. n) = n  BY <1>0, FS_Interval
<1> QED  BY <1>5, <1>6, FS_Bijection

\* An event is about the subscription or about a refund.
LEMMA EventKinds ==
  /\ SubscriptionEvents \cap AdjustmentEvents = {}
  /\ NoEvent \notin Events
<1>1. \A e \in SubscriptionEvents : DOMAIN e = {"about", "no"}  BY DEF SubscriptionEvents
<1>2. \A e \in AdjustmentEvents : DOMAIN e = {"about", "status"}  BY DEF AdjustmentEvents
<1>3. DOMAIN NoEvent = {"about"}  BY DEF NoEvent
<1>4. "no" \in {"about", "no"} /\ "no" \notin {"about", "status"} /\ "status" \in {"about", "status"}
      /\ "no" \notin {"about"} /\ "status" \notin {"about"}
  OBVIOUS
<1> QED  BY <1>1, <1>2, <1>3, <1>4 DEF Events

-----------------------------------------------------------------------------
(* Types                                                                    *)

AskRows == [stage : {"idle", "ask", "wait", "write", "invoice", "event", "catch", "done"},
            answer : Statuses]
HandlerRows == [stage : {"idle", "record", "insert", "apply"}, event : Events \cup {NoEvent}]

\* A webhook request is busy with an event there is.
HandlersKnow == \A h \in Handlers : handler[h] # Unused => handler[h].event \in occurred
Base == BillingTypeOK /\ HandlersKnow

LEMMA Typed ==
  ASSUME BillingTypeOK
  PROVE  /\ refund \in [Refunds -> {"absent"} \cup Statuses]
         /\ asking \in [Refunds -> AskRows]
         /\ adjustment \in [Refunds -> {"none"} \cup Statuses]
         /\ occurred \subseteq Events /\ recorded \subseteq occurred
         /\ subscription \in 0 .. SubscriptionCount
         /\ handler \in [Handlers -> HandlerRows]
         /\ givenUp \subseteq Refunds /\ crossed \in BOOLEAN
         /\ overtaken \in BOOLEAN /\ cut \in BOOLEAN
         /\ deliveries \in Nat /\ billingFaults \in Nat
BY DEF BillingTypeOK, AskRows, HandlerRows

\* The state of the refunds and of Paddle, and that of the webhook requests.
RefundTypes ==
  /\ refund \in [Refunds -> {"absent"} \cup Statuses]
  /\ asking \in [Refunds -> AskRows]
  /\ adjustment \in [Refunds -> {"none"} \cup Statuses]
  /\ givenUp \subseteq Refunds /\ crossed \in BOOLEAN /\ billingFaults \in Nat
EventTypes ==
  /\ occurred \subseteq Events /\ recorded \subseteq occurred
  /\ subscription \in 0 .. SubscriptionCount
  /\ handler \in [Handlers -> HandlerRows]
  /\ overtaken \in BOOLEAN /\ cut \in BOOLEAN /\ deliveries \in Nat

LEMMA TypesSplit == BillingTypeOK <=> RefundTypes /\ EventTypes
BY DEF BillingTypeOK, RefundTypes, EventTypes, AskRows, HandlerRows

\* Kinds of steps: of a refund request, of Paddle and of a webhook request.
RefundSteps(r) ==
  \/ Reserve(r) \/ Ask(r) \/ WriteRefund(r) \/ UpdateInvoice(r) \/ RecordRefund(r)
  \/ GiveUp(r) \/ RefundFails(r)
PaddleSteps(r) ==
  \/ \E status \in Statuses : PaddleAnswers(r, status) \/ PaddleAcceptsLate(r, status)
  \/ \E status \in {"succeeded", "failed"} : PaddleDecides(r, status)
HandlerSteps(h) ==
  \/ RecordEvent(h) \/ EndOthers(h) \/ ApplySubscription(h) \/ ApplyAdjustment(h) \/ HandlerFails(h)
  \/ \E e \in Events : e \in occurred /\ Deliver(h, e)

LEMMA StepKinds ==
  ASSUME [BillingNext]_billingVars
  PROVE  \/ \E r \in Refunds : RefundSteps(r) \/ PaddleSteps(r)
         \/ SubscriptionChanges
         \/ \E h \in Handlers : HandlerSteps(h)
         \/ UNCHANGED billingVars
BY DEF BillingNext, RefundSteps, PaddleSteps, HandlerSteps

LEMMA AskTypes ==
  ASSUME BillingTypeOK, NEW r \in Refunds,
         NEW stage \in {"idle", "ask", "wait", "write", "invoice", "event", "catch", "done"},
         AskGo(r, stage)
  PROVE  asking' \in [Refunds -> AskRows]
BY Typed DEF AskGo, AskRows

LEMMA RefundStepTypes ==
  ASSUME Base, NEW r \in Refunds, RefundSteps(r)
  PROVE  RefundTypes' /\ UNCHANGED <<occurred, adjustment, recorded, subscription, handler,
                                    overtaken, cut, deliveries>>
<1>t. BillingTypeOK /\ RefundTypes  BY TypesSplit DEF Base
<1>s. {"pending", "failed"} \subseteq Statuses  BY DEF Statuses
<1>1. CASE Reserve(r)
  <2>1. asking' \in [Refunds -> AskRows]  BY <1>1, <1>t, AskTypes DEF Reserve
  <2> QED  BY <2>1, <1>1, <1>t, <1>s DEF Reserve, RefundTypes, eventVars
<1>2. CASE Ask(r) \/ UpdateInvoice(r) \/ RecordRefund(r)
  <2>1. asking' \in [Refunds -> AskRows]
    BY <1>2, <1>t, AskTypes DEF Ask, UpdateInvoice, RecordRefund
  <2> QED  BY <2>1, <1>2, <1>t DEF Ask, UpdateInvoice, RecordRefund, RefundTypes, eventVars
<1>3. CASE WriteRefund(r)
  <2>1. asking' \in [Refunds -> AskRows]  BY <1>3, <1>t, AskTypes DEF WriteRefund
  <2>2. asking[r].answer \in Statuses  BY <1>t DEF RefundTypes, AskRows
  <2> QED  BY <2>1, <2>2, <1>3, <1>t DEF WriteRefund, RefundTypes, eventVars
<1>4. CASE GiveUp(r)
  <2>1. asking' \in [Refunds -> AskRows]  BY <1>4, <1>t, AskTypes DEF GiveUp
  <2> QED  BY <2>1, <1>4, <1>t, <1>s DEF GiveUp, RefundTypes, eventVars
<1>5. CASE RefundFails(r)
  <2>1. asking' \in [Refunds -> AskRows]  BY <1>5, <1>t, AskTypes DEF RefundFails
  <2> QED  BY <2>1, <1>5, <1>t DEF RefundFails, RefundTypes, eventVars
<1> QED  BY <1>1, <1>2, <1>3, <1>4, <1>5 DEF RefundSteps

LEMMA PaddleStepTypes ==
  ASSUME Base, NEW r \in Refunds, PaddleSteps(r)
  PROVE  RefundTypes' /\ EventTypes' /\ occurred \subseteq occurred' /\ handler' = handler
<1>t. RefundTypes /\ EventTypes  BY TypesSplit DEF Base
<1>e. \A status \in Statuses : [about |-> r, status |-> status] \in Events
  BY DEF Events, AdjustmentEvents
<1>s. {"succeeded", "failed"} \subseteq Statuses  BY DEF Statuses
<1>1. ASSUME NEW status \in Statuses, PaddleAnswers(r, status)
      PROVE  RefundTypes' /\ EventTypes' /\ occurred \subseteq occurred' /\ handler' = handler
  <2>1. [stage |-> "write", answer |-> status] \in AskRows  BY DEF AskRows
  <2> QED
    BY <2>1, <1>1, <1>t, <1>e DEF PaddleAnswers, RefundTypes, EventTypes, eventVars
<1>2. ASSUME NEW status \in Statuses, PaddleAcceptsLate(r, status)
      PROVE  RefundTypes' /\ EventTypes' /\ occurred \subseteq occurred' /\ handler' = handler
  BY <1>2, <1>t, <1>e DEF PaddleAcceptsLate, RefundTypes, EventTypes, eventVars, refundVars
<1>3. ASSUME NEW status \in {"succeeded", "failed"}, PaddleDecides(r, status)
      PROVE  RefundTypes' /\ EventTypes' /\ occurred \subseteq occurred' /\ handler' = handler
  BY <1>3, <1>t, <1>e, <1>s DEF PaddleDecides, RefundTypes, EventTypes, eventVars, refundVars
<1> QED  BY <1>1, <1>2, <1>3 DEF PaddleSteps

LEMMA SubscriptionStepTypes ==
  ASSUME Base, SubscriptionChanges
  PROVE  RefundTypes' /\ EventTypes' /\ occurred \subseteq occurred' /\ handler' = handler
<1>t. RefundTypes /\ EventTypes  BY TypesSplit DEF Base
<1>c. SubscriptionCount \in Nat  BY BillingAssumption DEF BillingAssumption
<1>1. IsFiniteSet(occurred \cap SubscriptionEvents)
  <2>0. \A e \in SubscriptionEvents : e.no <= SubscriptionCount  BY <1>c DEF SubscriptionEvents
  <2>1. SubscriptionEvents = Upto(SubscriptionCount)  BY <2>0 DEF Upto
  <2>2. IsFiniteSet(SubscriptionEvents)  BY <2>1, <1>c, UptoCounts
  <2> QED  BY <2>2, FS_Subset
<1>2. PICK no : /\ no = Cardinality(occurred \cap SubscriptionEvents) + 1
                /\ no <= SubscriptionCount
                /\ occurred' = occurred \cup {[about |-> "subscription", no |-> no]}
  BY DEF SubscriptionChanges
<1>3. no \in 1 .. SubscriptionCount  BY <1>1, <1>2, <1>c, FS_CardinalityType
<1>4. [about |-> "subscription", no |-> no] \in Events  BY <1>3 DEF Events, SubscriptionEvents
<1> QED
  BY <1>2, <1>4, <1>t DEF SubscriptionChanges, RefundTypes, EventTypes, eventVars, refundVars

LEMMA HandlerStepTypes ==
  ASSUME Base, NEW h \in Handlers, HandlerSteps(h)
  PROVE  /\ RefundTypes' /\ EventTypes' /\ occurred' = occurred
         /\ \A g \in Handlers : handler'[g] # Unused => handler'[g].event \in occurred
<1>t. RefundTypes /\ EventTypes /\ HandlersKnow  BY TypesSplit DEF Base
<1>u. Unused \in HandlerRows  BY DEF Unused, HandlerRows
<1>h. handler[h] \in HandlerRows /\ (handler[h] # Unused => handler[h].event \in occurred)
  BY <1>t DEF EventTypes, HandlersKnow
<1>n. \A stage \in {"record", "insert", "apply"} : handler[h].stage = stage => handler[h] # Unused
  BY DEF Unused
<1>1. CASE RecordEvent(h)
  <2>0. handler[h].stage = "record"  BY <1>1 DEF RecordEvent
  <2>1. PICK e \in occurred : e = handler[h].event  BY <2>0, <1>h, <1>n
  <2>2. \/ handler' = [handler EXCEPT ![h] = Unused] /\ recorded' = recorded /\ overtaken' = overtaken
        \/ /\ recorded' = recorded \cup {e}
           /\ \E stage \in {"insert", "apply"} : handler' = [handler EXCEPT ![h].stage = stage]
           /\ overtaken' = (overtaken \/ (e \in SubscriptionEvents \ recorded /\ OutOfOrder(h, e)))
    BY <1>1, <2>1 DEF RecordEvent
  <2>3. \A stage \in {"insert", "apply"} :
          /\ [handler EXCEPT ![h].stage = stage] \in [Handlers -> HandlerRows]
          /\ [handler[h] EXCEPT !.stage = stage].event = e
    BY <2>1, <1>t DEF EventTypes, HandlerRows
  <2>4. handler' \in [Handlers -> HandlerRows]  BY <2>2, <2>3, <1>t, <1>u DEF EventTypes
  <2>5. \A g \in Handlers : handler'[g] # Unused => handler'[g].event \in occurred
    BY <2>2, <2>3, <1>t DEF EventTypes, HandlersKnow
  <2>6. /\ UNCHANGED <<refund, asking, givenUp, adjustment, occurred, subscription, crossed, cut,
                       deliveries, billingFaults>>
    BY <1>1 DEF RecordEvent, refundVars
  <2>7. recorded' \subseteq occurred' /\ overtaken' \in BOOLEAN  BY <2>2, <2>6, <1>t DEF EventTypes
  <2> QED  BY <2>4, <2>5, <2>6, <2>7, <1>t DEF RefundTypes, EventTypes
<1>2. CASE EndOthers(h)
  <2>1. /\ handler' \in [Handlers -> HandlerRows]
        /\ handler'[h].event = handler[h].event
        /\ \A g \in Handlers \ {h} : handler'[g] = handler[g]
    BY <1>2, <1>t, <1>h DEF EndOthers, EventTypes, HandlerRows
  <2>2. handler[h].event \in occurred  BY <1>2, <1>h, <1>n DEF EndOthers
  <2> QED
    BY <2>1, <2>2, <1>2, <1>t DEF EndOthers, RefundTypes, EventTypes, HandlersKnow, refundVars
<1>3. CASE ApplySubscription(h)
  <2>1. handler[h].event.no \in 0 .. SubscriptionCount
    BY <1>3, BillingAssumption DEF ApplySubscription, SubscriptionEvents, BillingAssumption
  <2> QED
    BY <2>1, <1>3, <1>t, <1>u DEF ApplySubscription, RefundTypes, EventTypes, HandlersKnow, refundVars
<1>4. CASE ApplyAdjustment(h)
  <2>1. handler[h].event.status \in Statuses
    BY <1>4 DEF ApplyAdjustment, AdjustmentEvents
  <2>2. refund' \in [Refunds -> {"absent"} \cup Statuses] /\ crossed' \in BOOLEAN
    BY <2>1, <1>4, <1>t DEF ApplyAdjustment, RefundTypes
  <2> QED
    BY <2>2, <1>4, <1>t, <1>u DEF ApplyAdjustment, RefundTypes, EventTypes, HandlersKnow
<1>5. CASE HandlerFails(h)
  BY <1>5, <1>t, <1>u DEF HandlerFails, RefundTypes, EventTypes, HandlersKnow, refundVars
<1>6. ASSUME NEW e \in Events, e \in occurred, Deliver(h, e)
      PROVE  /\ RefundTypes' /\ EventTypes' /\ occurred' = occurred
             /\ \A g \in Handlers : handler'[g] # Unused => handler'[g].event \in occurred
  <2>1. [stage |-> "record", event |-> e] \in HandlerRows  BY DEF HandlerRows
  <2> QED
    BY <2>1, <1>6, <1>t DEF Deliver, RefundTypes, EventTypes, HandlersKnow, refundVars
<1> QED  BY <1>1, <1>2, <1>3, <1>4, <1>5, <1>6 DEF HandlerSteps

LEMMA BaseInit == BillingInit => Base
<1> SUFFICES ASSUME BillingInit  PROVE Base
  OBVIOUS
<1>1. RefundTypes
  <2>1. [stage |-> "idle", answer |-> "pending"] \in AskRows  BY DEF AskRows, Statuses
  <2> QED  BY <2>1 DEF BillingInit, RefundTypes
<1>2. EventTypes
  <2>1. Unused \in HandlerRows  BY DEF Unused, HandlerRows
  <2>2. 0 \in 0 .. SubscriptionCount  BY BillingAssumption DEF BillingAssumption
  <2> QED  BY <2>1, <2>2 DEF BillingInit, EventTypes
<1>3. HandlersKnow  BY DEF BillingInit, HandlersKnow
<1> QED  BY <1>1, <1>2, <1>3, TypesSplit DEF Base

LEMMA BaseStep == Base /\ [BillingNext]_billingVars => Base'
<1> SUFFICES ASSUME Base, [BillingNext]_billingVars  PROVE Base'
  OBVIOUS
<1>t. RefundTypes /\ EventTypes /\ HandlersKnow  BY TypesSplit DEF Base
<1>p. RefundTypes' /\ EventTypes' => BillingTypeOK'
  BY DEF BillingTypeOK, RefundTypes, EventTypes, AskRows, HandlerRows
<1>1. ASSUME NEW r \in Refunds, RefundSteps(r)  PROVE Base'
  BY <1>1, <1>t, <1>p, RefundStepTypes DEF Base, EventTypes, HandlersKnow
<1>2. CASE SubscriptionChanges \/ \E r \in Refunds : PaddleSteps(r)
  BY <1>2, <1>t, <1>p, PaddleStepTypes, SubscriptionStepTypes DEF Base, HandlersKnow
<1>3. ASSUME NEW h \in Handlers, HandlerSteps(h)  PROVE Base'
  BY <1>3, <1>p, HandlerStepTypes DEF Base, HandlersKnow
<1>4. CASE UNCHANGED billingVars
  BY <1>4, <1>t, <1>p DEF billingVars, Base, RefundTypes, EventTypes, HandlersKnow
<1> QED  BY <1>1, <1>2, <1>3, <1>4, StepKinds

LEMMA BaseHolds == BillingSpec => []Base
BY BaseInit, BaseStep, PTL DEF BillingSpec

\* The invoice, its refunds, Paddle's adjustments and the webhook requests have
\* their types, and a handler works on an event that has occurred.
THEOREM BillingTypesCorrect == BillingSpec => []BillingTypeOK
<1>1. Base => BillingTypeOK  BY DEF Base
<1> QED  BY <1>1, BaseHolds, PTL

-----------------------------------------------------------------------------
(* What the rows, the answers and the events say of Paddle's refunds.       *)

\* A request that has not begun has neither row nor refund; an answer that the
\* refund has failed is final.
AskAgrees(r) ==
  /\ Asking(r, "idle") => refund[r] = "absent" /\ adjustment[r] = "none" /\ r \notin givenUp
  /\ Asking(r, "write") /\ asking[r].answer = "failed" => adjustment[r] = "failed"
AsksAgree == \A r \in Refunds : AskAgrees(r)

\* So is the event about it, and there is none before the refund.
EventsAgree ==
  \A e \in occurred \cap AdjustmentEvents :
    /\ adjustment[e.about] # "none"
    /\ e.status = "failed" => adjustment[e.about] = "failed"

Agree == Base /\ AsksAgree /\ EventsAgree

\* A request that has its place in the balance: Paddle pays, or may yet.
Claims(r) == \/ adjustment[r] \in {"pending", "succeeded"}
             \/ adjustment[r] = "none" /\ asking[r].stage \in {"ask", "wait"}

LEMMA RefundStepMoves ==
  ASSUME Base, NEW r \in Refunds, RefundSteps(r)
  PROVE  /\ \A q \in Refunds \ {r} : asking'[q] = asking[q] /\ refund'[q] = refund[q]
         /\ asking'[r].stage \in {"ask", "wait", "invoice", "event", "done", "catch"}
         /\ givenUp \subseteq givenUp' /\ givenUp' \subseteq givenUp \cup {r} /\ crossed' = crossed
<1>t. refund \in [Refunds -> {"absent"} \cup Statuses] /\ asking \in [Refunds -> AskRows]
  BY Typed DEF Base
<1>g. ASSUME NEW stage, AskGo(r, stage)
      PROVE  asking'[r].stage = stage /\ \A q \in Refunds \ {r} : asking'[q] = asking[q]
  BY <1>g, <1>t DEF AskGo, AskRows
<1>1. CASE Reserve(r)  BY <1>1, <1>g, <1>t DEF Reserve
<1>2. CASE Ask(r)  BY <1>2, <1>g DEF Ask
<1>3. CASE WriteRefund(r)  BY <1>3, <1>g, <1>t DEF WriteRefund
<1>4. CASE UpdateInvoice(r) \/ RecordRefund(r)  BY <1>4, <1>g DEF UpdateInvoice, RecordRefund
<1>5. CASE GiveUp(r)  BY <1>5, <1>g, <1>t DEF GiveUp
<1>6. CASE RefundFails(r)  BY <1>6, <1>g DEF RefundFails
<1> QED  BY <1>1, <1>2, <1>3, <1>4, <1>5, <1>6 DEF RefundSteps

\* What Paddle does to one refund.
LEMMA PaddleStepMoves ==
  ASSUME Agree, NEW r \in Refunds, PaddleSteps(r)
  PROVE  \E status \in Statuses :
           /\ adjustment' = [adjustment EXCEPT ![r] = status]
           /\ occurred' = occurred \cup {[about |-> r, status |-> status]}
           /\ UNCHANGED <<refund, givenUp, crossed, handler>>
           /\ \/ /\ adjustment[r] = "none" /\ Asking(r, "wait")
                 /\ asking' = [asking EXCEPT ![r] = [stage |-> "write", answer |-> status]]
              \/ adjustment[r] = "none" /\ r \in givenUp /\ asking' = asking
              \/ adjustment[r] = "pending" /\ asking' = asking
<1>s. {"succeeded", "failed"} \subseteq Statuses  BY DEF Statuses
<1> QED
  BY <1>s DEF PaddleSteps, PaddleAnswers, PaddleAcceptsLate, PaddleDecides, eventVars, refundVars

\* What a webhook request does to the refunds: nothing, but for an event about one.
LEMMA HandlerStepMoves ==
  ASSUME Base, NEW h \in Handlers, HandlerSteps(h)
  PROVE  /\ UNCHANGED <<asking, givenUp, adjustment, occurred>>
         /\ \/ UNCHANGED <<refund, crossed>>
            \/ \E e \in occurred \cap AdjustmentEvents :
                 /\ refund' = [r \in Refunds |-> IF refund[r] # "absent" THEN e.status ELSE refund[r]]
                 /\ crossed' = (crossed \/ \E r \in {q \in Refunds : refund[q] # "absent"} \ {e.about} :
                                            refund[r] # e.status)
<1>1. CASE ApplyAdjustment(h)
  <2>1. handler[h] # Unused  BY <1>1 DEF ApplyAdjustment, Unused
  <2>2. handler[h].event \in occurred \cap AdjustmentEvents
    BY <2>1, <1>1 DEF ApplyAdjustment, Base, HandlersKnow
  <2> QED  BY <2>2, <1>1 DEF ApplyAdjustment
<1>2. CASE \/ RecordEvent(h) \/ EndOthers(h) \/ ApplySubscription(h) \/ HandlerFails(h)
           \/ \E e \in Events : e \in occurred /\ Deliver(h, e)
  BY <1>2 DEF RecordEvent, EndOthers, ApplySubscription, HandlerFails, Deliver, refundVars
<1> QED  BY <1>1, <1>2 DEF HandlerSteps

LEMMA AgreeStep == Agree /\ [BillingNext]_billingVars => Agree'
<1> SUFFICES ASSUME Agree, [BillingNext]_billingVars  PROVE AsksAgree' /\ EventsAgree'
  BY BaseStep DEF Agree
<1>t. /\ refund \in [Refunds -> {"absent"} \cup Statuses] /\ asking \in [Refunds -> AskRows]
      /\ adjustment \in [Refunds -> {"none"} \cup Statuses] /\ Base
  BY Typed DEF Agree, Base
<1>e. \A e \in AdjustmentEvents : e.about \in Refunds /\ e.status \in Statuses  BY DEF AdjustmentEvents
<1>1. ASSUME NEW r \in Refunds, RefundSteps(r)  PROVE AsksAgree' /\ EventsAgree'
  <2>1. EventsAgree'  BY <1>1, <1>t, RefundStepTypes DEF Agree, EventsAgree
  <2>2. ASSUME NEW q \in Refunds  PROVE AskAgrees(q)'
    BY <1>1, <1>t, RefundStepTypes, RefundStepMoves DEF Agree, AsksAgree, AskAgrees, Asking
  <2> QED  BY <2>1, <2>2 DEF AsksAgree
<1>2. ASSUME NEW r \in Refunds, PaddleSteps(r)  PROVE AsksAgree' /\ EventsAgree'
  <2>1. PICK status \in Statuses :
           /\ adjustment' = [adjustment EXCEPT ![r] = status]
           /\ occurred' = occurred \cup {[about |-> r, status |-> status]}
           /\ UNCHANGED <<refund, givenUp, crossed, handler>>
           /\ \/ /\ adjustment[r] = "none" /\ Asking(r, "wait")
                 /\ asking' = [asking EXCEPT ![r] = [stage |-> "write", answer |-> status]]
              \/ adjustment[r] = "none" /\ r \in givenUp /\ asking' = asking
              \/ adjustment[r] = "pending" /\ asking' = asking
    BY <1>2, PaddleStepMoves
  <2>2. ASSUME NEW q \in Refunds  PROVE AskAgrees(q)'
    <3>1. AskAgrees(q)  BY DEF Agree, AsksAgree
    <3>2. CASE q # r  BY <3>1, <3>2, <2>1, <1>t DEF AskAgrees, Asking
    <3>3. CASE q = r  BY <3>1, <3>3, <2>1, <1>t DEF AskAgrees, Asking
    <3> QED  BY <3>2, <3>3
  <2>3. ASSUME NEW e \in occurred' \cap AdjustmentEvents
        PROVE  adjustment'[e.about] # "none" /\ (e.status = "failed" => adjustment'[e.about] = "failed")
    <3>1. CASE e \in occurred
      <4>1. adjustment[e.about] # "none" /\ (e.status = "failed" => adjustment[e.about] = "failed")
        BY <3>1, <2>3 DEF Agree, EventsAgree
      <4> QED  BY <4>1, <2>1, <2>3, <1>t, <1>e DEF Statuses
    <3>2. CASE e = [about |-> r, status |-> status]
      BY <3>2, <2>1, <1>t DEF Statuses
    <3> QED  BY <3>1, <3>2, <2>1, <2>3
  <2> QED  BY <2>2, <2>3 DEF AsksAgree, EventsAgree
<1>3. CASE SubscriptionChanges
  <2>1. PICK no : occurred' = occurred \cup {[about |-> "subscription", no |-> no]}
    BY <1>3 DEF SubscriptionChanges
  <2>2. [about |-> "subscription", no |-> no] \notin AdjustmentEvents
    <3>1. \A e \in AdjustmentEvents : DOMAIN e = {"about", "status"}  BY DEF AdjustmentEvents
    <3>2. DOMAIN [about |-> "subscription", no |-> no] = {"about", "no"}  OBVIOUS
    <3>3. "no" \in {"about", "no"} /\ "no" \notin {"about", "status"}  OBVIOUS
    <3> QED  BY <3>1, <3>2, <3>3
  <2>3. UNCHANGED <<adjustment, refund, asking, givenUp>>  BY <1>3 DEF SubscriptionChanges, refundVars
  <2> QED  BY <2>1, <2>2, <2>3 DEF Agree, AsksAgree, AskAgrees, Asking, EventsAgree
<1>4. ASSUME NEW h \in Handlers, HandlerSteps(h)  PROVE AsksAgree' /\ EventsAgree'
  <2>1. UNCHANGED <<asking, givenUp, adjustment, occurred>>  BY <1>4, <1>t, HandlerStepMoves
  <2>2. \A r \in Refunds : refund[r] = "absent" => refund'[r] = "absent"
    BY <1>4, <1>t, HandlerStepMoves
  <2> QED  BY <2>1, <2>2 DEF Agree, AsksAgree, AskAgrees, Asking, EventsAgree
<1>5. CASE UNCHANGED billingVars
  BY <1>5 DEF billingVars, Agree, AsksAgree, AskAgrees, Asking, EventsAgree
<1> QED  BY <1>1, <1>2, <1>3, <1>4, <1>5, StepKinds

LEMMA AgreeHolds == BillingSpec => []Agree
<1>1. BillingInit => Agree
  BY BaseInit DEF BillingInit, Agree, AsksAgree, AskAgrees, Asking, EventsAgree
<1> QED  BY <1>1, AgreeStep, PTL DEF BillingSpec

-----------------------------------------------------------------------------
(* The invoice is refunded once.                                            *)

\* While no request has been given up and no event was applied to another
\* refund, a request with a place in the balance holds it, alone.
ClaimHeld(r) ==
  Claims(r) => /\ refund[r] \in {"pending", "succeeded"}
               /\ \A q \in Refunds : Claims(q) => q = r
OneClaim == givenUp = {} /\ ~crossed => \A r \in Refunds : ClaimHeld(r)

\* The steps of refund(): only Reserve, of a free balance, adds a claim.
LEMMA RefundKeepsClaims ==
  ASSUME Agree, NEW r \in Refunds, RefundSteps(r), givenUp' = {}, \A q \in Refunds : ClaimHeld(q),
         NEW p \in Refunds
  PROVE  ClaimHeld(p)'
<1>t. /\ refund \in [Refunds -> {"absent"} \cup Statuses] /\ asking \in [Refunds -> AskRows]
      /\ adjustment' = adjustment
  BY Typed, RefundStepTypes DEF Agree, Base
<1>m. \A q \in Refunds \ {r} : asking'[q] = asking[q] /\ refund'[q] = refund[q]
  BY RefundStepMoves DEF Agree
<1>o. \A q \in Refunds \ {r} : Claims(q)' <=> Claims(q)  BY <1>t, <1>m DEF Claims
<1>1. CASE Reserve(r)
  <2>1. refund'[r] = "pending"  BY <1>1, <1>t DEF Reserve
  <2>2. \A q \in Refunds : ~ Claims(q)  BY <1>1 DEF Reserve, Reserved, ClaimHeld
  <2> QED  BY <2>1, <2>2, <1>o DEF ClaimHeld
<1>2. CASE ~ Reserve(r)
  <2>1. Claims(r)' => Claims(r)
    BY <1>2, <1>t DEF RefundSteps, Ask, WriteRefund, UpdateInvoice, RecordRefund, GiveUp,
       RefundFails, AskGo, Asking, Claims, AskRows
  <2>2. Claims(r) => refund'[r] \in {"pending", "succeeded"}
    <3> SUFFICES ASSUME Claims(r)  PROVE refund'[r] \in {"pending", "succeeded"}
      OBVIOUS
    <3>1. refund[r] \in {"pending", "succeeded"}  BY DEF ClaimHeld
    <3>2. CASE WriteRefund(r)
      <4>1. asking[r].stage = "write" /\ asking[r].answer \in Statuses
        BY <3>2, <1>t DEF WriteRefund, Asking, AskRows
      <4>2. adjustment[r] # "failed"  BY DEF Claims
      <4>3. asking[r].answer # "failed"
        BY <4>1, <4>2 DEF Agree, AsksAgree, AskAgrees, Asking
      <4> QED  BY <4>1, <4>3, <3>2, <1>t DEF WriteRefund, Statuses
    <3>3. ~ GiveUp(r)  BY DEF GiveUp
    <3>4. CASE Ask(r) \/ UpdateInvoice(r) \/ RecordRefund(r) \/ RefundFails(r)
      BY <3>1, <3>4 DEF Ask, UpdateInvoice, RecordRefund, RefundFails
    <3> QED  BY <3>2, <3>3, <3>4, <1>2 DEF RefundSteps
  <2> QED  BY <2>1, <2>2, <1>o, <1>m DEF ClaimHeld
<1> QED  BY <1>1, <1>2

\* What Paddle does to a refund is of one that has its place already.
LEMMA PaddleKeepsClaims ==
  ASSUME Agree, NEW r \in Refunds, PaddleSteps(r), givenUp = {}, \A q \in Refunds : ClaimHeld(q),
         NEW p \in Refunds
  PROVE  ClaimHeld(p)'
<1>t. /\ adjustment \in [Refunds -> {"none"} \cup Statuses] /\ asking \in [Refunds -> AskRows]
  BY Typed DEF Agree, Base
<1>1. PICK status \in Statuses :
           /\ adjustment' = [adjustment EXCEPT ![r] = status]
           /\ UNCHANGED <<refund, givenUp, crossed, handler>>
           /\ \/ /\ adjustment[r] = "none" /\ Asking(r, "wait")
                 /\ asking' = [asking EXCEPT ![r] = [stage |-> "write", answer |-> status]]
              \/ adjustment[r] = "none" /\ r \in givenUp /\ asking' = asking
              \/ adjustment[r] = "pending" /\ asking' = asking
  BY PaddleStepMoves
<1>2. Claims(r)  BY <1>1 DEF Claims, Asking
<1>3. \A q \in Refunds \ {r} : Claims(q)' <=> Claims(q)  BY <1>1, <1>t DEF Claims
<1> QED  BY <1>1, <1>2, <1>3 DEF ClaimHeld

\* An event that is applied to its own refund leaves a claim its place.
LEMMA EventKeepsClaims ==
  ASSUME Agree, NEW h \in Handlers, HandlerSteps(h), ~crossed', \A q \in Refunds : ClaimHeld(q),
         NEW p \in Refunds
  PROVE  ClaimHeld(p)'
<1>1. UNCHANGED <<asking, givenUp, adjustment, occurred>>  BY HandlerStepMoves DEF Agree
<1>2. \A q \in Refunds : Claims(q)' <=> Claims(q)  BY <1>1 DEF Claims
<1>3. Claims(p) => refund'[p] \in {"pending", "succeeded"}
  <2> SUFFICES ASSUME Claims(p)  PROVE refund'[p] \in {"pending", "succeeded"}
    OBVIOUS
  <2>1. refund[p] \in {"pending", "succeeded"}  BY DEF ClaimHeld
  <2>2. CASE UNCHANGED <<refund, crossed>>  BY <2>1, <2>2
  <2>3. ASSUME NEW e \in occurred \cap AdjustmentEvents,
               refund' = [r \in Refunds |-> IF refund[r] # "absent" THEN e.status ELSE refund[r]],
               crossed' = (crossed \/ \E r \in {q \in Refunds : refund[q] # "absent"} \ {e.about} :
                                         refund[r] # e.status)
        PROVE  refund'[p] \in {"pending", "succeeded"}
    <3>1. refund'[p] = e.status  BY <2>1, <2>3
    <3>2. CASE p # e.about
      <4>1. ~ \E r \in {q \in Refunds : refund[q] # "absent"} \ {e.about} : refund[r] # e.status
        BY <2>3
      <4> QED  BY <4>1, <3>1, <3>2, <2>1
    <3>3. CASE p = e.about
      <4>1. adjustment[p] # "none" /\ (e.status = "failed" => adjustment[p] = "failed")
        BY <3>3 DEF Agree, EventsAgree
      <4>2. adjustment[p] # "failed"  BY DEF Claims
      <4>3. e.status \in Statuses  BY DEF AdjustmentEvents
      <4> QED  BY <4>1, <4>2, <4>3, <3>1 DEF Statuses
    <3> QED  BY <3>2, <3>3
  <2> QED  BY <2>2, <2>3, HandlerStepMoves DEF Agree
<1> QED  BY <1>2, <1>3 DEF ClaimHeld

LEMMA OneClaimStep == Agree /\ OneClaim /\ [BillingNext]_billingVars => OneClaim'
<1> SUFFICES ASSUME Agree, OneClaim, [BillingNext]_billingVars, givenUp' = {}, ~crossed',
                    NEW p \in Refunds
             PROVE  ClaimHeld(p)'
  BY DEF OneClaim
<1>1. ASSUME NEW r \in Refunds, RefundSteps(r)  PROVE ClaimHeld(p)'
  <2>1. givenUp = {} /\ ~crossed  BY <1>1, RefundStepMoves DEF Agree
  <2> QED  BY <2>1, <1>1, RefundKeepsClaims DEF OneClaim
<1>2. ASSUME NEW r \in Refunds, PaddleSteps(r)  PROVE ClaimHeld(p)'
  <2>1. givenUp = {} /\ ~crossed  BY <1>2, PaddleStepMoves
  <2> QED  BY <2>1, <1>2, PaddleKeepsClaims DEF OneClaim
<1>3. ASSUME NEW h \in Handlers, HandlerSteps(h)  PROVE ClaimHeld(p)'
  <2>1. givenUp = {} /\ ~crossed
    <3>1. crossed => crossed'  BY <1>3, HandlerStepMoves DEF Agree
    <3> QED  BY <3>1, <1>3, HandlerStepMoves DEF Agree
  <2> QED  BY <2>1, <1>3, EventKeepsClaims DEF OneClaim
<1>4. CASE SubscriptionChanges \/ UNCHANGED billingVars
  BY <1>4 DEF SubscriptionChanges, billingVars, refundVars, OneClaim, ClaimHeld, Claims
<1> QED  BY <1>1, <1>2, <1>3, <1>4, StepKinds

\* The reservation under the lock of the invoice lets one refund through to
\* Paddle, for any number of requests, events and failures.
THEOREM RefundsStayWithinBalance == BillingSpec => []RefundedWithinBalance
<1>1. BillingInit => OneClaim
  BY DEF BillingInit, OneClaim, ClaimHeld, Claims
<1>2. ASSUME OneClaim  PROVE RefundedWithinBalance
  <2> SUFFICES ASSUME givenUp = {}, ~crossed
               PROVE  Cardinality({r \in Refunds : adjustment[r] \in {"pending", "succeeded"}}) <= 1
    BY DEF RefundedWithinBalance
  <2>1. \A p, q \in {r \in Refunds : adjustment[r] \in {"pending", "succeeded"}} : p = q
    BY <1>2 DEF OneClaim, ClaimHeld, Claims
  <2>2. CASE {r \in Refunds : adjustment[r] \in {"pending", "succeeded"}} = {}
    BY <2>2, FS_EmptySet
  <2>3. ASSUME NEW p \in {r \in Refunds : adjustment[r] \in {"pending", "succeeded"}}
        PROVE  Cardinality({r \in Refunds : adjustment[r] \in {"pending", "succeeded"}}) <= 1
    <3>1. {r \in Refunds : adjustment[r] \in {"pending", "succeeded"}} = {p}  BY <2>1, <2>3
    <3>2. Cardinality({p}) = 1  BY FS_Singleton
    <3> QED  BY <3>1, <3>2
  <2> QED  BY <2>2, <2>3
<1>3. OneClaim => RefundedWithinBalance  BY <1>2
<1> QED  BY <1>1, <1>3, AgreeHolds, OneClaimStep, PTL DEF BillingSpec

-----------------------------------------------------------------------------
(* The subscription shows the newest recorded event.                        *)

\* A webhook request between the record of a subscription event and its effect.
Applies(h) == handler[h].stage \in {"insert", "apply"} /\ handler[h].event \in SubscriptionEvents

\* The recorded events are the first n, and the row shows the last of them or,
\* while its request applies it, the one before.
ShowsOf(n) ==
  /\ recorded \cap SubscriptionEvents = Upto(n)
  /\ \/ subscription = n /\ \A h \in Handlers : ~ Applies(h)
     \/ \E h \in Handlers : /\ Applies(h) /\ handler[h].event.no = n
                            /\ subscription = n - 1
                            /\ \A g \in Handlers : Applies(g) => g = h
InStep == ~overtaken /\ ~cut => \E n \in 0 .. SubscriptionCount : ShowsOf(n)

\* Numbers of events tell sets of them apart.
LEMMA UptoDiffer ==
  \A m, n \in 0 .. SubscriptionCount : Upto(m) = Upto(n) => m = n
<1> SUFFICES ASSUME NEW m \in 0 .. SubscriptionCount, NEW n \in 0 .. SubscriptionCount,
                    Upto(m) = Upto(n)
             PROVE  m = n
  OBVIOUS
<1>1. Cardinality(Upto(m)) = m  BY UptoCounts
<1>2. Cardinality(Upto(n)) = n  BY UptoCounts
<1> QED  BY <1>1, <1>2

\* The next event is recorded in its turn.
LEMMA RecordKeepsStep ==
  ASSUME Base, InStep, NEW h \in Handlers, RecordEvent(h), ~overtaken', ~cut'
  PROVE  InStep'
<1>t. handler \in [Handlers -> HandlerRows] /\ SubscriptionCount \in Nat
  BY Typed, BillingAssumption DEF Base, BillingAssumption
<1>1. ~overtaken /\ ~cut /\ subscription' = subscription  BY DEF RecordEvent
<1>2. PICK n \in 0 .. SubscriptionCount : ShowsOf(n)  BY <1>1 DEF InStep
<1>3. handler[h].stage = "record" /\ ~ Applies(h)  BY DEF RecordEvent, Applies
<1>4. PICK e : e = handler[h].event  OBVIOUS
<1>5. CASE handler' = [handler EXCEPT ![h] = Unused] /\ recorded' = recorded
  <2>1. \A g \in Handlers : /\ Applies(g)' <=> Applies(g)
                            /\ Applies(g) => handler'[g] = handler[g]
    BY <1>3, <1>5, <1>t DEF Applies, Unused
  <2>2. ShowsOf(n)'  BY <2>1, <1>1, <1>2, <1>5 DEF ShowsOf
  <2> QED  BY <2>2 DEF InStep
<1>6. ASSUME recorded' = recorded \cup {e}, e \notin recorded,
             NEW stage \in {"insert", "apply"}, handler' = [handler EXCEPT ![h].stage = stage],
             overtaken' = (overtaken \/ (e \in SubscriptionEvents \ recorded /\ OutOfOrder(h, e)))
      PROVE  InStep'
  <2>1. /\ \A g \in Handlers \ {h} : (Applies(g)' <=> Applies(g)) /\ handler'[g] = handler[g]
        /\ handler'[h].event = e /\ handler'[h].stage = stage
    BY <1>4, <1>6, <1>t DEF Applies, HandlerRows
  <2>2. CASE e \notin SubscriptionEvents
    <3>1. \A g \in Handlers : /\ Applies(g)' <=> Applies(g)
                              /\ Applies(g) => handler'[g] = handler[g]
      BY <2>1, <2>2, <1>3 DEF Applies
    <3>2. recorded' \cap SubscriptionEvents = recorded \cap SubscriptionEvents  BY <2>2, <1>6
    <3>3. ShowsOf(n)'  BY <3>1, <3>2, <1>1, <1>2 DEF ShowsOf
    <3> QED  BY <3>3 DEF InStep
  <2>3. CASE e \in SubscriptionEvents
    <3>1. ~ OutOfOrder(h, e)  BY <2>3, <1>6
    <3>2. recorded \cap SubscriptionEvents = {f \in SubscriptionEvents : f.no < e.no}
      BY <3>1 DEF OutOfOrder
    <3>3. \A g \in Handlers : ~ Applies(g)  BY <3>1, <1>3 DEF OutOfOrder, Applies
    <3>4. e.no \in 1 .. SubscriptionCount  BY <2>3 DEF SubscriptionEvents
    <3>n. \A f \in SubscriptionEvents : f.no \in Nat  BY <1>t DEF SubscriptionEvents
    <3>5. {f \in SubscriptionEvents : f.no < e.no} = Upto(e.no - 1)
      BY <3>4, <3>n, <1>t DEF Upto
    <3>6. n = e.no - 1
      <4>1. e.no - 1 \in 0 .. SubscriptionCount  BY <3>4, <1>t
      <4>2. Upto(n) = Upto(e.no - 1)  BY <3>2, <3>5, <1>2 DEF ShowsOf
      <4> QED  BY <4>1, <4>2, UptoDiffer
    <3>7. recorded' \cap SubscriptionEvents = Upto(e.no)
      <4>1. Upto(e.no) = Upto(e.no - 1) \cup {e}
        <5>1. \A f \in SubscriptionEvents : f.no = e.no => f = e
          BY <2>3 DEF SubscriptionEvents
        <5>2. \A f \in SubscriptionEvents : f.no <= e.no <=> f.no <= e.no - 1 \/ f.no = e.no
          BY <3>4, <3>n, <1>t
        <5> QED  BY <5>1, <5>2, <2>3 DEF Upto
      <4> QED  BY <4>1, <3>2, <3>5, <2>3, <1>6
    <3>8. subscription = n  BY <3>3, <1>2 DEF ShowsOf
    <3>9. Applies(h)' /\ handler'[h].event.no = e.no /\ \A g \in Handlers : Applies(g)' => g = h
      BY <2>1, <2>3, <3>3 DEF Applies
    <3>10. ShowsOf(e.no)'  BY <3>6, <3>7, <3>8, <3>9, <1>1 DEF ShowsOf
    <3>11. e.no \in 0 .. SubscriptionCount  BY <3>4, <1>t
    <3> QED  BY <3>10, <3>11 DEF InStep
  <2> QED  BY <2>2, <2>3
<1>7. \/ handler' = [handler EXCEPT ![h] = Unused] /\ recorded' = recorded
      \/ /\ recorded' = recorded \cup {e} /\ e \notin recorded
         /\ \E stage \in {"insert", "apply"} : handler' = [handler EXCEPT ![h].stage = stage]
         /\ overtaken' = (overtaken \/ (e \in SubscriptionEvents \ recorded /\ OutOfOrder(h, e)))
  BY <1>4 DEF RecordEvent, Known
<1> QED  BY <1>5, <1>6, <1>7

\* Applying an event completes its turn; nothing else takes part.
LEMMA HandlerKeepsStep ==
  ASSUME Base, InStep, NEW h \in Handlers, HandlerSteps(h), ~ RecordEvent(h), ~overtaken', ~cut'
  PROVE  InStep'
<1>t. handler \in [Handlers -> HandlerRows] /\ SubscriptionCount \in Nat
  BY Typed, BillingAssumption DEF Base, BillingAssumption
<1>1. ~overtaken /\ ~cut /\ recorded' = recorded
  <2>1. CASE EndOthers(h) \/ ApplySubscription(h) \/ ApplyAdjustment(h)
    BY <2>1 DEF EndOthers, ApplySubscription, ApplyAdjustment
  <2>2. CASE HandlerFails(h)  BY <2>2 DEF HandlerFails
  <2>3. CASE \E e \in Events : Deliver(h, e)  BY <2>3 DEF Deliver
  <2> QED  BY <2>1, <2>2, <2>3 DEF HandlerSteps
<1>2. PICK n \in 0 .. SubscriptionCount : ShowsOf(n)  BY <1>1 DEF InStep
<1>s. ASSUME subscription' = subscription,
             \A g \in Handlers : /\ Applies(g)' <=> Applies(g)
                                 /\ Applies(g) => handler'[g].event = handler[g].event
      PROVE  InStep'
  <2>1. recorded' \cap SubscriptionEvents = Upto(n)  BY <1>1, <1>2 DEF ShowsOf
  <2>2. CASE subscription = n /\ \A g \in Handlers : ~ Applies(g)
    <3>1. \A g \in Handlers : ~ Applies(g)'  BY <2>2, <1>s
    <3>2. ShowsOf(n)'  BY <3>1, <2>1, <2>2, <1>s DEF ShowsOf
    <3> QED  BY <3>2 DEF InStep
  <2>3. ASSUME NEW g \in Handlers, Applies(g), handler[g].event.no = n, subscription = n - 1,
               \A f \in Handlers : Applies(f) => f = g
        PROVE  InStep'
    <3>1. /\ Applies(g)' /\ handler'[g].event.no = n
          /\ \A f \in Handlers : Applies(f)' => f = g
      BY <2>3, <1>s
    <3>2. ShowsOf(n)'  BY <3>1, <2>1, <2>3, <1>s DEF ShowsOf
    <3> QED  BY <3>2 DEF InStep
  <2> QED  BY <2>2, <2>3, <1>2 DEF ShowsOf
<1>u. ASSUME handler' = [handler EXCEPT ![h] = Unused]
      PROVE  \A g \in Handlers : IF g = h THEN ~ Applies(g)' ELSE
               (Applies(g)' <=> Applies(g)) /\ handler'[g] = handler[g]
  BY <1>u, <1>t DEF Applies, Unused
<1>3. CASE EndOthers(h)
  <2>1. \A g \in Handlers : /\ Applies(g)' <=> Applies(g)
                            /\ handler'[g].event = handler[g].event
    BY <1>3, <1>t DEF EndOthers, Applies, HandlerRows
  <2> QED  BY <2>1, <1>s, <1>3 DEF EndOthers
<1>4. CASE ApplySubscription(h)
  <2>1. Applies(h)  BY <1>4 DEF ApplySubscription, Applies
  <2>2. /\ handler[h].event.no = n /\ subscription = n - 1
        /\ \A g \in Handlers : Applies(g) => g = h
    BY <2>1, <1>2 DEF ShowsOf
  <2>3. n \in 1 .. SubscriptionCount  BY <2>1, <2>2 DEF Applies, SubscriptionEvents
  <2>4. subscription' = n  BY <2>2, <2>3, <1>4, <1>t DEF ApplySubscription
  <2>5. \A g \in Handlers : ~ Applies(g)'  BY <2>2, <1>u, <1>4 DEF ApplySubscription
  <2>6. ShowsOf(n)'  BY <2>4, <2>5, <1>1, <1>2 DEF ShowsOf
  <2> QED  BY <2>6 DEF InStep
<1>5. CASE ApplyAdjustment(h)
  <2>1. ~ Applies(h)  BY <1>5, EventKinds DEF ApplyAdjustment, Applies
  <2> QED  BY <2>1, <1>u, <1>s, <1>5 DEF ApplyAdjustment
<1>6. CASE HandlerFails(h)
  <2>1. ~ Applies(h)  BY <1>6 DEF HandlerFails, Applies
  <2> QED  BY <2>1, <1>u, <1>s, <1>6 DEF HandlerFails
<1>7. ASSUME NEW e \in Events, Deliver(h, e)  PROVE InStep'
  <2>1. \A g \in Handlers : /\ Applies(g)' <=> Applies(g)
                            /\ Applies(g) => handler'[g].event = handler[g].event
    BY <1>7, <1>t DEF Deliver, Applies, Unused
  <2> QED  BY <2>1, <1>s, <1>7 DEF Deliver
<1> QED  BY <1>3, <1>4, <1>5, <1>6, <1>7 DEF HandlerSteps

LEMMA InStepStep == Base /\ InStep /\ [BillingNext]_billingVars => InStep'
<1> SUFFICES ASSUME Base, InStep, [BillingNext]_billingVars, ~overtaken', ~cut'  PROVE InStep'
  BY DEF InStep
<1>1. ASSUME NEW h \in Handlers, HandlerSteps(h)  PROVE InStep'
  BY <1>1, RecordKeepsStep, HandlerKeepsStep
<1>2. ASSUME UNCHANGED eventVars  PROVE InStep'
  BY <1>2 DEF eventVars, InStep, ShowsOf, Applies
<1>3. ASSUME NEW r \in Refunds, RefundSteps(r) \/ PaddleSteps(r)  PROVE UNCHANGED eventVars
  BY <1>3 DEF RefundSteps, PaddleSteps, Reserve, Ask, WriteRefund, UpdateInvoice, RecordRefund,
     GiveUp, RefundFails, PaddleAnswers, PaddleAcceptsLate, PaddleDecides
<1>4. CASE SubscriptionChanges \/ UNCHANGED billingVars
  BY <1>2, <1>4 DEF SubscriptionChanges, billingVars, eventVars
<1> QED  BY <1>1, <1>2, <1>3, <1>4, StepKinds

\* A repeated event does not set the subscription back, for any number of
\* events, deliveries and requests.
THEOREM RepeatsNeverSetBack == BillingSpec => []RepeatsDoNotSetBack
<1>1. BillingInit => InStep
  <2> SUFFICES ASSUME BillingInit  PROVE InStep
    OBVIOUS
  <2>1. 0 \in 0 .. SubscriptionCount  BY BillingAssumption DEF BillingAssumption
  <2>2. Upto(0) = {}
    BY BillingAssumption DEF Upto, SubscriptionEvents, BillingAssumption
  <2>3. ShowsOf(0)  BY <2>2 DEF BillingInit, ShowsOf, Applies, Unused
  <2> QED  BY <2>1, <2>3 DEF InStep
<1>2. ASSUME InStep  PROVE RepeatsDoNotSetBack
  <2> SUFFICES ASSUME ~overtaken, ~cut, \A h \in Handlers : handler[h].stage \notin {"insert", "apply"}
               PROVE  subscription = Cardinality(recorded \cap SubscriptionEvents)
    BY DEF RepeatsDoNotSetBack
  <2>1. PICK n \in 0 .. SubscriptionCount : ShowsOf(n)  BY <1>2 DEF InStep
  <2>2. subscription = n /\ recorded \cap SubscriptionEvents = Upto(n)
    BY <2>1 DEF ShowsOf, Applies
  <2> QED  BY <2>2, UptoCounts
<1>3. InStep => RepeatsDoNotSetBack  BY <1>2
<1> QED  BY <1>1, <1>3, BaseHolds, InStepStep, PTL DEF BillingSpec

-----------------------------------------------------------------------------
(* BackupChain: what the recursive Whole asks of a base.                     *)

InPlace == {b \in Ids : b \in records \cap artifacts}

BasesAreIds == \A b \in Ids : made[b].base \in {0} \cup Ids

\* There is a function that Whole's equation defines: a backup is whole when
\* some set of backups that are in place holds it and the base of each member.
LEMMA WholeIsDefined ==
  ASSUME BasesAreIds
  PROVE  Whole = [b \in Ids |-> b \in records \cap artifacts /\ (made[b].base # 0 => Whole[made[b].base])]
<1> DEFINE Closed(S) == \A b \in S : made[b].base # 0 => made[b].base \in S
           OnChain(b) == \E S \in SUBSET InPlace : Closed(S) /\ b \in S
           F == [b \in Ids |-> OnChain(b)]
<1>1. ASSUME NEW b \in Ids
      PROVE  OnChain(b) <=> b \in records \cap artifacts /\ (made[b].base # 0 => F[made[b].base])
  <2>1. made[b].base # 0 => made[b].base \in Ids  BY DEF BasesAreIds
  <2>2. made[b].base # 0 => (F[made[b].base] <=> OnChain(made[b].base))  BY <2>1
  <2>3. ASSUME OnChain(b)
        PROVE  b \in records \cap artifacts /\ (made[b].base # 0 => OnChain(made[b].base))
    BY <2>3 DEF InPlace
  <2>4. ASSUME b \in records \cap artifacts, made[b].base # 0 => OnChain(made[b].base)
        PROVE  OnChain(b)
    <3>1. CASE made[b].base = 0
      <4>1. {b} \in SUBSET InPlace /\ Closed({b})  BY <2>4, <3>1 DEF InPlace
      <4> QED  BY <4>1
    <3>2. CASE made[b].base # 0
      <4>1. PICK S \in SUBSET InPlace : Closed(S) /\ made[b].base \in S  BY <2>4, <3>2
      <4>2. S \cup {b} \in SUBSET InPlace  BY <2>4 DEF InPlace
      <4>3. Closed(S \cup {b})  BY <4>1
      <4> QED  BY <4>2, <4>3
    <3> QED  BY <3>1, <3>2
  <2> QED  BY <2>2, <2>3, <2>4
<1>2. F = [b \in Ids |-> b \in records \cap artifacts /\ (made[b].base # 0 => F[made[b].base])]
  <2>1. \A b \in Ids : OnChain(b) = (b \in records \cap artifacts /\ (made[b].base # 0 => F[made[b].base]))
    BY <1>1
  <2> HIDE DEF OnChain
  <2> QED  BY <2>1
<1> HIDE DEF F
<1> QED  BY <1>2 DEF Whole

LEMMA WholeIsInPlace ==
  ASSUME BasesAreIds, NEW b \in Ids, Whole[b]
  PROVE  b \in records \cap artifacts
<1>1. Whole[b] = (b \in records \cap artifacts /\ (made[b].base # 0 => Whole[made[b].base]))
  BY WholeIsDefined
<1> QED  BY <1>1

-----------------------------------------------------------------------------
(* BackupChain: no backup loses its base                                     *)

CallFields == {"stage", "type", "id", "captured", "todo"}
Making(r) == backupCall[r].stage \in {"put", "insert"}
\* A backup that can be restored, or will be when its request goes on.
Live(b) == b \in records \/ \E r \in BackupCalls : Making(r) /\ backupCall[r].id = b

\* Ids are given in order; what a request captured is left open.
BackupShape ==
  /\ backups \in 0 .. BackupCount /\ records \subseteq 1 .. backups
  /\ made = [b \in Ids |-> made[b]] /\ BasesAreIds
  /\ backupCall = [r \in BackupCalls |-> backupCall[r]]
  /\ \A r \in BackupCalls : DOMAIN backupCall[r] = CallFields
  /\ \A r \in BackupCalls : Making(r) => backupCall[r].id \in 1 .. backups

\* A base is in place, and nobody has looked at it and is about to delete it.
BasesStand ==
  \A b \in Ids \ unhooked : Live(b) /\ made[b].base # 0 =>
    made[b].base \in records \cap artifacts /\ Deletes(made[b].base) = {}

ChainInv == BackupShape /\ BasesStand

LEMMA IdsAreNumbers == BackupCount \in Nat /\ Ids \subseteq Nat \ {0}
BY BackupAssumption DEF BackupAssumption, Ids

LEMMA ChainInvInit == BackupInit => ChainInv
<1> SUFFICES ASSUME BackupInit  PROVE ChainInv
  OBVIOUS
<1>1. NoBackupCall.stage = "idle" /\ DOMAIN NoBackupCall = CallFields
  BY DEF NoBackupCall, CallFields
<1>2. \A b \in Ids : made[b].base = 0  BY DEF BackupInit, NoArtifact
<1>3. made = [b \in Ids |-> made[b]]  BY DEF BackupInit
<1>4. /\ backupCall = [r \in BackupCalls |-> backupCall[r]]
      /\ \A r \in BackupCalls : backupCall[r] = NoBackupCall
  BY DEF BackupInit
<1>5. backups \in 0 .. BackupCount /\ records \subseteq 1 .. backups
  BY IdsAreNumbers DEF BackupInit
<1> QED
  BY <1>1, <1>2, <1>3, <1>4, <1>5 DEF ChainInv, BackupShape, BasesAreIds, BasesStand, Making

LEMMA OneBackupCall ==
  ASSUME BackupShape, NEW r \in BackupCalls, NEW h, DOMAIN h = CallFields,
         backupCall' = [backupCall EXCEPT ![r] = h]
  PROVE  /\ backupCall' = [q \in BackupCalls |-> backupCall'[q]]
         /\ \A q \in BackupCalls : DOMAIN backupCall'[q] = CallFields
         /\ backupCall'[r] = h /\ \A q \in BackupCalls \ {r} : backupCall'[q] = backupCall[q]
         /\ Making(r)' <=> h.stage \in {"put", "insert"}
         /\ \A q \in BackupCalls \ {r} : Making(q)' <=> Making(q)
<1>1. backupCall' = [q \in BackupCalls |-> IF q = r THEN h ELSE backupCall[q]]
  BY DEF BackupShape
<1>2. backupCall'[r] = h /\ \A q \in BackupCalls \ {r} : backupCall'[q] = backupCall[q]
  BY <1>1
<1>3. \A q \in BackupCalls : DOMAIN backupCall'[q] = CallFields  BY <1>2 DEF BackupShape
<1>4. backupCall' = [q \in BackupCalls |-> backupCall'[q]]  BY <1>1
<1> QED  BY <1>2, <1>3, <1>4 DEF Making

LEMMA CallParts ==
  ASSUME BackupShape, NEW r \in BackupCalls
  PROVE  /\ DOMAIN NoBackupCall = CallFields /\ NoBackupCall.stage = "idle"
         /\ DOMAIN backupCall[r] = CallFields /\ r \in DOMAIN backupCall
         /\ "stage" \in CallFields /\ "id" \in CallFields /\ "todo" \in CallFields
<1>1. DOMAIN NoBackupCall = CallFields /\ NoBackupCall.stage = "idle"
  BY DEF NoBackupCall, CallFields
<1>2. DOMAIN backupCall[r] = CallFields  BY DEF BackupShape
<1>3. r \in DOMAIN backupCall  BY DEF BackupShape
<1> QED  BY <1>1, <1>2, <1>3 DEF CallFields

\* A step that makes no backup keeps the invariant when what is live was live,
\* when a base that nobody deletes stays in place, and when nobody starts to
\* delete the base of what is live.
LEMMA CallKeepsChains ==
  ASSUME ChainInv, NEW r \in BackupCalls, NEW h, DOMAIN h = CallFields,
         backupCall' = [backupCall EXCEPT ![r] = h],
         h.stage \in {"put", "insert"} => h.id \in 1 .. backups,
         UNCHANGED <<made, backups>>, records' \subseteq 1 .. backups, unhooked \subseteq unhooked',
         \A b \in Ids \ unhooked' : Live(b)' => Live(b),
         \A b \in Ids : b \in records \cap artifacts /\ Deletes(b) = {} => b \in records' \cap artifacts',
         \A b \in Ids \ unhooked' : Live(b)' /\ made[b].base # 0 /\ Deletes(made[b].base) = {} =>
           Deletes(made[b].base)' = {}
  PROVE  ChainInv'
<1>1. BackupShape'
  <2>1. /\ backupCall' = [q \in BackupCalls |-> backupCall'[q]]
        /\ \A q \in BackupCalls : DOMAIN backupCall'[q] = CallFields
        /\ backupCall'[r] = h /\ \A q \in BackupCalls \ {r} : backupCall'[q] = backupCall[q]
        /\ Making(r)' <=> h.stage \in {"put", "insert"}
        /\ \A q \in BackupCalls \ {r} : Making(q)' <=> Making(q)
    BY OneBackupCall DEF ChainInv
  <2>2. \A q \in BackupCalls : Making(q)' => backupCall'[q].id \in 1 .. backups
    <3> TAKE q \in BackupCalls
    <3>1. CASE q = r  BY <2>1, <3>1
    <3>2. CASE q # r
      <4>1. Making(q)' => Making(q)  BY <2>1, <3>2
      <4> QED  BY <4>1, <2>1, <3>2 DEF ChainInv, BackupShape
    <3> QED  BY <3>1, <3>2
  <2> QED  BY <2>1, <2>2 DEF ChainInv, BackupShape, BasesAreIds
<1>2. BasesStand'
  <2> SUFFICES ASSUME NEW b \in Ids \ unhooked', Live(b)', made[b].base # 0
               PROVE  made[b].base \in records' \cap artifacts' /\ Deletes(made[b].base)' = {}
    BY DEF BasesStand
  <2>1. made[b].base \in records \cap artifacts /\ Deletes(made[b].base) = {}
    BY DEF ChainInv, BasesStand
  <2>2. made[b].base \in Ids  BY DEF ChainInv, BackupShape, BasesAreIds
  <2> QED  BY <2>1, <2>2
<1> QED  BY <1>1, <1>2 DEF ChainInv

\* A request goes on to a stage in which it neither makes nor deletes.
LEMMA QuietCallKeepsChains ==
  ASSUME ChainInv, NEW r \in BackupCalls, NEW h, DOMAIN h = CallFields,
         backupCall' = [backupCall EXCEPT ![r] = h],
         h.stage \notin {"put", "insert", "artifact", "row"},
         UNCHANGED <<made, backups, records, artifacts, unhooked>>
  PROVE  ChainInv'
<1>1. /\ backupCall'[r] = h /\ \A q \in BackupCalls \ {r} : backupCall'[q] = backupCall[q]
      /\ Making(r)' <=> h.stage \in {"put", "insert"}
      /\ \A q \in BackupCalls \ {r} : Making(q)' <=> Making(q)
  BY OneBackupCall DEF ChainInv
<1>2. \A b \in Ids \ unhooked' : Live(b)' => Live(b)
  <2> SUFFICES ASSUME NEW b \in Ids, NEW q \in BackupCalls, Making(q)', backupCall'[q].id = b
               PROVE  Live(b)
    BY DEF Live
  <2>1. q # r  BY <1>1
  <2> QED  BY <1>1, <2>1 DEF Live
<1>3. \A b : Deletes(b)' \subseteq Deletes(b)  BY <1>1 DEF Deletes
<1>4. records' \subseteq 1 .. backups  BY DEF ChainInv, BackupShape
<1>5. \A b \in Ids \ unhooked' : Live(b)' /\ made[b].base # 0 /\ Deletes(made[b].base) = {} =>
        Deletes(made[b].base)' = {}
  <2>1. ASSUME NEW b \in Ids, Deletes(made[b].base) = {}  PROVE Deletes(made[b].base)' = {}
    <3>1. PICK i : i = made[b].base  OBVIOUS
    <3>2. made'[b].base = i  BY <3>1
    <3> QED  BY <1>3, <2>1, <3>1, <3>2 DEF Deletes
  <2> QED  BY <2>1
<1>6. \A b \in Ids : b \in records \cap artifacts /\ Deletes(b) = {} => b \in records' \cap artifacts'
  OBVIOUS
<1>7. h.stage \in {"put", "insert"} => h.id \in 1 .. backups  OBVIOUS
<1>8. UNCHANGED <<made, backups>> /\ unhooked \subseteq unhooked'  OBVIOUS
<1> HIDE DEF Live, Deletes
<1> QED  BY <1>2, <1>4, <1>5, <1>6, <1>7, <1>8, CallKeepsChains

\* Creation up to the choice of a base, the selection of what is obsolete, the
\* requests to delete, every step of a restore, and a request that fails.
LEMMA QuietSteps ==
  ASSUME ChainInv, NEW r \in BackupCalls,
         \/ SetRetention(r) \/ Retain(r) \/ NextObsolete(r) \/ ReadPayload(r)
         \/ RestoreComponent(r) \/ RestoreEnds(r) \/ BackupFails(r)
         \/ \E b \in Ids : DeleteBackup(r, b) \/ Restore(r, b, Components)
         \/ \E type \in {"full", "incremental", "differential"}, S \in SUBSET Components \ {{}} :
              Capture(r, type, S)
  PROVE  ChainInv'
<1> DEFINE Quiet(h) == DOMAIN h = CallFields /\ h.stage \notin {"put", "insert", "artifact", "row"}
<1> USE DEF ChainInv
<1> SUFFICES \E h : Quiet(h) /\ backupCall' = [backupCall EXCEPT ![r] = h]
                    /\ UNCHANGED <<made, backups, records, artifacts, unhooked>>
  BY QuietCallKeepsChains
<1>e. Quiet(NoBackupCall)  BY CallParts
<1>1. CASE SetRetention(r)
  <2> DEFINE h == [backupCall[r] EXCEPT !.stage = "retain"]
  <2>1. Quiet(h) /\ backupCall' = [backupCall EXCEPT ![r] = h]  BY <1>1, CallParts DEF SetRetention, BackupGo
  <2> QED  BY <2>1, <1>1 DEF SetRetention
<1>2. CASE Retain(r)
  <2>1. PICK todo : backupCall' = [backupCall EXCEPT ![r] =
          IF todo = {} THEN NoBackupCall ELSE [NoBackupCall EXCEPT !.stage = "next", !.todo = todo]]
    BY <1>2 DEF Retain
  <2>2. Quiet([NoBackupCall EXCEPT !.stage = "next", !.todo = todo])  BY DEF NoBackupCall, CallFields
  <2>3. Quiet(IF todo = {} THEN NoBackupCall ELSE [NoBackupCall EXCEPT !.stage = "next", !.todo = todo])
    BY <1>e, <2>2
  <2> HIDE DEF Quiet
  <2> QED  BY <2>1, <2>3, <1>2 DEF Retain
<1>3. CASE NextObsolete(r)
  <2>1. PICK b : backupCall' = [backupCall EXCEPT ![r].stage = "check", ![r].id = b, ![r].todo = @ \ {b}]
    BY <1>3 DEF NextObsolete
  <2> DEFINE h == [backupCall[r] EXCEPT !.stage = "check", !.id = b, !.todo = backupCall[r].todo \ {b}]
  <2>2. backupCall' = [backupCall EXCEPT ![r].stage = "check", ![r].id = b, ![r].todo = backupCall[r].todo \ {b}]
    BY <2>1
  <2>3. Quiet(h) /\ backupCall' = [backupCall EXCEPT ![r] = h]  BY <2>2, CallParts
  <2> QED  BY <2>3, <1>3 DEF NextObsolete
<1>4. CASE ReadPayload(r)
  <2>1. PICK s \in {"restore", "restored"} : BackupGo(r, s)  BY <1>4 DEF ReadPayload
  <2> DEFINE h == [backupCall[r] EXCEPT !.stage = s]
  <2>2. Quiet(h) /\ backupCall' = [backupCall EXCEPT ![r] = h]  BY <2>1, CallParts DEF BackupGo
  <2> QED  BY <2>2, <1>4 DEF ReadPayload
<1>5. CASE RestoreComponent(r)
  <2>1. PICK c : backupCall' = [backupCall EXCEPT ![r].todo = @ \ {c},
            ![r].stage = IF backupCall[r].todo = {c} THEN "restored" ELSE "restore"]
    BY <1>5 DEF RestoreComponent
  <2>2. PICK s \in {"restore", "restored"} : s = IF backupCall[r].todo = {c} THEN "restored" ELSE "restore"
    OBVIOUS
  <2>3. backupCall' = [backupCall EXCEPT ![r].todo = backupCall[r].todo \ {c}, ![r].stage = s]
    BY <2>1, <2>2
  <2> DEFINE h == [backupCall[r] EXCEPT !.todo = backupCall[r].todo \ {c}, !.stage = s]
  <2>4. Quiet(h) /\ backupCall' = [backupCall EXCEPT ![r] = h]  BY <2>3, CallParts
  <2> QED  BY <2>4, <1>5 DEF RestoreComponent
<1>6. CASE RestoreEnds(r)  BY <1>e, <1>6 DEF RestoreEnds, BackupEnd
<1>7. CASE BackupFails(r)  BY <1>e, <1>7 DEF BackupFails, BackupEnd
<1>8. CASE \E b \in Ids : DeleteBackup(r, b) \/ Restore(r, b, Components)
  <2>1. PICK b \in Ids : DeleteBackup(r, b) \/ Restore(r, b, Components)  BY <1>8
  <2>2. CASE DeleteBackup(r, b)
    <3> DEFINE h == [backupCall[r] EXCEPT !.stage = "check", !.id = b]
    <3>1. Quiet(h) /\ backupCall' = [backupCall EXCEPT ![r] = h]  BY <2>2, CallParts DEF DeleteBackup
    <3> QED  BY <3>1, <2>2 DEF DeleteBackup
  <2>3. CASE Restore(r, b, Components)
    <3> DEFINE h == [backupCall[r] EXCEPT !.stage = "payload", !.id = b, !.todo = Components]
    <3>1. Quiet(h) /\ backupCall' = [backupCall EXCEPT ![r] = h]  BY <2>3, CallParts DEF Restore
    <3> QED  BY <3>1, <2>3 DEF Restore
  <2> QED  BY <2>1, <2>2, <2>3
<1>9. CASE \E type \in {"full", "incremental", "differential"}, S \in SUBSET Components \ {{}} :
             Capture(r, type, S)
  <2>1. PICK type, S : Capture(r, type, S)  BY <1>9
  <2> DEFINE h == [NoBackupCall EXCEPT !.stage = "base", !.type = type, !.captured = [c \in S |-> data[c]]]
  <2>2. Quiet(h)  BY DEF NoBackupCall, CallFields
  <2>3. backupCall' = [backupCall EXCEPT ![r] = h]  BY <2>1 DEF Capture
  <2> QED  BY <2>1, <2>2, <2>3 DEF Capture
<1> QED  BY <1>1, <1>2, <1>3, <1>4, <1>5, <1>6, <1>7, <1>8, <1>9

LEMMA PutArtifactKeepsChains ==
  ASSUME ChainInv, NEW r \in BackupCalls, PutArtifact(r)
  PROVE  ChainInv'
<1> DEFINE h == [backupCall[r] EXCEPT !.stage = "insert"]
<1>1. BackupShape  BY DEF ChainInv
<1>2. DOMAIN h = CallFields /\ h.stage = "insert" /\ h.id = backupCall[r].id
      /\ backupCall' = [backupCall EXCEPT ![r] = h]
  BY <1>1, CallParts DEF PutArtifact, BackupGo
<1> HIDE DEF h
<1>3. /\ backupCall'[r] = h /\ \A q \in BackupCalls \ {r} : backupCall'[q] = backupCall[q]
      /\ Making(r)' /\ \A q \in BackupCalls \ {r} : Making(q)' <=> Making(q)
  BY <1>1, <1>2, OneBackupCall
<1>4. Making(r) /\ h.id \in 1 .. backups
  BY <1>1, <1>2 DEF PutArtifact, BackupAt, Making, BackupShape
<1>5. \A b \in Ids \ unhooked' : Live(b)' => Live(b)
  <2> SUFFICES ASSUME NEW b \in Ids, Live(b)'  PROVE Live(b)
    OBVIOUS
  <2>1. CASE b \in records'  BY <2>1 DEF PutArtifact, Live
  <2>2. CASE b \notin records'
    <3>1. PICK q \in BackupCalls : Making(q)' /\ backupCall'[q].id = b  BY <2>2 DEF Live
    <3>2. Making(q) /\ backupCall[q].id = b  BY <3>1, <1>2, <1>3, <1>4
    <3> QED  BY <3>2 DEF Live
  <2> QED  BY <2>1, <2>2
<1>6. \A b : Deletes(b)' \subseteq Deletes(b)
  BY <1>2, <1>3 DEF Deletes
<1>7. \A b \in Ids \ unhooked' : Live(b)' /\ made[b].base # 0 /\ Deletes(made[b].base) = {} =>
        Deletes(made[b].base)' = {}
  <2> SUFFICES ASSUME NEW b \in Ids, Deletes(made[b].base) = {}  PROVE Deletes(made[b].base)' = {}
    OBVIOUS
  <2>1. PICK i : i = made[b].base  OBVIOUS
  <2>2. made'[b].base = i  BY <2>1 DEF PutArtifact
  <2> QED  BY <1>6, <2>1, <2>2 DEF Deletes
<1>8. UNCHANGED <<made, backups>> /\ records' \subseteq 1 .. backups /\ unhooked \subseteq unhooked'
      /\ \A b \in Ids : b \in records \cap artifacts /\ Deletes(b) = {} => b \in records' \cap artifacts'
  BY <1>1 DEF PutArtifact, BackupShape
<1> HIDE DEF Live, Deletes
<1> QED  BY <1>2, <1>4, <1>5, <1>7, <1>8, CallKeepsChains

LEMMA InsertRecordKeepsChains ==
  ASSUME ChainInv, NEW r \in BackupCalls, InsertRecord(r)
  PROVE  ChainInv'
<1> DEFINE h == [backupCall[r] EXCEPT !.stage = "retain"]
<1>1. BackupShape  BY DEF ChainInv
<1>2. DOMAIN h = CallFields /\ h.stage = "retain" /\ h.id = backupCall[r].id
      /\ backupCall' = [backupCall EXCEPT ![r] = h]
  BY <1>1, CallParts DEF InsertRecord, BackupGo
<1> HIDE DEF h
<1>3. /\ backupCall'[r] = h /\ \A q \in BackupCalls \ {r} : backupCall'[q] = backupCall[q]
      /\ ~Making(r)' /\ \A q \in BackupCalls \ {r} : Making(q)' <=> Making(q)
  BY <1>1, <1>2, OneBackupCall
<1>4. Making(r) /\ backupCall[r].id \in 1 .. backups
  BY <1>1 DEF InsertRecord, BackupAt, Making, BackupShape
<1>5. \A b \in Ids \ unhooked' : Live(b)' => Live(b)
  <2> SUFFICES ASSUME NEW b \in Ids, Live(b)'  PROVE Live(b)
    OBVIOUS
  <2>1. CASE b \in records'
    <3>1. b \in records \/ b = backupCall[r].id  BY <2>1 DEF InsertRecord
    <3> QED  BY <3>1, <1>4 DEF Live
  <2>2. CASE b \notin records'
    <3>1. PICK q \in BackupCalls : Making(q)' /\ backupCall'[q].id = b  BY <2>2 DEF Live
    <3>2. q # r  BY <3>1, <1>3
    <3>3. Making(q) /\ backupCall[q].id = b  BY <3>1, <3>2, <1>3
    <3> QED  BY <3>3 DEF Live
  <2> QED  BY <2>1, <2>2
<1>6. \A b : Deletes(b)' \subseteq Deletes(b)
  BY <1>2, <1>3 DEF Deletes
<1>7. \A b \in Ids \ unhooked' : Live(b)' /\ made[b].base # 0 /\ Deletes(made[b].base) = {} =>
        Deletes(made[b].base)' = {}
  <2> SUFFICES ASSUME NEW b \in Ids, Deletes(made[b].base) = {}  PROVE Deletes(made[b].base)' = {}
    OBVIOUS
  <2>1. PICK i : i = made[b].base  OBVIOUS
  <2>2. made'[b].base = i  BY <2>1 DEF InsertRecord
  <2> QED  BY <1>6, <2>1, <2>2 DEF Deletes
<1>8. UNCHANGED <<made, backups>> /\ records' \subseteq 1 .. backups /\ unhooked \subseteq unhooked'
      /\ \A b \in Ids : b \in records \cap artifacts /\ Deletes(b) = {} => b \in records' \cap artifacts'
  BY <1>1, <1>4 DEF InsertRecord, BackupShape
<1>9. h.stage \in {"put", "insert"} => h.id \in 1 .. backups  BY <1>2
<1> HIDE DEF Live, Deletes
<1> QED  BY <1>2, <1>5, <1>7, <1>8, <1>9, CallKeepsChains

\* What is deleted was being deleted, so that it is nobody's base.
LEMMA DeleteArtifactKeepsChains ==
  ASSUME ChainInv, NEW r \in BackupCalls, DeleteArtifact(r)
  PROVE  ChainInv'
<1> DEFINE h == [backupCall[r] EXCEPT !.stage = "row"]
<1>1. BackupShape  BY DEF ChainInv
<1>2. DOMAIN h = CallFields /\ h.stage = "row" /\ h.id = backupCall[r].id
      /\ backupCall' = [backupCall EXCEPT ![r] = h]
  BY <1>1, CallParts DEF DeleteArtifact, BackupGo
<1> HIDE DEF h
<1>3. /\ backupCall'[r] = h /\ \A q \in BackupCalls \ {r} : backupCall'[q] = backupCall[q]
      /\ ~Making(r)' /\ \A q \in BackupCalls \ {r} : Making(q)' <=> Making(q)
  BY <1>1, <1>2, OneBackupCall
<1>4. r \in Deletes(backupCall[r].id)  BY DEF DeleteArtifact, BackupAt, Deletes
<1>5. \A b \in Ids \ unhooked' : Live(b)' => Live(b)
  <2> SUFFICES ASSUME NEW b \in Ids, Live(b)'  PROVE Live(b)
    OBVIOUS
  <2>1. CASE b \in records'  BY <2>1 DEF DeleteArtifact, Live
  <2>2. CASE b \notin records'
    <3>1. PICK q \in BackupCalls : Making(q)' /\ backupCall'[q].id = b  BY <2>2 DEF Live
    <3>2. q # r  BY <3>1, <1>3
    <3>3. Making(q) /\ backupCall[q].id = b  BY <3>1, <3>2, <1>3
    <3> QED  BY <3>3 DEF Live
  <2> QED  BY <2>1, <2>2
<1>6. \A b : Deletes(b)' \subseteq Deletes(b)
  <2> SUFFICES ASSUME NEW b, NEW q \in Deletes(b)'  PROVE q \in Deletes(b)
    OBVIOUS
  <2>1. q \in BackupCalls /\ backupCall'[q].stage \in {"artifact", "row"} /\ backupCall'[q].id = b
    BY DEF Deletes
  <2>2. CASE q = r  BY <2>1, <2>2, <1>2, <1>3, <1>4 DEF Deletes
  <2>3. CASE q # r  BY <2>1, <2>3, <1>3 DEF Deletes
  <2> QED  BY <2>2, <2>3
<1>7. \A b \in Ids \ unhooked' : Live(b)' /\ made[b].base # 0 /\ Deletes(made[b].base) = {} =>
        Deletes(made[b].base)' = {}
  <2> SUFFICES ASSUME NEW b \in Ids, Deletes(made[b].base) = {}  PROVE Deletes(made[b].base)' = {}
    OBVIOUS
  <2>1. PICK i : i = made[b].base  OBVIOUS
  <2>2. made'[b].base = i  BY <2>1 DEF DeleteArtifact
  <2> QED  BY <1>6, <2>1, <2>2 DEF Deletes
<1>8. UNCHANGED <<made, backups>> /\ records' \subseteq 1 .. backups /\ unhooked \subseteq unhooked'
      /\ \A b \in Ids : b \in records \cap artifacts /\ Deletes(b) = {} => b \in records' \cap artifacts'
  BY <1>1, <1>4 DEF DeleteArtifact, BackupShape
<1>9. h.stage \in {"put", "insert"} => h.id \in 1 .. backups  BY <1>2
<1> HIDE DEF Live, Deletes
<1> QED  BY <1>2, <1>5, <1>7, <1>8, <1>9, CallKeepsChains

LEMMA AfterDeleteIsQuiet ==
  ASSUME BackupShape, NEW r \in BackupCalls
  PROVE  DOMAIN AfterDelete(r) = CallFields
         /\ AfterDelete(r).stage \notin {"put", "insert", "artifact", "row"}
<1>1. CASE backupCall[r].todo = {}  BY <1>1, CallParts DEF AfterDelete
<1>2. CASE backupCall[r].todo # {}  BY <1>2, CallParts DEF AfterDelete
<1> QED  BY <1>1, <1>2

LEMMA DeleteRecordKeepsChains ==
  ASSUME ChainInv, NEW r \in BackupCalls, DeleteRecord(r)
  PROVE  ChainInv'
<1> DEFINE h == AfterDelete(r)
<1>1. BackupShape  BY DEF ChainInv
<1>2. DOMAIN h = CallFields /\ h.stage \notin {"put", "insert", "artifact", "row"}
      /\ backupCall' = [backupCall EXCEPT ![r] = h]
  BY <1>1, AfterDeleteIsQuiet DEF DeleteRecord
<1> HIDE DEF h
<1>3. /\ backupCall'[r] = h /\ \A q \in BackupCalls \ {r} : backupCall'[q] = backupCall[q]
      /\ ~Making(r)' /\ \A q \in BackupCalls \ {r} : Making(q)' <=> Making(q)
  BY <1>1, <1>2, OneBackupCall
<1>4. r \in Deletes(backupCall[r].id)  BY DEF DeleteRecord, BackupAt, Deletes
<1>5. \A b \in Ids \ unhooked' : Live(b)' => Live(b)
  <2> SUFFICES ASSUME NEW b \in Ids, Live(b)'  PROVE Live(b)
    OBVIOUS
  <2>1. CASE b \in records'  BY <2>1 DEF DeleteRecord, Live
  <2>2. CASE b \notin records'
    <3>1. PICK q \in BackupCalls : Making(q)' /\ backupCall'[q].id = b  BY <2>2 DEF Live
    <3>2. q # r  BY <3>1, <1>3
    <3>3. Making(q) /\ backupCall[q].id = b  BY <3>1, <3>2, <1>3
    <3> QED  BY <3>3 DEF Live
  <2> QED  BY <2>1, <2>2
<1>6. \A b : Deletes(b)' \subseteq Deletes(b)
  BY <1>2, <1>3 DEF Deletes
<1>7. \A b \in Ids \ unhooked' : Live(b)' /\ made[b].base # 0 /\ Deletes(made[b].base) = {} =>
        Deletes(made[b].base)' = {}
  <2> SUFFICES ASSUME NEW b \in Ids, Deletes(made[b].base) = {}  PROVE Deletes(made[b].base)' = {}
    OBVIOUS
  <2>1. PICK i : i = made[b].base  OBVIOUS
  <2>2. made'[b].base = i  BY <2>1 DEF DeleteRecord
  <2> QED  BY <1>6, <2>1, <2>2 DEF Deletes
<1>8. UNCHANGED <<made, backups>> /\ records' \subseteq 1 .. backups /\ unhooked \subseteq unhooked'
      /\ \A b \in Ids : b \in records \cap artifacts /\ Deletes(b) = {} => b \in records' \cap artifacts'
  BY <1>1, <1>4 DEF DeleteRecord, BackupShape
<1>9. h.stage \in {"put", "insert"} => h.id \in 1 .. backups  BY <1>2
<1> HIDE DEF Live, Deletes
<1> QED  BY <1>2, <1>5, <1>7, <1>8, <1>9, CallKeepsChains

\* Who starts to delete a backup has seen that it is nobody's base; what is
\* being made on it loses it and is known to.
LEMMA CheckDeleteKeepsChains ==
  ASSUME ChainInv, NEW r \in BackupCalls, CheckDelete(r)
  PROVE  ChainInv'
<1> DEFINE del == backupCall[r].id
<1>1. BackupShape  BY DEF ChainInv
<1>2. UNCHANGED <<made, backups, records, artifacts>>  BY DEF CheckDelete
<1>3. CASE del \notin records \/ IsBase(del)
  <2>1. unhooked' = unhooked  BY <1>3 DEF CheckDelete
  <2>2. \/ backupCall' = [backupCall EXCEPT ![r] = AfterDelete(r)]
        \/ backupCall' = [backupCall EXCEPT ![r] = NoBackupCall]
    BY <1>3 DEF CheckDelete
  <2>3. /\ DOMAIN NoBackupCall = CallFields
        /\ NoBackupCall.stage \notin {"put", "insert", "artifact", "row"}
    BY <1>1, CallParts
  <2> QED
    BY <1>1, <1>2, <2>1, <2>2, <2>3, AfterDeleteIsQuiet, QuietCallKeepsChains
<1>4. CASE del \in records /\ ~IsBase(del)
  <2> DEFINE h == [backupCall[r] EXCEPT !.stage = "artifact"]
             onIt == {backupCall[q].id : q \in {q \in BackupCalls :
                        /\ backupCall[q].stage \in {"put", "insert"}
                        /\ made[backupCall[q].id].base = del}}
  <2>1. unhooked' = unhooked \cup onIt  BY <1>4 DEF CheckDelete
  <2>2. DOMAIN h = CallFields /\ h.stage = "artifact" /\ h.id = del
        /\ backupCall' = [backupCall EXCEPT ![r] = h]
    BY <1>1, <1>4, CallParts DEF CheckDelete
  <2>3. \A q \in BackupCalls : Making(q) /\ made[backupCall[q].id].base = del
          => backupCall[q].id \in unhooked'
    BY <2>1 DEF Making
  <2> HIDE DEF h, onIt
  <2>4. /\ backupCall'[r] = h /\ \A q \in BackupCalls \ {r} : backupCall'[q] = backupCall[q]
        /\ ~Making(r)' /\ \A q \in BackupCalls \ {r} : Making(q)' <=> Making(q)
    BY <1>1, <2>2, OneBackupCall
  <2>5. \A b \in Ids \ unhooked' : Live(b)' => Live(b)
    <3> SUFFICES ASSUME NEW b \in Ids, Live(b)'  PROVE Live(b)
      OBVIOUS
    <3>1. CASE b \in records'  BY <3>1, <1>2 DEF Live
    <3>2. CASE b \notin records'
      <4>1. PICK q \in BackupCalls : Making(q)' /\ backupCall'[q].id = b  BY <3>2 DEF Live
      <4>2. q # r  BY <4>1, <2>4
      <4>3. Making(q) /\ backupCall[q].id = b  BY <4>1, <4>2, <2>4
      <4> QED  BY <4>3 DEF Live
    <3> QED  BY <3>1, <3>2
  <2>6. \A b : b # del => Deletes(b)' \subseteq Deletes(b)
    <3> SUFFICES ASSUME NEW b, b # del, NEW q \in Deletes(b)'  PROVE q \in Deletes(b)
      OBVIOUS
    <3>1. q \in BackupCalls /\ backupCall'[q].stage \in {"artifact", "row"} /\ backupCall'[q].id = b
      BY DEF Deletes
    <3>2. q # r  BY <3>1, <2>2, <2>4
    <3> QED  BY <3>1, <3>2, <2>4 DEF Deletes
  <2>7. ASSUME NEW b \in Ids \ unhooked', Live(b)'  PROVE made[b].base # del
    <3>1. Live(b)  BY <2>5, <2>7
    <3>2. b \in records => made[b].base # del  BY <1>4 DEF IsBase, Dependants
    <3> QED  BY <3>1, <3>2, <2>3 DEF Live
  <2>8. \A b \in Ids \ unhooked' : Live(b)' /\ made[b].base # 0 /\ Deletes(made[b].base) = {} =>
          Deletes(made[b].base)' = {}
    <3> SUFFICES ASSUME NEW b \in Ids \ unhooked', Live(b)', Deletes(made[b].base) = {}
                 PROVE Deletes(made[b].base)' = {}
      OBVIOUS
    <3>1. PICK i : i = made[b].base  OBVIOUS
    <3>2. made'[b].base = i  BY <3>1, <1>2
    <3>3. i # del  BY <3>1, <2>7
    <3> QED  BY <2>6, <3>1, <3>2, <3>3 DEF Deletes
  <2>9. UNCHANGED <<made, backups>> /\ records' \subseteq 1 .. backups /\ unhooked \subseteq unhooked'
        /\ \A b \in Ids : b \in records \cap artifacts /\ Deletes(b) = {} => b \in records' \cap artifacts'
    BY <1>1, <1>2, <2>1 DEF BackupShape
  <2>10. h.stage \in {"put", "insert"} => h.id \in 1 .. backups  BY <2>2
  <2> HIDE DEF Live, Deletes
  <2> QED  BY <2>2, <2>5, <2>8, <2>9, <2>10, CallKeepsChains
<1> QED  BY <1>3, <1>4

\* Among the backups of a set that is not empty there is a newest one.
LEMMA NewestIsIn ==
  ASSUME NEW S \in SUBSET Ids, S # {}
  PROVE  NewestRecord(S) \in S /\ \A a \in S : a <= NewestRecord(S)
<1> DEFINE Rel == OpToRel(<, Nat)
           older == {BackupCount - b : b \in S}
<1>1. \A b \in Ids : b \in Nat /\ b <= BackupCount  BY IdsAreNumbers DEF Ids
<1>2. older \subseteq Nat /\ older # {}
  <2>1. \A b \in S : BackupCount - b \in Nat  BY <1>1, IdsAreNumbers
  <2> QED  BY <2>1
<1>3. PICK k \in older : \A m \in older : <<m, k>> \notin Rel
  BY <1>2, NatLessThanWellFounded, WFMin
<1>4. \A m \in older : <<m, k>> \in Rel <=> m < k  BY <1>2 DEF OpToRel
<1> HIDE DEF Rel
<1>5. \A m \in older : ~(m < k)  BY <1>3, <1>4, Zenon
<1>6. PICK b \in S : k = BackupCount - b  OBVIOUS
<1>7. \A a \in S : a <= b
  <2> TAKE a \in S
  <2>1. ~(BackupCount - a < BackupCount - b)  BY <1>5, <1>6
  <2> QED  BY <2>1, <1>1, IdsAreNumbers
<1> QED  BY <1>7 DEF NewestRecord

LEMMA BaseIsRecord ==
  ASSUME records \subseteq Ids, NEW type
  PROVE  BaseOf(type) \in {0} \cup records
<1> DEFINE fulls == {b \in records : made[b].full}
<1>1. records # {} => NewestRecord(records) \in records  BY NewestIsIn
<1>2. fulls # {} => NewestRecord(fulls) \in fulls  BY NewestIsIn
<1>3. CASE type = "incremental" /\ records # {}  BY <1>1, <1>3 DEF BaseOf
<1>4. CASE type = "differential" /\ fulls # {}  BY <1>2, <1>4 DEF BaseOf
<1>5. CASE ~(type = "incremental" /\ records # {}) /\ ~(type = "differential" /\ fulls # {})
  BY <1>5 DEF BaseOf
<1> QED  BY <1>3, <1>4, <1>5

\* The new backup's base is read whole; when somebody is deleting it, the
\* backup is known to lose it.
LEMMA ChooseBaseKeepsChains ==
  ASSUME ChainInv, NEW r \in BackupCalls, ChooseBase(r)
  PROVE  ChainInv'
<1> DEFINE base == BaseOf(backupCall[r].type)
           id == backups + 1
           entry == [base |-> base, full |-> backupCall[r].type = "full",
               captured |-> backupCall[r].captured,
               components |-> IF base = 0 THEN backupCall[r].captured
                              ELSE Differing(backupCall[r].captured, Payload[base])]
<1>1. BackupShape  BY DEF ChainInv
<1>2. id \in Ids /\ backups \in Nat /\ records \subseteq Ids /\ id \notin records
  BY <1>1, IdsAreNumbers DEF ChooseBase, BackupShape, Ids
<1>3. base \in {0} \cup records  BY <1>2, BaseIsRecord
<1>4. UNCHANGED <<records, artifacts>>  BY DEF ChooseBase
<1>5. CASE base # 0 /\ ~Whole[base]
  <2>1. backupCall' = [backupCall EXCEPT ![r] = NoBackupCall] /\ UNCHANGED <<made, unhooked, backups>>
    BY <1>5 DEF ChooseBase, BackupEnd
  <2>2. DOMAIN NoBackupCall = CallFields
        /\ NoBackupCall.stage \notin {"put", "insert", "artifact", "row"}
    BY <1>1, CallParts
  <2> QED  BY <2>1, <2>2, <1>4, QuietCallKeepsChains
<1>6. CASE base = 0 \/ Whole[base]
  <2>1. /\ backups' = id /\ made' = [made EXCEPT ![id] = entry]
        /\ unhooked' = IF Deletes(base) # {} THEN unhooked \cup {id} ELSE unhooked
        /\ backupCall' = [backupCall EXCEPT ![r].stage = "put", ![r].id = id]
    BY <1>6 DEF ChooseBase
  <2>2. base # 0 => base \in records \cap artifacts /\ base \in Ids
    BY <1>1, <1>2, <1>3, <1>6, WholeIsInPlace DEF BackupShape
  <2>3. entry.base = base  OBVIOUS
  <2> DEFINE h == [backupCall[r] EXCEPT !.stage = "put", !.id = id]
  <2>4. DOMAIN h = CallFields /\ h.stage = "put" /\ h.id = id
        /\ backupCall' = [backupCall EXCEPT ![r] = h]
    BY <1>1, <2>1, CallParts
  <2> HIDE DEF h, entry, base
  <2>5. /\ backupCall' = [q \in BackupCalls |-> backupCall'[q]]
        /\ \A q \in BackupCalls : DOMAIN backupCall'[q] = CallFields
        /\ backupCall'[r] = h /\ \A q \in BackupCalls \ {r} : backupCall'[q] = backupCall[q]
        /\ Making(r)' /\ \A q \in BackupCalls \ {r} : Making(q)' <=> Making(q)
    BY <1>1, <2>4, OneBackupCall
  <2>6. made' = [b \in Ids |-> made'[b]] /\ made'[id] = entry
        /\ \A b \in Ids \ {id} : made'[b] = made[b]
    BY <1>1, <1>2, <2>1 DEF BackupShape
  <2>7. BackupShape'
    <3>1. backups' \in 0 .. BackupCount /\ records' \subseteq 1 .. backups'
      BY <1>1, <1>2, <1>4, <2>1, IdsAreNumbers DEF BackupShape, Ids
    <3>2. BasesAreIds'
      <4> SUFFICES ASSUME NEW b \in Ids  PROVE made'[b].base \in {0} \cup Ids
        BY DEF BasesAreIds
      <4>1. CASE b = id  BY <4>1, <2>6, <2>3, <2>2
      <4>2. CASE b # id  BY <4>2, <2>6, <1>1 DEF BackupShape, BasesAreIds
      <4> QED  BY <4>1, <4>2
    <3>3. \A q \in BackupCalls : Making(q)' => backupCall'[q].id \in 1 .. backups'
      <4> TAKE q \in BackupCalls
      <4>1. CASE q = r  BY <4>1, <1>2, <2>1, <2>4, <2>5
      <4>2. CASE q # r
        <5>1. Making(q)' => backupCall[q].id \in 1 .. backups  BY <4>2, <2>5, <1>1 DEF BackupShape
        <5>2. \A n \in 1 .. backups : n \in 1 .. backups'  BY <1>2, <2>1
        <5> QED  BY <5>1, <5>2, <4>2, <2>5
      <4> QED  BY <4>1, <4>2
    <3> QED  BY <3>1, <3>2, <3>3, <2>5, <2>6 DEF BackupShape
  <2>8. \A b : Deletes(b)' \subseteq Deletes(b)
    BY <2>4, <2>5 DEF Deletes
  <2>9. BasesStand'
    <3> SUFFICES ASSUME NEW b \in Ids \ unhooked', Live(b)',
                        NEW i, i = made'[b].base, i # 0
                 PROVE  i \in records' \cap artifacts' /\ Deletes(i)' = {}
      BY DEF BasesStand, Deletes
    <3>1. CASE b = id
      <4>1. made'[b].base = base /\ base # 0  BY <3>1, <2>6, <2>3
      <4>2. Deletes(base) = {}  BY <3>1, <2>1
      <4>3. i = base  BY <4>1
      <4>4. Deletes(i)' = {}  BY <4>2, <4>3, <2>8
      <4> QED  BY <4>1, <4>3, <4>4, <2>2, <1>4
    <3>2. CASE b # id
      <4>1. made'[b] = made[b] /\ b \notin unhooked  BY <3>2, <2>6, <2>1
      <4>2. Live(b)
        <5>1. CASE b \in records'  BY <5>1, <1>4 DEF Live
        <5>2. CASE b \notin records'
          <6>1. PICK q \in BackupCalls : Making(q)' /\ backupCall'[q].id = b  BY <5>2 DEF Live
          <6>2. q # r  BY <6>1, <3>2, <2>4, <2>5
          <6>3. Making(q) /\ backupCall[q].id = b  BY <6>1, <6>2, <2>5
          <6> QED  BY <6>3 DEF Live
        <5> QED  BY <5>1, <5>2
      <4>3. i \in records \cap artifacts /\ Deletes(i) = {}
        BY <4>1, <4>2 DEF ChainInv, BasesStand
      <4> QED  BY <4>3, <2>8, <1>4
    <3> QED  BY <3>1, <3>2
  <2> QED  BY <2>7, <2>9 DEF ChainInv
<1> QED  BY <1>5, <1>6

LEMMA ChainInvStep == ChainInv /\ [BackupNext]_backupVars => ChainInv'
<1> SUFFICES ASSUME ChainInv, [BackupNext]_backupVars  PROVE ChainInv'
  OBVIOUS
<1>1. CASE \E r \in BackupCalls :
       \/ ChooseBase(r) \/ PutArtifact(r) \/ InsertRecord(r) \/ SetRetention(r) \/ Retain(r)
       \/ NextObsolete(r) \/ CheckDelete(r) \/ DeleteArtifact(r) \/ DeleteRecord(r)
       \/ ReadPayload(r) \/ RestoreComponent(r) \/ RestoreEnds(r) \/ BackupFails(r)
       \/ \E b \in Ids : DeleteBackup(r, b) \/ Restore(r, b, Components)
       \/ \E type \in {"full", "incremental", "differential"}, S \in SUBSET Components \ {{}} :
            Capture(r, type, S)
  BY <1>1, QuietSteps, ChooseBaseKeepsChains, PutArtifactKeepsChains, InsertRecordKeepsChains,
     CheckDeleteKeepsChains, DeleteArtifactKeepsChains, DeleteRecordKeepsChains
<1>2. CASE (\E c \in Components : WriteData(c)) \/ UNCHANGED backupVars
  <2>1. UNCHANGED <<made, backups, unhooked, records, artifacts, backupCall>>
    BY <1>2 DEF WriteData, backupVars
  <2> QED
    BY <2>1 DEF ChainInv, BackupShape, BasesAreIds, BasesStand, Live, Making, Deletes
<1> QED  BY <1>1, <1>2 DEF BackupNext

\* Retention and deletion, side by side with creations and restores and with
\* requests that fail half way, take no backup's base away: the records keep
\* whole chains for any number of requests, backups, failures and components,
\* whatever is captured and for every policy of retention.
THEOREM ChainsStayWhole == BackupSpec => []ChainsAreWhole
<1>1. ChainInv => ChainsAreWhole
  <2> SUFFICES ASSUME ChainInv, NEW b \in records \ unhooked, made[b].base # 0
               PROVE  made[b].base \in records \cap artifacts
    BY DEF ChainsAreWhole
  <2>1. b \in Ids
    BY IdsAreNumbers DEF ChainInv, BackupShape, Ids
  <2> QED  BY <2>1 DEF ChainInv, BasesStand, Live
<1> QED  BY <1>1, ChainInvInit, ChainInvStep, PTL DEF BackupSpec

-----------------------------------------------------------------------------
(* BackupChain: a backup restores what was captured for it                   *)

BasesAreOlder == \A b \in Ids : made[b].base \in 0 .. b - 1

\* What payload() computes.
PayloadEquation ==
  \A b \in Ids : Payload[b] = IF made[b].base = 0 THEN made[b].components
                              ELSE Over(Payload[made[b].base], made[b].components)

\* There is a function that Payload's equation defines: it takes a component
\* from the newest backup of the chain that holds it.
LEMMA PayloadIsDefined == BasesAreOlder => PayloadEquation
<1> SUFFICES ASSUME BasesAreOlder  PROVE PayloadEquation
  OBVIOUS
<1> DEFINE Closed(S) == \A y \in S : made[y].base # 0 => made[y].base \in S
           On(b, x) == \A S \in SUBSET Ids : Closed(S) /\ b \in S => x \in S
           Holders(b, c) == {x \in Ids : On(b, x) /\ c \in DOMAIN made[x].components}
           Held(b) == {c \in UNION {DOMAIN made[x].components : x \in Ids} : Holders(b, c) # {}}
           From(b, c) == made[NewestRecord(Holders(b, c))].components[c]
           F == [b \in Ids |-> IF made[b].base = 0 THEN made[b].components
                               ELSE [c \in Held(b) |-> From(b, c)]]
<1>1. \A b \in Ids : b \in Nat /\ made[b].base \in Nat /\ made[b].base < b /\ b <= BackupCount
  BY IdsAreNumbers DEF BasesAreOlder, Ids
<1>2. \A b \in Ids : made[b].base # 0 => made[b].base \in Ids
  BY <1>1, IdsAreNumbers DEF Ids
<1>3. \A b \in Ids : On(b, b)  OBVIOUS
<1>4. ASSUME NEW b \in Ids, made[b].base = 0, NEW x, On(b, x)  PROVE x = b
  <2>1. {b} \in SUBSET Ids /\ Closed({b}) /\ b \in {b}  BY <1>4
  <2> QED  BY <2>1, <1>4
<1>5. ASSUME NEW b \in Ids, made[b].base # 0, NEW x
      PROVE  On(b, x) <=> x = b \/ On(made[b].base, x)
  <2>1. ASSUME On(made[b].base, x)  PROVE On(b, x)  BY <2>1, <1>5
  <2>2. ASSUME On(b, x), x # b  PROVE On(made[b].base, x)
    <3> SUFFICES ASSUME NEW S \in SUBSET Ids, Closed(S), made[b].base \in S  PROVE x \in S
      OBVIOUS
    <3>1. S \cup {b} \in SUBSET Ids /\ Closed(S \cup {b}) /\ b \in S \cup {b}  OBVIOUS
    <3>2. x \in S \cup {b}  BY <3>1, <2>2
    <3> QED  BY <3>2, <2>2
  <2> QED  BY <2>1, <2>2, <1>3
<1>6. ASSUME NEW b \in Ids, NEW x \in Ids, On(b, x)  PROVE x <= b
  <2> DEFINE S == {y \in Ids : y <= b}
  <2>1. Closed(S)
    <3> SUFFICES ASSUME NEW y \in S, made[y].base # 0  PROVE made[y].base \in S
      OBVIOUS
    <3>1. made[y].base \in Ids /\ made[y].base < y /\ y <= b  BY <1>1, <1>2
    <3> QED  BY <3>1, <1>1
  <2>2. S \in SUBSET Ids /\ b \in S  BY <1>1
  <2>3. x \in S  BY <2>1, <2>2, <1>6
  <2> QED  BY <2>3
<1> HIDE DEF On
<1>7. ASSUME NEW b \in Ids, made[b].base = 0, NEW c
      PROVE  Holders(b, c) = IF c \in DOMAIN made[b].components THEN {b} ELSE {}
  BY <1>3, <1>4, <1>7
<1>8. ASSUME NEW b \in Ids, made[b].base # 0, NEW c
      PROVE  Holders(b, c) = IF c \in DOMAIN made[b].components
                             THEN Holders(made[b].base, c) \cup {b} ELSE Holders(made[b].base, c)
  BY <1>5, <1>8
<1>9. ASSUME NEW b \in Ids, NEW c  PROVE \A x \in Holders(b, c) : x <= b
  BY <1>6
<1>10. \A b \in Ids : \A c : Holders(b, c) \in SUBSET Ids  OBVIOUS
<1>11. \A b \in Ids : NewestRecord({b}) = b
  <2> TAKE b \in Ids
  <2>1. NewestRecord({b}) \in {b}  BY NewestIsIn
  <2> QED  BY <2>1
<1>12. ASSUME NEW b \in Ids
       PROVE  \A c : (c \in Held(b) <=> Holders(b, c) # {})
  BY <1>12
<1> HIDE DEF Holders, Held
<1>13. ASSUME NEW b \in Ids
       PROVE  DOMAIN F[b] = Held(b) /\ \A c \in Held(b) : F[b][c] = From(b, c)
  <2>1. CASE made[b].base = 0
    <3>1. F[b] = made[b].components  BY <2>1
    <3>2. \A c : c \in Held(b) <=> c \in DOMAIN made[b].components  BY <2>1, <1>7, <1>12
    <3>3. ASSUME NEW c \in Held(b)  PROVE From(b, c) = made[b].components[c]
      <4>1. Holders(b, c) = {b}  BY <3>2, <2>1, <1>7
      <4> QED  BY <4>1, <1>11
    <3> QED  BY <3>1, <3>2, <3>3
  <2>2. CASE made[b].base # 0
    <3>1. F[b] = [c \in Held(b) |-> From(b, c)]  BY <2>2
    <3> HIDE DEF From, F
    <3> QED  BY <3>1
  <2> QED  BY <2>1, <2>2
<1>14. ASSUME NEW b \in Ids, made[b].base # 0
       PROVE  [c \in Held(b) |-> From(b, c)] = Over(F[made[b].base], made[b].components)
  <2> DEFINE base == made[b].base
             own == made[b].components
  <2>1. base \in Ids  BY <1>2, <1>14
  <2>2. DOMAIN F[base] = Held(base) /\ \A c \in Held(base) : F[base][c] = From(base, c)
    BY <2>1, <1>13
  <2>3. \A c : Holders(b, c) = IF c \in DOMAIN own THEN Holders(base, c) \cup {b} ELSE Holders(base, c)
    BY <1>8, <1>14
  <2>4. Held(b) = Held(base) \cup DOMAIN own
    <3>1. \A c : c \in Held(b) <=> Holders(b, c) # {}  BY <1>12
    <3>2. \A c : c \in Held(base) <=> Holders(base, c) # {}  BY <2>1, <1>12
    <3> QED  BY <3>1, <3>2, <2>3
  <2>5. ASSUME NEW c \in Held(b)
        PROVE  From(b, c) = IF c \in DOMAIN own THEN own[c] ELSE F[base][c]
    <3>1. CASE c \in DOMAIN own
      <4>1. b \in Holders(b, c) /\ Holders(b, c) # {} /\ Holders(b, c) \in SUBSET Ids
        BY <3>1, <2>3, <1>10
      <4>2. NewestRecord(Holders(b, c)) \in Holders(b, c) /\ b <= NewestRecord(Holders(b, c))
        BY <4>1, NewestIsIn
      <4>3. NewestRecord(Holders(b, c)) \in Ids /\ NewestRecord(Holders(b, c)) <= b
        BY <4>1, <4>2, <1>9
      <4>4. NewestRecord(Holders(b, c)) = b  BY <4>2, <4>3, <1>1
      <4> QED  BY <4>4, <3>1
    <3>2. CASE c \notin DOMAIN own
      <4>1. Holders(b, c) = Holders(base, c)  BY <3>2, <2>3
      <4>2. c \in Held(base)  BY <3>2, <2>4
      <4> QED  BY <4>1, <4>2, <3>2, <2>2
    <3> QED  BY <3>1, <3>2
  <2> HIDE DEF From, F, base, own
  <2>6. Over(F[base], own) = [c \in Held(base) \cup DOMAIN own |->
                                IF c \in DOMAIN own THEN own[c] ELSE F[base][c]]
    BY <2>2 DEF Over
  <2>7. [c \in Held(b) |-> From(b, c)] = Over(F[base], own)  BY <2>4, <2>5, <2>6
  <2> QED  BY <2>7 DEF base, own
<1>15. F = [b \in Ids |-> IF made[b].base = 0 THEN made[b].components
                          ELSE Over(F[made[b].base], made[b].components)]
  <2>1. \A b \in Ids : F[b] = IF made[b].base = 0 THEN made[b].components
                              ELSE Over(F[made[b].base], made[b].components)
    BY <1>14
  <2>2. F = [b \in Ids |-> F[b]]  OBVIOUS
  <2> HIDE DEF F
  <2> QED  BY <2>1, <2>2
<1> HIDE DEF F
<1>16. Payload = [b \in Ids |-> IF made[b].base = 0 THEN made[b].components
                                ELSE Over(Payload[made[b].base], made[b].components)]
  BY <1>15 DEF Payload
<1> QED  BY <1>16 DEF PayloadEquation

\* A backup's payload depends on what it and those before it hold.
LEMMA PayloadStays ==
  ASSUME BasesAreOlder, BasesAreOlder', NEW n \in 0 .. BackupCount,
         \A b \in 1 .. n : made'[b] = made[b]
  PROVE  \A b \in 1 .. n : Payload'[b] = Payload[b]
<1> DEFINE Rel == OpToRel(<, Nat)
           bad == {b \in 1 .. n : Payload'[b] # Payload[b]}
<1> SUFFICES ASSUME bad # {}  PROVE FALSE
  OBVIOUS
<1>1. 1 .. n \subseteq Ids /\ Ids \subseteq Nat  BY IdsAreNumbers DEF Ids
<1>2. PICK b \in bad : \A a \in bad : <<a, b>> \notin Rel
  BY <1>1, NatLessThanWellFounded, WFMin
<1>3. \A a \in bad : <<a, b>> \in Rel <=> a < b  BY <1>1 DEF OpToRel
<1> HIDE DEF Rel
<1>4. \A a \in bad : ~(a < b)  BY <1>2, <1>3, Zenon
<1>5. PayloadEquation  BY PayloadIsDefined
<1>6. PayloadEquation'
  <2>1. (BasesAreOlder => PayloadEquation)'  BY PayloadIsDefined, PTL
  <2> QED  BY <2>1
<1>7. b \in Ids /\ b \in 1 .. n /\ made'[b] = made[b]  BY <1>1
<1>8. /\ Payload[b] = IF made[b].base = 0 THEN made[b].components
                      ELSE Over(Payload[made[b].base], made[b].components)
      /\ Payload'[b] = IF made[b].base = 0 THEN made[b].components
                       ELSE Over(Payload'[made[b].base], made[b].components)
  BY <1>5, <1>6, <1>7 DEF PayloadEquation, Over
<1>9. made[b].base # 0 => made[b].base \in 1 .. n /\ made[b].base < b
  BY <1>7, IdsAreNumbers DEF BasesAreOlder, Ids
<1>10. made[b].base # 0 => made[b].base \notin bad  BY <1>4, <1>9
<1>11. made[b].base # 0 => Payload'[made[b].base] = Payload[made[b].base]  BY <1>9, <1>10
<1>12. Payload'[b] = Payload[b]  BY <1>8, <1>11
<1> QED  BY <1>12

CapturesAreKept ==
  \A b \in 1 .. backups : \A c \in DOMAIN made[b].captured :
    c \in DOMAIN Payload[b] /\ Payload[b][c] = made[b].captured[c]

CaptureInv == BasesAreOlder /\ CapturesAreKept

LEMMA CaptureInvInit == BackupInit => CaptureInv
<1> SUFFICES ASSUME BackupInit  PROVE CaptureInv
  OBVIOUS
<1>1. \A b \in Ids : made[b].base \in 0 .. b - 1
  BY IdsAreNumbers DEF BackupInit, NoArtifact
<1>2. backups = 0  BY DEF BackupInit
<1> QED  BY <1>1, <1>2 DEF CaptureInv, BasesAreOlder, CapturesAreKept

\* No other step makes a backup.
LEMMA OthersMakeNothing ==
  [BackupNext]_backupVars =>
    UNCHANGED <<made, backups>> \/ \E r \in BackupCalls : ChooseBase(r)
BY DEF BackupNext, backupVars, PutArtifact, InsertRecord, SetRetention, Retain, NextObsolete,
   CheckDelete, DeleteArtifact, DeleteRecord, ReadPayload, RestoreComponent, RestoreEnds,
   BackupFails, DeleteBackup, Restore, Capture, WriteData

\* A new backup holds the components that differ from what its base restores.
LEMMA CaptureInvStep ==
  ChainInv /\ CaptureInv /\ [BackupNext]_backupVars => CaptureInv'
<1> SUFFICES ASSUME ChainInv, CaptureInv, [BackupNext]_backupVars  PROVE CaptureInv'
  OBVIOUS
<1>1. BackupShape /\ BasesAreOlder  BY DEF ChainInv, CaptureInv
<1>2. CASE UNCHANGED <<made, backups>>
  <2>1. BasesAreOlder'  BY <1>1, <1>2 DEF BasesAreOlder
  <2>2. backups \in 0 .. BackupCount  BY <1>1 DEF BackupShape
  <2>3. \A b \in 1 .. backups : Payload'[b] = Payload[b]
    BY <1>1, <1>2, <2>1, <2>2, PayloadStays
  <2>4. CapturesAreKept'  BY <1>2, <2>3 DEF CaptureInv, CapturesAreKept
  <2> QED  BY <2>1, <2>4 DEF CaptureInv
<1>3. CASE \E r \in BackupCalls : ChooseBase(r)
  <2>1. PICK r \in BackupCalls : ChooseBase(r)  BY <1>3
  <2> DEFINE base == BaseOf(backupCall[r].type)
             id == backups + 1
             captured == backupCall[r].captured
             entry == [base |-> base, full |-> backupCall[r].type = "full", captured |-> captured,
                 components |-> IF base = 0 THEN captured ELSE Differing(captured, Payload[base])]
  <2>2. CASE UNCHANGED <<made, backups>>  BY <2>2, <1>2
  <2>3. CASE ~(UNCHANGED <<made, backups>>)
    <3>1. backups' = id /\ made' = [made EXCEPT ![id] = entry]  BY <2>1, <2>3 DEF ChooseBase
    <3>2. id \in Ids /\ backups \in Nat /\ backups \in 0 .. BackupCount
          /\ records \subseteq Ids /\ records \subseteq 1 .. backups
      BY <1>1, <2>1, IdsAreNumbers DEF ChooseBase, BackupShape, Ids
    <3>3. base \in {0} \cup records  BY <3>2, BaseIsRecord
    <3>4. entry.base = base /\ entry.captured = captured
          /\ entry.components = IF base = 0 THEN captured ELSE Differing(captured, Payload[base])
      OBVIOUS
    <3> HIDE DEF entry, base, captured
    <3>5. made'[id] = entry /\ \A b \in Ids \ {id} : made'[b] = made[b]
      BY <1>1, <3>1, <3>2 DEF BackupShape
    <3>6. base \in 0 .. id - 1 /\ (base # 0 => base \in 1 .. backups)  BY <3>2, <3>3
    <3>7. BasesAreOlder'
      <4> SUFFICES ASSUME NEW b \in Ids  PROVE made'[b].base \in 0 .. b - 1
        BY DEF BasesAreOlder
      <4>1. CASE b = id  BY <4>1, <3>4, <3>5, <3>6
      <4>2. CASE b # id  BY <4>2, <3>5, <1>1 DEF BasesAreOlder
      <4> QED  BY <4>1, <4>2
    <3>8. \A b \in 1 .. backups : b \in Ids \ {id}  BY <3>2, IdsAreNumbers DEF Ids
    <3>9. \A b \in 1 .. backups : made'[b] = made[b]  BY <3>5, <3>8
    <3>10. \A b \in 1 .. backups : Payload'[b] = Payload[b]
      BY <1>1, <3>2, <3>7, <3>9, PayloadStays
    <3>11. PayloadEquation'
      <4>1. (BasesAreOlder => PayloadEquation)'  BY PayloadIsDefined, PTL
      <4> QED  BY <4>1, <3>7
    <3>12. Payload'[id] = IF base = 0 THEN captured
                          ELSE Over(Payload[base], Differing(captured, Payload[base]))
      <4>1. Payload'[id] = IF made'[id].base = 0 THEN made'[id].components
                           ELSE Over(Payload'[made'[id].base], made'[id].components)
        BY <3>2, <3>11 DEF PayloadEquation, Over
      <4> QED  BY <4>1, <3>4, <3>5, <3>6, <3>10
    <3>13. ASSUME NEW c \in DOMAIN captured
           PROVE  c \in DOMAIN Payload'[id] /\ Payload'[id][c] = captured[c]
      <4>1. CASE base = 0  BY <4>1, <3>12
      <4>2. CASE base # 0
        <5> DEFINE old == Payload[base]
                   own == Differing(captured, old)
        <5>1. c \in DOMAIN own <=> (c \notin DOMAIN old \/ captured[c] # old[c])  BY DEF Differing
        <5>2. c \in DOMAIN own => own[c] = captured[c]  BY DEF Differing
        <5> HIDE DEF own, old
        <5>3. c \in DOMAIN Over(old, own)
              /\ Over(old, own)[c] = IF c \in DOMAIN own THEN own[c] ELSE old[c]
          BY <5>1 DEF Over
        <5>4. Payload'[id] = Over(old, own)  BY <3>12, <4>2 DEF own, old
        <5> QED  BY <5>1, <5>2, <5>3, <5>4
      <4> QED  BY <4>1, <4>2
    <3>14. CapturesAreKept'
      <4> SUFFICES ASSUME NEW b \in 1 .. id, NEW c \in DOMAIN made'[b].captured
                   PROVE  c \in DOMAIN Payload'[b] /\ Payload'[b][c] = made'[b].captured[c]
        BY <3>1 DEF CapturesAreKept
      <4>1. CASE b = id  BY <4>1, <3>4, <3>5, <3>13
      <4>2. CASE b # id
        <5>1. b \in 1 .. backups  BY <4>2, <3>2
        <5> QED  BY <5>1, <3>9, <3>10 DEF CaptureInv, CapturesAreKept
      <4> QED  BY <4>1, <4>2
    <3> QED  BY <3>7, <3>14 DEF CaptureInv
  <2> QED  BY <2>2, <2>3
<1> QED  BY <1>2, <1>3, OthersMakeNothing

\* Every backup on record restores exactly what was captured for it, however
\* long its chain and whichever components each backup of the chain holds, and
\* whatever a restore or a change makes of the data meanwhile.
THEOREM PayloadsStayCaptures == BackupSpec => []PayloadIsCapture
<1>1. ChainInv /\ CaptureInv => PayloadIsCapture
  BY DEF ChainInv, BackupShape, CaptureInv, CapturesAreKept, PayloadIsCapture
<1> QED
  BY <1>1, ChainInvInit, ChainInvStep, CaptureInvInit, CaptureInvStep, PTL DEF BackupSpec

-----------------------------------------------------------------------------
(* BackupChain: types                                                        *)

MadeRows == [base : 0 .. BackupCount, full : BOOLEAN, components : Captures, captured : Captures]
BackupCallRows ==
  [stage : {"idle", "base", "put", "insert", "retain", "next", "check", "artifact", "row",
            "payload", "restore", "restored"},
   type : {"full", "incremental", "differential"},
   id : 0 .. BackupCount, captured : Captures, todo : SUBSET (Ids \cup Components)]

\* A request that works on a backup has its id; what is left to delete are backups.
CallFits(h) ==
  /\ h \in BackupCallRows
  /\ h.stage \in {"put", "insert", "check", "artifact", "row", "payload", "restore", "restored"} =>
       h.id \in Ids
  /\ h.stage \in {"idle", "next", "check", "artifact", "row"} => h.todo \subseteq Ids
CallsFit == \A r \in BackupCalls : CallFits(backupCall[r])

BackupTyped == BackupTypeOK /\ CallsFit

LEMMA BackupTypesByName ==
  BackupTypeOK <=>
    /\ data \in [Components -> Values]
    /\ records \subseteq Ids /\ artifacts \subseteq Ids /\ restoring \subseteq Ids
    /\ made \in [Ids -> MadeRows] /\ backupCall \in [BackupCalls -> BackupCallRows]
    /\ unhooked \subseteq Ids /\ backups \in Nat /\ writes \in Nat /\ backupFaults \in Nat
BY DEF BackupTypeOK, MadeRows, BackupCallRows

LEMMA CaptureByName ==
  ASSUME NEW f
  PROVE  f \in Captures <=> /\ f = [c \in DOMAIN f |-> f[c]] /\ DOMAIN f \subseteq Components
                            /\ \A c \in DOMAIN f : f[c] \in Values
<1>1. ASSUME f \in Captures
      PROVE  /\ f = [c \in DOMAIN f |-> f[c]] /\ DOMAIN f \subseteq Components
             /\ \A c \in DOMAIN f : f[c] \in Values
  <2>1. PICK S \in SUBSET Components : f \in [S -> Values]  BY <1>1 DEF Captures
  <2> QED  BY <2>1
<1>2. ASSUME f = [c \in DOMAIN f |-> f[c]], DOMAIN f \subseteq Components,
             \A c \in DOMAIN f : f[c] \in Values
      PROVE  f \in Captures
  <2>1. f \in [DOMAIN f -> Values]  BY <1>2
  <2> QED  BY <1>2, <2>1 DEF Captures
<1> QED  BY <1>1, <1>2

LEMMA OverIsCapture ==
  ASSUME NEW base \in Captures, NEW own \in Captures
  PROVE  Over(base, own) \in Captures
<1>1. /\ DOMAIN base \subseteq Components /\ \A c \in DOMAIN base : base[c] \in Values
      /\ DOMAIN own \subseteq Components /\ \A c \in DOMAIN own : own[c] \in Values
  BY CaptureByName
<1>2. DOMAIN Over(base, own) = DOMAIN base \cup DOMAIN own  BY DEF Over
<1>3. \A c \in DOMAIN Over(base, own) : Over(base, own)[c] \in Values  BY <1>1 DEF Over
<1>4. Over(base, own) = [c \in DOMAIN Over(base, own) |-> Over(base, own)[c]]  BY DEF Over
<1> QED  BY <1>1, <1>2, <1>3, <1>4, CaptureByName

LEMMA DifferingIsCapture ==
  ASSUME NEW captured \in Captures, NEW old
  PROVE  Differing(captured, old) \in Captures
<1>1. DOMAIN captured \subseteq Components /\ \A c \in DOMAIN captured : captured[c] \in Values
  BY CaptureByName
<1>2. /\ DOMAIN Differing(captured, old) \subseteq DOMAIN captured
      /\ \A c \in DOMAIN Differing(captured, old) : Differing(captured, old)[c] = captured[c]
      /\ Differing(captured, old) = [c \in DOMAIN Differing(captured, old) |->
                                       Differing(captured, old)[c]]
  BY DEF Differing
<1> QED  BY <1>1, <1>2, CaptureByName

\* What a chain restores is data of components, however long it is.
LEMMA PayloadIsCaptured ==
  ASSUME BasesAreOlder, \A b \in Ids : made[b].components \in Captures
  PROVE  \A b \in Ids : Payload[b] \in Captures
<1> DEFINE Rel == OpToRel(<, Nat)
           bad == {b \in Ids : Payload[b] \notin Captures}
<1> SUFFICES ASSUME bad # {}  PROVE FALSE
  OBVIOUS
<1>1. Ids \subseteq Nat  BY IdsAreNumbers DEF Ids
<1>2. PICK b \in bad : \A a \in bad : <<a, b>> \notin Rel
  BY <1>1, NatLessThanWellFounded, WFMin
<1>3. \A a \in bad : <<a, b>> \in Rel <=> a < b  BY <1>1 DEF OpToRel
<1> HIDE DEF Rel
<1>4. \A a \in bad : ~(a < b)  BY <1>2, <1>3, Zenon
<1>5. Payload[b] = IF made[b].base = 0 THEN made[b].components
                   ELSE Over(Payload[made[b].base], made[b].components)
  BY PayloadIsDefined DEF PayloadEquation
<1>6. made[b].base # 0 => made[b].base \in Ids /\ made[b].base < b
  BY IdsAreNumbers DEF BasesAreOlder, Ids
<1>7. made[b].base # 0 => Payload[made[b].base] \in Captures  BY <1>4, <1>6
<1>8. Payload[b] \in Captures  BY <1>5, <1>7, OverIsCapture
<1> QED  BY <1>8

LEMMA NothingIsCaptured == NoData \in Captures /\ CallFits(NoBackupCall)
<1>1. DOMAIN NoData = {} /\ NoData = [c \in DOMAIN NoData |-> NoData[c]]  BY DEF NoData
<1>2. NoData \in Captures  BY <1>1, CaptureByName
<1>3. 0 \in 0 .. BackupCount  BY IdsAreNumbers
<1> QED  BY <1>2, <1>3 DEF CallFits, NoBackupCall, BackupCallRows

LEMMA BackupTypedInit == BackupInit => BackupTyped
<1> SUFFICES ASSUME BackupInit  PROVE BackupTyped
  OBVIOUS
<1>1. NoArtifact \in MadeRows
  <2>1. 0 \in 0 .. BackupCount  BY IdsAreNumbers
  <2> QED  BY <2>1, NothingIsCaptured DEF NoArtifact, MadeRows
<1>2. NoBackupCall \in BackupCallRows  BY NothingIsCaptured DEF CallFits
<1>3. data \in [Components -> Values]  BY BackupAssumption DEF BackupInit, BackupAssumption, Values
<1>4. CallsFit  BY NothingIsCaptured DEF CallsFit, BackupInit
<1> QED  BY <1>1, <1>2, <1>3, <1>4, BackupTypesByName DEF BackupTyped, BackupInit

\* Most steps concern one request.
LEMMA OneCallFits ==
  ASSUME BackupTyped, NEW r \in BackupCalls, NEW h, CallFits(h),
         backupCall' = [backupCall EXCEPT ![r] = h]
  PROVE  backupCall' \in [BackupCalls -> BackupCallRows] /\ CallsFit'
<1>1. backupCall \in [BackupCalls -> BackupCallRows] /\ h \in BackupCallRows
  BY BackupTypesByName DEF BackupTyped, CallFits
<1>2. \A q \in BackupCalls : backupCall'[q] = IF q = r THEN h ELSE backupCall[q]  BY <1>1
<1> QED  BY <1>1, <1>2 DEF BackupTyped, CallsFit

LEMMA TypesAfter ==
  ASSUME data' \in [Components -> Values],
         records' \subseteq Ids, artifacts' \subseteq Ids, restoring' \subseteq Ids,
         made' \in [Ids -> MadeRows], backupCall' \in [BackupCalls -> BackupCallRows], CallsFit',
         unhooked' \subseteq Ids, backups' \in Nat, writes' \in Nat, backupFaults' \in Nat
  PROVE  BackupTyped'
BY DEF BackupTyped, BackupTypeOK, MadeRows, BackupCallRows

\* The steps that move a request and nothing else, but for counts.
LEMMA CallStepTypes ==
  ASSUME BackupTyped, NEW r \in BackupCalls,
         \/ SetRetention(r) \/ Retain(r) \/ NextObsolete(r) \/ ReadPayload(r) \/ BackupFails(r)
         \/ \E b \in Ids : DeleteBackup(r, b)
  PROVE  BackupTyped'
<1> DEFINE call == backupCall[r]
<1>1. CallFits(call) /\ call \in BackupCallRows /\ call.id \in 0 .. BackupCount
      /\ call.todo \subseteq Ids \cup Components
  BY BackupTypesByName DEF BackupTyped, CallsFit, CallFits, BackupCallRows
<1>2. SUFFICES \E h : /\ CallFits(h) /\ backupCall' = [backupCall EXCEPT ![r] = h]
                      /\ UNCHANGED <<data, records, artifacts, made, restoring, unhooked, backups, writes>>
                      /\ backupFaults' \in Nat
  <2>1. backupCall' \in [BackupCalls -> BackupCallRows] /\ CallsFit'  BY <1>2, OneCallFits
  <2>2. BackupTypeOK  BY DEF BackupTyped
  <2> QED  BY <1>2, <2>1, <2>2, BackupTypesByName, TypesAfter
<1>3. backupFaults \in Nat /\ records \subseteq Ids  BY BackupTypesByName DEF BackupTyped
<1>4. CASE SetRetention(r)
  <2> DEFINE h == [call EXCEPT !.stage = "retain"]
  <2>1. CallFits(h)  BY <1>1 DEF CallFits, BackupCallRows
  <2>2. backupCall' = [backupCall EXCEPT ![r] = h]  BY <1>4 DEF SetRetention, BackupGo
  <2> QED  BY <2>1, <2>2, <1>3, <1>4 DEF SetRetention
<1>5. CASE Retain(r)
  <2>1. PICK old \in 0 .. BackupCount :
          LET todo == {b \in records :
                /\ b <= old \/ Cardinality({a \in records : a > b}) >= MaxBackups
                /\ Dependants(b) = {}} IN
          backupCall' = [backupCall EXCEPT ![r] =
            IF todo = {} THEN NoBackupCall ELSE [NoBackupCall EXCEPT !.stage = "next", !.todo = todo]]
    BY <1>5 DEF Retain
  <2> DEFINE todo == {b \in records :
                /\ b <= old \/ Cardinality({a \in records : a > b}) >= MaxBackups
                /\ Dependants(b) = {}}
             h == IF todo = {} THEN NoBackupCall ELSE [NoBackupCall EXCEPT !.stage = "next", !.todo = todo]
  <2>2. todo \subseteq Ids  BY <1>3
  <2>3. backupCall' = [backupCall EXCEPT ![r] = h]  BY <2>1
  <2> HIDE DEF todo
  <2>4. CallFits([NoBackupCall EXCEPT !.stage = "next", !.todo = todo])
    BY <2>2, NothingIsCaptured DEF CallFits, BackupCallRows, NoBackupCall
  <2>5. CallFits(h)  BY <2>4, NothingIsCaptured
  <2> QED  BY <2>3, <2>5, <1>3, <1>5 DEF Retain
<1>6. CASE NextObsolete(r)
  <2>1. PICK b \in call.todo :
          backupCall' = [backupCall EXCEPT ![r].stage = "check", ![r].id = b, ![r].todo = @ \ {b}]
    BY <1>6 DEF NextObsolete
  <2> DEFINE h == [call EXCEPT !.stage = "check", !.id = b, !.todo = @ \ {b}]
  <2>2. call.todo \subseteq Ids  BY <1>1, <1>6 DEF CallFits, NextObsolete, BackupAt
  <2>3. b \in Ids /\ b \in 0 .. BackupCount  BY <2>2, IdsAreNumbers DEF Ids
  <2>4. CallFits(h)  BY <1>1, <2>2, <2>3 DEF CallFits, BackupCallRows
  <2>5. r \in DOMAIN backupCall  BY BackupTypesByName DEF BackupTyped
  <2>6. backupCall' = [backupCall EXCEPT ![r] = h]  BY <2>1, <2>5
  <2> QED  BY <2>4, <2>6, <1>3, <1>6 DEF NextObsolete
<1>7. CASE ReadPayload(r)
  <2> DEFINE stage == IF Whole[call.id] THEN "restore" ELSE "restored"
             h == [call EXCEPT !.stage = stage]
  <2>1. stage \in {"restore", "restored"}  OBVIOUS
  <2>2. backupCall' = [backupCall EXCEPT ![r] = h]  BY <1>7 DEF ReadPayload, BackupGo
  <2> HIDE DEF stage
  <2>3. CallFits(h)  BY <1>1, <1>7, <2>1 DEF CallFits, BackupCallRows, ReadPayload, BackupAt
  <2> QED  BY <2>2, <2>3, <1>3, <1>7 DEF ReadPayload
<1>8. CASE BackupFails(r)
  <2>1. backupFaults' \in Nat /\ backupCall' = [backupCall EXCEPT ![r] = NoBackupCall]
    BY <1>3, <1>8 DEF BackupFails, BackupEnd
  <2> QED  BY <2>1, <1>8, NothingIsCaptured DEF BackupFails
<1>9. CASE \E b \in Ids : DeleteBackup(r, b)
  <2>1. PICK b \in Ids : DeleteBackup(r, b)  BY <1>9
  <2> DEFINE h == [call EXCEPT !.stage = "check", !.id = b]
  <2>2. b \in 0 .. BackupCount  BY IdsAreNumbers DEF Ids
  <2>3. CallFits(h)  BY <1>1, <2>1, <2>2 DEF CallFits, BackupCallRows, DeleteBackup, BackupAt
  <2>4. r \in DOMAIN backupCall  BY BackupTypesByName DEF BackupTyped
  <2>5. backupCall' = [backupCall EXCEPT ![r] = h]  BY <2>1, <2>4 DEF DeleteBackup
  <2> QED  BY <2>1, <2>3, <2>5, <1>3 DEF DeleteBackup
<1> QED  BY <1>4, <1>5, <1>6, <1>7, <1>8, <1>9

LEMMA CreateStepTypes ==
  ASSUME BackupTyped, BasesAreOlder, NEW r \in BackupCalls,
         \/ ChooseBase(r) \/ PutArtifact(r) \/ InsertRecord(r)
         \/ \E type \in {"full", "incremental", "differential"}, S \in SUBSET Components \ {{}} :
              Capture(r, type, S)
  PROVE  BackupTyped'
<1> DEFINE call == backupCall[r]
<1>1. CallFits(call) /\ call \in BackupCallRows /\ call.captured \in Captures
      /\ call.type \in {"full", "incremental", "differential"}
  BY BackupTypesByName DEF BackupTyped, CallsFit, CallFits, BackupCallRows
<1>2. SUFFICES \E h : /\ CallFits(h) /\ backupCall' = [backupCall EXCEPT ![r] = h]
                      /\ UNCHANGED <<data, restoring, writes, backupFaults>>
                      /\ records' \subseteq Ids /\ artifacts' \subseteq Ids
                      /\ unhooked' \subseteq Ids /\ backups' \in Nat /\ made' \in [Ids -> MadeRows]
  <2>1. backupCall' \in [BackupCalls -> BackupCallRows] /\ CallsFit'  BY <1>2, OneCallFits
  <2>2. BackupTypeOK  BY DEF BackupTyped
  <2> QED  BY <1>2, <2>1, <2>2, BackupTypesByName, TypesAfter
<1>3. /\ records \subseteq Ids /\ artifacts \subseteq Ids /\ unhooked \subseteq Ids
      /\ backups \in Nat /\ made \in [Ids -> MadeRows] /\ data \in [Components -> Values]
      /\ r \in DOMAIN backupCall
  BY BackupTypesByName DEF BackupTyped
<1>4. CASE PutArtifact(r)
  <2> DEFINE h == [call EXCEPT !.stage = "insert"]
  <2>1. call.id \in Ids  BY <1>1, <1>4 DEF CallFits, PutArtifact, BackupAt
  <2>2. CallFits(h)  BY <1>1, <2>1 DEF CallFits, BackupCallRows
  <2>3. backupCall' = [backupCall EXCEPT ![r] = h]  BY <1>4 DEF PutArtifact, BackupGo
  <2> QED  BY <2>1, <2>2, <2>3, <1>3, <1>4 DEF PutArtifact
<1>5. CASE InsertRecord(r)
  <2> DEFINE h == [call EXCEPT !.stage = "retain"]
  <2>1. call.id \in Ids  BY <1>1, <1>5 DEF CallFits, InsertRecord, BackupAt
  <2>2. CallFits(h)  BY <1>1 DEF CallFits, BackupCallRows
  <2>3. backupCall' = [backupCall EXCEPT ![r] = h]  BY <1>5 DEF InsertRecord, BackupGo
  <2> QED  BY <2>1, <2>2, <2>3, <1>3, <1>5 DEF InsertRecord
<1>6. CASE \E type \in {"full", "incremental", "differential"}, S \in SUBSET Components \ {{}} :
             Capture(r, type, S)
  <2>1. PICK type \in {"full", "incremental", "differential"}, S \in SUBSET Components \ {{}} :
          Capture(r, type, S)
    BY <1>6
  <2> DEFINE captured == [c \in S |-> data[c]]
             h == [NoBackupCall EXCEPT !.stage = "base", !.type = type, !.captured = captured]
  <2>2. captured \in Captures
    <3>1. DOMAIN captured = S /\ captured = [c \in DOMAIN captured |-> captured[c]]  OBVIOUS
    <3>2. \A c \in S : captured[c] \in Values  BY <1>3
    <3> HIDE DEF captured
    <3> QED  BY <3>1, <3>2, CaptureByName
  <2>3. backupCall' = [backupCall EXCEPT ![r] = h]  BY <2>1 DEF Capture
  <2> HIDE DEF captured
  <2>4. CallFits(h)  BY <2>2, NothingIsCaptured DEF CallFits, BackupCallRows, NoBackupCall
  <2> QED  BY <2>1, <2>3, <2>4, <1>3 DEF Capture
<1>7. CASE ChooseBase(r)
  <2> DEFINE base == BaseOf(call.type)
             id == backups + 1
             entry == [base |-> base, full |-> call.type = "full", captured |-> call.captured,
                       components |-> IF base = 0 THEN call.captured
                                      ELSE Differing(call.captured, Payload[base])]
             h == [call EXCEPT !.stage = "put", !.id = id]
  <2>1. CASE UNCHANGED <<made, unhooked, backups>> /\ BackupEnd(r)
    BY <2>1, <1>3, <1>7, NothingIsCaptured DEF ChooseBase, BackupEnd
  <2>2. CASE ~(UNCHANGED <<made, unhooked, backups>> /\ BackupEnd(r))
    <3>1. /\ backups' = id /\ made' = [made EXCEPT ![id] = entry]
          /\ unhooked' = IF Deletes(base) # {} THEN unhooked \cup {id} ELSE unhooked
          /\ backupCall' = [backupCall EXCEPT ![r].stage = "put", ![r].id = id]
      BY <2>2, <1>7 DEF ChooseBase
    <3>2. id \in Ids /\ id \in 0 .. BackupCount /\ id \in Nat
      BY <1>3, <1>7, IdsAreNumbers DEF ChooseBase, Ids
    <3>3. base \in 0 .. BackupCount
      <4>1. base \in {0} \cup records  BY <1>3, BaseIsRecord
      <4>2. \A b \in Ids : b \in 0 .. BackupCount  BY IdsAreNumbers DEF Ids
      <4>3. 0 \in 0 .. BackupCount  BY IdsAreNumbers
      <4> HIDE DEF base
      <4> QED  BY <4>1, <4>2, <4>3, <1>3
    <3>4. Differing(call.captured, Payload[base]) \in Captures  BY <1>1, DifferingIsCapture
    <3>5. entry \in MadeRows
      <4> DEFINE components == IF base = 0 THEN call.captured
                               ELSE Differing(call.captured, Payload[base])
      <4>1. components \in Captures  BY <1>1, <3>4
      <4> HIDE DEF components, base
      <4>2. [base |-> base, full |-> call.type = "full", captured |-> call.captured,
             components |-> components] \in MadeRows
        BY <4>1, <3>3, <1>1 DEF MadeRows
      <4> QED  BY <4>2 DEF components, base
    <3>6. CallFits(h)  BY <1>1, <3>2 DEF CallFits, BackupCallRows
    <3>7. backupCall' = [backupCall EXCEPT ![r] = h]  BY <3>1, <1>3
    <3> HIDE DEF entry, id, base
    <3>8. made' \in [Ids -> MadeRows] /\ unhooked' \subseteq Ids  BY <3>1, <3>2, <3>5, <1>3
    <3>9. UNCHANGED <<data, records, artifacts, restoring, writes, backupFaults>>
      BY <1>7 DEF ChooseBase
    <3> QED  BY <3>1, <3>2, <3>6, <3>7, <3>8, <3>9, <1>3
  <2> QED  BY <2>1, <2>2
<1> QED  BY <1>4, <1>5, <1>6, <1>7

LEMMA DeleteStepTypes ==
  ASSUME BackupTyped, NEW r \in BackupCalls,
         CheckDelete(r) \/ DeleteArtifact(r) \/ DeleteRecord(r)
  PROVE  BackupTyped'
<1> DEFINE call == backupCall[r]
<1>1. CallFits(call) /\ call \in BackupCallRows
  BY BackupTypesByName DEF BackupTyped, CallsFit, CallFits
<1>2. call.id \in Ids /\ call.todo \subseteq Ids
  BY <1>1 DEF CallFits, CheckDelete, DeleteArtifact, DeleteRecord, BackupAt
<1>3. SUFFICES \E h : /\ CallFits(h) /\ backupCall' = [backupCall EXCEPT ![r] = h]
                      /\ UNCHANGED <<data, made, backups, writes, backupFaults>>
                      /\ records' \subseteq Ids /\ artifacts' \subseteq Ids
                      /\ restoring' \subseteq Ids /\ unhooked' \subseteq Ids
  <2>1. backupCall' \in [BackupCalls -> BackupCallRows] /\ CallsFit'  BY <1>3, OneCallFits
  <2>2. BackupTypeOK  BY DEF BackupTyped
  <2> QED  BY <1>3, <2>1, <2>2, BackupTypesByName, TypesAfter
<1>4. /\ records \subseteq Ids /\ artifacts \subseteq Ids /\ restoring \subseteq Ids
      /\ unhooked \subseteq Ids
  BY BackupTypesByName DEF BackupTyped
<1>5. CallFits(AfterDelete(r))
  <2>1. 0 \in 0 .. BackupCount  BY IdsAreNumbers
  <2>2. CallFits([call EXCEPT !.stage = "next", !.id = 0])
    BY <1>1, <1>2, <2>1 DEF CallFits, BackupCallRows
  <2> QED  BY <2>2, NothingIsCaptured DEF AfterDelete
<1>6. CASE CheckDelete(r)
  <2> DEFINE delete == [call EXCEPT !.stage = "artifact"]
             h == IF call.id \notin records THEN AfterDelete(r)
                  ELSE IF IsBase(call.id) THEN NoBackupCall ELSE delete
             losing == {backupCall[q].id : q \in {q \in BackupCalls :
                          /\ backupCall[q].stage \in {"put", "insert"}
                          /\ made[backupCall[q].id].base = call.id}}
  <2>1. CallFits(delete)  BY <1>1, <1>2 DEF CallFits, BackupCallRows
  <2>2. CallFits(h)  BY <2>1, <1>5, NothingIsCaptured
  <2>3. losing \subseteq Ids
    <3>1. \A q \in BackupCalls : backupCall[q].stage \in {"put", "insert"} => backupCall[q].id \in Ids
      BY DEF BackupTyped, CallsFit, CallFits
    <3> QED  BY <3>1
  <2>4. /\ backupCall' = [backupCall EXCEPT ![r] = h]
        /\ unhooked' = unhooked \/ unhooked' = unhooked \cup losing
        /\ UNCHANGED <<data, records, artifacts, made, restoring, backups, writes, backupFaults>>
    BY <1>6 DEF CheckDelete
  <2> HIDE DEF h, losing
  <2>5. unhooked' \subseteq Ids  BY <1>4, <2>3, <2>4
  <2> QED  BY <2>2, <2>4, <2>5, <1>4
<1>7. CASE DeleteArtifact(r)
  <2> DEFINE h == [call EXCEPT !.stage = "row"]
  <2>1. CallFits(h)  BY <1>1, <1>2 DEF CallFits, BackupCallRows
  <2>2. backupCall' = [backupCall EXCEPT ![r] = h]  BY <1>7 DEF DeleteArtifact, BackupGo
  <2> QED  BY <2>1, <2>2, <1>4, <1>7 DEF DeleteArtifact
<1>8. CASE DeleteRecord(r)
  BY <1>4, <1>5, <1>8 DEF DeleteRecord
<1> QED  BY <1>6, <1>7, <1>8

LEMMA RestoreStepTypes ==
  ASSUME BackupTyped, BasesAreOlder, NEW r \in BackupCalls,
         \/ RestoreComponent(r) \/ RestoreEnds(r)
         \/ \E b \in Ids : Restore(r, b, Components)
  PROVE  BackupTyped'
<1> DEFINE call == backupCall[r]
<1>1. CallFits(call) /\ call \in BackupCallRows /\ call.todo \subseteq Ids \cup Components
  BY BackupTypesByName DEF BackupTyped, CallsFit, CallFits, BackupCallRows
<1>2. SUFFICES \E h : /\ CallFits(h) /\ backupCall' = [backupCall EXCEPT ![r] = h]
                      /\ UNCHANGED <<records, artifacts, made, unhooked, backups, writes>>
                      /\ data' \in [Components -> Values] /\ restoring' \subseteq Ids
                      /\ backupFaults' \in Nat
  <2>1. backupCall' \in [BackupCalls -> BackupCallRows] /\ CallsFit'  BY <1>2, OneCallFits
  <2>2. BackupTypeOK  BY DEF BackupTyped
  <2> QED  BY <1>2, <2>1, <2>2, BackupTypesByName, TypesAfter
<1>3. /\ restoring \subseteq Ids /\ data \in [Components -> Values] /\ backupFaults \in Nat
      /\ made \in [Ids -> MadeRows] /\ r \in DOMAIN backupCall
  BY BackupTypesByName DEF BackupTyped
<1>4. CASE RestoreComponent(r)
  <2> DEFINE id == call.id
  <2>1. PICK c \in call.todo :
          /\ data' = IF c \in DOMAIN Payload[id] THEN [data EXCEPT ![c] = Payload[id][c]] ELSE data
          /\ backupCall' = [backupCall EXCEPT ![r].todo = @ \ {c},
               ![r].stage = IF call.todo = {c} THEN "restored" ELSE "restore"]
    BY <1>4 DEF RestoreComponent
  <2> DEFINE stage == IF call.todo = {c} THEN "restored" ELSE "restore"
             h == [call EXCEPT !.todo = @ \ {c}, !.stage = stage]
  <2>2. id \in Ids  BY <1>1, <1>4 DEF CallFits, RestoreComponent, BackupAt
  <2>3. backupCall' = [backupCall EXCEPT ![r] = h]  BY <2>1, <1>3
  <2>4. stage \in {"restore", "restored"}  OBVIOUS
  <2> HIDE DEF stage
  <2>5. CallFits(h)  BY <1>1, <2>2, <2>4 DEF CallFits, BackupCallRows
  <2>6. \A b \in Ids : made[b].components \in Captures  BY <1>3 DEF MadeRows
  <2>7. Payload[id] \in Captures  BY <2>2, <2>6, PayloadIsCaptured
  <2>8. c \in DOMAIN Payload[id] => Payload[id][c] \in Values  BY <2>7, CaptureByName
  <2>9. data' \in [Components -> Values]  BY <2>1, <2>8, <1>3
  <2> QED  BY <2>3, <2>5, <2>9, <1>3, <1>4 DEF RestoreComponent
<1>5. CASE RestoreEnds(r)
  <2>1. backupFaults' \in Nat /\ restoring' \subseteq Ids  BY <1>3, <1>5 DEF RestoreEnds
  <2>2. backupCall' = [backupCall EXCEPT ![r] = NoBackupCall]  BY <1>5 DEF RestoreEnds, BackupEnd
  <2> QED  BY <2>1, <2>2, <1>3, <1>5, NothingIsCaptured DEF RestoreEnds
<1>6. CASE \E b \in Ids : Restore(r, b, Components)
  <2>1. PICK b \in Ids : Restore(r, b, Components)  BY <1>6
  <2> DEFINE h == [call EXCEPT !.stage = "payload", !.id = b, !.todo = Components]
  <2>2. b \in 0 .. BackupCount  BY IdsAreNumbers DEF Ids
  <2>3. CallFits(h)  BY <1>1, <2>2 DEF CallFits, BackupCallRows
  <2>4. backupCall' = [backupCall EXCEPT ![r] = h]  BY <2>1, <1>3 DEF Restore
  <2> QED  BY <2>1, <2>3, <2>4, <1>3 DEF Restore
<1> QED  BY <1>4, <1>5, <1>6

LEMMA BackupTypedStep ==
  BackupTyped /\ BasesAreOlder /\ [BackupNext]_backupVars => BackupTyped'
<1> SUFFICES ASSUME BackupTyped, BasesAreOlder, [BackupNext]_backupVars  PROVE BackupTyped'
  OBVIOUS
<1>1. ASSUME NEW r \in BackupCalls,
             \/ ChooseBase(r) \/ PutArtifact(r) \/ InsertRecord(r) \/ SetRetention(r) \/ Retain(r)
             \/ NextObsolete(r) \/ CheckDelete(r) \/ DeleteArtifact(r) \/ DeleteRecord(r)
             \/ ReadPayload(r) \/ RestoreComponent(r) \/ RestoreEnds(r) \/ BackupFails(r)
             \/ \E b \in Ids : DeleteBackup(r, b) \/ Restore(r, b, Components)
             \/ \E type \in {"full", "incremental", "differential"}, S \in SUBSET Components \ {{}} :
                  Capture(r, type, S)
      PROVE  BackupTyped'
  BY <1>1, CallStepTypes, CreateStepTypes, DeleteStepTypes, RestoreStepTypes
<1>2. ASSUME NEW c \in Components, WriteData(c)  PROVE BackupTyped'
  <2>1. /\ data \in [Components -> Values] /\ writes \in Nat /\ BackupTypeOK /\ CallsFit
    BY BackupTypesByName DEF BackupTyped
  <2>2. writes + 1 \in Values  BY <1>2, <2>1, BackupAssumption DEF WriteData, Values, BackupAssumption
  <2>3. data' \in [Components -> Values] /\ writes' \in Nat  BY <1>2, <2>1, <2>2 DEF WriteData
  <2>4. CallsFit'  BY <1>2, <2>1 DEF WriteData, CallsFit
  <2>5. UNCHANGED <<records, artifacts, made, restoring, backupCall, unhooked, backups, backupFaults>>
    BY <1>2 DEF WriteData
  <2> QED  BY <2>1, <2>3, <2>4, <2>5, BackupTypesByName, TypesAfter
<1>3. CASE UNCHANGED backupVars
  BY <1>3 DEF BackupTyped, BackupTypeOK, CallsFit, backupVars
<1> QED  BY <1>1, <1>2, <1>3 DEF BackupNext

\* The rows, the artifacts and the requests of backups have their types
\* through creation, retention, deletion and restore; in particular a restore
\* sets a component to data it had, through a chain of any length.
THEOREM BackupTypesCorrect == BackupSpec => []BackupTypeOK
<1>1. BackupTyped => BackupTypeOK  BY DEF BackupTyped
<1>2. CaptureInv => BasesAreOlder  BY DEF CaptureInv
<1> QED
  BY <1>1, <1>2, BackupTypedInit, BackupTypedStep, ChainInvInit, ChainInvStep, CaptureInvInit,
     CaptureInvStep, PTL DEF BackupSpec

=============================================================================
