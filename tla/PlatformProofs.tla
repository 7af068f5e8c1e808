--------------------------- MODULE PlatformProofs ---------------------------
(* Proofs about push messages and campaigns (Campaigns), the deployments of  *)
(* a site (HostingDeployments) and the preview databases of a branch         *)
(* (PreviewDatabases).                                                       *)
EXTENDS Campaigns, HostingDeployments, PreviewDatabases, FiniteSetTheorems, TLAPS

-----------------------------------------------------------------------------
(* Campaigns                                                                *)

MessageRows == [status : {"absent", "queued", "sending", "cancelled"} \cup Outcomes,
                due : BOOLEAN, camp : CampaignIds \cup {NoItem}]
CampaignRows == [status : {"absent", "queued", "sending", "cancelled"} \cup Outcomes,
                 due : BOOLEAN, push : BOOLEAN, stale : BOOLEAN]
Stages == {"idle", "next", "caught", "select", "claim", "closing", "catch"} \cup Delivering
SenderRows == [stage : Stages, msg : Messages \cup {NoItem}, camp : CampaignIds \cup {NoItem},
               timer : BOOLEAN, todo : SUBSET (Messages \cup CampaignIds), result : Outcomes]

WithMessage == Sending \cup {"caught"}
WithCampaign == {"claim", "insert", "mail", "result", "closing", "catch"}

\* A sender works on what its stage says; one that is idle holds nothing.
Fits(s) ==
  /\ s \in SenderRows
  /\ s.stage = "idle" => s = NoSend
  /\ s.stage \in WithMessage => s.msg \in Messages
  /\ s.stage \in WithCampaign => s.camp \in CampaignIds

RowTypes ==
  /\ message \in [Messages -> MessageRows]
  /\ campaign \in [CampaignIds -> CampaignRows]
SenderTypes ==
  /\ sender \in [Senders -> SenderRows]
  /\ \A t \in Senders : Fits(sender[t])
HistoryTypes ==
  /\ pushed \subseteq Messages /\ again \subseteq Messages
  /\ late \in [Messages -> SUBSET Senders]
  /\ reached \subseteq CampaignIds /\ others \subseteq reached /\ disturbed \subseteq CampaignIds
  /\ sendFaults \in Nat /\ slowSends \in Nat
Base == RowTypes /\ SenderTypes /\ HistoryTypes

LEMMA StageNames ==
  /\ Sending = {"read", "mark", "push", "outcome", "audit"}
  /\ Delivering = {"insert", "mail", "result", "read", "mark", "push", "outcome", "audit"}
  /\ WithMessage = {"read", "mark", "push", "outcome", "audit", "caught"}
  /\ Stages = {"idle", "next", "caught", "select", "claim", "closing", "catch",
               "insert", "mail", "result", "read", "mark", "push", "outcome", "audit"}
BY DEF Sending, Delivering, WithMessage, Stages

LEMMA NoSendFits == Fits(NoSend)
BY StageNames DEF Fits, NoSend, SenderRows, WithCampaign, Outcomes

\* A request that ends, and a pass that goes on with the next row.
LEMMA FinishedFits == ASSUME NEW t \in Senders, SenderTypes  PROVE Fits(Finished(t))
<1>1. sender[t].todo \in SUBSET (Messages \cup CampaignIds)  BY DEF SenderTypes, SenderRows
<1>2. [NoSend EXCEPT !.stage = "next", !.timer = TRUE, !.todo = sender[t].todo] \in SenderRows
  BY <1>1, StageNames DEF NoSend, SenderRows, Outcomes
<1>3. Fits([NoSend EXCEPT !.stage = "next", !.timer = TRUE, !.todo = sender[t].todo])
  BY <1>2, StageNames DEF Fits, NoSend, WithCampaign
<1> QED  BY <1>3, NoSendFits DEF Finished

\* Going on to another stage with the same work in hand.
LEMMA GoFits ==
  ASSUME NEW s, Fits(s), NEW stage \in Stages \ {"idle"},
         stage \in WithMessage => s.msg \in Messages,
         stage \in WithCampaign => s.camp \in CampaignIds
  PROVE  Fits([s EXCEPT !.stage = stage])
BY DEF Fits, SenderRows

\* Only one sender moves in a step.
LEMMA OneMoves ==
  ASSUME SenderTypes, NEW t \in Senders, NEW s, Fits(s), sender' = [sender EXCEPT ![t] = s]
  PROVE  SenderTypes'
<1>1. s \in SenderRows  BY DEF Fits
<1>2. \A u \in Senders : Fits(sender'[u])  BY DEF SenderTypes
<1> QED  BY <1>1, <1>2 DEF SenderTypes, Fits

LEMMA GoKeeps ==
  ASSUME SenderTypes, NEW t \in Senders, NEW stage \in Stages \ {"idle"}, Go(t, stage),
         stage \in WithMessage => sender[t].msg \in Messages,
         stage \in WithCampaign => sender[t].camp \in CampaignIds
  PROVE  SenderTypes'
<1>1. Fits([sender[t] EXCEPT !.stage = stage])  BY GoFits DEF SenderTypes
<1>2. sender' = [sender EXCEPT ![t] = [sender[t] EXCEPT !.stage = stage]]  BY DEF Go, SenderTypes
<1> QED  BY <1>1, <1>2, OneMoves

LEMMA EndKeeps ==
  ASSUME Base, NEW t \in Senders, End(t)
  PROVE  SenderTypes' /\ late' \in [Messages -> SUBSET Senders]
<1>1. SenderTypes'  BY FinishedFits, OneMoves DEF Base, End
<1>2. late' \in [Messages -> SUBSET Senders]  BY DEF Base, HistoryTypes, End
<1> QED  BY <1>1, <1>2

LEMMA ThrowKeeps ==
  ASSUME Base, NEW t \in Senders, Throw(t),
         sender[t].camp = NoItem => sender[t].stage \in WithMessage
  PROVE  SenderTypes' /\ late' \in [Messages -> SUBSET Senders]
<1>f. Fits(sender[t]) /\ SenderTypes  BY DEF Base, SenderTypes
<1>1. CASE sender[t].camp # NoItem
  <2>1. sender[t].camp \in CampaignIds  BY <1>1, <1>f DEF Fits, SenderRows
  <2>2. Go(t, "catch") /\ late' = late  BY <1>1 DEF Throw
  <2>3. "catch" \in Stages \ {"idle"} /\ "catch" \notin WithMessage  BY StageNames
  <2> QED  BY <2>1, <2>2, <2>3, <1>f, GoKeeps DEF Base, HistoryTypes
<1>2. CASE sender[t].camp = NoItem /\ sender[t].timer
  <2>1. sender[t].msg \in Messages  BY <1>2, <1>f DEF Fits
  <2>2. Go(t, "caught") /\ late' = late  BY <1>2 DEF Throw
  <2>3. "caught" \in Stages \ {"idle"} /\ "caught" \notin WithCampaign  BY StageNames DEF WithCampaign
  <2> QED  BY <2>1, <2>2, <2>3, <1>f, GoKeeps DEF Base, HistoryTypes
<1>3. CASE sender[t].camp = NoItem /\ ~sender[t].timer  BY <1>3, EndKeeps DEF Throw
<1> QED  BY <1>1, <1>2, <1>3

\* The steps of messages and their passes keep the types.
LEMMA MessageStepTypes ==
  ASSUME Base, NEW t \in Senders,
         SendMessageSteps(t) \/ \E m \in Messages : CreateMessage(t, m) \/ SendMessage(t, m)
  PROVE  Base'
<1>b. RowTypes /\ SenderTypes /\ HistoryTypes  BY DEF Base
<1>f. Fits(sender[t]) /\ sender[t] \in SenderRows /\ sender \in [Senders -> SenderRows]
  BY DEF Base, SenderTypes
<1>g. /\ {"next", "read", "mark", "push", "outcome", "audit", "result", "claim"} \subseteq Stages \ {"idle"}
      /\ {"read", "mark", "push", "outcome", "audit", "caught"} = WithMessage
      /\ {"mark", "push", "outcome", "audit", "read", "next"} \cap WithCampaign = {}
      /\ {"next", "result", "claim"} \cap WithMessage = {}
  BY StageNames DEF WithCampaign
<1>r. {"queued", "sending", "cancelled", "failed"} \subseteq {"absent", "queued", "sending", "cancelled"} \cup Outcomes
  BY DEF Outcomes
<1>i. sender[t].stage = "idle" => sender[t] = NoSend  BY <1>f DEF Fits
<1>q. ASSUME NEW m \in Messages, sender[t].stage = "idle"
      PROVE  Fits([sender[t] EXCEPT !.stage = "read", !.msg = m])
  BY <1>q, <1>i, <1>f, <1>g DEF Fits, SenderRows, NoSend
<1>1. ASSUME NEW m \in Messages, CreateMessage(t, m)  PROVE Base'
  <2>1. PICK due \in BOOLEAN :
          /\ message' = [message EXCEPT ![m].status = "queued", ![m].due = due]
          /\ sender' = IF due THEN [sender EXCEPT ![t] = [sender[t] EXCEPT !.stage = "read", !.msg = m]]
                       ELSE sender
    BY <1>1, <1>f DEF CreateMessage
  <2>2. SenderTypes'  BY <2>1, <1>1, <1>b, <1>q, OneMoves DEF CreateMessage, Is, SenderTypes
  <2>3. message' \in [Messages -> MessageRows]  BY <2>1, <1>b, <1>r DEF RowTypes, MessageRows
  <2> QED
    BY <2>2, <2>3, <1>1, <1>b DEF CreateMessage, sendHistory, sendBudgets, Base, RowTypes, HistoryTypes
<1>2. ASSUME NEW m \in Messages, SendMessage(t, m)  PROVE Base'
  <2>1. sender' = [sender EXCEPT ![t] = [sender[t] EXCEPT !.stage = "read", !.msg = m]]
    BY <1>2, <1>f DEF SendMessage
  <2>2. SenderTypes'  BY <2>1, <1>2, <1>b, <1>q, OneMoves DEF SendMessage, Is
  <2> QED
    BY <2>2, <1>2, <1>b DEF SendMessage, sendHistory, sendBudgets, Base, RowTypes, HistoryTypes
<1>3. CASE ProcessDue(t)
  <2>1. PICK rows \in SUBSET Messages :
          sender' = [sender EXCEPT ![t].stage = "next", ![t].timer = TRUE, ![t].todo = rows]
    BY <1>3 DEF ProcessDue
  <2>2. sender' = [sender EXCEPT ![t] = [sender[t] EXCEPT !.stage = "next", !.timer = TRUE, !.todo = rows]]
    BY <2>1, <1>f
  <2>3. [sender[t] EXCEPT !.stage = "next", !.timer = TRUE, !.todo = rows] \in SenderRows
    BY <1>f, <1>g DEF SenderRows
  <2>4. Fits([sender[t] EXCEPT !.stage = "next", !.timer = TRUE, !.todo = rows])
    BY <2>3, <1>f, <1>g DEF Fits, SenderRows
  <2>5. SenderTypes'  BY <2>2, <2>4, <1>b, OneMoves
  <2> QED
    BY <2>5, <1>3, <1>b DEF ProcessDue, sendHistory, sendBudgets, Base, RowTypes, HistoryTypes
<1>4. CASE NextRow(t)
  <2>0. sender[t].todo \in SUBSET (Messages \cup CampaignIds)  BY <1>f DEF SenderRows
  <2>1. PICK x \in sender[t].todo :
       sender' = [sender EXCEPT ![t].todo = @ \ {x},
         ![t].stage = IF x \in Messages THEN "read" ELSE "claim",
         ![t].msg = IF x \in Messages THEN x ELSE NoItem,
         ![t].camp = IF x \in Messages THEN NoItem ELSE x]
    BY <1>4 DEF NextRow
  <2>2. ASSUME x \in Messages  PROVE SenderTypes'
    <3>1. sender' = [sender EXCEPT ![t] = [sender[t] EXCEPT !.todo = sender[t].todo \ {x},
                       !.stage = "read", !.msg = x, !.camp = NoItem]]
      BY <2>1, <2>2, <1>f
    <3>2. Fits([sender[t] EXCEPT !.todo = sender[t].todo \ {x},
                       !.stage = "read", !.msg = x, !.camp = NoItem])
      BY <2>0, <2>2, <1>f, <1>g DEF Fits, SenderRows
    <3> QED  BY <3>1, <3>2, <1>b, OneMoves
  <2>3. ASSUME x \notin Messages  PROVE SenderTypes'
    <3>0. x \in CampaignIds  BY <2>0, <2>3
    <3>1. sender' = [sender EXCEPT ![t] = [sender[t] EXCEPT !.todo = sender[t].todo \ {x},
                       !.stage = "claim", !.msg = NoItem, !.camp = x]]
      BY <2>1, <2>3, <1>f
    <3>2. Fits([sender[t] EXCEPT !.todo = sender[t].todo \ {x},
                       !.stage = "claim", !.msg = NoItem, !.camp = x])
      BY <2>0, <3>0, <1>f, <1>g DEF Fits, SenderRows
    <3> QED  BY <3>1, <3>2, <1>b, OneMoves
  <2>4. SenderTypes'  BY <2>2, <2>3
  <2> QED  BY <2>4, <1>4, <1>b DEF NextRow, sendHistory, sendBudgets, Base, RowTypes, HistoryTypes
<1>5. CASE ReadMessage(t)
  <2>0. sender[t].stage \in WithMessage /\ sender[t].msg \in Messages
    BY <1>5, <1>f, <1>g DEF ReadMessage, Is, Fits
  <2>1. Throw(t) \/ (Go(t, "mark") /\ late' = late)  BY <1>5 DEF ReadMessage
  <2>2. SenderTypes' /\ late' \in [Messages -> SUBSET Senders]
    BY <2>0, <2>1, <1>b, <1>g, ThrowKeeps, GoKeeps DEF HistoryTypes
  <2> QED
    BY <2>2, <1>5, <1>b DEF ReadMessage, sendHistory, sendBudgets, Base, RowTypes, HistoryTypes
<1>6. CASE MarkSending(t)
  <2>0. sender[t].msg \in Messages  BY <1>6, <1>f, <1>g DEF MarkSending, Is, Fits
  <2>s. sender' = [sender EXCEPT ![t] = [sender[t] EXCEPT !.stage = "push", !.result = "failed"]]
    BY <1>6, <1>f DEF MarkSending
  <2>f. Fits([sender[t] EXCEPT !.stage = "push", !.result = "failed"])
    BY <2>0, <1>f, <1>g DEF Fits, SenderRows, Outcomes
  <2>1. SenderTypes'  BY <2>s, <2>f, <1>b, OneMoves
  <2>2. message' \in [Messages -> MessageRows]
    BY <1>6, <1>b, <1>r DEF MarkSending, RowTypes, MessageRows
  <2> QED
    BY <2>1, <2>2, <1>6, <1>b DEF MarkSending, sendHistory, sendBudgets, Base, RowTypes, HistoryTypes
<1>7. CASE Deliver(t)
  <2>0. sender[t].stage = "push" /\ sender[t].msg \in Messages
    BY <1>7, <1>f, <1>g DEF Deliver, Is, Fits
  <2>1. PICK result \in Outcomes : sender' = [sender EXCEPT ![t].result = result]
    BY <1>7 DEF Deliver, Outcomes
  <2>2. sender' = [sender EXCEPT ![t] = [sender[t] EXCEPT !.result = result]]
    BY <2>1, <1>f
  <2>3. Fits([sender[t] EXCEPT !.result = result])
    BY <2>0, <1>f, <1>g DEF Fits, SenderRows
  <2>4. SenderTypes'  BY <2>2, <2>3, <1>b, OneMoves
  <2>5. pushed' \subseteq Messages /\ again' \subseteq Messages
    BY <2>0, <1>7, <1>b DEF Deliver, HistoryTypes
  <2>6. message[sender[t].msg].camp \in CampaignIds \cup {NoItem}
    BY <2>0, <1>b DEF RowTypes, MessageRows
  <2>7. reached' \subseteq CampaignIds /\ others' \subseteq reached'
    BY <2>6, <1>7, <1>b DEF Deliver, HistoryTypes
  <2> QED  BY <2>4, <2>5, <2>7, <1>7, <1>b DEF Deliver, sendBudgets, Base, RowTypes, HistoryTypes
<1>11. CASE EndPush(t)
  <2>0. sender[t].msg \in Messages  BY <1>11, <1>f, <1>g DEF EndPush, Is, Fits
  <2>1. SenderTypes'  BY <2>0, <1>11, <1>b, <1>g, GoKeeps DEF EndPush
  <2> QED
    BY <2>1, <1>11, <1>b DEF EndPush, sendHistory, sendBudgets, Base, RowTypes, HistoryTypes
<1>8. CASE WriteOutcome(t)
  <2>0. sender[t].msg \in Messages /\ sender[t].result \in Outcomes
    BY <1>8, <1>f, <1>g DEF WriteOutcome, Is, Fits, SenderRows
  <2>1. SenderTypes'  BY <2>0, <1>8, <1>b, <1>g, GoKeeps DEF WriteOutcome
  <2>2. message' \in [Messages -> MessageRows]
    BY <2>0, <1>8, <1>b DEF WriteOutcome, RowTypes, MessageRows
  <2> QED
    BY <2>1, <2>2, <1>8, <1>b DEF WriteOutcome, sendHistory, sendBudgets, Base, RowTypes, HistoryTypes
<1>9. CASE AuditMessage(t)
  <2>0. sender[t].camp \in CampaignIds \cup {NoItem}  BY <1>f DEF SenderRows
  <2>1. SenderTypes' /\ late' \in [Messages -> SUBSET Senders]
    <3>1. CASE sender[t].camp # NoItem
      BY <3>1, <2>0, <1>9, <1>b, <1>g, GoKeeps DEF AuditMessage, HistoryTypes
    <3>2. CASE sender[t].camp = NoItem  BY <3>2, <1>9, EndKeeps DEF AuditMessage
    <3> QED  BY <3>1, <3>2
  <2> QED
    BY <2>1, <1>9, <1>b DEF AuditMessage, sendHistory, sendBudgets, Base, RowTypes, HistoryTypes
<1>10. CASE Caught(t)
  <2>1. message' \in [Messages -> MessageRows]
    BY <1>10, <1>b, <1>r DEF Caught, CaughtFailed, RowTypes, MessageRows
  <2>2. SenderTypes' /\ late' \in [Messages -> SUBSET Senders]  BY <1>10, EndKeeps DEF Caught
  <2> QED
    BY <2>1, <2>2, <1>10, <1>b DEF Caught, sendHistory, sendBudgets, Base, RowTypes, HistoryTypes
<1> QED
  BY <1>1, <1>2, <1>3, <1>4, <1>5, <1>6, <1>7, <1>8, <1>9, <1>10, <1>11 DEF SendMessageSteps

\* The steps of campaigns and their passes keep the types.
LEMMA CampaignStepTypes ==
  ASSUME Base, NEW t \in Senders,
         SendCampaignSteps(t) \/ \E c \in CampaignIds : CreateCampaign(t, c) \/ SendCampaign(t, c)
  PROVE  Base'
<1>b. RowTypes /\ SenderTypes /\ HistoryTypes  BY DEF Base
<1>f. Fits(sender[t]) /\ sender[t] \in SenderRows /\ sender \in [Senders -> SenderRows]
  BY DEF Base, SenderTypes
<1>g. /\ {"next", "read", "insert", "mail", "result", "closing", "claim", "select"} \subseteq Stages \ {"idle"}
      /\ "read" \in WithMessage /\ "read" \notin WithCampaign /\ "select" \notin WithCampaign
      /\ {"insert", "mail", "result", "closing", "catch", "claim"} = WithCampaign
      /\ {"insert", "mail", "result", "closing", "claim", "select"} \cap WithMessage = {}
  BY StageNames DEF WithCampaign
<1>r. {"absent", "queued", "sending", "cancelled", "failed"} \cup Outcomes
        \subseteq {"absent", "queued", "sending", "cancelled"} \cup Outcomes
  BY DEF Outcomes
<1>i. sender[t].stage = "idle" => sender[t] = NoSend  BY <1>f DEF Fits
<1>c. sender[t].stage \in WithCampaign => sender[t].camp \in CampaignIds  BY <1>f DEF Fits
<1>q. ASSUME NEW c \in CampaignIds, sender[t].stage = "idle"
      PROVE  Fits([sender[t] EXCEPT !.stage = "claim", !.camp = c])
  BY <1>q, <1>i, <1>f, <1>g DEF Fits, SenderRows, NoSend
<1>1. ASSUME NEW c \in CampaignIds, CreateCampaign(t, c)  PROVE Base'
  <2>1. PICK due \in BOOLEAN, push \in BOOLEAN :
          /\ campaign' = [campaign EXCEPT ![c] =
               [status |-> "queued", due |-> due, push |-> push, stale |-> FALSE]]
          /\ sender' = IF due THEN [sender EXCEPT ![t] = [sender[t] EXCEPT !.stage = "claim", !.camp = c]]
                       ELSE sender
    BY <1>1, <1>f DEF CreateCampaign
  <2>2. SenderTypes'  BY <2>1, <1>1, <1>b, <1>q, OneMoves DEF CreateCampaign, Is, SenderTypes
  <2>3. [status |-> "queued", due |-> due, push |-> push, stale |-> FALSE] \in CampaignRows
    BY DEF CampaignRows
  <2>4. campaign' \in [CampaignIds -> CampaignRows]  BY <2>1, <2>3, <1>b DEF RowTypes
  <2> QED
    BY <2>2, <2>4, <1>1, <1>b DEF CreateCampaign, sendHistory, sendBudgets, Base, RowTypes, HistoryTypes
<1>2. ASSUME NEW c \in CampaignIds, SendCampaign(t, c)  PROVE Base'
  <2>1. sender' = [sender EXCEPT ![t] = [sender[t] EXCEPT !.stage = "claim", !.camp = c]]
    BY <1>2, <1>f DEF SendCampaign
  <2>2. SenderTypes'  BY <2>1, <1>2, <1>b, <1>q, OneMoves DEF SendCampaign, Is
  <2> QED
    BY <2>2, <1>2, <1>b DEF SendCampaign, sendHistory, sendBudgets, Base, RowTypes, HistoryTypes
<1>3. CASE ProcessCampaigns(t)
  <2>1. SenderTypes'  BY <1>3, <1>b, <1>g, GoKeeps DEF ProcessCampaigns
  <2>2. \A c \in CampaignIds : /\ campaign[c] \in CampaignRows
                               /\ [campaign[c] EXCEPT !.status = "failed", !.stale = FALSE] \in CampaignRows
    BY <1>b, <1>r DEF RowTypes, CampaignRows
  <2>3. campaign' \in [CampaignIds -> CampaignRows]  BY <1>3, <2>2 DEF ProcessCampaigns
  <2>4. disturbed' \subseteq CampaignIds  BY <1>3, <1>b DEF ProcessCampaigns, Stale, HistoryTypes
  <2> QED
    BY <2>1, <2>3, <2>4, <1>3, <1>b DEF ProcessCampaigns, sendBudgets, Base, RowTypes, HistoryTypes
<1>4. CASE SelectCampaigns(t)
  <2>1. PICK rows \in SUBSET CampaignIds :
          sender' = [sender EXCEPT ![t] = IF rows = {} THEN NoSend
                       ELSE [NoSend EXCEPT !.stage = "next", !.timer = TRUE, !.todo = rows]]
    BY <1>4 DEF SelectCampaigns
  <2>2. [NoSend EXCEPT !.stage = "next", !.timer = TRUE, !.todo = rows] \in SenderRows
    BY <2>1, StageNames DEF NoSend, SenderRows, Outcomes
  <2>3. Fits([NoSend EXCEPT !.stage = "next", !.timer = TRUE, !.todo = rows])
    BY <2>2, StageNames DEF Fits, NoSend, WithCampaign
  <2>4. SenderTypes'  BY <2>1, <2>3, NoSendFits, <1>b, OneMoves
  <2> QED
    BY <2>4, <1>4, <1>b DEF SelectCampaigns, sendHistory, sendBudgets, Base, RowTypes, HistoryTypes
<1>5. CASE ClaimCampaign(t)
  <2>0. sender[t].camp \in CampaignIds  BY <1>5, <1>c, <1>g DEF ClaimCampaign, Is
  <2>1. \/ /\ campaign' = [campaign EXCEPT ![sender[t].camp].status = "sending", ![sender[t].camp].stale = FALSE]
           /\ Go(t, "insert") \/ Go(t, "mail")
           /\ late' = late
        \/ campaign' = campaign /\ End(t)
    BY <1>5 DEF ClaimCampaign
  <2>2. SenderTypes' /\ late' \in [Messages -> SUBSET Senders]
    BY <2>0, <2>1, <1>b, <1>g, GoKeeps, EndKeeps DEF HistoryTypes
  <2>3. campaign' \in [CampaignIds -> CampaignRows]  BY <2>1, <1>b, <1>r DEF RowTypes, CampaignRows
  <2> QED
    BY <2>2, <2>3, <1>5, <1>b DEF ClaimCampaign, sendHistory, sendBudgets, Base, RowTypes, HistoryTypes
<1>6. CASE InsertMessage(t)
  <2>0. sender[t].camp \in CampaignIds  BY <1>6, <1>c, <1>g DEF InsertMessage, Is
  <2>1. PICK m \in Messages :
          /\ message' = [message EXCEPT ![m] = [status |-> "queued", due |-> TRUE, camp |-> sender[t].camp]]
          /\ sender' = [sender EXCEPT ![t] = [sender[t] EXCEPT !.stage = "read", !.msg = m]]
    BY <1>6, <1>f DEF InsertMessage
  <2>2. Fits([sender[t] EXCEPT !.stage = "read", !.msg = m])  BY <1>f, <1>g DEF Fits, SenderRows
  <2>3. SenderTypes'  BY <2>1, <2>2, <1>b, OneMoves
  <2>4. [status |-> "queued", due |-> TRUE, camp |-> sender[t].camp] \in MessageRows
    BY <2>0 DEF MessageRows
  <2>5. message' \in [Messages -> MessageRows]  BY <2>1, <2>4, <1>b DEF RowTypes
  <2> QED
    BY <2>3, <2>5, <1>6, <1>b DEF InsertMessage, sendHistory, sendBudgets, Base, RowTypes, HistoryTypes
<1>7. CASE Mail(t)
  <2>0. sender[t].camp \in CampaignIds  BY <1>7, <1>c, <1>g DEF Mail, Is
  <2>1. PICK result \in Outcomes :
          /\ sender' = [sender EXCEPT ![t].stage = "result", ![t].result = result]
          /\ reached' = IF result = "failed" THEN reached ELSE reached \cup {sender[t].camp}
    BY <1>7 DEF Mail
  <2>2. sender' = [sender EXCEPT ![t] = [sender[t] EXCEPT !.stage = "result", !.result = result]]
    BY <2>1, <1>f
  <2>3. Fits([sender[t] EXCEPT !.stage = "result", !.result = result])
    BY <2>0, <1>f, <1>g DEF Fits, SenderRows
  <2>4. SenderTypes'  BY <2>2, <2>3, <1>b, OneMoves
  <2> QED  BY <2>4, <2>1, <2>0, <1>7, <1>b DEF Mail, sendBudgets, Base, RowTypes, HistoryTypes
<1>8. CASE WriteResult(t)
  <2>0. sender[t].camp \in CampaignIds /\ sender[t].result \in Outcomes
    BY <1>8, <1>c, <1>f, <1>g DEF WriteResult, Is, SenderRows
  <2>1. SenderTypes'  BY <2>0, <1>8, <1>b, <1>g, GoKeeps DEF WriteResult
  <2>2. campaign' \in [CampaignIds -> CampaignRows]
    BY <2>0, <1>8, <1>b DEF WriteResult, Result, RowTypes, CampaignRows
  <2> QED
    BY <2>1, <2>2, <1>8, <1>b DEF WriteResult, sendHistory, sendBudgets, Base, RowTypes, HistoryTypes
<1>9. CASE AuditCampaign(t)
  <2>1. SenderTypes' /\ late' \in [Messages -> SUBSET Senders]  BY <1>9, EndKeeps DEF AuditCampaign
  <2> QED
    BY <2>1, <1>9, <1>b DEF AuditCampaign, sendHistory, sendBudgets, Base, RowTypes, HistoryTypes
<1>10. CASE CatchCampaign(t)
  <2>1. SenderTypes' /\ late' \in [Messages -> SUBSET Senders]  BY <1>10, EndKeeps DEF CatchCampaign
  <2>2. campaign' \in [CampaignIds -> CampaignRows]
    BY <1>10, <1>b, <1>r, ZenonT(60) DEF CatchCampaign, RowTypes, CampaignRows
  <2> QED
    BY <2>1, <2>2, <1>10, <1>b DEF CatchCampaign, sendHistory, sendBudgets, Base, RowTypes, HistoryTypes
<1> QED
  BY <1>1, <1>2, <1>3, <1>4, <1>5, <1>6, <1>7, <1>8, <1>9, <1>10 DEF SendCampaignSteps

\* Failures, cancellations and time keep the types.
LEMMA OtherStepTypes ==
  ASSUME Base,
         \/ \E t \in Senders : StatementThrows(t) \/ SenderDies(t)
         \/ \E m \in Messages : CancelMessage(m) \/ MessageDue(m)
         \/ \E c \in CampaignIds : CancelCampaign(c) \/ CampaignDue(c) \/ QuarterHour(c)
  PROVE  Base'
<1>b. RowTypes /\ SenderTypes /\ HistoryTypes  BY DEF Base
<1>r. "cancelled" \in {"absent", "queued", "sending", "cancelled"} \cup Outcomes  OBVIOUS
<1>1. ASSUME NEW t \in Senders, StatementThrows(t)  PROVE Base'
  <2>1. sender[t].stage \in WithMessage \cup WithCampaign
    BY <1>1, StageNames DEF StatementThrows, WithCampaign
  <2>2. Fits(sender[t]) /\ sender[t].camp \in CampaignIds \cup {NoItem}
    BY <1>b DEF SenderTypes, Fits, SenderRows
  <2>3. NoItem \notin CampaignIds  BY CampaignAssumption
  <2>4. sender[t].camp = NoItem => sender[t].stage \in WithMessage  BY <2>1, <2>2, <2>3 DEF Fits
  <2>5. SenderTypes' /\ late' \in [Messages -> SUBSET Senders]
    BY <2>4, <1>1, ThrowKeeps DEF StatementThrows
  <2>6. disturbed' \subseteq CampaignIds  BY <2>2, <1>1, <1>b DEF StatementThrows, HistoryTypes
  <2>7. sendFaults' \in Nat  BY <1>1, <1>b DEF StatementThrows, HistoryTypes
  <2> QED  BY <2>5, <2>6, <2>7, <1>1, <1>b DEF StatementThrows, Base, RowTypes, HistoryTypes
<1>2. ASSUME NEW t \in Senders, SenderDies(t)  PROVE Base'
  <2>1. SenderTypes'  BY <1>2, <1>b, NoSendFits, OneMoves DEF SenderDies
  <2>2. late' \in [Messages -> SUBSET Senders]  BY <1>2, <1>b DEF SenderDies, HistoryTypes
  <2>3. sendFaults' \in Nat  BY <1>2, <1>b DEF SenderDies, HistoryTypes
  <2> QED  BY <2>1, <2>2, <2>3, <1>2, <1>b DEF SenderDies, sendHistory, Base, RowTypes, HistoryTypes
<1>3. ASSUME NEW m \in Messages, CancelMessage(m) \/ MessageDue(m)  PROVE Base'
  <2>0. /\ [message[m] EXCEPT !.status = "cancelled"] \in MessageRows
        /\ [message[m] EXCEPT !.due = TRUE] \in MessageRows
    BY <1>b, <1>r DEF RowTypes, MessageRows
  <2>m. \E r \in MessageRows : message' = [message EXCEPT ![m] = r]
    BY <2>0, <1>3 DEF CancelMessage, MessageDue
  <2>1. message' \in [Messages -> MessageRows]  BY <2>m, <1>b DEF RowTypes
  <2>2. late' \in [Messages -> SUBSET Senders]
    BY <1>3, <1>b DEF CancelMessage, MessageDue, HistoryTypes
  <2>3. /\ UNCHANGED <<campaign, sender, sendHistory, sendBudgets>>
    BY <1>3 DEF CancelMessage, MessageDue
  <2> QED
    BY <2>1, <2>2, <2>3, <1>b DEF sendHistory, sendBudgets, Base, RowTypes, SenderTypes, HistoryTypes
<1>4. ASSUME NEW c \in CampaignIds, CancelCampaign(c) \/ CampaignDue(c) \/ QuarterHour(c)  PROVE Base'
  <2>0. /\ campaign[c] \in CampaignRows
        /\ [campaign[c] EXCEPT !.status = "cancelled"] \in CampaignRows
        /\ [campaign[c] EXCEPT !.due = TRUE] \in CampaignRows
        /\ [campaign[c] EXCEPT !.stale = TRUE] \in CampaignRows
    BY <1>b, <1>r DEF RowTypes, CampaignRows
  <2>c. \E r \in CampaignRows : campaign' = [campaign EXCEPT ![c] = r]
    BY <2>0, <1>4 DEF CancelCampaign, CampaignDue, QuarterHour
  <2>1. campaign' \in [CampaignIds -> CampaignRows]  BY <2>c, <1>b DEF RowTypes
  <2>2. slowSends' \in Nat
    BY <1>4, <1>b DEF CancelCampaign, CampaignDue, QuarterHour, sendBudgets, HistoryTypes
  <2>3. UNCHANGED <<message, sender, late, sendHistory, sendFaults>>
    BY <1>4 DEF CancelCampaign, CampaignDue, QuarterHour, sendBudgets
  <2> QED  BY <2>1, <2>2, <2>3, <1>b DEF sendHistory, Base, RowTypes, SenderTypes, HistoryTypes
<1> QED  BY <1>1, <1>2, <1>3, <1>4

LEMMA BaseInit == CampaignInit => Base
<1> SUFFICES ASSUME CampaignInit  PROVE Base
  OBVIOUS
<1>1. [status |-> "absent", due |-> FALSE, camp |-> NoItem] \in MessageRows  BY DEF MessageRows
<1>2. [status |-> "absent", due |-> FALSE, push |-> FALSE, stale |-> FALSE] \in CampaignRows
  BY DEF CampaignRows
<1>3. RowTypes  BY <1>1, <1>2 DEF CampaignInit, RowTypes
<1>4. SenderTypes  BY NoSendFits DEF CampaignInit, SenderTypes, Fits
<1>5. HistoryTypes  BY DEF CampaignInit, HistoryTypes
<1> QED  BY <1>3, <1>4, <1>5 DEF Base

LEMMA BaseStep == ASSUME Base, [CampaignNext]_campaignVars  PROVE Base'
<1>1. CASE UNCHANGED campaignVars
  BY <1>1 DEF campaignVars, Base, RowTypes, SenderTypes, HistoryTypes
<1>2. CASE CampaignNext
  BY <1>2, MessageStepTypes, CampaignStepTypes, OtherStepTypes DEF CampaignNext
<1> QED  BY <1>1, <1>2

\* Messages, campaigns and senders have the values the code gives them, and a
\* sender holds the row its stage works on.
THEOREM CampaignTypesCorrect == CampaignSpec => []CampaignTypeOK
<1>1. Base => CampaignTypeOK
  BY DEF Base, RowTypes, SenderTypes, HistoryTypes, CampaignTypeOK, MessageRows, CampaignRows,
         SenderRows, Stages
<1> QED  BY <1>1, BaseInit, BaseStep, PTL DEF CampaignSpec

LEMMA BaseHolds == CampaignSpec => []Base
BY BaseInit, BaseStep, PTL DEF CampaignSpec

-----------------------------------------------------------------------------
(* A claim is exclusive, and a campaign's status is the truth               *)

\* A sender that holds a campaign during its deliveries and after them, when
\* its result says whether it reached somebody, or before them, or in the catch.
Told == {"push", "outcome", "audit", "result"}
Untold == {"insert", "mail", "read", "mark", "catch"}
HoldsCamp(t, c) == sender[t].camp = c /\ sender[t].stage \in Told \cup Untold

\* The campaigns that were reached, and by their own senders only.
Own == reached \ others

\* The one sender of a campaign knows when it has reached somebody.
OneSender(c) ==
  \A t \in Senders : HoldsCamp(t, c) =>
    /\ Camp(c) = "sending"
    /\ \A u \in Senders : HoldsCamp(u, c) => u = t
    /\ sender[t].stage \in Untold => c \notin Own
    /\ sender[t].stage \in Told /\ c \in Own => sender[t].result # "failed"
TrueStatus(c) == Camp(c) \in {"absent", "queued", "cancelled", "failed"} => c \notin Own
Sound(c) == OneSender(c) /\ TrueStatus(c)
AllSound == \A c \in CampaignIds \ disturbed : Sound(c)

\* The senders of a campaign afterwards held it before, and know the same.
Remain(c) ==
  \A t \in Senders : (HoldsCamp(t, c))' =>
    /\ HoldsCamp(t, c)
    /\ (sender[t].stage \in Told <=> sender'[t].stage \in Told)
    /\ sender'[t].result = sender[t].result

\* A step that leaves a campaign's row, recipients and senders alone.
LEMMA Undisturbed ==
  ASSUME NEW c, Sound(c), campaign'[c].status = campaign[c].status,
         c \in Own' => c \in Own, Remain(c)
  PROVE  Sound(c)'
<1>1. OneSender(c)'
  <2> SUFFICES ASSUME NEW t \in Senders, (HoldsCamp(t, c))'
               PROVE  /\ campaign'[c].status = "sending"
                      /\ \A u \in Senders : (HoldsCamp(u, c))' => u = t
                      /\ sender'[t].stage \in Untold => c \notin Own'
                      /\ sender'[t].stage \in Told /\ c \in Own' => sender'[t].result # "failed"
    BY DEF OneSender, Camp
  <2>1. /\ HoldsCamp(t, c)
        /\ (sender[t].stage \in Told <=> sender'[t].stage \in Told)
        /\ sender'[t].result = sender[t].result
    BY DEF Remain
  <2>2. /\ Camp(c) = "sending"
        /\ \A u \in Senders : HoldsCamp(u, c) => u = t
        /\ sender[t].stage \in Untold => c \notin Own
        /\ sender[t].stage \in Told /\ c \in Own => sender[t].result # "failed"
    BY <2>1 DEF Sound, OneSender
  <2>3. Told \cap Untold = {} /\ sender[t].stage \in Told \cup Untold
    BY <2>1 DEF Told, Untold, HoldsCamp
  <2> QED  BY <2>1, <2>2, <2>3 DEF Camp, Remain
<1>2. TrueStatus(c)'  BY DEF Sound, TrueStatus, Camp
<1> QED  BY <1>1, <1>2 DEF Sound

\* One sender moves; if it holds the campaign then, it did before.
LEMMA MoveRemains ==
  ASSUME SenderTypes, NEW t \in Senders, NEW s, NEW c, sender' = [sender EXCEPT ![t] = s],
         (s.camp = c /\ s.stage \in Told \cup Untold) =>
           /\ sender[t].camp = c
           /\ sender[t].stage \in Told \cup Untold
           /\ (sender[t].stage \in Told <=> s.stage \in Told)
           /\ s.result = sender[t].result
  PROVE  Remain(c)
BY DEF SenderTypes, Remain, HoldsCamp

LEMMA SameRemains == ASSUME sender' = sender, NEW c  PROVE Remain(c)
BY DEF Remain, HoldsCamp

LEMMA GoRemains ==
  ASSUME SenderTypes, NEW t \in Senders, NEW c, NEW stage, Go(t, stage),
         (sender[t].camp = c /\ stage \in Told \cup Untold) =>
           /\ sender[t].stage \in Told \cup Untold
           /\ (sender[t].stage \in Told <=> stage \in Told)
  PROVE  Remain(c)
<1>f. sender \in [Senders -> SenderRows] /\ sender[t] \in SenderRows  BY DEF SenderTypes
<1> DEFINE s == [sender[t] EXCEPT !.stage = stage]
<1>1. sender' = [sender EXCEPT ![t] = s]  BY <1>f DEF Go
<1>2. s.camp = sender[t].camp /\ s.stage = stage /\ s.result = sender[t].result
  BY <1>f DEF SenderRows
<1> HIDE DEF s
<1> QED  BY <1>1, <1>2, MoveRemains

LEMMA EndRemains ==
  ASSUME SenderTypes, NEW t \in Senders, NEW c \in CampaignIds, End(t)
  PROVE  Remain(c)
<1>1. Finished(t).camp = NoItem  BY DEF Finished, NoSend
<1>2. sender' = [sender EXCEPT ![t] = Finished(t)] /\ c # NoItem  BY CampaignAssumption DEF End
<1> QED  BY <1>1, <1>2, MoveRemains

LEMMA ThrowRemains ==
  ASSUME SenderTypes, NEW t \in Senders, NEW c \in CampaignIds, Throw(t),
         sender[t].camp = c => sender[t].stage \in Untold
  PROVE  Remain(c)
<1>1. Told \cap Untold = {} /\ "catch" \in Untold /\ "caught" \notin Told \cup Untold
  BY DEF Told, Untold
<1>2. Go(t, "catch") \/ Go(t, "caught") \/ End(t)  BY DEF Throw
<1> QED  BY <1>1, <1>2, GoRemains, EndRemains

\* The steps of messages that move no campaign and reach nobody.
LEMMA CalmMessageSteps ==
  ASSUME Base, NEW c \in CampaignIds, NEW t \in Senders,
         \/ ProcessDue(t) \/ NextRow(t) \/ ReadMessage(t) \/ EndPush(t)
         \/ WriteOutcome(t) \/ AuditMessage(t) \/ Caught(t)
         \/ \E m \in Messages : CreateMessage(t, m) \/ SendMessage(t, m)
  PROVE  Remain(c)
<1>f. Fits(sender[t]) /\ sender[t] \in SenderRows /\ SenderTypes /\ sender \in [Senders -> SenderRows]
  BY DEF Base, SenderTypes
<1>i. sender[t].stage = "idle" => sender[t] = NoSend  BY <1>f DEF Fits
<1>n. c # NoItem /\ NoSend.camp = NoItem  BY CampaignAssumption DEF NoSend
<1>s. /\ {"read", "mark"} \subseteq Untold /\ {"push", "outcome", "audit", "result"} = Told
      /\ Told \cap Untold = {}
      /\ "next" \notin Told \cup Untold /\ "claim" \notin Told \cup Untold
  BY DEF Told, Untold
<1>q. ASSUME NEW m \in Messages, sender[t].stage = "idle",
             sender' = [sender EXCEPT ![t] = [sender[t] EXCEPT !.stage = "read", !.msg = m]]
      PROVE  Remain(c)
  <2>1. [sender[t] EXCEPT !.stage = "read", !.msg = m].camp = NoItem  BY <1>q, <1>i DEF NoSend
  <2> QED  BY <2>1, <1>q, <1>f, <1>n, MoveRemains
<1>1. ASSUME NEW m \in Messages, CreateMessage(t, m)  PROVE Remain(c)
  <2>1. \/ sender' = [sender EXCEPT ![t] = [sender[t] EXCEPT !.stage = "read", !.msg = m]]
        \/ sender' = sender
    BY <1>1, <1>f DEF CreateMessage
  <2> QED  BY <2>1, <1>1, <1>q, SameRemains DEF CreateMessage, Is
<1>2. ASSUME NEW m \in Messages, SendMessage(t, m)  PROVE Remain(c)
  <2>1. sender' = [sender EXCEPT ![t] = [sender[t] EXCEPT !.stage = "read", !.msg = m]]
    BY <1>2, <1>f DEF SendMessage
  <2> QED  BY <2>1, <1>2, <1>q DEF SendMessage, Is
<1>3. CASE ProcessDue(t)
  <2>1. PICK rows : sender' = [sender EXCEPT ![t].stage = "next", ![t].timer = TRUE, ![t].todo = rows]
    BY <1>3 DEF ProcessDue
  <2>2. sender' = [sender EXCEPT ![t] = [sender[t] EXCEPT !.stage = "next", !.timer = TRUE, !.todo = rows]]
    BY <2>1, <1>f
  <2>3. [sender[t] EXCEPT !.stage = "next", !.timer = TRUE, !.todo = rows].stage = "next"
    BY <1>f DEF SenderRows
  <2> QED  BY <2>2, <2>3, <1>f, <1>s, MoveRemains
<1>4. CASE NextRow(t)
  <2>1. PICK x \in sender[t].todo :
       sender' = [sender EXCEPT ![t].todo = @ \ {x},
         ![t].stage = IF x \in Messages THEN "read" ELSE "claim",
         ![t].msg = IF x \in Messages THEN x ELSE NoItem,
         ![t].camp = IF x \in Messages THEN NoItem ELSE x]
    BY <1>4 DEF NextRow
  <2> DEFINE s == [sender[t] EXCEPT !.todo = sender[t].todo \ {x},
                      !.stage = IF x \in Messages THEN "read" ELSE "claim",
                      !.msg = IF x \in Messages THEN x ELSE NoItem,
                      !.camp = IF x \in Messages THEN NoItem ELSE x]
  <2>2. sender' = [sender EXCEPT ![t] = s]  BY <2>1, <1>f
  <2>3. /\ x \in Messages => s.camp = NoItem
        /\ x \notin Messages => s.stage = "claim"
    BY <1>f DEF SenderRows
  <2> HIDE DEF s
  <2> QED  BY <2>2, <2>3, <1>f, <1>n, <1>s, MoveRemains
<1>5. CASE ReadMessage(t)
  <2>1. sender[t].stage = "read" /\ (Throw(t) \/ Go(t, "mark"))  BY <1>5 DEF ReadMessage, Is
  <2> QED  BY <2>1, <1>f, <1>s, ThrowRemains, GoRemains
<1>6. CASE EndPush(t)
  <2>1. sender[t].stage = "push" /\ Go(t, "outcome")  BY <1>6 DEF EndPush, Is
  <2> QED  BY <2>1, <1>f, <1>s, GoRemains
<1>7. CASE WriteOutcome(t)
  <2>1. sender[t].stage = "outcome" /\ Go(t, "audit")  BY <1>7 DEF WriteOutcome, Is
  <2> QED  BY <2>1, <1>f, <1>s, GoRemains
<1>8. CASE AuditMessage(t)
  <2>1. sender[t].stage = "audit" /\ (Go(t, "result") \/ End(t))  BY <1>8 DEF AuditMessage, Is
  <2> QED  BY <2>1, <1>f, <1>s, GoRemains, EndRemains
<1>9. CASE Caught(t)  BY <1>9, <1>f, EndRemains DEF Caught
<1> QED  BY <1>1, <1>2, <1>3, <1>4, <1>5, <1>6, <1>7, <1>8, <1>9

\* The steps of campaigns and the deaths that write no campaign.
LEMMA CalmCampaignSteps ==
  ASSUME Base, NEW c \in CampaignIds, NEW t \in Senders,
         \/ SelectCampaigns(t) \/ InsertMessage(t) \/ AuditCampaign(t) \/ SenderDies(t)
         \/ \E d \in CampaignIds : CreateCampaign(t, d) \/ SendCampaign(t, d)
  PROVE  Remain(c)
<1>f. Fits(sender[t]) /\ sender[t] \in SenderRows /\ SenderTypes /\ sender \in [Senders -> SenderRows]
  BY DEF Base, SenderTypes
<1>n. c # NoItem /\ NoSend.camp = NoItem  BY CampaignAssumption DEF NoSend
<1>s. /\ {"insert", "read", "mail"} \subseteq Untold
      /\ {"claim", "next"} \cap (Told \cup Untold) = {} /\ Told \cap Untold = {}
  BY DEF Told, Untold
<1>q. ASSUME NEW d \in CampaignIds,
             sender' = [sender EXCEPT ![t] = [sender[t] EXCEPT !.stage = "claim", !.camp = d]]
      PROVE  Remain(c)
  <2>1. [sender[t] EXCEPT !.stage = "claim", !.camp = d].stage = "claim"  BY <1>f DEF SenderRows
  <2> QED  BY <2>1, <1>q, <1>f, <1>s, MoveRemains
<1>1. ASSUME NEW d \in CampaignIds, CreateCampaign(t, d)  PROVE Remain(c)
  <2>1. \/ sender' = [sender EXCEPT ![t] = [sender[t] EXCEPT !.stage = "claim", !.camp = d]]
        \/ sender' = sender
    BY <1>1, <1>f DEF CreateCampaign
  <2> QED  BY <2>1, <1>q, SameRemains
<1>2. ASSUME NEW d \in CampaignIds, SendCampaign(t, d)  PROVE Remain(c)
  <2>1. sender' = [sender EXCEPT ![t] = [sender[t] EXCEPT !.stage = "claim", !.camp = d]]
    BY <1>2, <1>f DEF SendCampaign
  <2> QED  BY <2>1, <1>q
<1>3. CASE SelectCampaigns(t)
  <2>1. PICK rows :
          sender' = [sender EXCEPT ![t] = IF rows = {} THEN NoSend
                       ELSE [NoSend EXCEPT !.stage = "next", !.timer = TRUE, !.todo = rows]]
    BY <1>3 DEF SelectCampaigns
  <2> DEFINE s == IF rows = {} THEN NoSend
                  ELSE [NoSend EXCEPT !.stage = "next", !.timer = TRUE, !.todo = rows]
  <2>2. s.camp = NoItem  BY DEF NoSend
  <2>3. sender' = [sender EXCEPT ![t] = s]  BY <2>1
  <2> HIDE DEF s
  <2> QED  BY <2>2, <2>3, <1>f, <1>n, MoveRemains
<1>4. CASE InsertMessage(t)
  <2>1. PICK m : sender' = [sender EXCEPT ![t] = [sender[t] EXCEPT !.stage = "read", !.msg = m]]
    BY <1>4, <1>f DEF InsertMessage
  <2> DEFINE s == [sender[t] EXCEPT !.stage = "read", !.msg = m]
  <2>2. s.stage = "read" /\ s.camp = sender[t].camp /\ s.result = sender[t].result
    BY <1>f DEF SenderRows
  <2>3. sender[t].stage = "insert"  BY <1>4 DEF InsertMessage, Is
  <2>4. sender' = [sender EXCEPT ![t] = s]  BY <2>1
  <2> HIDE DEF s
  <2> QED  BY <2>2, <2>3, <2>4, <1>f, <1>s, MoveRemains
<1>5. CASE AuditCampaign(t)  BY <1>5, <1>f, EndRemains DEF AuditCampaign
<1>6. CASE SenderDies(t)
  <2>1. sender' = [sender EXCEPT ![t] = NoSend]  BY <1>6 DEF SenderDies
  <2> QED  BY <2>1, <1>f, <1>n, MoveRemains
<1> QED  BY <1>1, <1>2, <1>3, <1>4, <1>5, <1>6

\* A sender that comes to its deliveries, or makes one, knows its result.
LEMMA TellStep ==
  ASSUME SenderTypes, NEW t \in Senders, NEW c \in CampaignIds, Sound(c), NEW s,
         sender' = [sender EXCEPT ![t] = s], s.camp = sender[t].camp, s.stage \in Told,
         sender[t].stage \in Told \cup Untold, campaign' = campaign,
         sender[t].camp # c => (c \in Own' => c \in Own),
         sender[t].camp = c /\ c \in Own' => s.result # "failed"
  PROVE  Sound(c)'
<1>s. Told \cap Untold = {}  BY DEF Told, Untold
<1>1. CASE sender[t].camp # c
  <2>1. c \in Own' => c \in Own  BY <1>1
  <2>2. Remain(c)  BY <1>1, MoveRemains
  <2> QED  BY <2>1, <2>2, Undisturbed
<1>2. CASE sender[t].camp = c
  <2>1. HoldsCamp(t, c)  BY <1>2 DEF HoldsCamp
  <2>2. /\ Camp(c) = "sending"
        /\ \A u \in Senders : HoldsCamp(u, c) => u = t
    BY <2>1 DEF Sound, OneSender
  <2>3. sender'[t] = s /\ \A u \in Senders \ {t} : sender'[u] = sender[u]  BY DEF SenderTypes
  <2>4. \A u \in Senders : (HoldsCamp(u, c))' => u = t  BY <2>2, <2>3 DEF HoldsCamp
  <2>5. c \in Own' => s.result # "failed"  BY <1>2
  <2>6. campaign'[c].status = "sending"  BY <2>2 DEF Camp
  <2>7. OneSender(c)'  BY <2>3, <2>4, <2>5, <2>6, <1>s DEF OneSender, Camp
  <2>8. TrueStatus(c)'  BY <2>6 DEF TrueStatus, Camp
  <2> QED  BY <2>7, <2>8 DEF Sound
<1> QED  BY <1>1, <1>2

\* A sender that comes to the catch without having reached anybody.
LEMMA CatchStep ==
  ASSUME SenderTypes, NEW t \in Senders, NEW c \in CampaignIds, Sound(c), Go(t, "catch"),
         campaign' = campaign, Own' = Own, sender[t].camp = c /\ sender[t].stage \in Told \cup Untold,
         c \notin Own
  PROVE  Sound(c)'
<1>1. HoldsCamp(t, c)  BY DEF HoldsCamp
<1>2. /\ Camp(c) = "sending"
      /\ \A u \in Senders : HoldsCamp(u, c) => u = t
  BY <1>1 DEF Sound, OneSender
<1>3. sender'[t].stage = "catch" /\ \A u \in Senders \ {t} : sender'[u] = sender[u]
  BY DEF Go, SenderTypes, SenderRows
<1>4. \A u \in Senders : (HoldsCamp(u, c))' => u = t  BY <1>2, <1>3 DEF HoldsCamp
<1>5. campaign'[c].status = "sending"  BY <1>2 DEF Camp
<1>6. OneSender(c)'  BY <1>3, <1>4, <1>5 DEF OneSender, Camp, Told
<1>7. TrueStatus(c)'  BY <1>5 DEF TrueStatus, Camp
<1> QED  BY <1>6, <1>7 DEF Sound

\* A campaign that nobody holds any more, with a status that is true.
LEMMA ReleasedIsSound ==
  ASSUME NEW c, \A u \in Senders : ~(HoldsCamp(u, c))', TrueStatus(c)'
  PROVE  Sound(c)'
BY DEF Sound, OneSender

\* Nobody holds a campaign that its one sender has let go of.
LEMMA LetGo ==
  ASSUME NEW c, NEW t \in Senders, Remain(c), HoldsCamp(t, c), OneSender(c),
         sender'[t].camp # c \/ sender'[t].stage \notin Told \cup Untold
  PROVE  \A u \in Senders : ~(HoldsCamp(u, c))'
BY DEF Remain, OneSender, HoldsCamp

\* Every campaign that is not recovered, and did not fail late, stays sound.
LEMMA SoundStep ==
  ASSUME Base, AllSound, [CampaignNext]_campaignVars
  PROVE  AllSound'
<1> SUFFICES ASSUME NEW c \in CampaignIds \ disturbed'  PROVE Sound(c)'
  BY DEF AllSound
<1>d. disturbed \subseteq disturbed'
  <2>1. ASSUME NEW t \in Senders,
               SendMessageSteps(t) \/ SendCampaignSteps(t) \/ StatementThrows(t) \/ SenderDies(t)
        PROVE  disturbed \subseteq disturbed'
    BY <2>1 DEF SendMessageSteps, SendCampaignSteps, ProcessDue, NextRow,
         ReadMessage, MarkSending, Deliver, EndPush, WriteOutcome, AuditMessage, Caught, ProcessCampaigns,
         SelectCampaigns, ClaimCampaign, InsertMessage, Mail, WriteResult, AuditCampaign,
         CatchCampaign, StatementThrows, SenderDies, sendHistory
  <2>2. ASSUME [CampaignNext]_campaignVars,
               ~ \E t \in Senders :
                 SendMessageSteps(t) \/ SendCampaignSteps(t) \/ StatementThrows(t) \/ SenderDies(t)
        PROVE  disturbed \subseteq disturbed'
    BY <2>2 DEF CampaignNext, campaignVars, CreateMessage, SendMessage, CreateCampaign,
         SendCampaign, CancelMessage, MessageDue, CancelCampaign, CampaignDue, QuarterHour, sendHistory
  <2> QED  BY <2>1, <2>2
<1>c. Sound(c)  BY <1>d DEF AllSound
<1>b. RowTypes /\ SenderTypes /\ campaign \in [CampaignIds -> CampaignRows]  BY DEF Base, RowTypes
<1>n. c # NoItem  BY CampaignAssumption
<1>s. /\ {"insert", "mail", "read", "mark", "catch"} = Untold
      /\ {"push", "outcome", "audit", "result"} = Told
      /\ {"claim", "select", "closing"} \cap (Told \cup Untold) = {}
  BY DEF Told, Untold
<1>q. \A u \in Senders : HoldsCamp(u, c) => Camp(c) = "sending"  BY <1>c DEF Sound, OneSender
<1>o. ASSUME reached' = reached, others' = others  PROVE Own' = Own
  BY <1>o DEF Own
<1>0. CASE UNCHANGED campaignVars
  <2>1. Remain(c)  BY <1>0, SameRemains DEF campaignVars
  <2> QED  BY <2>1, <1>0, <1>c, <1>o, Undisturbed DEF campaignVars
<1>1. ASSUME NEW t \in Senders,
         \/ ProcessDue(t) \/ NextRow(t) \/ ReadMessage(t) \/ EndPush(t)
         \/ WriteOutcome(t) \/ AuditMessage(t) \/ Caught(t)
         \/ \E m \in Messages : CreateMessage(t, m) \/ SendMessage(t, m)
      PROVE  Sound(c)'
  <2>1. Remain(c)  BY <1>1, CalmMessageSteps
  <2>2. campaign' = campaign /\ reached' = reached /\ others' = others
    BY <1>1 DEF ProcessDue, NextRow, ReadMessage, EndPush, WriteOutcome, AuditMessage, Caught,
                CreateMessage, SendMessage, sendHistory
  <2> QED  BY <2>1, <2>2, <1>c, <1>o, Undisturbed
<1>2. ASSUME NEW t \in Senders,
         \/ SelectCampaigns(t) \/ InsertMessage(t) \/ AuditCampaign(t) \/ SenderDies(t)
         \/ \E d \in CampaignIds : SendCampaign(t, d)
      PROVE  Sound(c)'
  <2>1. Remain(c)  BY <1>2, CalmCampaignSteps
  <2>2. campaign' = campaign /\ reached' = reached /\ others' = others
    BY <1>2 DEF SelectCampaigns, InsertMessage, AuditCampaign, SenderDies, SendCampaign, sendHistory
  <2> QED  BY <2>1, <2>2, <1>c, <1>o, Undisturbed
<1>3. ASSUME \/ \E m \in Messages : CancelMessage(m) \/ MessageDue(m)
             \/ \E d \in CampaignIds : CampaignDue(d) \/ QuarterHour(d)
      PROVE  Sound(c)'
  <2>1. sender' = sender /\ reached' = reached /\ others' = others
    BY <1>3 DEF CancelMessage, MessageDue, CampaignDue, QuarterHour, sendHistory
  <2>2. campaign'[c].status = campaign[c].status
    BY <1>3, <1>b DEF CancelMessage, MessageDue, CampaignDue, QuarterHour, CampaignRows
  <2> QED  BY <2>1, <2>2, <1>c, <1>o, SameRemains, Undisturbed
<1>4. ASSUME NEW t \in Senders, Deliver(t)  PROVE Sound(c)'
  <2>1. PICK result \in {"sent", "partial"} :
          sender' = [sender EXCEPT ![t] = [sender[t] EXCEPT !.result = result]]
    BY <1>4, <1>b DEF Deliver, SenderTypes
  <2> DEFINE s == [sender[t] EXCEPT !.result = result]
  <2>2. s.camp = sender[t].camp /\ s.stage = sender[t].stage /\ s.result # "failed"
    BY <1>b DEF SenderTypes, SenderRows
  <2>3. sender[t].stage = "push" /\ campaign' = campaign  BY <1>4 DEF Deliver, Is
  <2>4. sender' = [sender EXCEPT ![t] = s]  BY <2>1
  <2>5. sender[t].camp # c => (c \in Own' => c \in Own)
    BY <1>4, <1>n DEF Deliver, Own
  <2> HIDE DEF s
  <2> QED  BY <2>2, <2>3, <2>4, <2>5, <1>b, <1>c, <1>s, TellStep
<1>5. ASSUME NEW t \in Senders, Mail(t)  PROVE Sound(c)'
  <2>0. sender[t].stage = "mail" /\ campaign' = campaign /\ others' = others  BY <1>5 DEF Mail, Is
  <2>1. PICK result \in Outcomes :
          /\ sender' = [sender EXCEPT ![t] = [sender[t] EXCEPT !.stage = "result", !.result = result]]
          /\ reached' = IF result = "failed" THEN reached ELSE reached \cup {sender[t].camp}
    BY <1>5, <1>b DEF Mail, SenderTypes
  <2> DEFINE s == [sender[t] EXCEPT !.stage = "result", !.result = result]
  <2>2. s.camp = sender[t].camp /\ s.stage = "result" /\ s.result = result
    BY <1>b DEF SenderTypes, SenderRows
  <2>3. sender[t].camp = c => c \notin Own
    BY <2>0, <1>c, <1>s DEF HoldsCamp, Sound, OneSender
  <2>4. sender' = [sender EXCEPT ![t] = s]  BY <2>1
  <2>5. sender[t].camp # c => (c \in Own' => c \in Own)  BY <2>0, <2>1 DEF Own
  <2>6. sender[t].camp = c /\ c \in Own' => s.result # "failed"
    BY <2>0, <2>1, <2>2, <2>3 DEF Own
  <2> HIDE DEF s
  <2> QED  BY <2>0, <2>2, <2>4, <2>5, <2>6, <1>b, <1>c, <1>s, TellStep
<1>12. ASSUME NEW t \in Senders, MarkSending(t)  PROVE Sound(c)'
  <2>1. sender[t].stage = "mark" /\ campaign' = campaign /\ reached' = reached /\ others' = others
    BY <1>12 DEF MarkSending, Is, sendHistory
  <2>2. sender' = [sender EXCEPT ![t] = [sender[t] EXCEPT !.stage = "push", !.result = "failed"]]
    BY <1>12, <1>b DEF MarkSending, SenderTypes
  <2> DEFINE s == [sender[t] EXCEPT !.stage = "push", !.result = "failed"]
  <2>3. s.camp = sender[t].camp /\ s.stage = "push"  BY <1>b DEF SenderTypes, SenderRows
  <2>4. sender' = [sender EXCEPT ![t] = s]  BY <2>2
  <2>5. sender[t].camp = c => c \notin Own
    BY <2>1, <1>c, <1>s DEF HoldsCamp, Sound, OneSender
  <2>6. Own' = Own  BY <2>1, <1>o
  <2> HIDE DEF s
  <2> QED  BY <2>1, <2>3, <2>4, <2>5, <2>6, <1>b, <1>c, <1>s, TellStep
<1>13. ASSUME NEW t \in Senders, StatementThrows(t)  PROVE Sound(c)'
  <2>1. /\ sender[t].stage \in {"mark", "push", "outcome", "audit", "insert", "mail", "result", "closing"}
        /\ Throw(t) /\ campaign' = campaign /\ reached' = reached /\ others' = others
        /\ disturbed' = IF AfterDelivery(t)
                        THEN disturbed \cup ({sender[t].camp} \ {NoItem}) ELSE disturbed
    BY <1>13 DEF StatementThrows
  <2>2. Own' = Own  BY <2>1, <1>o
  <2>3. CASE sender[t].camp # c
    <3>1. Remain(c)  BY <2>1, <2>3, <1>b, ThrowRemains
    <3> QED  BY <3>1, <2>1, <2>2, <1>c, Undisturbed
  <2>4. CASE sender[t].camp = c
    <3>1. ~AfterDelivery(t)  BY <2>1, <2>4, <1>n
    <3>2. /\ sender[t].stage \in Told \cup Untold
          /\ sender[t].stage \in Told => sender[t].result = "failed"
      BY <2>1, <3>1 DEF AfterDelivery, Is, Told, Untold
    <3>3. c \notin Own  BY <3>2, <2>4, <1>c DEF HoldsCamp, Sound, OneSender
    <3>4. Go(t, "catch")  BY <2>1, <2>4, <1>n DEF Throw
    <3> QED  BY <3>2, <3>3, <3>4, <2>1, <2>2, <2>4, <1>b, <1>c, CatchStep
  <2> QED  BY <2>3, <2>4
<1>6. ASSUME NEW t \in Senders, ClaimCampaign(t)  PROVE Sound(c)'
  <2>0. sender[t].stage = "claim" /\ Own' = Own  BY <1>6 DEF ClaimCampaign, Is, Own, sendHistory
  <2>1. CASE campaign' = campaign /\ End(t)
    BY <2>0, <2>1, <1>b, <1>c, EndRemains, Undisturbed
  <2>2. CASE /\ Claimable(sender[t].camp)
             /\ campaign' = [campaign EXCEPT ![sender[t].camp].status = "sending",
                                             ![sender[t].camp].stale = FALSE]
             /\ Go(t, "insert") \/ Go(t, "mail")
    <3>1. CASE sender[t].camp # c
      <4>1. Remain(c)  BY <3>1, <2>2, <1>b, GoRemains
      <4>2. campaign'[c] = campaign[c]  BY <3>1, <2>2, <1>b
      <4> QED  BY <4>1, <4>2, <2>0, <1>c, Undisturbed
    <3>2. CASE sender[t].camp = c
      <4>1. Camp(c) \in {"queued", "failed"}  BY <3>2, <2>2 DEF Claimable
      <4>2. c \notin Own /\ \A u \in Senders : ~HoldsCamp(u, c)
        BY <4>1, <1>c, <1>q DEF Sound, TrueStatus
      <4>3. /\ sender'[t].stage \in {"insert", "mail"}
            /\ \A u \in Senders \ {t} : sender'[u] = sender[u]
        BY <2>2, <1>b DEF Go, SenderTypes, SenderRows
      <4>4. \A u \in Senders : (HoldsCamp(u, c))' => u = t  BY <4>2, <4>3 DEF HoldsCamp
      <4>5. campaign'[c].status = "sending"  BY <3>2, <2>2, <1>b DEF CampaignRows
      <4>6. OneSender(c)'
        BY <4>2, <4>3, <4>4, <4>5, <2>0, <1>s DEF OneSender, Camp, Told
      <4>7. TrueStatus(c)'  BY <4>5 DEF TrueStatus, Camp
      <4> QED  BY <4>6, <4>7 DEF Sound
    <3> QED  BY <3>1, <3>2
  <2> QED  BY <2>1, <2>2, <1>6 DEF ClaimCampaign
<1>7. ASSUME NEW t \in Senders, NEW d \in CampaignIds, CreateCampaign(t, d)  PROVE Sound(c)'
  <2>1. Remain(c) /\ Own' = Own  BY <1>7, CalmCampaignSteps DEF CreateCampaign, Own, sendHistory
  <2>2. CASE c # d
    <3>1. campaign'[c] = campaign[c]  BY <2>2, <1>7, <1>b DEF CreateCampaign
    <3> QED  BY <3>1, <2>1, <1>c, Undisturbed
  <2>3. CASE c = d
    <3>1. Camp(c) = "absent"  BY <2>3, <1>7 DEF CreateCampaign
    <3>2. c \notin Own'  BY <3>1, <2>1, <1>c DEF Sound, TrueStatus
    <3>3. campaign'[c].status = "queued"  BY <2>3, <1>7, <1>b DEF CreateCampaign
    <3>4. \A u \in Senders : ~(HoldsCamp(u, c))'  BY <3>1, <2>1, <1>q DEF Remain
    <3>5. TrueStatus(c)'  BY <3>2, <3>3 DEF TrueStatus, Camp
    <3> QED  BY <3>4, <3>5, ReleasedIsSound
  <2> QED  BY <2>2, <2>3
<1>8. ASSUME NEW d \in CampaignIds, CancelCampaign(d)  PROVE Sound(c)'
  <2>1. Remain(c) /\ Own' = Own  BY <1>8, SameRemains DEF CancelCampaign, Own, sendHistory
  <2>2. CASE c # d
    <3>1. campaign'[c] = campaign[c]  BY <2>2, <1>8, <1>b DEF CancelCampaign
    <3> QED  BY <3>1, <2>1, <1>c, Undisturbed
  <2>3. CASE c = d
    <3>1. Camp(c) = "queued"  BY <2>3, <1>8 DEF CancelCampaign
    <3>2. c \notin Own'  BY <3>1, <2>1, <1>c DEF Sound, TrueStatus
    <3>3. campaign'[c].status = "cancelled"  BY <2>3, <1>8, <1>b DEF CancelCampaign, CampaignRows
    <3>4. \A u \in Senders : ~(HoldsCamp(u, c))'  BY <3>1, <2>1, <1>q DEF Remain
    <3>5. TrueStatus(c)'  BY <3>2, <3>3 DEF TrueStatus, Camp
    <3> QED  BY <3>4, <3>5, ReleasedIsSound
  <2> QED  BY <2>2, <2>3
<1>9. ASSUME NEW t \in Senders, ProcessCampaigns(t)  PROVE Sound(c)'
  <2>1. Go(t, "select") /\ Own' = Own  BY <1>9 DEF ProcessCampaigns, Own
  <2>2. c \notin Stale  BY <1>9 DEF ProcessCampaigns
  <2>3. campaign'[c] = campaign[c]  BY <2>2, <1>9 DEF ProcessCampaigns
  <2> QED  BY <2>1, <2>3, <1>b, <1>c, <1>s, GoRemains, Undisturbed
<1>10. ASSUME NEW t \in Senders, WriteResult(t)  PROVE Sound(c)'
  <2>1. /\ Go(t, "closing") /\ Own' = Own /\ sender[t].stage = "result"
        /\ campaign' = [campaign EXCEPT ![sender[t].camp].status = sender[t].result,
                                        ![sender[t].camp].stale = FALSE]
    BY <1>10 DEF WriteResult, Result, Is, Own, sendHistory
  <2>2. Remain(c)  BY <2>1, <1>b, <1>s, GoRemains
  <2>3. CASE sender[t].camp # c
    <3>1. campaign'[c] = campaign[c]  BY <2>3, <2>1, <1>b
    <3> QED  BY <3>1, <2>1, <2>2, <1>c, Undisturbed
  <2>4. CASE sender[t].camp = c
    <3>1. HoldsCamp(t, c)  BY <2>4, <2>1, <1>s DEF HoldsCamp
    <3>2. c \in Own' => sender[t].result # "failed"
      BY <3>1, <2>1, <1>c, <1>s DEF Sound, OneSender
    <3>3. sender'[t].stage = "closing"  BY <2>1, <1>b DEF Go, SenderTypes, SenderRows
    <3>4. \A u \in Senders : ~(HoldsCamp(u, c))'
      BY <3>1, <3>3, <2>2, <1>c, <1>s, LetGo DEF Sound
    <3>5. campaign'[c].status = sender[t].result /\ sender[t].result \in Outcomes
      BY <2>4, <2>1, <1>b DEF CampaignRows, SenderTypes, SenderRows
    <3>6. TrueStatus(c)'  BY <3>2, <3>5 DEF TrueStatus, Camp, Outcomes
    <3> QED  BY <3>4, <3>6, ReleasedIsSound
  <2> QED  BY <2>3, <2>4
<1>11. ASSUME NEW t \in Senders, CatchCampaign(t)  PROVE Sound(c)'
  <2>1. /\ End(t) /\ Own' = Own /\ sender[t].stage = "catch"
        /\ campaign' = [campaign EXCEPT ![sender[t].camp].status = "failed",
                                        ![sender[t].camp].stale = FALSE]
    BY <1>11 DEF CatchCampaign, Is, Own, sendHistory
  <2>2. Remain(c)  BY <2>1, <1>b, EndRemains
  <2>3. CASE sender[t].camp # c
    <3>1. campaign'[c] = campaign[c]  BY <2>3, <2>1, <1>b
    <3> QED  BY <3>1, <2>1, <2>2, <1>c, Undisturbed
  <2>4. CASE sender[t].camp = c
    <3>1. HoldsCamp(t, c)  BY <2>4, <2>1, <1>s DEF HoldsCamp
    <3>2. c \notin Own'  BY <3>1, <2>1, <1>c, <1>s DEF Sound, OneSender
    <3>3. sender'[t].camp = NoItem  BY <2>1, <1>b DEF End, Finished, NoSend, SenderTypes
    <3>4. \A u \in Senders : ~(HoldsCamp(u, c))'
      BY <3>1, <3>3, <2>2, <1>c, <1>n, LetGo DEF Sound
    <3>5. campaign'[c].status = "failed"  BY <2>4, <2>1, <1>b DEF CampaignRows
    <3>6. TrueStatus(c)'  BY <3>2, <3>5 DEF TrueStatus, Camp
    <3> QED  BY <3>4, <3>6, ReleasedIsSound
  <2> QED  BY <2>3, <2>4
<1> QED
  BY <1>0, <1>1, <1>2, <1>3, <1>4, <1>5, <1>6, <1>7, <1>8, <1>9, <1>10, <1>11,
     <1>12, <1>13
     DEF CampaignNext, SendMessageSteps, SendCampaignSteps

LEMMA SoundInit == CampaignInit => AllSound
<1> SUFFICES ASSUME CampaignInit, NEW c \in CampaignIds  PROVE Sound(c)
  BY DEF AllSound
<1>1. \A t \in Senders : ~HoldsCamp(t, c)
  BY DEF CampaignInit, HoldsCamp, NoSend, Told, Untold
<1>2. Camp(c) = "absent" /\ c \notin Own  BY DEF CampaignInit, Camp, Own
<1> QED  BY <1>1, <1>2 DEF Sound, OneSender, TrueStatus

LEMMA SoundHolds == CampaignSpec => []AllSound
BY SoundInit, SoundStep, BaseHolds, PTL DEF CampaignSpec

\* The claim of a campaign, one UPDATE, keeps every other sender away until it
\* is recovered after 15 minutes or fails late, however many senders there are.
THEOREM ClaimsAreExclusive == CampaignSpec => []ClaimIsExclusive
<1>1. ASSUME AllSound  PROVE ClaimIsExclusive
  <2> SUFFICES ASSUME NEW c \in CampaignIds \ disturbed
               PROVE  LET at == {t \in Senders : sender[t].camp = c /\ sender[t].stage \in Delivering}
                      IN  Cardinality(at) <= 1 /\ (at # {} => Camp(c) = "sending")
    BY DEF ClaimIsExclusive
  <2> DEFINE at == {t \in Senders : sender[t].camp = c /\ sender[t].stage \in Delivering}
  <2>1. \A t \in at : HoldsCamp(t, c)  BY StageNames DEF HoldsCamp, Told, Untold
  <2>2. \A t \in at : Camp(c) = "sending" /\ \A u \in at : u = t
    BY <2>1, <1>1 DEF AllSound, Sound, OneSender
  <2>3. at # {} => \E t \in at : at = {t}  BY <2>2
  <2>4. Cardinality({}) = 0 /\ \A t \in at : Cardinality({t}) = 1
    BY FS_EmptySet, FS_Singleton
  <2> HIDE DEF at
  <2>5. Cardinality(at) <= 1
    <3>1. CASE at = {}  BY <3>1, <2>4
    <3>2. CASE at # {}
      <4>1. PICK t \in at : at = {t}  BY <3>2, <2>3
      <4>2. Cardinality(at) = Cardinality({t})  BY <4>1
      <4> QED  BY <4>2, <2>4
    <3> QED  BY <3>1, <3>2
  <2> QED  BY <2>2, <2>5 DEF at
<1> QED  BY <1>1, SoundHolds, PTL

\* Success is written of what was reached, whoever else sends the campaign.
Charged == Told \cup Untold \cup {"closing"}
Unclaimed == {"absent", "queued", "cancelled"}
Fair(s, messages, campaigns, got) ==
  s.camp # NoItem /\ s.stage \in Charged =>
    /\ campaigns[s.camp].status \notin Unclaimed
    /\ s.stage \in Sending => messages[s.msg].camp = s.camp
    /\ s.stage \in Told /\ s.result # "failed" => s.camp \in got
HonestRows ==
  /\ \A c \in CampaignIds : /\ Camp(c) \in Unclaimed => c \notin reached
                            /\ Camp(c) \in {"sent", "partial"} => c \in reached
  /\ \A m \in Messages : message[m].camp # NoItem =>
       Row(m) # "absent" /\ Camp(message[m].camp) \notin Unclaimed
Honest == HonestRows /\ \A t \in Senders : Fair(sender[t], message, campaign, reached)

\* Who is reached stays so, a message keeps its campaign, a claimed one is claimed.
Grows ==
  /\ reached \subseteq reached'
  /\ \A m \in Messages : message[m].camp # NoItem => message'[m].camp = message[m].camp
  /\ \A c \in CampaignIds : campaign'[c].status \in Unclaimed => campaign[c].status \in Unclaimed

LEMMA OthersFair ==
  ASSUME SenderTypes, Honest, Grows, NEW u \in Senders
  PROVE  Fair(sender[u], message', campaign', reached')
<1>f. Fits(sender[u]) /\ sender[u].camp \in CampaignIds \cup {NoItem}  BY DEF SenderTypes, SenderRows
<1>1. Fair(sender[u], message, campaign, reached)  BY DEF Honest
<1>2. sender[u].stage \in Sending => sender[u].msg \in Messages  BY <1>f DEF Fits, WithMessage
<1> QED  BY <1>f, <1>1, <1>2 DEF Fair, Grows

LEMMA HonestMove ==
  ASSUME SenderTypes, Honest, Grows, HonestRows', NEW t \in Senders, NEW s,
         sender' = [sender EXCEPT ![t] = s], Fair(s, message', campaign', reached')
  PROVE  Honest'
<1>1. ASSUME NEW u \in Senders  PROVE Fair(sender'[u], message', campaign', reached')
  <2>1. sender'[u] = IF u = t THEN s ELSE sender[u]  BY DEF SenderTypes
  <2> QED  BY <2>1, OthersFair
<1> QED  BY <1>1 DEF Honest

LEMMA HonestSame ==
  ASSUME SenderTypes, Honest, Grows, HonestRows', sender' = sender  PROVE Honest'
<1>1. \A u \in Senders : Fair(sender'[u], message', campaign', reached')  BY OthersFair
<1> QED  BY <1>1 DEF Honest

\* A sender that holds no campaign afterwards.
LEMMA HonestFree ==
  ASSUME SenderTypes, Honest, Grows, HonestRows', NEW t \in Senders, NEW s,
         sender' = [sender EXCEPT ![t] = s],
         s.camp = NoItem \/ s.stage \notin Charged
  PROVE  Honest'
<1>1. Fair(s, message', campaign', reached')  BY DEF Fair
<1> QED  BY <1>1, HonestMove

LEMMA HonestEnd ==
  ASSUME SenderTypes, Honest, Grows, HonestRows', NEW t \in Senders, End(t)
  PROVE  Honest'
<1>1. Finished(t).camp = NoItem  BY DEF Finished, NoSend
<1>2. sender' = [sender EXCEPT ![t] = Finished(t)]  BY DEF End
<1> QED  BY <1>1, <1>2, HonestFree

\* A sender that goes on with its campaign, or without one.
LEMMA HonestGo ==
  ASSUME SenderTypes, Honest, Grows, HonestRows', NEW t \in Senders, NEW stage, Go(t, stage),
         stage \in Charged => sender[t].stage \in Charged,
         stage \in Sending => sender[t].stage \in Sending,
         stage \in Told => sender[t].stage \in Told
  PROVE  Honest'
<1>f. sender \in [Senders -> SenderRows] /\ sender[t] \in SenderRows  BY DEF SenderTypes
<1> DEFINE s == [sender[t] EXCEPT !.stage = stage]
<1>1. sender' = [sender EXCEPT ![t] = s]  BY <1>f DEF Go
<1>2. /\ s.camp = sender[t].camp /\ s.msg = sender[t].msg
      /\ s.stage = stage /\ s.result = sender[t].result
  BY <1>f DEF SenderRows
<1>3. Fair(sender[t], message', campaign', reached')  BY OthersFair
<1> HIDE DEF s
<1>4. Fair(s, message', campaign', reached')  BY <1>2, <1>3 DEF Fair
<1> QED  BY <1>1, <1>4, HonestMove

LEMMA HonestThrow ==
  ASSUME SenderTypes, Honest, Grows, HonestRows', NEW t \in Senders, Throw(t),
         sender[t].stage \in Charged
  PROVE  Honest'
<1>f. sender \in [Senders -> SenderRows] /\ sender[t] \in SenderRows  BY DEF SenderTypes
<1>s. "catch" \notin Told \cup Sending /\ "caught" \notin Charged \cup Told \cup Sending
  BY StageNames DEF Charged, Told, Untold
<1>1. CASE End(t)  BY <1>1, HonestEnd
<1>2. CASE Go(t, "caught")  BY <1>2, <1>s, HonestGo
<1>3. CASE Go(t, "catch") /\ sender[t].camp # NoItem
  <2> DEFINE s == [sender[t] EXCEPT !.stage = "catch"]
  <2>1. sender' = [sender EXCEPT ![t] = s]  BY <1>3, <1>f DEF Go
  <2>2. s.camp = sender[t].camp /\ s.stage = "catch"  BY <1>f DEF SenderRows
  <2>c. sender[t].camp \in CampaignIds  BY <1>3, <1>f DEF SenderRows
  <2>3. campaign[sender[t].camp].status \notin Unclaimed  BY <1>3 DEF Honest, Fair
  <2>4. campaign'[sender[t].camp].status \notin Unclaimed  BY <2>c, <2>3 DEF Grows
  <2> HIDE DEF s
  <2>5. Fair(s, message', campaign', reached')  BY <2>2, <2>4, <1>s DEF Fair
  <2> QED  BY <2>1, <2>5, HonestMove
<1> QED  BY <1>1, <1>2, <1>3 DEF Throw
\* Steps that write no campaign, reach nobody and give no message a campaign.
LEMMA CalmRows ==
  ASSUME HonestRows, \A c \in CampaignIds : campaign'[c].status = campaign[c].status,
         reached' = reached,
         \A m \in Messages : /\ message'[m].camp = message[m].camp
                             /\ message'[m].status = "absent" => Row(m) = "absent",
         \A m \in Messages : message[m].camp \in CampaignIds \cup {NoItem}
  PROVE  HonestRows' /\ Grows
BY DEF HonestRows, Grows, Row, Camp

LEMMA HonestMessageStep ==
  ASSUME Base, Honest, NEW t \in Senders,
         SendMessageSteps(t) \/ \E m \in Messages : CreateMessage(t, m) \/ SendMessage(t, m)
  PROVE  Honest'
<1>b. /\ SenderTypes /\ message \in [Messages -> MessageRows] /\ HonestRows
      /\ sender \in [Senders -> SenderRows] /\ sender[t] \in SenderRows /\ Fits(sender[t])
  BY DEF Base, RowTypes, SenderTypes, Honest
<1>m. \A m \in Messages : message[m].camp \in CampaignIds \cup {NoItem}  BY <1>b DEF MessageRows
<1>i. sender[t].stage = "idle" => sender[t].camp = NoItem  BY <1>b DEF Fits, NoSend
<1>s. /\ Sending \subseteq Charged /\ Told = {"push", "outcome", "audit", "result"}
      /\ Sending = {"read", "mark", "push", "outcome", "audit"} /\ "result" \in Charged
      /\ {"next", "claim"} \cap Charged = {}
  BY StageNames DEF Charged, Told, Untold
<1>c. ASSUME campaign' = campaign, reached' = reached, message' = message  PROVE HonestRows' /\ Grows
  BY <1>c, <1>b, <1>m, CalmRows DEF Row
<1>w. ASSUME NEW m, NEW status, status # "absent", campaign' = campaign, reached' = reached,
             message' = [message EXCEPT ![m].status = status]
      PROVE  HonestRows' /\ Grows
  <2>1. \A k \in Messages : /\ message'[k].camp = message[k].camp
                            /\ message'[k].status = "absent" => Row(k) = "absent"
    BY <1>w, <1>b DEF MessageRows, Row
  <2> QED  BY <2>1, <1>w, <1>b, <1>m, CalmRows
<1>1. ASSUME NEW m \in Messages, CreateMessage(t, m)  PROVE Honest'
  <2>1. PICK due \in BOOLEAN :
          /\ message' = [message EXCEPT ![m].status = "queued", ![m].due = due]
          /\ sender' = IF due THEN [sender EXCEPT ![t] = [sender[t] EXCEPT !.stage = "read", !.msg = m]]
                       ELSE sender
    BY <1>1, <1>b DEF CreateMessage
  <2>2. \A k \in Messages : /\ message'[k].camp = message[k].camp
                            /\ message'[k].status = "absent" => Row(k) = "absent"
    BY <2>1, <1>b DEF MessageRows, Row
  <2>3. campaign' = campaign /\ reached' = reached /\ sender[t].stage = "idle"
    BY <1>1 DEF CreateMessage, sendHistory, Is
  <2>4. HonestRows' /\ Grows  BY <2>2, <2>3, <1>b, <1>m, CalmRows
  <2>5. [sender[t] EXCEPT !.stage = "read", !.msg = m].camp = NoItem  BY <2>3, <1>i, <1>b DEF SenderRows
  <2> QED  BY <2>1, <2>4, <2>5, <1>b, HonestFree, HonestSame
<1>2. ASSUME NEW m \in Messages, SendMessage(t, m)  PROVE Honest'
  <2>1. sender' = [sender EXCEPT ![t] = [sender[t] EXCEPT !.stage = "read", !.msg = m]]
    BY <1>2, <1>b DEF SendMessage
  <2>2. HonestRows' /\ Grows  BY <1>2, <1>c DEF SendMessage, sendHistory
  <2>3. [sender[t] EXCEPT !.stage = "read", !.msg = m].camp = NoItem
    BY <1>2, <1>i, <1>b DEF SendMessage, Is, SenderRows
  <2> QED  BY <2>1, <2>2, <2>3, <1>b, HonestFree
<1>3. CASE ProcessDue(t)
  <2>1. PICK rows : sender' = [sender EXCEPT ![t].stage = "next", ![t].timer = TRUE, ![t].todo = rows]
    BY <1>3 DEF ProcessDue
  <2>2. sender' = [sender EXCEPT ![t] = [sender[t] EXCEPT !.stage = "next", !.timer = TRUE, !.todo = rows]]
    BY <2>1, <1>b
  <2>3. [sender[t] EXCEPT !.stage = "next", !.timer = TRUE, !.todo = rows].stage = "next"
    BY <1>b DEF SenderRows
  <2>4. HonestRows' /\ Grows  BY <1>3, <1>c DEF ProcessDue, sendHistory
  <2> QED  BY <2>2, <2>3, <2>4, <1>b, <1>s, HonestFree
<1>4. CASE NextRow(t)
  <2>1. PICK x \in sender[t].todo :
       sender' = [sender EXCEPT ![t].todo = @ \ {x},
         ![t].stage = IF x \in Messages THEN "read" ELSE "claim",
         ![t].msg = IF x \in Messages THEN x ELSE NoItem,
         ![t].camp = IF x \in Messages THEN NoItem ELSE x]
    BY <1>4 DEF NextRow
  <2> DEFINE s == [sender[t] EXCEPT !.todo = sender[t].todo \ {x},
                      !.stage = IF x \in Messages THEN "read" ELSE "claim",
                      !.msg = IF x \in Messages THEN x ELSE NoItem,
                      !.camp = IF x \in Messages THEN NoItem ELSE x]
  <2>2. sender' = [sender EXCEPT ![t] = s]  BY <2>1, <1>b
  <2>3. s.camp = NoItem \/ s.stage = "claim"  BY <1>b DEF SenderRows
  <2>4. HonestRows' /\ Grows  BY <1>4, <1>c DEF NextRow, sendHistory
  <2> HIDE DEF s
  <2> QED  BY <2>2, <2>3, <2>4, <1>b, <1>s, HonestFree
<1>5. CASE ReadMessage(t)
  <2>1. sender[t].stage = "read" /\ (Throw(t) \/ Go(t, "mark"))  BY <1>5 DEF ReadMessage, Is
  <2>2. HonestRows' /\ Grows  BY <1>5, <1>c DEF ReadMessage, sendHistory
  <2>3. CASE Throw(t)  BY <2>1, <2>2, <2>3, <1>b, <1>s, HonestThrow
  <2>4. CASE Go(t, "mark")  BY <2>1, <2>2, <2>4, <1>b, <1>s, HonestGo
  <2> QED  BY <2>1, <2>3, <2>4
<1>6. CASE MarkSending(t)
  <2>1. /\ sender[t].stage = "mark" /\ campaign' = campaign /\ reached' = reached
        /\ message' = [message EXCEPT ![sender[t].msg].status = "sending"]
    BY <1>6 DEF MarkSending, Is, sendHistory
  <2>2. HonestRows' /\ Grows  BY <2>1, <1>w
  <2> DEFINE s == [sender[t] EXCEPT !.stage = "push", !.result = "failed"]
  <2>3. sender' = [sender EXCEPT ![t] = s]  BY <1>6, <1>b DEF MarkSending
  <2>4. /\ s.camp = sender[t].camp /\ s.msg = sender[t].msg
        /\ s.stage = "push" /\ s.result = "failed"
    BY <1>b DEF SenderRows
  <2>5. Fair(sender[t], message', campaign', reached')  BY <2>2, <1>b, OthersFair
  <2> HIDE DEF s
  <2>6. Fair(s, message', campaign', reached')  BY <2>1, <2>4, <2>5, <1>s DEF Fair
  <2> QED  BY <2>2, <2>3, <2>6, <1>b, HonestMove
<1>7. CASE Deliver(t)
  <2>0. /\ sender[t].stage = "push" /\ campaign' = campaign /\ message' = message
        /\ reached' = reached \cup ({message[sender[t].msg].camp} \ {NoItem})
    BY <1>7 DEF Deliver, Is
  <2>m. sender[t].msg \in Messages  BY <2>0, <1>b DEF Fits, WithMessage, Sending
  <2>1. PICK result : sender' = [sender EXCEPT ![t].result = result]  BY <1>7 DEF Deliver
  <2> DEFINE s == [sender[t] EXCEPT !.result = result]
  <2>2. sender' = [sender EXCEPT ![t] = s]  BY <2>1, <1>b
  <2>3. s.camp = sender[t].camp /\ s.msg = sender[t].msg /\ s.stage = "push"
    BY <2>0, <1>b DEF SenderRows
  <2>4. HonestRows'
    BY <2>0, <2>m, <1>b DEF HonestRows, Row, Camp
  <2>5. Grows  BY <2>0 DEF Grows
  <2>6. Fair(sender[t], message', campaign', reached')  BY <2>5, <1>b, OthersFair
  <2> HIDE DEF s
  <2>7. Fair(s, message', campaign', reached')
    <3>1. sender[t].camp # NoItem => message[sender[t].msg].camp = sender[t].camp
      BY <2>0, <2>6, <1>s DEF Fair
    <3>2. sender[t].camp # NoItem => sender[t].camp \in reached'  BY <3>1, <2>0
    <3> QED  BY <3>2, <2>0, <2>3, <2>6, <1>s DEF Fair
  <2> QED  BY <2>2, <2>4, <2>5, <2>7, <1>b, HonestMove
<1>8. CASE EndPush(t)
  <2>1. sender[t].stage = "push" /\ Go(t, "outcome")  BY <1>8 DEF EndPush, Is
  <2>2. HonestRows' /\ Grows  BY <1>8, <1>c DEF EndPush, sendHistory
  <2> QED  BY <2>1, <2>2, <1>b, <1>s, HonestGo
<1>9. CASE WriteOutcome(t)
  <2>1. /\ sender[t].stage = "outcome" /\ Go(t, "audit") /\ campaign' = campaign /\ reached' = reached
        /\ message' = [message EXCEPT ![sender[t].msg].status = sender[t].result]
    BY <1>9 DEF WriteOutcome, Is, sendHistory
  <2>2. sender[t].result # "absent"  BY <1>b DEF SenderRows, Outcomes
  <2>3. HonestRows' /\ Grows  BY <2>1, <2>2, <1>w
  <2> QED  BY <2>1, <2>3, <1>b, <1>s, HonestGo
<1>10. CASE AuditMessage(t)
  <2>1. sender[t].stage = "audit" /\ (Go(t, "result") \/ End(t))  BY <1>10 DEF AuditMessage, Is
  <2>2. HonestRows' /\ Grows  BY <1>10, <1>c DEF AuditMessage, sendHistory
  <2>3. "result" \notin Sending  BY <1>s
  <2> QED  BY <2>1, <2>2, <2>3, <1>b, <1>s, HonestGo, HonestEnd
<1>11. CASE Caught(t)
  <2>1. HonestRows' /\ Grows  BY <1>11, <1>w DEF Caught, CaughtFailed, sendHistory
  <2> QED  BY <2>1, <1>11, <1>b, HonestEnd DEF Caught
<1> QED
  BY <1>1, <1>2, <1>3, <1>4, <1>5, <1>6, <1>7, <1>8, <1>9, <1>10, <1>11 DEF SendMessageSteps

\* A step that gives one campaign a status, which was not unclaimed or will be.
LEMMA WrittenRows ==
  ASSUME Base, HonestRows, NEW c \in CampaignIds, reached' = reached, message' = message,
         \A d \in CampaignIds \ {c} : campaign'[d].status = campaign[d].status,
         campaign'[c].status \in Unclaimed => Camp(c) \in Unclaimed,
         campaign'[c].status \in {"sent", "partial"} => c \in reached
  PROVE  HonestRows' /\ Grows
<1>1. \A m \in Messages : message[m].camp \in CampaignIds \cup {NoItem}
  BY DEF Base, RowTypes, MessageRows
<1> QED  BY <1>1 DEF HonestRows, Grows, Row, Camp

LEMMA HonestCampaignStep ==
  ASSUME Base, Honest, NEW t \in Senders,
         \/ SendCampaignSteps(t) \/ StatementThrows(t) \/ SenderDies(t)
         \/ \E c \in CampaignIds : CreateCampaign(t, c) \/ SendCampaign(t, c)
  PROVE  Honest'
<1>b. /\ SenderTypes /\ message \in [Messages -> MessageRows] /\ HonestRows
      /\ campaign \in [CampaignIds -> CampaignRows]
      /\ sender \in [Senders -> SenderRows] /\ sender[t] \in SenderRows /\ Fits(sender[t])
  BY DEF Base, RowTypes, SenderTypes, Honest
<1>m. \A m \in Messages : message[m].camp \in CampaignIds \cup {NoItem}  BY <1>b DEF MessageRows
<1>s. /\ Told = {"push", "outcome", "audit", "result"}
      /\ Sending = {"read", "mark", "push", "outcome", "audit"}
      /\ Charged = Told \cup {"insert", "mail", "read", "mark", "catch", "closing"}
  BY StageNames DEF Charged, Told, Untold
<1>c. ASSUME campaign' = campaign, reached' = reached, message' = message  PROVE HonestRows' /\ Grows
  BY <1>c, <1>b, <1>m, CalmRows DEF Row
<1>h. sender[t].stage \in Charged \cup {"claim"} /\ sender[t].stage \notin Sending
        => sender[t].camp \in CampaignIds
  BY <1>b, <1>s DEF Fits, WithCampaign
<1>n. NoItem \notin CampaignIds  BY CampaignAssumption
<1>1. ASSUME NEW c \in CampaignIds, CreateCampaign(t, c)  PROVE Honest'
  <2>1. PICK due \in BOOLEAN, push \in BOOLEAN :
          /\ campaign' = [campaign EXCEPT ![c] =
               [status |-> "queued", due |-> due, push |-> push, stale |-> FALSE]]
          /\ sender' = IF due THEN [sender EXCEPT ![t] = [sender[t] EXCEPT !.stage = "claim", !.camp = c]]
                       ELSE sender
    BY <1>1, <1>b DEF CreateCampaign
  <2>2. Camp(c) = "absent" /\ reached' = reached /\ message' = message
    BY <1>1 DEF CreateCampaign, sendHistory
  <2>3. campaign'[c].status = "queued" /\ \A d \in CampaignIds \ {c} : campaign'[d] = campaign[d]
    BY <2>1, <1>b
  <2>4. HonestRows' /\ Grows  BY <2>2, <2>3, <1>b, WrittenRows DEF Unclaimed
  <2>5. [sender[t] EXCEPT !.stage = "claim", !.camp = c].stage = "claim"  BY <1>b DEF SenderRows
  <2>6. "claim" \notin Charged  BY <1>s
  <2> QED  BY <2>1, <2>4, <2>5, <2>6, <1>b, HonestFree, HonestSame
<1>2. ASSUME NEW c \in CampaignIds, SendCampaign(t, c)  PROVE Honest'
  <2>1. sender' = [sender EXCEPT ![t] = [sender[t] EXCEPT !.stage = "claim", !.camp = c]]
    BY <1>2, <1>b DEF SendCampaign
  <2>2. HonestRows' /\ Grows  BY <1>2, <1>c DEF SendCampaign, sendHistory
  <2>3. [sender[t] EXCEPT !.stage = "claim", !.camp = c].stage = "claim"  BY <1>b DEF SenderRows
  <2>4. "claim" \notin Charged  BY <1>s
  <2> QED  BY <2>1, <2>2, <2>3, <2>4, <1>b, HonestFree
<1>3. CASE ProcessCampaigns(t)
  <2>1. Go(t, "select") /\ reached' = reached /\ message' = message  BY <1>3 DEF ProcessCampaigns
  <2>2. \A c \in CampaignIds :
          \/ campaign'[c].status = campaign[c].status
          \/ Camp(c) = "sending" /\ campaign'[c].status = "failed"
    BY <1>3, <1>b DEF ProcessCampaigns, Stale, CampaignRows
  <2>3. HonestRows' /\ Grows
    BY <2>1, <2>2, <1>b, <1>m DEF HonestRows, Grows, Row, Camp, Unclaimed
  <2> QED  BY <2>1, <2>3, <1>b, <1>s, HonestGo
<1>4. CASE SelectCampaigns(t)
  <2>1. PICK rows :
          sender' = [sender EXCEPT ![t] = IF rows = {} THEN NoSend
                       ELSE [NoSend EXCEPT !.stage = "next", !.timer = TRUE, !.todo = rows]]
    BY <1>4 DEF SelectCampaigns
  <2> DEFINE s == IF rows = {} THEN NoSend
                  ELSE [NoSend EXCEPT !.stage = "next", !.timer = TRUE, !.todo = rows]
  <2>2. s.camp = NoItem  BY DEF NoSend
  <2>3. sender' = [sender EXCEPT ![t] = s]  BY <2>1
  <2>4. HonestRows' /\ Grows  BY <1>4, <1>c DEF SelectCampaigns, sendHistory
  <2> HIDE DEF s
  <2> QED  BY <2>2, <2>3, <2>4, <1>b, HonestFree
<1>5. CASE ClaimCampaign(t)
  <2>0. /\ sender[t].stage = "claim" /\ sender[t].camp \in CampaignIds
        /\ reached' = reached /\ message' = message
    BY <1>5, <1>h, <1>s DEF ClaimCampaign, Is, sendHistory
  <2>1. CASE campaign' = campaign /\ End(t)  BY <2>0, <2>1, <1>b, <1>c, HonestEnd
  <2>2. CASE /\ campaign' = [campaign EXCEPT ![sender[t].camp].status = "sending",
                                             ![sender[t].camp].stale = FALSE]
             /\ Go(t, "insert") \/ Go(t, "mail")
    <3>1. /\ campaign'[sender[t].camp].status = "sending"
          /\ \A d \in CampaignIds \ {sender[t].camp} : campaign'[d] = campaign[d]
      BY <2>0, <2>2, <1>b DEF CampaignRows
    <3>2. HonestRows' /\ Grows  BY <2>0, <3>1, <1>b, WrittenRows DEF Unclaimed
    <3>3. PICK stage \in {"insert", "mail"} :
            sender' = [sender EXCEPT ![t] = [sender[t] EXCEPT !.stage = stage]]
      BY <2>2, <1>b DEF Go
    <3> DEFINE s == [sender[t] EXCEPT !.stage = stage]
    <3>4. s.camp = sender[t].camp /\ s.stage \in {"insert", "mail"}  BY <1>b DEF SenderRows
    <3>5. sender' = [sender EXCEPT ![t] = s]  BY <3>3
    <3> HIDE DEF s
    <3>6. Fair(s, message', campaign', reached')  BY <3>1, <3>4, <1>s DEF Fair, Unclaimed
    <3> QED  BY <3>2, <3>5, <3>6, <1>b, HonestMove
  <2> QED  BY <2>1, <2>2, <1>5 DEF ClaimCampaign
<1>6. CASE InsertMessage(t)
  <2>0. /\ sender[t].stage = "insert" /\ sender[t].camp \in CampaignIds
        /\ campaign' = campaign /\ reached' = reached
    BY <1>6, <1>h, <1>s DEF InsertMessage, Is, sendHistory
  <2>1. PICK m \in Messages :
          /\ Row(m) = "absent"
          /\ message' = [message EXCEPT ![m] = [status |-> "queued", due |-> TRUE, camp |-> sender[t].camp]]
          /\ sender' = [sender EXCEPT ![t] = [sender[t] EXCEPT !.stage = "read", !.msg = m]]
    BY <1>6, <1>b DEF InsertMessage
  <2>2. message[m].camp = NoItem  BY <2>1, <1>b DEF HonestRows
  <2>3. Camp(sender[t].camp) \notin Unclaimed
    BY <2>0, <1>n, <1>s DEF Honest, Fair, Camp
  <2>4. /\ message'[m].status = "queued" /\ message'[m].camp = sender[t].camp
        /\ \A k \in Messages \ {m} : message'[k] = message[k]
    BY <2>1, <1>b
  <2>5. HonestRows'  BY <2>0, <2>3, <2>4, <1>b, <1>m DEF HonestRows, Row, Camp
  <2>6. Grows  BY <2>0, <2>2, <2>4 DEF Grows
  <2> DEFINE s == [sender[t] EXCEPT !.stage = "read", !.msg = m]
  <2>7. s.camp = sender[t].camp /\ s.stage = "read" /\ s.msg = m  BY <1>b DEF SenderRows
  <2>8. sender' = [sender EXCEPT ![t] = s]  BY <2>1
  <2> HIDE DEF s
  <2>9. Fair(s, message', campaign', reached')
    BY <2>0, <2>3, <2>4, <2>7, <1>s DEF Fair, Camp
  <2> QED  BY <2>5, <2>6, <2>8, <2>9, <1>b, HonestMove
<1>7. CASE Mail(t)
  <2>0. /\ sender[t].stage = "mail" /\ sender[t].camp \in CampaignIds
        /\ campaign' = campaign /\ message' = message
    BY <1>7, <1>h, <1>s DEF Mail, Is
  <2>1. PICK result \in Outcomes :
          /\ sender' = [sender EXCEPT ![t] = [sender[t] EXCEPT !.stage = "result", !.result = result]]
          /\ reached' = IF result = "failed" THEN reached ELSE reached \cup {sender[t].camp}
    BY <1>7, <1>b DEF Mail
  <2>2. Camp(sender[t].camp) \notin Unclaimed
    BY <2>0, <1>n, <1>s DEF Honest, Fair, Camp
  <2>3. HonestRows'  BY <2>0, <2>1, <2>2, <1>b DEF HonestRows, Row, Camp
  <2>4. Grows  BY <2>0, <2>1 DEF Grows
  <2> DEFINE s == [sender[t] EXCEPT !.stage = "result", !.result = result]
  <2>5. s.camp = sender[t].camp /\ s.stage = "result" /\ s.result = result  BY <1>b DEF SenderRows
  <2>6. sender' = [sender EXCEPT ![t] = s]  BY <2>1
  <2> HIDE DEF s
  <2>7. Fair(s, message', campaign', reached')
    BY <2>0, <2>1, <2>2, <2>5, <1>s DEF Fair, Camp
  <2> QED  BY <2>3, <2>4, <2>6, <2>7, <1>b, HonestMove
<1>8. CASE WriteResult(t)
  <2>0. /\ sender[t].stage = "result" /\ sender[t].camp \in CampaignIds /\ Go(t, "closing")
        /\ reached' = reached /\ message' = message
        /\ campaign' = [campaign EXCEPT ![sender[t].camp].status = sender[t].result,
                                        ![sender[t].camp].stale = FALSE]
    BY <1>8, <1>h, <1>s DEF WriteResult, Result, Is, sendHistory
  <2>1. /\ campaign'[sender[t].camp].status = sender[t].result
        /\ \A d \in CampaignIds \ {sender[t].camp} : campaign'[d] = campaign[d]
    BY <2>0, <1>b DEF CampaignRows
  <2>2. sender[t].result # "failed" => sender[t].camp \in reached
    BY <2>0, <1>n, <1>s DEF Honest, Fair
  <2>3. sender[t].result \in {"sent", "partial", "failed"}  BY <1>b DEF SenderRows, Outcomes
  <2>4. HonestRows' /\ Grows  BY <2>0, <2>1, <2>2, <2>3, <1>b, WrittenRows DEF Unclaimed
  <2> QED  BY <2>0, <2>4, <1>b, <1>s, HonestGo
<1>9. CASE AuditCampaign(t)
  <2>1. HonestRows' /\ Grows  BY <1>9, <1>c DEF AuditCampaign, sendHistory
  <2> QED  BY <2>1, <1>9, <1>b, HonestEnd DEF AuditCampaign
<1>10. CASE CatchCampaign(t)
  <2>0. /\ sender[t].stage = "catch" /\ sender[t].camp \in CampaignIds /\ End(t)
        /\ reached' = reached /\ message' = message
        /\ campaign' = [campaign EXCEPT ![sender[t].camp].status = "failed",
                                        ![sender[t].camp].stale = FALSE]
    BY <1>10, <1>h, <1>s DEF CatchCampaign, Is, sendHistory
  <2>1. /\ campaign'[sender[t].camp].status = "failed"
        /\ \A d \in CampaignIds \ {sender[t].camp} : campaign'[d] = campaign[d]
    BY <2>0, <1>b DEF CampaignRows
  <2>2. HonestRows' /\ Grows  BY <2>0, <2>1, <1>b, WrittenRows DEF Unclaimed
  <2> QED  BY <2>0, <2>2, <1>b, HonestEnd
<1>11. CASE StatementThrows(t)
  <2>1. /\ sender[t].stage \in {"mark", "push", "outcome", "audit", "insert", "mail", "result", "closing"}
        /\ Throw(t) /\ campaign' = campaign /\ reached' = reached /\ message' = message
    BY <1>11 DEF StatementThrows
  <2>2. HonestRows' /\ Grows  BY <2>1, <1>c
  <2>3. sender[t].stage \in Charged  BY <2>1, <1>s
  <2> QED  BY <2>1, <2>2, <2>3, <1>b, HonestThrow
<1>12. CASE SenderDies(t)
  <2>1. sender' = [sender EXCEPT ![t] = NoSend] /\ NoSend.camp = NoItem  BY <1>12 DEF SenderDies, NoSend
  <2>2. HonestRows' /\ Grows  BY <1>12, <1>c DEF SenderDies, sendHistory
  <2> QED  BY <2>1, <2>2, <1>b, HonestFree
<1> QED
  BY <1>1, <1>2, <1>3, <1>4, <1>5, <1>6, <1>7, <1>8, <1>9, <1>10, <1>11, <1>12 DEF SendCampaignSteps

LEMMA HonestOtherStep ==
  ASSUME Base, Honest,
         \/ \E m \in Messages : CancelMessage(m) \/ MessageDue(m)
         \/ \E c \in CampaignIds : CancelCampaign(c) \/ CampaignDue(c) \/ QuarterHour(c)
  PROVE  Honest'
<1>b. /\ SenderTypes /\ message \in [Messages -> MessageRows] /\ HonestRows
      /\ campaign \in [CampaignIds -> CampaignRows]
  BY DEF Base, RowTypes, Honest
<1>m. \A m \in Messages : message[m].camp \in CampaignIds \cup {NoItem}  BY <1>b DEF MessageRows
<1>1. ASSUME NEW m \in Messages, CancelMessage(m) \/ MessageDue(m)  PROVE Honest'
  <2>1. sender' = sender /\ campaign' = campaign /\ reached' = reached
    BY <1>1 DEF CancelMessage, MessageDue, sendHistory
  <2>2. \A k \in Messages : /\ message'[k].camp = message[k].camp
                            /\ message'[k].status = "absent" => Row(k) = "absent"
    BY <1>1, <1>b DEF CancelMessage, MessageDue, MessageRows, Row
  <2>3. HonestRows' /\ Grows  BY <2>1, <2>2, <1>b, <1>m, CalmRows
  <2> QED  BY <2>1, <2>3, <1>b, HonestSame
<1>2. ASSUME NEW c \in CampaignIds, CancelCampaign(c)  PROVE Honest'
  <2>1. /\ sender' = sender /\ message' = message /\ reached' = reached /\ Camp(c) = "queued"
        /\ campaign' = [campaign EXCEPT ![c].status = "cancelled"]
    BY <1>2 DEF CancelCampaign, sendHistory
  <2>2. campaign'[c].status = "cancelled" /\ \A d \in CampaignIds \ {c} : campaign'[d] = campaign[d]
    BY <2>1, <1>b DEF CampaignRows
  <2>3. HonestRows' /\ Grows  BY <2>1, <2>2, <1>b, WrittenRows DEF Unclaimed
  <2> QED  BY <2>1, <2>3, <1>b, HonestSame
<1>3. ASSUME NEW c \in CampaignIds, CampaignDue(c) \/ QuarterHour(c)  PROVE Honest'
  <2>1. sender' = sender /\ message' = message /\ reached' = reached
    BY <1>3 DEF CampaignDue, QuarterHour, sendHistory
  <2>2. \A d \in CampaignIds : campaign'[d].status = campaign[d].status
    BY <1>3, <1>b DEF CampaignDue, QuarterHour, CampaignRows
  <2>3. HonestRows' /\ Grows  BY <2>1, <2>2, <1>b, <1>m, CalmRows DEF Row
  <2> QED  BY <2>1, <2>3, <1>b, HonestSame
<1> QED  BY <1>1, <1>2, <1>3

LEMMA HonestStep == ASSUME Base, Honest, [CampaignNext]_campaignVars  PROVE Honest'
<1>1. CASE UNCHANGED campaignVars
  BY <1>1 DEF campaignVars, Honest, HonestRows, Fair, Row, Camp
<1>2. CASE CampaignNext
  BY <1>2, HonestMessageStep, HonestCampaignStep, HonestOtherStep DEF CampaignNext
<1> QED  BY <1>1, <1>2

LEMMA HonestInit == CampaignInit => Honest
<1> SUFFICES ASSUME CampaignInit  PROVE Honest
  OBVIOUS
<1>1. \A t \in Senders : Fair(sender[t], message, campaign, reached)
  BY DEF CampaignInit, Fair, NoSend
<1>2. HonestRows  BY DEF CampaignInit, HonestRows, Row, Camp
<1> QED  BY <1>1, <1>2 DEF Honest

LEMMA HonestHolds == CampaignSpec => []Honest
BY HonestInit, HonestStep, BaseHolds, PTL DEF CampaignSpec

\* Whatever overlaps, is recovered or fails, a campaign that says sent or partial
\* reached somebody and a queued or cancelled one nobody; failed is the truth
\* too, unless another sender delivered the campaign's message, it was recovered
\* after 15 minutes, or an error came after a delivery.
THEOREM OutcomesAreTrue == CampaignSpec => []CampaignOutcomeIsTrue
<1>1. ASSUME AllSound, Honest  PROVE CampaignOutcomeIsTrue
  <2> SUFFICES ASSUME NEW c \in CampaignIds
               PROVE  /\ Camp(c) \in {"sent", "partial"} => c \in reached
                      /\ Camp(c) \in {"queued", "cancelled"} => c \notin reached
                      /\ Camp(c) = "failed" /\ c \in reached => c \in others \cup disturbed
    BY DEF CampaignOutcomeIsTrue
  <2>1. /\ Camp(c) \in {"sent", "partial"} => c \in reached
        /\ Camp(c) \in {"queued", "cancelled"} => c \notin reached
    BY <1>1 DEF Honest, HonestRows, Unclaimed
  <2>2. Camp(c) = "failed" /\ c \notin disturbed => c \notin Own
    BY <1>1 DEF AllSound, Sound, TrueStatus
  <2> QED  BY <2>1, <2>2 DEF Own
<1> QED  BY <1>1, SoundHolds, HonestHolds, PTL

-----------------------------------------------------------------------------
(* A cancelled message holds for later senders                              *)

\* A sender that would still change the row of a message that is cancelled.
Engaged(s, m) ==
  \/ m \in s.todo
  \/ /\ s.msg = m
     /\ \/ s.stage \in {"mark", "push", "outcome", "audit", "caught"}
        \/ s.stage = "read" /\ (s.timer \/ s.camp # NoItem)
LateKnown ==
  \A m \in Messages, t \in Senders : Row(m) = "cancelled" /\ Engaged(sender[t], m) => t \in late[m]

\* One sender moves, engaged with nothing cancelled that it was not engaged with.
LEMMA LateMove ==
  ASSUME SenderTypes, LateKnown, NEW t \in Senders, NEW s, sender' = [sender EXCEPT ![t] = s],
         \A m \in Messages : message'[m].status = "cancelled" => Row(m) = "cancelled",
         \A m \in Messages : message'[m].status = "cancelled" /\ Engaged(s, m) => Engaged(sender[t], m),
         \A m \in Messages, u \in Senders :
           u \in late[m] /\ (u # t \/ Engaged(s, m)) => u \in late'[m]
  PROVE  LateKnown'
<1> SUFFICES ASSUME NEW m \in Messages, NEW u \in Senders,
                    message'[m].status = "cancelled", Engaged(sender'[u], m)
             PROVE  u \in late'[m]
  BY DEF LateKnown, Row, Engaged
<1>1. Row(m) = "cancelled"  OBVIOUS
<1>2. CASE u = t
  <2>1. sender'[u] = s  BY <1>2 DEF SenderTypes
  <2>2. Engaged(sender[t], m) /\ Engaged(s, m)  BY <2>1
  <2> QED  BY <1>1, <1>2, <2>2 DEF LateKnown
<1>3. CASE u # t
  <2>1. sender'[u] = sender[u]  BY <1>3 DEF SenderTypes
  <2> QED  BY <1>1, <1>3, <2>1 DEF LateKnown
<1> QED  BY <1>2, <1>3

LEMMA LateSame ==
  ASSUME LateKnown, sender' = sender, late' = late,
         \A m \in Messages : message'[m].status = "cancelled" => Row(m) = "cancelled"
  PROVE  LateKnown'
BY DEF LateKnown, Row, Engaged

LEMMA LateGo ==
  ASSUME SenderTypes, LateKnown, NEW t \in Senders, NEW stage, Go(t, stage), late' = late,
         \A m \in Messages : message'[m].status = "cancelled" => Row(m) = "cancelled",
         \A m \in Messages : /\ message'[m].status = "cancelled"
                             /\ Engaged([sender[t] EXCEPT !.stage = stage], m)
                             => Engaged(sender[t], m)
  PROVE  LateKnown'
<1>1. sender' = [sender EXCEPT ![t] = [sender[t] EXCEPT !.stage = stage]]
  BY DEF Go, SenderTypes
<1> QED  BY <1>1, LateMove

LEMMA LateEnd ==
  ASSUME Base, LateKnown, NEW t \in Senders, End(t),
         \A m \in Messages : message'[m].status = "cancelled" => Row(m) = "cancelled"
  PROVE  LateKnown'
<1>1. \A m : Engaged(Finished(t), m) => m \in sender[t].todo
  BY DEF Engaged, Finished, NoSend
<1>2. \A m \in Messages : late'[m] = IF m \in sender[t].todo THEN late[m] ELSE late[m] \ {t}
  BY DEF End
<1>3. \A m \in Messages, u \in Senders :
        u \in late[m] /\ (u # t \/ Engaged(Finished(t), m)) => u \in late'[m]
  BY <1>1, <1>2
<1>4. \A m \in Messages : Engaged(Finished(t), m) => Engaged(sender[t], m)
  BY <1>1 DEF Engaged
<1>5. sender' = [sender EXCEPT ![t] = Finished(t)] /\ SenderTypes  BY DEF End, Base
<1> QED  BY <1>3, <1>4, <1>5, LateMove

LEMMA LateThrow ==
  ASSUME Base, LateKnown, NEW t \in Senders, Throw(t), message' = message,
         sender[t].camp = NoItem => sender[t].stage \in WithMessage
  PROVE  LateKnown'
<1>b. SenderTypes /\ sender[t] \in SenderRows  BY DEF Base, SenderTypes
<1>r. \A m \in Messages : message'[m].status = "cancelled" => Row(m) = "cancelled"  BY DEF Row
<1>1. CASE sender[t].camp # NoItem
  <2>1. Go(t, "catch") /\ late' = late  BY <1>1 DEF Throw
  <2>2. \A m : Engaged([sender[t] EXCEPT !.stage = "catch"], m) => Engaged(sender[t], m)
    BY <1>b DEF Engaged, SenderRows
  <2> QED  BY <2>1, <2>2, <1>b, <1>r, LateGo
<1>2. CASE sender[t].camp = NoItem /\ sender[t].timer
  <2>1. Go(t, "caught") /\ late' = late  BY <1>2 DEF Throw
  <2>2. sender[t].stage \in {"read", "mark", "push", "outcome", "audit", "caught"}
    BY <1>2, StageNames
  <2>3. \A m : Engaged([sender[t] EXCEPT !.stage = "caught"], m) => Engaged(sender[t], m)
    BY <1>b, <1>2, <2>2 DEF Engaged, SenderRows
  <2> QED  BY <2>1, <2>3, <1>b, <1>r, LateGo
<1>3. CASE sender[t].camp = NoItem /\ ~sender[t].timer  BY <1>3, <1>r, LateEnd DEF Throw
<1> QED  BY <1>1, <1>2, <1>3

\* Every step keeps it known which senders held a message when it was cancelled.
LEMMA LateStep ==
  ASSUME Base, LateKnown, [CampaignNext]_campaignVars
  PROVE  LateKnown'
<1>b. RowTypes /\ SenderTypes /\ HistoryTypes /\ message \in [Messages -> MessageRows]
  BY DEF Base, RowTypes
<1>e. \A t \in Senders : /\ Fits(sender[t]) /\ sender[t] \in SenderRows
                         /\ sender[t].stage = "idle" => sender[t] = NoSend
  BY <1>b DEF SenderTypes, Fits
<1>n. NoSend.camp = NoItem /\ NoSend.timer = FALSE /\ NoSend.todo = {}  BY DEF NoSend
<1>i. ASSUME message' = message
      PROVE  \A m \in Messages : message'[m].status = "cancelled" => Row(m) = "cancelled"
  BY <1>i DEF Row
<1>m. ASSUME NEW t \in Senders, NEW m \in Messages, sender[t].stage = "idle"
      PROVE  \A k : ~Engaged([sender[t] EXCEPT !.stage = "read", !.msg = m], k)
  BY <1>m, <1>e, <1>n DEF Engaged, SenderRows
<1>0. CASE UNCHANGED campaignVars  BY <1>0, <1>i, LateSame DEF campaignVars
<1>1. ASSUME NEW t \in Senders, NEW m \in Messages, CreateMessage(t, m) \/ SendMessage(t, m)
      PROVE  LateKnown'
  <2>1. late' = late /\ sender[t].stage = "idle"  BY <1>1 DEF CreateMessage, SendMessage, Is
  <2>2. \A k \in Messages : message'[k].status = "cancelled" => Row(k) = "cancelled"
    BY <1>1, <1>b DEF CreateMessage, SendMessage, Row, MessageRows
  <2>3. \/ sender' = [sender EXCEPT ![t] = [sender[t] EXCEPT !.stage = "read", !.msg = m]]
        \/ sender' = sender
    BY <1>1, <1>b DEF CreateMessage, SendMessage, SenderTypes
  <2> QED  BY <2>1, <2>2, <2>3, <1>m, <1>b, LateMove, LateSame
<1>2. ASSUME NEW t \in Senders, ProcessDue(t)  PROVE LateKnown'
  <2>1. message' = message /\ late' = late  BY <1>2 DEF ProcessDue
  <2>2. PICK rows : /\ \A m \in rows : Row(m) = "queued"
                    /\ sender' = [sender EXCEPT ![t].stage = "next", ![t].timer = TRUE, ![t].todo = rows]
    BY <1>2 DEF ProcessDue
  <2> DEFINE s == [sender[t] EXCEPT !.stage = "next", !.timer = TRUE, !.todo = rows]
  <2>3. sender' = [sender EXCEPT ![t] = s]  BY <2>2, <1>b DEF SenderTypes
  <2>4. \A m : Engaged(s, m) => Row(m) = "queued"  BY <2>2, <1>e DEF Engaged, SenderRows
  <2> HIDE DEF s
  <2> QED  BY <2>1, <2>3, <2>4, <1>b, <1>i, LateMove DEF Row
<1>3. ASSUME NEW t \in Senders, NextRow(t)  PROVE LateKnown'
  <2>1. message' = message /\ late' = late  BY <1>3 DEF NextRow
  <2>2. PICK x \in sender[t].todo :
       sender' = [sender EXCEPT ![t].todo = @ \ {x},
         ![t].stage = IF x \in Messages THEN "read" ELSE "claim",
         ![t].msg = IF x \in Messages THEN x ELSE NoItem,
         ![t].camp = IF x \in Messages THEN NoItem ELSE x]
    BY <1>3 DEF NextRow
  <2> DEFINE s == [sender[t] EXCEPT !.todo = sender[t].todo \ {x},
                      !.stage = IF x \in Messages THEN "read" ELSE "claim",
                      !.msg = IF x \in Messages THEN x ELSE NoItem,
                      !.camp = IF x \in Messages THEN NoItem ELSE x]
  <2>3. sender' = [sender EXCEPT ![t] = s]  BY <2>2, <1>b DEF SenderTypes
  <2>4. \A m : Engaged(s, m) => m \in sender[t].todo
    <3>1. /\ s.todo \subseteq sender[t].todo
          /\ x \in Messages => s.msg = x
          /\ x \notin Messages => s.stage = "claim"
      BY <1>e DEF SenderRows
    <3> HIDE DEF s
    <3> QED  BY <3>1, <2>2 DEF Engaged
  <2>5. \A m : Engaged(s, m) => Engaged(sender[t], m)  BY <2>4 DEF Engaged
  <2> HIDE DEF s
  <2> QED  BY <2>1, <2>3, <2>5, <1>b, <1>i, LateMove
<1>4. ASSUME NEW t \in Senders, ReadMessage(t)  PROVE LateKnown'
  <2>1. sender[t].stage = "read" /\ message' = message  BY <1>4 DEF ReadMessage, Is
  <2>2. CASE Refuses(sender[t].msg)
    BY <2>1, <2>2, <1>4, StageNames, LateThrow DEF ReadMessage
  <2>3. CASE ~Refuses(sender[t].msg)
    <3>1. Go(t, "mark") /\ late' = late  BY <2>3, <1>4 DEF ReadMessage
    <3>2. \A m \in Messages : /\ message'[m].status = "cancelled"
                              /\ Engaged([sender[t] EXCEPT !.stage = "mark"], m)
                              => Engaged(sender[t], m)
      BY <2>1, <2>3, <1>e DEF Engaged, Refuses, Row, SenderRows
    <3> QED  BY <3>1, <3>2, <2>1, <1>b, <1>i, LateGo
  <2> QED  BY <2>2, <2>3
<1>5. ASSUME NEW t \in Senders, MarkSending(t)  PROVE LateKnown'
  <2>1. /\ late' = late /\ sender[t].stage = "mark"
        /\ message' = [message EXCEPT ![sender[t].msg].status = "sending"]
    BY <1>5 DEF MarkSending, Is
  <2>2. \A m \in Messages : message'[m].status = "cancelled" => Row(m) = "cancelled"
    BY <2>1, <1>b DEF Row, MessageRows
  <2> DEFINE s == [sender[t] EXCEPT !.stage = "push", !.result = "failed"]
  <2>3. sender' = [sender EXCEPT ![t] = s]  BY <1>5, <1>b DEF MarkSending, SenderTypes
  <2>4. \A m : Engaged(s, m) => Engaged(sender[t], m)  BY <2>1, <1>e DEF Engaged, SenderRows
  <2> HIDE DEF s
  <2> QED  BY <2>1, <2>2, <2>3, <2>4, <1>b, LateMove
<1>6. ASSUME NEW t \in Senders, Deliver(t)  PROVE LateKnown'
  <2>1. message' = message /\ late' = late  BY <1>6 DEF Deliver
  <2>2. PICK result : sender' = [sender EXCEPT ![t].result = result]  BY <1>6 DEF Deliver
  <2> DEFINE s == [sender[t] EXCEPT !.result = result]
  <2>3. sender' = [sender EXCEPT ![t] = s]  BY <2>2, <1>b DEF SenderTypes
  <2>4. \A m : Engaged(s, m) => Engaged(sender[t], m)  BY <1>e DEF Engaged, SenderRows
  <2> HIDE DEF s
  <2> QED  BY <2>1, <2>3, <2>4, <1>b, <1>i, LateMove
<1>23. ASSUME NEW t \in Senders, EndPush(t)  PROVE LateKnown'
  <2>1. message' = message /\ late' = late /\ sender[t].stage = "push" /\ Go(t, "outcome")
    BY <1>23 DEF EndPush, Is
  <2>2. \A m : Engaged([sender[t] EXCEPT !.stage = "outcome"], m) => Engaged(sender[t], m)
    BY <2>1, <1>e DEF Engaged, SenderRows
  <2> QED  BY <2>1, <2>2, <1>b, <1>i, LateGo
<1>7. ASSUME NEW t \in Senders, WriteOutcome(t)  PROVE LateKnown'
  <2>1. /\ Go(t, "audit") /\ late' = late /\ sender[t].stage = "outcome"
        /\ message' = [message EXCEPT ![sender[t].msg].status = sender[t].result]
    BY <1>7 DEF WriteOutcome, Is
  <2>r. sender[t].result # "cancelled"  BY <1>e DEF SenderRows, Outcomes
  <2>2. \A m \in Messages : message'[m].status = "cancelled" => Row(m) = "cancelled"
    BY <2>1, <2>r, <1>b DEF Row, MessageRows
  <2>3. \A m : Engaged([sender[t] EXCEPT !.stage = "audit"], m) => Engaged(sender[t], m)
    BY <2>1, <1>e DEF Engaged, SenderRows
  <2> QED  BY <2>1, <2>2, <2>3, <1>b, LateGo
<1>8. ASSUME NEW t \in Senders, AuditMessage(t)  PROVE LateKnown'
  <2>1. message' = message /\ ((Go(t, "result") /\ late' = late) \/ End(t))
    BY <1>8 DEF AuditMessage
  <2>2. \A m : Engaged([sender[t] EXCEPT !.stage = "result"], m) => Engaged(sender[t], m)
    BY <1>e DEF Engaged, SenderRows
  <2> QED  BY <2>1, <2>2, <1>b, <1>i, LateGo, LateEnd
<1>9. ASSUME NEW t \in Senders, Caught(t)  PROVE LateKnown'
  <2>1. \A m \in Messages : message'[m].status = "cancelled" => Row(m) = "cancelled"
    BY <1>9, <1>b DEF Caught, CaughtFailed, Row, MessageRows
  <2> QED  BY <2>1, <1>9, LateEnd DEF Caught
<1>10. ASSUME NEW t \in Senders, NEW c \in CampaignIds, CreateCampaign(t, c) \/ SendCampaign(t, c)
       PROVE  LateKnown'
  <2>1. message' = message /\ late' = late /\ sender[t].stage = "idle"
    BY <1>10 DEF CreateCampaign, SendCampaign, Is
  <2>2. \/ sender' = [sender EXCEPT ![t] = [sender[t] EXCEPT !.stage = "claim", !.camp = c]]
        \/ sender' = sender
    BY <1>10, <1>b DEF CreateCampaign, SendCampaign, SenderTypes
  <2> DEFINE s == [sender[t] EXCEPT !.stage = "claim", !.camp = c]
  <2>3. \A m : Engaged(s, m) => Engaged(sender[t], m)  BY <2>1, <1>e DEF Engaged, SenderRows
  <2>4. sender' = [sender EXCEPT ![t] = s] \/ sender' = sender  BY <2>2
  <2> HIDE DEF s
  <2> QED  BY <2>1, <2>3, <2>4, <1>b, <1>i, LateMove, LateSame
<1>11. ASSUME NEW t \in Senders, ProcessCampaigns(t)  PROVE LateKnown'
  <2>1. message' = message /\ late' = late /\ Go(t, "select")  BY <1>11 DEF ProcessCampaigns
  <2>2. \A m : Engaged([sender[t] EXCEPT !.stage = "select"], m) => Engaged(sender[t], m)
    BY <1>e DEF Engaged, SenderRows
  <2> QED  BY <2>1, <2>2, <1>b, <1>i, LateGo
<1>12. ASSUME NEW t \in Senders, SelectCampaigns(t)  PROVE LateKnown'
  <2>1. message' = message /\ late' = late  BY <1>12 DEF SelectCampaigns
  <2>2. PICK rows \in SUBSET CampaignIds :
          sender' = [sender EXCEPT ![t] = IF rows = {} THEN NoSend
                       ELSE [NoSend EXCEPT !.stage = "next", !.timer = TRUE, !.todo = rows]]
    BY <1>12 DEF SelectCampaigns
  <2> DEFINE s == IF rows = {} THEN NoSend
                  ELSE [NoSend EXCEPT !.stage = "next", !.timer = TRUE, !.todo = rows]
  <2>3. \A m \in Messages : ~Engaged(s, m)
    BY <2>2, CampaignAssumption DEF Engaged, NoSend
  <2>4. sender' = [sender EXCEPT ![t] = s]  BY <2>2
  <2> HIDE DEF s
  <2> QED  BY <2>1, <2>3, <2>4, <1>b, <1>i, LateMove
<1>13. ASSUME NEW t \in Senders, ClaimCampaign(t)  PROVE LateKnown'
  <2>1. /\ message' = message
        /\ \/ (Go(t, "insert") \/ Go(t, "mail")) /\ late' = late
           \/ End(t)
    BY <1>13 DEF ClaimCampaign
  <2>2. \A m : /\ Engaged([sender[t] EXCEPT !.stage = "insert"], m) => Engaged(sender[t], m)
               /\ Engaged([sender[t] EXCEPT !.stage = "mail"], m) => Engaged(sender[t], m)
    BY <1>e DEF Engaged, SenderRows
  <2> QED  BY <2>1, <2>2, <1>b, <1>i, LateGo, LateEnd
<1>14. ASSUME NEW t \in Senders, InsertMessage(t)  PROVE LateKnown'
  <2>1. PICK m \in Messages :
          /\ message' = [message EXCEPT ![m] = [status |-> "queued", due |-> TRUE, camp |-> sender[t].camp]]
          /\ sender' = [sender EXCEPT ![t] = [sender[t] EXCEPT !.stage = "read", !.msg = m]]
    BY <1>14, <1>b DEF InsertMessage, SenderTypes
  <2> DEFINE s == [sender[t] EXCEPT !.stage = "read", !.msg = m]
  <2>2. \A k \in Messages : message'[k].status = "cancelled" => Row(k) = "cancelled" /\ k # m
    BY <2>1, <1>b DEF Row
  <2>3. \A k \in Messages : Engaged(s, k) /\ k # m => Engaged(sender[t], k)
    BY <1>e DEF Engaged, SenderRows
  <2>4. sender' = [sender EXCEPT ![t] = s] /\ late' = late  BY <2>1, <1>14 DEF InsertMessage
  <2> HIDE DEF s
  <2> QED  BY <2>2, <2>3, <2>4, <1>b, LateMove
<1>15. ASSUME NEW t \in Senders, Mail(t)  PROVE LateKnown'
  <2>1. message' = message /\ late' = late  BY <1>15 DEF Mail
  <2>2. PICK result : sender' = [sender EXCEPT ![t].stage = "result", ![t].result = result]
    BY <1>15 DEF Mail
  <2> DEFINE s == [sender[t] EXCEPT !.stage = "result", !.result = result]
  <2>3. sender' = [sender EXCEPT ![t] = s]  BY <2>2, <1>b DEF SenderTypes
  <2>4. \A m : Engaged(s, m) => Engaged(sender[t], m)  BY <1>e DEF Engaged, SenderRows
  <2> HIDE DEF s
  <2> QED  BY <2>1, <2>3, <2>4, <1>b, <1>i, LateMove
<1>16. ASSUME NEW t \in Senders, WriteResult(t)  PROVE LateKnown'
  <2>1. message' = message /\ late' = late /\ Go(t, "closing")  BY <1>16 DEF WriteResult
  <2>2. \A m : Engaged([sender[t] EXCEPT !.stage = "closing"], m) => Engaged(sender[t], m)
    BY <1>e DEF Engaged, SenderRows
  <2> QED  BY <2>1, <2>2, <1>b, <1>i, LateGo
<1>17. ASSUME NEW t \in Senders, AuditCampaign(t) \/ CatchCampaign(t)  PROVE LateKnown'
  BY <1>17, <1>i, LateEnd DEF AuditCampaign, CatchCampaign
<1>18. ASSUME NEW t \in Senders, StatementThrows(t)  PROVE LateKnown'
  <2>1. message' = message /\ Throw(t)  BY <1>18 DEF StatementThrows
  <2>2. sender[t].stage \in WithMessage \cup WithCampaign
    BY <1>18, StageNames DEF StatementThrows, WithCampaign
  <2>3. NoItem \notin CampaignIds /\ Fits(sender[t])  BY <1>e, CampaignAssumption
  <2>4. sender[t].camp = NoItem => sender[t].stage \in WithMessage  BY <2>2, <2>3 DEF Fits
  <2> QED  BY <2>1, <2>4, LateThrow
<1>19. ASSUME NEW t \in Senders, SenderDies(t)  PROVE LateKnown'
  <2>1. message' = message /\ sender' = [sender EXCEPT ![t] = NoSend]  BY <1>19 DEF SenderDies
  <2>2. \A m \in Messages : late'[m] = late[m] \ {t}  BY <1>19 DEF SenderDies
  <2>3. \A m \in Messages : ~Engaged(NoSend, m)  BY CampaignAssumption DEF Engaged, NoSend
  <2> QED  BY <2>1, <2>2, <2>3, <1>b, <1>i, LateMove
<1>20. ASSUME NEW m \in Messages, CancelMessage(m)  PROVE LateKnown'
  <2>1. /\ sender' = sender
        /\ message' = [message EXCEPT ![m].status = "cancelled"]
        /\ late' = [late EXCEPT ![m] = {t \in Senders : sender[t].msg = m \/ m \in sender[t].todo}]
    BY <1>20 DEF CancelMessage
  <2> SUFFICES ASSUME NEW k \in Messages, NEW t \in Senders,
                      message'[k].status = "cancelled", Engaged(sender[t], k)
               PROVE  t \in late'[k]
    BY <2>1 DEF LateKnown, Row
  <2>2. CASE k = m  BY <2>2, <2>1, <1>b DEF HistoryTypes, Engaged
  <2>3. CASE k # m  BY <2>3, <2>1, <1>b DEF HistoryTypes, LateKnown, Row
  <2> QED  BY <2>2, <2>3
<1>21. ASSUME NEW m \in Messages, MessageDue(m)  PROVE LateKnown'
  <2>1. sender' = sender /\ late' = late /\ message' = [message EXCEPT ![m].due = TRUE]
    BY <1>21 DEF MessageDue
  <2>2. \A k \in Messages : message'[k].status = "cancelled" => Row(k) = "cancelled"
    BY <2>1, <1>b DEF Row, MessageRows
  <2> QED  BY <2>1, <2>2, LateSame
<1>22. ASSUME NEW c \in CampaignIds, CancelCampaign(c) \/ CampaignDue(c) \/ QuarterHour(c)
       PROVE  LateKnown'
  BY <1>22, <1>i, LateSame DEF CancelCampaign, CampaignDue, QuarterHour
<1> QED
  BY <1>0, <1>1, <1>2, <1>3, <1>4, <1>5, <1>6, <1>7, <1>8, <1>9, <1>10, <1>11, <1>12, <1>13, <1>14,
     <1>15, <1>16, <1>17, <1>18, <1>19, <1>20, <1>21, <1>22, <1>23
     DEF CampaignNext, SendMessageSteps, SendCampaignSteps

LEMMA LateInit == CampaignInit => LateKnown
BY DEF CampaignInit, LateKnown, Row

LEMMA LateHolds == CampaignSpec => []LateKnown
BY LateInit, LateStep, BaseHolds, PTL DEF CampaignSpec

\* What cancel() answered holds for every sender that comes to the message
\* later: only one that had it in hand, or in its list, still changes the row.
THEOREM CancelledStaysCancelled == CampaignSpec => CancelHoldsForLaterSenders
<1> DEFINE Late(m) == \E t \in late[m] : sender[t].msg = m /\ sender'[t] # sender[t]
<1>1. ASSUME Base, LateKnown, [CampaignNext]_campaignVars
      PROVE  [\A m \in Messages : Row(m) = "cancelled" /\ message'[m].status # "cancelled"
                => Late(m)]_campaignVars
  <2> SUFFICES ASSUME CampaignNext, NEW m \in Messages,
                      Row(m) = "cancelled", message'[m].status # "cancelled"
               PROVE  Late(m)
    BY <1>1
  <2>b. SenderTypes /\ message \in [Messages -> MessageRows]  BY <1>1 DEF Base, RowTypes
  <2>1. ASSUME NEW t \in Senders, sender[t].msg = m,
               sender[t].stage \in {"mark", "outcome", "caught"}, sender'[t].stage # sender[t].stage
        PROVE  Late(m)
    <3>1. t \in late[m]  BY <2>1, <1>1 DEF LateKnown, Engaged
    <3>2. sender'[t] # sender[t]  BY <2>1
    <3> QED  BY <2>1, <3>1, <3>2
  <2> HIDE DEF Late
  <2>2. ASSUME NEW t \in Senders, MarkSending(t) \/ WriteOutcome(t)  PROVE Late(m)
    <3>1. /\ sender[t].stage \in {"mark", "outcome"}
          /\ sender[t].msg = m
      BY <2>2, <2>b DEF MarkSending, WriteOutcome, Is, Row
    <3>2. sender'[t].stage # sender[t].stage
      BY <2>2, <2>b DEF MarkSending, WriteOutcome, Is, Go, SenderTypes, SenderRows
    <3> QED  BY <3>1, <3>2, <2>1
  <2>3. ASSUME NEW t \in Senders, Caught(t)  PROVE Late(m)
    <3>1. sender[t].stage = "caught" /\ sender[t].msg = m
      BY <2>3, <2>b DEF Caught, CaughtFailed, Is, Row
    <3>2. sender'[t] = Finished(t)  BY <2>3, <2>b DEF Caught, End, SenderTypes
    <3>3. Finished(t).stage \in {"idle", "next"}  BY DEF Finished, NoSend
    <3> QED  BY <3>1, <3>2, <3>3, <2>1
  <2>4. ASSUME NEW t \in Senders, NEW k \in Messages, CreateMessage(t, k)  PROVE Late(m)
    BY <2>4, <2>b DEF CreateMessage, Row
  <2>5. ASSUME NEW t \in Senders, InsertMessage(t)  PROVE Late(m)
    BY <2>5, <2>b DEF InsertMessage, Row
  <2>6. ASSUME NEW k \in Messages, CancelMessage(k) \/ MessageDue(k)  PROVE Late(m)
    BY <2>6, <2>b DEF CancelMessage, MessageDue, Row, MessageRows
  <2>7. CASE message' = message  BY <2>7 DEF Row
  <2> QED
    BY <2>2, <2>3, <2>4, <2>5, <2>6, <2>7, ZenonT(60)
       DEF CampaignNext, SendMessageSteps, SendCampaignSteps, SendMessage, ProcessDue, NextRow,
           ReadMessage, Deliver, EndPush, AuditMessage, CreateCampaign, SendCampaign, ProcessCampaigns,
           SelectCampaigns, ClaimCampaign, Mail, WriteResult, AuditCampaign, CatchCampaign,
           StatementThrows, SenderDies, CancelCampaign, CampaignDue, QuarterHour
<1> QED  BY <1>1, BaseHolds, LateHolds, PTL DEF CampaignSpec, CancelHoldsForLaterSenders

-----------------------------------------------------------------------------
(* HostingDeployments                                                       *)

HostingRows == [status : {"absent", "uploading", "ready", "active", "superseded", "failed"},
                manifest : SUBSET SiteFiles]
HostingRecords == [stage : {"idle", "setready", "lookup", "supersede", "commit", "log", "fail"} \cup FileStages,
                   id : Deployments \cup {NoDeployment}, file : SiteFiles,
                   seen : SUBSET (SiteFiles \cup Deployments), activate : BOOLEAN, deploy : BOOLEAN]

LEMMA HostingTyped ==
  HostingTypeOK <=>
    /\ deployment \in [Deployments -> HostingRows]
    /\ stored \in [Deployments -> SUBSET SiteFiles]
    /\ site \in [on : BOOLEAN, names : Deployments \cup {NoDeployment}]
    /\ hosting \in [HostingCalls -> HostingRecords]
    /\ mixed \subseteq Deployments /\ undone \subseteq Deployments /\ hostingFaults \in Nat
BY DEF HostingTypeOK, HostingRows, HostingRecords

\* What a visitor needs of a deployment.
Complete(d) == IndexFile \in deployment[d].manifest /\ deployment[d].manifest \subseteq stored[d]

\* A request that writes files of a deployment.
Filing(r, d) == hosting[r].id = d /\ hosting[r].stage \in FileStages

\* A request works on a deployment that was started.
WorksOnStarted ==
  \A r \in HostingCalls : hosting[r].stage # "idle" =>
    hosting[r].id \in Deployments /\ State(hosting[r].id) # "absent"

\* What a request has listed lies in the storage.
ListedIsStored ==
  /\ \A d \in Deployments : deployment[d].manifest \subseteq stored[d]
  /\ \A r \in HostingCalls :
       /\ hosting[r].stage \in FileStages => hosting[r].seen \subseteq stored[hosting[r].id]
       /\ hosting[r].stage = "write" => hosting[r].file \in stored[hosting[r].id]
       /\ hosting[r].stage = "publish" => hosting[r].seen = SiteFiles

\* Unless two requests have written files of a deployment, one at most does,
\* and a file is added to the list as it is.
OneWriter ==
  \A d \in Deployments \ mixed :
    /\ \A r, q \in HostingCalls : Filing(r, d) /\ Filing(q, d) => r = q
    /\ \A r \in HostingCalls : hosting[r].id = d /\ hosting[r].stage \in {"put", "write"} =>
         hosting[r].seen = deployment[d].manifest

\* A deployment is served, or about to be, once it is complete.
ServedIsComplete ==
  \A d \in Deployments \ mixed :
    /\ Served(d) => IndexFile \in deployment[d].manifest
    /\ \A r \in HostingCalls : hosting[r].id = d /\ hosting[r].stage \in {"setready", "supersede", "commit"} =>
         IndexFile \in deployment[d].manifest

NamedIsServed == site.names \notin mixed \cup undone \cup {NoDeployment} => Served(site.names)

HostingInv ==
  /\ HostingTypeOK /\ WorksOnStarted /\ ListedIsStored
  /\ OneWriter /\ ServedIsComplete /\ NamedIsServed

LEMMA HostingInvInit == HostingInit => HostingInv
<1> SUFFICES ASSUME HostingInit  PROVE HostingInv
  OBVIOUS
<1>1. \A r \in HostingCalls : hosting[r] = NoHosting  BY DEF HostingInit
<1>2. \A d \in Deployments : State(d) = "absent" /\ deployment[d].manifest = {}
  BY DEF HostingInit, State
<1>3. NoHosting \in HostingRecords
  BY HostingAssumption DEF HostingAssumption, NoHosting, HostingRecords, FileStages
<1>4. HostingTypeOK
  BY <1>3, HostingTyped DEF HostingInit, HostingRows
<1>5. WorksOnStarted /\ ListedIsStored /\ OneWriter
  BY <1>1, <1>2 DEF WorksOnStarted, ListedIsStored, OneWriter, Filing, NoHosting, FileStages
<1>6. ServedIsComplete /\ NamedIsServed
  BY <1>1, <1>2 DEF ServedIsComplete, NamedIsServed, Served, NoHosting, HostingInit
<1> QED  BY <1>4, <1>5, <1>6 DEF HostingInv

\* What one step does to the requests: one of them changes.
LEMMA OneRequestMoves ==
  ASSUME HostingTypeOK, NEW r \in HostingCalls, NEW h \in HostingRecords,
         hosting' = [hosting EXCEPT ![r] = h]
  PROVE  /\ hosting' \in [HostingCalls -> HostingRecords]
         /\ hosting'[r] = h /\ \A q \in HostingCalls \ {r} : hosting'[q] = hosting[q]
BY HostingTyped

LEMMA HostingMoves ==
  ASSUME HostingTypeOK, NEW r \in HostingCalls
  PROVE  /\ \A s \in {"idle", "setready", "lookup", "supersede", "commit", "log", "fail"} \cup FileStages :
              HostingGo(r, s) => \E h \in HostingRecords :
                /\ hosting' = [hosting EXCEPT ![r] = h]
                /\ h.stage = s /\ h.id = hosting[r].id /\ h.file = hosting[r].file
                /\ h.seen = hosting[r].seen
         /\ HostingEnd(r) => \E h \in HostingRecords :
              hosting' = [hosting EXCEPT ![r] = h] /\ h.stage = "idle"
         /\ HostingError(r) => \E h \in HostingRecords :
              /\ hosting' = [hosting EXCEPT ![r] = h]
              /\ h.stage = "idle" \/ (h.stage = "fail" /\ h.id = hosting[r].id)
<1>1. ASSUME NEW s \in {"idle", "setready", "lookup", "supersede", "commit", "log", "fail"} \cup FileStages,
             HostingGo(r, s)
      PROVE  \E h \in HostingRecords :
                /\ hosting' = [hosting EXCEPT ![r] = h]
                /\ h.stage = s /\ h.id = hosting[r].id /\ h.file = hosting[r].file
                /\ h.seen = hosting[r].seen
  <2>1. hosting[r] \in HostingRecords /\ hosting \in [HostingCalls -> HostingRecords]  BY HostingTyped
  <2>2. [hosting[r] EXCEPT !.stage = s] \in HostingRecords  BY <2>1 DEF HostingRecords
  <2>3. hosting' = [hosting EXCEPT ![r] = [hosting[r] EXCEPT !.stage = s]]  BY <1>1 DEF HostingGo
  <2>4. /\ [hosting[r] EXCEPT !.stage = s].stage = s
        /\ [hosting[r] EXCEPT !.stage = s].id = hosting[r].id
        /\ [hosting[r] EXCEPT !.stage = s].file = hosting[r].file
        /\ [hosting[r] EXCEPT !.stage = s].seen = hosting[r].seen
    BY <2>1 DEF HostingRecords
  <2> QED  BY <2>2, <2>3, <2>4
<1>2. NoHosting \in HostingRecords /\ NoHosting.stage = "idle"
  BY HostingAssumption DEF HostingAssumption, NoHosting, HostingRecords, FileStages
<1>3. HostingEnd(r) => hosting' = [hosting EXCEPT ![r] = NoHosting]  BY DEF HostingEnd
<1>4. HostingError(r) => HostingGo(r, "fail") \/ HostingEnd(r)  BY DEF HostingError
<1>5. "fail" \in {"idle", "setready", "lookup", "supersede", "commit", "log", "fail"} \cup FileStages
  OBVIOUS
<1>6. ASSUME HostingError(r)
      PROVE  \E h \in HostingRecords :
               /\ hosting' = [hosting EXCEPT ![r] = h]
               /\ h.stage = "idle" \/ (h.stage = "fail" /\ h.id = hosting[r].id)
  <2>1. CASE HostingGo(r, "fail")  BY <1>1, <1>5, <2>1
  <2>2. CASE HostingEnd(r)  BY <1>2, <1>3, <2>2
  <2> QED  BY <1>4, <1>6, <2>1, <2>2
<1> QED  BY <1>1, <1>2, <1>3, <1>6

\* What a step of one request may do to the deployments and become itself.
LEMMA HostingStepKeeps ==
  ASSUME HostingInv, NEW r \in HostingCalls, NEW h \in HostingRecords,
         hosting' = [hosting EXCEPT ![r] = h],
         deployment' \in [Deployments -> HostingRows],
         stored' \in [Deployments -> SUBSET SiteFiles],
         site' \in [on : BOOLEAN, names : Deployments \cup {NoDeployment}],
         mixed \subseteq mixed', mixed' \subseteq Deployments, undone' \subseteq Deployments,
         hostingFaults' \in Nat,
         \A d \in Deployments :
           /\ State(d) # "absent" => State(d)' # "absent"
           /\ stored[d] \subseteq stored'[d] /\ deployment'[d].manifest \subseteq stored'[d],
         \A d \in Deployments \ mixed' :
           /\ IndexFile \in deployment[d].manifest => IndexFile \in deployment'[d].manifest
           /\ deployment'[d].manifest = deployment[d].manifest
              \/ (Filing(r, d) /\ ~(h.id = d /\ h.stage \in FileStages))
           /\ Served(d)' => IndexFile \in deployment'[d].manifest,
         NamedIsServed',
         h.stage # "idle" => h.id \in Deployments /\ State(h.id)' # "absent",
         h.stage \in FileStages => h.seen \subseteq stored'[h.id],
         h.stage = "write" => h.file \in stored'[h.id],
         h.stage = "publish" => h.seen = SiteFiles,
         h.id \notin mixed' /\ h.stage \in FileStages =>
           Filing(r, h.id) \/ \A q \in HostingCalls : ~Filing(q, h.id),
         h.id \notin mixed' /\ h.stage \in {"put", "write"} => h.seen = deployment'[h.id].manifest,
         h.id \notin mixed' /\ h.stage \in {"setready", "supersede", "commit"} =>
           IndexFile \in deployment'[h.id].manifest
  PROVE  HostingInv'
<1>1. /\ hosting' \in [HostingCalls -> HostingRecords]
      /\ hosting'[r] = h /\ \A q \in HostingCalls \ {r} : hosting'[q] = hosting[q]
  BY OneRequestMoves DEF HostingInv
<1>2. HostingTypeOK'  BY <1>1 DEF HostingTypeOK, HostingRows, HostingRecords
<1>3. WorksOnStarted'
  BY <1>1 DEF HostingInv, WorksOnStarted
<1>4. ListedIsStored'
  <2>1. ASSUME NEW q \in HostingCalls \ {r}
        PROVE  /\ hosting[q].stage \in FileStages => hosting[q].seen \subseteq stored'[hosting[q].id]
               /\ hosting[q].stage = "write" => hosting[q].file \in stored'[hosting[q].id]
               /\ hosting[q].stage = "publish" => hosting[q].seen = SiteFiles
    BY DEF HostingInv, ListedIsStored, WorksOnStarted, FileStages
  <2> QED  BY <1>1, <2>1 DEF ListedIsStored
<1>5. OneWriter'
  <2> SUFFICES ASSUME NEW d \in Deployments \ mixed'
               PROVE  /\ \A p, q \in HostingCalls : Filing(p, d)' /\ Filing(q, d)' => p = q
                      /\ \A q \in HostingCalls : hosting'[q].id = d /\ hosting'[q].stage \in {"put", "write"} =>
                           hosting'[q].seen = deployment'[d].manifest
    BY DEF OneWriter
  <2>1. \A q \in HostingCalls \ {r} : Filing(q, d)' <=> Filing(q, d)  BY <1>1 DEF Filing
  <2>2. Filing(r, d)' <=> h.id = d /\ h.stage \in FileStages  BY <1>1 DEF Filing
  <2>3. \A p, q \in HostingCalls : Filing(p, d) /\ Filing(q, d) => p = q
    BY DEF HostingInv, OneWriter
  <2>4. \A q \in HostingCalls : hosting[q].id = d /\ hosting[q].stage \in {"put", "write"} =>
                           hosting[q].seen = deployment[d].manifest /\ Filing(q, d)
    BY DEF HostingInv, OneWriter, Filing, FileStages
  <2>5. \A p, q \in HostingCalls : Filing(p, d)' /\ Filing(q, d)' => p = q
    BY <2>1, <2>2, <2>3
  <2>6. ASSUME NEW q \in HostingCalls \ {r}, hosting[q].id = d, hosting[q].stage \in {"put", "write"}
        PROVE  hosting[q].seen = deployment'[d].manifest
    BY <2>6, <2>3, <2>4
  <2> QED  BY <1>1, <2>5, <2>6
<1>6. ServedIsComplete'
  <2> SUFFICES ASSUME NEW d \in Deployments \ mixed'
               PROVE  \A q \in HostingCalls :
                        hosting'[q].id = d /\ hosting'[q].stage \in {"setready", "supersede", "commit"} =>
                          IndexFile \in deployment'[d].manifest
    BY DEF ServedIsComplete
  <2> QED  BY <1>1 DEF HostingInv, ServedIsComplete
<1> QED  BY <1>2, <1>3, <1>4, <1>5, <1>6 DEF HostingInv

\* A step that leaves the deployments, the storage and the site alone.
LEMMA HostingQuiet ==
  ASSUME HostingInv, NEW r \in HostingCalls, NEW h \in HostingRecords,
         hosting' = [hosting EXCEPT ![r] = h],
         UNCHANGED <<deployment, stored, site, undone>>,
         mixed \subseteq mixed', mixed' \subseteq Deployments, hostingFaults' \in Nat,
         h.stage # "idle" => h.id \in Deployments /\ State(h.id) # "absent",
         h.stage \in FileStages => h.seen \subseteq stored[h.id],
         h.stage = "write" => h.file \in stored[h.id],
         h.stage = "publish" => h.seen = SiteFiles,
         h.id \notin mixed' /\ h.stage \in FileStages =>
           Filing(r, h.id) \/ \A q \in HostingCalls : ~Filing(q, h.id),
         h.id \notin mixed' /\ h.stage \in {"put", "write"} => h.seen = deployment[h.id].manifest,
         h.id \notin mixed' /\ h.stage \in {"setready", "supersede", "commit"} =>
           IndexFile \in deployment[h.id].manifest
  PROVE  HostingInv'
<1>1. /\ deployment' \in [Deployments -> HostingRows] /\ stored' \in [Deployments -> SUBSET SiteFiles]
      /\ site' \in [on : BOOLEAN, names : Deployments \cup {NoDeployment}] /\ undone' \subseteq Deployments
  BY HostingTyped DEF HostingInv
<1>2. /\ \A d \in Deployments : deployment[d].manifest \subseteq stored[d]
      /\ \A d \in Deployments \ mixed : Served(d) => IndexFile \in deployment[d].manifest
  BY DEF HostingInv, ListedIsStored, ServedIsComplete
<1>3. \A d \in Deployments : State(d)' = State(d) /\ (Served(d)' <=> Served(d))
  BY DEF State, Served
<1>4. NamedIsServed'  BY DEF HostingInv, NamedIsServed, Served, State
<1>5. \A d \in Deployments : State(d) # "absent" => State(d)' # "absent"  BY <1>3
<1>6. h.stage # "idle" => h.id \in Deployments /\ State(h.id)' # "absent"  BY <1>3
<1>7. \A d \in Deployments :
        /\ State(d) # "absent" => State(d)' # "absent"
        /\ stored[d] \subseteq stored'[d] /\ deployment'[d].manifest \subseteq stored'[d]
  BY <1>2, <1>5
<1>8. \A d \in Deployments \ mixed' :
        /\ IndexFile \in deployment[d].manifest => IndexFile \in deployment'[d].manifest
        /\ deployment'[d].manifest = deployment[d].manifest
           \/ (Filing(r, d) /\ ~(h.id = d /\ h.stage \in FileStages))
        /\ Served(d)' => IndexFile \in deployment'[d].manifest
  <2>1. deployment' = deployment  OBVIOUS
  <2>2. \A d \in Deployments : deployment'[d].manifest = deployment[d].manifest  BY <2>1
  <2>3. \A d \in Deployments \ mixed' : Served(d)' => IndexFile \in deployment'[d].manifest
    BY <1>2, <1>3, <2>2
  <2> QED  BY <2>2, <2>3
<1>9. /\ h.stage \in FileStages => h.seen \subseteq stored'[h.id]
      /\ h.stage = "write" => h.file \in stored'[h.id]
      /\ h.id \notin mixed' /\ h.stage \in {"put", "write"} => h.seen = deployment'[h.id].manifest
      /\ h.id \notin mixed' /\ h.stage \in {"setready", "supersede", "commit"} =>
           IndexFile \in deployment'[h.id].manifest
  OBVIOUS
<1> QED
  BY <1>1, <1>4, <1>6, <1>7, <1>8, <1>9, HostingStepKeeps

LEMMA NoHostingTyped == NoHosting \in HostingRecords /\ NoHosting.stage = "idle" /\ NoHosting.id = NoDeployment
BY HostingAssumption DEF HostingAssumption, NoHosting, HostingRecords, FileStages

LEMMA MixesKeeps ==
  ASSUME HostingInv, NEW d \in Deployments, Mixes(d)
  PROVE  /\ mixed \subseteq mixed' /\ mixed' \subseteq Deployments
         /\ d \notin mixed' => \A q \in HostingCalls : ~Filing(q, d)
BY HostingTyped DEF HostingInv, Mixes, Filing

LEMMA UploadFileKeeps ==
  ASSUME HostingInv, NEW r \in HostingCalls, NEW d \in Deployments, NEW f \in SiteFiles,
         UploadFile(r, d, f)
  PROVE  HostingInv'
<1> DEFINE h == [NoHosting EXCEPT !.stage = "put", !.id = d, !.file = f, !.seen = deployment[d].manifest]
<1>1. deployment[d].manifest \subseteq SiteFiles  BY HostingTyped DEF HostingInv, HostingRows
<1>2. h \in HostingRecords  BY <1>1, NoHostingTyped DEF HostingRecords, FileStages
<1>3. h.stage = "put" /\ h.id = d /\ h.seen = deployment[d].manifest  BY NoHostingTyped DEF HostingRecords
<1>4. /\ mixed \subseteq mixed' /\ mixed' \subseteq Deployments
      /\ d \notin mixed' => \A q \in HostingCalls : ~Filing(q, d)
  BY MixesKeeps DEF UploadFile
<1>5. /\ hosting' = [hosting EXCEPT ![r] = h] /\ UNCHANGED <<deployment, stored, site, undone>>
      /\ hostingFaults' \in Nat /\ State(d) # "absent"
  BY HostingTyped DEF HostingInv, UploadFile
<1>6. deployment[d].manifest \subseteq stored[d]  BY DEF HostingInv, ListedIsStored
<1> HIDE DEF h
<1> QED  BY <1>2, <1>3, <1>4, <1>5, <1>6, HostingQuiet

LEMMA FinalizeReadKeeps ==
  ASSUME HostingInv, NEW r \in HostingCalls, NEW d \in Deployments, FinalizeRead(r, d)
  PROVE  HostingInv'
<1> PICK activate \in BOOLEAN :
      hosting' = [hosting EXCEPT ![r] = [NoHosting EXCEPT
         !.stage = "setready", !.id = d, !.activate = activate]]
  BY DEF FinalizeRead
<1> DEFINE h == [NoHosting EXCEPT !.stage = "setready", !.id = d, !.activate = activate]
<1>2. h \in HostingRecords  BY NoHostingTyped DEF HostingRecords, FileStages
<1>3. h.stage = "setready" /\ h.id = d  BY NoHostingTyped DEF HostingRecords
<1>4. mixed \subseteq mixed' /\ mixed' \subseteq Deployments
  BY MixesKeeps DEF FinalizeRead
<1>5. /\ hosting' = [hosting EXCEPT ![r] = h] /\ UNCHANGED <<deployment, stored, site, undone>>
      /\ hostingFaults' \in Nat /\ State(d) # "absent" /\ IndexFile \in deployment[d].manifest
  BY HostingTyped DEF HostingInv, FinalizeRead, Finalizable
<1>6. "setready" \notin FileStages  BY DEF FileStages
<1> HIDE DEF h
<1> QED  BY <1>2, <1>3, <1>4, <1>5, <1>6, HostingQuiet, ZenonT(60)

\* A request ends, or goes on to a stage that asks for nothing.
LEMMA HostingEnds ==
  ASSUME HostingInv, NEW r \in HostingCalls, NEW h \in HostingRecords,
         hosting' = [hosting EXCEPT ![r] = h],
         UNCHANGED <<deployment, stored, site, mixed, undone>>, hostingFaults' \in Nat,
         \/ h.stage = "idle"
         \/ /\ h.stage \in {"fail", "lookup", "log"}
            /\ h.id \in Deployments /\ State(h.id) # "absent"
  PROVE  HostingInv'
<1>1. h.stage \notin FileStages /\ h.stage \notin {"put", "write", "publish", "setready", "supersede", "commit"}
  BY DEF FileStages
<1>2. mixed \subseteq mixed' /\ mixed' \subseteq Deployments
  BY HostingTyped DEF HostingInv
<1>3. h.stage # "idle" => h.id \in Deployments /\ State(h.id) # "absent"  OBVIOUS
<1> QED  BY <1>1, <1>2, <1>3, HostingQuiet

LEMMA ActivateKeeps ==
  ASSUME HostingInv, NEW r \in HostingCalls, NEW d \in Deployments, Activate(r, d)
  PROVE  HostingInv'
<1> DEFINE h == [NoHosting EXCEPT !.stage = "lookup", !.id = d]
<1>1. h \in HostingRecords /\ h.stage = "lookup" /\ h.id = d  BY NoHostingTyped DEF HostingRecords
<1>2. /\ hosting' = [hosting EXCEPT ![r] = h] /\ UNCHANGED <<deployment, stored, site, mixed, undone>>
      /\ hostingFaults' \in Nat /\ State(d) # "absent"
  BY HostingTyped DEF HostingInv, Activate
<1> HIDE DEF h
<1> QED  BY <1>1, <1>2, HostingEnds

LEMMA ActivateLookupKeeps ==
  ASSUME HostingInv, NEW r \in HostingCalls, ActivateLookup(r)
  PROVE  HostingInv'
<1>1. /\ HostingTypeOK /\ UNCHANGED <<deployment, stored, site, mixed, undone>> /\ hostingFaults' \in Nat
      /\ hosting[r].id \in Deployments /\ State(hosting[r].id) # "absent"
  BY HostingTyped DEF HostingInv, ActivateLookup, HostingAt, WorksOnStarted
<1>2. CASE Activatable(hosting[r].id)
  <2>1. HostingGo(r, "supersede")  BY <1>2 DEF ActivateLookup
  <2>2. PICK h \in HostingRecords :
          /\ hosting' = [hosting EXCEPT ![r] = h]
          /\ h.stage = "supersede" /\ h.id = hosting[r].id
    BY <1>1, <2>1, HostingMoves
  <2>3. h.id \notin mixed => IndexFile \in deployment[h.id].manifest
    BY <1>1, <1>2, <2>2 DEF HostingInv, ServedIsComplete, Served, Activatable
  <2>4. h.stage \notin FileStages  BY <2>2 DEF FileStages
  <2>5. mixed \subseteq mixed' /\ mixed' \subseteq Deployments  BY <1>1, HostingTyped
  <2> QED  BY <1>1, <2>2, <2>3, <2>4, <2>5, HostingQuiet
<1>3. CASE ~Activatable(hosting[r].id)
  <2>1. HostingError(r)  BY <1>3 DEF ActivateLookup
  <2> QED  BY <1>1, <2>1, HostingMoves, HostingEnds
<1> QED  BY <1>2, <1>3

LEMMA ActivateSupersedeKeeps ==
  ASSUME HostingInv, NEW r \in HostingCalls, ActivateSupersede(r)
  PROVE  HostingInv'
<1> DEFINE h == [hosting[r] EXCEPT !.stage = "commit", !.seen = Superseded(hosting[r].id)]
<1>1. /\ hosting[r] \in HostingRecords /\ hosting \in [HostingCalls -> HostingRecords]
      /\ UNCHANGED <<deployment, stored, site, mixed, undone>> /\ hostingFaults' \in Nat
      /\ hosting[r].stage = "supersede"
      /\ hosting[r].id \in Deployments /\ State(hosting[r].id) # "absent"
      /\ mixed \subseteq mixed' /\ mixed' \subseteq Deployments
  BY HostingTyped DEF HostingInv, ActivateSupersede, HostingAt, WorksOnStarted
<1>2. Superseded(hosting[r].id) \subseteq Deployments  BY DEF Superseded
<1>3. h \in HostingRecords /\ h.stage = "commit" /\ h.id = hosting[r].id
  BY <1>1, <1>2 DEF HostingRecords
<1>4. hosting' = [hosting EXCEPT ![r] = h]  BY <1>1 DEF ActivateSupersede
<1>5. hosting[r].id \notin mixed => IndexFile \in deployment[hosting[r].id].manifest
  BY <1>1 DEF HostingInv, ServedIsComplete
<1>6. h.stage \notin FileStages  BY <1>3 DEF FileStages
<1> HIDE DEF h
<1> QED  BY <1>1, <1>3, <1>4, <1>5, <1>6, HostingQuiet

LEMMA HostingFailsKeeps ==
  ASSUME HostingInv, NEW r \in HostingCalls, ActivateAudit(r) \/ HostingFails(r)
  PROVE  HostingInv'
<1>1. /\ HostingTypeOK /\ UNCHANGED <<deployment, stored, site, mixed, undone>> /\ hostingFaults' \in Nat
      /\ hosting[r].stage # "idle" /\ hosting[r].id \in Deployments /\ State(hosting[r].id) # "absent"
  BY HostingTyped DEF HostingInv, ActivateAudit, HostingFails, HostingAt, WorksOnStarted
<1>2. HostingEnd(r) \/ HostingError(r)  BY DEF ActivateAudit, HostingFails
<1> QED  BY <1>1, <1>2, HostingMoves, HostingEnds

\* The row of one deployment changes.
LEMMA OneDeployment ==
  ASSUME HostingInv, NEW d \in Deployments, NEW w \in HostingRows,
         deployment' = [deployment EXCEPT ![d] = w]
  PROVE  /\ deployment' \in [Deployments -> HostingRows]
         /\ State(d)' = w.status /\ deployment'[d].manifest = w.manifest
         /\ Served(d)' <=> w.status \in {"ready", "active", "superseded"}
         /\ \A e \in Deployments \ {d} :
              /\ State(e)' = State(e) /\ deployment'[e].manifest = deployment[e].manifest
              /\ Served(e)' <=> Served(e)
BY HostingTyped DEF HostingInv, State, Served

LEMMA KnownOfHosting ==
  ASSUME HostingInv
  PROVE  /\ deployment \in [Deployments -> HostingRows]
         /\ stored \in [Deployments -> SUBSET SiteFiles]
         /\ site \in [on : BOOLEAN, names : Deployments \cup {NoDeployment}]
         /\ hosting \in [HostingCalls -> HostingRecords]
         /\ mixed \subseteq Deployments /\ undone \subseteq Deployments /\ hostingFaults \in Nat
         /\ \A d \in Deployments : deployment[d].manifest \subseteq stored[d]
         /\ \A d \in Deployments \ mixed : Served(d) => IndexFile \in deployment[d].manifest
         /\ \A r \in HostingCalls : hosting[r].stage # "idle" =>
              hosting[r].id \in Deployments /\ State(hosting[r].id) # "absent"
BY HostingTyped DEF HostingInv, ListedIsStored, ServedIsComplete, WorksOnStarted

\* The status of one deployment changes, and nothing it is made of.
LEMMA StatusChanges ==
  ASSUME HostingInv, NEW d \in Deployments,
         NEW s \in {"uploading", "ready", "active", "superseded", "failed"},
         deployment' = [deployment EXCEPT ![d].status = s]
  PROVE  /\ deployment' \in [Deployments -> HostingRows]
         /\ State(d)' = s
         /\ Served(d)' <=> s \in {"ready", "active", "superseded"}
         /\ \A e \in Deployments : deployment'[e].manifest = deployment[e].manifest
         /\ \A e \in Deployments \ {d} : State(e)' = State(e) /\ (Served(e)' <=> Served(e))
<1> DEFINE w == [deployment[d] EXCEPT !.status = s]
<1>1. deployment[d] \in HostingRows  BY KnownOfHosting
<1>2. w \in HostingRows /\ w.status = s /\ w.manifest = deployment[d].manifest
  BY <1>1 DEF HostingRows
<1>3. deployment' = [deployment EXCEPT ![d] = w]  BY KnownOfHosting
<1> HIDE DEF w
<1> QED  BY <1>2, <1>3, OneDeployment

\* Without a change of requests, files or lists.
LEMMA StartKeeps ==
  ASSUME HostingInv, NEW d \in Deployments, StartDeployment(d)
  PROVE  HostingInv'
<1>1. /\ deployment' = [deployment EXCEPT ![d].status = "uploading"] /\ State(d) = "absent"
      /\ UNCHANGED <<stored, site, hosting, mixed, undone, hostingFaults>>
  BY DEF StartDeployment
<1>2. /\ deployment' \in [Deployments -> HostingRows] /\ State(d)' = "uploading" /\ ~Served(d)'
      /\ \A e \in Deployments : deployment'[e].manifest = deployment[e].manifest
      /\ \A e \in Deployments \ {d} : State(e)' = State(e) /\ (Served(e)' <=> Served(e))
  BY <1>1, StatusChanges
<1>3. ~Served(d)  BY <1>1 DEF Served
<1>4. HostingTypeOK'  BY <1>1, <1>2, KnownOfHosting DEF HostingTypeOK, HostingRows, HostingRecords
<1>5. WorksOnStarted'  BY <1>1, <1>2 DEF HostingInv, WorksOnStarted
<1>6. ListedIsStored'  BY <1>1, <1>2, KnownOfHosting DEF HostingInv, ListedIsStored, FileStages, WorksOnStarted
<1>7. OneWriter'
  <2>1. \A r \in HostingCalls, e \in Deployments : Filing(r, e)' <=> Filing(r, e)  BY <1>1 DEF Filing
  <2> QED  BY <1>1, <1>2, <2>1 DEF HostingInv, OneWriter
<1>8. ServedIsComplete'  BY <1>1, <1>2 DEF HostingInv, ServedIsComplete
<1>9. NamedIsServed'  BY <1>1, <1>2, <1>3, KnownOfHosting DEF HostingInv, NamedIsServed
<1> QED  BY <1>4, <1>5, <1>6, <1>7, <1>8, <1>9 DEF HostingInv

LEMMA DisableKeeps ==
  ASSUME HostingInv, Disable \/ UNCHANGED hostingVars
  PROVE  HostingInv'
<1>1. /\ UNCHANGED <<deployment, stored, hosting, mixed, undone, hostingFaults>>
      /\ site' \in [on : BOOLEAN, names : Deployments \cup {NoDeployment}] /\ site'.names = site.names
  BY KnownOfHosting DEF Disable, hostingVars
<1>2. HostingTypeOK'  BY <1>1, KnownOfHosting DEF HostingTypeOK, HostingRows, HostingRecords
<1>3. WorksOnStarted' /\ ListedIsStored' /\ OneWriter' /\ ServedIsComplete' /\ NamedIsServed'
  BY <1>1 DEF HostingInv, WorksOnStarted, ListedIsStored, OneWriter, ServedIsComplete, NamedIsServed,
     Served, State, Filing
<1> QED  BY <1>2, <1>3 DEF HostingInv

LEMMA PutFileKeeps ==
  ASSUME HostingInv, NEW r \in HostingCalls, PutFile(r)
  PROVE  HostingInv'
<1> DEFINE d == hosting[r].id
<1>1. /\ hosting[r].stage = "put" /\ d \in Deployments /\ State(d) # "absent"
      /\ stored' = [stored EXCEPT ![d] = @ \cup {hosting[r].file}]
      /\ UNCHANGED <<deployment, site, mixed, undone, hostingFaults>> /\ HostingGo(r, "write")
  BY KnownOfHosting DEF PutFile, HostingAt
<1>2. PICK h \in HostingRecords :
        /\ hosting' = [hosting EXCEPT ![r] = h]
        /\ h.stage = "write" /\ h.id = d /\ h.file = hosting[r].file /\ h.seen = hosting[r].seen
  BY <1>1, KnownOfHosting, HostingMoves DEF FileStages, HostingInv
<1>3. /\ hosting[r].file \in SiteFiles /\ stored' \in [Deployments -> SUBSET SiteFiles]
      /\ \A e \in Deployments : stored[e] \subseteq stored'[e]
      /\ hosting[r].file \in stored'[d]
  BY <1>1, KnownOfHosting DEF HostingRecords
<1>4. hosting[r].seen \subseteq stored[d]  BY <1>1 DEF HostingInv, ListedIsStored, FileStages
<1>5. d \notin mixed => hosting[r].seen = deployment[d].manifest  BY <1>1 DEF HostingInv, OneWriter
<1>6. Filing(r, d)  BY <1>1 DEF Filing, FileStages
<1>7. \A e \in Deployments : State(e)' = State(e) /\ (Served(e)' <=> Served(e))
  BY <1>1 DEF State, Served
<1>8. NamedIsServed'  BY <1>1, <1>7, KnownOfHosting DEF HostingInv, NamedIsServed
<1>9. \A e \in Deployments :
        /\ State(e) # "absent" => State(e)' # "absent"
        /\ stored[e] \subseteq stored'[e] /\ deployment'[e].manifest \subseteq stored'[e]
  BY <1>1, <1>3, <1>7, KnownOfHosting
<1>10. \A e \in Deployments \ mixed' :
        /\ IndexFile \in deployment[e].manifest => IndexFile \in deployment'[e].manifest
        /\ deployment'[e].manifest = deployment[e].manifest
        /\ Served(e)' => IndexFile \in deployment'[e].manifest
  BY <1>1, <1>7, KnownOfHosting
<1>11. /\ deployment' \in [Deployments -> HostingRows] /\ mixed \subseteq mixed'
       /\ site' \in [on : BOOLEAN, names : Deployments \cup {NoDeployment}]
       /\ mixed' \subseteq Deployments /\ undone' \subseteq Deployments /\ hostingFaults' \in Nat
  BY <1>1, KnownOfHosting
<1>12. /\ h.id \in Deployments /\ State(h.id)' # "absent" /\ h.seen \subseteq stored'[h.id]
       /\ h.file \in stored'[h.id] /\ h.stage \notin {"publish", "setready", "supersede", "commit"}
       /\ Filing(r, h.id) /\ (h.id \notin mixed' => h.seen = deployment'[h.id].manifest)
  BY <1>1, <1>2, <1>3, <1>4, <1>5, <1>6, <1>7
<1> HIDE DEF d
<1> QED  BY <1>2, <1>3, <1>8, <1>9, <1>10, <1>11, <1>12, HostingStepKeeps

LEMMA WriteManifestKeeps ==
  ASSUME HostingInv, NEW r \in HostingCalls, WriteManifest(r)
  PROVE  HostingInv'
<1> DEFINE d == hosting[r].id
           list == hosting[r].seen \cup {hosting[r].file}
           w == [deployment[d] EXCEPT !.manifest = list]
<1>1. /\ hosting[r].stage = "write" /\ d \in Deployments /\ State(d) # "absent"
      /\ deployment' = [deployment EXCEPT ![d].manifest = list]
      /\ UNCHANGED <<stored, site, mixed, undone, hostingFaults>> /\ HostingEnd(r)
  BY KnownOfHosting DEF WriteManifest, HostingAt
<1>2. PICK h \in HostingRecords : hosting' = [hosting EXCEPT ![r] = h] /\ h.stage = "idle"
  BY <1>1, KnownOfHosting, HostingMoves DEF HostingInv
<1>3. list \subseteq stored[d]
  BY <1>1 DEF HostingInv, ListedIsStored, FileStages
<1>4. d \notin mixed => hosting[r].seen = deployment[d].manifest  BY <1>1 DEF HostingInv, OneWriter
<1>5. Filing(r, d)  BY <1>1 DEF Filing, FileStages
<1>6. w \in HostingRows /\ w.status = State(d) /\ w.manifest = list
  BY <1>1, <1>3, KnownOfHosting DEF HostingRows, State
<1>7. deployment' = [deployment EXCEPT ![d] = w]  BY <1>1, KnownOfHosting
<1> HIDE DEF d, list, w
<1>8. /\ deployment' \in [Deployments -> HostingRows] /\ deployment'[d].manifest = list
      /\ \A e \in Deployments : State(e)' = State(e) /\ (Served(e)' <=> Served(e))
      /\ \A e \in Deployments \ {d} : deployment'[e].manifest = deployment[e].manifest
  <2>1. /\ deployment' \in [Deployments -> HostingRows]
        /\ \A e \in Deployments : deployment'[e] = IF e = d THEN w ELSE deployment[e]
    BY <1>1, <1>6, <1>7, KnownOfHosting
  <2>2. \A e \in Deployments : State(e)' = State(e)  BY <2>1, <1>6 DEF State
  <2>3. \A e \in Deployments : Served(e)' <=> Served(e)  BY <2>2 DEF Served
  <2>4. deployment'[d].manifest = list  BY <2>1, <1>1, <1>6
  <2> QED  BY <2>1, <2>2, <2>3, <2>4
<1>9. NamedIsServed'  BY <1>1, <1>8, KnownOfHosting DEF HostingInv, NamedIsServed
<1>10. \A e \in Deployments :
        /\ State(e) # "absent" => State(e)' # "absent"
        /\ stored[e] \subseteq stored'[e] /\ deployment'[e].manifest \subseteq stored'[e]
  BY <1>1, <1>3, <1>8, KnownOfHosting
<1>11. d \notin mixed => deployment[d].manifest \subseteq list  BY <1>4 DEF list
<1>12. h.stage \notin FileStages  BY <1>2 DEF FileStages
<1>13. \A e \in Deployments \ mixed' :
        /\ IndexFile \in deployment[e].manifest => IndexFile \in deployment'[e].manifest
        /\ deployment'[e].manifest = deployment[e].manifest
           \/ (Filing(r, e) /\ ~(h.id = e /\ h.stage \in FileStages))
        /\ Served(e)' => IndexFile \in deployment'[e].manifest
  BY <1>1, <1>5, <1>8, <1>11, <1>12, KnownOfHosting
<1>14. /\ mixed \subseteq mixed' /\ mixed' \subseteq Deployments /\ undone' \subseteq Deployments
       /\ site' \in [on : BOOLEAN, names : Deployments \cup {NoDeployment}] /\ hostingFaults' \in Nat
  BY <1>1, KnownOfHosting
<1>15. h.stage \notin {"put", "write", "setready", "supersede", "commit"} /\ h.stage # "publish"
  BY <1>2
<1>16. stored' \in [Deployments -> SUBSET SiteFiles]  BY <1>1, KnownOfHosting
<1> QED  BY <1>2, <1>8, <1>9, <1>10, <1>12, <1>13, <1>14, <1>15, <1>16, HostingStepKeeps

\* The status of the deployment a request works on changes, the request goes on.
LEMMA StatusStepKeeps ==
  ASSUME HostingInv, NEW r \in HostingCalls, NEW h \in HostingRecords, NEW d \in Deployments,
         NEW s \in {"uploading", "ready", "active", "superseded", "failed"},
         hosting' = [hosting EXCEPT ![r] = h],
         deployment' = [deployment EXCEPT ![d].status = s],
         UNCHANGED <<stored, site, mixed, hostingFaults>>, undone' \subseteq Deployments,
         NamedIsServed',
         s \in {"ready", "active", "superseded"} /\ d \notin mixed => IndexFile \in deployment[d].manifest,
         h.stage # "idle" => h.id = d,
         h.stage \in {"idle", "lookup", "files"},
         h.stage = "files" => h.seen = {} /\ State(d) = "absent"
  PROVE  HostingInv'
<1>1. /\ deployment' \in [Deployments -> HostingRows] /\ State(d)' = s
      /\ Served(d)' <=> s \in {"ready", "active", "superseded"}
      /\ \A e \in Deployments : deployment'[e].manifest = deployment[e].manifest
      /\ \A e \in Deployments \ {d} : State(e)' = State(e) /\ (Served(e)' <=> Served(e))
  BY StatusChanges
<1>2. \A e \in Deployments :
        /\ State(e) # "absent" => State(e)' # "absent"
        /\ stored[e] \subseteq stored'[e] /\ deployment'[e].manifest \subseteq stored'[e]
  BY <1>1, KnownOfHosting
<1>3. \A e \in Deployments \ mixed' :
        /\ IndexFile \in deployment[e].manifest => IndexFile \in deployment'[e].manifest
        /\ deployment'[e].manifest = deployment[e].manifest
        /\ Served(e)' => IndexFile \in deployment'[e].manifest
  BY <1>1, KnownOfHosting
<1>4. /\ mixed \subseteq mixed' /\ mixed' \subseteq Deployments
      /\ site' \in [on : BOOLEAN, names : Deployments \cup {NoDeployment}] /\ hostingFaults' \in Nat
  BY KnownOfHosting
<1>5. h.stage = "files" => \A q \in HostingCalls : ~Filing(q, d)
  BY KnownOfHosting DEF Filing, FileStages
<1>6. /\ h.stage # "idle" => h.id \in Deployments /\ State(h.id)' # "absent"
      /\ h.stage \in FileStages => h.stage = "files"
      /\ h.stage \notin {"put", "write", "setready", "supersede", "commit"}
      /\ h.stage # "publish" /\ h.stage # "write"
  BY <1>1 DEF FileStages
<1>9. stored' \in [Deployments -> SUBSET SiteFiles]  BY KnownOfHosting
<1>7. h.stage \in FileStages => h.seen \subseteq stored'[h.id]  BY <1>6
<1>8. h.id \notin mixed' /\ h.stage \in FileStages =>
           Filing(r, h.id) \/ \A q \in HostingCalls : ~Filing(q, h.id)
  BY <1>5, <1>6
<1> QED  BY <1>1, <1>2, <1>3, <1>4, <1>6, <1>7, <1>8, <1>9, HostingStepKeeps

LEMMA SetReadyKeeps ==
  ASSUME HostingInv, NEW r \in HostingCalls, SetReady(r)
  PROVE  HostingInv'
<1> PICK d \in Deployments : d = hosting[r].id
  BY KnownOfHosting DEF SetReady, HostingAt
<1>1. /\ hosting[r].stage = "setready" /\ d \in Deployments /\ State(d) # "absent"
      /\ deployment' = [deployment EXCEPT ![d].status = "ready"]
      /\ UNCHANGED <<stored, site, mixed, undone, hostingFaults>>
      /\ HostingGo(r, "lookup") \/ HostingEnd(r)
  BY KnownOfHosting DEF SetReady, HostingAt
<1>2. PICK h \in HostingRecords :
        /\ hosting' = [hosting EXCEPT ![r] = h]
        /\ h.stage = "idle" \/ (h.stage = "lookup" /\ h.id = d)
  BY <1>1, KnownOfHosting, HostingMoves DEF HostingInv
<1>3. d \notin mixed => IndexFile \in deployment[d].manifest
  BY <1>1 DEF HostingInv, ServedIsComplete
<1>4. Served(d)' /\ (\A e \in Deployments \ {d} : Served(e)' <=> Served(e))
  BY <1>1, StatusChanges
<1>5. NamedIsServed'  BY <1>1, <1>4, KnownOfHosting DEF HostingInv, NamedIsServed
<1> QED  BY <1>1, <1>2, <1>3, <1>5, KnownOfHosting, StatusStepKeeps

LEMMA DeployKeeps ==
  ASSUME HostingInv, NEW r \in HostingCalls, NEW d \in Deployments, Deploy(r, d)
  PROVE  HostingInv'
<1> DEFINE h == [NoHosting EXCEPT !.stage = "files", !.id = d, !.deploy = TRUE]
<1>1. /\ h \in HostingRecords /\ h.stage = "files" /\ h.id = d /\ h.seen = {}
  BY NoHostingTyped DEF HostingRecords, FileStages, NoHosting
<1>2. /\ hosting' = [hosting EXCEPT ![r] = h] /\ State(d) = "absent"
      /\ deployment' = [deployment EXCEPT ![d].status = "uploading"]
      /\ UNCHANGED <<stored, site, mixed, undone, hostingFaults>>
  BY DEF Deploy
<1> HIDE DEF h
<1>3. \A e \in Deployments \ {d} : Served(e)' <=> Served(e)
  BY <1>2, StatusChanges
<1>4. ~Served(d)  BY <1>2 DEF Served
<1>5. NamedIsServed'  BY <1>2, <1>3, <1>4, KnownOfHosting DEF HostingInv, NamedIsServed
<1> QED  BY <1>1, <1>2, <1>5, KnownOfHosting, StatusStepKeeps

LEMMA DeployFailedKeeps ==
  ASSUME HostingInv, NEW r \in HostingCalls, DeployFailed(r)
  PROVE  HostingInv'
<1> DEFINE d == hosting[r].id
<1>1. /\ hosting[r].stage = "fail" /\ d \in Deployments
      /\ deployment' = [deployment EXCEPT ![d].status = "failed"]
      /\ undone' = IF site.names = d THEN undone \cup {d} ELSE undone
      /\ UNCHANGED <<stored, site, mixed, hostingFaults>> /\ HostingEnd(r)
  BY KnownOfHosting DEF DeployFailed, HostingAt
<1>2. PICK h \in HostingRecords : hosting' = [hosting EXCEPT ![r] = h] /\ h.stage = "idle"
  BY <1>1, KnownOfHosting, HostingMoves DEF HostingInv
<1> HIDE DEF d
<1>3. \A e \in Deployments \ {d} : Served(e)' <=> Served(e)
  BY <1>1, StatusChanges
<1>4. NamedIsServed'  BY <1>1, <1>3, KnownOfHosting DEF HostingInv, NamedIsServed
<1>5. undone' \subseteq Deployments  BY <1>1, KnownOfHosting
<1> QED  BY <1>1, <1>2, <1>4, <1>5, StatusStepKeeps

LEMMA DeployFileKeeps ==
  ASSUME HostingInv, NEW r \in HostingCalls, DeployFile(r)
  PROVE  HostingInv'
<1> PICK d \in Deployments : d = hosting[r].id  BY KnownOfHosting DEF DeployFile, HostingAt
<1>0. PICK f \in SiteFiles \ hosting[r].seen :
      /\ stored' = [stored EXCEPT ![d] = @ \cup {f}]
      /\ hosting' = [hosting EXCEPT ![r].seen = @ \cup {f},
            ![r].stage = IF hosting[r].seen \cup {f} = SiteFiles THEN "publish" ELSE "files"]
  BY DEF DeployFile
<1> DEFINE g == [hosting[r] EXCEPT !.seen = @ \cup {f},
            !.stage = IF hosting[r].seen \cup {f} = SiteFiles THEN "publish" ELSE "files"]
<1>1. /\ hosting[r].stage = "files" /\ State(d) # "absent" /\ hosting[r] \in HostingRecords
      /\ UNCHANGED <<deployment, site, mixed, undone, hostingFaults>>
  BY KnownOfHosting DEF DeployFile, HostingAt
<1>2. /\ g \in HostingRecords /\ g.id = d /\ g.seen = hosting[r].seen \cup {f}
      /\ g.stage \in {"publish", "files"} /\ (g.stage = "publish" => g.seen = SiteFiles)
  BY <1>1 DEF HostingRecords, FileStages
<1>3. hosting' = [hosting EXCEPT ![r] = g]  BY <1>0, KnownOfHosting
<1> HIDE DEF g
<1> PICK h \in HostingRecords : h = g  BY <1>2
<1>4. /\ stored' \in [Deployments -> SUBSET SiteFiles] /\ f \in stored'[d]
      /\ \A e \in Deployments : stored[e] \subseteq stored'[e]
  BY <1>0, KnownOfHosting
<1>5. hosting[r].seen \subseteq stored[d]  BY <1>1 DEF HostingInv, ListedIsStored, FileStages
<1>6. Filing(r, d)  BY <1>1 DEF Filing, FileStages
<1>7. \A e \in Deployments : State(e)' = State(e) /\ (Served(e)' <=> Served(e))
  BY <1>1 DEF State, Served
<1>8. NamedIsServed'  BY <1>1, <1>7, KnownOfHosting DEF HostingInv, NamedIsServed
<1>9. \A e \in Deployments :
        /\ State(e) # "absent" => State(e)' # "absent"
        /\ stored[e] \subseteq stored'[e] /\ deployment'[e].manifest \subseteq stored'[e]
  BY <1>1, <1>4, <1>7, KnownOfHosting
<1>10. \A e \in Deployments \ mixed' :
        /\ IndexFile \in deployment[e].manifest => IndexFile \in deployment'[e].manifest
        /\ deployment'[e].manifest = deployment[e].manifest
        /\ Served(e)' => IndexFile \in deployment'[e].manifest
  BY <1>1, <1>7, KnownOfHosting
<1>11. /\ deployment' \in [Deployments -> HostingRows] /\ mixed \subseteq mixed'
       /\ site' \in [on : BOOLEAN, names : Deployments \cup {NoDeployment}]
       /\ mixed' \subseteq Deployments /\ undone' \subseteq Deployments /\ hostingFaults' \in Nat
  BY <1>1, KnownOfHosting
<1>12. /\ h.id \in Deployments /\ State(h.id)' # "absent" /\ h.seen \subseteq stored'[h.id]
       /\ h.stage \notin {"put", "write", "setready", "supersede", "commit"} /\ h.stage # "write"
       /\ Filing(r, h.id)
  BY <1>1, <1>2, <1>4, <1>5, <1>6, <1>7
<1>13. hosting' = [hosting EXCEPT ![r] = h] /\ (h.stage = "publish" => h.seen = SiteFiles)
  BY <1>2, <1>3
<1> QED  BY <1>4, <1>8, <1>9, <1>10, <1>11, <1>12, <1>13, HostingStepKeeps

LEMMA DeployReadyKeeps ==
  ASSUME HostingInv, NEW r \in HostingCalls, DeployReady(r)
  PROVE  HostingInv'
<1> PICK d \in Deployments : d = hosting[r].id  BY KnownOfHosting DEF DeployReady, HostingAt
<1> DEFINE w == [status |-> "ready", manifest |-> SiteFiles]
<1>1. /\ hosting[r].stage = "publish" /\ State(d) # "absent" /\ HostingGo(r, "lookup")
      /\ deployment' = [deployment EXCEPT ![d] = w]
      /\ UNCHANGED <<stored, site, mixed, undone, hostingFaults>>
  BY KnownOfHosting DEF DeployReady, HostingAt
<1>2. PICK h \in HostingRecords :
        hosting' = [hosting EXCEPT ![r] = h] /\ h.stage = "lookup" /\ h.id = d
  BY <1>1, HostingMoves DEF HostingInv
<1>3. w \in HostingRows /\ w.status = "ready" /\ w.manifest = SiteFiles  BY DEF HostingRows
<1> HIDE DEF w
<1>4. /\ deployment' \in [Deployments -> HostingRows] /\ deployment'[d].manifest = SiteFiles
      /\ State(d)' = "ready" /\ Served(d)'
      /\ \A e \in Deployments \ {d} : State(e)' = State(e)
           /\ deployment'[e].manifest = deployment[e].manifest /\ (Served(e)' <=> Served(e))
  BY <1>1, <1>3, OneDeployment
<1>5. SiteFiles \subseteq stored[d]  BY <1>1 DEF HostingInv, ListedIsStored, FileStages
<1>6. IndexFile \in SiteFiles  BY HostingAssumption DEF HostingAssumption
<1>7. Filing(r, d) /\ h.stage \notin FileStages  BY <1>1, <1>2 DEF Filing, FileStages
<1>8. NamedIsServed'  BY <1>1, <1>4, KnownOfHosting DEF HostingInv, NamedIsServed
<1>9. \A e \in Deployments :
        /\ State(e) # "absent" => State(e)' # "absent"
        /\ stored[e] \subseteq stored'[e] /\ deployment'[e].manifest \subseteq stored'[e]
  BY <1>1, <1>4, <1>5, KnownOfHosting
<1>10. \A e \in Deployments \ mixed' :
        /\ IndexFile \in deployment[e].manifest => IndexFile \in deployment'[e].manifest
        /\ deployment'[e].manifest = deployment[e].manifest
           \/ (Filing(r, e) /\ ~(h.id = e /\ h.stage \in FileStages))
        /\ Served(e)' => IndexFile \in deployment'[e].manifest
  BY <1>1, <1>4, <1>6, <1>7, KnownOfHosting
<1>11. /\ stored' \in [Deployments -> SUBSET SiteFiles] /\ mixed \subseteq mixed'
       /\ site' \in [on : BOOLEAN, names : Deployments \cup {NoDeployment}]
       /\ mixed' \subseteq Deployments /\ undone' \subseteq Deployments /\ hostingFaults' \in Nat
  BY <1>1, KnownOfHosting
<1>12. /\ h.id \in Deployments /\ State(h.id)' # "absent"
       /\ h.stage \notin {"put", "write", "setready", "supersede", "commit"} /\ h.stage # "publish"
  BY <1>2, <1>4
<1> QED  BY <1>2, <1>4, <1>7, <1>8, <1>9, <1>10, <1>11, <1>12, HostingStepKeeps

LEMMA ActivateCommitKeeps ==
  ASSUME HostingInv, NEW r \in HostingCalls, ActivateCommit(r)
  PROVE  HostingInv'
<1> PICK d \in Deployments : d = hosting[r].id  BY KnownOfHosting DEF ActivateCommit, HostingAt
<1>1. /\ hosting[r].stage = "commit" /\ State(d) # "absent" /\ HostingGo(r, "log")
      /\ deployment' = [e \in Deployments |->
           IF e = d THEN [deployment[e] EXCEPT !.status = "active"]
           ELSE IF e \in hosting[r].seen /\ State(e) = "active"
           THEN [deployment[e] EXCEPT !.status = "superseded"] ELSE deployment[e]]
      /\ site' = [on |-> TRUE, names |-> d]
      /\ UNCHANGED <<stored, mixed, undone, hostingFaults>>
  BY KnownOfHosting DEF ActivateCommit, HostingAt
<1>2. PICK h \in HostingRecords :
        hosting' = [hosting EXCEPT ![r] = h] /\ h.stage = "log" /\ h.id = d
  BY <1>1, HostingMoves DEF HostingInv
<1>3. /\ deployment' \in [Deployments -> HostingRows]
      /\ \A e \in Deployments : deployment'[e].manifest = deployment[e].manifest
      /\ State(d)' = "active"
      /\ \A e \in Deployments \ {d} : State(e)' = State(e)
           \/ (State(e) = "active" /\ State(e)' = "superseded")
  BY <1>1, KnownOfHosting DEF State, HostingRows
<1>4. Served(d)' /\ (\A e \in Deployments \ {d} : Served(e)' <=> Served(e))
  BY <1>3 DEF Served
<1>5. NamedIsServed'  BY <1>1, <1>4 DEF NamedIsServed
<1>6. d \notin mixed => IndexFile \in deployment[d].manifest
  BY <1>1 DEF HostingInv, ServedIsComplete
<1>7. h.stage \notin FileStages  BY <1>2 DEF FileStages
<1>9. \A e \in Deployments :
        /\ State(e) # "absent" => State(e)' # "absent"
        /\ stored[e] \subseteq stored'[e] /\ deployment'[e].manifest \subseteq stored'[e]
  BY <1>1, <1>3, KnownOfHosting
<1>10. \A e \in Deployments \ mixed' :
        /\ IndexFile \in deployment[e].manifest => IndexFile \in deployment'[e].manifest
        /\ deployment'[e].manifest = deployment[e].manifest
        /\ Served(e)' => IndexFile \in deployment'[e].manifest
  BY <1>1, <1>3, <1>4, <1>6, KnownOfHosting
<1>11. /\ stored' \in [Deployments -> SUBSET SiteFiles] /\ mixed \subseteq mixed'
       /\ site' \in [on : BOOLEAN, names : Deployments \cup {NoDeployment}]
       /\ mixed' \subseteq Deployments /\ undone' \subseteq Deployments /\ hostingFaults' \in Nat
  BY <1>1, KnownOfHosting
<1>12. /\ h.id \in Deployments /\ State(h.id)' # "absent"
       /\ h.stage \notin {"put", "write", "setready", "supersede", "commit"} /\ h.stage # "publish"
       /\ h.stage # "write"
  BY <1>2, <1>3
<1> QED  BY <1>2, <1>3, <1>5, <1>7, <1>9, <1>10, <1>11, <1>12, HostingStepKeeps

LEMMA HostingInvStep == HostingInv /\ [HostingNext]_hostingVars => HostingInv'
<1> SUFFICES ASSUME HostingInv, [HostingNext]_hostingVars  PROVE HostingInv'
  OBVIOUS
<1>1. CASE Disable \/ UNCHANGED hostingVars  BY <1>1, DisableKeeps
<1>2. CASE \E d \in Deployments : StartDeployment(d)  BY <1>2, StartKeeps
<1>3. ASSUME NEW r \in HostingCalls, PutFile(r) \/ WriteManifest(r) \/ SetReady(r)  PROVE HostingInv'
  BY <1>3, PutFileKeeps, WriteManifestKeeps, SetReadyKeeps
<1>4. ASSUME NEW r \in HostingCalls, DeployFile(r) \/ DeployReady(r) \/ DeployFailed(r)  PROVE HostingInv'
  BY <1>4, DeployFileKeeps, DeployReadyKeeps, DeployFailedKeeps
<1>5. ASSUME NEW r \in HostingCalls,
             ActivateLookup(r) \/ ActivateSupersede(r) \/ ActivateCommit(r) \/ ActivateAudit(r)
      PROVE  HostingInv'
  BY <1>5, ActivateLookupKeeps, ActivateSupersedeKeeps, ActivateCommitKeeps, HostingFailsKeeps
<1>6. ASSUME NEW r \in HostingCalls, HostingFails(r)  PROVE HostingInv'
  BY <1>6, HostingFailsKeeps
<1>7. ASSUME NEW r \in HostingCalls, NEW d \in Deployments,
             FinalizeRead(r, d) \/ Deploy(r, d) \/ Activate(r, d)
      PROVE  HostingInv'
  BY <1>7, FinalizeReadKeeps, DeployKeeps, ActivateKeeps
<1>8. ASSUME NEW r \in HostingCalls, NEW d \in Deployments, NEW f \in SiteFiles, UploadFile(r, d, f)
      PROVE  HostingInv'
  BY <1>8, UploadFileKeeps
<1> QED  BY <1>1, <1>2, <1>3, <1>4, <1>5, <1>6, <1>7, <1>8 DEF HostingNext

\* Deployments, stored files, the site and the requests have their types.
THEOREM HostingTypesCorrect == HostingSpec => []HostingTypeOK
<1>1. HostingInv => HostingTypeOK  BY DEF HostingInv
<1> QED  BY <1>1, HostingInvInit, HostingInvStep, PTL DEF HostingSpec

\* A visitor is served from a deployment whose status allows it, whose index
\* file is listed and whose files are stored, whatever activations, rollbacks,
\* finalizations and failures overlap.
THEOREM SiteStaysWhole == HostingSpec => []SiteServesWhole
<1>1. HostingInv => SiteServesWhole
  <2> SUFFICES ASSUME HostingInv, site.names \notin mixed \cup undone \cup {NoDeployment}
               PROVE  /\ Served(site.names)
                      /\ IndexFile \in deployment[site.names].manifest
                      /\ deployment[site.names].manifest \subseteq stored[site.names]
    BY DEF SiteServesWhole
  <2>1. site.names \in Deployments  BY KnownOfHosting
  <2>2. Served(site.names)  BY DEF HostingInv, NamedIsServed
  <2> QED  BY <2>1, <2>2, KnownOfHosting
<1> QED  BY <1>1, HostingInvInit, HostingInvStep, PTL DEF HostingSpec

-----------------------------------------------------------------------------
(* PreviewDatabases                                                         *)

PreviewRows == [status : {"absent", "failed", "deleting"} \cup Active \cup Removed,
                env : {"none", "active", "disabled"}, due : BOOLEAN]
StoreRows == [schema : BOOLEAN, tables : SUBSET Tables, registered : BOOLEAN, policies : BOOLEAN]
RequestRecords == [stage : {"none"} \cup CreateStages \cup RemoveStages,
                   id : Previews \cup {NoPreview}, reason : Removed, todo : SUBSET Previews]

LEMMA PreviewTyped ==
  PreviewTypeOK <=>
    /\ preview \in [Previews -> PreviewRows] /\ store \in [Previews -> StoreRows]
    /\ known \in [PreviewInstances -> SUBSET Previews] /\ request \in [Requests -> RequestRecords]
    /\ overlapped \subseteq Previews /\ previewFaults \in Nat
BY DEF PreviewTypeOK, PreviewRows, StoreRows, RequestRecords

\* The stages in which a request has something of a preview in hand.
Working == (CreateStages \ {"insert"}) \cup {"name", "drop", "finish"}
Works(c, p) == request[c].id = p /\ request[c].stage \in Working

\* A request is about a preview that has been inserted.
RequestsAreBorn ==
  \A c \in Requests :
    /\ request[c].stage \notin {"none", "insert"} =>
         request[c].id \in Previews /\ Status(request[c].id) # "absent"
    /\ \A p \in request[c].todo : Status(p) # "absent"

UnbornHaveNothing ==
  \A p \in Unborn : store[p] = Nothing /\ \A i \in PreviewInstances : p \notin known[i]

\* What a request that works on a preview alone has reached by a stage.
Reached(stage, p) ==
  /\ stage \in {"schema", "clone", "policies", "ready"} =>
       Status(p) = "creating" /\ preview[p].env = "active"
  /\ stage = "schema" => store[p] = Nothing /\ \A i \in PreviewInstances : p \notin known[i]
  /\ stage \in {"clone", "policies", "ready"} => store[p].schema = TRUE /\ store[p].registered = TRUE
  /\ stage \in {"policies", "ready"} => store[p].tables = Tables
  /\ stage = "ready" => store[p].policies = TRUE
  /\ stage = "audit" => Status(p) = "ready"
  /\ stage = "fail" => Status(p) \in Active
  /\ stage \in {"name", "drop", "finish"} => Status(p) = "deleting"
  /\ stage = "finish" => store[p].schema = FALSE /\ store[p].tables = {}

\* Unless a removal overlapped, one request at most works on a preview.
OneWorks(p) ==
  /\ \A c, d \in Requests : Works(c, p) /\ Works(d, p) => c = d
  /\ \A c \in Requests : Works(c, p) => Reached(request[c].stage, p)

Settled(p) ==
  /\ Status(p) = "ready" =>
       /\ store[p] = [schema |-> TRUE, tables |-> Tables, registered |-> TRUE, policies |-> TRUE]
       /\ preview[p].env = "active"
  /\ Status(p) \in Removed => store[p] = Nothing /\ preview[p].env = "disabled"

PreviewInv ==
  /\ PreviewTypeOK /\ RequestsAreBorn /\ UnbornHaveNothing
  /\ \A p \in Previews \ overlapped : OneWorks(p) /\ Settled(p)

LEMMA DoneIsRecord ==
  Done \in RequestRecords /\ Done.stage = "none" /\ Done.id = NoPreview /\ Done.todo = {}
BY DEF Done, RequestRecords, Removed

LEMMA PreviewInvInit == PreviewInit => PreviewInv
<1> SUFFICES ASSUME PreviewInit  PROVE PreviewInv
  OBVIOUS
<1>1. \A c \in Requests : request[c] = Done  BY DEF PreviewInit
<1>2. \A p \in Previews : Status(p) = "absent" /\ store[p] = Nothing
  BY DEF PreviewInit, Status, NoRow
<1>3. NoRow \in PreviewRows /\ Nothing \in StoreRows
  BY DEF NoRow, PreviewRows, Nothing, StoreRows
<1>4. PreviewTypeOK
  BY <1>3, PreviewTyped, DoneIsRecord DEF PreviewInit
<1>5. RequestsAreBorn /\ UnbornHaveNothing
  BY <1>1, <1>2, DoneIsRecord DEF RequestsAreBorn, UnbornHaveNothing, PreviewInit, Unborn
<1>6. \A p \in Previews : OneWorks(p)
  BY <1>1, DoneIsRecord DEF OneWorks, Works, Working, CreateStages
<1>7. \A p \in Previews : Settled(p)  BY <1>2 DEF Settled, Removed
<1> QED  BY <1>4, <1>5, <1>6, <1>7 DEF PreviewInv

LEMMA OnePreviewRequest ==
  ASSUME PreviewTypeOK, NEW c \in Requests, NEW h \in RequestRecords,
         request' = [request EXCEPT ![c] = h]
  PROVE  /\ request' \in [Requests -> RequestRecords]
         /\ request'[c] = h /\ \A d \in Requests \ {c} : request'[d] = request[d]
         /\ \A p : Works(c, p)' <=> h.id = p /\ h.stage \in Working
         /\ \A d \in Requests \ {c}, p \in Previews : Works(d, p)' <=> Works(d, p)
<1>1. request' \in [Requests -> RequestRecords]
      /\ request'[c] = h /\ \A d \in Requests \ {c} : request'[d] = request[d]
  BY PreviewTyped
<1> QED  BY <1>1 DEF Works

\* A step of a request that touches one preview at most, and works on it alone.
LEMMA PreviewStepKeeps ==
  ASSUME PreviewInv, NEW c \in Requests, NEW h \in RequestRecords, NEW p,
         request' = [request EXCEPT ![c] = h],
         preview' \in [Previews -> PreviewRows], store' \in [Previews -> StoreRows],
         known' \in [PreviewInstances -> SUBSET Previews],
         overlapped \subseteq overlapped', overlapped' \subseteq Previews, previewFaults' \in Nat,
         \A q \in Previews \ {p} :
           /\ preview'[q] = preview[q] /\ store'[q] = store[q]
           /\ \A i \in PreviewInstances : q \in known'[i] => q \in known[i],
         p \in Previews => Status(p)' # "absent",
         p \in Previews \ overlapped' =>
           Settled(p)' /\ \A d \in Requests \ {c} : ~Works(d, p),
         h.stage \notin {"none", "insert"} => h.id \in Previews /\ Status(h.id)' # "absent",
         \A q \in h.todo : Status(q)' # "absent",
         h.stage \in Working /\ h.id \notin overlapped' =>
           /\ Works(c, h.id) \/ \A d \in Requests : ~Works(d, h.id)
           /\ Reached(h.stage, h.id)'
  PROVE  PreviewInv'
<1>1. /\ request' \in [Requests -> RequestRecords]
      /\ request'[c] = h /\ \A d \in Requests \ {c} : request'[d] = request[d]
      /\ \A q : Works(c, q)' <=> h.id = q /\ h.stage \in Working
      /\ \A d \in Requests \ {c}, q \in Previews : Works(d, q)' <=> Works(d, q)
  BY OnePreviewRequest DEF PreviewInv
<1>2. PreviewTypeOK'  BY <1>1 DEF PreviewTypeOK, PreviewRows, StoreRows, RequestRecords
<1>3. \A q \in Previews : Status(q) # "absent" => Status(q)' # "absent"  BY DEF Status
<1>4. RequestsAreBorn'
  <2> SUFFICES ASSUME NEW d \in Requests, NEW g, g = request'[d]
               PROVE  /\ g.stage \notin {"none", "insert"} =>
                           g.id \in Previews /\ preview'[g.id].status # "absent"
                      /\ \A q \in g.todo : preview'[q].status # "absent"
    BY DEF RequestsAreBorn, Status
  <2>1. CASE d = c
    <3>1. g = h  BY <2>1, <1>1
    <3> QED  BY <3>1 DEF Status
  <2>2. CASE d # c
    <3>1. g = request[d] /\ request[d].todo \subseteq Previews
      BY <2>2, <1>1, PreviewTyped DEF PreviewInv, RequestRecords
    <3>2. /\ request[d].stage \notin {"none", "insert"} =>
               request[d].id \in Previews /\ Status(request[d].id) # "absent"
          /\ \A q \in request[d].todo : Status(q) # "absent"
      BY DEF PreviewInv, RequestsAreBorn
    <3> QED  BY <3>1, <3>2, <1>3 DEF Status
  <2> QED  BY <2>1, <2>2
<1>5. UnbornHaveNothing'
  <2> SUFFICES ASSUME NEW q \in Previews, Status(q)' = "absent"
               PROVE  store'[q] = Nothing /\ \A i \in PreviewInstances : q \notin known'[i]
    BY DEF UnbornHaveNothing, Unborn
  <2>1. q \in Previews \ {p}  OBVIOUS
  <2>2. Status(q) = "absent"  BY <2>1, <1>3
  <2> QED  BY <2>1, <2>2 DEF PreviewInv, UnbornHaveNothing, Unborn
<1>6. ASSUME NEW q \in Previews \ overlapped'  PROVE OneWorks(q)' /\ Settled(q)'
  <2>1. OneWorks(q) /\ Settled(q)  BY DEF PreviewInv
  <2>2. q # p => Settled(q)'  BY <2>1 DEF Settled, Status
  <2>3. ASSUME NEW d \in Requests, Works(d, q)', NEW s, s = request'[d].stage
        PROVE  Reached(s, q)'
    <3>1. CASE d = c
      <4>1. h.id = q /\ h.stage \in Working  BY <3>1, <2>3, <1>1
      <4>2. s = h.stage  BY <3>1, <2>3, <1>1
      <4> QED  BY <4>1, <4>2
    <3>2. CASE d # c
      <4>1. Works(d, q) /\ request'[d] = request[d]  BY <3>2, <2>3, <1>1
      <4>2. q # p  BY <4>1, <3>2
      <4>3. Reached(s, q)  BY <4>1, <2>1, <2>3 DEF OneWorks
      <4>4. /\ preview'[q] = preview[q] /\ store'[q] = store[q]
            /\ \A i \in PreviewInstances : q \in known'[i] => q \in known[i]
        BY <4>2
      <4> QED  BY <4>3, <4>4 DEF Reached, Status
    <3> QED  BY <3>1, <3>2
  <2>4. ASSUME NEW d \in Requests, NEW e \in Requests, Works(d, q)', Works(e, q)'  PROVE d = e
    <3>1. \A a, b \in Requests : Works(a, q) /\ Works(b, q) => a = b  BY <2>1 DEF OneWorks
    <3>2. Works(c, q)' => Works(c, q) \/ \A a \in Requests : ~Works(a, q)  BY <1>1
    <3> QED  BY <2>4, <3>1, <3>2, <1>1
  <2> QED  BY <2>2, <2>3, <2>4 DEF OneWorks, Reached, Status
<1> QED  BY <1>2, <1>4, <1>5, <1>6 DEF PreviewInv

LEMMA RequestMoves ==
  ASSUME PreviewTypeOK, NEW c \in Requests
  PROVE  /\ \A s \in {"none"} \cup CreateStages \cup RemoveStages :
              To(c, s) => \E h \in RequestRecords :
                /\ request' = [request EXCEPT ![c] = h]
                /\ h.stage = s /\ h.id = request[c].id /\ h.todo = request[c].todo
         /\ NextOrDone(c) => \E h \in RequestRecords :
                /\ request' = [request EXCEPT ![c] = h]
                /\ h.stage = "none" /\ h.todo \subseteq request[c].todo
<1>1. request[c] \in RequestRecords /\ c \in DOMAIN request  BY PreviewTyped
<1>2. ASSUME NEW s \in {"none"} \cup CreateStages \cup RemoveStages, To(c, s)
      PROVE  \E h \in RequestRecords :
                /\ request' = [request EXCEPT ![c] = h]
                /\ h.stage = s /\ h.id = request[c].id /\ h.todo = request[c].todo
  <2> DEFINE h == [request[c] EXCEPT !.stage = s]
  <2>1. h \in RequestRecords /\ h.stage = s /\ h.id = request[c].id /\ h.todo = request[c].todo
    BY <1>1 DEF RequestRecords
  <2>2. request' = [request EXCEPT ![c] = h]  BY <1>2 DEF To
  <2> QED  BY <2>1, <2>2
<1>3. ASSUME NextOrDone(c)
      PROVE  \E h \in RequestRecords :
                /\ request' = [request EXCEPT ![c] = h]
                /\ h.stage = "none" /\ h.todo \subseteq request[c].todo
  <2>1. CASE request[c].todo = {}
    <3>1. request' = [request EXCEPT ![c] = Done]  BY <1>1, <1>3, <2>1 DEF NextOrDone
    <3> QED  BY <3>1, DoneIsRecord
  <2>2. CASE request[c].todo # {}
    <3> DEFINE h == [request[c] EXCEPT !.stage = "none"]
    <3>1. h \in RequestRecords /\ h.stage = "none" /\ h.todo = request[c].todo
      BY <1>1 DEF RequestRecords
    <3>2. request' = [request EXCEPT ![c] = h]  BY <1>1, <1>3, <2>2 DEF NextOrDone
    <3> QED  BY <3>1, <3>2
  <2> QED  BY <2>1, <2>2
<1> QED  BY <1>2, <1>3

LEMMA RequestFacts ==
  ASSUME PreviewInv, NEW c \in Requests
  PROVE  /\ request[c] \in RequestRecords /\ request \in [Requests -> RequestRecords]
         /\ c[1] \in PreviewInstances
         /\ \A q \in request[c].todo : q \in Previews /\ Status(q) # "absent"
         /\ request[c].stage \notin {"none", "insert"} =>
              request[c].id \in Previews /\ Status(request[c].id) # "absent"
         /\ \A p \in Previews \ overlapped : Works(c, p) =>
              /\ Reached(request[c].stage, p) /\ Settled(p)
              /\ \A d \in Requests \ {c} : ~Works(d, p)
<1>1. request[c] \in RequestRecords /\ request \in [Requests -> RequestRecords]
  BY PreviewTyped DEF PreviewInv
<1>2. c[1] \in PreviewInstances  BY DEF Requests
<1>3. \A p \in Previews \ overlapped : OneWorks(p) /\ Settled(p)  BY DEF PreviewInv
<1>4. ASSUME NEW p \in Previews \ overlapped, Works(c, p)
      PROVE  /\ Reached(request[c].stage, p) /\ Settled(p)
             /\ \A d \in Requests \ {c} : ~Works(d, p)
  BY <1>3, <1>4 DEF OneWorks
<1> QED  BY <1>1, <1>2, <1>4 DEF RequestRecords, PreviewInv, RequestsAreBorn

\* A step of a request that leaves the previews alone.
LEMMA PreviewQuiet ==
  ASSUME PreviewInv, NEW c \in Requests, NEW h \in RequestRecords,
         request' = [request EXCEPT ![c] = h],
         UNCHANGED <<preview, store, known, overlapped>>, previewFaults' \in Nat,
         \A q \in h.todo : Status(q) # "absent",
         h.stage \notin {"none", "insert"} => h.id \in Previews /\ Status(h.id) # "absent",
         h.stage \in Working /\ h.id \notin overlapped =>
           Works(c, h.id) /\ Reached(h.stage, h.id)
  PROVE  PreviewInv'
<1>1. /\ preview' \in [Previews -> PreviewRows] /\ store' \in [Previews -> StoreRows]
      /\ known' \in [PreviewInstances -> SUBSET Previews]
      /\ overlapped \subseteq overlapped' /\ overlapped' \subseteq Previews
  BY PreviewTyped DEF PreviewInv
<1>2. NoPreview \notin Previews  BY PreviewAssumption DEF PreviewAssumption
<1>3. \A q \in Previews \ {NoPreview} :
        /\ preview'[q] = preview[q] /\ store'[q] = store[q]
        /\ \A i \in PreviewInstances : q \in known'[i] => q \in known[i]
  OBVIOUS
<1>4. \A q : Status(q)' = Status(q)  BY DEF Status
<1>5. \A q \in h.todo : Status(q)' # "absent"  BY <1>4
<1>6. h.stage \notin {"none", "insert"} => h.id \in Previews /\ Status(h.id)' # "absent"
  BY <1>4
<1>7. h.stage \in Working /\ h.id \notin overlapped' =>
           /\ Works(c, h.id) \/ \A d \in Requests : ~Works(d, h.id)
           /\ Reached(h.stage, h.id)'
  <2>1. h.stage \in Working /\ h.id \notin overlapped' => Works(c, h.id) /\ Reached(h.stage, h.id)
    OBVIOUS
  <2>2. Reached(h.stage, h.id) => Reached(h.stage, h.id)'  BY DEF Reached, Status
  <2> QED  BY <2>1, <2>2
<1>8. /\ NoPreview \in Previews => Status(NoPreview)' # "absent"
      /\ NoPreview \in Previews \ overlapped' =>
           Settled(NoPreview)' /\ \A d \in Requests \ {c} : ~Works(d, NoPreview)
  BY <1>2
<1> HIDE DEF Reached, Works, Settled, Status
<1> QED  BY <1>1, <1>3, <1>5, <1>6, <1>7, <1>8, PreviewStepKeeps

\* A step of a request that works on a preview.
LEMMA WorkKeeps ==
  ASSUME PreviewInv, NEW c \in Requests, NEW h \in RequestRecords, NEW p,
         p = request[c].id, request[c].stage \in Working,
         request' = [request EXCEPT ![c] = h],
         preview' \in [Previews -> PreviewRows], store' \in [Previews -> StoreRows],
         known' \in [PreviewInstances -> SUBSET Previews],
         UNCHANGED <<overlapped, previewFaults>>,
         \A q \in Previews \ {p} :
           /\ preview'[q] = preview[q] /\ store'[q] = store[q]
           /\ \A i \in PreviewInstances : q \in known'[i] => q \in known[i],
         Status(p)' # "absent",
         p \notin overlapped => Settled(p)',
         h.todo \subseteq request[c].todo, h.stage # "none" => h.id = p,
         h.stage \in Working /\ p \notin overlapped => Reached(h.stage, p)'
  PROVE  PreviewInv'
<1>1. overlapped \subseteq overlapped' /\ overlapped' \subseteq Previews /\ previewFaults' \in Nat
  BY PreviewTyped DEF PreviewInv
<1>2. p \in Previews /\ Works(c, p)
  BY RequestFacts DEF Works, Working, CreateStages
<1>3. p \notin overlapped => \A d \in Requests \ {c} : ~Works(d, p)
  BY <1>2, RequestFacts
<1>4. \A q \in h.todo : Status(q)' # "absent"
  <2> TAKE q \in h.todo
  <2>1. q \in Previews /\ Status(q) # "absent"  BY RequestFacts
  <2>2. CASE q = p  BY <2>2
  <2>3. CASE q # p  BY <2>1, <2>3 DEF Status
  <2> QED  BY <2>2, <2>3
<1>5. h.stage \notin {"none", "insert"} => h.id \in Previews /\ Status(h.id)' # "absent"
  BY <1>2 DEF Status
<1>6. h.stage \in Working /\ h.id \notin overlapped' =>
           /\ Works(c, h.id) \/ \A d \in Requests : ~Works(d, h.id)
           /\ Reached(h.stage, h.id)'
  <2>1. h.stage \in Working => h.id = p  BY DEF Working, CreateStages
  <2>2. h.stage \in Working /\ p \notin overlapped => Reached(h.stage, p)'  OBVIOUS
  <2> QED  BY <2>1, <2>2, <1>2 DEF Reached, Status
<1>7. p \in Previews \ overlapped' =>
        Settled(p)' /\ \A d \in Requests \ {c} : ~Works(d, p)
  BY <1>3
<1> HIDE DEF Reached, Works, Settled, Status
<1> QED  BY <1>1, <1>4, <1>5, <1>6, <1>7, PreviewStepKeeps

\* The requests that come, look, find out, or end with an error.
LEMMA PreviewQuietSteps ==
  ASSUME PreviewInv, NEW c \in Requests,
         \/ PreviewCheck(c) \/ AuditCreated(c) \/ ExpireDue(c) \/ ExpireNext(c) \/ RemoveGet(c)
         \/ StatementFails(c) \/ \E p \in Previews : RequestRemove(c, p)
  PROVE  PreviewInv'
<1> DEFINE Quiet(h) ==
             /\ h \in RequestRecords /\ request' = [request EXCEPT ![c] = h]
             /\ UNCHANGED <<preview, store, known, overlapped>> /\ previewFaults' \in Nat
             /\ \A q \in h.todo : Status(q) # "absent"
             /\ h.stage \notin {"none", "insert"} => h.id \in Previews /\ Status(h.id) # "absent"
             /\ h.stage \in Working /\ h.id \notin overlapped => Works(c, h.id) /\ Reached(h.stage, h.id)
<1> SUFFICES \E h : Quiet(h)
  BY PreviewQuiet
<1>1. /\ request[c] \in RequestRecords /\ request \in [Requests -> RequestRecords]
      /\ \A q \in request[c].todo : q \in Previews /\ Status(q) # "absent"
      /\ request[c].stage \notin {"none", "insert"} =>
           request[c].id \in Previews /\ Status(request[c].id) # "absent"
  BY RequestFacts
<1>2. PreviewTypeOK /\ previewFaults \in Nat  BY DEF PreviewInv, PreviewTypeOK
<1>3. CASE PreviewCheck(c)
  <2>1. PICK h \in RequestRecords :
          /\ request' = [request EXCEPT ![c] = h]
          /\ h.stage = "insert" /\ h.id = request[c].id /\ h.todo = request[c].todo
    BY <1>2, <1>3, RequestMoves DEF PreviewCheck, CreateStages
  <2>2. Quiet(h)  BY <1>1, <1>2, <1>3, <2>1 DEF PreviewCheck, Working, CreateStages
  <2> QED  BY <2>2
<1>4. CASE AuditCreated(c)
  <2>1. Quiet(Done)  BY <1>2, <1>4, DoneIsRecord DEF AuditCreated, Working, CreateStages
  <2> QED  BY <2>1
<1>5. CASE ExpireDue(c)
  <2> DEFINE h == [Done EXCEPT !.reason = "expired", !.todo = OutOfDate]
  <2>1. OutOfDate \in SUBSET Previews /\ \A q \in OutOfDate : Status(q) # "absent"
    BY DEF OutOfDate
  <2>2. h \in RequestRecords /\ h.stage = "none" /\ h.todo = OutOfDate
    BY <2>1, DoneIsRecord DEF RequestRecords, Removed
  <2>3. request' = [request EXCEPT ![c] = h]  BY <1>1, <1>5 DEF ExpireDue
  <2> HIDE DEF h
  <2>4. Quiet(h)  BY <1>2, <1>5, <2>1, <2>2, <2>3 DEF ExpireDue, Working, CreateStages
  <2> QED  BY <2>4
<1>6. CASE ExpireNext(c)
  <2>1. PICK p \in request[c].todo :
          request' = [request EXCEPT ![c].stage = "get", ![c].id = p, ![c].todo = @ \ {p}]
    BY <1>6 DEF ExpireNext
  <2> DEFINE h == [request[c] EXCEPT !.stage = "get", !.id = p, !.todo = request[c].todo \ {p}]
  <2>2. h \in RequestRecords /\ h.stage = "get" /\ h.id = p /\ h.todo \subseteq request[c].todo
    BY <1>1 DEF RequestRecords, RemoveStages
  <2>3. request' = [request EXCEPT ![c] = h]  BY <1>1, <2>1
  <2> HIDE DEF h
  <2>4. Quiet(h)  BY <1>1, <1>2, <1>6, <2>2, <2>3 DEF ExpireNext, Working, CreateStages
  <2> QED  BY <2>4
<1>7. CASE RemoveGet(c)
  <2>1. CASE NextOrDone(c)
    <3>1. PICK h \in RequestRecords :
            /\ request' = [request EXCEPT ![c] = h]
            /\ h.stage = "none" /\ h.todo \subseteq request[c].todo
      BY <1>2, <2>1, RequestMoves
    <3>2. Quiet(h)  BY <1>1, <1>2, <1>7, <3>1 DEF RemoveGet, Working, CreateStages
    <3> QED  BY <3>2
  <2>2. CASE To(c, "mark")
    <3>1. PICK h \in RequestRecords :
            /\ request' = [request EXCEPT ![c] = h]
            /\ h.stage = "mark" /\ h.id = request[c].id /\ h.todo = request[c].todo
      BY <1>2, <2>2, RequestMoves DEF RemoveStages
    <3>2. Quiet(h)  BY <1>1, <1>2, <1>7, <3>1 DEF RemoveGet, At, Working, CreateStages
    <3> QED  BY <3>2
  <2> QED  BY <1>7, <2>1, <2>2 DEF RemoveGet
<1>8. CASE StatementFails(c)
  <2>1. UNCHANGED <<preview, store, known, overlapped>> /\ previewFaults' \in Nat
    BY <1>2, <1>8 DEF StatementFails
  <2>2. CASE request[c].stage \in CreateStages \ {"insert", "fail"}
    <3>1. PICK h \in RequestRecords :
            /\ request' = [request EXCEPT ![c] = h]
            /\ h.stage = "fail" /\ h.id = request[c].id /\ h.todo = request[c].todo
      BY <1>2, <1>8, <2>2, RequestMoves DEF StatementFails, CreateStages
    <3>2. Works(c, h.id)  BY <2>2, <3>1 DEF Works, Working, CreateStages
    <3>3. h.id \in Previews /\ Status(h.id) # "absent"
      BY <1>1, <2>2, <3>1 DEF CreateStages
    <3>4. h.id \notin overlapped => Reached("fail", h.id)
      <4>1. h.id \notin overlapped => Reached(request[c].stage, h.id)
        BY <3>2, <3>3, RequestFacts
      <4> QED  BY <2>2, <4>1 DEF Reached, CreateStages, Active
    <3>5. Quiet(h)  BY <1>1, <2>1, <3>1, <3>2, <3>3, <3>4
    <3> QED  BY <3>5
  <2>3. CASE request[c].stage \notin CreateStages \ {"insert", "fail"}
    <3>1. PICK h \in RequestRecords :
            /\ request' = [request EXCEPT ![c] = h]
            /\ h.stage = "none" /\ h.todo \subseteq request[c].todo
      BY <1>2, <1>8, <2>3, RequestMoves DEF StatementFails
    <3>2. Quiet(h)  BY <1>1, <2>1, <3>1 DEF Working, CreateStages
    <3> QED  BY <3>2
  <2> QED  BY <2>2, <2>3
<1>9. CASE \E p \in Previews : RequestRemove(c, p)
  <2>1. PICK p \in Previews : RequestRemove(c, p)  BY <1>9
  <2> DEFINE h == [request[c] EXCEPT !.stage = "get", !.id = p]
  <2>2. h \in RequestRecords /\ h.stage = "get" /\ h.id = p /\ h.todo = request[c].todo
    BY <1>1 DEF RequestRecords, RemoveStages
  <2>3. request' = [request EXCEPT ![c] = h]  BY <1>1, <2>1 DEF RequestRemove
  <2> HIDE DEF h
  <2>4. Quiet(h)  BY <1>1, <1>2, <2>1, <2>2, <2>3 DEF RequestRemove, Working, CreateStages
  <2> QED  BY <2>4
<1> QED  BY <1>3, <1>4, <1>5, <1>6, <1>7, <1>8, <1>9

\* A new preview: nobody knew its id.
LEMMA PreviewInsertKeeps ==
  ASSUME PreviewInv, NEW c \in Requests, PreviewInsert(c)
  PROVE  PreviewInv'
<1>1. request[c] \in RequestRecords /\ request \in [Requests -> RequestRecords]
      /\ \A q \in request[c].todo : q \in Previews /\ Status(q) # "absent"
  BY RequestFacts
<1>2. PreviewTypeOK /\ UNCHANGED <<store, known, overlapped, previewFaults>> /\ previewFaults \in Nat
  BY DEF PreviewInv, PreviewTypeOK, PreviewInsert
<1>3. PICK p \in Unborn :
       IF UniqueBranch(p)
       THEN /\ preview' = [preview EXCEPT ![p] = [NoRow EXCEPT !.status = "creating",
                                                               !.env = "active"]]
            /\ request' = [request EXCEPT ![c].stage = "schema", ![c].id = p]
       ELSE request' = [request EXCEPT ![c] = Done] /\ UNCHANGED preview
  BY DEF PreviewInsert
<1>4. CASE ~UniqueBranch(p)
  <2>1. request' = [request EXCEPT ![c] = Done] /\ UNCHANGED preview  BY <1>3, <1>4
  <2>2. Done.stage \notin Working  BY DoneIsRecord DEF Working, CreateStages
  <2> QED  BY <1>2, <2>1, <2>2, DoneIsRecord, PreviewQuiet
<1>5. CASE UniqueBranch(p)
  <2> DEFINE row == [NoRow EXCEPT !.status = "creating", !.env = "active"]
  <2>0. PICK h : h = [request[c] EXCEPT !.stage = "schema", !.id = p]
    OBVIOUS
  <2>1. p \in Previews /\ Status(p) = "absent"  BY DEF Unborn
  <2>2. h \in RequestRecords /\ h.stage = "schema" /\ h.id = p /\ h.todo = request[c].todo
    BY <1>1, <2>0, <2>1 DEF RequestRecords, CreateStages
  <2>3. request' = [request EXCEPT ![c] = h] /\ preview' = [preview EXCEPT ![p] = row]
    BY <1>1, <1>3, <1>5, <2>0
  <2>4. row \in PreviewRows /\ row.status = "creating" /\ row.env = "active"
    BY DEF NoRow, PreviewRows, Active
  <2> HIDE DEF row
  <2>5. preview \in [Previews -> PreviewRows] /\ store \in [Previews -> StoreRows]
        /\ known \in [PreviewInstances -> SUBSET Previews] /\ overlapped \subseteq Previews
    BY <1>2, PreviewTyped
  <2>6. preview' \in [Previews -> PreviewRows] /\ preview'[p] = row
        /\ \A q \in Previews \ {p} : preview'[q] = preview[q]
    BY <2>1, <2>3, <2>4, <2>5
  <2>7. Status(p)' = "creating"  BY <2>4, <2>6 DEF Status
  <2>8. Settled(p)'  BY <2>7 DEF Settled, Removed
  <2>9. \A d \in Requests : ~Works(d, p)
    BY <2>1, RequestFacts DEF Works, Working, CreateStages
  <2>10. Reached("schema", p)'
    <3>1. store[p] = Nothing /\ \A i \in PreviewInstances : p \notin known[i]
      BY <2>1 DEF PreviewInv, UnbornHaveNothing, Unborn
    <3>2. store'[p] = Nothing /\ \A i \in PreviewInstances : p \notin known'[i]  BY <1>2, <3>1
    <3> QED  BY <2>4, <2>6, <2>7, <3>2 DEF Reached
  <2>11. \A q \in h.todo : Status(q)' # "absent"
    <3> TAKE q \in h.todo
    <3>1. q \in Previews /\ q # p /\ Status(q) # "absent"  BY <1>1, <2>1, <2>2
    <3> QED  BY <3>1, <2>6 DEF Status
  <2>12. Reached(h.stage, h.id)'  BY <2>2, <2>10
  <2>13. Status(h.id)' # "absent"  BY <2>2, <2>7
  <2>14. \A q \in Previews \ {p} :
           /\ preview'[q] = preview[q] /\ store'[q] = store[q]
           /\ \A i \in PreviewInstances : q \in known'[i] => q \in known[i]
    BY <1>2, <2>6
  <2>15. /\ store' \in [Previews -> StoreRows] /\ known' \in [PreviewInstances -> SUBSET Previews]
         /\ overlapped \subseteq overlapped' /\ overlapped' \subseteq Previews /\ previewFaults' \in Nat
    BY <1>2, <2>5
  <2>16. h.stage \in Working /\ h.id \notin overlapped' =>
           /\ Works(c, h.id) \/ \A d \in Requests : ~Works(d, h.id)
           /\ Reached(h.stage, h.id)'
    <3>1. \A d \in Requests : ~Works(d, h.id)  BY <2>2, <2>9
    <3> QED  BY <3>1, <2>12
  <2>17. p \in Previews \ overlapped' =>
           Settled(p)' /\ \A d \in Requests \ {c} : ~Works(d, p)
    BY <2>8, <2>9
  <2>18. /\ p \in Previews => Status(p)' # "absent"
         /\ h.stage \notin {"none", "insert"} => h.id \in Previews /\ Status(h.id)' # "absent"
    BY <2>1, <2>2, <2>7, <2>13
  <2>19. h \in RequestRecords /\ request' = [request EXCEPT ![c] = h]
         /\ preview' \in [Previews -> PreviewRows]
    BY <2>2, <2>3, <2>6
  <2> HIDE DEF Status, Settled, Reached, Works
  <2> QED
    BY <2>11, <2>14, <2>15, <2>16, <2>17, <2>18, <2>19, PreviewStepKeeps
<1> QED  BY <1>4, <1>5

LEMMA SchemaIsEnsured ==
  ASSUME PreviewTypeOK, NEW i \in PreviewInstances, NEW p \in Previews, EnsureSchema(i, p)
  PROVE  /\ store' \in [Previews -> StoreRows] /\ known' \in [PreviewInstances -> SUBSET Previews]
         /\ p \notin known[i] => store'[p].schema = TRUE /\ store'[p].registered = TRUE
         /\ \A q \in Previews \ {p} : /\ store'[q] = store[q]
              /\ \A j \in PreviewInstances : q \in known'[j] => q \in known[j]
<1>1. store \in [Previews -> StoreRows] /\ known \in [PreviewInstances -> SUBSET Previews]
  BY PreviewTyped
<1>2. CASE p \in known[i]  BY <1>1, <1>2 DEF EnsureSchema
<1>3. CASE p \notin known[i]
  <2>1. /\ known' = [known EXCEPT ![i] = @ \cup {p}]
        /\ store' = [store EXCEPT ![p].schema = TRUE, ![p].registered = TRUE]
    BY <1>3 DEF EnsureSchema
  <2>2. known' \in [PreviewInstances -> SUBSET Previews]
        /\ \A q \in Previews \ {p}, j \in PreviewInstances : q \in known'[j] => q \in known[j]
    BY <1>1, <2>1
  <2>3. store' = [store EXCEPT ![p] = [store[p] EXCEPT !.schema = TRUE, !.registered = TRUE]]
    BY <1>1, <2>1
  <2>4. [store[p] EXCEPT !.schema = TRUE, !.registered = TRUE] \in StoreRows
    BY <1>1 DEF StoreRows
  <2>5. store' \in [Previews -> StoreRows] /\ \A q \in Previews \ {p} : store'[q] = store[q]
    BY <1>1, <2>3, <2>4
  <2>6. store'[p].schema = TRUE /\ store'[p].registered = TRUE
    BY <1>1, <2>3 DEF StoreRows
  <2> QED  BY <2>2, <2>5, <2>6
<1> QED  BY <1>2, <1>3

\* Statements that change what the schema and the registry hold of one preview.
LEMMA SchemaWorkKeeps ==
  ASSUME PreviewInv, NEW c \in Requests,
         PreviewSchema(c) \/ RemoveName(c)
  PROVE  PreviewInv'
<1>1. PICK p : p = request[c].id  OBVIOUS
<1>2. request[c].stage \in {"schema", "name"}  BY DEF PreviewSchema, RemoveName, At
<1>3. p \in Previews /\ Status(p) # "absent" /\ c[1] \in PreviewInstances
  BY <1>1, <1>2, RequestFacts
<1>4. Works(c, p)  BY <1>1, <1>2 DEF Works, Working, CreateStages
<1>5. p \notin overlapped => Reached(request[c].stage, p)  BY <1>3, <1>4, RequestFacts
<1>6. PreviewTypeOK /\ EnsureSchema(c[1], p) /\ UNCHANGED <<preview, overlapped, previewFaults>>
  BY <1>1 DEF PreviewInv, PreviewSchema, RemoveName
<1>7. /\ store' \in [Previews -> StoreRows] /\ known' \in [PreviewInstances -> SUBSET Previews]
      /\ p \notin known[c[1]] => store'[p].schema = TRUE /\ store'[p].registered = TRUE
      /\ \A q \in Previews \ {p} : /\ store'[q] = store[q]
           /\ \A j \in PreviewInstances : q \in known'[j] => q \in known[j]
  BY <1>3, <1>6, SchemaIsEnsured
<1>8. preview' \in [Previews -> PreviewRows] /\ preview' = preview  BY <1>6, PreviewTyped
<1>9. Status(p)' = Status(p)  BY <1>6 DEF Status
<1>10. PICK s : s \in {"clone", "drop"} /\ To(c, s)
               /\ (s = "clone" => request[c].stage = "schema")
               /\ (s = "drop" => request[c].stage = "name")
  BY DEF PreviewSchema, RemoveName, At
<1>11. PICK h \in RequestRecords :
          /\ request' = [request EXCEPT ![c] = h]
          /\ h.stage = s /\ h.id = request[c].id /\ h.todo = request[c].todo
  BY <1>6, <1>10, RequestMoves DEF CreateStages, RemoveStages
<1>12. p \notin overlapped => Status(p) \notin {"ready"} \cup Removed
  BY <1>2, <1>5 DEF Reached, Removed
<1>13. p \notin overlapped => Settled(p)'
  BY <1>9, <1>12 DEF Settled, Removed
<1>14. p \notin overlapped => Reached(h.stage, p)'
  <2>1. CASE s = "clone"
    BY <1>3, <1>5, <1>7, <1>8, <1>9, <1>10, <1>11, <2>1 DEF Reached
  <2>2. CASE s = "drop"
    BY <1>5, <1>9, <1>10, <1>11, <2>2 DEF Reached
  <2> QED  BY <1>10, <2>1, <2>2
<1>15. Status(p)' # "absent" /\ request[c].stage \in Working
  BY <1>2, <1>3, <1>9 DEF Working, CreateStages
<1> HIDE DEF Status, Settled, Reached
<1> QED
  BY <1>1, <1>6, <1>7, <1>8, <1>11, <1>13, <1>14, <1>15, WorkKeeps

LEMMA StoreRowMoves ==
  ASSUME PreviewTypeOK, NEW p \in Previews, NEW row \in StoreRows,
         store' = [store EXCEPT ![p] = row]
  PROVE  store' \in [Previews -> StoreRows] /\ store'[p] = row
         /\ \A q \in Previews \ {p} : store'[q] = store[q]
BY PreviewTyped

LEMMA PreviewRowMoves ==
  ASSUME PreviewTypeOK, NEW p \in Previews, NEW row \in PreviewRows,
         preview' = [preview EXCEPT ![p] = row]
  PROVE  preview' \in [Previews -> PreviewRows] /\ preview'[p] = row
         /\ \A q \in Previews \ {p} : preview'[q] = preview[q]
BY PreviewTyped

\* Tables, policies and the schema itself: the status stays.
LEMMA StoreWorkKeeps ==
  ASSUME PreviewInv, NEW c \in Requests,
         CloneTable(c) \/ ClonePolicies(c) \/ RemoveDrop(c)
  PROVE  PreviewInv'
<1>1. PICK p : p = request[c].id  OBVIOUS
<1>2. request[c].stage \in {"clone", "policies", "drop"}
  BY DEF CloneTable, ClonePolicies, RemoveDrop, At
<1>3. p \in Previews /\ Status(p) # "absent"  BY <1>1, <1>2, RequestFacts
<1>4. Works(c, p)  BY <1>1, <1>2 DEF Works, Working, CreateStages
<1>5. p \notin overlapped => Reached(request[c].stage, p)  BY <1>3, <1>4, RequestFacts
<1>6. PreviewTypeOK /\ UNCHANGED <<preview, known, overlapped, previewFaults>>
  BY DEF PreviewInv, CloneTable, ClonePolicies, RemoveDrop
<1>7. store[p] \in StoreRows /\ store \in [Previews -> StoreRows]  BY <1>3, <1>6, PreviewTyped
<1>8. \E row \in StoreRows, h \in RequestRecords :
        /\ store' = [store EXCEPT ![p] = row] /\ request' = [request EXCEPT ![c] = h]
        /\ h.id = p /\ h.todo = request[c].todo
        /\ \/ request[c].stage = "clone" /\ h.stage = "fail"
           \/ /\ request[c].stage = "clone" /\ h.stage = "policies"
              /\ row = store[p] /\ row.tables = Tables
           \/ /\ request[c].stage = "clone" /\ h.stage = "clone"
              /\ row.schema = store[p].schema /\ row.registered = store[p].registered
           \/ /\ request[c].stage = "policies" /\ h.stage = "ready" /\ row.policies = TRUE
              /\ row.schema = store[p].schema /\ row.registered = store[p].registered
              /\ row.tables = store[p].tables
           \/ /\ request[c].stage = "drop" /\ h.stage = "finish"
              /\ row.schema = FALSE /\ row.tables = {}
  <2>1. CASE CloneTable(c)
    <3>1. CASE store[p].tables = Tables
      <4>1. To(c, "policies") /\ UNCHANGED store /\ request[c].stage = "clone"
        BY <1>1, <2>1, <3>1 DEF CloneTable, At
      <4>2. store' = [store EXCEPT ![p] = store[p]]  BY <1>3, <1>7, <4>1
      <4>3. PICK h \in RequestRecords :
              /\ request' = [request EXCEPT ![c] = h]
              /\ h.stage = "policies" /\ h.id = request[c].id /\ h.todo = request[c].todo
        BY <1>6, <4>1, RequestMoves DEF CreateStages
      <4> QED  BY <1>1, <1>7, <3>1, <4>1, <4>2, <4>3
    <3>2. CASE store[p].tables # Tables /\ store[p].schema
      <4>1. PICK t \in Tables : store' = [store EXCEPT ![p].tables = @ \cup {t}]
        BY <1>1, <2>1, <3>2 DEF CloneTable
      <4>2. UNCHANGED request /\ request[c].stage = "clone"
        BY <1>1, <2>1, <3>2 DEF CloneTable, At
      <4>3. PICK row : row = [store[p] EXCEPT !.tables = store[p].tables \cup {t}]  OBVIOUS
      <4>4. row \in StoreRows /\ row.schema = store[p].schema /\ row.registered = store[p].registered
        BY <1>7, <4>3 DEF StoreRows
      <4>5. store' = [store EXCEPT ![p] = row]  BY <1>3, <1>7, <4>1, <4>3
      <4>6. request[c] \in RequestRecords /\ request' = [request EXCEPT ![c] = request[c]]
        BY <4>2, RequestFacts
      <4> QED  BY <1>1, <4>2, <4>4, <4>5, <4>6
    <3>3. CASE store[p].tables # Tables /\ ~store[p].schema
      <4>1. To(c, "fail") /\ UNCHANGED store /\ request[c].stage = "clone"
        BY <1>1, <2>1, <3>3 DEF CloneTable, At
      <4>2. store' = [store EXCEPT ![p] = store[p]]  BY <1>3, <1>7, <4>1
      <4>3. PICK h \in RequestRecords :
              /\ request' = [request EXCEPT ![c] = h]
              /\ h.stage = "fail" /\ h.id = request[c].id /\ h.todo = request[c].todo
        BY <1>6, <4>1, RequestMoves DEF CreateStages
      <4> QED  BY <1>1, <1>7, <4>1, <4>2, <4>3
    <3> QED  BY <3>1, <3>2, <3>3
  <2>2. CASE ClonePolicies(c)
    <3>1. To(c, "ready") /\ store' = [store EXCEPT ![p].policies = TRUE] /\ request[c].stage = "policies"
      BY <1>1, <2>2 DEF ClonePolicies, At
    <3>2. PICK row : row = [store[p] EXCEPT !.policies = TRUE]  OBVIOUS
    <3>3. row \in StoreRows /\ row.policies = TRUE /\ row.schema = store[p].schema
          /\ row.registered = store[p].registered /\ row.tables = store[p].tables
      BY <1>7, <3>2 DEF StoreRows
    <3>4. store' = [store EXCEPT ![p] = row]  BY <1>3, <1>7, <3>1, <3>2
    <3>5. PICK h \in RequestRecords :
              /\ request' = [request EXCEPT ![c] = h]
              /\ h.stage = "ready" /\ h.id = request[c].id /\ h.todo = request[c].todo
      BY <1>6, <3>1, RequestMoves DEF CreateStages
    <3> QED  BY <1>1, <3>1, <3>3, <3>4, <3>5, ZenonT(60)
  <2>3. CASE RemoveDrop(c)
    <3>1. To(c, "finish") /\ request[c].stage = "drop"
          /\ store' = [store EXCEPT ![p].schema = FALSE, ![p].tables = {}]
      BY <1>1, <2>3 DEF RemoveDrop, DropSchema, At
    <3>2. PICK row : row = [store[p] EXCEPT !.schema = FALSE, !.tables = {}]  OBVIOUS
    <3>3. row \in StoreRows /\ row.schema = FALSE /\ row.tables = {}
      BY <1>7, <3>2 DEF StoreRows
    <3>4. store' = [store EXCEPT ![p] = row]  BY <1>3, <1>7, <3>1, <3>2
    <3>5. PICK h \in RequestRecords :
              /\ request' = [request EXCEPT ![c] = h]
              /\ h.stage = "finish" /\ h.id = request[c].id /\ h.todo = request[c].todo
      BY <1>6, <3>1, RequestMoves DEF RemoveStages
    <3> QED  BY <1>1, <3>1, <3>3, <3>4, <3>5
  <2> QED  BY <2>1, <2>2, <2>3
<1>9. PICK row \in StoreRows, h \in RequestRecords :
        /\ store' = [store EXCEPT ![p] = row] /\ request' = [request EXCEPT ![c] = h]
        /\ h.id = p /\ h.todo = request[c].todo
        /\ \/ request[c].stage = "clone" /\ h.stage = "fail"
           \/ /\ request[c].stage = "clone" /\ h.stage = "policies"
              /\ row = store[p] /\ row.tables = Tables
           \/ /\ request[c].stage = "clone" /\ h.stage = "clone"
              /\ row.schema = store[p].schema /\ row.registered = store[p].registered
           \/ /\ request[c].stage = "policies" /\ h.stage = "ready" /\ row.policies = TRUE
              /\ row.schema = store[p].schema /\ row.registered = store[p].registered
              /\ row.tables = store[p].tables
           \/ /\ request[c].stage = "drop" /\ h.stage = "finish"
              /\ row.schema = FALSE /\ row.tables = {}
  BY <1>8
<1>10. store' \in [Previews -> StoreRows] /\ store'[p] = row
       /\ \A q \in Previews \ {p} : store'[q] = store[q]
  BY <1>3, <1>6, <1>9, StoreRowMoves
<1>11. preview' \in [Previews -> PreviewRows] /\ known' \in [PreviewInstances -> SUBSET Previews]
       /\ preview' = preview /\ known' = known
  BY <1>6, PreviewTyped
<1>12. Status(p)' = Status(p)  BY <1>6 DEF Status
<1>13. p \notin overlapped => Status(p) \in {"creating", "deleting"}
  BY <1>2, <1>5 DEF Reached
<1>14. p \notin overlapped => Settled(p)'  BY <1>12, <1>13 DEF Settled, Removed
<1>15. p \notin overlapped => Reached(h.stage, p)'
  <2> SUFFICES ASSUME p \notin overlapped  PROVE Reached(h.stage, p)'
    OBVIOUS
  <2>1. preview'[p] = preview[p]  BY <1>11
  <2> QED  BY <1>5, <1>9, <1>10, <1>12, <2>1 DEF Reached, Active
<1>16. Status(p)' # "absent" /\ request[c].stage \in Working
  BY <1>2, <1>3, <1>12 DEF Working, CreateStages
<1>17. \A q \in Previews \ {p} :
         /\ preview'[q] = preview[q] /\ store'[q] = store[q]
         /\ \A i \in PreviewInstances : q \in known'[i] => q \in known[i]
  BY <1>10, <1>11
<1>18. h.todo \subseteq request[c].todo /\ (h.stage # "none" => h.id = p)
       /\ request' = [request EXCEPT ![c] = h]
  BY <1>9
<1> HIDE DEF Status, Settled, Reached
<1> QED
  BY <1>1, <1>6, <1>10, <1>11, <1>14, <1>15, <1>16, <1>17, <1>18, WorkKeeps

\* The status of a preview that its request has made, or has not.
LEMMA CreationEndKeeps ==
  ASSUME PreviewInv, NEW c \in Requests,
         MakeReady(c) \/ CreateFailed(c)
  PROVE  PreviewInv'
<1>1. PICK p : p = request[c].id  OBVIOUS
<1>2. request[c].stage \in {"ready", "fail"}  BY DEF MakeReady, CreateFailed, At
<1>3. p \in Previews /\ Status(p) # "absent"  BY <1>1, <1>2, RequestFacts
<1>4. Works(c, p)  BY <1>1, <1>2 DEF Works, Working, CreateStages
<1>5. p \notin overlapped => Reached(request[c].stage, p)  BY <1>3, <1>4, RequestFacts
<1>6. PreviewTypeOK /\ UNCHANGED <<store, known, overlapped, previewFaults>>
      /\ previewFaults' \in Nat
  BY DEF PreviewInv, PreviewTypeOK, MakeReady, CreateFailed
<1>7. preview[p] \in PreviewRows /\ preview \in [Previews -> PreviewRows]
      /\ store[p] \in StoreRows /\ store' \in [Previews -> StoreRows]
      /\ known' \in [PreviewInstances -> SUBSET Previews]
  BY <1>3, <1>6, PreviewTyped
<1>8. CASE UNCHANGED preview /\ To(c, "fail") /\ request[c].stage = "ready"
  <2>1. PICK h \in RequestRecords :
          /\ request' = [request EXCEPT ![c] = h]
          /\ h.stage = "fail" /\ h.id = request[c].id /\ h.todo = request[c].todo
    BY <1>6, <1>8, RequestMoves DEF CreateStages
  <2>2. Works(c, h.id)  BY <1>1, <1>4, <2>1
  <2>3. h.id \notin overlapped => Reached(h.stage, h.id)
    BY <1>1, <1>5, <1>8, <2>1 DEF Reached, Active
  <2>4. h.id \in Previews /\ Status(h.id) # "absent"  BY <1>1, <1>3, <2>1
  <2>5. \A q \in h.todo : Status(q) # "absent"  BY <2>1, RequestFacts
  <2> HIDE DEF Status, Reached, Works
  <2> QED  BY <1>6, <1>8, <2>1, <2>2, <2>3, <2>4, <2>5, PreviewQuiet
<1>9. ASSUME NEW s \in {"ready", "failed"}, preview' = [preview EXCEPT ![p].status = s],
             NEW h \in RequestRecords, request' = [request EXCEPT ![c] = h],
             s = "ready" => request[c].stage = "ready" /\ h.stage = "audit" /\ h.id = p
                            /\ h.todo = request[c].todo,
             s = "failed" => h = Done
      PROVE  PreviewInv'
  <2>1. PICK row : row = [preview[p] EXCEPT !.status = s]  OBVIOUS
  <2>2. row \in PreviewRows /\ row.status = s /\ row.env = preview[p].env
    BY <1>7, <2>1 DEF PreviewRows, Active
  <2>3. preview' = [preview EXCEPT ![p] = row]  BY <1>3, <1>7, <1>9, <2>1
  <2>4. preview' \in [Previews -> PreviewRows] /\ preview'[p] = row
        /\ \A q \in Previews \ {p} : preview'[q] = preview[q]
    BY <1>3, <1>6, <2>2, <2>3, PreviewRowMoves
  <2>5. Status(p)' = s /\ store'[p] = store[p]  BY <1>6, <2>2, <2>4 DEF Status
  <2>6. p \notin overlapped => Settled(p)'
    <3>1. CASE s = "ready"
      <4> SUFFICES ASSUME p \notin overlapped  PROVE Settled(p)'
        OBVIOUS
      <4>1. /\ store[p].schema = TRUE /\ store[p].registered = TRUE
            /\ store[p].tables = Tables /\ store[p].policies = TRUE /\ preview[p].env = "active"
        BY <1>5, <1>9, <3>1 DEF Reached
      <4>2. store[p] = [schema |-> TRUE, tables |-> Tables, registered |-> TRUE, policies |-> TRUE]
        BY <1>7, <4>1 DEF StoreRows
      <4> QED  BY <2>2, <2>4, <2>5, <3>1, <4>1, <4>2 DEF Settled, Removed
    <3>2. CASE s = "failed"  BY <2>5, <3>2 DEF Settled, Removed
    <3> QED  BY <3>1, <3>2
  <2>7. h.stage \in Working /\ p \notin overlapped => Reached(h.stage, p)'
    <3>1. CASE s = "ready"  BY <1>9, <2>5, <3>1 DEF Reached
    <3>2. CASE s = "failed"  BY <1>9, <3>2, DoneIsRecord DEF Working, CreateStages
    <3> QED  BY <3>1, <3>2
  <2>8. h.todo \subseteq request[c].todo /\ (h.stage # "none" => h.id = p)
    BY <1>9, DoneIsRecord
  <2>9. Status(p)' # "absent" /\ request[c].stage \in Working
    BY <1>4, <2>5 DEF Works
  <2>10. \A q \in Previews \ {p} :
           /\ preview'[q] = preview[q] /\ store'[q] = store[q]
           /\ \A i \in PreviewInstances : q \in known'[i] => q \in known[i]
    BY <1>6, <2>4
  <2>11. request' = [request EXCEPT ![c] = h]  BY <1>9
  <2> HIDE DEF Status, Settled, Reached
  <2> QED
    BY <1>1, <1>6, <1>7, <2>4, <2>6, <2>7, <2>8, <2>9, <2>10, <2>11, WorkKeeps
<1>10. CASE MakeReady(c) /\ ~UniqueBranch(p)
  BY <1>1, <1>8, <1>10 DEF MakeReady, At
<1>11. CASE MakeReady(c) /\ UniqueBranch(p)
  <2>1. preview' = [preview EXCEPT ![p].status = "ready"] /\ To(c, "audit") /\ request[c].stage = "ready"
    BY <1>1, <1>11 DEF MakeReady, At
  <2>2. PICK h \in RequestRecords :
          /\ request' = [request EXCEPT ![c] = h]
          /\ h.stage = "audit" /\ h.id = request[c].id /\ h.todo = request[c].todo
    BY <1>6, <2>1, RequestMoves DEF CreateStages
  <2> QED  BY <1>1, <1>9, <2>1, <2>2
<1>12. CASE CreateFailed(c)
  <2>1. preview' = [preview EXCEPT ![p].status = "failed"] /\ request' = [request EXCEPT ![c] = Done]
    BY <1>1, <1>12 DEF CreateFailed, MarkFailed
  <2> QED  BY <1>9, <2>1, DoneIsRecord
<1> QED  BY <1>10, <1>11, <1>12

\* A removal that shares the preview with no other request begins alone.
LEMMA RemoveMarkKeeps ==
  ASSUME PreviewInv, NEW c \in Requests, RemoveMark(c)
  PROVE  PreviewInv'
<1>1. PICK p : p = request[c].id  OBVIOUS
<1>2. request[c].stage = "mark"  BY DEF RemoveMark, At
<1>3. p \in Previews /\ Status(p) # "absent"  BY <1>1, <1>2, RequestFacts
<1>4. /\ preview' = [preview EXCEPT ![p].status = "deleting"]
      /\ overlapped' = IF Shared(p, c) THEN overlapped \cup {p} ELSE overlapped
      /\ To(c, "name") /\ UNCHANGED <<store, known, previewFaults>>
  BY <1>1 DEF RemoveMark
<1>5. PreviewTypeOK /\ previewFaults' \in Nat
  BY <1>4 DEF PreviewInv, PreviewTypeOK
<1>6. preview[p] \in PreviewRows /\ preview \in [Previews -> PreviewRows]
      /\ store' \in [Previews -> StoreRows] /\ known' \in [PreviewInstances -> SUBSET Previews]
      /\ overlapped \subseteq Previews
  BY <1>3, <1>4, <1>5, PreviewTyped
<1>7. PICK h \in RequestRecords :
        /\ request' = [request EXCEPT ![c] = h]
        /\ h.stage = "name" /\ h.id = request[c].id /\ h.todo = request[c].todo
  BY <1>4, <1>5, RequestMoves DEF RemoveStages
<1>8. PICK row : row = [preview[p] EXCEPT !.status = "deleting"]  OBVIOUS
<1>9. row \in PreviewRows /\ row.status = "deleting"  BY <1>6, <1>8 DEF PreviewRows
<1>10. preview' = [preview EXCEPT ![p] = row]  BY <1>3, <1>4, <1>6, <1>8
<1>11. preview' \in [Previews -> PreviewRows] /\ preview'[p] = row
       /\ \A q \in Previews \ {p} : preview'[q] = preview[q]
  BY <1>3, <1>5, <1>9, <1>10, PreviewRowMoves
<1>12. Status(p)' = "deleting"  BY <1>9, <1>11 DEF Status
<1>13. p \notin overlapped' => \A d \in Requests : ~Works(d, p)
  <2> SUFFICES ASSUME p \notin overlapped', NEW d \in Requests, Works(d, p)  PROVE FALSE
    OBVIOUS
  <2>1. ~Shared(p, c)  BY <1>4
  <2>2. d = c  BY <2>1 DEF Shared, Works, Working, CreateStages
  <2> QED  BY <1>2, <2>2 DEF Works, Working, CreateStages
<1>14. Settled(p)' /\ Reached("name", p)'  BY <1>12 DEF Settled, Reached, Removed
<1>15. \A q \in h.todo : Status(q)' # "absent"
  <2> TAKE q \in h.todo
  <2>1. q \in Previews /\ Status(q) # "absent"  BY <1>7, RequestFacts
  <2> QED  BY <2>1, <1>11, <1>12 DEF Status
<1>16. h.stage \in Working /\ h.id \notin overlapped' =>
         /\ Works(c, h.id) \/ \A d \in Requests : ~Works(d, h.id)
         /\ Reached(h.stage, h.id)'
  <2>1. h.id = p /\ h.stage = "name"  BY <1>1, <1>7
  <2>2. Reached(h.stage, h.id)'  BY <2>1, <1>14
  <2> QED  BY <2>1, <2>2, <1>13
<1>17. h.stage \notin {"none", "insert"} => h.id \in Previews /\ Status(h.id)' # "absent"
  <2>1. h.id = p  BY <1>1, <1>7
  <2> QED  BY <2>1, <1>3, <1>12
<1>18. \A q \in Previews \ {p} :
         /\ preview'[q] = preview[q] /\ store'[q] = store[q]
         /\ \A i \in PreviewInstances : q \in known'[i] => q \in known[i]
  BY <1>4, <1>11
<1>19. overlapped \subseteq overlapped' /\ overlapped' \subseteq Previews
  BY <1>3, <1>4, <1>6
<1>20. /\ p \in Previews => Status(p)' # "absent"
       /\ p \in Previews \ overlapped' =>
            Settled(p)' /\ \A d \in Requests \ {c} : ~Works(d, p)
  BY <1>12, <1>13, <1>14
<1> HIDE DEF Status, Settled, Reached, Works, Shared
<1> QED
  BY <1>5, <1>6, <1>7, <1>11, <1>15, <1>16, <1>17, <1>18, <1>19, <1>20, PreviewStepKeeps

\* Once the schema is dropped the registry row and the policies go.
LEMMA RemoveFinishKeeps ==
  ASSUME PreviewInv, NEW c \in Requests, RemoveFinish(c)
  PROVE  PreviewInv'
<1>1. PICK p : p = request[c].id  OBVIOUS
<1>2. request[c].stage = "finish"  BY DEF RemoveFinish, At
<1>3. p \in Previews /\ Status(p) # "absent" /\ request[c] \in RequestRecords
  BY <1>1, <1>2, RequestFacts
<1>4. Works(c, p) /\ request[c].stage \in Working  BY <1>1, <1>2 DEF Works, Working
<1>5. p \notin overlapped => Reached("finish", p)  BY <1>2, <1>3, <1>4, RequestFacts
<1>6. PICK reason : reason = request[c].reason  OBVIOUS
<1>7. reason \in Removed  BY <1>3, <1>6 DEF RequestRecords
<1>8. /\ store' = [store EXCEPT ![p].registered = FALSE, ![p].policies = FALSE]
      /\ preview' = [preview EXCEPT ![p].status = reason, ![p].env = "disabled"]
      /\ NextOrDone(c) /\ UNCHANGED <<known, overlapped, previewFaults>>
  BY <1>1, <1>6 DEF RemoveFinish
<1>9. PreviewTypeOK  BY DEF PreviewInv
<1>10. /\ preview[p] \in PreviewRows /\ preview \in [Previews -> PreviewRows]
       /\ store[p] \in StoreRows /\ store \in [Previews -> StoreRows]
       /\ known' \in [PreviewInstances -> SUBSET Previews]
  BY <1>3, <1>8, <1>9, PreviewTyped
<1>11. PICK h \in RequestRecords :
         /\ request' = [request EXCEPT ![c] = h]
         /\ h.stage = "none" /\ h.todo \subseteq request[c].todo
  BY <1>8, <1>9, RequestMoves
<1>12. PICK row : row = [preview[p] EXCEPT !.status = reason, !.env = "disabled"]  OBVIOUS
<1>13. row \in PreviewRows /\ row.status = reason /\ row.env = "disabled"
  BY <1>7, <1>10, <1>12 DEF PreviewRows
<1>14. preview' = [preview EXCEPT ![p] = row]  BY <1>3, <1>8, <1>10, <1>12
<1>15. preview' \in [Previews -> PreviewRows] /\ preview'[p] = row
       /\ \A q \in Previews \ {p} : preview'[q] = preview[q]
  BY <1>3, <1>9, <1>13, <1>14, PreviewRowMoves
<1>16. PICK kept : kept = [store[p] EXCEPT !.registered = FALSE, !.policies = FALSE]  OBVIOUS
<1>17. /\ kept \in StoreRows /\ kept.registered = FALSE /\ kept.policies = FALSE
       /\ kept.schema = store[p].schema /\ kept.tables = store[p].tables
  BY <1>10, <1>16 DEF StoreRows
<1>18. store' = [store EXCEPT ![p] = kept]  BY <1>3, <1>8, <1>10, <1>16
<1>19. store' \in [Previews -> StoreRows] /\ store'[p] = kept
       /\ \A q \in Previews \ {p} : store'[q] = store[q]
  BY <1>3, <1>9, <1>17, <1>18, StoreRowMoves
<1>20. p \notin overlapped => store'[p] = Nothing
  <2> SUFFICES ASSUME p \notin overlapped  PROVE store'[p] = Nothing
    OBVIOUS
  <2>1. kept.schema = FALSE /\ kept.tables = {}  BY <1>5, <1>17 DEF Reached
  <2> QED  BY <2>1, <1>17, <1>19 DEF StoreRows, Nothing
<1>21. Status(p)' = reason /\ preview'[p].env = "disabled"  BY <1>13, <1>15 DEF Status
<1>22. p \notin overlapped => Settled(p)'
  BY <1>7, <1>20, <1>21 DEF Settled, Removed
<1>23. Status(p)' # "absent"  BY <1>7, <1>21 DEF Removed
<1>24. h.stage \in Working /\ p \notin overlapped => Reached(h.stage, p)'
  BY <1>11 DEF Working, CreateStages
<1>25. \A q \in Previews \ {p} :
         /\ preview'[q] = preview[q] /\ store'[q] = store[q]
         /\ \A i \in PreviewInstances : q \in known'[i] => q \in known[i]
  BY <1>8, <1>15, <1>19
<1> HIDE DEF Status, Settled, Reached, Works
<1> QED
  BY <1>1, <1>4, <1>8, <1>10, <1>11, <1>15, <1>19, <1>22, <1>23, <1>24, <1>25, WorkKeeps, ZenonT(60)

LEMMA PreviewExpiresKeeps ==
  ASSUME PreviewInv, NEW p \in Previews, PreviewExpires(p)
  PROVE  PreviewInv'
<1>1. /\ preview' = [preview EXCEPT ![p].due = TRUE]
      /\ UNCHANGED <<store, known, request, overlapped, previewFaults>>
  BY DEF PreviewExpires
<1>2. PreviewTypeOK  BY DEF PreviewInv
<1>3. preview[p] \in PreviewRows /\ preview \in [Previews -> PreviewRows]  BY <1>2, PreviewTyped
<1>4. PICK row : row = [preview[p] EXCEPT !.due = TRUE]  OBVIOUS
<1>5. row \in PreviewRows /\ row.status = preview[p].status /\ row.env = preview[p].env
  BY <1>3, <1>4 DEF PreviewRows
<1>6. preview' = [preview EXCEPT ![p] = row]  BY <1>1, <1>3, <1>4
<1>7. preview' \in [Previews -> PreviewRows] /\ preview'[p] = row
      /\ \A q \in Previews \ {p} : preview'[q] = preview[q]
  BY <1>2, <1>5, <1>6, PreviewRowMoves
<1>8. \A q \in Previews : preview'[q].status = preview[q].status /\ preview'[q].env = preview[q].env
  BY <1>5, <1>7
<1>9. PreviewTypeOK'  BY <1>1, <1>2, <1>7, PreviewTyped DEF PreviewTypeOK, PreviewRows
<1>10. RequestsAreBorn'
  <2>1. \A c \in Requests : request[c] \in RequestRecords  BY <1>2, PreviewTyped
  <2>2. \A c \in Requests : request[c].todo \subseteq Previews  BY <2>1 DEF RequestRecords
  <2> QED  BY <1>1, <1>8, <2>2 DEF PreviewInv, RequestsAreBorn, Status
<1>11. UnbornHaveNothing'
  BY <1>1, <1>8 DEF PreviewInv, UnbornHaveNothing, Unborn, Status
<1>12. ASSUME NEW q \in Previews \ overlapped'  PROVE OneWorks(q)' /\ Settled(q)'
  <2>1. OneWorks(q) /\ Settled(q)  BY <1>1 DEF PreviewInv
  <2>2. Status(q)' = Status(q) /\ preview'[q].env = preview[q].env  BY <1>8 DEF Status
  <2>3. Settled(q)'  BY <1>1, <2>1, <2>2 DEF Settled
  <2>4. \A s : Reached(s, q) => Reached(s, q)'  BY <1>1, <2>2 DEF Reached
  <2>5. OneWorks(q)'
    <3>1. \A c \in Requests : Works(c, q)' <=> Works(c, q)  BY <1>1 DEF Works
    <3>2. \A c \in Requests : Works(c, q) => Reached(request[c].stage, q)  BY <2>1 DEF OneWorks
    <3>3. \A c \in Requests : Works(c, q) =>
            \A s : s = request[c].stage => Reached(s, q)'
      BY <2>4, <3>2
    <3>4. \A c, d \in Requests : Works(c, q)' /\ Works(d, q)' => c = d
      BY <2>1, <3>1 DEF OneWorks
    <3> QED  BY <1>1, <3>1, <3>3, <3>4 DEF OneWorks, Reached, Status
  <2> QED  BY <2>3, <2>5
<1> QED  BY <1>9, <1>10, <1>11, <1>12 DEF PreviewInv

\* A process that ends forgets its requests and the schemas it knows.
LEMMA ProcessEndsKeeps ==
  ASSUME PreviewInv, NEW i \in PreviewInstances, ProcessEnds(i)
  PROVE  PreviewInv'
<1>1. /\ known' = [known EXCEPT ![i] = {}] /\ previewFaults' = previewFaults + 1
      /\ request' = [c \in Requests |-> IF c[1] = i THEN Done ELSE request[c]]
      /\ UNCHANGED <<preview, store, overlapped>>
  BY DEF ProcessEnds
<1>2. PreviewTypeOK /\ request \in [Requests -> RequestRecords] /\ previewFaults \in Nat
  BY PreviewTyped DEF PreviewInv
<1>3. known \in [PreviewInstances -> SUBSET Previews]  BY <1>2, PreviewTyped
<1>4. known' \in [PreviewInstances -> SUBSET Previews]
      /\ \A j \in PreviewInstances : known'[j] \subseteq known[j]
  BY <1>1, <1>3
<1>5. \A c \in Requests : request'[c] = Done \/ request'[c] = request[c]  BY <1>1
<1>6. request' \in [Requests -> RequestRecords]
  BY <1>1, <1>2, DoneIsRecord
<1>7. PreviewTypeOK'
  BY <1>1, <1>2, <1>4, <1>6 DEF PreviewTypeOK, RequestRecords
<1>8. RequestsAreBorn'
  <2> SUFFICES ASSUME NEW c \in Requests, NEW g, g = request'[c]
               PROVE  /\ g.stage \notin {"none", "insert"} =>
                           g.id \in Previews /\ preview'[g.id].status # "absent"
                      /\ \A q \in g.todo : preview'[q].status # "absent"
    BY DEF RequestsAreBorn, Status
  <2>1. CASE g = Done  BY <2>1, DoneIsRecord
  <2>2. CASE g = request[c]  BY <1>1, <2>2 DEF PreviewInv, RequestsAreBorn, Status
  <2> QED  BY <1>5, <2>1, <2>2
<1>9. UnbornHaveNothing'
  BY <1>1, <1>4 DEF PreviewInv, UnbornHaveNothing, Unborn, Status
<1>10. ASSUME NEW q \in Previews \ overlapped'  PROVE OneWorks(q)' /\ Settled(q)'
  <2>1. OneWorks(q) /\ Settled(q)  BY <1>1 DEF PreviewInv
  <2>2. Settled(q)'  BY <1>1, <2>1 DEF Settled, Status
  <2>3. \A c \in Requests : Works(c, q)' => Works(c, q) /\ request'[c] = request[c]
    BY <1>5, DoneIsRecord DEF Works, Working, CreateStages
  <2>4. \A s : Reached(s, q) => Reached(s, q)'  BY <1>1, <1>4 DEF Reached, Status
  <2>5. \A c \in Requests : Works(c, q) => Reached(request[c].stage, q)  BY <2>1 DEF OneWorks
  <2>6. \A c \in Requests : Works(c, q)' => \A s : s = request'[c].stage => Reached(s, q)'
    BY <2>3, <2>4, <2>5
  <2>7. \A c, d \in Requests : Works(c, q)' /\ Works(d, q)' => c = d
    BY <2>1, <2>3 DEF OneWorks
  <2>8. OneWorks(q)'  BY <2>6, <2>7 DEF OneWorks, Reached, Status
  <2> QED  BY <2>2, <2>8
<1> QED  BY <1>7, <1>8, <1>9, <1>10 DEF PreviewInv

LEMMA PreviewInvStep == PreviewInv /\ [PreviewNext]_previewVars => PreviewInv'
<1> SUFFICES ASSUME PreviewInv, [PreviewNext]_previewVars  PROVE PreviewInv'
  OBVIOUS
<1>1. ASSUME NEW c \in Requests,
             \/ PreviewCheck(c) \/ Creating(c) \/ ExpireDue(c) \/ Removing(c) \/ StatementFails(c)
             \/ \E p \in Previews : RequestRemove(c, p)
      PROVE  PreviewInv'
  <2>1. CASE \/ PreviewCheck(c) \/ AuditCreated(c) \/ ExpireDue(c) \/ ExpireNext(c) \/ RemoveGet(c)
             \/ StatementFails(c) \/ \E p \in Previews : RequestRemove(c, p)
    BY <2>1, PreviewQuietSteps
  <2>2. CASE PreviewInsert(c)  BY <2>2, PreviewInsertKeeps
  <2>3. CASE PreviewSchema(c) \/ RemoveName(c)  BY <2>3, SchemaWorkKeeps
  <2>4. CASE CloneTable(c) \/ ClonePolicies(c) \/ RemoveDrop(c)  BY <2>4, StoreWorkKeeps
  <2>5. CASE MakeReady(c) \/ CreateFailed(c)  BY <2>5, CreationEndKeeps
  <2>6. CASE RemoveMark(c)  BY <2>6, RemoveMarkKeeps
  <2>7. CASE RemoveFinish(c)  BY <2>7, RemoveFinishKeeps
  <2> QED  BY <1>1, <2>1, <2>2, <2>3, <2>4, <2>5, <2>6, <2>7 DEF Creating, Removing
<1>2. ASSUME NEW p \in Previews, PreviewExpires(p)  PROVE PreviewInv'
  BY <1>2, PreviewExpiresKeeps
<1>3. ASSUME NEW i \in PreviewInstances, ProcessEnds(i)  PROVE PreviewInv'
  BY <1>3, ProcessEndsKeeps
<1>4. CASE UNCHANGED previewVars
  BY <1>4 DEF previewVars, PreviewInv, PreviewTypeOK, RequestsAreBorn, UnbornHaveNothing, Unborn,
     OneWorks, Works, Reached, Settled, Status
<1> QED  BY <1>1, <1>2, <1>3, <1>4 DEF PreviewNext

LEMMA PreviewInvHolds == PreviewSpec => []PreviewInv
BY PreviewInvInit, PreviewInvStep, PTL DEF PreviewSpec

\* The rows, the stores and the requests keep their types.
THEOREM PreviewTypesCorrect == PreviewSpec => []PreviewTypeOK
<1>1. PreviewInv => PreviewTypeOK  BY DEF PreviewInv
<1> QED  BY <1>1, PreviewInvHolds, PTL

\* A preview that is ready has everything that was copied for it, whatever
\* fails or ends, for any number of processes, requests, previews and tables.
THEOREM ReadyStaysUsable == PreviewSpec => []ReadyIsUsable
<1>1. PreviewInv => ReadyIsUsable  BY DEF PreviewInv, Settled, ReadyIsUsable
<1> QED  BY <1>1, PreviewInvHolds, PTL

\* A preview that is gone has left nothing behind, however often its removal
\* failed or was repeated.
THEOREM RemovedStaysEmpty == PreviewSpec => []RemovedHoldsNothing
<1>1. PreviewInv => RemovedHoldsNothing  BY DEF PreviewInv, Settled, RemovedHoldsNothing
<1> QED  BY <1>1, PreviewInvHolds, PTL

=============================================================================
