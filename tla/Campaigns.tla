------------------------------- MODULE Campaigns -------------------------------
(***************************************************************************)
(* Push messages (src/server/platform/messagingEngine.ts) and the          *)
(* campaigns that send them, or mails and text messages                    *)
(* (src/server/platform/advancedPlatformEngine.ts).  Requests of the       *)
(* console and the timers of every instance work on the rows side by side: *)
(* a campaign is claimed by its UPDATE, a push message is only looked at.  *)
(* A step is one statement, or a part of a round of deliveries.            *)
(***************************************************************************)
EXTENDS Naturals, FiniteSets

CONSTANTS
  Messages,           \* ids of push messages
  CampaignIds,
  Senders,            \* bound: requests and passes of the timers under way
  NoItem,
  MaxSendFaults,      \* bound: statements that fail and senders that die
  MaxSlowSends        \* bound: campaigns that are sent for 15 minutes

ASSUME CampaignAssumption ==
  /\ Messages \cap CampaignIds = {} /\ NoItem \notin Messages \cup CampaignIds
  /\ MaxSendFaults \in Nat /\ MaxSlowSends \in Nat

VARIABLES
  message,      \* rows of messaging_messages
  campaign,     \* rows of messaging_campaigns
  sender,       \* the requests and passes
  pushed,       \* history: messages a timer or a campaign has delivered
  again,        \* history: and then once more
  late,         \* history: senders that held a message when it was cancelled
  reached,      \* history: campaigns whose recipients somebody reached
  others,       \* history: those that a timer or a request delivered
  disturbed,    \* history: campaigns recovered, or failed after a delivery
  sendFaults, slowSends

campaignVars == <<message, campaign, sender, pushed, again, late, reached,
                  others, disturbed, sendFaults, slowSends>>

Outcomes == {"sent", "partial", "failed"}
NoSend == [stage |-> "idle", msg |-> NoItem, camp |-> NoItem, timer |-> FALSE,
           todo |-> {}, result |-> "failed"]
Sending == {"read", "mark", "push", "outcome", "audit"}
Delivering == {"insert", "mail", "result"} \cup Sending

CampaignTypeOK ==
  /\ message \in [Messages -> [status : {"absent", "queued", "sending", "cancelled"} \cup Outcomes,
                               due : BOOLEAN, camp : CampaignIds \cup {NoItem}]]
  /\ campaign \in [CampaignIds ->
       [status : {"absent", "queued", "sending", "cancelled"} \cup Outcomes,
        due : BOOLEAN, push : BOOLEAN, stale : BOOLEAN]]
  /\ sender \in [Senders ->
       [stage : {"idle", "next", "caught", "select", "claim", "closing", "catch"} \cup Delivering,
        msg : Messages \cup {NoItem}, camp : CampaignIds \cup {NoItem}, timer : BOOLEAN,
        todo : SUBSET (Messages \cup CampaignIds), result : Outcomes]]
  /\ pushed \subseteq Messages /\ again \subseteq Messages
  /\ late \in [Messages -> SUBSET Senders]
  /\ reached \subseteq CampaignIds /\ others \subseteq reached /\ disturbed \subseteq CampaignIds
  /\ sendFaults \in Nat /\ slowSends \in Nat

CampaignInit ==
  /\ message = [m \in Messages |-> [status |-> "absent", due |-> FALSE, camp |-> NoItem]]
  /\ campaign = [c \in CampaignIds |->
       [status |-> "absent", due |-> FALSE, push |-> FALSE, stale |-> FALSE]]
  /\ sender = [t \in Senders |-> NoSend]
  /\ pushed = {} /\ again = {} /\ late = [m \in Messages |-> {}]
  /\ reached = {} /\ others = {} /\ disturbed = {} /\ sendFaults = 0 /\ slowSends = 0

sendBudgets == <<sendFaults, slowSends>>
sendHistory == <<pushed, again, reached, others, disturbed>>

Row(m) == message[m].status
Camp(c) == campaign[c].status
Is(t, stage) == sender[t].stage = stage
Go(t, stage) == sender' = [sender EXCEPT ![t].stage = stage]
\* A request ends; a pass goes on with the next row.
Finished(t) == IF sender[t].todo = {} THEN NoSend
               ELSE [NoSend EXCEPT !.stage = "next", !.timer = TRUE, !.todo = sender[t].todo]
End(t) == /\ sender' = [sender EXCEPT ![t] = Finished(t)]
          /\ late' = [m \in Messages |-> IF m \in sender[t].todo THEN late[m] ELSE late[m] \ {t}]

-----------------------------------------------------------------------------
(* messagingEngine                                                         *)

\* createMessage(): a message that is due is sent by the same request.
CreateMessage(t, m) ==
  /\ Is(t, "idle") /\ Row(m) = "absent"
  /\ \E due \in BOOLEAN :
       /\ message' = [message EXCEPT ![m].status = "queued", ![m].due = due]
       /\ sender' = IF due THEN [sender EXCEPT ![t].stage = "read", ![t].msg = m] ELSE sender
  /\ UNCHANGED <<campaign, late, sendHistory, sendBudgets>>

SendMessage(t, m) ==
  /\ Is(t, "idle") /\ Row(m) # "absent"
  /\ sender' = [sender EXCEPT ![t].stage = "read", ![t].msg = m]
  /\ UNCHANGED <<message, campaign, late, sendHistory, sendBudgets>>

CancelMessage(m) ==
  /\ Row(m) = "queued"
  /\ message' = [message EXCEPT ![m].status = "cancelled"]
  /\ late' = [late EXCEPT ![m] = {t \in Senders : sender[t].msg = m \/ m \in sender[t].todo}]
  /\ UNCHANGED <<campaign, sender, sendHistory, sendBudgets>>

\* processDue(): the rows are selected, not claimed.
ProcessDue(t) ==
  LET rows == {m \in Messages : Row(m) = "queued" /\ message[m].due} IN
  /\ Is(t, "idle") /\ rows # {}
  /\ sender' = [sender EXCEPT ![t].stage = "next", ![t].timer = TRUE, ![t].todo = rows]
  /\ UNCHANGED <<message, campaign, late, sendHistory, sendBudgets>>

NextRow(t) ==
  /\ Is(t, "next")
  /\ \E x \in sender[t].todo :
       sender' = [sender EXCEPT ![t].todo = @ \ {x},
         ![t].stage = IF x \in Messages THEN "read" ELSE "claim",
         ![t].msg = IF x \in Messages THEN x ELSE NoItem,
         ![t].camp = IF x \in Messages THEN NoItem ELSE x]
  /\ UNCHANGED <<message, campaign, late, sendHistory, sendBudgets>>

\* send() throws: to sendCampaign()'s or processDue()'s catch, or to the request.
Throw(t) ==
  IF sender[t].camp # NoItem THEN Go(t, "catch") /\ UNCHANGED late
  ELSE IF sender[t].timer THEN Go(t, "caught") /\ UNCHANGED late
  ELSE End(t)

\* The mutant sends what has been cancelled.
RefusesNothing(m) == FALSE
Refuses(m) == Row(m) = "cancelled"
ReadMessage(t) ==
  /\ Is(t, "read")
  /\ IF Refuses(sender[t].msg) THEN Throw(t) ELSE Go(t, "mark") /\ UNCHANGED late
  /\ UNCHANGED <<message, campaign, sendHistory, sendBudgets>>

MarkSending(t) ==
  /\ Is(t, "mark")
  /\ message' = [message EXCEPT ![sender[t].msg].status = "sending"]
  /\ sender' = [sender EXCEPT ![t].stage = "push", ![t].result = "failed"]
  /\ UNCHANGED <<campaign, late, sendHistory, sendBudgets>>

\* The devices are served one after the other; "failed" until one accepts.
Deliver(t) ==
  /\ Is(t, "push") /\ sender[t].result = "failed"
  /\ \E result \in {"sent", "partial"} : sender' = [sender EXCEPT ![t].result = result]
  /\ IF sender[t].timer \/ sender[t].camp # NoItem
     THEN /\ pushed' = pushed \cup {sender[t].msg}
          /\ again' = again \cup ({sender[t].msg} \cap pushed)
     ELSE UNCHANGED <<pushed, again>>
  /\ LET of == {message[sender[t].msg].camp} \ {NoItem}
     IN  /\ reached' = reached \cup of
         /\ others' = others \cup (of \ {sender[t].camp})
  /\ UNCHANGED <<message, campaign, late, disturbed, sendBudgets>>

EndPush(t) ==
  /\ Is(t, "push")
  /\ Go(t, "outcome")
  /\ UNCHANGED <<message, campaign, late, sendHistory, sendBudgets>>

WriteOutcome(t) ==
  /\ Is(t, "outcome")
  /\ message' = [message EXCEPT ![sender[t].msg].status = sender[t].result]
  /\ Go(t, "audit")
  /\ UNCHANGED <<campaign, late, sendHistory, sendBudgets>>

AuditMessage(t) ==
  /\ Is(t, "audit")
  /\ IF sender[t].camp # NoItem THEN Go(t, "result") /\ UNCHANGED late ELSE End(t)
  /\ UNCHANGED <<message, campaign, sendHistory, sendBudgets>>

\* processDue()'s catch block, whatever has become of the row.
CaughtFailed(m) == message' = [message EXCEPT ![m].status = "failed"]
Caught(t) ==
  /\ Is(t, "caught")
  /\ CaughtFailed(sender[t].msg)
  /\ End(t)
  /\ UNCHANGED <<campaign, sendHistory, sendBudgets>>

MessageDue(m) ==
  /\ Row(m) = "queued" /\ ~message[m].due
  /\ message' = [message EXCEPT ![m].due = TRUE]
  /\ UNCHANGED <<campaign, sender, late, sendHistory, sendBudgets>>

-----------------------------------------------------------------------------
(* advancedPlatformEngine                                                  *)

CreateCampaign(t, c) ==
  /\ Is(t, "idle") /\ Camp(c) = "absent"
  /\ \E due, push \in BOOLEAN :
       /\ campaign' = [campaign EXCEPT ![c] =
            [status |-> "queued", due |-> due, push |-> push, stale |-> FALSE]]
       /\ sender' = IF due THEN [sender EXCEPT ![t].stage = "claim", ![t].camp = c] ELSE sender
  /\ UNCHANGED <<message, late, sendHistory, sendBudgets>>

SendCampaign(t, c) ==
  /\ Is(t, "idle") /\ Camp(c) # "absent"
  /\ sender' = [sender EXCEPT ![t].stage = "claim", ![t].camp = c]
  /\ UNCHANGED <<message, campaign, late, sendHistory, sendBudgets>>

CancelCampaign(c) ==
  /\ Camp(c) = "queued"
  /\ campaign' = [campaign EXCEPT ![c].status = "cancelled"]
  /\ UNCHANGED <<message, sender, late, sendHistory, sendBudgets>>

\* processCampaigns(): recover what is stale, then select what is due.
Stale == {c \in CampaignIds : Camp(c) = "sending" /\ campaign[c].stale}
ProcessCampaigns(t) ==
  /\ Is(t, "idle")
  /\ campaign' = [c \in CampaignIds |-> IF c \in Stale
                    THEN [campaign[c] EXCEPT !.status = "failed", !.stale = FALSE]
                    ELSE campaign[c]]
  /\ disturbed' = disturbed \cup Stale
  /\ Go(t, "select")
  /\ UNCHANGED <<message, late, pushed, again, reached, others, sendBudgets>>

SelectCampaigns(t) ==
  LET rows == {c \in CampaignIds : Camp(c) = "queued" /\ campaign[c].due} IN
  /\ Is(t, "select")
  /\ sender' = [sender EXCEPT ![t] = IF rows = {} THEN NoSend
                  ELSE [NoSend EXCEPT !.stage = "next", !.timer = TRUE, !.todo = rows]]
  /\ UNCHANGED <<message, campaign, late, sendHistory, sendBudgets>>

\* The claim's WHERE; the mutant claims what is being sent.
ClaimableTwice(c) == Camp(c) \in {"queued", "failed", "sending"}
Claimable(c) == Camp(c) \in {"queued", "failed"}
ClaimCampaign(t) ==
  /\ Is(t, "claim")
  /\ LET c == sender[t].camp IN
     IF Claimable(c)
     THEN /\ campaign' = [campaign EXCEPT ![c].status = "sending", ![c].stale = FALSE]
          /\ Go(t, IF campaign[c].push THEN "insert" ELSE "mail")
          /\ UNCHANGED late
     ELSE UNCHANGED campaign /\ End(t)
  /\ UNCHANGED <<message, sendHistory, sendBudgets>>

\* createMessage() of a push campaign: a message like any other.
InsertMessage(t) ==
  /\ Is(t, "insert")
  /\ \E m \in Messages :
       /\ Row(m) = "absent"
       /\ message' = [message EXCEPT ![m] = [status |-> "queued", due |-> TRUE, camp |-> sender[t].camp]]
       /\ sender' = [sender EXCEPT ![t].stage = "read", ![t].msg = m]
  /\ UNCHANGED <<campaign, late, sendHistory, sendBudgets>>

\* Mails or text messages to the verified recipients.
Mail(t) ==
  /\ Is(t, "mail")
  /\ \E result \in Outcomes :
       /\ sender' = [sender EXCEPT ![t].stage = "result", ![t].result = result]
       /\ reached' = IF result = "failed" THEN reached ELSE reached \cup {sender[t].camp}
  /\ UNCHANGED <<message, campaign, late, pushed, again, others, disturbed, sendBudgets>>

\* The mutant always writes success.
ResultSent(t) == "sent"
Result(t) == sender[t].result
WriteResult(t) ==
  /\ Is(t, "result")
  /\ campaign' = [campaign EXCEPT ![sender[t].camp].status = Result(t),
                                  ![sender[t].camp].stale = FALSE]
  /\ Go(t, "closing")
  /\ UNCHANGED <<message, late, sendHistory, sendBudgets>>

AuditCampaign(t) ==
  /\ Is(t, "closing")
  /\ End(t)
  /\ UNCHANGED <<message, campaign, sendHistory, sendBudgets>>

CatchCampaign(t) ==
  /\ Is(t, "catch")
  /\ campaign' = [campaign EXCEPT ![sender[t].camp].status = "failed",
                                  ![sender[t].camp].stale = FALSE]
  /\ End(t)
  /\ UNCHANGED <<message, sendHistory, sendBudgets>>

CampaignDue(c) ==
  /\ Camp(c) = "queued" /\ ~campaign[c].due
  /\ campaign' = [campaign EXCEPT ![c].due = TRUE]
  /\ UNCHANGED <<message, sender, late, sendHistory, sendBudgets>>

-----------------------------------------------------------------------------
(* Time and failures.                                                      *)

\* 15 minutes without an update; of a campaign in hand only so often.
Sent(c) == {t \in Senders : sender[t].camp = c /\ sender[t].stage \in Delivering \cup {"catch"}}
QuarterHour(c) ==
  /\ Camp(c) = "sending" /\ ~campaign[c].stale
  /\ Sent(c) # {} => slowSends < MaxSlowSends
  /\ campaign' = [campaign EXCEPT ![c].stale = TRUE]
  /\ slowSends' = IF Sent(c) = {} THEN slowSends ELSE slowSends + 1
  /\ UNCHANGED <<message, sender, late, sendHistory, sendFaults>>

\* A statement of send() or sendCampaign() throws, between two devices too.
AfterDelivery(t) == \/ sender[t].stage \in {"outcome", "audit", "result", "closing"}
                    \/ Is(t, "push") /\ sender[t].result # "failed"
StatementThrows(t) ==
  /\ sender[t].stage \in {"mark", "push", "outcome", "audit", "insert", "mail", "result", "closing"}
  /\ sendFaults < MaxSendFaults /\ sendFaults' = sendFaults + 1
  /\ Throw(t)
  /\ disturbed' = IF AfterDelivery(t)
                  THEN disturbed \cup ({sender[t].camp} \ {NoItem}) ELSE disturbed
  /\ UNCHANGED <<message, campaign, pushed, again, reached, others, slowSends>>

SenderDies(t) ==
  /\ ~Is(t, "idle") /\ sendFaults < MaxSendFaults /\ sendFaults' = sendFaults + 1
  /\ sender' = [sender EXCEPT ![t] = NoSend]
  /\ late' = [m \in Messages |-> late[m] \ {t}]
  /\ UNCHANGED <<message, campaign, sendHistory, slowSends>>

SendMessageSteps(t) ==
  \/ ProcessDue(t) \/ NextRow(t) \/ ReadMessage(t) \/ MarkSending(t) \/ Deliver(t)
  \/ EndPush(t) \/ WriteOutcome(t) \/ AuditMessage(t) \/ Caught(t)
SendCampaignSteps(t) ==
  \/ ProcessCampaigns(t) \/ SelectCampaigns(t) \/ ClaimCampaign(t) \/ InsertMessage(t)
  \/ Mail(t) \/ WriteResult(t) \/ AuditCampaign(t) \/ CatchCampaign(t)

CampaignNext ==
  \/ \E t \in Senders :
       \/ SendMessageSteps(t) \/ SendCampaignSteps(t) \/ StatementThrows(t) \/ SenderDies(t)
       \/ \E m \in Messages : CreateMessage(t, m) \/ SendMessage(t, m)
       \/ \E c \in CampaignIds : CreateCampaign(t, c) \/ SendCampaign(t, c)
  \/ \E m \in Messages : CancelMessage(m) \/ MessageDue(m)
  \/ \E c \in CampaignIds : CancelCampaign(c) \/ CampaignDue(c) \/ QuarterHour(c)

CampaignSpec == CampaignInit /\ [][CampaignNext]_campaignVars
-----------------------------------------------------------------------------
(* Properties                                                              *)

\* The claim keeps a second sender away from a campaign, timers, requests and
\* retries included, until it is recovered after 15 minutes or fails late.
ClaimIsExclusive ==
  \A c \in CampaignIds \ disturbed :
    LET at == {t \in Senders : sender[t].camp = c /\ sender[t].stage \in Delivering}
    IN  /\ Cardinality(at) <= 1
        /\ at # {} => Camp(c) = "sending"

\* A sent or partial campaign reached somebody and a queued or cancelled one
\* nobody, whatever overlaps, is recovered or fails.  A failed one reached
\* nobody unless a timer or a request sent its message, or it was recovered
\* after 15 minutes, or an error came after a delivery: send() and the catch
\* of sendCampaign() then say failed of recipients that were reached.
CampaignOutcomeIsTrue ==
  \A c \in CampaignIds :
    /\ Camp(c) \in {"sent", "partial"} => c \in reached
    /\ Camp(c) \in {"queued", "cancelled"} => c \notin reached
    /\ Camp(c) = "failed" /\ c \in reached => c \in others \cup disturbed

\* Only a sender that held the message when cancel() answered, by its own
\* SELECT or in its list, changes a cancelled message; later ones refuse it.
CancelHoldsForLaterSenders ==
  [][\A m \in Messages : Row(m) = "cancelled" /\ message'[m].status # "cancelled"
       => \E t \in late[m] : sender[t].msg = m /\ sender'[t] # sender[t]]_campaignVars

\* The promise "Claim atômico ... para impedir envio duplicado em múltiplas
\* instâncias": what a campaign has queued as a push message goes out once.
CampaignGoesOutOnce == \A m \in again : message[m].camp = NoItem
=============================================================================
