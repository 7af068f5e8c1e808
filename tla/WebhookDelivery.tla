--------------------------- MODULE WebhookDelivery ---------------------------
(***************************************************************************)
(* The webhook delivery queue (src/server/webhooks/webhookEngine.ts): one  *)
(* webhook, its rows in webhook_deliveries, the processQueue loop of every *)
(* server instance, and the test() requests that deliver their own row     *)
(* beside the loops.  A step is one SQL statement or one HTTP exchange;    *)
(* everything between two awaits interleaves.                              *)
(***************************************************************************)
EXTENDS Naturals, FiniteSets

CONSTANTS
  Events,       \* ids of the events emit() is called with
  ReplayIds,    \* ids replay() makes for its copies
  TestIds,      \* ids test() makes for its rows
  Workers,      \* processQueue loops, one per server instance
  Testers,      \* test() requests
  NoId,         \* no delivery
  Cap,          \* upper clamp of max_attempts (10 in the code)
  Threshold,    \* MAX_FAILURES_BEFORE_DISABLE (20 in the code)
  Batch,        \* rows one claim takes (25 in the code)
  Edits,        \* the inputs update() is called with
  MaxAborts,    \* bound: crashes and errors that end a loop or a request
  MaxOverruns   \* bound: claims of a live worker that outlast two minutes

Ids == Events \cup ReplayIds \cup TestIds
QueueIds == Events \cup ReplayIds      \* rows only the loops deliver
Threads == Workers \cup Testers
Edit == [active : {"keep", "on", "off"}, max : 0 .. Cap + 1]  \* max 0: not given

ASSUME IdsAssumption ==
  /\ Events \cap ReplayIds = {} /\ QueueIds \cap TestIds = {}
  /\ Workers \cap Testers = {} /\ NoId \notin Ids
ASSUME LimitsAssumption ==
  /\ Cap \in Nat \ {0} /\ Threshold \in Nat \ {0} /\ Batch \in Nat \ {0}
  /\ MaxAborts \in Nat /\ MaxOverruns \in Nat /\ Edits \subseteq Edit
ASSUME IdsFinite == IsFiniteSet(Ids)
ASSUME ThreadsFinite == IsFiniteSet(Threads)

VARIABLES
  hook,       \* the row of webhooks
  row,        \* the rows of webhook_deliveries, by event_id
  emitting,   \* emit() calls between their SELECT and their INSERT
  editing,    \* the values update() has read and is about to write
  loop,       \* where each processQueue is
  batch,      \* claimed rows a loop has not begun to deliver
  task,       \* the delivery each thread is performing
  sent,       \* history: <<id, attempt>> of the requests that went out
  accepted,   \* history: ids the receiver answered 2xx
  recovered,  \* history: how often each row was recovered
  unacked,    \* history: ids whose 2xx was turned into a failure by an error
  allowed,    \* history: the largest max_attempts the webhook has had
  aborts, overruns

state == <<hook, row, emitting, editing, loop, batch, task>>
history == <<sent, accepted, recovered, unacked, allowed>>
vars == <<hook, row, emitting, editing, loop, batch, task,
          sent, accepted, recovered, unacked, allowed, aborts, overruns>>

Statuses == {"absent", "pending", "processing", "failed", "delivered",
             "dead_letter"}
Terminal == {"delivered", "dead_letter"}
\* select, mark: test() is about to read and to claim its row; post: about to send; sent: awaiting the
\* answer; ok, bad: the row is to be written; okhook, badhook: the webhook is
\* to be written; disable: the failure limit was reached.
Stages == {"none", "select", "mark", "post", "sent", "ok", "bad", "okhook", "badhook",
           "disable"}
Hooks == [exists : BOOLEAN, active : BOOLEAN, reason : BOOLEAN, fails : Nat,
          max : 1 .. Cap]
Absent == [status |-> "absent", attempts |-> 0, due |-> FALSE, stale |-> FALSE]
LiveRows == [status : Statuses \ {"absent"}, attempts : Nat, due : BOOLEAN,
             stale : BOOLEAN]
Rows == {Absent} \cup LiveRows
NoTask == [stage |-> "none", id |-> NoId, attempt |-> 0, max |-> 0]
Tasks == {NoTask} \cup [stage : Stages \ {"none"}, id : Ids, attempt : Nat, max : Nat]
Claims == [id : Ids, attempt : Nat, max : Nat]

Fresh == [status |-> "pending", attempts |-> 0, due |-> TRUE, stale |-> FALSE]
NoEdit == [active |-> FALSE, max |-> 0]

TypeOK ==
  /\ hook \in Hooks
  /\ row \in [Ids -> Rows]
  /\ emitting \in SUBSET Events
  /\ editing \in [active : BOOLEAN, max : 0 .. Cap]
  /\ loop \in [Workers -> {"idle", "recovered", "sending"}]
  /\ batch \in [Workers -> SUBSET Claims]
  /\ task \in [Threads -> Tasks]
  /\ sent \in SUBSET (Ids \X Nat)
  /\ accepted \in SUBSET Ids
  /\ recovered \in [Ids -> Nat]
  /\ unacked \in SUBSET Ids
  /\ allowed \in 1 .. Cap
  /\ aborts \in Nat /\ overruns \in Nat

\* create() has returned the webhook; nothing has been emitted.
Init ==
  /\ \E m \in 1 .. Cap :
       /\ hook = [exists |-> TRUE, active |-> TRUE, reason |-> FALSE, fails |-> 0, max |-> m]
       /\ allowed = m
  /\ row = [i \in Ids |-> Absent]
  /\ emitting = {} /\ editing = NoEdit
  /\ loop = [w \in Workers |-> "idle"] /\ batch = [w \in Workers |-> {}]
  /\ task = [t \in Threads |-> NoTask]
  /\ sent = {} /\ accepted = {} /\ unacked = {}
  /\ recovered = [i \in Ids |-> 0] /\ aborts = 0 /\ overruns = 0

Exists(i) == row[i].status # "absent"

\* A delivery is in hand while a thread has yet to write its outcome.
Unwritten == {"mark", "post", "sent", "ok", "bad"}
Held(i) == \/ \E w \in Workers : \E c \in batch[w] : c.id = i
           \/ \E t \in Threads : task[t].id = i /\ task[t].stage \in Unwritten

-----------------------------------------------------------------------------
(* The operations of the console and of the program's other parts.          *)

\* emit(): the SELECT of active webhooks; the INSERT comes an await later.
EmitSelect(e) ==
  /\ hook.exists /\ hook.active /\ e \notin emitting
  /\ emitting' = emitting \cup {e}
  /\ UNCHANGED <<hook, row, editing, loop, batch, task, history, aborts, overruns>>

\* ON CONFLICT(webhook_id,event_id) DO NOTHING; fails on a deleted webhook.
EmitInsert(e) ==
  /\ e \in emitting
  /\ emitting' = emitting \ {e}
  /\ row' = IF hook.exists /\ ~Exists(e) THEN [row EXCEPT ![e] = Fresh] ELSE row
  /\ UNCHANGED <<hook, editing, loop, batch, task, history, aborts, overruns>>

\* replay(): a copy under a new id; the processQueue it awaits is a loop's.
Replay(i, copy) ==
  /\ hook.exists /\ Exists(i) /\ ~Exists(copy)
  /\ row' = [row EXCEPT ![copy] = Fresh]
  /\ UNCHANGED <<hook, emitting, editing, loop, batch, task, history, aborts, overruns>>

\* input.maxAttempts ?? current.maxAttempts, clamped; the mutant does not clamp.
Unclamped(edit) == IF edit.max = 0 THEN hook.max ELSE edit.max
Limit(edit) == IF edit.max = 0 THEN hook.max
               ELSE IF edit.max > Cap THEN Cap ELSE edit.max

\* update() reads the webhook, awaits the DNS check, then writes what it read.
UpdateRead(edit) ==
  /\ hook.exists /\ editing.max = 0
  /\ editing' = [active |-> IF edit.active = "keep" THEN hook.active
                            ELSE edit.active = "on",
                 max |-> Limit(edit)]
  /\ UNCHANGED <<hook, row, emitting, loop, batch, task, history, aborts, overruns>>

UpdateWrite ==
  /\ editing.max # 0
  /\ editing' = NoEdit
  /\ hook' = IF hook.exists
             THEN [hook EXCEPT !.active = editing.active, !.max = editing.max,
                     !.reason = @ /\ ~editing.active,
                     !.fails = IF editing.active THEN 0 ELSE @]
             ELSE hook
  /\ allowed' = IF hook.exists /\ editing.max > allowed THEN editing.max ELSE allowed
  /\ UNCHANGED <<row, emitting, loop, batch, task, sent, accepted, recovered, unacked,
                 aborts, overruns>>

\* remove(): the deliveries go with the webhook (ON DELETE CASCADE).
Remove ==
  /\ hook.exists
  /\ hook' = [hook EXCEPT !.exists = FALSE]
  /\ row' = [i \in Ids |-> Absent]
  /\ UNCHANGED <<emitting, editing, loop, batch, task, history, aborts, overruns>>

\* The attempt a claim writes; the mutant reuses the number on a retry.
RepeatedAttempt(i) == IF row[i].attempts = 0 THEN 1 ELSE row[i].attempts
NextAttempt(i) == row[i].attempts + 1

\* test(): INSERT, then SELECT, then the claim: the row is never locked.
TestInsert(t, i) ==
  /\ task[t].stage = "none" /\ hook.exists /\ ~Exists(i)
  /\ row' = [row EXCEPT ![i] = Fresh]
  /\ task' = [task EXCEPT ![t] = [NoTask EXCEPT !.stage = "select", !.id = i]]
  /\ UNCHANGED <<hook, emitting, editing, loop, batch, history, aborts, overruns>>

TestSelect(t) ==
  /\ task[t].stage = "select"
  /\ task' = [task EXCEPT ![t] =
       IF Exists(@.id) THEN [stage |-> "mark", id |-> @.id,
                             attempt |-> NextAttempt(@.id), max |-> hook.max]
       ELSE NoTask]
  /\ UNCHANGED <<hook, row, emitting, editing, loop, batch, history, aborts, overruns>>

-----------------------------------------------------------------------------
(* processQueue()                                                          *)

\* The mutant: no recovery.
NeverStuck == {}
\* Every row in processing for two minutes goes back to failed, due at once.
Stuck == {i \in Ids : row[i].status = "processing" /\ row[i].stale}

Recover(w) ==
  /\ loop[w] = "idle"
  /\ loop' = [loop EXCEPT ![w] = "recovered"]
  /\ row' = [i \in Ids |-> IF i \in Stuck
               THEN [row[i] EXCEPT !.status = "failed", !.due = TRUE, !.stale = FALSE]
               ELSE row[i]]
  /\ recovered' = [i \in Ids |-> IF i \in Stuck THEN recovered[i] + 1 ELSE recovered[i]]
  /\ UNCHANGED <<hook, emitting, editing, batch, task, sent, accepted, unacked,
                 allowed, aborts, overruns>>

\* The mutants: the claim's WHERE lets delivered, or claimed, rows through.
ReadyAgain == {i \in Ids : /\ row[i].status \in {"pending", "failed", "delivered"}
                           /\ row[i].due /\ hook.exists /\ hook.active}
ReadyTwice == {i \in Ids : /\ row[i].status \in {"pending", "failed", "processing"}
                           /\ row[i].due /\ hook.exists /\ hook.active}
Ready == {i \in Ids : /\ row[i].status \in {"pending", "failed"} /\ row[i].due
                      /\ hook.exists /\ hook.active}

\* FOR UPDATE SKIP LOCKED LIMIT: the transaction takes rows no other claim has.
Claim(w) ==
  /\ loop[w] = "recovered"
  /\ \E S \in SUBSET Ready :
       /\ Cardinality(S) = IF Cardinality(Ready) > Batch THEN Batch
                           ELSE Cardinality(Ready)
       /\ row' = [i \in Ids |-> IF i \in S
                    THEN [row[i] EXCEPT !.status = "processing", !.stale = FALSE,
                                        !.attempts = NextAttempt(i)]
                    ELSE row[i]]
       /\ batch' = [batch EXCEPT ![w] =
            {[id |-> i, attempt |-> NextAttempt(i), max |-> hook.max] : i \in S}]
  /\ loop' = [loop EXCEPT ![w] = "sending"]
  /\ UNCHANGED <<hook, emitting, editing, task, history, aborts, overruns>>

\* for (const row of rows) await this.deliver(row, true)
Deliver(w) ==
  /\ loop[w] = "sending" /\ task[w].stage = "none"
  /\ \E c \in batch[w] :
       /\ task' = [task EXCEPT ![w] = [stage |-> "post", id |-> c.id,
                                       attempt |-> c.attempt, max |-> c.max]]
       /\ batch' = [batch EXCEPT ![w] = @ \ {c}]
  /\ UNCHANGED <<hook, row, emitting, editing, loop, history, aborts, overruns>>

Finish(w) ==
  /\ loop[w] = "sending" /\ task[w].stage = "none" /\ batch[w] = {}
  /\ loop' = [loop EXCEPT ![w] = "idle"]
  /\ UNCHANGED <<hook, row, emitting, editing, batch, task, history, aborts, overruns>>

-----------------------------------------------------------------------------
(* deliver(): WHERE id = $1 and nothing else guards its writes.            *)

To(t, stage) == [task EXCEPT ![t].stage = stage]
Write(i, r) == row' = IF Exists(i) THEN [row EXCEPT ![i] = r] ELSE row

Mark(t) ==
  /\ task[t].stage = "mark"
  /\ Write(task[t].id, [row[task[t].id] EXCEPT !.status = "processing",
                          !.stale = FALSE, !.attempts = task[t].attempt])
  /\ task' = To(t, "post")
  /\ UNCHANGED <<hook, emitting, editing, loop, batch, history, aborts, overruns>>

\* The target is refused by the DNS check, or the request goes out.
Refuse(t) ==
  /\ task[t].stage = "post"
  /\ task' = To(t, "bad")
  /\ UNCHANGED <<hook, row, emitting, editing, loop, batch, history, aborts, overruns>>

Post(t) ==
  /\ task[t].stage = "post"
  /\ task' = To(t, "sent")
  /\ sent' = sent \cup {<<task[t].id, task[t].attempt>>}
  /\ UNCHANGED <<hook, row, emitting, editing, loop, batch, accepted, recovered,
                 unacked, allowed, aborts, overruns>>

\* The answer: 2xx, or an error status, a timeout, a lost connection.
Answer(t) ==
  /\ task[t].stage = "sent"
  /\ \/ /\ task' = To(t, "ok")
        /\ accepted' = accepted \cup {task[t].id}
     \/ /\ task' = To(t, "bad")
        /\ UNCHANGED accepted
  /\ UNCHANGED <<hook, row, emitting, editing, loop, batch, sent, recovered,
                 unacked, allowed, aborts, overruns>>

RowDelivered(t) ==
  /\ task[t].stage = "ok"
  /\ Write(task[t].id, [row[task[t].id] EXCEPT !.status = "delivered", !.stale = FALSE])
  /\ task' = To(t, "okhook")
  /\ UNCHANGED <<hook, emitting, editing, loop, batch, history, aborts, overruns>>

HookSucceeded(t) ==
  /\ task[t].stage = "okhook"
  /\ hook' = IF hook.exists THEN [hook EXCEPT !.fails = 0, !.reason = FALSE] ELSE hook
  /\ task' = [task EXCEPT ![t] = NoTask]
  /\ UNCHANGED <<row, emitting, editing, loop, batch, history, aborts, overruns>>

\* Both success statements stand in the try block: when one of them fails,
\* the catch block records a failed delivery of an accepted event.
SuccessFails(t) ==
  /\ task[t].stage \in {"ok", "okhook"} /\ aborts < MaxAborts
  /\ task' = To(t, "bad")
  /\ unacked' = unacked \cup {task[t].id}
  /\ aborts' = aborts + 1
  /\ UNCHANGED <<hook, row, emitting, editing, loop, batch, sent, accepted,
                 recovered, allowed, overruns>>

\* The mutant is off by one.
ExhaustedLate(t) == task[t].attempt > task[t].max
Exhausted(t) == task[t].attempt >= task[t].max

RowFailed(t) ==
  /\ task[t].stage = "bad"
  /\ Write(task[t].id,
       [row[task[t].id] EXCEPT !.due = FALSE, !.stale = FALSE,
          !.status = IF Exhausted(t) THEN "dead_letter" ELSE "failed"])
  /\ task' = To(t, "badhook")
  /\ UNCHANGED <<hook, emitting, editing, loop, batch, history, aborts, overruns>>

HookFailed(t) ==
  /\ task[t].stage = "badhook"
  /\ hook' = IF hook.exists THEN [hook EXCEPT !.fails = @ + 1] ELSE hook
  /\ task' = IF hook.exists /\ hook.fails + 1 >= Threshold THEN To(t, "disable")
             ELSE [task EXCEPT ![t] = NoTask]
  /\ UNCHANGED <<row, emitting, editing, loop, batch, history, aborts, overruns>>

Disable(t) ==
  /\ task[t].stage = "disable"
  /\ hook' = IF hook.exists THEN [hook EXCEPT !.active = FALSE, !.reason = TRUE] ELSE hook
  /\ task' = [task EXCEPT ![t] = NoTask]
  /\ UNCHANGED <<row, emitting, editing, loop, batch, history, aborts, overruns>>

-----------------------------------------------------------------------------
(* The clock, and what ends a thread.                                      *)

\* The backoff of a failed row has run out.
BecomeDue(i) ==
  /\ row[i].status = "failed" /\ ~row[i].due
  /\ row' = [row EXCEPT ![i].due = TRUE]
  /\ UNCHANGED <<hook, emitting, editing, loop, batch, task, history, aborts, overruns>>

\* Two minutes since the claim: 25 rows of up to 30 s each are one batch.
GoStale(i) ==
  /\ row[i].status = "processing" /\ ~row[i].stale
  /\ Held(i) => overruns < MaxOverruns
  /\ row' = [row EXCEPT ![i].stale = TRUE]
  /\ overruns' = IF Held(i) THEN overruns + 1 ELSE overruns
  /\ UNCHANGED <<hook, emitting, editing, loop, batch, task, history, aborts>>

\* A crash, or an error that leaves deliver(): the rest of the batch is lost.
Abort(t) ==
  /\ aborts < MaxAborts
  /\ task[t].stage # "none" \/ (t \in Workers /\ loop[t] # "idle")
  /\ task' = [task EXCEPT ![t] = NoTask]
  /\ loop' = IF t \in Workers THEN [loop EXCEPT ![t] = "idle"] ELSE loop
  /\ batch' = IF t \in Workers THEN [batch EXCEPT ![t] = {}] ELSE batch
  /\ aborts' = aborts + 1
  /\ UNCHANGED <<hook, row, emitting, editing, history, overruns>>

Console ==
  \/ \E e \in Events : EmitSelect(e) \/ EmitInsert(e)
  \/ \E i \in Ids, copy \in ReplayIds : Replay(i, copy)
  \/ \E edit \in Edits : UpdateRead(edit)
  \/ UpdateWrite \/ Remove
  \/ \E t \in Testers : TestSelect(t) \/ \E i \in TestIds : TestInsert(t, i)

Queue(w) == Recover(w) \/ Claim(w) \/ Deliver(w) \/ Finish(w)

Delivering(t) ==
  \/ Mark(t) \/ Refuse(t) \/ Post(t) \/ Answer(t) \/ RowDelivered(t)
  \/ HookSucceeded(t) \/ RowFailed(t) \/ HookFailed(t) \/ Disable(t)

Clock == \E i \in Ids : BecomeDue(i) \/ GoStale(i)

Next ==
  \/ Console \/ Clock
  \/ \E w \in Workers : Queue(w)
  \/ \E t \in Threads : Delivering(t) \/ SuccessFails(t) \/ Abort(t)

Spec == Init /\ [][Next]_vars

\* setInterval runs every loop; the abort timer ends every request; time passes.
\* Of an emit, an edit or a test nothing is assumed.
Fairness ==
  /\ \A w \in Workers : WF_vars(Queue(w)) /\ WF_vars(Delivering(w))
  /\ \A i \in Ids : WF_vars(BecomeDue(i)) /\ WF_vars(GoStale(i))

FairSpec == Spec /\ Fairness
-----------------------------------------------------------------------------
(* Properties                                                              *)

\* Claims whose outcome no thread has written yet, each with its owner.
Open(w) == batch[w] \cup
           IF task[w].stage \in Unwritten
           THEN {[id |-> task[w].id, attempt |-> task[w].attempt, max |-> task[w].max]}
           ELSE {}

\* Attempt numbers a loop may still send: its batch, and the one about to go.
Unsent(w) == {<<c.id, c.attempt>> : c \in batch[w]} \cup
             {p \in {<<task[w].id, task[w].attempt>>} : task[w].stage = "post"}
QueuePairs == QueueIds \X Nat

\* While the webhook exists its rows count every attempt sent or to be sent.
AttemptsCounted ==
  hook.exists =>
    /\ \A p \in sent \cap QueuePairs : p[2] <= row[p[1]].attempts
    /\ \A w \in Workers : \A p \in Unsent(w) \cap QueuePairs : p[2] <= row[p[1]].attempts

\* An attempt still to be sent was not sent before and has one owner.
UnsentIsNew == \A w \in Workers : \A p \in Unsent(w) \cap QueuePairs : p \notin sent
UnsentHasOneOwner ==
  \A v, w \in Workers : \A p \in Unsent(v) \cap QueuePairs : p \in Unsent(w) => v = w

\* A batch holds a row once, apart from the row being sent; a loop that is not
\* sending holds no task; a test request stays with the rows of tests.
ThreadShape ==
  /\ \A w \in Workers : \A c, d \in batch[w] : c.id = d.id => c = d
  /\ \A w \in Workers : task[w].stage = "post" => \A c \in batch[w] : c.id # task[w].id
  /\ \A w \in Workers : loop[w] # "sending" => task[w] = NoTask
  /\ \A w \in Workers : task[w].stage \notin {"select", "mark"}
  /\ \A t \in Testers : task[t].stage # "none" => task[t].id \in TestIds

\* The inductive invariant behind NoAttemptSentTwice.
Circulation == AttemptsCounted /\ UnsentIsNew /\ UnsentHasOneOwner /\ ThreadShape

\* However often workers overrun, crash and write late, a row is attempted at
\* most max_attempts times, and once more for every recovery; of a webhook whose
\* limit was edited, the largest it has had counts.
RetryBudget == \A i \in QueueIds : row[i].attempts <= allowed + recovered[i]

\* The receiver never gets the same attempt of an event twice: each request
\* that leaves a loop carries an attempt number no request carried before.
NoAttemptSentTwice ==
  [][\A t \in Threads : task[t].stage = "post" /\ task'[t].stage = "sent"
       /\ task[t].id \in QueueIds
       => <<task[t].id, task[t].attempt>> \notin sent]_vars

\* The queue and the receiver agree unless a row was recovered or a success
\* could not be recorded: a delivered event was accepted, and an event the
\* receiver has accepted is neither dead nor waiting to be sent once more.
OutcomeMatchesReceiver ==
  \A i \in QueueIds : recovered[i] = 0 /\ i \notin unacked =>
    /\ row[i].status = "delivered" => i \in accepted
    /\ row[i].status \in {"pending", "failed", "dead_letter"} => i \notin accepted

\* test() never locks its row, so a loop may send it too; but the unlocked
\* claim lets in one more sender and no third, as long as nothing is recovered.
TestAddsOneSender ==
  \A i \in TestIds : recovered[i] = 0 =>
    Cardinality({w \in Workers : \E c \in Open(w) : c.id = i})
      + Cardinality({t \in Testers : task[t].id = i /\ task[t].stage \in Unwritten}) <= 2

\* Every emitted event is delivered, declared dead, deleted with its webhook,
\* or left waiting on a webhook that is disabled time and again; settled for
\* good, in the first three cases.
EveryEventSettles ==
  \A e \in Events :
    \/ <>[](row[e].status \in Terminal \cup {"absent"})
    \/ []<>(~hook.active)
=============================================================================
