------------------------ MODULE WebhookDeliveryProofs ------------------------
(***************************************************************************)
(* Theorems about WebhookDelivery for every set of ids, workers, testers,  *)
(* every limit and every bound.                                            *)
(***************************************************************************)
EXTENDS WebhookLease, FiniteSetTheorems, TLAPS

\* What the module starts from satisfies the type invariant.
LEMMA InitType == Init => TypeOK
  BY LimitsAssumption DEF Init, TypeOK, Absent, NoEdit, NoTask, Statuses, Stages,
       Hooks, Rows, Tasks

\* The records the actions write are rows and tasks.
LEMMA Values == Absent \in Rows /\ Fresh \in Rows /\ NoTask \in Tasks
  BY DEF LiveRows, Absent, Fresh, NoTask, Rows, Tasks, Statuses, Stages

LEMMA RowStatus ==
  ASSUME NEW r \in Rows, NEW s \in Statuses \ {"absent"}
  PROVE  /\ [r EXCEPT !.status = s, !.stale = FALSE] \in Rows
         /\ [r EXCEPT !.status = s, !.due = TRUE, !.stale = FALSE] \in Rows
         /\ [r EXCEPT !.due = FALSE, !.stale = FALSE, !.status = s] \in Rows
<1>1. CASE r = Absent
  BY <1>1 DEF Rows, LiveRows, Absent
<1>2. CASE r # Absent
  <2>1. r \in LiveRows
    BY <1>2 DEF Rows
  <2> QED
    BY <2>1 DEF Rows, LiveRows
<1> QED
  BY <1>1, <1>2

LEMMA RowClaimed ==
  ASSUME NEW r \in Rows, NEW n \in Nat
  PROVE  [r EXCEPT !.status = "processing", !.stale = FALSE, !.attempts = n] \in Rows
<1>1. CASE r = Absent
  BY <1>1 DEF Rows, LiveRows, Statuses, Absent
<1>2. CASE r # Absent
  <2>1. r \in LiveRows
    BY <1>2 DEF Rows
  <2> QED
    BY <2>1 DEF Rows, LiveRows, Statuses
<1> QED
  BY <1>1, <1>2

LEMMA ConsoleType == ASSUME TypeOK, Console PROVE TypeOK'
<1> USE LimitsAssumption DEF TypeOK, history
<1>1. ASSUME NEW e \in Events, EmitSelect(e) PROVE TypeOK'
  BY <1>1 DEF EmitSelect
<1>2. ASSUME NEW e \in Events, EmitInsert(e) PROVE TypeOK'
  BY <1>2, Values DEF EmitInsert, Ids
<1>3. ASSUME NEW i \in Ids, NEW copy \in ReplayIds, Replay(i, copy) PROVE TypeOK'
  BY <1>3, Values DEF Replay, Ids
<1>4. ASSUME NEW edit \in Edits, UpdateRead(edit) PROVE TypeOK'
  <2>1. Limit(edit) \in 0 .. Cap
    BY DEF Limit, Edit, Hooks
  <2> QED
    BY <1>4, <2>1 DEF UpdateRead, Hooks
<1>5. CASE UpdateWrite
  <2>1. editing.max \in 1 .. Cap /\ editing.active \in BOOLEAN
    BY <1>5 DEF UpdateWrite
  <2>2. hook' \in Hooks
    BY <1>5, <2>1 DEF UpdateWrite, Hooks
  <2>3. editing' \in [active : BOOLEAN, max : 0 .. Cap]
    BY <1>5 DEF UpdateWrite, NoEdit
  <2>4. /\ UNCHANGED <<row, emitting, loop, batch, task, sent, accepted, recovered, unacked,
                       aborts, overruns>>
        /\ allowed' \in {allowed, editing.max}
    BY <1>5 DEF UpdateWrite
  <2> QED
    BY <2>1, <2>2, <2>3, <2>4
<1>6. CASE Remove
  <2>1. hook' \in Hooks
    BY <1>6 DEF Remove, Hooks
  <2> QED
    BY <1>6, <2>1, Values DEF Remove
<1>7. ASSUME NEW t \in Testers, TestSelect(t) PROVE TypeOK'
  <2>1. t \in Threads /\ task[t] \in Tasks
    BY DEF Threads
  <2>2. Exists(task[t].id) => task[t].id \in Ids
    BY <2>1, <1>7 DEF Tasks, TestSelect, NoTask
  <2>3. Exists(task[t].id) =>
          [stage |-> "mark", id |-> task[t].id, attempt |-> NextAttempt(task[t].id),
           max |-> hook.max] \in Tasks
    BY <2>2 DEF NextAttempt, Tasks, Stages, Rows, LiveRows, Absent, Hooks
  <2> QED
    BY <1>7, <2>1, <2>3, Values DEF TestSelect
<1>8. ASSUME NEW t \in Testers, NEW i \in TestIds, TestInsert(t, i) PROVE TypeOK'
  <2>1. i \in Ids /\ t \in Threads
    BY DEF Ids, Threads
  <2>2. [NoTask EXCEPT !.stage = "select", !.id = i] \in Tasks
    BY <2>1 DEF NoTask, Tasks, Stages
  <2> QED
    BY <1>8, <2>1, <2>2, Values DEF TestInsert
<1> QED
  BY <1>1, <1>2, <1>3, <1>4, <1>5, <1>6, <1>7, <1>8 DEF Console

LEMMA QueueType == ASSUME TypeOK, NEW w \in Workers, Queue(w) PROVE TypeOK'
<1> USE LimitsAssumption DEF TypeOK, history
<1>1. CASE Recover(w)
  <2>1. "failed" \in Statuses \ {"absent"}
    BY DEF Statuses
  <2>2. row' = [i \in Ids |-> IF i \in Stuck
                  THEN [row[i] EXCEPT !.status = "failed", !.due = TRUE, !.stale = FALSE]
                  ELSE row[i]]
    BY <1>1 DEF Recover
  <2>3. row' \in [Ids -> Rows]
    BY <2>1, <2>2, RowStatus
  <2>4. recovered' \in [Ids -> Nat]
    <3>1. recovered' = [i \in Ids |-> IF i \in Stuck THEN recovered[i] + 1
                                     ELSE recovered[i]]
      BY <1>1 DEF Recover
    <3>2. \A i \in Ids : recovered[i] \in Nat /\ recovered[i] + 1 \in Nat
      OBVIOUS
    <3> QED
      BY <3>1, <3>2
  <2> QED
    BY <1>1, <2>3, <2>4 DEF Recover
<1>2. CASE Claim(w)
  <2>1. PICK S \in SUBSET Ready :
          /\ row' = [i \in Ids |-> IF i \in S
                       THEN [row[i] EXCEPT !.status = "processing", !.stale = FALSE,
                                           !.attempts = NextAttempt(i)]
                       ELSE row[i]]
          /\ batch' = [batch EXCEPT ![w] =
               {[id |-> i, attempt |-> NextAttempt(i), max |-> hook.max] : i \in S}]
    BY <1>2 DEF Claim
  <2>2. S \subseteq Ids /\ \A i \in Ids : NextAttempt(i) \in Nat
    BY DEF NextAttempt, Ready, Rows, LiveRows, Absent
  <2>3. row' \in [Ids -> Rows]
    <3>1. "processing" \in Statuses
      BY DEF Statuses
    <3> QED
      BY <2>1, <2>2, RowClaimed
  <2>4. {[id |-> i, attempt |-> NextAttempt(i), max |-> hook.max] : i \in S}
          \in SUBSET Claims
    BY <2>2 DEF Claims, Hooks
  <2>5. batch' \in [Workers -> SUBSET Claims]
    BY <2>1, <2>4
  <2>6. /\ loop' \in [Workers -> {"idle", "recovered", "sending"}]
        /\ UNCHANGED <<hook, emitting, editing, task, history, aborts, overruns>>
    BY <1>2 DEF Claim
  <2> QED
    BY <2>3, <2>5, <2>6
<1>3. CASE Deliver(w)
  <2>1. PICK c \in batch[w] :
          /\ task' = [task EXCEPT ![w] = [stage |-> "post", id |-> c.id,
                                          attempt |-> c.attempt, max |-> c.max]]
          /\ batch' = [batch EXCEPT ![w] = @ \ {c}]
    BY <1>3 DEF Deliver
  <2>2. [stage |-> "post", id |-> c.id, attempt |-> c.attempt, max |-> c.max] \in Tasks
    BY DEF Claims, Tasks, Stages
  <2> QED
    BY <1>3, <2>1, <2>2 DEF Deliver, Threads
<1>4. CASE Finish(w)
  BY <1>4 DEF Finish
<1> QED
  BY <1>1, <1>2, <1>3, <1>4 DEF Queue

\* Writing a row that exists, or none, leaves well-typed rows.
LEMMA WriteType ==
  ASSUME row \in [Ids -> Rows], NEW i \in Ids, NEW r \in Rows, Write(i, r)
  PROVE  row' \in [Ids -> Rows]
  BY DEF Write

\* A delivery moves to another stage under the same claim, or ends.
LEMMA TaskType ==
  ASSUME task \in [Threads -> Tasks], NEW t \in Threads, task[t].stage # "none",
         NEW s \in Stages \ {"none"}
  PROVE  To(t, s) \in [Threads -> Tasks] /\ task[t].id \in Ids /\ task[t].attempt \in Nat
  <1>1. task[t] \in [stage : Stages \ {"none"}, id : Ids, attempt : Nat, max : Nat]
    BY DEF Tasks, NoTask
  <1>2. [task[t] EXCEPT !.stage = s] \in Tasks
    BY <1>1 DEF Tasks
  <1> QED
    BY <1>1, <1>2 DEF To

LEMMA DeliveringType == ASSUME TypeOK, NEW t \in Threads, Delivering(t) PROVE TypeOK'
<1> USE LimitsAssumption DEF TypeOK, history
<1> DEFINE Next1 == {"post", "sent", "ok", "bad", "okhook", "badhook", "disable"}
<1>0. /\ task[t].stage # "none" => \A s \in Next1 : To(t, s) \in [Threads -> Tasks]
      /\ task[t].stage # "none" => task[t].id \in Ids /\ task[t].attempt \in Nat
      /\ [task EXCEPT ![t] = NoTask] \in [Threads -> Tasks]
  <2>1. Next1 \subseteq Stages \ {"none"}
    BY DEF Stages
  <2>2. task \in [Threads -> Tasks] /\ NoTask \in Tasks
    BY Values
  <2>3. ASSUME task[t].stage # "none", NEW s \in Next1
        PROVE  To(t, s) \in [Threads -> Tasks] /\ task[t].id \in Ids /\ task[t].attempt \in Nat
    BY <2>1, <2>2, <2>3, TaskType
  <2>4. [task EXCEPT ![t] = NoTask] \in [Threads -> Tasks]
    BY <2>2
  <2> QED
    BY <2>3, <2>4
<1>1. CASE Mark(t)
  <2>1. row' \in [Ids -> Rows]
    BY <1>0, <1>1, WriteType, RowClaimed DEF Mark
  <2> QED
    BY <1>0, <1>1, <2>1 DEF Mark
<1>2. CASE Refuse(t)
  BY <1>0, <1>2 DEF Refuse
<1>3. CASE Post(t)
  BY <1>0, <1>3 DEF Post
<1>4. CASE Answer(t)
  BY <1>0, <1>4 DEF Answer
<1>5. CASE RowDelivered(t)
  <2>1. row' \in [Ids -> Rows]
    BY <1>0, <1>5, WriteType, RowStatus DEF RowDelivered, Statuses
  <2> QED
    BY <1>0, <1>5, <2>1 DEF RowDelivered
<1>6. CASE HookSucceeded(t)
  <2>1. hook' \in Hooks
    BY <1>6 DEF HookSucceeded, Hooks
  <2> QED
    BY <1>0, <1>6, <2>1 DEF HookSucceeded
<1>7. CASE RowFailed(t)
  <2>1. (IF Exhausted(t) THEN "dead_letter" ELSE "failed") \in Statuses \ {"absent"}
    BY DEF Statuses
  <2>2. row' \in [Ids -> Rows]
    BY <1>0, <1>7, <2>1, WriteType, RowStatus DEF RowFailed
  <2> QED
    BY <1>0, <1>7, <2>2 DEF RowFailed
<1>8. CASE HookFailed(t)
  <2>1. hook' \in Hooks
    BY <1>8 DEF HookFailed, Hooks
  <2> QED
    BY <1>0, <1>8, <2>1 DEF HookFailed
<1>9. CASE Disable(t)
  <2>1. hook' \in Hooks
    BY <1>9 DEF Disable, Hooks
  <2> QED
    BY <1>0, <1>9, <2>1 DEF Disable
<1> QED
  BY <1>1, <1>2, <1>3, <1>4, <1>5, <1>6, <1>7, <1>8, <1>9 DEF Delivering

\* The clock, a failed acknowledgement, the end of a thread.
LEMMA EnvironmentType ==
  ASSUME TypeOK, Clock \/ \E t \in Threads : SuccessFails(t) \/ Abort(t)
  PROVE  TypeOK'
<1> USE LimitsAssumption DEF TypeOK, history
<1>1. ASSUME NEW i \in Ids, BecomeDue(i) PROVE TypeOK'
  <2>1. [row[i] EXCEPT !.due = TRUE] \in Rows
    <3>1. row[i] \in LiveRows
      BY <1>1 DEF BecomeDue, Rows, Absent
    <3> QED
      BY <3>1 DEF Rows, LiveRows
  <2> QED
    BY <1>1, <2>1 DEF BecomeDue
<1>2. ASSUME NEW i \in Ids, GoStale(i) PROVE TypeOK'
  <2>1. [row[i] EXCEPT !.stale = TRUE] \in Rows
    <3>1. row[i] \in LiveRows
      BY <1>2 DEF GoStale, Rows, Absent
    <3> QED
      BY <3>1 DEF Rows, LiveRows
  <2> QED
    BY <1>2, <2>1 DEF GoStale
<1>3. ASSUME NEW t \in Threads, SuccessFails(t) PROVE TypeOK'
  <2>1. To(t, "bad") \in [Threads -> Tasks] /\ task[t].id \in Ids
    BY <1>3, TaskType DEF SuccessFails, Stages
  <2> QED
    BY <1>3, <2>1 DEF SuccessFails
<1>4. ASSUME NEW t \in Threads, Abort(t) PROVE TypeOK'
  BY <1>4, Values DEF Abort
<1> QED
  BY <1>1, <1>2, <1>3, <1>4 DEF Clock

LEMMA TypeStep == ASSUME TypeOK, [Next]_vars PROVE TypeOK'
<1>1. CASE Next
  BY <1>1, ConsoleType, QueueType, DeliveringType, EnvironmentType DEF Next
<1>2. CASE UNCHANGED vars
  BY <1>2 DEF vars, TypeOK
<1> QED
  BY <1>1, <1>2

\* Type correctness: whatever the interleaving of loops, tests, edits, crashes
\* and late answers, the tables and the threads hold values of their types.
THEOREM TypeCorrect == Spec => []TypeOK
<1>1. TypeOK /\ [Next]_vars => TypeOK'
  BY TypeStep
<1> QED
  BY <1>1, InitType, PTL DEF Spec

-----------------------------------------------------------------------------
(* No attempt is sent twice.                                               *)

LEMMA ThreadsApart ==
  /\ \A w \in Workers : w \in Threads /\ w \notin Testers
  /\ \A t \in Testers : t \in Threads /\ t \notin Workers
  /\ \A t \in Threads : t \in Workers \/ t \in Testers
  /\ \A i \in TestIds : i \notin QueueIds
  /\ \A i \in QueueIds : i \in Ids
  BY IdsAssumption DEF Threads, Ids, QueueIds

\* A step that sends nothing, hands out no attempt and lowers no count keeps
\* the circulation, whatever else it does.
LEMMA Quiet ==
  ASSUME TypeOK, TypeOK', Circulation,
         hook'.exists => hook.exists,
         hook'.exists => \A i \in QueueIds : row'[i].attempts >= row[i].attempts,
         sent' = sent,
         \A w \in Workers : Unsent(w)' \subseteq Unsent(w),
         ThreadShape'
  PROVE  Circulation'
<1>1. \A p \in QueuePairs : /\ p[1] \in QueueIds /\ p[2] \in Nat
                            /\ row[p[1]].attempts \in Nat /\ row'[p[1]].attempts \in Nat
  BY ThreadsApart DEF QueuePairs, TypeOK, Rows, LiveRows, Absent
<1>2. AttemptsCounted'
  BY <1>1 DEF Circulation, AttemptsCounted
<1>3. UnsentIsNew' /\ UnsentHasOneOwner'
  BY DEF Circulation, UnsentIsNew, UnsentHasOneOwner
<1> QED
  BY <1>2, <1>3 DEF Circulation

\* Steps that touch neither the threads, nor the batches, nor what was sent.
LEMMA QuietTables ==
  ASSUME TypeOK, TypeOK', Circulation,
         hook'.exists => hook.exists,
         hook'.exists => \A i \in QueueIds : row'[i].attempts >= row[i].attempts,
         UNCHANGED <<loop, batch, task, sent>>
  PROVE  Circulation'
<1>1. ThreadShape' /\ \A w \in Workers : Unsent(w)' = Unsent(w)
  BY DEF Circulation, ThreadShape, Unsent
<1> QED
  BY <1>1, Quiet

LEMMA AttemptsNat ==
  ASSUME TypeOK
  PROVE  /\ \A i \in Ids : row[i].attempts \in Nat
         /\ \A i \in Ids : ~Exists(i) => row[i].attempts = 0
         /\ Fresh.attempts = 0
  BY DEF TypeOK, Rows, LiveRows, Absent, Exists, Fresh

\* Every write to a row but a claim and test()'s mark leaves its count alone.
LEMMA CountsKept ==
  ASSUME TypeOK, NEW i \in Ids, NEW r \in Rows,
         row' = [row EXCEPT ![i] = r], r.attempts >= row[i].attempts
  PROVE  \A j \in QueueIds : row'[j].attempts >= row[j].attempts
  BY AttemptsNat, ThreadsApart DEF TypeOK

\* A new row starts from no attempts, as its absent predecessor did.
LEMMA InsertKeepsCounts ==
  ASSUME TypeOK, NEW i \in Ids, ~Exists(i), row' = [row EXCEPT ![i] = Fresh]
  PROVE  \A j \in QueueIds : row'[j].attempts >= row[j].attempts
<1>1. Fresh \in Rows
  BY Values
<1>2. Fresh.attempts >= row[i].attempts
  BY AttemptsNat
<1> QED
  BY <1>1, <1>2, CountsKept

LEMMA ConsoleCirculation ==
  ASSUME TypeOK, TypeOK', Circulation, Console PROVE Circulation'
<1> USE DEF history
<1>0. \A j \in QueueIds : row[j].attempts >= row[j].attempts
  BY AttemptsNat, ThreadsApart
<1>1. ASSUME NEW e \in Events, EmitSelect(e) PROVE Circulation'
  BY <1>0, <1>1, QuietTables DEF EmitSelect
<1>2. ASSUME NEW e \in Events, EmitInsert(e) PROVE Circulation'
  <2>1. \A i \in QueueIds : row'[i].attempts >= row[i].attempts
    <3>1. e \in Ids
      BY DEF Ids
    <3>2. CASE ~Exists(e) /\ row' = [row EXCEPT ![e] = Fresh]
      BY <3>1, <3>2, InsertKeepsCounts
    <3>3. CASE row' = row
      BY <1>0, <3>3
    <3> QED
      BY <1>2, <3>2, <3>3 DEF EmitInsert
  <2> QED
    BY <1>2, <2>1, QuietTables DEF EmitInsert
<1>3. ASSUME NEW i \in Ids, NEW copy \in ReplayIds, Replay(i, copy) PROVE Circulation'
  <2>1. \A j \in QueueIds : row'[j].attempts >= row[j].attempts
    <3>1. copy \in Ids /\ ~Exists(copy) /\ row' = [row EXCEPT ![copy] = Fresh]
      BY <1>3 DEF Replay, Ids
    <3> QED
      BY <3>1, InsertKeepsCounts
  <2> QED
    BY <1>3, <2>1, QuietTables DEF Replay
<1>4. ASSUME NEW edit \in Edits, UpdateRead(edit) PROVE Circulation'
  BY <1>0, <1>4, QuietTables DEF UpdateRead
<1>5. CASE UpdateWrite
  <2>1. hook'.exists => hook.exists
    BY <1>5 DEF UpdateWrite, TypeOK, Hooks
  <2> QED
    BY <1>0, <1>5, <2>1, QuietTables DEF UpdateWrite
<1>6. CASE Remove
  <2>1. ~hook'.exists
    BY <1>6 DEF Remove, TypeOK, Hooks
  <2> QED
    BY <1>6, <2>1, QuietTables DEF Remove
<1>7. ASSUME NEW t \in Testers, TestSelect(t) PROVE Circulation'
  <2>1. \A u \in Threads : u # t => task'[u] = task[u]
    BY <1>7 DEF TestSelect, TypeOK
  <2>2. task'[t].stage # "none" => task'[t].id = task[t].id
    BY <1>7, ThreadsApart DEF TestSelect, TypeOK, NoTask
  <2>3. ThreadShape' /\ \A w \in Workers : Unsent(w)' = Unsent(w)
    BY <1>7, <2>1, <2>2, ThreadsApart DEF TestSelect, Circulation, ThreadShape, Unsent
  <2> QED
    BY <1>0, <1>7, <2>3, Quiet DEF TestSelect
<1>8. ASSUME NEW t \in Testers, NEW i \in TestIds, TestInsert(t, i) PROVE Circulation'
  <2>1. \A j \in QueueIds : row'[j].attempts >= row[j].attempts
    <3>1. i \in Ids /\ ~Exists(i) /\ row' = [row EXCEPT ![i] = Fresh]
      BY <1>8 DEF TestInsert, Ids
    <3> QED
      BY <3>1, InsertKeepsCounts
  <2>2. \A u \in Threads : u # t => task'[u] = task[u]
    BY <1>8 DEF TestInsert, TypeOK
  <2>3. task'[t].id \in TestIds
    BY <1>8, ThreadsApart DEF TestInsert, TypeOK, NoTask
  <2>4. ThreadShape' /\ \A w \in Workers : Unsent(w)' = Unsent(w)
    BY <1>8, <2>2, <2>3, ThreadsApart DEF TestInsert, Circulation, ThreadShape, Unsent
  <2> QED
    BY <1>8, <2>1, <2>4, Quiet DEF TestInsert
<1> QED
  BY <1>1, <1>2, <1>3, <1>4, <1>5, <1>6, <1>7, <1>8 DEF Console

\* The pairs of one loop, and the pairs of the others.
LEMMA UnsentOfOthers ==
  ASSUME NEW w \in Workers, NEW v \in Workers,
         batch'[v] = batch[v], task'[v] = task[v]
  PROVE  Unsent(v)' = Unsent(v)
  BY DEF Unsent

\* Only a claim hands out attempts: each is one above the count of its row, so
\* above everything sent or still to be sent, and the claim raises the count.
LEMMA ClaimCirculation ==
  ASSUME TypeOK, TypeOK', Circulation, NEW w \in Workers, Claim(w)
  PROVE  Circulation'
<1> USE DEF history
<1>1. PICK S \in SUBSET Ready :
        /\ row' = [i \in Ids |-> IF i \in S
                     THEN [row[i] EXCEPT !.status = "processing", !.stale = FALSE,
                                         !.attempts = NextAttempt(i)]
                     ELSE row[i]]
        /\ batch' = [batch EXCEPT ![w] =
             {[id |-> i, attempt |-> NextAttempt(i), max |-> hook.max] : i \in S}]
  BY DEF Claim
<1>2. /\ loop[w] = "recovered" /\ loop' = [loop EXCEPT ![w] = "sending"]
      /\ UNCHANGED <<hook, task, sent>>
  BY DEF Claim
<1>3. S \subseteq Ids /\ \A i \in S : hook.exists
  BY DEF Ready
<1>4. \A i \in Ids : NextAttempt(i) = row[i].attempts + 1 /\ row[i].attempts \in Nat
  BY AttemptsNat DEF NextAttempt
<1>5. \A i \in Ids : row'[i].attempts = IF i \in S THEN row[i].attempts + 1
                                        ELSE row[i].attempts
  <2>1. \A i \in Ids : row[i] \in Rows
    BY DEF TypeOK
  <2>2. \A i \in Ids \ S : row'[i].attempts = row[i].attempts
    BY <1>1
  <2>3. ASSUME NEW i \in S PROVE row'[i].attempts = row[i].attempts + 1
    <3>1. row[i] \in LiveRows
      BY <2>1, <2>3, <1>3 DEF Ready, Rows, Absent
    <3>2. row'[i] = [row[i] EXCEPT !.status = "processing", !.stale = FALSE,
                                   !.attempts = NextAttempt(i)]
      BY <1>1, <1>3, <2>3
    <3> QED
      BY <1>3, <1>4, <3>1, <3>2 DEF LiveRows
  <2> QED
    BY <2>2, <2>3
<1>6. task[w].stage = "none" /\ task[w] = NoTask
  BY <1>2 DEF Circulation, ThreadShape, NoTask
<1>7. \A p \in Unsent(w)' : p[1] \in S /\ p[2] = row[p[1]].attempts + 1
  <2>1. batch'[w] = {[id |-> i, attempt |-> NextAttempt(i), max |-> hook.max] : i \in S}
    BY <1>1 DEF TypeOK
  <2>2. task'[w].stage # "post"
    BY <1>2, <1>6
  <2>3. \A p \in Unsent(w)' : \E c \in batch'[w] : p = <<c.id, c.attempt>>
    BY <2>2 DEF Unsent
  <2> QED
    BY <1>3, <1>4, <2>1, <2>3
<1>8. \A v \in Workers : v # w => Unsent(v)' = Unsent(v)
  BY <1>1, <1>2, UnsentOfOthers DEF TypeOK
<1>9. ThreadShape'
  <2>1. \A c, d \in batch'[w] : c.id = d.id => c = d
    <3>1. batch'[w] = {[id |-> i, attempt |-> NextAttempt(i), max |-> hook.max] : i \in S}
      BY <1>1 DEF TypeOK
    <3>2. \A c \in batch'[w] :
            c = [id |-> c.id, attempt |-> NextAttempt(c.id), max |-> hook.max]
      BY <3>1
    <3> QED
      BY <3>2
  <2>2. \A v \in Workers : v # w => batch'[v] = batch[v] /\ loop'[v] = loop[v]
    BY <1>1, <1>2 DEF TypeOK
  <2>3. loop'[w] = "sending"
    BY <1>2 DEF TypeOK
  <2> QED
    BY <1>2, <1>6, <2>1, <2>2, <2>3 DEF Circulation, ThreadShape
<1>10. AttemptsCounted'
  <2> SUFFICES ASSUME hook.exists PROVE AttemptsCounted'
    BY <1>2 DEF AttemptsCounted
  <2>1. \A p \in QueuePairs : p[1] \in Ids /\ p[2] \in Nat
    BY ThreadsApart DEF QueuePairs
  <2>2. \A p \in sent' \cap QueuePairs : p[2] <= row'[p[1]].attempts
    BY <1>2, <1>4, <1>5, <2>1 DEF Circulation, AttemptsCounted
  <2>3. \A p \in Unsent(w)' \cap QueuePairs : p[2] <= row'[p[1]].attempts
    BY <1>4, <1>5, <1>7, <2>1
  <2>4. \A v \in Workers : v # w =>
          \A p \in Unsent(v)' \cap QueuePairs : p[2] <= row'[p[1]].attempts
    BY <1>4, <1>5, <1>8, <2>1 DEF Circulation, AttemptsCounted
  <2> QED
    BY <2>2, <2>3, <2>4 DEF AttemptsCounted
<1>11. ASSUME NEW p \in Unsent(w)' \cap QueuePairs
       PROVE  p \notin sent /\ \A v \in Workers : p \notin Unsent(v)
  <2>1. hook.exists /\ p[1] \in Ids /\ p[2] = row[p[1]].attempts + 1
    BY <1>3, <1>7, <1>11
  <2>2. row[p[1]].attempts \in Nat
    BY <1>4, <2>1
  <2>3. ~(p[2] <= row[p[1]].attempts)
    BY <2>1, <2>2
  <2> QED
    BY <1>11, <2>1, <2>3 DEF Circulation, AttemptsCounted
<1>12. UnsentIsNew'
  BY <1>2, <1>8, <1>11 DEF Circulation, UnsentIsNew
<1>13. UnsentHasOneOwner'
  BY <1>8, <1>11 DEF Circulation, UnsentHasOneOwner
<1> QED
  BY <1>9, <1>10, <1>12, <1>13 DEF Circulation

LEMMA QueueCirculation ==
  ASSUME TypeOK, TypeOK', Circulation, NEW w \in Workers, Queue(w)
  PROVE  Circulation'
<1> USE DEF history
<1>0. \A j \in QueueIds : row[j].attempts >= row[j].attempts
  BY AttemptsNat, ThreadsApart
<1>1. CASE Recover(w)
  <2>1. \A i \in QueueIds : row'[i].attempts >= row[i].attempts
    <3>1. row' = [i \in Ids |-> IF i \in Stuck
                    THEN [row[i] EXCEPT !.status = "failed", !.due = TRUE, !.stale = FALSE]
                    ELSE row[i]]
      BY <1>1 DEF Recover
    <3>2. \A i \in Stuck : i \in Ids /\ row[i] \in LiveRows
      BY DEF Stuck, TypeOK, Rows, Absent
    <3>3. \A i \in Stuck : row'[i].attempts = row[i].attempts
      BY <3>1, <3>2 DEF LiveRows
    <3>4. \A i \in Ids \ Stuck : row'[i].attempts = row[i].attempts
      BY <3>1
    <3> QED
      BY <1>0, <3>3, <3>4, ThreadsApart
  <2>2. ThreadShape'
    <3>1. \A v \in Workers : loop'[v] # "sending" => loop[v] # "sending"
      BY <1>1 DEF Recover, TypeOK
    <3> QED
      BY <1>1, <3>1 DEF Recover, Circulation, ThreadShape
  <2>3. \A v \in Workers : Unsent(v)' = Unsent(v)
    BY <1>1 DEF Recover, Unsent
  <2> QED
    BY <1>1, <2>1, <2>2, <2>3, Quiet DEF Recover
<1>2. CASE Claim(w)
  BY <1>2, ClaimCirculation
<1>3. CASE Deliver(w)
  <2>1. PICK c \in batch[w] :
          /\ task' = [task EXCEPT ![w] = [stage |-> "post", id |-> c.id,
                                          attempt |-> c.attempt, max |-> c.max]]
          /\ batch' = [batch EXCEPT ![w] = @ \ {c}]
    BY <1>3 DEF Deliver
  <2>2. /\ task'[w].stage = "post" /\ task'[w].id = c.id /\ task'[w].attempt = c.attempt
        /\ batch'[w] = batch[w] \ {c} /\ loop[w] = "sending"
    BY <1>3, <2>1, ThreadsApart DEF Deliver, TypeOK
  <2>3. /\ \A t \in Threads : t # w => task'[t] = task[t]
        /\ \A v \in Workers : v # w => batch'[v] = batch[v]
    BY <2>1 DEF TypeOK
  <2>4. \A v \in Workers : Unsent(v)' \subseteq Unsent(v)
    <3>1. Unsent(w)' \subseteq Unsent(w)
      BY <2>2 DEF Unsent
    <3>2. \A v \in Workers : v # w => Unsent(v)' = Unsent(v)
      BY <2>3, UnsentOfOthers, ThreadsApart
    <3> QED
      BY <3>1, <3>2
  <2>5. ThreadShape'
    <3>1. \A d \in batch'[w] : d.id # c.id
      BY <2>2 DEF Circulation, ThreadShape
    <3>2. UNCHANGED loop
      BY <1>3 DEF Deliver
    <3> QED
      BY <2>2, <2>3, <3>1, <3>2, ThreadsApart DEF Circulation, ThreadShape
  <2> QED
    BY <1>0, <1>3, <2>4, <2>5, Quiet DEF Deliver
<1>4. CASE Finish(w)
  <2>1. ThreadShape'
    <3>1. \A v \in Workers : v # w => loop'[v] = loop[v]
      BY <1>4 DEF Finish, TypeOK
    <3>2. task[w] = NoTask
      <4>1. task[w] \in Tasks /\ task[w].stage = "none"
        BY <1>4, ThreadsApart DEF Finish, TypeOK
      <4> QED
        BY <4>1 DEF Tasks
    <3> QED
      BY <1>4, <3>1, <3>2 DEF Finish, Circulation, ThreadShape
  <2>2. \A v \in Workers : Unsent(v)' = Unsent(v)
    BY <1>4 DEF Finish, Unsent
  <2> QED
    BY <1>0, <1>4, <2>1, <2>2, Quiet DEF Finish
<1> QED
  BY <1>1, <1>2, <1>3, <1>4 DEF Queue

\* Steps of a delivery that lead away from the request.
LEMMA Moved ==
  ASSUME TypeOK, Circulation, NEW t \in Threads, task[t].stage # "none",
         UNCHANGED <<loop, batch>>,
         \/ \E s \in Stages \ {"none", "select", "mark", "post"} : task' = To(t, s)
         \/ task' = [task EXCEPT ![t] = NoTask]
  PROVE  ThreadShape' /\ \A w \in Workers : Unsent(w)' \subseteq Unsent(w)
<1>1. \A u \in Threads : u # t => task'[u] = task[u]
  BY DEF To, TypeOK
<1>2. CASE task' = [task EXCEPT ![t] = NoTask]
  <2>1. task'[t] = NoTask /\ task'[t].stage = "none"
    BY <1>2 DEF TypeOK, NoTask
  <2>2. ThreadShape'
    BY <1>1, <2>1, ThreadsApart DEF Circulation, ThreadShape
  <2>3. ASSUME NEW w \in Workers PROVE Unsent(w)' \subseteq Unsent(w)
    BY <1>1, <2>1, ThreadsApart DEF Unsent
  <2> QED
    BY <2>2, <2>3
<1>3. ASSUME NEW s \in Stages \ {"none", "select", "mark", "post"}, task' = To(t, s)
      PROVE  ThreadShape' /\ \A w \in Workers : Unsent(w)' \subseteq Unsent(w)
  <2>1. task[t] \in [stage : Stages \ {"none"}, id : Ids, attempt : Nat, max : Nat]
    BY DEF TypeOK, Tasks, NoTask
  <2>2. task'[t] = [task[t] EXCEPT !.stage = s]
    BY <1>3 DEF To, TypeOK
  <2>3. task'[t].stage = s /\ task'[t].id = task[t].id
    BY <2>1, <2>2
  <2>4. t \in Workers => loop[t] = "sending"
    BY DEF Circulation, ThreadShape, NoTask
  <2>5. ThreadShape'
    BY <1>1, <1>3, <2>3, <2>4, ThreadsApart DEF Circulation, ThreadShape
  <2>6. ASSUME NEW w \in Workers PROVE Unsent(w)' \subseteq Unsent(w)
    BY <1>1, <1>3, <2>3, ThreadsApart DEF Unsent
  <2> QED
    BY <2>5, <2>6
<1> QED
  BY <1>2, <1>3

\* The outcome of a delivery leaves the count of its row alone.
LEMMA WriteKeepsCounts ==
  ASSUME TypeOK, NEW i \in Ids, NEW r \in Rows, Write(i, r),
         r.attempts = row[i].attempts
  PROVE  \A j \in QueueIds : row'[j].attempts >= row[j].attempts
<1>1. CASE row' = [row EXCEPT ![i] = r]
  <2>1. r.attempts >= row[i].attempts
    BY AttemptsNat
  <2> QED
    BY <1>1, <2>1, CountsKept
<1>2. CASE row' = row
  BY <1>2, AttemptsNat, ThreadsApart
<1> QED
  BY <1>1, <1>2 DEF Write

\* The request takes its attempt out of circulation: it is the loop's own, it
\* was not sent before, and no other loop has it.
LEMMA PostCirculation ==
  ASSUME TypeOK, TypeOK', Circulation, NEW t \in Threads, Post(t)
  PROVE  Circulation'
<1> DEFINE pair == <<task[t].id, task[t].attempt>>
<1>1. /\ task[t].stage = "post" /\ task' = To(t, "sent")
      /\ sent' = sent \cup {pair} /\ UNCHANGED <<hook, row, loop, batch>>
  BY DEF Post
<1>2. ThreadShape' /\ \A w \in Workers : Unsent(w)' \subseteq Unsent(w)
  BY <1>1, Moved DEF Stages
<1>3. CASE t \in Testers
  <2>1. pair \notin QueuePairs
    BY <1>1, <1>3, ThreadsApart DEF Circulation, ThreadShape, QueuePairs
  <2>2. sent' \cap QueuePairs = sent \cap QueuePairs
    BY <1>1, <2>1
  <2>3. AttemptsCounted'
    BY <1>1, <1>2, <2>2 DEF Circulation, AttemptsCounted
  <2>4. UnsentIsNew'
    BY <1>2, <2>2 DEF Circulation, UnsentIsNew
  <2>5. UnsentHasOneOwner'
    BY <1>2 DEF Circulation, UnsentHasOneOwner
  <2> QED
    BY <1>2, <2>3, <2>4, <2>5 DEF Circulation
<1>4. CASE t \in Workers
  <2>1. pair \in Unsent(t)
    BY <1>1 DEF Unsent
  <2>2. pair \notin Unsent(t)'
    <3>1. task'[t].stage = "sent"
      <4>1. task[t] \in [stage : Stages \ {"none"}, id : Ids, attempt : Nat, max : Nat]
        BY <1>1 DEF TypeOK, Tasks, NoTask
      <4>2. task'[t] = [task[t] EXCEPT !.stage = "sent"]
        BY <1>1 DEF To, TypeOK
      <4> QED
        BY <4>1, <4>2
    <3>2. \A c \in batch[t] : c.id # task[t].id
      BY <1>1, <1>4 DEF Circulation, ThreadShape
    <3> QED
      BY <1>1, <3>1, <3>2 DEF Unsent
  <2>3. AttemptsCounted'
    <3>1. hook.exists /\ pair \in QueuePairs => pair[2] <= row[pair[1]].attempts
      BY <1>4, <2>1 DEF Circulation, AttemptsCounted
    <3>2. hook.exists => \A p \in sent' \cap QueuePairs : p[2] <= row[p[1]].attempts
      BY <1>1, <3>1 DEF Circulation, AttemptsCounted
    <3> QED
      BY <1>1, <1>2, <3>2 DEF Circulation, AttemptsCounted
  <2>4. ASSUME NEW w \in Workers, NEW p \in Unsent(w)' \cap QueuePairs PROVE p \notin sent'
    <3>1. p \notin sent
      BY <1>2 DEF Circulation, UnsentIsNew
    <3>2. p # pair
      BY <1>2, <1>4, <2>1, <2>2 DEF Circulation, UnsentHasOneOwner
    <3> QED
      BY <1>1, <3>1, <3>2
  <2>5. UnsentHasOneOwner'
    BY <1>2 DEF Circulation, UnsentHasOneOwner
  <2> QED
    BY <1>2, <2>3, <2>4, <2>5 DEF Circulation, UnsentIsNew
<1> QED
  BY <1>3, <1>4, ThreadsApart

LEMMA DeliveringCirculation ==
  ASSUME TypeOK, TypeOK', Circulation, NEW t \in Threads, Delivering(t)
  PROVE  Circulation'
<1> USE DEF history
<1>0. \A j \in QueueIds : row[j].attempts >= row[j].attempts
  BY AttemptsNat, ThreadsApart
<1> DEFINE i == task[t].id
<1>a. task[t].stage # "none" => i \in Ids
  BY DEF TypeOK, Tasks, NoTask
<1>b. ASSUME task[t].stage # "none", UNCHANGED <<loop, batch, sent>>,
             \/ \E s \in Stages \ {"none", "select", "mark", "post"} : task' = To(t, s)
             \/ task' = [task EXCEPT ![t] = NoTask],
             hook'.exists => hook.exists,
             hook'.exists => \A j \in QueueIds : row'[j].attempts >= row[j].attempts
      PROVE  Circulation'
  BY <1>b, Moved, Quiet
<1>1. CASE Mark(t)
  <2>1. t \in Testers /\ i \in TestIds
    BY <1>1, ThreadsApart DEF Mark, Circulation, ThreadShape
  <2>2. \A j \in QueueIds : row'[j].attempts >= row[j].attempts
    <3>1. \A j \in QueueIds : row'[j] = row[j]
      BY <1>1, <2>1, ThreadsApart DEF Mark, Write, TypeOK
    <3> QED
      BY <1>0, <3>1
  <2>3. \A u \in Threads : u # t => task'[u] = task[u]
    BY <1>1 DEF Mark, To, TypeOK
  <2>4. task'[t].id = i
    <3>1. task[t] \in [stage : Stages \ {"none"}, id : Ids, attempt : Nat, max : Nat]
      BY <1>1 DEF Mark, TypeOK, Tasks, NoTask
    <3>2. task'[t] = [task[t] EXCEPT !.stage = "post"]
      BY <1>1 DEF Mark, To, TypeOK
    <3> QED
      BY <3>1, <3>2
  <2>5. ThreadShape' /\ \A w \in Workers : Unsent(w)' = Unsent(w)
    BY <1>1, <2>1, <2>3, <2>4, ThreadsApart
       DEF Mark, Circulation, ThreadShape, Unsent
  <2> QED
    BY <1>1, <2>2, <2>5, Quiet DEF Mark
<1>2. CASE Refuse(t)
  BY <1>0, <1>2, <1>b DEF Refuse, Stages
<1>3. CASE Post(t)
  BY <1>3, PostCirculation
<1>4. CASE Answer(t)
  BY <1>0, <1>4, <1>b DEF Answer, Stages
<1>5. CASE RowDelivered(t)
  <2>1. [row[i] EXCEPT !.status = "delivered", !.stale = FALSE] \in Rows
    BY <1>5, <1>a, RowStatus DEF RowDelivered, TypeOK, Statuses
  <2>2. [row[i] EXCEPT !.status = "delivered", !.stale = FALSE].attempts = row[i].attempts
    BY <1>5, <1>a DEF RowDelivered, TypeOK, Rows, LiveRows, Absent
  <2>3. \A j \in QueueIds : row'[j].attempts >= row[j].attempts
    BY <1>5, <1>a, <2>1, <2>2, WriteKeepsCounts DEF RowDelivered
  <2> QED
    BY <1>5, <2>3, <1>b DEF RowDelivered, Stages
<1>6. CASE HookSucceeded(t)
  <2>1. hook'.exists => hook.exists
    BY <1>6 DEF HookSucceeded, TypeOK, Hooks
  <2> QED
    BY <1>0, <1>6, <2>1, <1>b DEF HookSucceeded
<1>7. CASE RowFailed(t)
  <2> DEFINE s == IF Exhausted(t) THEN "dead_letter" ELSE "failed"
             r == [row[i] EXCEPT !.due = FALSE, !.stale = FALSE, !.status = s]
  <2>1. i \in Ids /\ row[i] \in Rows /\ s \in Statuses \ {"absent"}
    BY <1>7, <1>a DEF RowFailed, TypeOK, Statuses
  <2>2. r \in Rows
    BY <2>1, RowStatus
  <2>3. r.attempts = row[i].attempts
    BY <2>1 DEF Rows, LiveRows, Absent
  <2>4. \A j \in QueueIds : row'[j].attempts >= row[j].attempts
    BY <1>7, <2>1, <2>2, <2>3, WriteKeepsCounts DEF RowFailed
  <2> QED
    BY <1>7, <2>4, <1>b DEF RowFailed, Stages
<1>8. CASE HookFailed(t)
  <2>1. hook'.exists => hook.exists
    BY <1>8 DEF HookFailed, TypeOK, Hooks
  <2> QED
    BY <1>0, <1>8, <2>1, <1>b DEF HookFailed, Stages
<1>9. CASE Disable(t)
  <2>1. hook'.exists => hook.exists
    BY <1>9 DEF Disable, TypeOK, Hooks
  <2> QED
    BY <1>0, <1>9, <2>1, <1>b DEF Disable
<1> QED
  BY <1>1, <1>2, <1>3, <1>4, <1>5, <1>6, <1>7, <1>8, <1>9 DEF Delivering

\* Time, a failed acknowledgement and a crash: nothing gets into circulation.
LEMMA EnvironmentCirculation ==
  ASSUME TypeOK, TypeOK', Circulation,
         Clock \/ \E t \in Threads : SuccessFails(t) \/ Abort(t)
  PROVE  Circulation'
<1> USE DEF history
<1>0. \A j \in QueueIds : row[j].attempts >= row[j].attempts
  BY AttemptsNat, ThreadsApart
<1>1. ASSUME NEW i \in Ids, BecomeDue(i) \/ GoStale(i) PROVE Circulation'
  <2>1. \A j \in QueueIds : row'[j].attempts = row[j].attempts
    <3>1. \A j \in Ids : j # i => row'[j] = row[j]
      BY <1>1 DEF BecomeDue, GoStale, TypeOK
    <3>2. row[i] \in LiveRows
      BY <1>1 DEF BecomeDue, GoStale, TypeOK, Rows, Absent
    <3>3. row'[i] = [row[i] EXCEPT !.due = TRUE] \/ row'[i] = [row[i] EXCEPT !.stale = TRUE]
      BY <1>1 DEF BecomeDue, GoStale, TypeOK
    <3>4. row'[i].attempts = row[i].attempts
      BY <3>2, <3>3 DEF LiveRows
    <3> QED
      BY <3>1, <3>4, ThreadsApart
  <2>2. UNCHANGED <<hook, loop, batch, task, sent>>
    BY <1>1 DEF BecomeDue, GoStale
  <2> QED
    BY <1>0, <2>1, <2>2, QuietTables
<1>2. ASSUME NEW t \in Threads, SuccessFails(t) PROVE Circulation'
  <2>1. /\ task[t].stage # "none" /\ task' = To(t, "bad")
        /\ UNCHANGED <<hook, row, loop, batch, sent>>
    BY <1>2 DEF SuccessFails
  <2> QED
    BY <1>0, <2>1, Moved, Quiet DEF Stages
<1>3. ASSUME NEW t \in Threads, Abort(t) PROVE Circulation'
  <2>1. /\ task'[t] = NoTask /\ \A u \in Threads : u # t => task'[u] = task[u]
        /\ UNCHANGED <<hook, row, sent>>
    BY <1>3 DEF Abort, TypeOK
  <2>2. \A w \in Workers : w # t => loop'[w] = loop[w] /\ batch'[w] = batch[w]
    BY <1>3 DEF Abort, TypeOK
  <2>3. t \in Workers => batch'[t] = {}
    BY <1>3 DEF Abort, TypeOK
  <2>4. ThreadShape'
    BY <2>1, <2>2, <2>3, ThreadsApart DEF Circulation, ThreadShape, NoTask
  <2>5. ASSUME NEW w \in Workers PROVE Unsent(w)' \subseteq Unsent(w)
    <3>1. CASE w = t
      BY <2>1, <2>3, <3>1 DEF Unsent, NoTask
    <3>2. CASE w # t
      BY <2>1, <2>2, <3>2, UnsentOfOthers, ThreadsApart
    <3> QED
      BY <3>1, <3>2
  <2> QED
    BY <1>0, <2>1, <2>4, <2>5, Quiet
<1> QED
  BY <1>1, <1>2, <1>3 DEF Clock

LEMMA InitCirculation == Init => Circulation
<1> SUFFICES ASSUME Init PROVE Circulation
  OBVIOUS
<1>1. /\ \A t \in Threads : task[t] = NoTask
      /\ \A w \in Workers : batch[w] = {}
      /\ sent = {}
  BY DEF Init
<1>2. \A w \in Workers : Unsent(w) = {}
  BY <1>1, ThreadsApart DEF Unsent, NoTask
<1>3. ThreadShape
  BY <1>1, ThreadsApart DEF ThreadShape, NoTask
<1> QED
  BY <1>1, <1>2, <1>3
     DEF Circulation, AttemptsCounted, UnsentIsNew, UnsentHasOneOwner

LEMMA CirculationStep ==
  ASSUME TypeOK, TypeOK', Circulation, [Next]_vars PROVE Circulation'
<1>1. CASE Next
  BY <1>1, ConsoleCirculation, QueueCirculation, DeliveringCirculation,
     EnvironmentCirculation DEF Next
<1>2. CASE UNCHANGED vars
  BY <1>2, AttemptsNat, ThreadsApart, QuietTables DEF vars
<1> QED
  BY <1>1, <1>2

\* Circulation is inductive: the attempts in the loops' hands were not sent,
\* have one owner each and are counted by their rows, in every reachable state.
THEOREM CirculationInvariant == Spec => []Circulation
<1>1. TypeOK /\ TypeOK' /\ Circulation /\ [Next]_vars => Circulation'
  BY CirculationStep
<1> QED
  BY <1>1, InitCirculation, TypeCorrect, PTL DEF Spec

\* No loop ever sends an attempt number that was sent before, with any number
\* of instances, recoveries, crashes and late answers.
THEOREM NoResend == Spec => NoAttemptSentTwice
<1> DEFINE Resend == \A t \in Threads : task[t].stage = "post" /\ task'[t].stage = "sent"
                       /\ task[t].id \in QueueIds
                       => <<task[t].id, task[t].attempt>> \notin sent
<1>1. TypeOK /\ Circulation => [Resend]_vars
  <2> SUFFICES ASSUME TypeOK, Circulation, NEW t \in Threads,
                      task[t].stage = "post", task[t].id \in QueueIds
               PROVE  <<task[t].id, task[t].attempt>> \notin sent
    OBVIOUS
  <2>1. task[t].attempt \in Nat
    BY TaskType DEF TypeOK, Stages
  <2>2. t \in Workers
    BY ThreadsApart DEF Circulation, ThreadShape
  <2>3. <<task[t].id, task[t].attempt>> \in Unsent(t) \cap QueuePairs
    BY <2>1 DEF Unsent, QueuePairs
  <2> QED
    BY <2>2, <2>3 DEF Circulation, UnsentIsNew
<1> QED
  BY <1>1, TypeCorrect, CirculationInvariant, PTL DEF NoAttemptSentTwice

-----------------------------------------------------------------------------
(* Who holds a delivery: that the delivery queue is a lease queue, and what  *)
(* follows for retries, outcomes and test requests.                          *)

(* Rows, claims and tasks                                                    *)

RowRecords == [status : Statuses, attempts : Nat, due : BOOLEAN, stale : BOOLEAN]
TaskRecords == [stage : Stages, id : Ids \cup {NoId}, attempt : Nat, max : Nat]

LEMMA Records ==
  ASSUME TypeOK
  PROVE  /\ row \in [Ids -> RowRecords] /\ task \in [Threads -> TaskRecords]
         /\ \A t \in Threads : task[t].stage # "none" => task[t].id \in Ids
         /\ \A t \in Threads : task[t].stage = "none" => task[t] = NoTask
<1>1. Rows \subseteq RowRecords
  <2>1. Absent \in RowRecords  BY DEF RowRecords, Absent, Statuses
  <2>2. LiveRows \subseteq RowRecords  BY DEF RowRecords, LiveRows
  <2> QED  BY <2>1, <2>2 DEF Rows
<1>2. Tasks \subseteq TaskRecords  BY DEF Tasks, TaskRecords, NoTask, Stages
<1>3. \A r \in Tasks : (r.stage # "none" => r.id \in Ids) /\ (r.stage = "none" => r = NoTask)
  BY DEF Tasks, NoTask, Stages
<1> QED  BY <1>1, <1>2, <1>3 DEF TypeOK

\* A delivery moves on under the same claim.
LEMMA MovesTo ==
  ASSUME TypeOK, NEW t \in Threads, NEW s \in Stages, task' = To(t, s)
  PROVE  /\ \A u \in Threads \ {t} : task'[u] = task[u]
         /\ task'[t].id = task[t].id /\ task'[t].attempt = task[t].attempt
         /\ task'[t].max = task[t].max /\ task'[t].stage = s
<1>1. task \in [Threads -> TaskRecords]  BY Records
<1> QED  BY <1>1 DEF To, TaskRecords

LEMMA TaskEnds ==
  ASSUME TypeOK, NEW t \in Threads, task' = [task EXCEPT ![t] = NoTask]
  PROVE  /\ \A u \in Threads \ {t} : task'[u] = task[u]
         /\ task'[t] = NoTask /\ task'[t].stage = "none" /\ task'[t].id = NoId
         /\ task'[t].max = 0
BY DEF TypeOK, NoTask

\* The write of an outcome changes the status of the one row, if it exists.
LEMMA WritesRow ==
  ASSUME TypeOK, NEW j \in Ids, NEW r \in RowRecords, Write(j, r), NEW i \in Ids
  PROVE  row'[i] = IF i = j /\ Exists(i) THEN r ELSE row[i]
BY DEF Write, TypeOK, Exists

-----------------------------------------------------------------------------
(* The shape of the threads                                                  *)

\* A loop that is not sending has no batch; what it sends has left the batch;
\* a deleted webhook has no rows.
HoldShape ==
  /\ \A w \in Workers : loop[w] # "sending" => batch[w] = {}
  /\ \A w \in Workers : \A c \in batch[w] : c.id # task[w].id
  /\ ~hook.exists => \A i \in Ids : row[i] = Absent

\* The webhook's limit is one it has had.
LimitKnown == hook.max <= allowed

\* Everything the lemmas below take for granted.
BaseInv == TypeOK /\ Circulation /\ HoldShape /\ LimitKnown

LEMMA LimitStep == ASSUME TypeOK, LimitKnown, [Next]_vars  PROVE LimitKnown' /\ allowed <= allowed'
<1>t. /\ hook \in Hooks /\ allowed \in Nat /\ hook.max \in Nat /\ editing.max \in Nat
  BY LimitsAssumption DEF TypeOK, Hooks
<1>1. CASE hook'.max = hook.max /\ allowed' = allowed  BY <1>1, <1>t DEF LimitKnown
<1>2. CASE UpdateWrite
  <2>1. CASE hook.exists
    <3>1. hook'.max = editing.max  BY <1>2, <2>1, <1>t DEF UpdateWrite, Hooks
    <3>2. allowed' = IF editing.max > allowed THEN editing.max ELSE allowed
      BY <1>2, <2>1 DEF UpdateWrite
    <3> QED  BY <3>1, <3>2, <1>t DEF LimitKnown
  <2>2. CASE ~hook.exists
    BY <1>2, <2>2, <1>1 DEF UpdateWrite
  <2> QED  BY <2>1, <2>2
<1>3. CASE Remove  BY <1>3, <1>1, <1>t DEF Remove, Hooks, history
<1>4. ASSUME NEW t \in Threads, HookSucceeded(t) \/ HookFailed(t) \/ Disable(t)
      PROVE  hook'.max = hook.max /\ allowed' = allowed
  BY <1>4, <1>t DEF HookSucceeded, HookFailed, Disable, Hooks, history
<1>5. \/ UNCHANGED <<hook, allowed>> \/ UpdateWrite \/ Remove
      \/ \E t \in Threads : HookSucceeded(t) \/ HookFailed(t) \/ Disable(t)
  BY DEF Next, Console, Clock, Queue, Delivering, EmitSelect, EmitInsert, Replay, UpdateRead,
     TestSelect, TestInsert, Recover, Claim, Deliver, Finish, Mark, Refuse, Post, Answer,
     RowDelivered, SuccessFails, RowFailed, BecomeDue, GoStale, Abort, vars, history
<1> QED  BY <1>1, <1>2, <1>3, <1>4, <1>5

LEMMA ShapeInit == Init => HoldShape /\ LimitKnown
BY DEF Init, HoldShape, LimitKnown

\* Steps that keep the threads and leave no row of a deleted webhook.
LEMMA ShapeOfTables ==
  ASSUME BaseInv, UNCHANGED <<loop, batch, task>>,
         ~hook'.exists => \A i \in Ids : row'[i] = Absent
  PROVE  HoldShape'
BY DEF BaseInv, HoldShape

\* Steps of one thread under its claim, or to its end.
LEMMA ShapeOfTask ==
  ASSUME BaseInv, NEW t \in Threads, UNCHANGED <<loop, batch>>,
         ~hook'.exists => \A i \in Ids : row'[i] = Absent,
         \/ \E s \in Stages : task' = To(t, s)
         \/ task' = [task EXCEPT ![t] = NoTask]
  PROVE  HoldShape'
<1>1. \A u \in Threads : task'[u].id \in {task[u].id, NoId}
  BY MovesTo, TaskEnds DEF BaseInv
<1>2. \A w \in Workers : \A c \in batch[w] : c.id # NoId
  BY IdsAssumption DEF BaseInv, TypeOK, Claims
<1>3. \A w \in Workers : \A c \in batch[w] : c.id # task'[w].id
  BY <1>1, <1>2, ThreadsApart DEF BaseInv, HoldShape
<1> QED  BY <1>3 DEF BaseInv, HoldShape

\* An outcome is written to a row that exists, so none comes back.
LEMMA WritesNoGhost ==
  ASSUME BaseInv, NEW j \in Ids, NEW r, Write(j, r), hook' = hook
  PROVE  ~hook'.exists => \A i \in Ids : row'[i] = Absent
BY DEF Write, BaseInv, HoldShape, Exists, Absent

LEMMA ShapeStep == ASSUME BaseInv, [Next]_vars  PROVE HoldShape'
<1> USE DEF BaseInv
<1>r. ~hook.exists => \A i \in Ids : row[i] = Absent  BY DEF HoldShape
<1>h. hook \in Hooks  BY DEF TypeOK
<1>1. ASSUME NEW e \in Events, EmitSelect(e) \/ EmitInsert(e)  PROVE HoldShape'
  BY <1>1, <1>r, ShapeOfTables DEF EmitSelect, EmitInsert
<1>2. ASSUME NEW i \in Ids, NEW copy \in ReplayIds, Replay(i, copy)  PROVE HoldShape'
  BY <1>2, ShapeOfTables DEF Replay
<1>3. ASSUME NEW edit \in Edits, UpdateRead(edit)  PROVE HoldShape'
  BY <1>3, <1>r, ShapeOfTables DEF UpdateRead
<1>4. CASE UpdateWrite
  <2>1. hook'.exists = hook.exists  BY <1>4, <1>h DEF UpdateWrite, Hooks
  <2> QED  BY <2>1, <1>4, <1>r, ShapeOfTables DEF UpdateWrite
<1>5. CASE Remove  BY <1>5, ShapeOfTables DEF Remove
<1>6. ASSUME NEW t \in Testers,
             TestSelect(t) \/ \E i \in TestIds : TestInsert(t, i)
      PROVE  HoldShape'
  <2>1. t \in Threads /\ t \notin Workers  BY ThreadsApart
  <2>2. /\ UNCHANGED <<hook, loop, batch>> /\ \A u \in Threads \ {t} : task'[u] = task[u]
    BY <1>6 DEF TestSelect, TestInsert, TypeOK
  <2>3. ~hook'.exists => \A i \in Ids : row'[i] = Absent
    BY <1>6, <1>r, <2>2 DEF TestSelect, TestInsert
  <2> QED  BY <2>1, <2>2, <2>3, ThreadsApart DEF HoldShape
<1>7. ASSUME NEW w \in Workers, Recover(w)  PROVE HoldShape'
  <2>1. ~hook.exists => Stuck = {}  BY <1>r DEF Stuck, Absent
  <2>2. ~hook.exists => \A i \in Ids : row'[i] = Absent  BY <1>7, <1>r, <2>1 DEF Recover
  <2>3. \A v \in Workers : loop'[v] # "sending" => loop[v] # "sending"
    BY <1>7 DEF Recover, TypeOK
  <2> QED  BY <1>7, <2>2, <2>3 DEF Recover, HoldShape
<1>8. ASSUME NEW w \in Workers, Claim(w)  PROVE HoldShape'
  <2>1. PICK S \in SUBSET Ready :
          /\ row' = [i \in Ids |-> IF i \in S
                       THEN [row[i] EXCEPT !.status = "processing", !.stale = FALSE,
                                           !.attempts = NextAttempt(i)]
                       ELSE row[i]]
          /\ batch' = [batch EXCEPT ![w] =
               {[id |-> i, attempt |-> NextAttempt(i), max |-> hook.max] : i \in S}]
    BY <1>8 DEF Claim
  <2>2. /\ UNCHANGED <<hook, task>> /\ loop'[w] = "sending" /\ task[w] = NoTask
        /\ \A v \in Workers \ {w} : loop'[v] = loop[v] /\ batch'[v] = batch[v]
    BY <1>8, <2>1 DEF Claim, TypeOK, Circulation, ThreadShape
  <2>3. \A c \in batch'[w] : c.id \in Ids
    <3>1. batch'[w] =
            {[id |-> i, attempt |-> NextAttempt(i), max |-> hook.max] : i \in S}
      BY <2>1 DEF TypeOK
    <3>2. S \subseteq Ids  BY DEF Ready
    <3> QED  BY <3>1, <3>2
  <2>5. ~hook.exists => S = {}  BY DEF Ready
  <2>6. ~hook.exists => \A i \in Ids : row'[i] = Absent  BY <1>r, <2>1, <2>5
  <2>7. \A c \in batch'[w] : c.id # task'[w].id
    BY <2>2, <2>3, IdsAssumption DEF NoTask
  <2> QED  BY <2>2, <2>6, <2>7 DEF HoldShape
<1>9. ASSUME NEW w \in Workers, Deliver(w)  PROVE HoldShape'
  <2>1. PICK c \in batch[w] :
          /\ task' = [task EXCEPT ![w] = [stage |-> "post", id |-> c.id,
                                          attempt |-> c.attempt, max |-> c.max]]
          /\ batch' = [batch EXCEPT ![w] = @ \ {c}]
    BY <1>9 DEF Deliver
  <2>2. /\ UNCHANGED <<hook, row, loop>> /\ batch'[w] = batch[w] \ {c}
        /\ task'[w].id = c.id
        /\ \A v \in Workers \ {w} : batch'[v] = batch[v]
        /\ \A u \in Threads \ {w} : task'[u] = task[u]
    BY <1>9, <2>1, ThreadsApart DEF Deliver, TypeOK
  <2>3. \A d \in batch[w] : d.id = c.id => d = c
    BY DEF Circulation, ThreadShape
  <2>4. \A v \in Workers : \A d \in batch'[v] : d.id # task'[v].id
    BY <2>2, <2>3, ThreadsApart DEF HoldShape
  <2>6. \A v \in Workers : loop'[v] # "sending" => batch'[v] = {}
    BY <2>2, <1>9 DEF HoldShape, Deliver
  <2> QED  BY <2>2, <2>4, <2>6, <1>r DEF HoldShape
<1>10. ASSUME NEW w \in Workers, Finish(w)  PROVE HoldShape'
  <2>1. \A v \in Workers \ {w} : loop'[v] = loop[v]  BY <1>10 DEF Finish, TypeOK
  <2> QED  BY <1>10, <2>1 DEF Finish, HoldShape
<1>11. ASSUME NEW t \in Threads,
              \/ Mark(t) \/ Refuse(t) \/ Post(t) \/ Answer(t) \/ RowDelivered(t)
              \/ RowFailed(t) \/ SuccessFails(t)
       PROVE  HoldShape'
  <2>1. task[t].stage # "none" /\ UNCHANGED <<hook, loop, batch>>
    BY <1>11 DEF Mark, Refuse, Post, Answer, RowDelivered, RowFailed, SuccessFails
  <2>2. task[t].id \in Ids  BY <2>1, Records
  <2>3. ~hook'.exists => \A i \in Ids : row'[i] = Absent
    BY <1>11, <1>r, <2>1, <2>2, WritesNoGhost
    DEF Mark, Refuse, Post, Answer, RowDelivered, RowFailed, SuccessFails
  <2>4. \E s \in Stages : task' = To(t, s)
    BY <1>11 DEF Mark, Refuse, Post, Answer, RowDelivered, RowFailed, SuccessFails, Stages
  <2> QED  BY <2>1, <2>3, <2>4, ShapeOfTask
<1>12. ASSUME NEW t \in Threads, HookSucceeded(t) \/ HookFailed(t) \/ Disable(t)
       PROVE  HoldShape'
  <2>1. hook'.exists = hook.exists /\ UNCHANGED <<row, loop, batch>>
    BY <1>12, <1>h DEF HookSucceeded, HookFailed, Disable, Hooks
  <2>2. \/ \E s \in Stages : task' = To(t, s)
        \/ task' = [task EXCEPT ![t] = NoTask]
    BY <1>12 DEF HookSucceeded, HookFailed, Disable, Stages
  <2> QED  BY <2>1, <2>2, <1>r, ShapeOfTask
<1>13. ASSUME NEW i \in Ids, BecomeDue(i) \/ GoStale(i)  PROVE HoldShape'
  <2>1. hook.exists  BY <1>13, <1>r DEF BecomeDue, GoStale, Absent
  <2> QED  BY <1>13, <2>1, ShapeOfTables DEF BecomeDue, GoStale
<1>14. ASSUME NEW t \in Threads, Abort(t)  PROVE HoldShape'
  <2>1. /\ task'[t] = NoTask /\ \A u \in Threads \ {t} : task'[u] = task[u]
        /\ \A v \in Workers \ {t} : loop'[v] = loop[v] /\ batch'[v] = batch[v]
        /\ t \in Workers => batch'[t] = {}
        /\ UNCHANGED <<hook, row>>
    BY <1>14 DEF Abort, TypeOK
  <2> QED  BY <2>1, <1>r, ThreadsApart DEF HoldShape
<1>15. CASE UNCHANGED vars  BY <1>15, <1>r, ShapeOfTables DEF vars
<1> QED
  BY <1>1, <1>2, <1>3, <1>4, <1>5, <1>6, <1>7, <1>8, <1>9, <1>10, <1>11, <1>12, <1>13,
     <1>14, <1>15
  DEF Next, Console, Clock, Queue, Delivering

\* BaseInv is inductive.
LEMMA BaseStep == ASSUME BaseInv, [Next]_vars  PROVE BaseInv'
<1>1. TypeOK'  BY TypeStep DEF BaseInv
<1>2. Circulation'  BY <1>1, CirculationStep DEF BaseInv
<1> QED  BY <1>1, <1>2, ShapeStep, LimitStep DEF BaseInv

LEMMA BaseHolds == Spec => []BaseInv
<1>1. Init => BaseInv  BY InitType, InitCirculation, ShapeInit DEF BaseInv
<1>2. BaseInv /\ [Next]_vars => BaseInv'  BY BaseStep
<1> QED  BY <1>1, <1>2, PTL DEF Spec

-----------------------------------------------------------------------------
(* Who may still write the outcome of a delivery                             *)

\* The stages in which a thread has its say ahead of it: a success can be
\* taken back until the webhook is written as well.
Ticketed == Unwritten \cup {"select", "okhook"}

\* The attempts of i a thread holds, each with the limit it was claimed under,
\* those who hold some, and the loops whose failure would send the event back
\* into the queue.
Carried(t, i) ==
  {a \in Nat \X Nat :
     \/ t \in Workers /\ \E c \in batch[t] : c.id = i /\ c.attempt = a[1] /\ c.max = a[2]
     \/ /\ task[t].id = i /\ task[t].stage \in Ticketed
        /\ task[t].attempt = a[1] /\ task[t].max = a[2]}
Senders(i) == {t \in Threads : Carried(t, i) # {}}
Early(i) == {t \in Threads : \E a \in Carried(t, i) : a[1] < a[2]}

\* Nobody takes i up, or up again with an earlier attempt.
Kept(i) == /\ Senders(i)' \subseteq Senders(i)
           /\ i \in QueueIds => Early(i)' \subseteq Early(i)

LEMMA TicketStages ==
  /\ Ticketed = {"select", "mark", "post", "sent", "ok", "bad", "okhook"}
  /\ Ticketed \subseteq Stages /\ "none" \notin Ticketed
BY DEF Ticketed, Unwritten, Stages

LEMMA SendersFinite ==
  ASSUME NEW i \in Ids
  PROVE  /\ IsFiniteSet(Senders(i)) /\ Cardinality(Senders(i)) \in Nat
         /\ IsFiniteSet(Early(i)) /\ Cardinality(Early(i)) \in Nat
         /\ Early(i) \subseteq Senders(i)
<1>1. Senders(i) \subseteq Threads /\ Early(i) \subseteq Senders(i)  BY DEF Senders, Early
<1>2. IsFiniteSet(Senders(i))  BY <1>1, ThreadsFinite, FS_Subset
<1>3. IsFiniteSet(Early(i))  BY <1>1, <1>2, FS_Subset
<1> QED  BY <1>1, <1>2, <1>3, FS_CardinalityType

LEMMA HandsKept ==
  ASSUME NEW i \in Ids, \A t \in Threads : Carried(t, i)' \subseteq Carried(t, i)
  PROVE  Kept(i)
BY DEF Kept, Senders, Early

\* What a thread holds depends on its own batch and task.
LEMMA HandsOfOthers ==
  ASSUME NEW t \in Threads, NEW i \in Ids,
         task'[t] = task[t], t \in Workers => batch'[t] = batch[t]
  PROVE  Carried(t, i)' = Carried(t, i)
BY DEF Carried

\* A delivery that moves on or ends: nobody takes anything up; who is done
\* holds the delivery no more, for its batch has none of the same id.
LEMMA HandsOfTask ==
  ASSUME BaseInv, NEW t \in Threads, NEW i \in Ids, UNCHANGED batch,
         \A u \in Threads \ {t} : task'[u] = task[u],
         task'[t].stage \in Ticketed =>
           /\ task[t].stage \in Ticketed
           /\ task'[t].id = task[t].id /\ task'[t].attempt = task[t].attempt
           /\ task'[t].max = task[t].max
  PROVE  /\ Kept(i)
         /\ task'[t].stage \notin Ticketed /\ task[t].stage \in Ticketed /\ task[t].id = i
            => /\ t \in Senders(i) /\ Senders(i)' \subseteq Senders(i) \ {t}
               /\ Early(i)' \subseteq Early(i) \ {t}
               /\ task[t].attempt < task[t].max => t \in Early(i)
<1>1. Carried(t, i)' \subseteq Carried(t, i)  BY DEF Carried
<1>2. \A u \in Threads \ {t} : Carried(u, i)' = Carried(u, i)  BY HandsOfOthers
<1>3. Kept(i)  BY <1>1, <1>2, HandsKept
<1>4. ASSUME task'[t].stage \notin Ticketed, task[t].stage \in Ticketed, task[t].id = i
      PROVE  /\ t \in Senders(i) /\ Senders(i)' \subseteq Senders(i) \ {t}
             /\ Early(i)' \subseteq Early(i) \ {t}
             /\ task[t].attempt < task[t].max => t \in Early(i)
  <2>1. t \in Workers => \A c \in batch[t] : c.id # i  BY <1>4 DEF BaseInv, HoldShape
  <2>2. Carried(t, i)' = {}  BY <1>4, <2>1 DEF Carried
  <2>3. task[t].attempt \in Nat /\ task[t].max \in Nat  BY Records DEF BaseInv, TaskRecords
  <2>4. <<task[t].attempt, task[t].max>> \in Carried(t, i)  BY <1>4, <2>3 DEF Carried
  <2> QED  BY <1>2, <2>2, <2>4 DEF Senders, Early
<1> QED  BY <1>3, <1>4

-----------------------------------------------------------------------------
(* What a step does to one delivery                                          *)

SameCounts(i) == row'[i].attempts = row[i].attempts /\ recovered'[i] = recovered[i]

IsResting(i)  == /\ row'[i].status = row[i].status /\ SameCounts(i) /\ Kept(i)
                 /\ hook'.exists = hook.exists
IsRemoved(i)  == row'[i] = Absent /\ ~hook'.exists /\ recovered'[i] = recovered[i] /\ Kept(i)
IsInserted(i) == /\ row[i].status = "absent" /\ hook.exists /\ row'[i] = Fresh
                 /\ recovered'[i] = recovered[i]
                 /\ \/ Kept(i)
                    \/ i \in TestIds /\ \E t \in Threads : Senders(i)' \subseteq Senders(i) \cup {t}
IsRecovered(i) == /\ row[i].status = "processing" /\ row'[i].status = "failed"
                  /\ row'[i].attempts = row[i].attempts
                  /\ recovered'[i] = recovered[i] + 1 /\ Kept(i)
IsClaimed(i, w) ==
  /\ row[i].status \in {"pending", "failed"} /\ row'[i].status = "processing"
  /\ row'[i].attempts = row[i].attempts + 1 /\ recovered'[i] = recovered[i]
  /\ Senders(i)' \subseteq Senders(i) \cup {w}
  /\ row'[i].attempts >= allowed => Early(i)' \subseteq Early(i)
IsMarked(i) == /\ i \in TestIds /\ row[i].status # "absent" /\ row'[i].status = "processing"
               /\ recovered'[i] = recovered[i] /\ Kept(i)
IsDelivered(i, t) ==
  /\ row[i].status # "absent" /\ row'[i].status = "delivered" /\ SameCounts(i) /\ Kept(i)
  /\ task[t].stage = "ok" /\ task[t].id = i
IsFailed(i, t) ==
  /\ row[i].status # "absent" /\ row'[i].status \in {"failed", "dead_letter"} /\ SameCounts(i)
  /\ Kept(i) /\ t \in Senders(i) /\ Senders(i)' \subseteq Senders(i) \ {t}
  /\ task[t].stage = "bad" /\ task[t].id = i
  /\ i \in QueueIds => /\ Early(i)' \subseteq Early(i) \ {t}
                       /\ t \in Early(i) \/ row'[i].status = "dead_letter"

StepOf(i) ==
  \/ IsResting(i) \/ IsRemoved(i) \/ IsInserted(i) \/ IsRecovered(i) \/ IsMarked(i)
  \/ \E t \in Threads : IsClaimed(i, t) \/ IsDelivered(i, t) \/ IsFailed(i, t)

\* Steps that leave the loops' batches and all tasks alone.
LEMMA TablesKeep ==
  ASSUME NEW i \in Ids, UNCHANGED <<batch, task>>  PROVE Kept(i)
BY HandsKept DEF Carried

\* A test request reads its row: the attempt it holds is the row's next.
LEMMA TestSelectStep ==
  ASSUME BaseInv, NEW t \in Testers, TestSelect(t), NEW i \in Ids  PROVE IsResting(i)
<1>1. /\ task \in [Threads -> TaskRecords] /\ t \in Threads /\ t \notin Workers
      /\ task[t].stage = "select" /\ task[t].id \in TestIds
      /\ UNCHANGED <<hook, row, batch, recovered>>
      /\ \A u \in Threads \ {t} : task'[u] = task[u]
  BY Records, ThreadsApart DEF BaseInv, TestSelect, Circulation, ThreadShape, history
<1>2. task'[t].id \in {task[t].id, NoId}
  <2>1. task'[t] = IF Exists(task[t].id)
                   THEN [stage |-> "mark", id |-> task[t].id,
                         attempt |-> NextAttempt(task[t].id), max |-> hook.max]
                   ELSE NoTask
    BY <1>1 DEF TestSelect
  <2>2. NoTask.id = NoId  BY DEF NoTask
  <2> QED  BY <2>1, <2>2
<1>3. \A u \in Threads \ {t} : Carried(u, i)' = Carried(u, i)  BY <1>1, HandsOfOthers
<1>4. Kept(i)
  <2>1. CASE i # task[t].id
    <3>1. Carried(t, i)' = {}  BY <1>1, <1>2, <2>1, IdsAssumption DEF Carried
    <3> QED  BY <1>3, <3>1, HandsKept
  <2>2. CASE i = task[t].id
    <3>1. <<task[t].attempt, task[t].max>> \in Carried(t, i)
      BY <1>1, <2>2, TicketStages DEF Carried, TaskRecords
    <3>2. Senders(i)' \subseteq Senders(i)  BY <1>3, <3>1 DEF Senders
    <3>3. i \notin QueueIds  BY <1>1, <2>2, ThreadsApart
    <3> QED  BY <3>2, <3>3 DEF Kept
  <2> QED  BY <2>1, <2>2
<1> QED  BY <1>1, <1>4 DEF IsResting, SameCounts

LEMMA TestInsertStep ==
  ASSUME BaseInv, NEW t \in Testers, NEW k \in TestIds, TestInsert(t, k), NEW i \in Ids
  PROVE  IsResting(i) \/ IsInserted(i)
<1>1. /\ task \in [Threads -> TaskRecords] /\ t \in Threads /\ t \notin Workers
      /\ task[t].stage = "none" /\ task'[t].id = k /\ hook.exists /\ ~Exists(k)
      /\ UNCHANGED <<hook, batch, recovered>> /\ k \in Ids
      /\ row' = [row EXCEPT ![k] = Fresh]
      /\ \A u \in Threads \ {t} : task'[u] = task[u]
  BY Records, ThreadsApart DEF BaseInv, TestInsert, history, Ids, NoTask
<1>2. \A u \in Threads \ {t} : Carried(u, i)' = Carried(u, i)  BY <1>1, HandsOfOthers
<1>3. row \in [Ids -> RowRecords]  BY Records DEF BaseInv
<1>4. CASE i # k
  <2>1. Carried(t, i)' = {}  BY <1>1, <1>4 DEF Carried
  <2>2. Kept(i)  BY <1>2, <2>1, HandsKept
  <2> QED  BY <1>1, <1>3, <1>4, <2>2 DEF IsResting, SameCounts
<1>5. CASE i = k
  <2>1. Senders(i)' \subseteq Senders(i) \cup {t}  BY <1>2 DEF Senders
  <2> QED  BY <1>1, <1>3, <1>5, <2>1 DEF IsInserted, Exists
<1> QED  BY <1>4, <1>5

\* A claim hands out rows that wait, each with its next attempt.
LEMMA ClaimStep ==
  ASSUME BaseInv, NEW w \in Workers, Claim(w), NEW i \in Ids
  PROVE  IsResting(i) \/ IsClaimed(i, w)
<1>1. PICK S \in SUBSET Ready :
        /\ row' = [j \in Ids |-> IF j \in S
                     THEN [row[j] EXCEPT !.status = "processing", !.stale = FALSE,
                                         !.attempts = NextAttempt(j)]
                     ELSE row[j]]
        /\ batch' = [batch EXCEPT ![w] =
             {[id |-> j, attempt |-> NextAttempt(j), max |-> hook.max] : j \in S}]
  BY DEF Claim
<1>2. /\ UNCHANGED <<hook, task, recovered>> /\ loop[w] = "recovered"
      /\ batch'[w] = {[id |-> j, attempt |-> NextAttempt(j), max |-> hook.max] : j \in S}
      /\ \A v \in Workers \ {w} : batch'[v] = batch[v]
      /\ w \in Threads
  BY <1>1, ThreadsApart DEF Claim, history, BaseInv, TypeOK
<1>3. row \in [Ids -> RowRecords] /\ NextAttempt(i) \in Nat /\ NextAttempt(i) = row[i].attempts + 1
  BY Records DEF BaseInv, RowRecords, NextAttempt
<1>4. \A u \in Threads \ {w} : Carried(u, i)' = Carried(u, i)  BY <1>2, HandsOfOthers
<1>5. task[w] = NoTask  BY <1>2 DEF BaseInv, Circulation, ThreadShape
<1>6. CASE i \notin S
  <2>1. Carried(w, i)' = {}  BY <1>2, <1>5, <1>6, IdsAssumption DEF Carried, NoTask
  <2>2. Kept(i)  BY <1>4, <2>1, HandsKept
  <2> QED  BY <1>1, <1>2, <1>6, <2>2 DEF IsResting, SameCounts
<1>7. CASE i \in S
  <2>1. row[i].status \in {"pending", "failed"}  BY <1>7 DEF Ready
  <2>2. row'[i].status = "processing" /\ row'[i].attempts = NextAttempt(i)
    BY <1>1, <1>3, <1>7 DEF RowRecords
  <2>3. Carried(w, i)' \subseteq {<<NextAttempt(i), hook.max>>}
    BY <1>2, <1>5, IdsAssumption DEF Carried, NoTask
  <2>4. Senders(i)' \subseteq Senders(i) \cup {w}  BY <1>4 DEF Senders
  <2>5. row'[i].attempts >= allowed => Early(i)' \subseteq Early(i)
    <3>1. NextAttempt(i) >= allowed => ~(NextAttempt(i) < hook.max)
      BY <1>3, LimitsAssumption DEF BaseInv, LimitKnown, TypeOK, Hooks
    <3> QED  BY <1>4, <2>2, <2>3, <3>1 DEF Early
  <2> QED  BY <1>2, <1>3, <2>1, <2>2, <2>4, <2>5 DEF IsClaimed
<1> QED  BY <1>6, <1>7

\* A loop begins with a row of its batch: it held the row and goes on holding it.
LEMMA DeliverStep ==
  ASSUME BaseInv, NEW w \in Workers, Deliver(w), NEW i \in Ids  PROVE IsResting(i)
<1>1. PICK c \in batch[w] :
        /\ task' = [task EXCEPT ![w] = [stage |-> "post", id |-> c.id,
                                        attempt |-> c.attempt, max |-> c.max]]
        /\ batch' = [batch EXCEPT ![w] = @ \ {c}]
  BY DEF Deliver
<1>2. /\ UNCHANGED <<hook, row, recovered>> /\ batch'[w] = batch[w] \ {c} /\ w \in Threads
      /\ task'[w].stage = "post" /\ task'[w].id = c.id /\ task'[w].attempt = c.attempt
      /\ task'[w].max = c.max
      /\ \A v \in Workers \ {w} : batch'[v] = batch[v]
      /\ \A u \in Threads \ {w} : task'[u] = task[u]
  BY <1>1, ThreadsApart DEF Deliver, history, BaseInv, TypeOK
<1>3. Carried(w, i)' \subseteq Carried(w, i)  BY <1>2 DEF Carried
<1>4. \A u \in Threads \ {w} : Carried(u, i)' = Carried(u, i)  BY <1>2, HandsOfOthers
<1>5. Kept(i)  BY <1>3, <1>4, HandsKept
<1> QED  BY <1>2, <1>5 DEF IsResting, SameCounts

LEMMA AbortStep ==
  ASSUME BaseInv, NEW t \in Threads, Abort(t), NEW i \in Ids  PROVE IsResting(i)
<1>1. /\ task'[t] = NoTask /\ \A u \in Threads \ {t} : task'[u] = task[u]
      /\ \A v \in Workers \ {t} : batch'[v] = batch[v]
      /\ t \in Workers => batch'[t] = {}
      /\ UNCHANGED <<hook, row, recovered>>
  BY DEF Abort, history, BaseInv, TypeOK
<1>2. Carried(t, i)' = {}  BY <1>1, IdsAssumption DEF Carried, NoTask
<1>3. \A u \in Threads \ {t} : Carried(u, i)' = Carried(u, i)  BY <1>1, HandsOfOthers
<1>4. Kept(i)  BY <1>2, <1>3, HandsKept
<1> QED  BY <1>1, <1>4 DEF IsResting, SameCounts

\* The writes of a delivery: by id, whatever has become of the row.
LEMMA OutcomeStep ==
  ASSUME BaseInv, NEW t \in Threads, Mark(t) \/ RowDelivered(t) \/ RowFailed(t), NEW i \in Ids
  PROVE  IsResting(i) \/ IsMarked(i) \/ IsDelivered(i, t) \/ IsFailed(i, t)
<1>1. PICK j \in Ids : j = task[t].id
  BY Records DEF BaseInv, Mark, RowDelivered, RowFailed
<1>2. /\ row \in [Ids -> RowRecords] /\ task \in [Threads -> TaskRecords]
      /\ UNCHANGED <<hook, batch, recovered>>
  BY Records DEF BaseInv, Mark, RowDelivered, RowFailed, history
<1>3. /\ task[t].stage \in {"mark", "ok", "bad"} /\ task[t].stage \in Ticketed
      /\ \A u \in Threads \ {t} : task'[u] = task[u]
      /\ task'[t].id = j /\ task'[t].attempt = task[t].attempt /\ task'[t].max = task[t].max
      /\ task'[t].stage = IF task[t].stage = "mark" THEN "post"
                          ELSE IF task[t].stage = "ok" THEN "okhook" ELSE "badhook"
  <2>1. \/ task[t].stage = "mark" /\ task' = To(t, "post")
        \/ task[t].stage = "ok" /\ task' = To(t, "okhook")
        \/ task[t].stage = "bad" /\ task' = To(t, "badhook")
    BY DEF Mark, RowDelivered, RowFailed
  <2>2. {"post", "okhook", "badhook"} \subseteq Stages  BY DEF Stages
  <2> QED  BY <1>1, <2>1, <2>2, MovesTo, TicketStages DEF BaseInv
<1>4. /\ Kept(i)
      /\ task[t].stage = "bad" /\ j = i =>
           /\ t \in Senders(i) /\ Senders(i)' \subseteq Senders(i) \ {t}
           /\ Early(i)' \subseteq Early(i) \ {t}
           /\ task[t].attempt < task[t].max => t \in Early(i)
  BY <1>1, <1>2, <1>3, HandsOfTask, TicketStages
<1>5. PICK r \in RowRecords :
        /\ Write(j, r)
        /\ task[t].stage = "mark" => r.status = "processing"
        /\ task[t].stage = "ok" => r.status = "delivered" /\ r.attempts = row[j].attempts
        /\ task[t].stage = "bad" => /\ r.status = IF Exhausted(t) THEN "dead_letter" ELSE "failed"
                                    /\ r.attempts = row[j].attempts
  <2>1. row[j] \in RowRecords /\ task[t].attempt \in Nat  BY <1>2 DEF TaskRecords
  <2>2. CASE Mark(t)
    <3> DEFINE r == [row[j] EXCEPT !.status = "processing", !.stale = FALSE,
                                   !.attempts = task[t].attempt]
    <3>1. r \in RowRecords /\ r.status = "processing"  BY <2>1 DEF RowRecords, Statuses
    <3>2. Write(j, r) /\ task[t].stage = "mark"  BY <2>2, <1>1 DEF Mark
    <3> QED  BY <3>1, <3>2
  <2>3. CASE RowDelivered(t)
    <3> DEFINE r == [row[j] EXCEPT !.status = "delivered", !.stale = FALSE]
    <3>1. r \in RowRecords /\ r.status = "delivered" /\ r.attempts = row[j].attempts
      BY <2>1 DEF RowRecords, Statuses
    <3>2. Write(j, r) /\ task[t].stage = "ok"  BY <2>3, <1>1 DEF RowDelivered
    <3> QED  BY <3>1, <3>2
  <2>4. CASE RowFailed(t)
    <3> DEFINE s == IF Exhausted(t) THEN "dead_letter" ELSE "failed"
               r == [row[j] EXCEPT !.due = FALSE, !.stale = FALSE, !.status = s]
    <3>1. r \in RowRecords /\ r.status = s /\ r.attempts = row[j].attempts
      BY <2>1 DEF RowRecords, Statuses
    <3>2. Write(j, r) /\ task[t].stage = "bad"  BY <2>4, <1>1 DEF RowFailed
    <3> QED  BY <3>1, <3>2
  <2> QED  BY <2>2, <2>3, <2>4
<1>6. row'[i] = IF i = j /\ Exists(i) THEN r ELSE row[i]  BY <1>5, WritesRow DEF BaseInv
<1>7. CASE ~(i = j /\ Exists(i))
  BY <1>2, <1>4, <1>6, <1>7 DEF IsResting, SameCounts
<1>8. CASE i = j /\ Exists(i)
  <2>1. CASE task[t].stage = "mark"
    <3>1. i \in TestIds
      BY <1>1, <1>8, <2>1, ThreadsApart DEF BaseInv, Circulation, ThreadShape
    <3> QED  BY <1>2, <1>4, <1>5, <1>6, <1>8, <2>1, <3>1 DEF IsMarked, Exists
  <2>2. CASE task[t].stage = "ok"
    BY <1>1, <1>2, <1>4, <1>5, <1>6, <1>8, <2>2 DEF IsDelivered, Exists, SameCounts
  <2>3. CASE task[t].stage = "bad"
    <3>1. task[t].attempt \in Nat /\ task[t].max \in Nat  BY <1>2 DEF TaskRecords
    <3>2. ~(task[t].attempt < task[t].max) => Exhausted(t)  BY <3>1 DEF Exhausted
    <3>3. row'[i].status \in {"failed", "dead_letter"} /\ SameCounts(i)
      BY <1>2, <1>5, <1>6, <1>8, <2>3 DEF SameCounts
    <3>4. t \in Early(i) \/ row'[i].status = "dead_letter"
      BY <1>4, <1>5, <1>6, <1>8, <2>3, <3>2
    <3> QED  BY <1>1, <1>4, <1>8, <2>3, <3>3, <3>4 DEF IsFailed, Exists
  <2> QED  BY <2>1, <2>2, <2>3, <1>3
<1> QED  BY <1>7, <1>8

\* The steps of a delivery that write no row.
LEMMA DeliveryStep ==
  ASSUME BaseInv, NEW t \in Threads, NEW i \in Ids,
         \/ Refuse(t) \/ Post(t) \/ Answer(t) \/ SuccessFails(t)
         \/ HookSucceeded(t) \/ HookFailed(t) \/ Disable(t)
  PROVE  IsResting(i)
<1>1. UNCHANGED <<row, batch, recovered>> /\ hook'.exists = hook.exists
  BY DEF Refuse, Post, Answer, SuccessFails, HookSucceeded, HookFailed, Disable, history,
         BaseInv, TypeOK, Hooks
<1>2. \/ \E s \in Stages : task' = To(t, s) /\ task[t].stage \in Ticketed
      \/ \E s \in Stages \ Ticketed : task' = To(t, s)
      \/ task' = [task EXCEPT ![t] = NoTask]
  BY TicketStages
  DEF Refuse, Post, Answer, SuccessFails, HookSucceeded, HookFailed, Disable, Stages
<1>3. /\ \A u \in Threads \ {t} : task'[u] = task[u]
      /\ task'[t].stage \in Ticketed =>
           /\ task[t].stage \in Ticketed
           /\ task'[t].id = task[t].id /\ task'[t].attempt = task[t].attempt
           /\ task'[t].max = task[t].max
  BY <1>2, MovesTo, TaskEnds, TicketStages DEF BaseInv
<1>4. Kept(i)  BY <1>1, <1>3, HandsOfTask
<1> QED  BY <1>1, <1>4 DEF IsResting, SameCounts

\* Seen from one delivery, a step is one of these.
LEMMA RowSteps == ASSUME BaseInv, [Next]_vars, NEW i \in Ids  PROVE StepOf(i)
<1>r. row \in [Ids -> RowRecords]  BY Records DEF BaseInv
<1>c. recovered \in [Ids -> Nat]  BY DEF BaseInv, TypeOK
<1>1. ASSUME UNCHANGED <<batch, task, row, recovered>>, hook'.exists = hook.exists
      PROVE  IsResting(i)
  BY <1>1, TablesKeep DEF IsResting, SameCounts
<1>2. ASSUME NEW e \in Ids, hook.exists, ~Exists(e), row' = [row EXCEPT ![e] = Fresh],
             UNCHANGED <<hook, batch, task, recovered>>
      PROVE  IsResting(i) \/ IsInserted(i)
  <2>1. CASE i = e  BY <1>2, <1>r, <2>1, TablesKeep DEF IsInserted, Exists
  <2>2. CASE i # e  BY <1>2, <1>r, <2>2, TablesKeep DEF IsResting, SameCounts
  <2> QED  BY <2>1, <2>2
<1>3. ASSUME NEW e \in Events, EmitSelect(e) \/ EmitInsert(e)
      PROVE  IsResting(i) \/ IsInserted(i)
  BY <1>1, <1>2, <1>3 DEF EmitSelect, EmitInsert, history, Ids
<1>4. ASSUME NEW j \in Ids, NEW copy \in ReplayIds, Replay(j, copy)
      PROVE  IsResting(i) \/ IsInserted(i)
  BY <1>2, <1>4 DEF Replay, history, Ids
<1>5. ASSUME NEW edit \in Edits, UpdateRead(edit)  PROVE IsResting(i)
  BY <1>1, <1>5 DEF UpdateRead, history
<1>6. ASSUME UpdateWrite  PROVE IsResting(i)
  BY <1>1, <1>6 DEF UpdateWrite, history, BaseInv, TypeOK, Hooks
<1>7. ASSUME Remove  PROVE IsRemoved(i)
  BY <1>7, TablesKeep DEF Remove, history, IsRemoved, BaseInv, TypeOK, Hooks
<1>8. ASSUME NEW w \in Workers, Recover(w)  PROVE IsResting(i) \/ IsRecovered(i)
  <2>1. Kept(i) /\ hook' = hook  BY <1>8, TablesKeep DEF Recover
  <2>2. CASE i \in Stuck
    BY <1>8, <1>r, <1>c, <2>1, <2>2 DEF Recover, Stuck, IsRecovered, RowRecords
  <2>3. CASE i \notin Stuck
    BY <1>8, <1>r, <1>c, <2>1, <2>3 DEF Recover, IsResting, SameCounts
  <2> QED  BY <2>2, <2>3
<1>9. ASSUME NEW w \in Workers, Finish(w)  PROVE IsResting(i)
  BY <1>9, <1>1 DEF Finish, history
<1>10. ASSUME NEW j \in Ids, BecomeDue(j) \/ GoStale(j)  PROVE IsResting(i)
  <2>1. Kept(i) /\ hook' = hook /\ recovered' = recovered
    BY <1>10, TablesKeep DEF BecomeDue, GoStale, history
  <2>2. row'[i].status = row[i].status /\ row'[i].attempts = row[i].attempts
    BY <1>10, <1>r DEF BecomeDue, GoStale, RowRecords
  <2> QED  BY <2>1, <2>2 DEF IsResting, SameCounts
<1>11. ASSUME UNCHANGED vars  PROVE IsResting(i)  BY <1>11, <1>1 DEF vars
<1>w. \A w \in Workers : w \in Threads  BY ThreadsApart
<1> QED
  BY <1>3, <1>4, <1>5, <1>6, <1>7, <1>8, <1>9, <1>10, <1>11, <1>w, TestSelectStep,
     TestInsertStep, ClaimStep, DeliverStep, AbortStep, OutcomeStep, DeliveryStep
  DEF Next, Console, Clock, Queue, Delivering, StepOf

-----------------------------------------------------------------------------
(* How many may write the outcome of a delivery                              *)

Extra(i) == IF i \in TestIds THEN 1 ELSE 0

\* One sender, one more for every recovery, one more for the row of a test;
\* while the row waits, or is dead, the first of them is through with it.
Bounded(i) ==
  /\ Cardinality(Senders(i)) <= recovered[i] + 1 + Extra(i)
  /\ row[i].status \in {"pending", "failed", "dead_letter"}
       => Cardinality(Senders(i)) <= recovered[i] + Extra(i)
  /\ hook.exists /\ ~Exists(i) => Senders(i) = {}

SendersBounded == \A i \in Ids : Bounded(i)

\* A step changes the number of senders as its change of the set says.
LEMMA SendersChange ==
  ASSUME NEW i \in Ids
  PROVE  /\ Cardinality(Senders(i)') \in Nat
         /\ Senders(i)' \subseteq Senders(i)
              => Cardinality(Senders(i)') <= Cardinality(Senders(i))
         /\ \A t \in Threads : Senders(i)' \subseteq Senders(i) \cup {t}
              => Cardinality(Senders(i)') <= Cardinality(Senders(i)) + 1
         /\ \A t \in Senders(i) : Senders(i)' \subseteq Senders(i) \ {t}
              => Cardinality(Senders(i)') <= Cardinality(Senders(i)) - 1
<1>f. IsFiniteSet(Senders(i)) /\ Cardinality(Senders(i)) \in Nat  BY SendersFinite
<1>g. IsFiniteSet(Senders(i)')
  <2>1. Senders(i)' \subseteq Threads  BY DEF Senders
  <2> QED  BY <2>1, ThreadsFinite, FS_Subset
<1>1. Cardinality(Senders(i)') \in Nat  BY <1>g, FS_CardinalityType
<1>2. ASSUME Senders(i)' \subseteq Senders(i)
      PROVE  Cardinality(Senders(i)') <= Cardinality(Senders(i))
  BY <1>2, <1>f, FS_Subset
<1>3. ASSUME NEW t \in Threads, Senders(i)' \subseteq Senders(i) \cup {t}
      PROVE  Cardinality(Senders(i)') <= Cardinality(Senders(i)) + 1
  <2>1. /\ IsFiniteSet(Senders(i) \cup {t})
        /\ Cardinality(Senders(i) \cup {t}) <= Cardinality(Senders(i)) + 1
    <3>1. /\ IsFiniteSet(Senders(i) \cup {t})
          /\ Cardinality(Senders(i) \cup {t}) =
               IF t \in Senders(i) THEN Cardinality(Senders(i)) ELSE Cardinality(Senders(i)) + 1
      BY <1>f, FS_AddElement
    <3> QED  BY <3>1, <1>f
  <2>2. Cardinality(Senders(i)') <= Cardinality(Senders(i) \cup {t})
    BY <1>3, <2>1, FS_Subset
  <2>3. Cardinality(Senders(i) \cup {t}) \in Nat  BY <2>1, FS_CardinalityType
  <2> QED  BY <1>1, <1>f, <2>1, <2>2, <2>3
<1>4. ASSUME NEW t \in Senders(i), Senders(i)' \subseteq Senders(i) \ {t}
      PROVE  Cardinality(Senders(i)') <= Cardinality(Senders(i)) - 1
  <2>1. /\ IsFiniteSet(Senders(i) \ {t})
        /\ Cardinality(Senders(i) \ {t}) = Cardinality(Senders(i)) - 1
    BY <1>f, FS_RemoveElement
  <2> QED  BY <1>4, <2>1, FS_Subset
<1> QED  BY <1>1, <1>2, <1>3, <1>4

LEMMA NoSenders ==
  ASSUME NEW i \in Ids, Senders(i) = {}  PROVE Cardinality(Senders(i)) = 0
BY FS_EmptySet

LEMMA BoundedStep ==
  ASSUME BaseInv, SendersBounded, [Next]_vars  PROVE SendersBounded'
<1>b. BaseInv'  BY BaseStep
<1> SUFFICES ASSUME NEW i \in Ids  PROVE Bounded(i)'
  BY DEF SendersBounded
<1>c. Bounded(i)  BY DEF SendersBounded
<1>n. /\ recovered[i] \in Nat /\ recovered'[i] \in Nat /\ Extra(i) \in {0, 1}
      /\ Cardinality(Senders(i)) \in Nat /\ Cardinality(Senders(i)') \in Nat
  BY <1>b, SendersFinite, SendersChange DEF BaseInv, TypeOK, Extra
<1>k. Kept(i) => /\ Cardinality(Senders(i)') <= Cardinality(Senders(i))
                 /\ Senders(i) = {} => Senders(i)' = {}
  BY SendersChange DEF Kept
<1>1. CASE IsResting(i)
  BY <1>1, <1>c, <1>n, <1>k DEF IsResting, SameCounts, Bounded, Exists, Extra
<1>2. CASE IsRemoved(i)
  <2>1. row'[i].status = "absent"  BY <1>2 DEF IsRemoved, Absent
  <2> QED  BY <2>1, <1>2, <1>c, <1>n, <1>k DEF IsRemoved, Bounded, Extra
<1>3. CASE IsInserted(i)
  <2>1. Cardinality(Senders(i)) = 0  BY <1>3, <1>c, NoSenders DEF IsInserted, Bounded, Exists
  <2>2. Cardinality(Senders(i)') <= Extra(i)
    BY <1>3, <2>1, <1>n, SendersChange DEF IsInserted, Kept, Extra
  <2>3. row'[i].status = "pending" /\ recovered'[i] = recovered[i]
    BY <1>3 DEF IsInserted, Fresh
  <2> QED  BY <2>2, <2>3, <1>n DEF Bounded, Exists, Extra
<1>4. CASE IsRecovered(i)
  BY <1>4, <1>c, <1>n, <1>k DEF IsRecovered, Bounded, Exists, Extra
<1>5. ASSUME NEW w \in Threads, IsClaimed(i, w)  PROVE Bounded(i)'
  <2>1. Cardinality(Senders(i)') <= Cardinality(Senders(i)) + 1
    BY <1>5, SendersChange DEF IsClaimed
  <2> QED  BY <2>1, <1>5, <1>c, <1>n DEF IsClaimed, Bounded, Exists, Extra
<1>6. CASE IsMarked(i)
  BY <1>6, <1>c, <1>n, <1>k DEF IsMarked, Bounded, Exists, Extra
<1>7. ASSUME NEW t \in Threads, IsDelivered(i, t)  PROVE Bounded(i)'
  BY <1>7, <1>c, <1>n, <1>k DEF IsDelivered, SameCounts, Bounded, Exists, Extra
<1>8. ASSUME NEW t \in Threads, IsFailed(i, t)  PROVE Bounded(i)'
  <2>1. Cardinality(Senders(i)') <= Cardinality(Senders(i)) - 1
    BY <1>8, SendersChange DEF IsFailed
  <2> QED  BY <2>1, <1>8, <1>c, <1>n DEF IsFailed, SameCounts, Bounded, Exists, Extra
<1> QED  BY <1>1, <1>2, <1>3, <1>4, <1>5, <1>6, <1>7, <1>8, RowSteps DEF StepOf

\* Nobody holds anything before the first step.
LEMMA InitHands == ASSUME Init, NEW i \in Ids  PROVE Senders(i) = {} /\ Early(i) = {}
<1>1. \A t \in Threads : Carried(t, i) = {}
  BY IdsAssumption DEF Init, Carried, NoTask
<1> QED  BY <1>1 DEF Senders, Early

LEMMA BoundedHolds == Spec => [](BaseInv /\ SendersBounded)
<1>1. Init => SendersBounded
  <2> SUFFICES ASSUME Init, NEW i \in Ids  PROVE Bounded(i)  BY DEF SendersBounded
  <2>1. Cardinality(Senders(i)) = 0  BY InitHands, NoSenders
  <2>2. recovered[i] = 0 /\ row[i].status = "absent"  BY DEF Init, Absent
  <2>3. Extra(i) \in {0, 1}  BY DEF Extra
  <2> QED  BY <2>1, <2>2, <2>3, InitHands DEF Bounded
<1>2. BaseInv /\ SendersBounded /\ [Next]_vars => SendersBounded'  BY BoundedStep
<1> QED  BY <1>1, <1>2, BaseHolds, PTL DEF Spec

\* The unlocked claim of test() adds one sender to those a row may have, for
\* any number of instances: two, as long as nothing is recovered.
THEOREM OneSenderAdded == Spec => []TestAddsOneSender
<1>1. ASSUME BaseInv, SendersBounded, NEW i \in TestIds, recovered[i] = 0
      PROVE  Cardinality({w \in Workers : \E c \in Open(w) : c.id = i})
               + Cardinality({t \in Testers : task[t].id = i /\ task[t].stage \in Unwritten}) <= 2
  <2> DEFINE L == {w \in Workers : \E c \in Open(w) : c.id = i}
             T == {t \in Testers : task[t].id = i /\ task[t].stage \in Unwritten}
  <2>1. i \in Ids /\ task \in [Threads -> TaskRecords] /\ batch \in [Workers -> SUBSET Claims]
    BY <1>1, Records DEF Ids, BaseInv, TypeOK
  <2>2. \A t \in Threads : task[t].id = i /\ task[t].stage \in Unwritten => t \in Senders(i)
    <3> SUFFICES ASSUME NEW t \in Threads, task[t].id = i, task[t].stage \in Unwritten
                 PROVE  t \in Senders(i)
      OBVIOUS
    <3>1. <<task[t].attempt, task[t].max>> \in Carried(t, i)
      BY <2>1 DEF Carried, Ticketed, TaskRecords
    <3> QED  BY <3>1 DEF Senders
  <2>3. \A w \in Workers : (\E c \in batch[w] : c.id = i) => w \in Senders(i)
    <3> SUFFICES ASSUME NEW w \in Workers, NEW c \in batch[w], c.id = i  PROVE w \in Senders(i)
      OBVIOUS
    <3>1. <<c.attempt, c.max>> \in Carried(w, i)  BY <2>1 DEF Carried, Claims
    <3> QED  BY <3>1, ThreadsApart DEF Senders
  <2>4. L \subseteq Senders(i)
    <3> SUFFICES ASSUME NEW w \in Workers, NEW c \in Open(w), c.id = i  PROVE w \in Senders(i)
      OBVIOUS
    <3>1. c \in batch[w] \/ (task[w].stage \in Unwritten /\ task[w].id = i)  BY DEF Open
    <3> QED  BY <3>1, <2>2, <2>3, ThreadsApart
  <2>5. T \subseteq Senders(i)  BY <2>2, ThreadsApart
  <2>6. L \cap T = {}  BY ThreadsApart
  <2>7. IsFiniteSet(L) /\ IsFiniteSet(T) /\ IsFiniteSet(L \cup T)
    BY <2>1, <2>4, <2>5, SendersFinite, FS_Subset, FS_Union
  <2>8. Cardinality(L \cup T) = Cardinality(L) + Cardinality(T) - Cardinality(L \cap T)
    BY <2>7, FS_Union
  <2>9. Cardinality(L \cap T) = 0  BY <2>6, FS_EmptySet
  <2>10. Cardinality(L \cup T) <= Cardinality(Senders(i))
    BY <2>1, <2>4, <2>5, SendersFinite, FS_Subset
  <2>11. Cardinality(Senders(i)) <= 2 /\ Cardinality(Senders(i)) \in Nat
    BY <1>1, <2>1, SendersFinite DEF SendersBounded, Bounded, Extra
  <2>12. Cardinality(L) \in Nat /\ Cardinality(T) \in Nat /\ Cardinality(L \cup T) \in Nat
    BY <2>7, FS_CardinalityType
  <2> QED  BY <2>8, <2>9, <2>10, <2>11, <2>12
<1>2. BaseInv /\ SendersBounded => TestAddsOneSender  BY <1>1 DEF TestAddsOneSender
<1> QED  BY <1>2, BoundedHolds, PTL

-----------------------------------------------------------------------------
(* The budget of attempts                                                    *)

Waits(i) == IF row[i].status \in {"pending", "failed"} THEN 1 ELSE 0

\* Once the allowed attempts are used up, every further claim is paid for
\* by a recovery: those that were, the wait for one, and the loops whose early
\* attempt can still send the event back fit into the recoveries.
WithinBudget(i) ==
  row[i].attempts >= allowed =>
    row[i].attempts + Cardinality(Early(i)) + Waits(i) <= allowed + recovered[i]

BudgetInv == \A i \in QueueIds : WithinBudget(i)

LEMMA BudgetStep ==
  ASSUME BaseInv, SendersBounded, BudgetInv, [Next]_vars  PROVE BudgetInv'
<1>b. BaseInv'  BY BaseStep
<1> SUFFICES ASSUME NEW i \in QueueIds  PROVE WithinBudget(i)'
  BY DEF BudgetInv
<1>i. i \in Ids /\ i \notin TestIds  BY ThreadsApart
<1>c. WithinBudget(i)  BY DEF BudgetInv
<1>n. /\ row[i].attempts \in Nat /\ row'[i].attempts \in Nat
      /\ recovered[i] \in Nat /\ recovered'[i] \in Nat
      /\ allowed \in Nat \ {0} /\ allowed' \in Nat \ {0} /\ allowed <= allowed'
      /\ Waits(i) \in {0, 1} /\ Waits(i)' \in {0, 1}
  <2>1. row[i] \in RowRecords  BY <1>i, Records DEF BaseInv
  <2>2. row'[i] \in Rows  BY <1>i, <1>b DEF BaseInv, TypeOK
  <2>3. row'[i].attempts \in Nat  BY <2>2 DEF Rows, LiveRows, Absent
  <2>4. allowed \in Nat \ {0} /\ allowed' \in Nat \ {0} /\ allowed <= allowed'
    BY <1>b, LimitStep, LimitsAssumption DEF BaseInv, TypeOK
  <2> QED  BY <2>1, <2>3, <2>4, <1>i, <1>b DEF BaseInv, TypeOK, RowRecords, Waits
<1>f. /\ IsFiniteSet(Early(i)) /\ Cardinality(Early(i)) \in Nat
      /\ Cardinality(Early(i)) <= Cardinality(Senders(i)) /\ Cardinality(Senders(i)) \in Nat
  BY <1>i, SendersFinite, FS_Subset
<1>k. ASSUME Early(i)' \subseteq Early(i)
      PROVE  Cardinality(Early(i)') \in Nat /\ Cardinality(Early(i)') <= Cardinality(Early(i))
  BY <1>k, <1>f, FS_Subset, FS_CardinalityType
<1>e. Kept(i) => Early(i)' \subseteq Early(i)  BY DEF Kept
<1>1. CASE IsResting(i)
  BY <1>1, <1>c, <1>n, <1>f, <1>k, <1>e DEF IsResting, SameCounts, WithinBudget, Waits
<1>2. CASE IsRemoved(i)
  BY <1>2, <1>n DEF IsRemoved, Absent, WithinBudget
<1>3. CASE IsInserted(i)
  BY <1>3, <1>n DEF IsInserted, Fresh, WithinBudget
<1>4. CASE IsRecovered(i)
  <2>1. Waits(i) = 0  BY <1>4 DEF IsRecovered, Waits
  <2> QED  BY <2>1, <1>4, <1>c, <1>n, <1>f, <1>k, <1>e DEF IsRecovered, WithinBudget
<1>5. ASSUME NEW w \in Threads, IsClaimed(i, w)  PROVE WithinBudget(i)'
  <2>1. Waits(i) = 1 /\ Waits(i)' = 0  BY <1>5 DEF IsClaimed, Waits
  <2>2. Cardinality(Senders(i)) <= recovered[i]
    BY <1>5, <1>i, <1>n DEF IsClaimed, SendersBounded, Bounded, Extra
  <2> QED  BY <2>1, <2>2, <1>5, <1>c, <1>n, <1>f, <1>k DEF IsClaimed, WithinBudget
<1>6. ~IsMarked(i)  BY <1>i DEF IsMarked
<1>7. ASSUME NEW t \in Threads, IsDelivered(i, t)  PROVE WithinBudget(i)'
  <2>1. Waits(i)' = 0  BY <1>7 DEF IsDelivered, Waits
  <2> QED  BY <2>1, <1>7, <1>c, <1>n, <1>f, <1>k, <1>e
           DEF IsDelivered, SameCounts, WithinBudget
<1>8. ASSUME NEW t \in Threads, IsFailed(i, t)  PROVE WithinBudget(i)'
  <2>1. CASE t \in Early(i)
    <3>1. /\ IsFiniteSet(Early(i) \ {t})
          /\ Cardinality(Early(i) \ {t}) = Cardinality(Early(i)) - 1
      BY <2>1, <1>f, FS_RemoveElement
    <3>2. /\ Cardinality(Early(i)') \in Nat
          /\ Cardinality(Early(i)') <= Cardinality(Early(i)) - 1
      BY <1>8, <3>1, FS_Subset, FS_CardinalityType DEF IsFailed
    <3> QED  BY <3>2, <1>8, <1>c, <1>n, <1>f DEF IsFailed, SameCounts, WithinBudget
  <2>2. CASE t \notin Early(i)
    <3>1. Waits(i)' = 0  BY <1>8, <2>2 DEF IsFailed, Waits
    <3> QED  BY <3>1, <1>8, <1>c, <1>n, <1>f, <1>k, <1>e DEF IsFailed, SameCounts, WithinBudget
  <2> QED  BY <2>1, <2>2
<1> QED  BY <1>i, <1>1, <1>2, <1>3, <1>4, <1>5, <1>6, <1>7, <1>8, RowSteps DEF StepOf

\* However often workers overrun, crash and write late, with any number of
\* instances: the webhook's max_attempts, the largest it has had, and one more
\* attempt for every recovery.
THEOREM AttemptsWithinBudget == Spec => []RetryBudget
<1>1. Init => BudgetInv
  <2> SUFFICES ASSUME Init, NEW i \in QueueIds  PROVE WithinBudget(i)
    BY DEF BudgetInv
  <2>1. row[i].attempts = 0 /\ allowed \in 1 .. Cap  BY ThreadsApart DEF Init, Absent
  <2> QED  BY <2>1, LimitsAssumption DEF WithinBudget
<1>2. BaseInv /\ SendersBounded /\ BudgetInv /\ [Next]_vars => BudgetInv'  BY BudgetStep
<1>3. BaseInv /\ BudgetInv => RetryBudget
  <2> SUFFICES ASSUME BaseInv, BudgetInv, NEW i \in QueueIds
               PROVE  row[i].attempts <= allowed + recovered[i]
    BY DEF RetryBudget
  <2>1. /\ i \in Ids /\ row[i].attempts \in Nat /\ recovered[i] \in Nat /\ allowed \in Nat
        /\ Waits(i) \in {0, 1} /\ Cardinality(Early(i)) \in Nat
    BY ThreadsApart, Records, LimitsAssumption, SendersFinite
    DEF BaseInv, TypeOK, RowRecords, Waits
  <2>2. WithinBudget(i)  BY DEF BudgetInv
  <2> QED  BY <2>1, <2>2 DEF WithinBudget
<1> QED  BY <1>1, <1>2, <1>3, BoundedHolds, PTL DEF Spec

-----------------------------------------------------------------------------
(* The queue and the receiver                                                *)

Succeeding == {"ok", "okhook"}

\* A success is reported, and recorded, only of what the receiver accepted.
SuccessIsAccepted ==
  /\ \A t \in Threads : task[t].stage \in Succeeding => task[t].id \in accepted
  /\ \A i \in QueueIds : row[i].status = "delivered" => i \in accepted

\* An accepted event keeps its row while there is a webhook; unless a recovery
\* or an error stepped in, it waits for no other attempt and is not dead, and
\* whoever still holds it is about to record the success.
Settling(i) ==
  /\ Exists(i) \/ ~hook.exists
  /\ recovered[i] = 0 /\ i \notin unacked =>
       /\ row[i].status \notin {"pending", "failed", "dead_letter"}
       /\ \A t \in Senders(i) : task[t].id = i /\ task[t].stage \in Succeeding

AgreeInv == SuccessIsAccepted /\ \A i \in QueueIds \cap accepted : Settling(i)

\* How one thread comes to a success, and how it leaves it.
ThreadStep(t) ==
  /\ t \in Workers /\ task[t].stage # "none" => batch'[t] \subseteq batch[t]
  /\ task[t].stage \in Succeeding =>
       \/ task'[t].id = task[t].id /\ task'[t].stage \in Succeeding
       \/ task'[t].stage = "none" \/ task[t].id \in unacked'
  /\ task'[t].stage \in Succeeding =>
       /\ task'[t].id = task[t].id
       /\ task[t].stage \in Succeeding \/ task[t].id \in accepted'

LEMMA ThreadSteps == ASSUME BaseInv, [Next]_vars, NEW t \in Threads  PROVE ThreadStep(t)
<1>t. task \in [Threads -> TaskRecords] /\ batch \in [Workers -> SUBSET Claims]
  BY Records DEF BaseInv, TypeOK
<1>s. "none" \notin Succeeding  BY DEF Succeeding
<1>1. ASSUME task'[t] = task[t], t \in Workers => batch'[t] = batch[t]  PROVE ThreadStep(t)
  BY <1>1 DEF ThreadStep
<1>2. ASSUME UNCHANGED <<task, batch>>  PROVE ThreadStep(t)  BY <1>1, <1>2
<1>3. ASSUME NEW u \in Testers, TestSelect(u) \/ \E i \in TestIds : TestInsert(u, i)
      PROVE  ThreadStep(t)
  <2>1. CASE u # t  BY <1>1, <1>3, <1>t, <2>1 DEF TestSelect, TestInsert
  <2>2. CASE u = t
    <3>1. t \notin Workers /\ task[t].stage \in {"none", "select"}
      BY <1>3, <2>2, ThreadsApart DEF TestSelect, TestInsert
    <3>2. task'[t].stage \in {"none", "select", "mark"}
      <4>1. CASE TestSelect(t)
        <5>1. task'[t] = IF Exists(task[t].id)
                         THEN [stage |-> "mark", id |-> task[t].id,
                               attempt |-> NextAttempt(task[t].id), max |-> hook.max]
                         ELSE NoTask
          BY <4>1, <1>t DEF TestSelect
        <5>2. NoTask.stage = "none"  BY DEF NoTask
        <5> QED  BY <5>1, <5>2
      <4>2. CASE \E i \in TestIds : TestInsert(t, i)  BY <4>2, <1>t DEF TestInsert, NoTask
      <4> QED  BY <1>3, <2>2, <4>1, <4>2
    <3> QED  BY <3>1, <3>2 DEF ThreadStep, Succeeding
  <2> QED  BY <2>1, <2>2
<1>4. ASSUME NEW w \in Workers, Claim(w)  PROVE ThreadStep(t)
  <2>1. task' = task /\ \A v \in Workers \ {w} : batch'[v] = batch[v]
    BY <1>4, <1>t DEF Claim
  <2>2. task[w].stage = "none"
    <3>1. loop[w] # "sending"  BY <1>4 DEF Claim
    <3>2. task[w] = NoTask  BY <3>1 DEF BaseInv, Circulation, ThreadShape
    <3> QED  BY <3>2 DEF NoTask
  <2>3. CASE t # w  BY <1>1, <2>1, <2>3
  <2>4. CASE t = w  BY <1>s, <2>1, <2>2, <2>4 DEF ThreadStep
  <2> QED  BY <2>3, <2>4
<1>5. ASSUME NEW w \in Workers, Deliver(w)  PROVE ThreadStep(t)
  <2>1. PICK c \in batch[w] :
          /\ task' = [task EXCEPT ![w] = [stage |-> "post", id |-> c.id,
                                          attempt |-> c.attempt, max |-> c.max]]
          /\ batch' = [batch EXCEPT ![w] = @ \ {c}]
    BY <1>5 DEF Deliver
  <2>2. CASE t # w  BY <1>1, <1>t, <2>1, <2>2
  <2>3. CASE t = w
    <3>1. task[t].stage = "none"  BY <1>5, <2>3 DEF Deliver
    <3>2. task'[t].stage = "post"  BY <2>1, <2>3, <1>t
    <3> QED  BY <3>1, <3>2 DEF ThreadStep, Succeeding
  <2> QED  BY <2>2, <2>3
<1>6. ASSUME NEW u \in Threads, NEW s \in Stages, task' = To(u, s), batch' = batch,
             \/ task[u].stage \in Succeeding /\ s \in Succeeding
             \/ task[u].stage \in Succeeding /\ s = "bad" /\ task[u].id \in unacked'
             \/ task[u].stage = "sent" /\ s = "ok" /\ task[u].id \in accepted'
             \/ task[u].stage \notin Succeeding /\ s \notin Succeeding
      PROVE  ThreadStep(t)
  <2>1. /\ \A v \in Threads \ {u} : task'[v] = task[v]
        /\ task'[u].id = task[u].id /\ task'[u].stage = s
    BY <1>6, MovesTo DEF BaseInv
  <2>2. CASE t # u  BY <1>1, <1>6, <2>1, <2>2
  <2>3. CASE t = u  BY <1>6, <2>1, <2>3 DEF ThreadStep, Succeeding
  <2> QED  BY <2>2, <2>3
<1>7. ASSUME NEW u \in Threads, task' = [task EXCEPT ![u] = NoTask],
             \A v \in Workers : batch'[v] = batch[v] \/ (v = u /\ batch'[v] = {})
      PROVE  ThreadStep(t)
  <2>1. /\ \A v \in Threads \ {u} : task'[v] = task[v]
        /\ task'[u].stage = "none"
    BY <1>7, TaskEnds DEF BaseInv
  <2>2. CASE t # u  BY <1>1, <1>7, <2>1, <2>2
  <2>3. CASE t = u  BY <1>s, <1>7, <2>1, <2>3 DEF ThreadStep
  <2> QED  BY <2>2, <2>3
<1>8. ASSUME NEW u \in Threads,
             \/ Mark(u) \/ Refuse(u) \/ Post(u) \/ Answer(u) \/ RowDelivered(u)
             \/ RowFailed(u) \/ SuccessFails(u)
      PROVE  ThreadStep(t)
  <2>1. batch' = batch
    BY <1>8 DEF Mark, Refuse, Post, Answer, RowDelivered, RowFailed, SuccessFails
  <2>2. CASE Mark(u) \/ Refuse(u) \/ Post(u) \/ RowFailed(u)
    <3>1. \E s \in Stages : task' = To(u, s) /\ s \notin Succeeding /\ task[u].stage \notin Succeeding
      BY <2>2 DEF Mark, Refuse, Post, RowFailed, Stages, Succeeding
    <3> QED  BY <1>6, <2>1, <3>1
  <2>3. CASE Answer(u)
    <3>1. \E s \in {"ok", "bad"} : task' = To(u, s) /\ (s = "ok" => task[u].id \in accepted')
      BY <2>3 DEF Answer
    <3>2. task[u].stage = "sent" /\ "sent" \notin Succeeding /\ "bad" \notin Succeeding
          /\ "ok" \in Stages /\ "bad" \in Stages
      BY <2>3 DEF Answer, Stages, Succeeding
    <3> QED  BY <1>6, <2>1, <3>1, <3>2
  <2>4. CASE RowDelivered(u)
    <3>1. task' = To(u, "okhook") /\ task[u].stage = "ok"  BY <2>4 DEF RowDelivered
    <3>2. {"ok", "okhook"} \subseteq Stages /\ {"ok", "okhook"} \subseteq Succeeding
      BY DEF Stages, Succeeding
    <3> QED  BY <1>6, <2>1, <3>1, <3>2
  <2>5. CASE SuccessFails(u)
    <3>1. task' = To(u, "bad") /\ task[u].stage \in Succeeding /\ task[u].id \in unacked'
          /\ "bad" \in Stages
      BY <2>5 DEF SuccessFails, Succeeding, Stages
    <3> QED  BY <1>6, <2>1, <3>1
  <2> QED  BY <1>8, <2>2, <2>3, <2>4, <2>5
<1>9. ASSUME NEW u \in Threads, HookSucceeded(u) \/ HookFailed(u) \/ Disable(u) \/ Abort(u)
      PROVE  ThreadStep(t)
  <2>1. CASE HookFailed(u) /\ task' = To(u, "disable")
    <3>1. "disable" \in Stages /\ "disable" \notin Succeeding /\ task[u].stage \notin Succeeding
      BY <2>1 DEF HookFailed, Stages, Succeeding
    <3> QED  BY <1>6, <2>1, <3>1 DEF HookFailed
  <2>2. CASE task' = [task EXCEPT ![u] = NoTask]
    <3>1. \A v \in Workers : batch'[v] = batch[v] \/ (v = u /\ batch'[v] = {})
      <4>1. CASE HookSucceeded(u) \/ HookFailed(u) \/ Disable(u)
        <5>1. batch' = batch  BY <4>1 DEF HookSucceeded, HookFailed, Disable
        <5> QED  BY <5>1
      <4>2. CASE Abort(u)
        <5>1. batch' = IF u \in Workers THEN [batch EXCEPT ![u] = {}] ELSE batch
          BY <4>2 DEF Abort
        <5> QED  BY <1>t, <5>1
      <4> QED  BY <1>9, <4>1, <4>2
    <3> QED  BY <1>7, <2>2, <3>1
  <2> QED  BY <1>9, <2>1, <2>2 DEF HookSucceeded, HookFailed, Disable, Abort
<1>10. ASSUME NEW w \in Workers, Recover(w) \/ Finish(w)  PROVE ThreadStep(t)
  BY <1>2, <1>10 DEF Recover, Finish
<1>11. ASSUME NEW i \in Ids, BecomeDue(i) \/ GoStale(i)  PROVE ThreadStep(t)
  BY <1>2, <1>11 DEF BecomeDue, GoStale
<1>12. ASSUME NEW e \in Events, EmitSelect(e) \/ EmitInsert(e)  PROVE ThreadStep(t)
  BY <1>2, <1>12 DEF EmitSelect, EmitInsert
<1>13. ASSUME \/ \E i \in Ids, copy \in ReplayIds : Replay(i, copy)
              \/ \E edit \in Edits : UpdateRead(edit)
              \/ UpdateWrite \/ Remove \/ UNCHANGED vars
       PROVE  ThreadStep(t)
  BY <1>2, <1>13 DEF Replay, UpdateRead, UpdateWrite, Remove, vars
<1> QED
  BY <1>3, <1>4, <1>5, <1>8, <1>9, <1>10, <1>11, <1>12, <1>13
  DEF Next, Console, Clock, Queue, Delivering

\* What the receiver has accepted and the errors of acknowledgements stay on
\* record; an event is new among the accepted when a request is answered.
Answered(t) ==
  /\ task[t].stage = "sent" /\ task'[t].stage = "ok" /\ task'[t].id = task[t].id
  /\ accepted' = accepted \cup {task[t].id}
  /\ UNCHANGED <<hook, row, recovered>>

LEMMA RecordSteps ==
  ASSUME BaseInv, [Next]_vars
  PROVE  /\ unacked \subseteq unacked'
         /\ accepted' = accepted \/ \E t \in Threads : Answered(t)
<1>1. ASSUME NEW t \in Threads, Answer(t)
      PROVE  unacked' = unacked /\ (accepted' = accepted \/ Answered(t))
  <2>1. CASE UNCHANGED accepted  BY <1>1, <2>1 DEF Answer
  <2>2. CASE task' = To(t, "ok") /\ accepted' = accepted \cup {task[t].id}
    <3>1. "ok" \in Stages  BY DEF Stages
    <3>2. task'[t].stage = "ok" /\ task'[t].id = task[t].id
      BY <2>2, <3>1, MovesTo DEF BaseInv
    <3> QED  BY <1>1, <2>2, <3>2 DEF Answer, Answered
  <2> QED  BY <1>1, <2>1, <2>2 DEF Answer
<1>2. ASSUME NEW t \in Threads, SuccessFails(t)
      PROVE  unacked \subseteq unacked' /\ accepted' = accepted
  BY <1>2 DEF SuccessFails
<1>3. ASSUME NEW t \in Threads,
             \/ Mark(t) \/ Refuse(t) \/ Post(t) \/ RowDelivered(t) \/ HookSucceeded(t)
             \/ RowFailed(t) \/ HookFailed(t) \/ Disable(t) \/ Abort(t)
      PROVE  UNCHANGED <<unacked, accepted>>
  BY <1>3 DEF Mark, Refuse, Post, RowDelivered, HookSucceeded, RowFailed, HookFailed,
              Disable, Abort, history
<1>4. ASSUME NEW w \in Workers, Queue(w)  PROVE UNCHANGED <<unacked, accepted>>
  BY <1>4 DEF Queue, Recover, Claim, Deliver, Finish, history
<1>5. CASE Console \/ Clock
  BY <1>5 DEF Console, EmitSelect, EmitInsert, Replay, UpdateRead, UpdateWrite, Remove,
     TestSelect, TestInsert, Clock, BecomeDue, GoStale, history
<1>6. CASE UNCHANGED vars  BY <1>6 DEF vars
<1> QED  BY <1>1, <1>2, <1>3, <1>4, <1>5, <1>6 DEF Next, Delivering

\* Who is about to record a success goes on to do so, or is through.
LEMMA SuccessKept ==
  ASSUME BaseInv, [Next]_vars, NEW i \in QueueIds, NEW t \in Senders(i)',
         task[t].id = i, task[t].stage \in Succeeding, i \notin unacked'
  PROVE  task'[t].id = i /\ task'[t].stage \in Succeeding
<1>0. t \in Threads  BY DEF Senders
<1>1. ThreadStep(t)  BY <1>0, ThreadSteps
<1>2. task'[t].stage # "none"
  <2> SUFFICES ASSUME task'[t].stage = "none"  PROVE FALSE
    OBVIOUS
  <2>1. PICK a \in Carried(t, i)' : TRUE  BY DEF Senders
  <2>2. t \in Workers /\ \E c \in batch'[t] : c.id = i
    BY <2>1, TicketStages DEF Carried
  <2>3. task[t].stage # "none"  BY DEF Succeeding
  <2>4. \E c \in batch[t] : c.id = i  BY <1>1, <2>2, <2>3 DEF ThreadStep
  <2> QED  BY <2>2, <2>4 DEF BaseInv, HoldShape
<1> QED  BY <1>1, <1>2 DEF ThreadStep

LEMMA AgreeStep ==
  ASSUME BaseInv, SendersBounded, AgreeInv, [Next]_vars  PROVE AgreeInv'
<1>r. /\ unacked \subseteq unacked' /\ accepted \subseteq accepted'
      /\ accepted' = accepted \/ \E t \in Threads : Answered(t)
  BY RecordSteps DEF Answered
<1>1. ASSUME NEW t \in Threads, task'[t].stage \in Succeeding  PROVE task'[t].id \in accepted'
  BY <1>1, <1>r, ThreadSteps DEF ThreadStep, AgreeInv, SuccessIsAccepted
<1>2. ASSUME NEW i \in QueueIds, row'[i].status = "delivered"  PROVE i \in accepted'
  <2>1. row[i].status = "delivered" \/ \E t \in Threads : IsDelivered(i, t)
    BY <1>2, RowSteps, ThreadsApart
    DEF StepOf, IsResting, IsRemoved, IsInserted, IsRecovered, IsMarked, IsClaimed, IsFailed,
        Absent, Fresh
  <2>2. i \in accepted
    BY <2>1 DEF IsDelivered, AgreeInv, SuccessIsAccepted, Succeeding
  <2> QED  BY <1>r, <2>2
<1>3. ASSUME NEW i \in QueueIds, i \in accepted  PROVE Settling(i)'
  <2>0. i \in Ids /\ i \notin TestIds /\ recovered[i] \in Nat
    BY ThreadsApart DEF BaseInv, TypeOK
  <2>1. Settling(i)  BY <1>3 DEF AgreeInv
  <2>2. ~IsInserted(i)  BY <2>1 DEF IsInserted, Settling, Exists
  <2>3. StepOf(i)  BY <2>0, RowSteps
  <2>4. (Exists(i) \/ ~hook.exists)'
    BY <2>1, <2>2, <2>3
    DEF StepOf, IsResting, IsRemoved, IsRecovered, IsMarked, IsClaimed, IsDelivered,
        IsFailed, Settling, Exists
  <2>5. ASSUME recovered'[i] = 0, i \notin unacked'
        PROVE  /\ row'[i].status \notin {"pending", "failed", "dead_letter"}
               /\ Senders(i)' \subseteq Senders(i)
               /\ recovered[i] = 0 /\ i \notin unacked
    <3>1. i \notin unacked  BY <1>r, <2>5
    <3>2. ~IsRecovered(i)  BY <2>0, <2>5 DEF IsRecovered
    <3>3. recovered[i] = 0
      BY <2>2, <2>3, <2>5, <3>2
      DEF StepOf, IsResting, SameCounts, IsRemoved, IsMarked, IsClaimed, IsDelivered, IsFailed
    <3>4. /\ row[i].status \notin {"pending", "failed", "dead_letter"}
          /\ \A t \in Senders(i) : task[t].id = i /\ task[t].stage \in Succeeding
      BY <2>1, <3>1, <3>3 DEF Settling
    <3>5. ~IsMarked(i)  BY <2>0 DEF IsMarked
    <3>6. \A t \in Threads : ~IsClaimed(i, t) /\ ~IsFailed(i, t)
      BY <3>4 DEF IsClaimed, IsFailed, Succeeding
    <3>7. IsResting(i) \/ IsRemoved(i) \/ \E t \in Threads : IsDelivered(i, t)
      BY <2>2, <2>3, <3>2, <3>5, <3>6 DEF StepOf
    <3> QED  BY <3>1, <3>3, <3>4, <3>7 DEF IsResting, IsRemoved, IsDelivered, Absent, Kept
  <2>6. ASSUME recovered'[i] = 0, i \notin unacked', NEW t \in Senders(i)'
        PROVE  task'[t].id = i /\ task'[t].stage \in Succeeding
    <3>1. task[t].id = i /\ task[t].stage \in Succeeding
      BY <2>1, <2>5, <2>6 DEF Settling
    <3> QED  BY <2>6, <3>1, SuccessKept
  <2> QED  BY <2>4, <2>5, <2>6 DEF Settling
<1>4. ASSUME NEW t \in Threads, NEW i \in QueueIds, Answered(t), task[t].id = i
      PROVE  Settling(i)'
  <2>0. i \in Ids /\ i \notin TestIds /\ task[t].attempt \in Nat /\ task[t].max \in Nat
    BY ThreadsApart, Records DEF BaseInv, TaskRecords
  <2>1. <<task[t].attempt, task[t].max>> \in Carried(t, i)
    BY <1>4, <2>0, TicketStages DEF Answered, Carried
  <2>2. t \in Senders(i)  BY <2>1 DEF Senders
  <2>3. Cardinality(Senders(i)) # 0 /\ Cardinality(Senders(i)) \in Nat
    BY <2>0, <2>2, SendersFinite, FS_EmptySet
  <2>4. Bounded(i) /\ Extra(i) = 0  BY <2>0 DEF SendersBounded, Extra
  <2>5. (Exists(i) \/ ~hook.exists)'
    BY <1>4, <2>2, <2>4 DEF Answered, Bounded, Exists
  <2>6. ASSUME recovered'[i] = 0, i \notin unacked'
        PROVE  /\ row'[i].status \notin {"pending", "failed", "dead_letter"}
               /\ \A u \in Senders(i)' : task'[u].id = i /\ task'[u].stage \in Succeeding
    <3>1. recovered[i] = 0  BY <1>4, <2>6 DEF Answered
    <3>2. row[i].status \notin {"pending", "failed", "dead_letter"}
      BY <2>3, <2>4, <3>1 DEF Bounded
    <3>3. Senders(i) = {t}
      <4>1. Cardinality(Senders(i)) <= 1  BY <2>4, <3>1 DEF Bounded
      <4>2. /\ IsFiniteSet(Senders(i) \ {t})
            /\ Cardinality(Senders(i) \ {t}) = Cardinality(Senders(i)) - 1
        BY <2>0, <2>2, SendersFinite, FS_RemoveElement
      <4>3. Cardinality(Senders(i) \ {t}) = 0  BY <4>1, <4>2, <2>3
      <4>4. Senders(i) \ {t} = {}  BY <4>2, <4>3, FS_EmptySet
      <4> QED  BY <2>2, <4>4
    <3>4. Senders(i)' \subseteq Senders(i)
      <4>1. StepOf(i) /\ row'[i] = row[i] /\ recovered'[i] = recovered[i] /\ hook' = hook
        BY <1>4, <2>0, RowSteps DEF Answered
      <4>2. \A u \in Threads : ~IsClaimed(i, u)  BY <4>1 DEF IsClaimed
      <4> QED  BY <2>0, <4>1, <4>2
               DEF StepOf, IsResting, IsRemoved, IsInserted, IsRecovered, IsMarked,
                   IsDelivered, IsFailed, Kept
    <3> QED  BY <1>4, <3>2, <3>3, <3>4 DEF Answered, Succeeding
  <2> QED  BY <2>5, <2>6 DEF Settling
<1>5. ASSUME NEW i \in QueueIds, i \in accepted'  PROVE Settling(i)'
  <2>1. CASE i \in accepted  BY <1>3, <2>1
  <2>2. CASE i \notin accepted
    <3>1. PICK t \in Threads : Answered(t) /\ task[t].id = i  BY <1>r, <1>5, <2>2 DEF Answered
    <3> QED  BY <1>4, <3>1
  <2> QED  BY <2>1, <2>2
<1> QED  BY <1>1, <1>2, <1>5 DEF AgreeInv, SuccessIsAccepted

\* The queue and the receiver agree about an event unless it was recovered or
\* a success could not be recorded, with any number of loops and crashes.
THEOREM OutcomesMatch == Spec => []OutcomeMatchesReceiver
<1>1. Init => AgreeInv
  BY ThreadsApart DEF Init, AgreeInv, SuccessIsAccepted, Succeeding, NoTask, Absent
<1>2. BaseInv /\ SendersBounded /\ AgreeInv /\ [Next]_vars => AgreeInv'  BY AgreeStep
<1>3. AgreeInv => OutcomeMatchesReceiver
  BY DEF AgreeInv, SuccessIsAccepted, Settling, OutcomeMatchesReceiver
<1> QED  BY <1>1, <1>2, <1>3, BoundedHolds, PTL DEF Spec

-----------------------------------------------------------------------------
(* The delivery queue is a lease queue                                       *)

Reporting == Unwritten \cup {"okhook"}

LEMMA ReportingStages ==
  /\ Reporting = {"mark", "post", "sent", "ok", "bad", "okhook"}
  /\ "select" \notin Reporting /\ "none" \notin Reporting
BY DEF Reporting, Unwritten

\* Who holds an event depends on the batches and tasks of the loops.
LEMMA HoldersKept ==
  ASSUME NEW i \in QueueIds, UNCHANGED batch, \A w \in Workers : task'[w] = task[w]
  PROVE  TicketHolders(i)' = TicketHolders(i)
BY DEF TicketHolders

\* A thread moves on with its delivery, or is through with this one.
LEMMA HoldersOfTask ==
  ASSUME BaseInv, NEW t \in Threads, NEW i \in QueueIds, UNCHANGED batch,
         \A u \in Threads \ {t} : task'[u] = task[u]
  PROVE  /\ task'[t].id = task[t].id /\ (task'[t].stage \in Reporting <=> task[t].stage \in Reporting)
              => TicketHolders(i)' = TicketHolders(i)
         /\ task[t].stage \notin Reporting /\ task'[t].stage \notin Reporting
              => TicketHolders(i)' = TicketHolders(i)
         /\ task'[t].stage \notin Reporting
              => TicketHolders(i)' = IF i = task[t].id THEN TicketHolders(i) \ {t}
                                     ELSE TicketHolders(i)
<1>1. \A w \in Workers : \A c \in batch[w] : c.id # task[w].id  BY DEF BaseInv, HoldShape
<1>2. \A w \in Workers \ {t} : task'[w] = task[w]  BY ThreadsApart
<1> QED  BY <1>1, <1>2 DEF TicketHolders, Reporting

LEMMA HoldersOfClaim ==
  ASSUME BaseInv, NEW w \in Workers, loop[w] # "sending", NEW S \in SUBSET Ids,
         batch' = [batch EXCEPT ![w] =
           {[id |-> i, attempt |-> NextAttempt(i), max |-> hook.max] : i \in S}],
         task' = task, NEW i \in QueueIds
  PROVE  TicketHolders(i)' = IF i \in S THEN TicketHolders(i) \cup {w} ELSE TicketHolders(i)
<1>1. /\ batch[w] = {} /\ task[w] = NoTask /\ i # NoId
      /\ batch'[w] = {[id |-> j, attempt |-> NextAttempt(j), max |-> hook.max] : j \in S}
      /\ \A v \in Workers \ {w} : batch'[v] = batch[v]
  BY ThreadsApart, IdsAssumption DEF BaseInv, HoldShape, TypeOK, Circulation, ThreadShape
<1>2. w \notin TicketHolders(i)  BY <1>1 DEF TicketHolders, NoTask
<1>3. (\E c \in batch'[w] : c.id = i) <=> i \in S
  <2> DEFINE claim(j) == [id |-> j, attempt |-> NextAttempt(j), max |-> hook.max]
  <2>1. \A j \in S : claim(j) \in batch'[w] /\ claim(j).id = j  BY <1>1
  <2>2. \A c \in batch'[w] : \E j \in S : c = claim(j) /\ claim(j).id = j  BY <1>1
  <2> HIDE DEF claim
  <2>3. \A c \in batch'[w] : c.id \in S  BY <2>2
  <2> QED  BY <2>1, <2>3
<1> QED  BY <1>1, <1>2, <1>3 DEF TicketHolders, NoTask

\* The place of an event is told by its status and by the webhook.
LEMMA PlaceKept ==
  ASSUME NEW i \in QueueIds, hook'.exists = hook.exists, row'[i].status = row[i].status
  PROVE  PlaceOf(i)' = PlaceOf(i)
BY DEF PlaceOf

LEMMA LeaseRests ==
  ASSUME \A i \in QueueIds : /\ row'[i].status = row[i].status
                             /\ TicketHolders(i)' = TicketHolders(i),
         hook'.exists = hook.exists, UNCHANGED recovered
  PROVE  UNCHANGED Lease!leaseVars
<1>1. \A i \in QueueIds : PlaceOf(i)' = PlaceOf(i)  BY PlaceKept
<1> QED  BY <1>1 DEF Lease!leaseVars

LEMMA LeaseReleased ==
  ASSUME NEW H \in SUBSET Workers, NEW S \in SUBSET QueueIds,
         \A i \in QueueIds :
           /\ row'[i].status = row[i].status
           /\ TicketHolders(i)' = IF i \in S THEN TicketHolders(i) \ H ELSE TicketHolders(i),
         hook'.exists = hook.exists, UNCHANGED recovered
  PROVE  Lease!LeaseNext
<1>1. \A i \in QueueIds : PlaceOf(i)' = PlaceOf(i)  BY PlaceKept
<1>2. Lease!Release(H, S)  BY <1>1 DEF Lease!Release
<1> QED  BY <1>2 DEF Lease!LeaseNext

\* A row is inserted for an id that had none.
LEMMA LeaseOffered ==
  ASSUME BaseInv, NEW e \in Ids, hook.exists, ~Exists(e), row' = [row EXCEPT ![e] = Fresh],
         hook' = hook, UNCHANGED <<batch, recovered>>, \A w \in Workers : task'[w] = task[w]
  PROVE  Lease!LeaseNext \/ UNCHANGED Lease!leaseVars
<1>1. \A i \in QueueIds : TicketHolders(i)' = TicketHolders(i)  BY HoldersKept
<1>2. row'[e].status = "pending" /\ \A i \in Ids \ {e} : row'[i] = row[i]
  BY DEF BaseInv, TypeOK, Fresh
<1>3. CASE e \in QueueIds
  <2>1. PlaceOf(e) = "absent" /\ PlaceOf(e)' = "waiting"  BY <1>2 DEF PlaceOf, Exists
  <2>2. \A i \in QueueIds \ {e} : PlaceOf(i)' = PlaceOf(i)  BY <1>2, ThreadsApart, PlaceKept
  <2>3. Lease!Offer(e)  BY <1>1, <1>3, <2>1, <2>2 DEF Lease!Offer
  <2> QED  BY <1>3, <2>3 DEF Lease!LeaseNext
<1>4. CASE e \notin QueueIds
  <2>1. \A i \in QueueIds : row'[i].status = row[i].status  BY <1>2, <1>4, ThreadsApart
  <2> QED  BY <1>1, <2>1, LeaseRests
<1> QED  BY <1>3, <1>4

\* A recovery lapses the claims of the stuck rows.
LEMMA LeaseLapsed ==
  ASSUME BaseInv, NEW w \in Workers, Recover(w)  PROVE Lease!LeaseNext
<1> PICK S \in SUBSET QueueIds : S = Stuck \cap QueueIds  OBVIOUS
<1>1. row \in [Ids -> RowRecords] /\ recovered \in [Ids -> Nat]
  BY Records DEF BaseInv, TypeOK
<1>2. \A i \in Ids : /\ row'[i].status = IF i \in Stuck THEN "failed" ELSE row[i].status
                     /\ recovered'[i] = IF i \in Stuck THEN recovered[i] + 1 ELSE recovered[i]
  BY <1>1 DEF Recover, RowRecords
<1>3. \A i \in QueueIds : TicketHolders(i)' = TicketHolders(i)
  BY HoldersKept DEF Recover
<1>4. \A i \in S : /\ i \in Ids /\ row[i].status = "processing" /\ hook.exists
  BY DEF Stuck, BaseInv, HoldShape, Absent
<1>5. hook' = hook  BY DEF Recover
<1>6. \A i \in S : PlaceOf(i) = "claimed" /\ PlaceOf(i)' = "waiting"
  BY <1>2, <1>4, <1>5 DEF PlaceOf
<1>7. \A i \in QueueIds \ S : PlaceOf(i)' = PlaceOf(i)  BY <1>2, <1>5, ThreadsApart, PlaceKept
<1>8. Lease!Lapse(S)  BY <1>2, <1>3, <1>6, <1>7, ThreadsApart DEF Lease!Lapse
<1> QED  BY <1>8 DEF Lease!LeaseNext

\* A claim of the loop is a claim of the holder.
LEMMA LeaseClaimed ==
  ASSUME BaseInv, NEW w \in Workers, Claim(w)  PROVE Lease!LeaseNext
<1>1. PICK S \in SUBSET Ready :
        /\ row' = [i \in Ids |-> IF i \in S
                     THEN [row[i] EXCEPT !.status = "processing", !.stale = FALSE,
                                         !.attempts = NextAttempt(i)]
                     ELSE row[i]]
        /\ batch' = [batch EXCEPT ![w] =
             {[id |-> i, attempt |-> NextAttempt(i), max |-> hook.max] : i \in S}]
  BY DEF Claim
<1> DEFINE Q == S \cap QueueIds
<1>2. S \in SUBSET Ids /\ \A i \in S : row[i].status \in {"pending", "failed"} /\ hook.exists
  BY DEF Ready
<1>3. row \in [Ids -> RowRecords]  BY Records DEF BaseInv
<1>4. \A i \in Ids : row'[i].status = IF i \in S THEN "processing" ELSE row[i].status
  BY <1>1, <1>3 DEF RowRecords
<1>5. UNCHANGED <<hook, task, recovered>> /\ loop[w] # "sending"  BY DEF Claim, history
<1>6. \A i \in QueueIds :
        TicketHolders(i)' = IF i \in Q THEN TicketHolders(i) \cup {w} ELSE TicketHolders(i)
  BY <1>1, <1>2, <1>5, HoldersOfClaim
<1>7. \A i \in Q : PlaceOf(i) = "waiting" /\ PlaceOf(i)' = "claimed"
  BY <1>2, <1>4, <1>5, ThreadsApart DEF PlaceOf
<1>8. \A i \in QueueIds \ Q : PlaceOf(i)' = PlaceOf(i)  BY <1>4, <1>5, ThreadsApart, PlaceKept
<1>9. Lease!Claim(w, Q)  BY <1>5, <1>6, <1>7, <1>8 DEF Lease!Claim
<1>10. Q \in SUBSET QueueIds  OBVIOUS
<1> QED  BY <1>9, <1>10 DEF Lease!LeaseNext

\* The outcome written to the row of an event is the report of a holder; of a
\* row that is gone, or of a test, nothing is reported.
LEMMA LeaseReported ==
  ASSUME BaseInv, NEW t \in Threads, RowDelivered(t) \/ RowFailed(t)
  PROVE  Lease!LeaseNext \/ UNCHANGED Lease!leaseVars
<1>1. PICK i \in Ids : i = task[t].id  BY Records DEF BaseInv, RowDelivered, RowFailed
<1>2. /\ row \in [Ids -> RowRecords] /\ UNCHANGED <<hook, batch, recovered>>
  BY Records DEF BaseInv, RowDelivered, RowFailed, history
<1>3. \/ RowDelivered(t) /\ task[t].stage = "ok" /\ task' = To(t, "okhook")
      \/ RowFailed(t) /\ task[t].stage = "bad" /\ task' = To(t, "badhook")
  BY DEF RowDelivered, RowFailed
<1>4. /\ \A u \in Threads \ {t} : task'[u] = task[u]
      /\ task'[t].id = i
      /\ task'[t].stage = IF task[t].stage = "ok" THEN "okhook" ELSE "badhook"
  <2>1. {"okhook", "badhook"} \subseteq Stages  BY DEF Stages
  <2> QED  BY <1>1, <1>3, <2>1, MovesTo DEF BaseInv
<1>5. \E r \in RowRecords :
        /\ Write(i, r)
        /\ r.status = IF task[t].stage = "ok" THEN "delivered"
                      ELSE IF Exhausted(t) THEN "dead_letter" ELSE "failed"
  <2>1. row[i] \in RowRecords  BY <1>2
  <2>2. CASE RowDelivered(t)
    <3> DEFINE r == [row[i] EXCEPT !.status = "delivered", !.stale = FALSE]
    <3>1. r \in RowRecords /\ r.status = "delivered"  BY <2>1 DEF RowRecords, Statuses
    <3>2. Write(i, r) /\ task[t].stage = "ok"  BY <2>2, <1>1 DEF RowDelivered
    <3> QED  BY <3>1, <3>2
  <2>3. CASE RowFailed(t)
    <3> DEFINE s == IF Exhausted(t) THEN "dead_letter" ELSE "failed"
               r == [row[i] EXCEPT !.due = FALSE, !.stale = FALSE, !.status = s]
    <3>1. r \in RowRecords /\ r.status = s  BY <2>1 DEF RowRecords, Statuses
    <3>2. Write(i, r) /\ task[t].stage = "bad"  BY <2>3, <1>1 DEF RowFailed
    <3> QED  BY <3>1, <3>2
  <2> QED  BY <2>2, <2>3, <1>3
<1>6. /\ \A j \in Ids : j # i \/ ~Exists(i) => row'[j] = row[j]
      /\ Exists(i) => row'[i].status = IF task[t].stage = "ok" THEN "delivered"
                                       ELSE IF Exhausted(t) THEN "dead_letter" ELSE "failed"
  BY <1>5, WritesRow DEF BaseInv
<1>7. \A j \in QueueIds :
        TicketHolders(j)' = IF j = i /\ task[t].stage = "bad" THEN TicketHolders(j) \ {t}
                            ELSE TicketHolders(j)
  <2> SUFFICES ASSUME NEW j \in QueueIds
               PROVE  TicketHolders(j)' =
                        IF j = i /\ task[t].stage = "bad" THEN TicketHolders(j) \ {t}
                        ELSE TicketHolders(j)
    OBVIOUS
  <2>1. CASE task[t].stage = "ok"
    BY <1>1, <1>2, <1>4, <2>1, HoldersOfTask, ReportingStages
  <2>2. CASE task[t].stage = "bad"
    BY <1>1, <1>2, <1>4, <2>2, HoldersOfTask, ReportingStages
  <2> QED  BY <1>3, <2>1, <2>2
<1>8. i \in QueueIds => t \in Workers /\ t \in TicketHolders(i)
  <2>1. task[t].stage \in Reporting /\ task[t].stage # "none"  BY <1>3, ReportingStages
  <2>2. i \in QueueIds => t \in Workers
    BY <1>1, <2>1, ThreadsApart DEF BaseInv, Circulation, ThreadShape
  <2> QED  BY <1>1, <2>1, <2>2 DEF TicketHolders, Reporting
<1>9. CASE i \in QueueIds /\ Exists(i)
  <2>1. hook.exists /\ PlaceOf(i) # "removed"
    <3>1. hook.exists  BY <1>9 DEF BaseInv, HoldShape, Exists, Absent
    <3>2. row[i].status \in Statuses \ {"absent"}  BY <1>2, <1>9 DEF RowRecords, Exists
    <3> QED  BY <3>1, <3>2 DEF PlaceOf, Statuses
  <2>2. \A j \in QueueIds \ {i} : PlaceOf(j)' = PlaceOf(j)
    BY <1>2, <1>6, ThreadsApart, PlaceKept
  <2>3. CASE task[t].stage = "ok"
    <3>1. PlaceOf(i)' = "done"  BY <1>2, <1>6, <1>9, <2>1, <2>3 DEF PlaceOf
    <3>2. \A j \in QueueIds : TicketHolders(j)' = TicketHolders(j)  BY <1>7, <2>3
    <3>3. Lease!Report(t, i, "done")
      BY <1>2, <1>8, <1>9, <2>1, <2>2, <3>1, <3>2 DEF Lease!Report
    <3> QED  BY <1>8, <1>9, <3>3 DEF Lease!LeaseNext
  <2>4. CASE task[t].stage = "bad"
    <3>1. PICK outcome \in {"waiting", "dead"} : PlaceOf(i)' = outcome
      BY <1>2, <1>6, <1>9, <2>1, <2>4 DEF PlaceOf
    <3>2. \A j \in QueueIds :
            TicketHolders(j)' = IF j = i THEN TicketHolders(j) \ {t} ELSE TicketHolders(j)
      BY <1>7, <2>4
    <3>3. Lease!Report(t, i, outcome)
      BY <1>2, <1>8, <1>9, <2>1, <2>2, <3>1, <3>2 DEF Lease!Report
    <3>4. outcome \in {"done", "waiting", "dead"}  OBVIOUS
    <3> QED  BY <1>8, <1>9, <3>3, <3>4 DEF Lease!LeaseNext
  <2> QED  BY <1>3, <2>3, <2>4
<1>10. CASE ~(i \in QueueIds /\ Exists(i))
  <2>1. \A j \in QueueIds : row'[j].status = row[j].status  BY <1>6, <1>10, ThreadsApart
  <2>2. CASE i \in QueueIds /\ task[t].stage = "bad"
    <3>1. {t} \in SUBSET Workers /\ {i} \in SUBSET QueueIds  BY <1>8, <2>2
    <3>2. \A j \in QueueIds :
            TicketHolders(j)' = IF j \in {i} THEN TicketHolders(j) \ {t} ELSE TicketHolders(j)
      BY <1>7, <2>2
    <3> QED  BY <1>2, <2>1, <3>1, <3>2, LeaseReleased
  <2>3. CASE ~(i \in QueueIds /\ task[t].stage = "bad")
    BY <1>2, <1>7, <2>1, <2>3, LeaseRests
  <2> QED  BY <2>2, <2>3
<1> QED  BY <1>9, <1>10

\* A thread that moves on without a word, is through, or dies.
LEMMA LeaseMoves ==
  ASSUME BaseInv, NEW t \in Threads,
         \/ Mark(t) \/ Refuse(t) \/ Post(t) \/ Answer(t) \/ SuccessFails(t)
         \/ HookSucceeded(t) \/ HookFailed(t) \/ Disable(t)
  PROVE  Lease!LeaseNext \/ UNCHANGED Lease!leaseVars
<1>1. UNCHANGED <<batch, recovered>> /\ hook'.exists = hook.exists
  BY DEF Mark, Refuse, Post, Answer, SuccessFails, HookSucceeded, HookFailed, Disable, history,
         BaseInv, TypeOK, Hooks
<1>2. \A i \in QueueIds : row'[i].status = row[i].status
  <2>1. CASE Mark(t)
    <3>1. task[t].stage = "mark"  BY <2>1 DEF Mark
    <3>2. task[t].id \in TestIds
      BY <3>1, ThreadsApart DEF BaseInv, Circulation, ThreadShape
    <3>3. \A i \in QueueIds : row'[i] = row[i]
      BY <2>1, <3>2, ThreadsApart DEF Mark, Write, BaseInv, TypeOK
    <3> QED  BY <3>3
  <2>2. CASE ~Mark(t)
    BY <2>2 DEF Refuse, Post, Answer, SuccessFails, HookSucceeded, HookFailed, Disable
  <2> QED  BY <2>1, <2>2
<1>3. \/ \E s \in {"post", "sent", "ok", "bad"} : task' = To(t, s) /\ task[t].stage \in Reporting
      \/ HookSucceeded(t) /\ task' = [task EXCEPT ![t] = NoTask]
      \/ /\ task[t].stage \notin Reporting
         /\ task' = To(t, "disable") \/ task' = [task EXCEPT ![t] = NoTask]
  BY ReportingStages
  DEF Mark, Refuse, Post, Answer, SuccessFails, HookSucceeded, HookFailed, Disable
<1>s. /\ {"post", "sent", "ok", "bad", "disable"} \subseteq Stages
      /\ {"post", "sent", "ok", "bad"} \subseteq Reporting /\ "disable" \notin Reporting
  BY ReportingStages DEF Stages
<1>4. CASE \E s \in {"post", "sent", "ok", "bad"} : task' = To(t, s) /\ task[t].stage \in Reporting
  <2>1. /\ \A u \in Threads \ {t} : task'[u] = task[u] /\ task'[t].id = task[t].id
        /\ task'[t].id = task[t].id /\ task'[t].stage \in Reporting
    BY <1>4, <1>s, MovesTo DEF BaseInv
  <2>2. \A i \in QueueIds : TicketHolders(i)' = TicketHolders(i)
    BY <1>1, <1>4, <2>1, HoldersOfTask
  <2> QED  BY <1>1, <1>2, <2>2, LeaseRests
<1>5. CASE HookSucceeded(t) /\ task' = [task EXCEPT ![t] = NoTask]
  <2>1. /\ \A u \in Threads \ {t} : task'[u] = task[u]
        /\ task'[t].stage \notin Reporting
    BY <1>5, TaskEnds, ReportingStages DEF BaseInv
  <2>2. \A i \in QueueIds : TicketHolders(i)' = IF i = task[t].id THEN TicketHolders(i) \ {t}
                                                ELSE TicketHolders(i)
    BY <1>1, <2>1, HoldersOfTask
  <2> DEFINE H == {t} \cap Workers
  <2> PICK S \in SUBSET QueueIds : S = {task[t].id} \cap QueueIds  OBVIOUS
  <2>3. \A i \in QueueIds : TicketHolders(i)' = IF i \in S THEN TicketHolders(i) \ H
                                                ELSE TicketHolders(i)
    BY <2>2 DEF TicketHolders
  <2>4. H \in SUBSET Workers  OBVIOUS
  <2> HIDE DEF H
  <2> QED  BY <1>1, <1>2, <2>3, <2>4, LeaseReleased
<1>6. CASE /\ task[t].stage \notin Reporting
           /\ task' = To(t, "disable") \/ task' = [task EXCEPT ![t] = NoTask]
  <2>1. /\ \A u \in Threads \ {t} : task'[u] = task[u]
        /\ task'[t].stage \notin Reporting
    BY <1>6, <1>s, MovesTo, TaskEnds, ReportingStages DEF BaseInv
  <2>2. \A i \in QueueIds : TicketHolders(i)' = TicketHolders(i)
    BY <1>1, <1>6, <2>1, HoldersOfTask
  <2> QED  BY <1>1, <1>2, <2>2, LeaseRests
<1> QED  BY <1>3, <1>4, <1>5, <1>6

LEMMA LeaseAborted ==
  ASSUME BaseInv, NEW t \in Threads, Abort(t)  PROVE Lease!LeaseNext
<1> DEFINE H == {t} \cap Workers
<1>1. /\ task'[t] = NoTask /\ \A u \in Threads \ {t} : task'[u] = task[u]
      /\ \A v \in Workers \ {t} : batch'[v] = batch[v]
      /\ t \in Workers => batch'[t] = {}
      /\ UNCHANGED <<hook, row, recovered>>
  BY DEF Abort, history, BaseInv, TypeOK
<1>2. NoTask.stage \notin Unwritten \cup {"okhook"}  BY DEF NoTask, Unwritten
<1>3. \A i \in QueueIds : TicketHolders(i)' = TicketHolders(i) \ H
  BY <1>1, <1>2, ThreadsApart DEF TicketHolders
<1>4. H \in SUBSET Workers /\ QueueIds \in SUBSET QueueIds  OBVIOUS
<1> HIDE DEF H
<1> QED  BY <1>1, <1>3, <1>4, LeaseReleased

\* Every step of the delivery queue is one of the lease queue, or none.
LEMMA LeaseStep ==
  ASSUME BaseInv, [Next]_vars  PROVE [Lease!LeaseNext]_(Lease!leaseVars)
<1>1. ASSUME UNCHANGED <<batch, task, recovered>>, hook'.exists = hook.exists,
             \A i \in Ids : row'[i].status = row[i].status
      PROVE  UNCHANGED Lease!leaseVars
  BY <1>1, HoldersKept, LeaseRests, ThreadsApart
<1>2. ASSUME NEW e \in Events, EmitSelect(e) \/ EmitInsert(e)
      PROVE  Lease!LeaseNext \/ UNCHANGED Lease!leaseVars
  <2>1. e \in Ids  BY DEF Ids
  <2>2. CASE row' = row  BY <1>1, <1>2, <2>2 DEF EmitSelect, EmitInsert, history
  <2>3. CASE EmitInsert(e) /\ hook.exists /\ ~Exists(e)
    BY <2>1, <2>3, LeaseOffered DEF EmitInsert, history
  <2> QED  BY <1>2, <2>2, <2>3 DEF EmitSelect, EmitInsert
<1>3. ASSUME NEW i \in Ids, NEW copy \in ReplayIds, Replay(i, copy)
      PROVE  Lease!LeaseNext \/ UNCHANGED Lease!leaseVars
  <2>1. copy \in Ids  BY DEF Ids
  <2> QED  BY <1>3, <2>1, LeaseOffered DEF Replay, history
<1>4. ASSUME (\E edit \in Edits : UpdateRead(edit)) \/ UpdateWrite
      PROVE  UNCHANGED Lease!leaseVars
  BY <1>1, <1>4 DEF UpdateRead, UpdateWrite, history, BaseInv, TypeOK, Hooks
<1>5. ASSUME Remove  PROVE Lease!LeaseNext
  <2>1. ~hook'.exists  BY <1>5 DEF Remove, BaseInv, TypeOK, Hooks
  <2>2. \A i \in QueueIds : PlaceOf(i)' = "removed"  BY <2>1 DEF PlaceOf
  <2>3. \A i \in QueueIds : TicketHolders(i)' = TicketHolders(i)
    BY <1>5, HoldersKept DEF Remove
  <2>4. Lease!Remove  BY <1>5, <2>2, <2>3 DEF Lease!Remove, Remove, history
  <2> QED  BY <2>4 DEF Lease!LeaseNext
<1>6. ASSUME NEW t \in Testers, TestSelect(t)  PROVE UNCHANGED Lease!leaseVars
  <2>1. \A w \in Workers : task'[w] = task[w]
    BY <1>6, ThreadsApart DEF TestSelect, BaseInv, TypeOK
  <2> QED  BY <1>6, <2>1, HoldersKept, LeaseRests DEF TestSelect, history
<1>7. ASSUME NEW t \in Testers, NEW i \in TestIds, TestInsert(t, i)
      PROVE  Lease!LeaseNext \/ UNCHANGED Lease!leaseVars
  <2>1. \A w \in Workers : task'[w] = task[w]
    BY <1>7, ThreadsApart DEF TestInsert, BaseInv, TypeOK
  <2>2. i \in Ids  BY DEF Ids
  <2> QED  BY <1>7, <2>1, <2>2, LeaseOffered DEF TestInsert, history
<1>8. ASSUME NEW w \in Workers, Deliver(w)  PROVE UNCHANGED Lease!leaseVars
  <2>1. PICK c \in batch[w] :
          /\ task' = [task EXCEPT ![w] = [stage |-> "post", id |-> c.id,
                                          attempt |-> c.attempt, max |-> c.max]]
          /\ batch' = [batch EXCEPT ![w] = @ \ {c}]
    BY <1>8 DEF Deliver
  <2>2. /\ UNCHANGED <<hook, row, recovered>> /\ batch'[w] = batch[w] \ {c}
        /\ task[w].stage = "none" /\ task'[w].stage = "post" /\ task'[w].id = c.id
        /\ \A v \in Workers \ {w} : batch'[v] = batch[v] /\ task'[v] = task[v]
    BY <1>8, <2>1, ThreadsApart DEF Deliver, history, BaseInv, TypeOK
  <2>3. \A d \in batch[w] : d.id = c.id => d = c
    BY DEF BaseInv, Circulation, ThreadShape
  <2>4. \A i \in QueueIds : w \in TicketHolders(i)' <=> w \in TicketHolders(i)
    BY <2>2, <2>3 DEF TicketHolders, Unwritten
  <2>5. \A i \in QueueIds : TicketHolders(i)' = TicketHolders(i)
    BY <2>2, <2>4 DEF TicketHolders
  <2> QED  BY <2>2, <2>5, LeaseRests
<1>9. ASSUME NEW w \in Workers, Finish(w)  PROVE UNCHANGED Lease!leaseVars
  BY <1>1, <1>9 DEF Finish, history
<1>10. ASSUME NEW j \in Ids, BecomeDue(j) \/ GoStale(j)  PROVE UNCHANGED Lease!leaseVars
  <2>1. row \in [Ids -> RowRecords]  BY Records DEF BaseInv
  <2>2. \A i \in Ids : row'[i].status = row[i].status
    BY <1>10, <2>1 DEF BecomeDue, GoStale, RowRecords
  <2> QED  BY <1>1, <1>10, <2>2 DEF BecomeDue, GoStale, history
<1>11. CASE UNCHANGED vars  BY <1>1, <1>11 DEF vars
<1> QED
  BY <1>2, <1>3, <1>4, <1>5, <1>6, <1>7, <1>8, <1>9, <1>10, <1>11, LeaseLapsed,
     LeaseClaimed, LeaseReported, LeaseMoves, LeaseAborted
  DEF Next, Console, Clock, Queue, Delivering

\* The delivery queue implements the lease queue: every behaviour of its loops,
\* test requests, crashes and late writes is one LeaseQueue allows.
THEOREM DeliveriesAreLeased == Spec => ImplementsLease
<1>1. Init => Lease!LeaseInit
  <2> SUFFICES ASSUME Init  PROVE Lease!LeaseInit  OBVIOUS
  <2>1. \A i \in QueueIds : PlaceOf(i) = "absent"
    BY ThreadsApart DEF Init, PlaceOf, Absent
  <2>2. \A i \in QueueIds : TicketHolders(i) = {}
    BY ThreadsApart DEF Init, TicketHolders, NoTask, Unwritten
  <2>3. \A i \in QueueIds : recovered[i] = 0  BY ThreadsApart DEF Init
  <2> QED  BY <2>1, <2>2, <2>3 DEF Lease!LeaseInit
<1>2. BaseInv /\ [Next]_vars => [Lease!LeaseNext]_(Lease!leaseVars)  BY LeaseStep
<1> QED  BY <1>1, <1>2, BaseHolds, PTL DEF Spec, ImplementsLease, Lease!LeaseSpec

=============================================================================
