------------------------- MODULE FunctionQueueProofs -------------------------
(* Proofs about the job queue of the functions (FunctionQueue) and about its *)
(* being a lease queue (JobLease).                                           *)
EXTENDS JobLease, FiniteSetTheorems, TLAPS

-----------------------------------------------------------------------------
(* Calls that hold a job, and the set runningJobs.                           *)

HeldTasks == [stage : Holding, id : Jobs, attempt : Nat, max : 1 .. MaxAttempts]
Holds(c, i) == call[c].stage \in Holding /\ call[c].id = i

\* A call that has claimed a job carries one; the others carry nothing.
LEMMA HeldTask ==
  ASSUME TypeOK, NEW c \in Calls
  PROVE  /\ call[c].stage \in Holding => call[c] \in HeldTasks
         /\ call[c].stage = "leaving" => call[c].id \in Jobs
         /\ call[c].stage \notin Holding \cup {"leaving"} =>
              call[c].id = NoJob /\ call[c] \in {Idle, Claiming}
BY DEF TypeOK, Tasks, HeldTasks, Holding, Idle, Claiming

\* A call moves from a stage in which it holds its job to another, or it has
\* written the outcome and leaves.
LEMMA HeldMoves ==
  ASSUME TypeOK, NEW c \in Calls, call[c].stage \in Holding,
         NEW s \in Holding \cup {"leaving"}
  PROVE  [call EXCEPT ![c].stage = s] \in [Calls -> Tasks]
<1>1. call[c] \in HeldTasks  BY HeldTask
<1>2. [call[c] EXCEPT !.stage = s] \in Tasks  BY <1>1 DEF HeldTasks, Tasks
<1> QED  BY <1>2 DEF TypeOK

-----------------------------------------------------------------------------
(* Types                                                                     *)

\* A row with an upper clamp between 1 and MaxAttempts.
LEMMA LimitInRange == \A n \in Nat : Limit(n) \in 1 .. MaxAttempts
BY BoundsAssumption DEF Limit

LEMMA RowTypes == Absent \in Rows
BY BoundsAssumption DEF Absent, Rows, Statuses

\* The console's operations keep the types.
LEMMA ConsoleType == ASSUME TypeOK, Console  PROVE TypeOK'
<1>1. CASE Deploy  BY <1>1 DEF Deploy, TypeOK, history, fates, budgets
<1>2. CASE DeleteFunction
  BY <1>2, RowTypes DEF DeleteFunction, TypeOK, history, fates, budgets
<1>3. ASSUME NEW i \in Jobs, Enqueue(i)  PROVE TypeOK'
  <2>1. PICK n \in 0 .. MaxAttempts + 1, due \in BOOLEAN :
          job' = [job EXCEPT ![i] = [status |-> "queued", attempts |-> 0,
                                     max |-> Limit(n), due |-> due]]
    BY <1>3 DEF Enqueue
  <2>2. Limit(n) \in 1 .. MaxAttempts  BY LimitInRange, BoundsAssumption
  <2>3. job' \in [Jobs -> Rows]  BY <2>1, <2>2 DEF TypeOK, Rows, Statuses
  <2> QED  BY <2>3, <1>3 DEF Enqueue, TypeOK, history, fates, budgets
<1>4. ASSUME NEW i \in Jobs, Retry(i)  PROVE TypeOK'
  <2>1. job \in [Jobs -> Rows] /\ "queued" \in Statuses  BY DEF TypeOK, Statuses
  <2>2. job' = [job EXCEPT ![i].status = "queued", ![i].attempts = 0, ![i].due = TRUE]
    BY <1>4 DEF Retry
  <2>3. job' \in [Jobs -> Rows]  BY <2>1, <2>2 DEF Rows
  <2> QED  BY <2>3, <1>4 DEF Retry, TypeOK, history, fates, budgets
<1> QED  BY <1>1, <1>2, <1>3, <1>4 DEF Console

\* Starts, stops and ends of instances keep the types.
LEMMA InstanceType ==
  ASSUME TypeOK, NEW w \in Workers, Start(w) \/ Stop(w) \/ Exit(w) \/ Crash(w)
  PROVE  TypeOK'
<1>1. CASE Start(w)
  <2>1. job' \in [Jobs -> Rows] /\ reset' \in [Jobs -> Nat]
    BY <1>1 DEF Start, TypeOK, Rows, Statuses
  <2> QED  BY <2>1, <1>1 DEF Start, TypeOK, history, fates, budgets
<1>2. CASE Stop(w)  BY <1>2 DEF Stop, TypeOK, history, fates, budgets
<1>3. CASE Exit(w) \/ Crash(w)
  <2>1. Die(w) /\ crashes' \in Nat  BY <1>3 DEF Exit, Crash, TypeOK
  <2>2. call' \in [Calls -> Tasks]  BY <2>1 DEF Die, TypeOK, Tasks
  <2> QED  BY <2>1, <2>2 DEF Die, TypeOK, history, fates
<1> QED  BY <1>1, <1>2, <1>3

\* The steps of a processQueue call keep the types.
LEMMA CallType ==
  ASSUME TypeOK, NEW c \in Calls, Progress(c) \/ RecordFails(c)  PROVE TypeOK'
<1>w. c[1] \in Workers  BY DEF Calls
<1>h. call[c].stage \in Holding => call[c].id \in Jobs  BY HeldTask DEF HeldTasks
<1>l. ASSUME Complete(c) \/ Fail(c)  PROVE call' \in [Calls -> Tasks]
  <2>1. call[c].stage \in Holding /\ call' = [call EXCEPT ![c].stage = "leaving"]
    BY <1>l DEF Complete, Fail, Holding
  <2> QED  BY <2>1, HeldMoves
<1>1. CASE Begin(c)  BY <1>1 DEF Begin, TypeOK, Tasks, history, fates, budgets
<1>2. CASE Claim(c)
  <2>1. CASE call' = [call EXCEPT ![c] = Idle] /\ UNCHANGED <<job, fates>>
    BY <2>1, <1>2 DEF Claim, TypeOK, Tasks, history, fates, budgets
  <2>2. ASSUME NEW i \in Due,
               job' = [job EXCEPT ![i].status = "processing", ![i].attempts = @ + 1],
               call' = [call EXCEPT ![c] =
                 [stage |-> "claimed", id |-> i, attempt |-> job[i].attempts + 1,
                  max |-> job[i].max]],
               lost' = lost \ {i}, dropped' = dropped \ {i}
        PROVE  TypeOK'
    <3>1. i \in Jobs /\ job[i] \in Rows  BY DEF Due, TypeOK
    <3>2. job' \in [Jobs -> Rows]  BY <2>2, <3>1 DEF TypeOK, Rows, Statuses
    <3>3. call' \in [Calls -> Tasks]  BY <2>2, <3>1 DEF TypeOK, Rows, Tasks, Holding
    <3> QED  BY <2>2, <3>2, <3>3, <1>2 DEF Claim, TypeOK, history, fates, budgets
  <2> QED  BY <2>1, <2>2, <1>2 DEF Claim
<1>3. CASE Take(c)
  <2>1. CASE HasIt(c)
    <3>1. call[c].id \in Jobs  BY <1>3, <1>h DEF Take, Holding
    <3> QED  BY <1>3, <2>1, <3>1 DEF Take, TypeOK, Tasks, history, budgets
  <2>2. CASE ~HasIt(c)
    <3>0. call[c].stage \in Holding /\ "taken" \in Holding  BY <1>3 DEF Take, Holding
    <3>1. call' \in [Calls -> Tasks]
      <4>1. [call EXCEPT ![c].stage = "taken"] \in [Calls -> Tasks]  BY <3>0, HeldMoves
      <4> QED  BY <4>1, <1>3, <2>2 DEF Take
    <3>2. running' \in [Workers -> SUBSET Jobs]
      BY <1>3, <2>2, <1>w, <1>h DEF Take, TypeOK, Holding
    <3>3. UNCHANGED dropped  BY <1>3, <2>2 DEF Take
    <3> QED  BY <3>1, <3>2, <3>3, <1>3 DEF Take, TypeOK, history, budgets
  <2> QED  BY <2>1, <2>2
<1>4. CASE Invoke(c)
  <2>1. call' \in [Calls -> Tasks]  BY <1>4, HeldMoves DEF Invoke, Holding
  <2> QED  BY <2>1, <1>4 DEF Invoke, TypeOK, history, fates, budgets
<1>5. CASE Return(c)
  <2>1. call[c].stage \in Holding /\ "returned" \in Holding /\ "error" \in Holding
    BY <1>5 DEF Return, Holding
  <2>2. /\ [call EXCEPT ![c].stage = "returned"] \in [Calls -> Tasks]
        /\ [call EXCEPT ![c].stage = "error"] \in [Calls -> Tasks]
    BY <2>1, HeldMoves
  <2>3. call' \in [Calls -> Tasks]  BY <2>2, <1>5 DEF Return
  <2>4. succeeded' \in SUBSET Jobs  BY <1>5, <1>h DEF Return, TypeOK, Holding
  <2> QED  BY <2>3, <2>4, <1>5 DEF Return, TypeOK, fates, budgets
<1>6. CASE Record(c)
  <2>1. call' \in [Calls -> Tasks]  BY <1>6, HeldMoves DEF Record, Holding
  <2> QED  BY <2>1, <1>6 DEF Record, TypeOK, history, fates, budgets
<1>7. CASE RecordFails(c)
  <2>1. call' \in [Calls -> Tasks]  BY <1>7, HeldMoves DEF RecordFails, Holding
  <2>2. unsaved' \in SUBSET Jobs  BY <1>7, <1>h DEF RecordFails, TypeOK, Holding
  <2> QED  BY <2>1, <2>2, <1>7 DEF RecordFails, TypeOK, fates
<1>8. CASE Complete(c)
  <2>1. job' \in [Jobs -> Rows]  BY <1>8, ZenonT(60) DEF Complete, TypeOK, Rows, Statuses
  <2> QED  BY <2>1, <1>l, <1>8 DEF Complete, TypeOK, history, fates, budgets
<1>9. CASE Fail(c)
  <2>0. job \in [Jobs -> Rows] /\ call[c].id \in Jobs  BY <1>9, <1>h DEF Fail, TypeOK, Holding
  <2>1. job' \in [Jobs -> Rows]
    <3> {"queued", "dead_letter"} \subseteq Statuses  BY DEF Statuses
    <3>1. CASE Exists(call[c].id) /\ ~Exhausted(c)
      <4>1. job' = [job EXCEPT ![call[c].id].status = "queued", ![call[c].id].due = FALSE]
        BY <3>1, <1>9 DEF Fail
      <4> QED  BY <4>1, <2>0 DEF Rows
    <3>2. CASE ~Exists(call[c].id) \/ Exhausted(c)
      BY <3>2, <2>0, <1>9 DEF Fail, Rows
    <3> QED  BY <3>1, <3>2
  <2> QED  BY <2>1, <1>l, <1>9 DEF Fail, TypeOK, history, fates, budgets
<1>10. CASE Leave(c)
  <2>1. call' \in [Calls -> Tasks] /\ running' \in [Workers -> SUBSET Jobs]
    BY <1>10, <1>w DEF Leave, TypeOK, Tasks
  <2> QED  BY <2>1, <1>10 DEF Leave, TypeOK, history, fates, budgets
<1> QED
  BY <1>1, <1>2, <1>3, <1>4, <1>5, <1>6, <1>7, <1>8, <1>9, <1>10 DEF Progress

LEMMA TypeStep == ASSUME TypeOK, [Next]_vars  PROVE TypeOK'
<1>1. ASSUME NEW i \in Jobs, BecomeDue(i)  PROVE TypeOK'
  <2>1. job' \in [Jobs -> Rows]  BY <1>1 DEF BecomeDue, TypeOK, Rows
  <2> QED  BY <2>1, <1>1 DEF BecomeDue, TypeOK, history, fates, budgets
<1>2. CASE UNCHANGED vars  BY <1>2 DEF vars, TypeOK
<1> QED  BY <1>1, <1>2, ConsoleType, InstanceType, CallType DEF Next

\* Every reachable state of the job queue is well typed.
THEOREM TypeCorrect == Spec => []TypeOK
<1>1. Init => TypeOK
  BY RowTypes DEF Init, TypeOK, Tasks
<1>2. TypeOK /\ [Next]_vars => TypeOK'  BY TypeStep
<1> QED  BY <1>1, <1>2, PTL DEF Spec

-----------------------------------------------------------------------------
(* Who holds a job                                                           *)

\* A call that moves on with its job, and one that ends: what the others hold
\* stays as it was.
LEMMA Moves ==
  ASSUME TypeOK, NEW c \in Calls, call[c].stage \in Holding, NEW s \in Holding,
         call' = [call EXCEPT ![c].stage = s]
  PROVE  /\ \A i \in Jobs : CallsOf(i)' = CallsOf(i)
         /\ \A d \in Calls : /\ call'[d].id = call[d].id /\ call'[d].attempt = call[d].attempt
                             /\ call'[d].max = call[d].max
                             /\ call'[d].stage = IF d = c THEN s ELSE call[d].stage
<1>1. \A d \in Calls : call[d] \in Tasks  BY DEF TypeOK
<1>2. call[c] \in HeldTasks /\ call \in [Calls -> Tasks]  BY HeldTask DEF TypeOK
<1>3. \A d \in Calls : /\ call'[d].id = call[d].id /\ call'[d].attempt = call[d].attempt
                       /\ call'[d].max = call[d].max
                       /\ call'[d].stage = IF d = c THEN s ELSE call[d].stage
  BY <1>2 DEF HeldTasks
<1>4. \A i \in Jobs : CallsOf(i)' = CallsOf(i)  BY <1>3 DEF CallsOf
<1> QED  BY <1>3, <1>4

\* A call that writes the outcome holds its job no longer.
LEMMA Lets ==
  ASSUME TypeOK, NEW c \in Calls, call[c].stage \in Holding,
         call' = [call EXCEPT ![c].stage = "leaving"]
  PROVE  /\ \A i \in Jobs : CallsOf(i)' = CallsOf(i) \ {c}
         /\ \A d \in Calls \ {c} : call'[d] = call[d]
         /\ call'[c].stage = "leaving" /\ call'[c].stage \notin Holding
         /\ call'[c].id = call[c].id
<1>1. call[c] \in HeldTasks /\ call \in [Calls -> Tasks]  BY HeldTask DEF TypeOK
<1>2. \A d \in Calls \ {c} : call'[d] = call[d]  BY <1>1
<1>3. call'[c].stage = "leaving" /\ call'[c].id = call[c].id  BY <1>1 DEF HeldTasks
<1>4. "leaving" \notin Holding  BY DEF Holding
<1>5. \A i \in Jobs : CallsOf(i)' = CallsOf(i) \ {c}  BY <1>2, <1>3, <1>4 DEF CallsOf
<1> QED  BY <1>2, <1>3, <1>4, <1>5

LEMMA Ends ==
  ASSUME TypeOK, NEW c \in Calls, call' = [call EXCEPT ![c] = Idle]
  PROVE  /\ \A i \in Jobs : CallsOf(i)' = CallsOf(i) \ {c}
         /\ \A d \in Calls \ {c} : call'[d] = call[d]
         /\ call'[c] = Idle /\ call'[c].stage \notin Holding
<1>1. call \in [Calls -> Tasks]  BY DEF TypeOK
<1>2. \A d \in Calls \ {c} : call'[d] = call[d]  BY <1>1
<1>3. call'[c] = Idle /\ call'[c].stage \notin Holding  BY <1>1 DEF Idle, Holding
<1>4. \A i \in Jobs : CallsOf(i)' = CallsOf(i) \ {c}  BY <1>2, <1>3 DEF CallsOf
<1> QED  BY <1>2, <1>3, <1>4

\* A claim puts the job into the hands of the call, which held nothing.
LEMMA Claims ==
  ASSUME TypeOK, NEW c \in Calls, call[c].stage = "claiming", NEW i \in Due,
         call' = [call EXCEPT ![c] =
           [stage |-> "claimed", id |-> i, attempt |-> job[i].attempts + 1,
            max |-> job[i].max]]
  PROVE  /\ \A j \in Jobs : /\ c \notin CallsOf(j)
                            /\ CallsOf(j)' = IF j = i THEN CallsOf(j) \cup {c} ELSE CallsOf(j)
         /\ \A d \in Calls \ {c} : call'[d] = call[d]
         /\ call'[c].stage = "claimed" /\ call'[c].id = i
         /\ call'[c].attempt = job[i].attempts + 1 /\ call'[c].max = job[i].max
<1>1. call \in [Calls -> Tasks]  BY DEF TypeOK
<1>2. \A d \in Calls \ {c} : call'[d] = call[d]  BY <1>1
<1>3. /\ call'[c].stage = "claimed" /\ call'[c].id = i
      /\ call'[c].attempt = job[i].attempts + 1 /\ call'[c].max = job[i].max
  BY <1>1
<1>4. \A j \in Jobs : c \notin CallsOf(j)  BY DEF CallsOf, Holding
<1>5. ASSUME NEW j \in Jobs
      PROVE  CallsOf(j)' = IF j = i THEN CallsOf(j) \cup {c} ELSE CallsOf(j)
  BY <1>2, <1>3, <1>4 DEF CallsOf, Holding
<1> QED  BY <1>2, <1>3, <1>4, <1>5

\* An instance that ends takes its calls with it.
LEMMA Dies ==
  ASSUME TypeOK, NEW w \in Workers, Die(w)
  PROVE  /\ \A i \in Jobs : CallsOf(i)' = CallsOf(i) \ {c \in Calls : c[1] = w}
         /\ \A d \in Calls : IF d[1] = w THEN call'[d] = Idle /\ call'[d].stage \notin Holding
                                         ELSE call'[d] = call[d]
<1>1. \A d \in Calls : IF d[1] = w THEN call'[d] = Idle /\ call'[d].stage \notin Holding
                                   ELSE call'[d] = call[d]
  BY DEF Die, TypeOK, Idle, Holding
<1>2. \A i \in Jobs : CallsOf(i)' = CallsOf(i) \ {c \in Calls : c[1] = w}
  BY <1>1 DEF CallsOf
<1> QED  BY <1>1, <1>2

\* A call that has left runningJobs held nothing any more.
LEMMA Leaves ==
  ASSUME TypeOK, NEW c \in Calls, Leave(c)
  PROVE  /\ \A i \in Jobs : CallsOf(i)' = CallsOf(i)
         /\ \A d \in Calls \ {c} : call'[d] = call[d]
         /\ call'[c] = Idle /\ call'[c].stage \notin Holding
<1>1. /\ \A i \in Jobs : CallsOf(i)' = CallsOf(i) \ {c}
      /\ \A d \in Calls \ {c} : call'[d] = call[d]
      /\ call'[c] = Idle /\ call'[c].stage \notin Holding
  BY Ends DEF Leave
<1>2. \A i \in Jobs : c \notin CallsOf(i)  BY DEF Leave, CallsOf, Holding
<1> QED  BY <1>1, <1>2

\* An outcome ends the hold and changes the status of its job alone.
LEMMA Settles ==
  ASSUME TypeOK, NEW c \in Calls, Complete(c) \/ Fail(c)
  PROVE  /\ call[c].stage = IF Complete(c) THEN "ok" ELSE "error"
         /\ call[c].stage \in Holding /\ call[c].id \in Jobs
         /\ call' = [call EXCEPT ![c].stage = "leaving"]
         /\ \A j \in Jobs :
              /\ job'[j].max = job[j].max /\ job'[j].attempts = job[j].attempts
              /\ job'[j].status =
                   IF j # call[c].id \/ ~Exists(j) THEN job[j].status
                   ELSE IF call[c].stage = "ok" THEN "completed"
                   ELSE IF Exhausted(c) THEN "dead_letter" ELSE "queued"
<1>1. /\ call[c].stage = IF Complete(c) THEN "ok" ELSE "error"
      /\ call[c].stage \in Holding
      /\ call' = [call EXCEPT ![c].stage = "leaving"]
  BY DEF Complete, Fail, Holding
<1>2. call[c].id \in Jobs  BY <1>1, HeldTask DEF HeldTasks
<1>3. job \in [Jobs -> Rows]  BY DEF TypeOK
<1>4. CASE Fail(c) /\ Exists(call[c].id) /\ ~Exhausted(c)
  <2>1. job' = [job EXCEPT ![call[c].id].status = "queued", ![call[c].id].due = FALSE]
    BY <1>4 DEF Fail
  <2>2. call[c].stage = "error"  BY <1>4 DEF Fail
  <2> QED  BY <2>1, <2>2, <1>4, <1>1, <1>2, <1>3 DEF Rows, Exists
<1>5. CASE Fail(c) /\ ~(Exists(call[c].id) /\ ~Exhausted(c))
  <2>1. job' = IF Exists(call[c].id) THEN [job EXCEPT ![call[c].id].status = "dead_letter"] ELSE job
    BY <1>5 DEF Fail
  <2>2. call[c].stage = "error"  BY <1>5 DEF Fail
  <2> QED  BY <2>1, <2>2, <1>5, <1>1, <1>2, <1>3 DEF Rows, Exists
<1>6. CASE Complete(c)
  <2>1. job' = IF Exists(call[c].id) THEN [job EXCEPT ![call[c].id].status = "completed"] ELSE job
    BY <1>6 DEF Complete
  <2> QED  BY <2>1, <1>6, <1>1, <1>2, <1>3 DEF Rows, Exists, Complete
<1> QED  BY <1>4, <1>5, <1>6

-----------------------------------------------------------------------------
(* The rows of a deleted function are gone, and only they                    *)

\* A call holds a row that exists, with the limit it was enqueued with, or the
\* function, and every row with it, was deleted.
Cascade ==
  /\ target = "deleted" => \A i \in Jobs : ~Exists(i)
  /\ \A c \in Calls : call[c].stage \in Holding =>
       IF Exists(call[c].id) THEN call[c].max = job[call[c].id].max ELSE target = "deleted"

\* What a step that keeps calls, limits and existence does to Cascade: nothing.
LEMMA CascadeKept ==
  ASSUME TypeOK, Cascade, TypeOK', UNCHANGED target,
         \A i \in Jobs : Exists(i)' = Exists(i) /\ (Exists(i) => job'[i].max = job[i].max),
         \A c \in Calls : call'[c].stage \in Holding =>
           call[c].stage \in Holding /\ call'[c].id = call[c].id /\ call'[c].max = call[c].max
  PROVE  Cascade'
<1>1. ASSUME NEW c \in Calls, call[c].stage \in Holding  PROVE call[c].id \in Jobs
  BY <1>1, HeldTask DEF HeldTasks
<1> QED  BY <1>1 DEF Cascade, Exists

LEMMA CascadeStep == ASSUME TypeOK, Cascade, [Next]_vars  PROVE Cascade'
<1>t. TypeOK'  BY TypeStep
<1>h. \A c \in Calls : call[c].stage \in Holding => call[c].id \in Jobs
  BY HeldTask DEF HeldTasks
<1>1. CASE Deploy  BY <1>1 DEF Deploy, Cascade, Exists
<1>2. CASE DeleteFunction
  BY <1>2, <1>h DEF DeleteFunction, Cascade, Exists, Absent
<1>3. ASSUME NEW i \in Jobs, Enqueue(i)  PROVE Cascade'
  <2>1. \A j \in Jobs \ {i} : job'[j] = job[j]  BY <1>3 DEF Enqueue, TypeOK
  <2>2. \A c \in Calls : call[c].stage \in Holding => call[c].id # i
    BY <1>3 DEF Enqueue, Cascade
  <2> QED  BY <2>1, <2>2, <1>3, <1>h DEF Enqueue, Cascade, Exists
<1>4. ASSUME NEW i \in Jobs, Retry(i)  PROVE Cascade'
  <2>1. \A j \in Jobs : Exists(j)' = Exists(j) /\ job'[j].max = job[j].max
    BY <1>4 DEF Retry, Exists, TypeOK, Rows
  <2> QED  BY <2>1, <1>4, <1>t, CascadeKept DEF Retry
<1>5. ASSUME NEW w \in Workers, Start(w)  PROVE Cascade'
  <2>1. \A j \in Jobs : Exists(j)' = Exists(j) /\ job'[j].max = job[j].max
    BY <1>5 DEF Start, Interrupted, Processing, Exists, TypeOK, Rows
  <2> QED  BY <2>1, <1>5, <1>t, CascadeKept DEF Start
<1>6. ASSUME NEW w \in Workers, Stop(w)  PROVE Cascade'
  BY <1>6 DEF Stop, Cascade, Exists
<1>7. ASSUME NEW w \in Workers, Die(w)  PROVE Cascade'
  BY <1>7, Dies DEF Die, Cascade, Exists
<1>8. ASSUME NEW c \in Calls, Begin(c)  PROVE Cascade'
  BY <1>8 DEF Begin, Cascade, Exists, Claiming, Idle, Holding, TypeOK
<1>9. ASSUME NEW c \in Calls, Claim(c)  PROVE Cascade'
  <2>1. CASE call' = [call EXCEPT ![c] = Idle] /\ UNCHANGED job
    BY <2>1, <1>9, <1>t, Ends, CascadeKept DEF Claim, Exists
  <2>2. ASSUME NEW i \in Due,
               job' = [job EXCEPT ![i].status = "processing", ![i].attempts = @ + 1],
               call' = [call EXCEPT ![c] =
                 [stage |-> "claimed", id |-> i, attempt |-> job[i].attempts + 1,
                  max |-> job[i].max]]
        PROVE  Cascade'
    <3>1. \A j \in Jobs : Exists(j)' = Exists(j) /\ job'[j].max = job[j].max
      BY <2>2 DEF Due, Exists, TypeOK, Rows
    <3>2. /\ \A d \in Calls \ {c} : call'[d] = call[d]
          /\ call'[c].id = i /\ call'[c].max = job[i].max
      BY <2>2, <1>9, Claims DEF Claim
    <3>3. i \in Jobs /\ Exists(i)  BY DEF Due, Exists
    <3> QED  BY <3>1, <3>2, <3>3, <1>9, <1>h DEF Cascade, Claim
  <2> QED  BY <2>1, <2>2, <1>9 DEF Claim
<1>10. ASSUME NEW c \in Calls, Complete(c) \/ Fail(c)  PROVE Cascade'
  <2>1. UNCHANGED target  BY <1>10 DEF Complete, Fail
  <2>2. \A j \in Jobs : Exists(j)' = Exists(j) /\ job'[j].max = job[j].max
    BY <1>10, Settles DEF Exists
  <2>3. \A d \in Calls : call'[d].stage \in Holding => call'[d] = call[d]
    BY <1>10, Settles, Lets
  <2> QED  BY <2>1, <2>2, <2>3, <1>t, CascadeKept
<1>11. ASSUME NEW c \in Calls,
              Take(c) \/ Invoke(c) \/ Return(c) \/ Record(c) \/ RecordFails(c) \/ Leave(c)
       PROVE  Cascade'
  <2>1. UNCHANGED <<target, job>>
    BY <1>11 DEF Take, Invoke, Return, Record, RecordFails, Leave
  <2>2. \/ call' = [call EXCEPT ![c] = Idle]
        \/ \E s \in Holding : call[c].stage \in Holding /\ call' = [call EXCEPT ![c].stage = s]
    BY <1>11 DEF Take, Invoke, Return, Record, RecordFails, Leave, Holding
  <2> QED  BY <2>1, <2>2, <1>t, Ends, Moves, CascadeKept DEF Exists
<1>12. ASSUME NEW i \in Jobs, BecomeDue(i)  PROVE Cascade'
  <2>1. \A j \in Jobs : Exists(j)' = Exists(j) /\ job'[j].max = job[j].max
    BY <1>12 DEF BecomeDue, Exists, TypeOK, Rows
  <2> QED  BY <2>1, <1>12, <1>t, CascadeKept DEF BecomeDue
<1>13. CASE UNCHANGED vars  BY <1>13 DEF vars, Cascade, Exists
<1> QED
  BY <1>1, <1>2, <1>3, <1>4, <1>5, <1>6, <1>7, <1>8, <1>9, <1>10, <1>11, <1>12, <1>13
  DEF Next, Console, Progress, Exit, Crash

-----------------------------------------------------------------------------
(* The job queue is a lease queue                                            *)

\* A deleted function's jobs are all removed; otherwise a place is a status.
LEMMA Places ==
  ASSUME TypeOK, Cascade
  PROVE  \A i \in Jobs :
           /\ target = "deleted" => PlaceOf(i) = "removed" /\ job[i].status = "absent"
           /\ target # "deleted" =>
                /\ PlaceOf(i) = "absent" <=> job[i].status = "absent"
                /\ PlaceOf(i) = "waiting" <=> job[i].status = "queued"
                /\ PlaceOf(i) = "claimed" <=> job[i].status = "processing"
                /\ PlaceOf(i) = "done" <=> job[i].status = "completed"
                /\ PlaceOf(i) = "dead" <=> job[i].status = "dead_letter"
                /\ PlaceOf(i) # "removed"
<1> SUFFICES ASSUME NEW i \in Jobs
             PROVE  /\ target = "deleted" => PlaceOf(i) = "removed" /\ job[i].status = "absent"
                    /\ target # "deleted" =>
                         /\ PlaceOf(i) = "absent" <=> job[i].status = "absent"
                         /\ PlaceOf(i) = "waiting" <=> job[i].status = "queued"
                         /\ PlaceOf(i) = "claimed" <=> job[i].status = "processing"
                         /\ PlaceOf(i) = "done" <=> job[i].status = "completed"
                         /\ PlaceOf(i) = "dead" <=> job[i].status = "dead_letter"
                         /\ PlaceOf(i) # "removed"
  OBVIOUS
<1>1. job[i].status \in Statuses  BY DEF TypeOK, Rows
<1> QED  BY <1>1 DEF Cascade, Exists, PlaceOf, Statuses

\* What a place is depends on the function and the job's status only.
LEMMA PlaceKept ==
  ASSUME NEW i \in Jobs, UNCHANGED target, job'[i].status = job[i].status
  PROVE  PlaceOf(i)' = PlaceOf(i)
BY DEF PlaceOf

\* A step that keeps the statuses, the calls that hold a job and the resets.
LEMMA Stutters ==
  ASSUME \A i \in Jobs : PlaceOf(i)' = PlaceOf(i) /\ CallsOf(i)' = CallsOf(i),
         UNCHANGED reset
  PROVE  UNCHANGED Lease!leaseVars
BY DEF Lease!leaseVars

\* Every step of the queue is one of the lease queue, or none.
LEMMA LeaseStep ==
  ASSUME TypeOK, Cascade, [Next]_vars
  PROVE  [Lease!LeaseNext]_(Lease!leaseVars)
<1>t. TypeOK' /\ Cascade'  BY TypeStep, CascadeStep
<1>1. CASE Deploy
  <2>1. \A i \in Jobs : PlaceOf(i)' = PlaceOf(i)  BY <1>1 DEF Deploy, PlaceOf
  <2> QED  BY <2>1, <1>1, Stutters DEF Deploy, CallsOf, history, fates
<1>2. CASE DeleteFunction
  <2>1. \A i \in Jobs : PlaceOf(i)' = "removed"  BY <1>2 DEF DeleteFunction, PlaceOf
  <2>2. Lease!Remove  BY <2>1, <1>2 DEF Lease!Remove, DeleteFunction, CallsOf, history, fates
  <2> QED  BY <2>2 DEF Lease!LeaseNext
<1>3. ASSUME NEW i \in Jobs, Enqueue(i)  PROVE Lease!Offer(i)
  <2>1. /\ target # "deleted" /\ target' = target /\ reset' = reset /\ call' = call
        /\ job[i].status = "absent" /\ job'[i].status = "queued"
        /\ \A j \in Jobs \ {i} : job'[j] = job[j]
    BY <1>3 DEF Enqueue, TypeOK, Exists, history, fates
  <2>2. PlaceOf(i) = "absent" /\ PlaceOf(i)' = "waiting"  BY <2>1 DEF PlaceOf
  <2>3. \A j \in Jobs \ {i} : PlaceOf(j)' = PlaceOf(j)  BY <2>1, PlaceKept
  <2> QED  BY <2>1, <2>2, <2>3 DEF Lease!Offer, CallsOf
<1>4. ASSUME NEW i \in Jobs, Retry(i)  PROVE Lease!Retry(i)
  <2>1. /\ target' = target /\ reset' = reset /\ call' = call
        /\ job[i].status = "dead_letter" /\ job'[i].status = "queued"
        /\ \A j \in Jobs \ {i} : job'[j] = job[j]
    BY <1>4 DEF Retry, TypeOK, Rows, history, fates
  <2>2. target # "deleted"  BY <2>1 DEF Cascade, Exists
  <2>3. PlaceOf(i) = "dead" /\ PlaceOf(i)' = "waiting"  BY <2>1, <2>2 DEF PlaceOf
  <2>4. \A j \in Jobs \ {i} : PlaceOf(j)' = PlaceOf(j)  BY <2>1, PlaceKept
  <2> QED  BY <2>1, <2>3, <2>4 DEF Lease!Retry, CallsOf
<1>5. ASSUME NEW w \in Workers, Start(w)  PROVE Lease!Lapse(Interrupted)
  <2>1. /\ target' = target /\ call' = call
        /\ \A i \in Jobs : /\ job'[i].status = IF i \in Interrupted THEN "queued" ELSE job[i].status
                           /\ reset'[i] = IF i \in Interrupted THEN reset[i] + 1 ELSE reset[i]
    BY <1>5 DEF Start, TypeOK, Rows
  <2>2. \A i \in Interrupted : i \in Jobs /\ job[i].status = "processing"
    BY DEF Interrupted, Processing
  <2>3. \A i \in Interrupted : target # "deleted"  BY <2>2 DEF Cascade, Exists
  <2>4. \A i \in Interrupted : PlaceOf(i) = "claimed" /\ PlaceOf(i)' = "waiting"
    BY <2>1, <2>2, <2>3 DEF PlaceOf
  <2>5. \A i \in Jobs \ Interrupted : PlaceOf(i)' = PlaceOf(i)  BY <2>1, PlaceKept
  <2>6. reset' = [i \in Jobs |-> IF i \in Interrupted THEN reset[i] + 1 ELSE reset[i]]
    BY <1>5 DEF Start
  <2> QED  BY <2>1, <2>2, <2>4, <2>5, <2>6 DEF Lease!Lapse, CallsOf
<1>6. ASSUME NEW w \in Workers, Stop(w)  PROVE UNCHANGED Lease!leaseVars
  BY <1>6, Stutters, PlaceKept DEF Stop, CallsOf, history, fates
<1>7. ASSUME NEW w \in Workers, Die(w)
      PROVE  Lease!Release({c \in Calls : c[1] = w}, Jobs)
  <2>1. \A i \in Jobs : PlaceOf(i)' = PlaceOf(i)  BY <1>7, PlaceKept DEF Die
  <2>2. \A i \in Jobs : CallsOf(i)' = CallsOf(i) \ {c \in Calls : c[1] = w}  BY <1>7, Dies
  <2> QED  BY <2>1, <2>2, <1>7 DEF Lease!Release, Die, history, fates
<1>8. ASSUME NEW c \in Calls, Begin(c)  PROVE UNCHANGED Lease!leaseVars
  <2>1. \A i \in Jobs : CallsOf(i)' = CallsOf(i)
    BY <1>8 DEF Begin, CallsOf, TypeOK, Claiming, Idle, Holding
  <2> QED  BY <2>1, <1>8, Stutters, PlaceKept DEF Begin, history, fates
<1>9. ASSUME NEW c \in Calls, Claim(c)
      PROVE  Lease!LeaseNext \/ UNCHANGED Lease!leaseVars
  <2>1. CASE call' = [call EXCEPT ![c] = Idle] /\ UNCHANGED job
    <3>1. \A i \in Jobs : c \notin CallsOf(i)  BY <1>9 DEF Claim, CallsOf, Holding
    <3>2. /\ \A d \in Calls \ {c} : call'[d] = call[d]
          /\ call'[c] = Idle /\ Idle.stage \notin Holding
      BY <2>1 DEF TypeOK, Idle, Holding
    <3>3. \A i \in Jobs : CallsOf(i)' = CallsOf(i)  BY <3>1, <3>2 DEF CallsOf
    <3> QED  BY <2>1, <3>3, <1>9, Stutters, PlaceKept DEF Claim, history, fates
  <2>2. ASSUME NEW i \in Due,
               job' = [job EXCEPT ![i].status = "processing", ![i].attempts = @ + 1],
               call' = [call EXCEPT ![c] =
                 [stage |-> "claimed", id |-> i, attempt |-> job[i].attempts + 1,
                  max |-> job[i].max]]
        PROVE  Lease!Claim(c, {i})
    <3>1. /\ target' = target /\ reset' = reset /\ i \in Jobs
          /\ job[i].status = "queued" /\ job'[i].status = "processing"
          /\ \A j \in Jobs \ {i} : job'[j] = job[j]
      BY <2>2, <1>9 DEF Claim, Due, TypeOK, Rows, history, fates
    <3>2. target # "deleted"  BY <3>1 DEF Cascade, Exists
    <3>3. PlaceOf(i) = "waiting" /\ PlaceOf(i)' = "claimed"  BY <3>1, <3>2 DEF PlaceOf
    <3>4. \A j \in Jobs \ {i} : PlaceOf(j)' = PlaceOf(j)  BY <3>1, PlaceKept
    <3>5. \A j \in Jobs : CallsOf(j)' = IF j = i THEN CallsOf(j) \cup {c} ELSE CallsOf(j)
      <4>1. call[c].stage = "claiming"  BY <1>9 DEF Claim
      <4>2. /\ \A d \in Calls \ {c} : call'[d] = call[d]
            /\ call'[c].stage = "claimed" /\ call'[c].id = i
        BY <4>1, <2>2, Claims
      <4> QED  BY <4>1, <4>2 DEF CallsOf, Holding
    <3> QED  BY <3>1, <3>3, <3>4, <3>5 DEF Lease!Claim
  <2>3. ASSUME NEW i \in Due, Lease!Claim(c, {i})  PROVE Lease!LeaseNext
    <3>1. {i} \in SUBSET Jobs  BY DEF Due
    <3> QED  BY <2>3, <3>1 DEF Lease!LeaseNext
  <2> QED  BY <2>1, <2>2, <2>3, <1>9 DEF Claim
<1>10. ASSUME NEW c \in Calls, Complete(c) \/ Fail(c)  PROVE Lease!LeaseNext
  <2> PICK i \in Jobs : i = call[c].id  BY <1>10, Settles
  <2>1. /\ call[c].stage \in Holding
        /\ \A j \in Jobs \ {i} : job'[j].status = job[j].status
        /\ ~Exists(i) => job'[i].status = job[i].status
        /\ Exists(i) => job'[i].status \in {"completed", "dead_letter", "queued"}
        /\ target' = target /\ reset' = reset
        /\ \A j \in Jobs : CallsOf(j)' = CallsOf(j) \ {c}
    BY <1>10, Settles, Lets, ZenonT(60) DEF Complete, Fail, history
  <2>2. \A j \in Jobs \ {i} : PlaceOf(j)' = PlaceOf(j) /\ c \notin CallsOf(j)
    BY <2>1, PlaceKept DEF CallsOf
  <2>3. c \in CallsOf(i)  BY <2>1 DEF CallsOf
  <2>4. CASE ~Exists(i)
    <3>1. PlaceOf(i)' = PlaceOf(i)  BY <2>1, <2>4, PlaceKept
    <3>2. Lease!Release({c}, Jobs)
      BY <3>1, <2>1, <2>2 DEF Lease!Release, CallsOf
    <3> QED  BY <3>2 DEF Lease!LeaseNext
  <2>5. CASE Exists(i)
    <3>1. target # "deleted" /\ PlaceOf(i) # "removed"
      BY <2>1, <2>5, Places DEF Cascade
    <3>2. PlaceOf(i)' \in {"done", "waiting", "dead"}  BY <2>1, <2>5, <3>1 DEF PlaceOf
    <3>3. PICK outcome \in {"done", "waiting", "dead"} : PlaceOf(i)' = outcome  BY <3>2
    <3>4. [j \in Jobs |-> PlaceOf(j)]' = [[j \in Jobs |-> PlaceOf(j)] EXCEPT ![i] = outcome]
      BY <2>2, <3>3
    <3>5. [j \in Jobs |-> CallsOf(j)]' = [[j \in Jobs |-> CallsOf(j)] EXCEPT ![i] = @ \ {c}]
      <4>1. /\ \A d \in Calls \ {c} : call'[d] = call[d]
            /\ call'[c].stage \notin Holding
        BY <1>10, Settles, Lets
      <4>2. \A j \in Jobs : CallsOf(j)' = IF j = i THEN CallsOf(j) \ {c} ELSE CallsOf(j)
        BY <4>1 DEF CallsOf
      <4> QED  BY <4>2
    <3>6. Lease!Report(c, i, outcome)
      BY <2>1, <2>3, <3>1, <3>4, <3>5 DEF Lease!Report
    <3> QED  BY <3>6 DEF Lease!LeaseNext
  <2> QED  BY <2>4, <2>5
<1>11. ASSUME NEW c \in Calls,
              Take(c) \/ Invoke(c) \/ Return(c) \/ Record(c) \/ RecordFails(c) \/ Leave(c)
       PROVE  Lease!LeaseNext \/ UNCHANGED Lease!leaseVars
  <2>1. UNCHANGED <<target, job, reset>>
    BY <1>11 DEF Take, Invoke, Return, Record, RecordFails, Leave, history
  <2>2. \A i \in Jobs : PlaceOf(i)' = PlaceOf(i)  BY <2>1, PlaceKept
  <2>3. CASE call' = [call EXCEPT ![c] = Idle]
    <3>1. Lease!Release({c}, Jobs)  BY <2>1, <2>2, <2>3, Ends DEF Lease!Release
    <3> QED  BY <3>1 DEF Lease!LeaseNext
  <2>4. CASE \E s \in Holding : call[c].stage \in Holding /\ call' = [call EXCEPT ![c].stage = s]
    BY <2>1, <2>2, <2>4, Moves, Stutters
  <2> QED  BY <2>3, <2>4, <1>11 DEF Take, Invoke, Return, Record, RecordFails, Leave, Holding
<1>12. ASSUME NEW i \in Jobs, BecomeDue(i)  PROVE UNCHANGED Lease!leaseVars
  <2>1. \A j \in Jobs : job'[j].status = job[j].status
    BY <1>12 DEF BecomeDue, TypeOK, Rows
  <2> QED  BY <2>1, <1>12, Stutters, PlaceKept DEF BecomeDue, CallsOf, history, fates
<1>13. CASE UNCHANGED vars
  BY <1>13, Stutters, PlaceKept DEF vars, CallsOf
<1>14. Interrupted \in SUBSET Jobs  BY DEF Interrupted, Processing
<1>15. \A w \in Workers : {c \in Calls : c[1] = w} \in SUBSET Calls /\ Jobs \in SUBSET Jobs
  OBVIOUS
<1>16. \/ \E i \in Jobs : Lease!Offer(i) \/ Lease!Retry(i)
       \/ \E S \in SUBSET Jobs : Lease!Lapse(S)
       \/ \E H \in SUBSET Calls, S \in SUBSET Jobs : Lease!Release(H, S)
       => Lease!LeaseNext
  BY DEF Lease!LeaseNext
<1> QED
  BY <1>1, <1>2, <1>3, <1>4, <1>5, <1>6, <1>7, <1>8, <1>9, <1>10, <1>11, <1>12, <1>13,
     <1>14, <1>15, <1>16
  DEF Next, Console, Progress, Exit, Crash

\* The job queue implements the lease queue: every behaviour of the processes
\* that share function_jobs is one LeaseQueue allows.
THEOREM JobsAreLeased == Spec => ImplementsLease
<1>1. Init => TypeOK /\ Cascade /\ Lease!LeaseInit
  <2> SUFFICES ASSUME Init  PROVE TypeOK /\ Cascade /\ Lease!LeaseInit  OBVIOUS
  <2>1. TypeOK  BY RowTypes DEF Init, TypeOK, Tasks
  <2>2. \A c \in Calls : call[c].stage \notin Holding  BY DEF Init, Idle, Holding
  <2>3. Cascade  BY <2>2 DEF Init, Cascade
  <2>4. \A i \in Jobs : PlaceOf(i) = "absent" /\ CallsOf(i) = {}
    BY <2>2 DEF Init, PlaceOf, CallsOf, Absent
  <2> QED  BY <2>1, <2>3, <2>4 DEF Init, Lease!LeaseInit
<1>2. TypeOK /\ Cascade /\ [Next]_vars =>
        TypeOK' /\ Cascade' /\ [Lease!LeaseNext]_(Lease!leaseVars)
  BY TypeStep, CascadeStep, LeaseStep
<1> QED  BY <1>1, <1>2, PTL DEF Spec, ImplementsLease, Lease!LeaseSpec

\* What LeaseQueueProofs shows of every lease queue, for this one.
Leases == INSTANCE LeaseQueueProofs WITH
  Items   <- Jobs,
  Holders <- Calls,
  item    <- [i \in Jobs |-> PlaceOf(i)],
  tickets <- [i \in Jobs |-> CallsOf(i)],
  lapses  <- reset

LEMMA CallsFinite == IsFiniteSet(Calls)
BY FiniteAssumption, FS_Product DEF Calls

\* A job is in one call's hands, and in one more for every start that requeued
\* it; a job that waits, or is dead, is in the hands of requeued calls only.
THEOREM JobTicketsBounded == Spec => []Lease!TicketsBounded
<1>1. Leases!LeaseSpec => []Leases!TicketsBounded
  <2>1. Leases!IsFiniteSet(Calls)  BY CallsFinite DEF IsFiniteSet, Leases!IsFiniteSet
  <2> QED  BY <2>1, Leases!TicketsStayBounded
<1>2. Spec => Lease!LeaseSpec  BY JobsAreLeased DEF ImplementsLease
<1>3. Lease!LeaseInit <=> Leases!LeaseInit  BY DEF Lease!LeaseInit, Leases!LeaseInit
<1>4. [Lease!LeaseNext]_(Lease!leaseVars) <=> [Leases!LeaseNext]_(Leases!leaseVars)
  BY DEF Lease!LeaseNext, Leases!LeaseNext, Lease!leaseVars, Leases!leaseVars,
     Lease!Release, Leases!Release, Lease!Offer, Leases!Offer, Lease!Retry, Leases!Retry,
     Lease!Claim, Leases!Claim, Lease!Report, Leases!Report, Lease!Lapse, Leases!Lapse,
     Lease!Remove, Leases!Remove
<1>5. Lease!TicketsBounded <=> Leases!TicketsBounded
  BY DEF Lease!TicketsBounded, Leases!TicketsBounded, Lease!Cardinality, Leases!Cardinality
<1> QED  BY <1>1, <1>2, <1>3, <1>4, <1>5, PTL DEF Lease!LeaseSpec, Leases!LeaseSpec

-----------------------------------------------------------------------------
(* A job in processing is in somebody's hands                                *)

Active == (Holding \ {"claimed"}) \cup {"leaving"}

\* runningJobs of an instance holds the jobs of its calls from taken on, until
\* they have left, each of them once.
RunningMirrors ==
  /\ \A w \in Workers : \A i \in running[w] :
       \E c \in Calls : c[1] = w /\ call[c].stage \in Active /\ call[c].id = i
  /\ \A c \in Calls : call[c].stage \in Active => call[c].id \in running[c[1]]
  /\ \A c, d \in Calls :
       /\ call[c].stage \in Active /\ call[d].stage \in Active
       /\ c[1] = d[1] /\ call[c].id = call[d].id
       => c = d

LEMMA RunningKept ==
  ASSUME RunningMirrors, UNCHANGED running,
         \A c \in Calls : /\ call'[c].stage \in Active <=> call[c].stage \in Active
                          /\ call[c].stage \in Active => call'[c].id = call[c].id
  PROVE  RunningMirrors'
BY DEF RunningMirrors

LEMMA RunningStep == ASSUME TypeOK, RunningMirrors, [Next]_vars  PROVE RunningMirrors'
<1>1. CASE UNCHANGED <<running, call>>  BY <1>1, RunningKept
<1>2. ASSUME NEW w \in Workers, Die(w)  PROVE RunningMirrors'
  <2>1. \A d \in Calls : IF d[1] = w THEN call'[d].stage \notin Active ELSE call'[d] = call[d]
    BY <1>2, Dies DEF Active, Idle, Holding
  <2>2. \A v \in Workers : running'[v] = IF v = w THEN {} ELSE running[v]
    BY <1>2 DEF Die, TypeOK
  <2>3. \A c \in Calls : c[1] \in Workers  BY DEF Calls
  <2> QED  BY <2>1, <2>2, <2>3 DEF RunningMirrors
<1>3. ASSUME NEW c \in Calls, Begin(c)  PROVE RunningMirrors'
  BY <1>3, RunningKept DEF Begin, TypeOK, Claiming, Idle, Active, Holding
<1>4. ASSUME NEW c \in Calls, Claim(c)  PROVE RunningMirrors'
  <2>1. UNCHANGED running /\ call[c].stage = "claiming"  BY <1>4 DEF Claim
  <2>2. \/ call' = [call EXCEPT ![c] = Idle]
        \/ \E i \in Due : call' = [call EXCEPT ![c] =
             [stage |-> "claimed", id |-> i, attempt |-> job[i].attempts + 1,
              max |-> job[i].max]]
    BY <1>4 DEF Claim
  <2>3. /\ \A d \in Calls \ {c} : call'[d] = call[d]
        /\ call'[c].stage \in {"none", "claimed"}
    BY <2>2 DEF TypeOK, Idle
  <2>4. {"none", "claiming", "claimed"} \cap Active = {}  BY DEF Active, Holding
  <2> QED  BY <2>1, <2>3, <2>4, RunningKept
<1>5. ASSUME NEW c \in Calls, Take(c)  PROVE RunningMirrors'
  <2>1. CASE HasIt(c)
    BY <1>5, <2>1, Ends, RunningKept DEF Take, Active, Idle, Holding
  <2>2. CASE ~HasIt(c)
    <3>1. /\ call' = [call EXCEPT ![c].stage = "taken"]
          /\ running' = [running EXCEPT ![c[1]] = @ \cup {call[c].id}]
          /\ call[c].stage = "claimed" /\ call[c].id \notin running[c[1]]
      BY <1>5, <2>2 DEF Take, HasIt
    <3>2. \A d \in Calls : /\ call'[d].id = call[d].id
                           /\ call'[d].stage = IF d = c THEN "taken" ELSE call[d].stage
      <4>1. "claimed" \in Holding /\ "taken" \in Holding  BY DEF Holding
      <4> QED  BY <3>1, <4>1, Moves
    <3>3. c[1] \in Workers /\ running \in [Workers -> SUBSET Jobs]  BY DEF Calls, TypeOK
    <3>4. \A v \in Workers : running'[v] = IF v = c[1] THEN running[v] \cup {call[c].id}
                                                       ELSE running[v]
      BY <3>1, <3>3
    <3>5. "taken" \in Active /\ "claimed" \notin Active  BY DEF Active, Holding
    <3>6. \A d \in Calls : d[1] \in Workers  BY DEF Calls
    <3>7. ASSUME NEW v \in Workers, NEW i \in running'[v]
          PROVE  \E d \in Calls : d[1] = v /\ call'[d].stage \in Active /\ call'[d].id = i
      <4>1. CASE i \in running[v]
        BY <3>2, <3>5, <4>1 DEF RunningMirrors
      <4>2. CASE i \notin running[v]
        <5>1. v = c[1] /\ i = call[c].id  BY <3>4, <3>7, <4>2
        <5> QED  BY <5>1, <3>2, <3>5
      <4> QED  BY <4>1, <4>2
    <3>8. ASSUME NEW d \in Calls, call'[d].stage \in Active
          PROVE  call'[d].id \in running'[d[1]]
      <4>1. CASE d = c  BY <4>1, <3>2, <3>3, <3>4
      <4>2. CASE d # c
        <5>1. call[d].id \in running[d[1]]  BY <3>8, <4>2, <3>2 DEF RunningMirrors
        <5> QED  BY <5>1, <3>2, <3>4, <3>6
      <4> QED  BY <4>1, <4>2
    <3>9. ASSUME NEW d \in Calls, d # c, call[d].stage \in Active, d[1] = c[1]
          PROVE  call[d].id # call[c].id
      BY <3>9, <3>1 DEF RunningMirrors
    <3>10. \A d, e \in Calls :
             /\ call'[d].stage \in Active /\ call'[e].stage \in Active
             /\ d[1] = e[1] /\ call'[d].id = call'[e].id
             => d = e
      BY <3>2, <3>9 DEF RunningMirrors
    <3> QED  BY <3>7, <3>8, <3>10 DEF RunningMirrors
  <2> QED  BY <2>1, <2>2
<1>6. ASSUME NEW c \in Calls, Invoke(c) \/ Return(c) \/ Record(c) \/ RecordFails(c)
      PROVE  RunningMirrors'
  <2>1. /\ UNCHANGED running /\ call[c].stage \in Holding \ {"claimed"}
        /\ \E s \in Holding \ {"claimed"} : call' = [call EXCEPT ![c].stage = s]
    BY <1>6 DEF Invoke, Return, Record, RecordFails, Holding
  <2> QED  BY <2>1, Moves, RunningKept DEF Active
<1>7. ASSUME NEW c \in Calls, Leave(c)  PROVE RunningMirrors'
  <2>1. /\ call' = [call EXCEPT ![c] = Idle] /\ call[c].stage \in Active
        /\ running' = [running EXCEPT ![c[1]] = @ \ {call[c].id}]
    BY <1>7 DEF Leave, Active
  <2>2. c[1] \in Workers /\ running \in [Workers -> SUBSET Jobs]  BY DEF Calls, TypeOK
  <2>3. \A v \in Workers : running'[v] = IF v = c[1] THEN running[v] \ {call[c].id}
                                                     ELSE running[v]
    BY <2>1, <2>2
  <2>4. /\ \A d \in Calls \ {c} : call'[d] = call[d]
        /\ call'[c].stage \notin Active
    <3>1. Idle.stage \notin Active  BY DEF Active, Idle, Holding
    <3> QED  BY <2>1, <3>1, Ends
  <2>5. \A d \in Calls : d[1] \in Workers  BY DEF Calls
  <2>6. ASSUME NEW v \in Workers, NEW i \in running'[v]
        PROVE  \E d \in Calls : d[1] = v /\ call'[d].stage \in Active /\ call'[d].id = i
    <3>1. i \in running[v]  BY <2>3, <2>6
    <3>2. PICK d \in Calls : d[1] = v /\ call[d].stage \in Active /\ call[d].id = i
      BY <3>1 DEF RunningMirrors
    <3>3. d # c  BY <2>3, <2>6, <3>2
    <3> QED  BY <3>2, <3>3, <2>4
  <2>7. ASSUME NEW d \in Calls, call'[d].stage \in Active  PROVE call'[d].id \in running'[d[1]]
    <3>1. d # c /\ call'[d] = call[d]  BY <2>4, <2>7
    <3>2. call[d].id \in running[d[1]]  BY <2>7, <3>1 DEF RunningMirrors
    <3>3. d[1] = c[1] => call[d].id # call[c].id
      BY <2>1, <2>7, <3>1 DEF RunningMirrors
    <3> QED  BY <2>3, <2>5, <3>1, <3>2, <3>3
  <2> QED  BY <2>4, <2>6, <2>7 DEF RunningMirrors
<1>8. ASSUME NEW c \in Calls, Complete(c) \/ Fail(c)  PROVE RunningMirrors'
  <2>1. UNCHANGED running /\ call[c].stage \in Active
    BY <1>8 DEF Complete, Fail, Active, Holding
  <2>2. /\ \A d \in Calls \ {c} : call'[d] = call[d]
        /\ call'[c].stage = "leaving" /\ call'[c].id = call[c].id
    BY <1>8, Settles, Lets
  <2> QED  BY <2>1, <2>2, RunningKept DEF Active
<1> QED
  BY <1>1, <1>2, <1>3, <1>4, <1>5, <1>6, <1>7, <1>8
  DEF Next, Console, Progress, Exit, Crash, vars, Deploy, DeleteFunction, Enqueue, Retry,
      Start, Stop, BecomeDue

\* What the lemmas below share: the calls, the rows and runningJobs fit.
QueueInv == TypeOK /\ Cascade /\ RunningMirrors

\* A holder keeps the job in processing in hand: one that gives it up without
\* settling it dies, or has been dropped by its instance, which then runs the
\* job in another call or has one that is leaving.
LEMMA InHandStep ==
  ASSUME QueueInv, ProcessingIsInHand, [Next]_vars  PROVE ProcessingIsInHand'
<1> USE DEF QueueInv
<1> SUFFICES ASSUME NEW i \in Jobs, job'[i].status = "processing"
             PROVE  CallsOf(i)' # {} \/ i \in lost' \/ i \in dropped'
  BY DEF ProcessingIsInHand, Processing
<1>i. job[i].status = "processing" => CallsOf(i) # {} \/ i \in lost \/ i \in dropped
  BY DEF ProcessingIsInHand, Processing
<1>1. CASE UNCHANGED <<call, fates>> /\ job[i].status = "processing"
  BY <1>1, <1>i DEF CallsOf, fates
<1>2. ASSUME NEW j \in Jobs, Enqueue(j) \/ Retry(j) \/ BecomeDue(j)
      PROVE  UNCHANGED <<call, fates>> /\ job[i].status = "processing"
  <2>1. job \in [Jobs -> Rows]  BY DEF TypeOK
  <2>2. CASE Enqueue(j)  BY <2>1, <2>2 DEF Enqueue
  <2>3. CASE Retry(j)  BY <2>1, <2>3 DEF Retry, Rows
  <2>4. CASE BecomeDue(j)  BY <2>1, <2>4 DEF BecomeDue, Rows
  <2> QED  BY <1>2, <2>2, <2>3, <2>4
<1>3. ASSUME NEW w \in Workers, Start(w) \/ Stop(w)
      PROVE  UNCHANGED <<call, fates>> /\ job[i].status = "processing"
  BY <1>3 DEF Start, Stop, Interrupted, Processing, TypeOK, Rows
<1>4. CASE DeleteFunction  BY <1>4 DEF DeleteFunction, Absent
<1>5. ASSUME NEW w \in Workers, Die(w)  PROVE CallsOf(i)' # {} \/ i \in lost' \/ i \in dropped'
  <2>1. /\ UNCHANGED <<job, dropped>>
        /\ lost' = lost \cup {k \in Jobs :
             \E c \in Calls : c[1] = w /\ call[c].stage \in Holding /\ call[c].id = k}
    BY <1>5 DEF Die
  <2>2. ASSUME NEW c \in CallsOf(i), c[1] # w  PROVE c \in CallsOf(i)'
    BY <1>5, <2>2, Dies DEF CallsOf
  <2> QED  BY <2>1, <2>2, <1>i DEF CallsOf
<1>6. ASSUME NEW c \in Calls, Begin(c)  PROVE CallsOf(i)' # {} \/ i \in lost' \/ i \in dropped'
  BY <1>6, <1>i DEF Begin, CallsOf, TypeOK, Claiming, Idle, Holding, fates
<1>7. ASSUME NEW c \in Calls, Claim(c)  PROVE CallsOf(i)' # {} \/ i \in lost' \/ i \in dropped'
  <2>1. CASE call' = [call EXCEPT ![c] = Idle] /\ UNCHANGED <<job, fates>>
    <3>1. \A d \in CallsOf(i) : d \in CallsOf(i)'
      BY <1>7, <2>1, Ends DEF Claim, CallsOf, Holding
    <3> QED  BY <2>1, <3>1, <1>i DEF fates
  <2>2. ASSUME NEW k \in Due,
               job' = [job EXCEPT ![k].status = "processing", ![k].attempts = @ + 1],
               call' = [call EXCEPT ![c] =
                 [stage |-> "claimed", id |-> k, attempt |-> job[k].attempts + 1,
                  max |-> job[k].max]],
               lost' = lost \ {k}, dropped' = dropped \ {k}
        PROVE  CallsOf(i)' # {} \/ i \in lost' \/ i \in dropped'
    <3>1. call[c].stage = "claiming"  BY <1>7 DEF Claim
    <3>2. /\ \A d \in Calls \ {c} : call'[d] = call[d]
          /\ call'[c].stage = "claimed" /\ call'[c].id = k
      BY <2>2, <3>1, Claims
    <3>3. CASE i = k  BY <3>2, <3>3 DEF CallsOf, Holding
    <3>4. CASE i # k
      <4>1. job'[i] = job[i]  BY <2>2, <3>4 DEF TypeOK
      <4>2. \A d \in CallsOf(i) : d \in CallsOf(i)'
        BY <3>1, <3>2 DEF CallsOf, Holding
      <4> QED  BY <4>1, <4>2, <2>2, <3>4, <1>i
    <3> QED  BY <3>3, <3>4
  <2> QED  BY <2>1, <2>2, <1>7 DEF Claim
<1>8. ASSUME NEW c \in Calls, Take(c)  PROVE CallsOf(i)' # {} \/ i \in lost' \/ i \in dropped'
  <2>1. CASE HasIt(c)
    <3>1. PICK d \in Calls : d[1] = c[1] /\ call[d].stage \in Active /\ call[d].id = call[c].id
      BY <2>1 DEF HasIt, RunningMirrors, Calls
    <3>2. d # c  BY <3>1, <1>8 DEF Take, Active, Holding
    <3>3. \A e \in Calls \ {c} : call'[e] = call[e]  BY <1>8, <2>1, Ends DEF Take
    <3>4. call[c].id = i /\ call[d].stage # "leaving" => d \in CallsOf(i)'
      BY <3>1, <3>2, <3>3 DEF CallsOf, Active
    <3>5. call[c].id = i /\ call[d].stage = "leaving" => i \in dropped'
      BY <3>1, <1>8, <2>1 DEF Take, MeetsLeaving
    <3>6. \A e \in CallsOf(i) : e # c => e \in CallsOf(i)'  BY <3>3 DEF CallsOf
    <3>7. UNCHANGED <<job, lost>> /\ dropped \subseteq dropped'  BY <1>8 DEF Take
    <3> QED  BY <3>4, <3>5, <3>6, <3>7, <1>i DEF CallsOf
  <2>2. CASE ~HasIt(c)
    <3>1. CallsOf(i)' = CallsOf(i)  BY <1>8, <2>2, Moves DEF Take, Holding
    <3> QED  BY <3>1, <1>8, <1>i DEF Take
  <2> QED  BY <2>1, <2>2
<1>9. ASSUME NEW c \in Calls, Invoke(c) \/ Return(c) \/ Record(c) \/ RecordFails(c)
      PROVE  CallsOf(i)' # {} \/ i \in lost' \/ i \in dropped'
  <2>1. /\ UNCHANGED <<job, fates>> /\ call[c].stage \in Holding
        /\ \E s \in Holding : call' = [call EXCEPT ![c].stage = s]
    BY <1>9 DEF Invoke, Return, Record, RecordFails, Holding, fates
  <2>2. CallsOf(i)' = CallsOf(i)  BY <2>1, Moves
  <2> QED  BY <2>1, <2>2, <1>i DEF fates
<1>10. ASSUME NEW c \in Calls, Complete(c) \/ Fail(c)
       PROVE  CallsOf(i)' # {} \/ i \in lost' \/ i \in dropped'
  <2>1. job'[i].status = "processing" => call[c].id # i /\ job[i].status = "processing"
    BY <1>10, Settles DEF Exists
  <2>2. \A d \in Calls \ {c} : call'[d] = call[d]  BY <1>10, Settles, Lets
  <2>3. \A d \in CallsOf(i) : d \in CallsOf(i)'  BY <2>1, <2>2 DEF CallsOf
  <2>4. UNCHANGED fates  BY <1>10 DEF Complete, Fail
  <2> QED  BY <2>1, <2>3, <2>4, <1>i DEF fates
<1>12. ASSUME NEW c \in Calls, Leave(c)
       PROVE  CallsOf(i)' # {} \/ i \in lost' \/ i \in dropped'
  <2>1. CallsOf(i)' = CallsOf(i)  BY <1>12, Leaves
  <2>2. UNCHANGED <<job, fates>>  BY <1>12 DEF Leave
  <2> QED  BY <2>1, <2>2, <1>i DEF fates
<1>11. CASE Deploy \/ UNCHANGED vars  BY <1>11, <1>1 DEF Deploy, vars, fates
<1> QED
  BY <1>1, <1>2, <1>3, <1>4, <1>5, <1>6, <1>7, <1>8, <1>9, <1>10, <1>11, <1>12
  DEF Next, Console, Progress, Exit, Crash

LEMMA QueueInit == Init => QueueInv /\ (\A i \in Jobs : CallsOf(i) = {})
<1> SUFFICES ASSUME Init  PROVE QueueInv /\ (\A i \in Jobs : CallsOf(i) = {})
  OBVIOUS
<1>1. TypeOK  BY RowTypes DEF Init, TypeOK, Tasks
<1>2. \A c \in Calls : call[c].stage \notin Holding  BY DEF Init, Idle, Holding
<1>3. Cascade  BY <1>2 DEF Init, Cascade
<1>4. RunningMirrors
  <2>1. \A c \in Calls : call[c].stage \notin Active  BY DEF Init, Idle, Active, Holding
  <2> QED  BY <2>1 DEF Init, RunningMirrors
<1> QED  BY <1>1, <1>2, <1>3, <1>4 DEF QueueInv, CallsOf

LEMMA QueueStep == QueueInv /\ [Next]_vars => QueueInv'
BY TypeStep, CascadeStep, RunningStep DEF QueueInv

\* A job in processing is in some call's hands, unless the process of its last
\* holder ended or its last claim was dropped beside an earlier run that had
\* written the outcome and not yet left runningJobs.
THEOREM ProcessingStaysInHand == Spec => []ProcessingIsInHand
<1>1. Init => QueueInv /\ ProcessingIsInHand
  BY QueueInit DEF Init, ProcessingIsInHand, Processing, Absent
<1>2. QueueInv /\ ProcessingIsInHand /\ [Next]_vars => QueueInv' /\ ProcessingIsInHand'
  BY QueueStep, InHandStep
<1> QED  BY <1>1, <1>2, PTL DEF Spec

-----------------------------------------------------------------------------
(* What a step does to one job                                               *)

SameRow(i) ==
  /\ job'[i].status = job[i].status /\ job'[i].attempts = job[i].attempts
  /\ job'[i].max = job[i].max
SameCalls(i) == \A d \in CallsOf(i)' : d \in CallsOf(i) /\ call'[d].attempt = call[d].attempt

Rests(i)    == SameRow(i) /\ SameCalls(i) /\ reset'[i] = reset[i]
IsDeleted(i) ==
  job'[i] = Absent /\ target' = "deleted" /\ SameCalls(i) /\ reset'[i] = reset[i]
IsEnqueued(i) ==
  /\ job[i].status = "absent" /\ target # "deleted"
  /\ job'[i].status = "queued" /\ job'[i].attempts = 0
  /\ CallsOf(i)' = {} /\ reset'[i] = reset[i]
IsRetried(i) ==
  /\ job[i].status = "dead_letter" /\ job'[i].status = "queued" /\ job'[i].attempts = 0
  /\ job'[i].max = job[i].max /\ SameCalls(i) /\ reset'[i] = reset[i]
IsRequeued(i) ==
  /\ job[i].status = "processing" /\ job'[i].status = "queued"
  /\ job'[i].attempts = job[i].attempts /\ job'[i].max = job[i].max
  /\ SameCalls(i) /\ reset'[i] = reset[i] + 1
IsClaimed(i, c) ==
  /\ job[i].status = "queued" /\ job'[i].status = "processing"
  /\ job'[i].attempts = job[i].attempts + 1 /\ job'[i].max = job[i].max
  /\ c \notin CallsOf(i) /\ CallsOf(i)' = CallsOf(i) \cup {c}
  /\ call'[c].attempt = job[i].attempts + 1
  /\ \A d \in CallsOf(i) : call'[d].attempt = call[d].attempt
  /\ reset'[i] = reset[i]
IsSettled(i, c) ==
  /\ job[i].status # "absent" /\ call[c].stage \in {"ok", "error"}
  /\ job'[i].status = IF call[c].stage = "ok" THEN "completed"
                      ELSE IF call[c].attempt >= job[i].max THEN "dead_letter" ELSE "queued"
  /\ job'[i].attempts = job[i].attempts /\ job'[i].max = job[i].max
  /\ c \in CallsOf(i) /\ CallsOf(i)' = CallsOf(i) \ {c}
  /\ \A d \in CallsOf(i)' : call'[d].attempt = call[d].attempt
  /\ reset'[i] = reset[i]

\* Seen from one job, a step is one of these.
LEMMA JobSteps ==
  ASSUME QueueInv, [Next]_vars, NEW i \in Jobs
  PROVE  \/ Rests(i) \/ IsDeleted(i) \/ IsEnqueued(i) \/ IsRetried(i) \/ IsRequeued(i)
         \/ \E c \in Calls : IsClaimed(i, c) \/ IsSettled(i, c)
<1> USE DEF QueueInv
<1>j. job \in [Jobs -> Rows] /\ reset \in [Jobs -> Nat] /\ call \in [Calls -> Tasks]
  BY DEF TypeOK
<1>1. CASE UNCHANGED <<job, call, reset>>
  BY <1>1 DEF Rests, SameRow, SameCalls, CallsOf
<1>2. CASE DeleteFunction
  BY <1>2, <1>j DEF DeleteFunction, IsDeleted, SameCalls, CallsOf, history, fates
<1>3. ASSUME NEW k \in Jobs, Enqueue(k)  PROVE Rests(i) \/ IsEnqueued(i)
  <2>1. CASE k = i
    <3>1. \A c \in Calls : c \notin CallsOf(i)
      BY <1>3, <2>1 DEF Enqueue, Cascade, CallsOf
    <3>2. CallsOf(i)' = {}  BY <3>1, <1>3 DEF Enqueue, CallsOf
    <3> QED  BY <3>2, <1>3, <2>1, <1>j DEF Enqueue, Exists, IsEnqueued, history, fates
  <2>2. CASE k # i
    BY <1>3, <2>2, <1>j DEF Enqueue, Rests, SameRow, SameCalls, CallsOf, history, fates
  <2> QED  BY <2>1, <2>2
<1>4. ASSUME NEW k \in Jobs, Retry(k)  PROVE Rests(i) \/ IsRetried(i)
  <2>1. SameCalls(i) /\ reset'[i] = reset[i]
    BY <1>4 DEF Retry, SameCalls, CallsOf, history, fates
  <2>2. job' = [job EXCEPT ![k].status = "queued", ![k].attempts = 0, ![k].due = TRUE]
        /\ job[k].status = "dead_letter"
    BY <1>4 DEF Retry
  <2> QED  BY <2>1, <2>2, <1>j DEF Rows, Rests, IsRetried, SameRow
<1>5. ASSUME NEW w \in Workers, Start(w)  PROVE Rests(i) \/ IsRequeued(i)
  <2>1. SameCalls(i)  BY <1>5 DEF Start, SameCalls, CallsOf
  <2> QED  BY <2>1, <1>5, <1>j
           DEF Start, Interrupted, Processing, Rows, Rests, IsRequeued, SameRow
<1>6. ASSUME NEW w \in Workers, Die(w)  PROVE Rests(i)
  <2>1. SameCalls(i)  BY <1>6, Dies DEF SameCalls, CallsOf
  <2> QED  BY <2>1, <1>6 DEF Die, Rests, SameRow, history, fates
<1>7. ASSUME NEW c \in Calls, Begin(c)  PROVE Rests(i)
  <2>1. SameCalls(i)  BY <1>7, <1>j DEF Begin, SameCalls, CallsOf, Claiming, Idle, Holding
  <2> QED  BY <2>1, <1>7 DEF Begin, Rests, SameRow, history, fates
<1>8. ASSUME NEW c \in Calls, Claim(c)  PROVE Rests(i) \/ IsClaimed(i, c)
  <2>1. CASE call' = [call EXCEPT ![c] = Idle] /\ UNCHANGED job
    <3>1. SameCalls(i)  BY <2>1, Ends DEF SameCalls, CallsOf
    <3> QED  BY <3>1, <2>1, <1>8 DEF Claim, Rests, SameRow, history, fates
  <2>2. ASSUME NEW k \in Due,
               job' = [job EXCEPT ![k].status = "processing", ![k].attempts = @ + 1],
               call' = [call EXCEPT ![c] =
                 [stage |-> "claimed", id |-> k, attempt |-> job[k].attempts + 1,
                  max |-> job[k].max]]
        PROVE  Rests(i) \/ IsClaimed(i, c)
    <3>1. call[c].stage = "claiming" /\ reset' = reset  BY <1>8 DEF Claim, history, fates
    <3>2. /\ \A d \in Calls \ {c} : call'[d] = call[d]
          /\ call'[c].stage = "claimed" /\ call'[c].id = k
          /\ call'[c].attempt = job[k].attempts + 1
      BY <2>2, <3>1, Claims
    <3>3. CASE i = k
      <4>1. c \notin CallsOf(i) /\ CallsOf(i)' = CallsOf(i) \cup {c}
        BY <3>1, <3>2, <3>3 DEF CallsOf, Holding
      <4>2. \A d \in CallsOf(i) : call'[d].attempt = call[d].attempt
        BY <4>1, <3>2 DEF CallsOf
      <4> QED  BY <4>1, <4>2, <3>1, <3>2, <3>3, <2>2, <1>j DEF Due, Rows, IsClaimed
    <3>4. CASE i # k
      <4>1. SameCalls(i)  BY <3>2, <3>4 DEF SameCalls, CallsOf
      <4> QED  BY <4>1, <3>1, <3>4, <2>2, <1>j DEF Rests, SameRow
    <3> QED  BY <3>3, <3>4
  <2> QED  BY <2>1, <2>2, <1>8 DEF Claim
<1>9. ASSUME NEW c \in Calls, Complete(c) \/ Fail(c)  PROVE Rests(i) \/ IsSettled(i, c)
  <2>1. /\ \A d \in Calls \ {c} : call'[d] = call[d]
        /\ call'[c].stage \notin Holding
        /\ call[c].stage \in Holding
    BY <1>9, Settles, Lets
  <2>2. reset' = reset  BY <1>9 DEF Complete, Fail, history, fates
  <2>3. SameCalls(i)  BY <2>1 DEF SameCalls, CallsOf
  <2>4. CASE i # call[c].id \/ ~Exists(i)
    BY <2>2, <2>3, <2>4, <1>9, Settles DEF Rests, SameRow
  <2>5. CASE i = call[c].id /\ Exists(i)
    <3>1. call[c].max = job[i].max  BY <2>1, <2>5 DEF Cascade
    <3>2. c \in CallsOf(i) /\ CallsOf(i)' = CallsOf(i) \ {c}
      BY <2>1, <2>5 DEF CallsOf
    <3>3. \A d \in CallsOf(i)' : call'[d].attempt = call[d].attempt
      BY <2>3 DEF SameCalls
    <3> QED  BY <3>1, <3>2, <3>3, <2>2, <2>5, <1>9, Settles DEF IsSettled, Exists, Exhausted
  <2> QED  BY <2>4, <2>5
<1>10. ASSUME NEW c \in Calls,
              Take(c) \/ Invoke(c) \/ Return(c) \/ Record(c) \/ RecordFails(c) \/ Leave(c)
       PROVE  Rests(i)
  <2>1. UNCHANGED <<job, reset>>
    BY <1>10 DEF Take, Invoke, Return, Record, RecordFails, Leave, history
  <2>2. SameCalls(i)
    <3>1. CASE call' = [call EXCEPT ![c] = Idle]  BY <3>1, Ends DEF SameCalls, CallsOf
    <3>2. ASSUME NEW s \in Holding, call[c].stage \in Holding,
                 call' = [call EXCEPT ![c].stage = s]
          PROVE  SameCalls(i)
      BY <3>2, Moves DEF SameCalls, CallsOf
    <3> QED  BY <3>1, <3>2, <1>10 DEF Take, Invoke, Return, Record, RecordFails, Leave, Holding
  <2> QED  BY <2>1, <2>2 DEF Rests, SameRow
<1>11. ASSUME NEW k \in Jobs, BecomeDue(k)  PROVE Rests(i)
  <2>1. SameCalls(i) /\ reset' = reset  BY <1>11 DEF BecomeDue, SameCalls, CallsOf, history, fates
  <2> QED  BY <2>1, <1>11, <1>j DEF BecomeDue, Rows, Rests, SameRow
<1> QED
  BY <1>1, <1>2, <1>3, <1>4, <1>5, <1>6, <1>7, <1>8, <1>9, <1>10, <1>11
  DEF Next, Console, Progress, Exit, Crash, vars, Deploy, Stop, history, fates

-----------------------------------------------------------------------------
(* One run of a job at a time                                                *)

LEMMA OneRunStep ==
  ASSUME QueueInv, OneRunPerJob, [Next]_vars  PROVE OneRunPerJob'
<1> SUFFICES ASSUME NEW i \in Jobs, reset'[i] = 0, NEW c \in CallsOf(i)'
             PROVE  /\ job'[i].status \in {"processing", "absent"}
                    /\ job'[i].status # "absent" => call'[c].attempt = job'[i].attempts
                    /\ CallsOf(i)' = {c}
  BY DEF OneRunPerJob, Exists
<1>n. reset[i] \in Nat  BY DEF QueueInv, TypeOK
<1>o. reset[i] = 0 => \A d \in CallsOf(i) :
        /\ job[i].status \in {"processing", "absent"}
        /\ job[i].status # "absent" => call[d].attempt = job[i].attempts
        /\ CallsOf(i) = {d}
  BY DEF OneRunPerJob, Exists
<1>1. CASE Rests(i)
  BY <1>1, <1>o DEF Rests, SameRow, SameCalls
<1>2. CASE IsDeleted(i)
  BY <1>2, <1>o DEF IsDeleted, SameCalls, Absent
<1>3. CASE IsEnqueued(i)  BY <1>3 DEF IsEnqueued
<1>4. CASE IsRetried(i)  BY <1>4, <1>o DEF IsRetried, SameCalls
<1>5. CASE IsRequeued(i)  BY <1>5, <1>n DEF IsRequeued
<1>6. ASSUME NEW d \in Calls, IsClaimed(i, d)
      PROVE  /\ job'[i].status \in {"processing", "absent"}
             /\ job'[i].status # "absent" => call'[c].attempt = job'[i].attempts
             /\ CallsOf(i)' = {c}
  BY <1>6, <1>o DEF IsClaimed
<1>7. ASSUME NEW d \in Calls, IsSettled(i, d)  PROVE FALSE
  BY <1>7, <1>o DEF IsSettled
<1> QED  BY <1>1, <1>2, <1>3, <1>4, <1>5, <1>6, <1>7, JobSteps

\* Without a start that requeues it, a job is in one call at a time, and the
\* call carries the attempt the row counts.
THEOREM OneRunAtATime == Spec => []OneRunPerJob
<1>1. Init => QueueInv /\ OneRunPerJob  BY QueueInit DEF OneRunPerJob
<1>2. QueueInv /\ OneRunPerJob /\ [Next]_vars => QueueInv' /\ OneRunPerJob'
  BY QueueStep, OneRunStep
<1> QED  BY <1>1, <1>2, PTL DEF Spec

-----------------------------------------------------------------------------
(* The budget of attempts                                                    *)

\* The calls that would requeue the job if they failed now.
Early(i) == {c \in CallsOf(i) : call[c].attempt < job[i].max}

\* Once its attempts are used up, every further claim of a job is paid for by a
\* start that requeued it: those that were, the wait for one, and the early
\* calls that can still send the job back fit into the requeues.
BudgetInv ==
  \A i \in Jobs : job[i].attempts >= job[i].max =>
    job[i].attempts + Cardinality(Early(i)) + (IF job[i].status = "queued" THEN 1 ELSE 0)
      <= job[i].max + reset[i]

LEMMA TicketsOfJob ==
  ASSUME QueueInv, Lease!TicketsBounded, NEW i \in Jobs
  PROVE  /\ IsFiniteSet(CallsOf(i)) /\ Cardinality(CallsOf(i)) \in Nat
         /\ job[i].status = "queued" => Cardinality(CallsOf(i)) <= reset[i]
<1>1. IsFiniteSet(CallsOf(i))  BY CallsFinite, FS_Subset DEF CallsOf
<1>2. ASSUME job[i].status = "queued"  PROVE Cardinality(CallsOf(i)) <= reset[i]
  <2>1. target # "deleted"  BY <1>2 DEF QueueInv, Cascade, Exists
  <2>2. PlaceOf(i) = "waiting"  BY <1>2, <2>1 DEF PlaceOf
  <2>3. Lease!Cardinality(CallsOf(i)) <= reset[i]  BY <2>2 DEF Lease!TicketsBounded
  <2>4. Lease!Cardinality(CallsOf(i)) = Cardinality(CallsOf(i))
    BY DEF Lease!Cardinality, Cardinality
  <2> QED  BY <2>3, <2>4
<1> QED  BY <1>1, <1>2, FS_CardinalityType

LEMMA BudgetStep ==
  ASSUME QueueInv, Lease!TicketsBounded, BudgetInv, [Next]_vars  PROVE BudgetInv'
<1>q. QueueInv'  BY QueueStep
<1> SUFFICES ASSUME NEW i \in Jobs, job'[i].attempts >= job'[i].max
             PROVE  job'[i].attempts + Cardinality(Early(i)')
                      + (IF job'[i].status = "queued" THEN 1 ELSE 0)
                      <= job'[i].max + reset'[i]
  BY DEF BudgetInv, Early
<1>n. /\ job[i].attempts \in Nat /\ job[i].max \in Nat /\ reset[i] \in Nat
      /\ job'[i].attempts \in Nat /\ job'[i].max \in 1 .. MaxAttempts /\ MaxAttempts \in Nat
      /\ \A c \in CallsOf(i) : call[c].attempt \in Nat
  <2>1. \A c \in CallsOf(i) : call[c] \in HeldTasks  BY HeldTask DEF CallsOf, QueueInv
  <2> QED  BY <2>1, <1>q, BoundsAssumption DEF QueueInv, TypeOK, Rows, HeldTasks
<1>f. /\ IsFiniteSet(Early(i)) /\ Cardinality(Early(i)) \in Nat
      /\ Cardinality(Early(i)) <= Cardinality(CallsOf(i))
  BY TicketsOfJob, FS_Subset, FS_CardinalityType DEF Early
<1>s. ASSUME Early(i)' \subseteq Early(i)
      PROVE  /\ Cardinality(Early(i)') \in Nat
             /\ Cardinality(Early(i)') <= Cardinality(Early(i))
  BY <1>s, <1>f, FS_Subset, FS_CardinalityType
<1>b. job[i].attempts >= job[i].max =>
        job[i].attempts + Cardinality(Early(i)) + (IF job[i].status = "queued" THEN 1 ELSE 0)
          <= job[i].max + reset[i]
  BY DEF BudgetInv
<1>1. CASE Rests(i)
  <2>1. Early(i)' \subseteq Early(i)  BY <1>1 DEF Rests, SameRow, SameCalls, Early
  <2> QED  BY <2>1, <1>1, <1>s, <1>f, <1>n, <1>b DEF Rests, SameRow
<1>2. CASE IsDeleted(i)  BY <1>2 DEF IsDeleted, Absent
<1>3. CASE IsEnqueued(i)  BY <1>3, <1>n DEF IsEnqueued
<1>4. CASE IsRetried(i)  BY <1>4, <1>n DEF IsRetried
<1>5. CASE IsRequeued(i)
  <2>1. Early(i)' \subseteq Early(i)  BY <1>5 DEF IsRequeued, SameCalls, Early
  <2> QED  BY <2>1, <1>5, <1>s, <1>f, <1>n, <1>b DEF IsRequeued
<1>6. ASSUME NEW c \in Calls, IsClaimed(i, c)
      PROVE  job'[i].attempts + Cardinality(Early(i)')
               + (IF job'[i].status = "queued" THEN 1 ELSE 0)
               <= job'[i].max + reset'[i]
  <2>1. /\ job[i].status = "queued" /\ job'[i].status = "processing" /\ reset'[i] = reset[i]
        /\ job'[i].attempts = job[i].attempts + 1 /\ job'[i].max = job[i].max
    BY <1>6 DEF IsClaimed
  <2>2. call'[c].attempt = job'[i].attempts  BY <1>6 DEF IsClaimed
  <2>3. c \notin Early(i)'  BY <2>2, <1>n DEF Early
  <2>4. Early(i)' \subseteq Early(i)  BY <1>6, <2>1, <2>3 DEF IsClaimed, Early
  <2>5. Cardinality(Early(i)) <= reset[i]  BY <1>f, <1>n, <2>1, TicketsOfJob
  <2> QED  BY <2>1, <2>4, <2>5, <1>s, <1>f, <1>n, <1>b
<1>7. ASSUME NEW c \in Calls, IsSettled(i, c)
      PROVE  job'[i].attempts + Cardinality(Early(i)')
               + (IF job'[i].status = "queued" THEN 1 ELSE 0)
               <= job'[i].max + reset'[i]
  <2>1. /\ job'[i].attempts = job[i].attempts /\ job'[i].max = job[i].max
        /\ reset'[i] = reset[i] /\ c \in CallsOf(i)
    BY <1>7 DEF IsSettled
  <2>2. Early(i)' \subseteq Early(i) \ {c}  BY <1>7, <2>1 DEF IsSettled, Early
  <2>3. CASE call[c].attempt < job[i].max
    <3>1. c \in Early(i)  BY <2>1, <2>3 DEF Early
    <3>2. /\ IsFiniteSet(Early(i) \ {c})
          /\ Cardinality(Early(i) \ {c}) = Cardinality(Early(i)) - 1
      BY <3>1, <1>f, FS_RemoveElement
    <3>3. /\ Cardinality(Early(i)') \in Nat
          /\ Cardinality(Early(i)') <= Cardinality(Early(i)) - 1
      BY <2>2, <3>2, FS_Subset, FS_CardinalityType
    <3> QED  BY <2>1, <3>3, <1>n, <1>f, <1>b
  <2>4. CASE ~(call[c].attempt < job[i].max)
    <3>1. call[c].attempt >= job[i].max  BY <2>1, <2>4, <1>n
    <3>2. job'[i].status # "queued"  BY <3>1, <1>7 DEF IsSettled
    <3>3. Early(i)' \subseteq Early(i)  BY <2>2
    <3> QED  BY <2>1, <3>2, <3>3, <1>s, <1>n, <1>f, <1>b
  <2> QED  BY <2>3, <2>4
<1> QED  BY <1>1, <1>2, <1>3, <1>4, <1>5, <1>6, <1>7, JobSteps

LEMMA BudgetKept == ASSUME QueueInv, BudgetInv  PROVE AttemptBudget
<1> SUFFICES ASSUME NEW i \in Jobs  PROVE job[i].attempts <= job[i].max + reset[i]
  BY DEF AttemptBudget
<1>1. /\ job[i].attempts \in Nat /\ reset[i] \in Nat /\ job[i].max \in Nat
  BY BoundsAssumption DEF QueueInv, TypeOK, Rows
<1>2. Cardinality(Early(i)) \in Nat
  BY CallsFinite, FS_Subset, FS_CardinalityType DEF Early, CallsOf
<1> QED  BY <1>1, <1>2 DEF BudgetInv

\* A job is claimed at most max_attempts times since it was last retried, and
\* once more for every start that requeued it, whatever late calls report.
THEOREM AttemptsWithinBudget == Spec => []AttemptBudget
<1>1. Init => QueueInv /\ BudgetInv
  <2> SUFFICES ASSUME Init  PROVE QueueInv /\ BudgetInv  OBVIOUS
  <2>1. \A i \in Jobs : job[i] = Absent  BY DEF Init
  <2> QED  BY <2>1, QueueInit DEF BudgetInv, Absent
<1>2. QueueInv /\ Lease!TicketsBounded /\ BudgetInv /\ [Next]_vars => QueueInv' /\ BudgetInv'
  BY QueueStep, BudgetStep
<1>3. QueueInv /\ BudgetInv => AttemptBudget  BY BudgetKept
<1> QED  BY <1>1, <1>2, <1>3, JobTicketsBounded, PTL DEF Spec

-----------------------------------------------------------------------------
(* The queue and the function agree                                          *)

\* What a step does to one call: it ends or claims, or it moves its job on.
LEMMA StageSteps ==
  ASSUME QueueInv, [Next]_vars, NEW c \in Calls
  PROVE  \/ call'[c] = call[c]
         \/ call'[c].stage \notin Holding
         \/ call'[c].stage = "claimed" /\ call[c].stage = "claiming"
         \/ /\ call'[c].id = call[c].id
            /\ \/ call[c].stage \in {"claimed", "taken", "running"}
                  /\ call'[c].stage \in {"taken", "running", "error"}
               \/ call[c].stage = "running" /\ call'[c].stage = "returned"
                  /\ call[c].id \in succeeded'
               \/ call[c].stage = "returned" /\ call'[c].stage = "ok"
               \/ call[c].stage \in {"returned", "ok"} /\ call'[c].stage = "error"
                  /\ call[c].id \in unsaved'
<1> USE DEF QueueInv
<1>1. CASE UNCHANGED call  BY <1>1
<1>2. ASSUME NEW w \in Workers, Die(w)
      PROVE  call'[c] = call[c] \/ call'[c].stage \notin Holding
  BY <1>2, Dies
<1>3. ASSUME NEW d \in Calls, d # c,
             Begin(d) \/ Claim(d) \/ Take(d) \/ Invoke(d) \/ Return(d) \/ Record(d)
               \/ RecordFails(d) \/ Leave(d)
      PROVE  call'[c] = call[c]
  <2>1. call \in [Calls -> Tasks]  BY DEF TypeOK
  <2>2. \E t : call' = [call EXCEPT ![d] = t]
    BY <1>3 DEF Begin, Claim, Take, Invoke, Return, Record, RecordFails, Leave
  <2> QED  BY <2>1, <2>2, <1>3
<1>4. ASSUME Begin(c) \/ Leave(c) PROVE call'[c].stage \notin Holding
  BY <1>4 DEF Begin, Leave, TypeOK, Claiming, Idle, Holding
<1>5. ASSUME Claim(c)
      PROVE  \/ call'[c].stage \notin Holding
             \/ call'[c].stage = "claimed" /\ call[c].stage = "claiming"
  <2>1. call[c].stage = "claiming"  BY <1>5 DEF Claim
  <2>2. \/ call' = [call EXCEPT ![c] = Idle]
        \/ \E i \in Due : call' = [call EXCEPT ![c] =
             [stage |-> "claimed", id |-> i, attempt |-> job[i].attempts + 1,
              max |-> job[i].max]]
    BY <1>5 DEF Claim
  <2>3. call'[c] = Idle \/ call'[c].stage = "claimed"  BY <2>2 DEF TypeOK
  <2> QED  BY <2>1, <2>3 DEF Idle, Holding
<1>6. ASSUME Take(c)
      PROVE  \/ call'[c].stage \notin Holding
             \/ call'[c].id = call[c].id /\ call[c].stage = "claimed" /\ call'[c].stage = "taken"
  <2>1. "claimed" \in Holding /\ "taken" \in Holding  BY DEF Holding
  <2> QED  BY <1>6, <2>1, Ends, Moves DEF Take
<1>7. ASSUME Invoke(c) \/ Return(c) \/ Record(c) \/ RecordFails(c)
      PROVE  /\ call'[c].id = call[c].id
             /\ \/ call[c].stage \in {"taken", "running"}
                   /\ call'[c].stage \in {"running", "error"}
                \/ call[c].stage = "running" /\ call'[c].stage = "returned"
                   /\ call[c].id \in succeeded'
                \/ call[c].stage = "returned" /\ call'[c].stage = "ok"
                \/ call[c].stage \in {"returned", "ok"} /\ call'[c].stage = "error"
                   /\ call[c].id \in unsaved'
  <2>1. {"taken", "running", "returned", "ok", "error"} \subseteq Holding  BY DEF Holding
  <2>2. CASE Invoke(c)
    <3>1. call[c].stage \in Holding  BY <2>1, <2>2 DEF Invoke
    <3>2. PICK s \in {"running", "error"} : call' = [call EXCEPT ![c].stage = s]
      BY <2>2 DEF Invoke
    <3>3. call'[c].id = call[c].id /\ call'[c].stage = s
      <4>1. call[c] \in HeldTasks /\ call \in [Calls -> Tasks]  BY <3>1, HeldTask DEF TypeOK
      <4> QED  BY <3>2, <4>1 DEF HeldTasks
    <3> QED  BY <2>2, <3>3 DEF Invoke
  <2>3. CASE Return(c)  BY <2>1, <2>3, Moves DEF Return
  <2>4. CASE Record(c)
    <3>1. call[c].stage \in Holding  BY <2>1, <2>4 DEF Record
    <3>2. PICK s \in {"ok"} : call' = [call EXCEPT ![c].stage = s]
      BY <2>4 DEF Record
    <3>3. call'[c].id = call[c].id /\ call'[c].stage = s
      <4>1. call[c] \in HeldTasks /\ call \in [Calls -> Tasks]  BY <3>1, HeldTask DEF TypeOK
      <4> QED  BY <3>2, <4>1 DEF HeldTasks
    <3> QED  BY <2>4, <3>3 DEF Record
  <2>5. CASE RecordFails(c)
    <3>1. call[c].stage \in Holding  BY <2>1, <2>5 DEF RecordFails
    <3>2. PICK s \in {"error"} : call' = [call EXCEPT ![c].stage = s]
      BY <2>5 DEF RecordFails
    <3>3. call'[c].id = call[c].id /\ call'[c].stage = s
      <4>1. call[c] \in HeldTasks /\ call \in [Calls -> Tasks]  BY <3>1, HeldTask DEF TypeOK
      <4> QED  BY <3>2, <4>1 DEF HeldTasks
    <3> QED  BY <2>5, <3>3 DEF RecordFails
  <2> QED  BY <1>7, <2>2, <2>3, <2>4, <2>5
<1>8. ASSUME NEW d \in Calls, Complete(d) \/ Fail(d)
      PROVE  call'[c] = call[c] \/ call'[c].stage \notin Holding
  BY <1>8, Settles, Lets
<1> QED
  BY <1>1, <1>2, <1>3, <1>4, <1>5, <1>6, <1>7, <1>8
  DEF Next, Console, Progress, Exit, Crash, vars, Deploy, DeleteFunction, Enqueue, Retry,
      Start, Stop, BecomeDue

\* What the histories and the function's state do in a step.
LEMMA HistorySteps ==
  ASSUME QueueInv, [Next]_vars
  PROVE  /\ unsaved \subseteq unsaved' /\ succeeded \subseteq succeeded'
         /\ target = "deleted" => target' = "deleted"
         /\ \A i \in succeeded' \ succeeded :
              \E c \in Calls : /\ call[c].stage = "running" /\ call[c].id = i
                               /\ call'[c].stage = "returned"
                               /\ UNCHANGED <<job, reset, target>>
<1> USE DEF QueueInv
<1>1. CASE UNCHANGED <<succeeded, unsaved, target>>  BY <1>1
<1>2. CASE Deploy \/ DeleteFunction  BY <1>2 DEF Deploy, DeleteFunction, history, fates
<1>3. ASSUME NEW c \in Calls, Return(c)
      PROVE  /\ UNCHANGED <<job, reset, target, unsaved>>
             /\ call[c].stage = "running"
             /\ \/ succeeded' = succeeded
                \/ succeeded' = succeeded \cup {call[c].id} /\ call'[c].stage = "returned"
  <2>1. "running" \in Holding /\ "returned" \in Holding  BY DEF Holding
  <2> QED  BY <1>3, <2>1, Moves DEF Return
<1>4. ASSUME NEW c \in Calls, RecordFails(c)
      PROVE  unsaved \subseteq unsaved' /\ UNCHANGED <<succeeded, target>>
  BY <1>4 DEF RecordFails
<1>5. \/ UNCHANGED <<succeeded, unsaved, target>> \/ Deploy \/ DeleteFunction
      \/ \E c \in Calls : Return(c) \/ RecordFails(c)
  BY DEF Next, Console, Enqueue, Retry, Start, Stop, Exit, Crash, Die, Progress, Begin, Claim,
     Take, Invoke, Record, Complete, Fail, Leave, BecomeDue, vars, history, fates
<1> QED  BY <1>1, <1>2, <1>3, <1>4, <1>5

\* A call that has seen the function return, and a completed job, belong to a
\* success; a job that succeeded, was never requeued by a start and whose
\* success was not turned down is in no hands but those that will complete it.
SuccessInv ==
  /\ \A c \in Calls : call[c].stage \in {"returned", "ok"} => call[c].id \in succeeded
  /\ \A i \in Jobs : job[i].status = "completed" => i \in succeeded
  /\ \A i \in succeeded :
       /\ Exists(i) \/ target = "deleted"
       /\ reset[i] = 0 /\ i \notin unsaved =>
            /\ job[i].status \notin {"queued", "dead_letter"}
            /\ \A c \in CallsOf(i) : call[c].stage \in {"returned", "ok"}

LEMMA SuccessStep ==
  ASSUME QueueInv, OneRunPerJob, SuccessInv, [Next]_vars  PROVE SuccessInv'
<1> USE DEF QueueInv
<1>1. ASSUME NEW c \in Calls, call'[c].stage \in {"returned", "ok"}
      PROVE  call'[c].id \in succeeded'
  BY <1>1, StageSteps, HistorySteps DEF SuccessInv, Holding
<1>2. ASSUME NEW i \in Jobs, job'[i].status = "completed"  PROVE i \in succeeded'
  <2>1. CASE Rests(i)
    <3>1. succeeded \subseteq succeeded'  BY HistorySteps
    <3>2. job[i].status = "completed"  BY <2>1, <1>2 DEF Rests, SameRow
    <3> QED  BY <3>1, <3>2 DEF SuccessInv
  <2>2. ASSUME NEW c \in Calls, IsSettled(i, c)  PROVE i \in succeeded
    <3>1. call[c].stage = "ok" /\ c \in CallsOf(i)  BY <2>2, <1>2 DEF IsSettled
    <3> QED  BY <3>1 DEF SuccessInv, CallsOf
  <2> QED
    BY <2>1, <2>2, <1>2, JobSteps, HistorySteps
    DEF IsDeleted, IsEnqueued, IsRetried, IsRequeued, IsClaimed, Absent
<1>3. ASSUME NEW i \in succeeded'  PROVE Exists(i)' \/ target' = "deleted"
  <2>1. i \in Jobs  BY TypeStep DEF TypeOK
  <2>2. CASE i \in succeeded
    BY <2>1, <2>2, JobSteps, HistorySteps
    DEF SuccessInv, Exists, Rests, SameRow, IsDeleted, IsEnqueued, IsRetried, IsRequeued,
        IsClaimed, IsSettled
  <2>3. CASE i \notin succeeded
    <3>1. PICK c \in Calls : /\ call[c].stage = "running" /\ call[c].id = i
                             /\ UNCHANGED <<job, target>>
      BY <2>3, HistorySteps
    <3> QED  BY <3>1 DEF Cascade, Exists, Holding
  <2> QED  BY <2>2, <2>3
<1>4. ASSUME NEW i \in succeeded', reset'[i] = 0, i \notin unsaved'
      PROVE  /\ job'[i].status \notin {"queued", "dead_letter"}
             /\ \A c \in CallsOf(i)' : call'[c].stage \in {"returned", "ok"}
  <2>1. i \in Jobs /\ reset[i] \in Nat  BY TypeStep DEF TypeOK
  <2>2. reset[i] = 0 /\ i \notin unsaved
    BY <2>1, <1>4, JobSteps, HistorySteps
    DEF Rests, IsDeleted, IsEnqueued, IsRetried, IsRequeued, IsClaimed, IsSettled
  <2>3. CASE i \in succeeded
    <3>1. /\ job[i].status \notin {"queued", "dead_letter"}
          /\ \A c \in CallsOf(i) : call[c].stage \in {"returned", "ok"}
          /\ job[i].status # "absent" \/ target = "deleted"
      BY <2>2, <2>3 DEF SuccessInv, Exists
    <3>2. ASSUME NEW c \in CallsOf(i), c \in CallsOf(i)'
          PROVE  call'[c].stage \in {"returned", "ok"}
      BY <3>1, <3>2, <1>4, StageSteps DEF CallsOf, Holding
    <3>3. \/ Rests(i) \/ IsDeleted(i)
          \/ \E c \in Calls : IsSettled(i, c)
      BY <3>1, <2>1, <2>2, <1>4, JobSteps DEF IsEnqueued, IsRetried, IsRequeued, IsClaimed
    <3>4. CASE Rests(i)  BY <3>1, <3>2, <3>4 DEF Rests, SameRow, SameCalls
    <3>5. CASE IsDeleted(i)  BY <3>2, <3>5 DEF IsDeleted, SameCalls, Absent
    <3>6. ASSUME NEW c \in Calls, IsSettled(i, c)
          PROVE  job'[i].status = "completed" /\ CallsOf(i)' \subseteq CallsOf(i)
      BY <3>1, <3>6 DEF IsSettled
    <3> QED  BY <3>2, <3>3, <3>4, <3>5, <3>6
  <2>4. CASE i \notin succeeded
    <3>1. PICK c \in Calls : /\ call[c].stage = "running" /\ call[c].id = i
                             /\ call'[c].stage = "returned" /\ UNCHANGED job
      BY <2>4, HistorySteps
    <3>2. c \in CallsOf(i)  BY <3>1 DEF CallsOf, Holding
    <3>3. job[i].status \in {"processing", "absent"} /\ CallsOf(i) = {c}
      BY <3>2, <2>1, <2>2 DEF OneRunPerJob
    <3>4. CallsOf(i)' \subseteq {c}
      BY <3>1, <3>3, <2>1, JobSteps
      DEF Rests, SameCalls, IsDeleted, IsEnqueued, IsRetried, IsRequeued, IsClaimed, IsSettled
    <3> QED  BY <3>1, <3>3, <3>4
  <2> QED  BY <2>3, <2>4
<1> QED  BY <1>1, <1>2, <1>3, <1>4 DEF SuccessInv

\* A completed job has run to its end, and a job that has is neither dead nor
\* waiting, unless a start requeued it or its success could not be saved.
THEOREM OutcomesMatch == Spec => []OutcomeMatchesFunction
<1>1. Init => QueueInv /\ OneRunPerJob /\ SuccessInv
  <2> SUFFICES ASSUME Init  PROVE QueueInv /\ OneRunPerJob /\ SuccessInv  OBVIOUS
  <2>1. \A c \in Calls : call[c].stage = "none"  BY DEF Init, Idle
  <2> QED  BY <2>1, QueueInit DEF Init, OneRunPerJob, SuccessInv, Absent
<1>2. QueueInv /\ OneRunPerJob /\ SuccessInv /\ [Next]_vars =>
        QueueInv' /\ OneRunPerJob' /\ SuccessInv'
  BY QueueStep, OneRunStep, SuccessStep
<1>3. SuccessInv => OutcomeMatchesFunction
  BY DEF SuccessInv, OutcomeMatchesFunction
<1> QED  BY <1>1, <1>2, <1>3, PTL DEF Spec

=============================================================================
