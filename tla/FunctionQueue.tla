---------------------------- MODULE FunctionQueue ----------------------------
(***************************************************************************)
(* The job queue of the serverless functions                               *)
(* (src/server/functions/persistentFunctionEngine.ts): the rows of         *)
(* function_jobs for one target function, the processQueue calls that the  *)
(* timer and the Redis signal start on every server instance, the set      *)
(* runningJobs each instance keeps in memory, restarts and crashes.  A     *)
(* step is one SQL statement or one call of the runtime; everything        *)
(* between two awaits interleaves, also two calls of one instance.         *)
(***************************************************************************)
EXTENDS Naturals, FiniteSets

CONSTANTS
  Jobs,           \* ids of jobs
  Urgent,         \* the jobs of higher priority
  Workers,        \* server instances
  Slots,          \* bound: processQueue calls an instance has in flight
  NoJob,
  MaxAttempts,    \* upper clamp of max_attempts (10 in the code)
  DefaultAttempts,\* max_attempts of a job that gives none (3 in the code)
  MaxConcurrent,  \* FUNCTIONS_MAX_CONCURRENT_EXECUTIONS
  MaxRetries,     \* bound: retryJob() calls
  MaxCrashes,     \* bound: stops and crashes of instances
  MaxFaults       \* bound: statements that fail

ASSUME JobsAssumption == Urgent \subseteq Jobs /\ NoJob \notin Jobs
ASSUME FiniteAssumption == IsFiniteSet(Workers) /\ IsFiniteSet(Slots)
ASSUME BoundsAssumption ==
  /\ MaxAttempts \in Nat \ {0} /\ DefaultAttempts \in 1 .. MaxAttempts
  /\ MaxConcurrent \in Nat \ {0} /\ MaxRetries \in Nat /\ MaxCrashes \in Nat /\ MaxFaults \in Nat

VARIABLES
  target,     \* the function: draft, active or deleted
  job,        \* the rows of function_jobs
  server,     \* where each instance is: down, up or stopped
  running,    \* runningJobs of each instance
  call,       \* the processQueue calls of each instance
  succeeded,  \* history: jobs whose function returned
  reset,      \* history: how often a start requeued the job
  unsaved,    \* history: jobs whose success a failing statement turned down
  lost,       \* history: jobs whose last holder died
  dropped,    \* history: jobs whose last claim met a run that was leaving
  retries, crashes, faults

vars == <<target, job, server, running, call, succeeded, reset, unsaved, lost,
          dropped, retries, crashes, faults>>
history == <<succeeded, reset, unsaved>>
fates == <<lost, dropped>>
budgets == <<retries, crashes, faults>>

Calls == Workers \X Slots
Statuses == {"absent", "queued", "processing", "completed", "dead_letter"}
Absent == [status |-> "absent", attempts |-> 0, max |-> 1, due |-> FALSE]
Rows == [status : Statuses, attempts : Nat, max : 1 .. MaxAttempts, due : BOOLEAN]

\* claiming: awaits the claim; claimed: the claim has committed; taken: the job
\* is in runningJobs; running, returned: the function runs, has returned; ok,
\* error: the outcome is to be written.  A run that is leaving has written it.
Holding == {"claimed", "taken", "running", "returned", "ok", "error"}
Idle == [stage |-> "none", id |-> NoJob, attempt |-> 0, max |-> 0]
Claiming == [Idle EXCEPT !.stage = "claiming"]
Tasks == {Idle, Claiming} \cup
         [stage : Holding \cup {"leaving"}, id : Jobs, attempt : Nat, max : 1 .. MaxAttempts]

TypeOK ==
  /\ target \in {"draft", "active", "deleted"}
  /\ job \in [Jobs -> Rows]
  /\ server \in [Workers -> {"down", "up", "stopped"}]
  /\ running \in [Workers -> SUBSET Jobs]
  /\ call \in [Calls -> Tasks]
  /\ succeeded \in SUBSET Jobs
  /\ reset \in [Jobs -> Nat]
  /\ unsaved \in SUBSET Jobs /\ lost \in SUBSET Jobs /\ dropped \in SUBSET Jobs
  /\ retries \in Nat /\ crashes \in Nat /\ faults \in Nat

\* createFunction() has inserted the function; no instance has started yet.
Init ==
  /\ target = "draft"
  /\ job = [i \in Jobs |-> Absent]
  /\ server = [w \in Workers |-> "down"]
  /\ running = [w \in Workers |-> {}]
  /\ call = [c \in Calls |-> Idle]
  /\ succeeded = {} /\ reset = [i \in Jobs |-> 0] /\ unsaved = {} /\ lost = {} /\ dropped = {}
  /\ retries = 0 /\ crashes = 0 /\ faults = 0

Exists(i) == job[i].status # "absent"
Processing == {i \in Jobs : job[i].status = "processing"}

-----------------------------------------------------------------------------
(* The console's and the runtime's operations.                             *)

Deploy ==
  /\ target = "draft" /\ target' = "active"
  /\ UNCHANGED <<job, server, running, call, history, fates, budgets>>

\* The jobs go with the function (ON DELETE CASCADE).
DeleteFunction ==
  /\ target # "deleted" /\ target' = "deleted"
  /\ job' = [i \in Jobs |-> Absent]
  /\ UNCHANGED <<server, running, call, history, fates, budgets>>

\* options.maxAttempts || 3, clamped.
Limit(n) == IF n = 0 THEN DefaultAttempts ELSE IF n > MaxAttempts THEN MaxAttempts ELSE n

\* enqueue(): a foreign key refuses the row of a deleted function.
Enqueue(i) ==
  /\ target # "deleted" /\ ~Exists(i)
  /\ \E n \in 0 .. MaxAttempts + 1, due \in BOOLEAN :
       job' = [job EXCEPT ![i] = [status |-> "queued", attempts |-> 0,
                                  max |-> Limit(n), due |-> due]]
  /\ UNCHANGED <<target, server, running, call, history, fates, budgets>>

\* retryJob(): a dead job starts over.
Retry(i) ==
  /\ job[i].status = "dead_letter" /\ retries < MaxRetries
  /\ job' = [job EXCEPT ![i].status = "queued", ![i].attempts = 0, ![i].due = TRUE]
  /\ retries' = retries + 1
  /\ UNCHANGED <<target, server, running, call, history, fates, crashes, faults>>

-----------------------------------------------------------------------------
(* The instances.                                                          *)

\* The mutant forgets the jobs that were being processed.
ResetNothing == {}
\* The jobs start() requeues: all in processing, whoever processes them.
Interrupted == Processing

Start(w) ==
  /\ server[w] = "down"
  /\ server' = [server EXCEPT ![w] = "up"]
  /\ job' = [i \in Jobs |-> IF i \in Interrupted
                            THEN [job[i] EXCEPT !.status = "queued"] ELSE job[i]]
  /\ reset' = [i \in Jobs |-> IF i \in Interrupted THEN reset[i] + 1 ELSE reset[i]]
  /\ UNCHANGED <<target, running, call, succeeded, unsaved, fates, budgets>>

\* stop(): the calls in flight go on until the process ends.
Stop(w) ==
  /\ server[w] = "up" /\ crashes < MaxCrashes
  /\ server' = [server EXCEPT ![w] = "stopped"]
  /\ crashes' = crashes + 1
  /\ UNCHANGED <<target, job, running, call, history, fates, retries, faults>>

\* What the instance kept in memory is gone.
Die(w) ==
  /\ server' = [server EXCEPT ![w] = "down"]
  /\ running' = [running EXCEPT ![w] = {}]
  /\ call' = [c \in Calls |-> IF c[1] = w THEN Idle ELSE call[c]]
  /\ lost' = lost \cup {i \in Jobs :
       \E c \in Calls : c[1] = w /\ call[c].stage \in Holding /\ call[c].id = i}
  /\ UNCHANGED <<target, job, history, dropped, retries, faults>>

\* The process ends after stop(), in a crash, or because the statement that
\* writes a failure fails and nobody handles the rejected processQueue().
Exit(w) == server[w] = "stopped" /\ Die(w) /\ UNCHANGED crashes
Crash(w) ==
  /\ server[w] = "up" /\ crashes < MaxCrashes
  /\ crashes' = crashes + 1
  /\ Die(w)

-----------------------------------------------------------------------------
(* processQueue()                                                          *)

\* The limit is looked at before the claim is awaited.
Begin(c) ==
  /\ server[c[1]] = "up" /\ call[c].stage = "none"
  /\ Cardinality(running[c[1]]) < MaxConcurrent
  /\ call' = [call EXCEPT ![c] = Claiming]
  /\ UNCHANGED <<target, job, server, running, history, fates, budgets>>

\* The mutants: the claim's WHERE lets processed, or completed, jobs through.
DueTwice == {i \in Jobs : job[i].status \in {"queued", "processing"} /\ job[i].due}
DueAgain == {i \in Jobs : job[i].status \in {"queued", "completed"} /\ job[i].due}
Due == {i \in Jobs : job[i].status = "queued" /\ job[i].due}

\* ORDER BY priority DESC; jobs of one priority in any order.
Claim(c) ==
  /\ call[c].stage = "claiming"
  /\ \/ /\ Due = {}
        /\ call' = [call EXCEPT ![c] = Idle]
        /\ UNCHANGED <<job, fates>>
     \/ \E i \in Due :
        /\ i \in Urgent \/ Due \cap Urgent = {}
        /\ job' = [job EXCEPT ![i].status = "processing", ![i].attempts = @ + 1]
        /\ call' = [call EXCEPT ![c] =
             [stage |-> "claimed", id |-> i, attempt |-> job[i].attempts + 1,
              max |-> job[i].max]]
        /\ lost' = lost \ {i} /\ dropped' = dropped \ {i}
  /\ UNCHANGED <<target, server, running, history, budgets>>

HasIt(c) == call[c].id \in running[c[1]]
\* The instance's other run of the job has written its outcome already.
MeetsLeaving(c) ==
  \E d \in Calls : d[1] = c[1] /\ call[d].stage = "leaving" /\ call[d].id = call[c].id

\* A claimed job that this instance runs already, or has not yet taken out of
\* runningJobs, is dropped, still processing.
Take(c) ==
  /\ call[c].stage = "claimed"
  /\ IF HasIt(c)
     THEN /\ call' = [call EXCEPT ![c] = Idle]
          /\ dropped' = IF MeetsLeaving(c) THEN dropped \cup {call[c].id} ELSE dropped
          /\ UNCHANGED running
     ELSE /\ call' = [call EXCEPT ![c].stage = "taken"]
          /\ running' = [running EXCEPT ![c[1]] = @ \cup {call[c].id}]
          /\ UNCHANGED dropped
  /\ UNCHANGED <<target, job, server, history, lost, budgets>>

\* execute(): only a deployed function runs.
Invoke(c) ==
  /\ call[c].stage = "taken"
  /\ call' = [call EXCEPT ![c].stage = IF target = "active" THEN "running" ELSE "error"]
  /\ UNCHANGED <<target, job, server, running, history, fates, budgets>>

\* The function returns, or throws, or runs into its timeout.
Return(c) ==
  /\ call[c].stage = "running"
  /\ \/ /\ call' = [call EXCEPT ![c].stage = "returned"]
        /\ succeeded' = succeeded \cup {call[c].id}
     \/ /\ call' = [call EXCEPT ![c].stage = "error"]
        /\ UNCHANGED succeeded
  /\ UNCHANGED <<target, job, server, running, reset, unsaved, fates, budgets>>

\* recordExecution(), the closing log line and the audit entry.
Record(c) ==
  /\ call[c].stage = "returned"
  /\ call' = [call EXCEPT ![c].stage = "ok"]
  /\ UNCHANGED <<target, job, server, running, history, fates, budgets>>

\* A statement after the return fails: the catch blocks count a failure.
RecordFails(c) ==
  /\ call[c].stage \in {"returned", "ok"} /\ faults < MaxFaults
  /\ call' = [call EXCEPT ![c].stage = "error"]
  /\ unsaved' = unsaved \cup {call[c].id}
  /\ faults' = faults + 1
  /\ UNCHANGED <<target, job, server, running, succeeded, reset, fates, retries, crashes>>

\* The outcome is written WHERE id and nothing else.
Complete(c) ==
  /\ call[c].stage = "ok"
  /\ job' = IF Exists(call[c].id) THEN [job EXCEPT ![call[c].id].status = "completed"]
            ELSE job
  /\ call' = [call EXCEPT ![c].stage = "leaving"]
  /\ UNCHANGED <<target, server, running, history, fates, budgets>>

\* The mutant is off by one.
ExhaustedLate(c) == call[c].attempt > call[c].max
Exhausted(c) == call[c].attempt >= call[c].max

Fail(c) ==
  /\ call[c].stage = "error"
  /\ job' = IF ~Exists(call[c].id) THEN job
            ELSE IF Exhausted(c) THEN [job EXCEPT ![call[c].id].status = "dead_letter"]
            ELSE [job EXCEPT ![call[c].id].status = "queued", ![call[c].id].due = FALSE]
  /\ call' = [call EXCEPT ![c].stage = "leaving"]
  /\ UNCHANGED <<target, server, running, history, fates, budgets>>

\* finally, when the answer of that statement is in: the job leaves runningJobs.
\* The mutant forgets to remove it.
LeaveNothing(c) ==
  /\ call[c].stage = "leaving"
  /\ call' = [call EXCEPT ![c] = Idle]
  /\ UNCHANGED <<target, job, server, running, history, fates, budgets>>
Leave(c) ==
  /\ call[c].stage = "leaving"
  /\ call' = [call EXCEPT ![c] = Idle]
  /\ running' = [running EXCEPT ![c[1]] = @ \ {call[c].id}]
  /\ UNCHANGED <<target, job, server, history, fates, budgets>>

\* A delay or a backoff has run out.
BecomeDue(i) ==
  /\ job[i].status = "queued" /\ ~job[i].due
  /\ job' = [job EXCEPT ![i].due = TRUE]
  /\ UNCHANGED <<target, server, running, call, history, fates, budgets>>

Console == Deploy \/ DeleteFunction \/ \E i \in Jobs : Enqueue(i) \/ Retry(i)

Progress(c) ==
  \/ Begin(c) \/ Claim(c) \/ Take(c) \/ Invoke(c) \/ Return(c) \/ Record(c)
  \/ Complete(c) \/ Fail(c) \/ Leave(c)

Next ==
  \/ Console
  \/ \E w \in Workers : Start(w) \/ Stop(w) \/ Exit(w) \/ Crash(w)
  \/ \E c \in Calls : Progress(c) \/ RecordFails(c)
  \/ \E i \in Jobs : BecomeDue(i)

Spec == Init /\ [][Next]_vars

\* The timers call processQueue for ever, the runtime's timeout ends every
\* execution, delays run out and a process that is down is started again.
Fairness ==
  /\ \A c \in Calls : WF_vars(Progress(c))
  /\ \A w \in Workers : WF_vars(Start(w)) /\ WF_vars(Exit(w))
  /\ \A i \in Jobs : WF_vars(BecomeDue(i))

FairSpec == Spec /\ Fairness
-----------------------------------------------------------------------------
(* Properties                                                              *)

CallsOf(i) == {c \in Calls : call[c].stage \in Holding /\ call[c].id = i}

\* A job in processing is in somebody's hands, or its holder died, or the
\* instance that claimed it last dropped it while its own earlier run of the
\* job had written the outcome and not yet left runningJobs: a retry out of the
\* dead letters, or a backoff, was faster than the answer of that statement.
\* Dropped at any other moment, the job is left to a run that will settle it.
ProcessingIsInHand ==
  \A i \in Processing : CallsOf(i) # {} \/ i \in lost \/ i \in dropped

\* Without a start that requeues it, a job is in one call at a time, its row
\* says so, and the call carries the attempt the row counts.
OneRunPerJob ==
  \A i \in Jobs : reset[i] = 0 =>
    \A c \in CallsOf(i) :
      /\ job[i].status \in {"processing", "absent"}
      /\ Exists(i) => call[c].attempt = job[i].attempts
      /\ CallsOf(i) = {c}

\* A job is claimed at most max_attempts times since it was last retried, and
\* once more for every start that requeued it, late outcomes included.
AttemptBudget == \A i \in Jobs : job[i].attempts <= job[i].max + reset[i]

\* The queue and the function agree: a completed job has run to its end, and a
\* job that has is neither dead nor waiting for another run, unless a start
\* requeued it or its success could not be saved.
OutcomeMatchesFunction ==
  \A i \in Jobs :
    /\ job[i].status = "completed" => i \in succeeded
    /\ reset[i] = 0 /\ i \notin unsaved /\ job[i].status \in {"queued", "dead_letter"}
       => i \notin succeeded

\* Every job ends completed, dead or deleted, restarts and failing statements
\* on the way included, or stays in processing because its claim was dropped by
\* an instance whose earlier run of it was leaving, and no instance has started
\* since.
Settled(i) == job[i].status \in {"absent", "completed", "dead_letter"}
Stranded(i) == job[i].status = "processing" /\ i \in dropped
EveryJobSettles == \A i \in Jobs : <>[](Settled(i) \/ Stranded(i))
=============================================================================
