---------------------------- MODULE JobScheduler ----------------------------
(***************************************************************************)
(* The background job scheduler of loom-server (loom-server-jobs) and the  *)
(* job_runs table it writes (loom-server-db/src/job.rs).                   *)
(*                                                                         *)
(* Each periodic job has a tokio task that sleeps, runs the job with       *)
(* retries and sleeps again; an administrator's request runs the same job  *)
(* in the request's own task.  All of them share the job's cancellation    *)
(* token.  A shutdown is a broadcast the periodic tasks see only between   *)
(* runs.  The process may crash, or exit after the shutdown; the table     *)
(* stays.                                                                  *)
(*                                                                         *)
(* started_at orders the rows; here a row's place in the sequence does,    *)
(* and is its run_id.  The clock is left out: a sleeping task may wake.    *)
(***************************************************************************)
EXTENDS Naturals, Sequences, FiniteSets

CONSTANTS
  Periodic,    \* jobs registered with register_periodic
  OneShot,     \* jobs registered with register_one_shot
  Caller,      \* requests that may trigger a job
  MaxRetries,  \* MAX_RETRIES
  MaxRuns,     \* bound on the rows of job_runs
  MaxDbErrors, \* bound on failing writes to the database
  MaxRestarts  \* bound on crashes and exits

Job  == Periodic \cup OneShot
Task == Periodic \cup Caller
NoRun == 0

ASSUME SchedulerAssumption ==
  /\ Caller \cap Job = {}
  /\ MaxRetries \in Nat /\ MaxRuns \in Nat
  /\ MaxDbErrors \in Nat /\ MaxRestarts \in Nat

VARIABLES
  phase,    \* "new", "up", "stopping" (broadcast sent) or "stopped"
  task,     \* the tasks: where they are, the run and its retry_count
  token,    \* the cancelled jobs (CancellationToken)
  rows,     \* table job_runs
  enabled,  \* job_definitions.enabled, for the jobs defined so far
  orphaned, \* history: runs whose outcome was never written
  calls,    \* history: calls of job.run, per run
  cancels,  \* history: runs live at some cancel_job of their job
  dbErrors, restarts

vars == <<phase, task, token, rows, enabled, orphaned, calls, cancels,
          dbErrors, restarts>>

Process == <<phase, token, enabled, restarts>>

Idle == [pc |-> "idle", run |-> NoRun, retry |-> 0]
At(pc) == [Idle EXCEPT !.pc = pc]
Live(t) == task[t].pc \in {"running", "backoff"}
JobOf(t) == rows[task[t].run].job

\* Every variable has its type, and a retry count stays within MAX_RETRIES.
TypeOK ==
  /\ phase \in {"new", "up", "stopping", "stopped"}
  /\ task \in [Task -> [pc : {"idle", "sleep", "running", "backoff",
                              "leaving", "exited"},
                        run : 0..MaxRuns, retry : 0..MaxRetries]]
  /\ token \subseteq Job
  /\ rows \in Seq([job : Job, by : {"schedule", "manual"},
                   status : {"running", "succeeded", "failed", "cancelled"}])
  /\ Len(rows) <= MaxRuns
  /\ enabled \in [Job -> BOOLEAN]
  /\ orphaned \subseteq 1..MaxRuns /\ cancels \subseteq 1..MaxRuns
  /\ calls \in [1..MaxRuns -> Nat]
  /\ dbErrors \in 0..MaxDbErrors /\ restarts \in 0..MaxRestarts

Init ==
  /\ phase = "new"
  /\ task = [t \in Task |-> Idle]
  /\ token = {} /\ rows = <<>>
  /\ enabled = [j \in Job |-> TRUE]
  /\ orphaned = {} /\ cancels = {}
  /\ calls = [r \in 1..MaxRuns |-> 0]
  /\ dbErrors = 0 /\ restarts = 0

------------------------------------------------------------------------------
\* start: every definition is upserted with enabled = true, every periodic
\* job gets its task.  A database error stops the loop over the HashMap: the
\* jobs not reached (all but S) are never scheduled, and the server goes on.
Start(S) ==
  /\ phase = "new"
  /\ phase' = "up"
  /\ S # Job => dbErrors < MaxDbErrors
  /\ dbErrors' = IF S = Job THEN dbErrors ELSE dbErrors + 1
  /\ enabled' = [j \in Job |-> j \in S \/ enabled[j]]
  /\ task' = [t \in Task |-> IF t \in S THEN At("sleep") ELSE task[t]]
  /\ UNCHANGED <<token, rows, orphaned, calls, cancels, restarts>>

\* run_job_with_retry up to the first job.run.  (If record_run_start fails
\* the task is where it was and nothing has changed.)
BeginRun(t, j, by) ==
  /\ Len(rows) < MaxRuns
  /\ rows' = Append(rows, [job |-> j, by |-> by, status |-> "running"])
  /\ task' = [task EXCEPT ![t] = [pc |-> "running", run |-> Len(rows'),
                                  retry |-> 0]]
  /\ calls' = [calls EXCEPT ![Len(rows')] = 1]
  /\ UNCHANGED <<Process, orphaned, cancels, dbErrors>>

\* The sleep branch of select!.  A sleep that ends in the same poll as the
\* broadcast may still win; a cancelled job is skipped (continue).
Tick(j) == task[j].pc = "sleep" /\ j \notin token /\ BeginRun(j, j, "schedule")

\* trigger_job, from POST /api/admin/jobs/{job_id}/run: it looks at neither
\* the token, nor enabled, nor the shutdown, during which the connections
\* that are open are still served.
trigger_job(c, j) ==
  /\ phase \in {"up", "stopping", "stopped"} /\ task[c].pc = "idle"
  /\ BeginRun(c, j, "manual")

\* Where a task is once run_job_with_retry has returned.  With the broadcast
\* waiting and a fresh sleep, select! can only take the shutdown branch.
Returned(t) == IF t \in Caller THEN Idle
               ELSE IF phase = "up" THEN At("sleep") ELSE At("leaving")

\* Mutant: the newest row is completed instead of the run's own.
Finish_newest(t, status) ==
  /\ task' = [task EXCEPT ![t] = Returned(t)]
  /\ rows' = [rows EXCEPT ![Len(rows)].status = status]
  /\ UNCHANGED <<Process, orphaned, calls, cancels, dbErrors>>

\* record_run_complete and return; if the UPDATE fails, `?` returns and the
\* row says "running" for ever.
Finish(t, status) ==
  /\ task' = [task EXCEPT ![t] = Returned(t)]
  /\ \/ /\ rows' = [rows EXCEPT ![task[t].run].status = status]
        /\ UNCHANGED <<orphaned, dbErrors>>
     \/ /\ dbErrors < MaxDbErrors /\ dbErrors' = dbErrors + 1
        /\ orphaned' = orphaned \cup {task[t].run}
        /\ UNCHANGED rows
  /\ UNCHANGED <<Process, calls, cancels>>

Succeed(t) == task[t].pc = "running" /\ Finish(t, "succeeded")

\* A job that finds its token cancelled returns JobError::Cancelled.
Cancelled(t) == /\ task[t].pc = "running" /\ JobOf(t) \in token
                /\ Finish(t, "cancelled")

\* The client that triggered a run hangs up, and the run is dropped with the
\* request's task: nothing completes its row.
Hangup(c) ==
  /\ Live(c)
  /\ task' = [task EXCEPT ![c] = Idle]
  /\ orphaned' = orphaned \cup {task[c].run}
  /\ UNCHANGED <<Process, rows, calls, cancels, dbErrors>>

\* A scheduled job.run panics: its task ends for good, nothing completes the
\* row, and shutdown finds a JoinHandle that has ended.  (A panic in a
\* triggered run drops the request's task, as Hangup does.)
Panic(j) ==
  /\ task[j].pc = "running"
  /\ task' = [task EXCEPT ![j] = At("exited")]
  /\ orphaned' = orphaned \cup {task[j].run}
  /\ UNCHANGED <<Process, rows, calls, cancels, dbErrors>>

\* JobError::Failed that is not retryable or out of retries, and any other
\* error.
Fail(t) == task[t].pc = "running" /\ Finish(t, "failed")

\* Mutant: one retry too many.
FailRetryable_once_more(t) ==
  /\ task[t].pc = "running" /\ task[t].retry <= MaxRetries
  /\ task' = [task EXCEPT ![t].pc = "backoff", ![t].retry = @ + 1]
  /\ UNCHANGED <<Process, rows, orphaned, calls, cancels, dbErrors>>

\* Mutant: the retries are not counted.
FailRetryable_uncounted(t) ==
  /\ task[t].pc = "running" /\ task[t].retry < MaxRetries
  /\ task' = [task EXCEPT ![t].pc = "backoff"]
  /\ UNCHANGED <<Process, rows, orphaned, calls, cancels, dbErrors>>

\* JobError::Failed { retryable: true } with retries left: sleep and go on.
FailRetryable(t) ==
  /\ task[t].pc = "running" /\ task[t].retry < MaxRetries
  /\ task' = [task EXCEPT ![t].pc = "backoff", ![t].retry = @ + 1]
  /\ UNCHANGED <<Process, rows, orphaned, calls, cancels, dbErrors>>

\* The backoff sleep ends; neither a shutdown nor a cancel interrupts it.
Retry(t) ==
  /\ task[t].pc = "backoff"
  /\ task' = [task EXCEPT ![t].pc = "running"]
  /\ calls' = [calls EXCEPT ![task[t].run] = @ + 1]
  /\ UNCHANGED <<Process, rows, orphaned, cancels, dbErrors>>

\* cancel_job: the token is never reset.
cancel_job(j) ==
  /\ phase # "new" /\ j \notin token
  /\ token' = token \cup {j}
  /\ cancels' = cancels \cup {task[t].run : t \in {u \in Task :
                                              Live(u) /\ JobOf(u) = j}}
  /\ UNCHANGED <<phase, task, rows, enabled, orphaned, calls, dbErrors,
                 restarts>>

\* set_enabled, from the enable and disable routes: only the row changes.
set_enabled(j) ==
  /\ phase # "new"
  /\ enabled' = [enabled EXCEPT ![j] = ~@]
  /\ UNCHANGED <<phase, task, token, rows, orphaned, calls, cancels,
                 dbErrors, restarts>>

\* shutdown: the broadcast, ...
ShutdownSend ==
  /\ phase = "up" /\ phase' = "stopping"
  /\ UNCHANGED <<task, token, rows, enabled, orphaned, calls, cancels,
                 dbErrors, restarts>>

\* Mutant: the shutdown branch goes round the loop.
TaskExit_continue(j) ==
  /\ phase = "stopping" /\ task[j].pc \in {"sleep", "leaving"}
  /\ task' = [task EXCEPT ![j] = At("sleep")]
  /\ UNCHANGED <<Process, rows, orphaned, calls, cancels, dbErrors>>

\* ... which ends a task that is not inside a run, ...
TaskExit(j) ==
  /\ phase = "stopping" /\ task[j].pc \in {"sleep", "leaving"}
  /\ task' = [task EXCEPT ![j] = At("exited")]
  /\ UNCHANGED <<Process, rows, orphaned, calls, cancels, dbErrors>>

\* Mutant: the handles are dropped, not awaited.
ShutdownDone_detached ==
  /\ phase = "stopping"
  /\ phase' = "stopped"
  /\ UNCHANGED <<task, token, rows, enabled, orphaned, calls, cancels,
                 dbErrors, restarts>>

\* ... and the wait for every JoinHandle.
ShutdownDone ==
  /\ phase = "stopping"
  /\ \A j \in Periodic : task[j].pc \in {"idle", "exited"}
  /\ phase' = "stopped"
  /\ UNCHANGED <<task, token, rows, enabled, orphaned, calls, cancels,
                 dbErrors, restarts>>

\* A crash at any time, or the exit of main after the shutdown: the next
\* process has a new scheduler and the old table.
Restart ==
  /\ phase # "new" /\ restarts < MaxRestarts
  /\ restarts' = restarts + 1
  /\ phase' = "new" /\ token' = {}
  /\ orphaned' = orphaned \cup {task[t].run : t \in {u \in Task : Live(u)}}
  /\ task' = [t \in Task |-> Idle]
  /\ UNCHANGED <<rows, enabled, calls, cancels, dbErrors>>

RunStep(t) == \/ Succeed(t) \/ Cancelled(t) \/ Fail(t) \/ FailRetryable(t)
              \/ Retry(t)

Next ==
  \/ \E S \in SUBSET Job : Start(S)
  \/ \E j \in Periodic : Tick(j) \/ TaskExit(j) \/ Panic(j)
  \/ \E c \in Caller : Hangup(c) \/ \E j \in Job : trigger_job(c, j)
  \/ \E t \in Task : RunStep(t)
  \/ \E j \in Job : cancel_job(j) \/ set_enabled(j)
  \/ ShutdownSend \/ ShutdownDone \/ Restart

Spec == Init /\ [][Next]_vars

\* job.run returns and sleeps end; a broadcast is received; awaits resume.
Fairness == /\ \A t \in Task : WF_vars(RunStep(t))
            /\ \A j \in Periodic : WF_vars(TaskExit(j))
            /\ WF_vars(ShutdownDone)

FairSpec == Spec /\ Fairness

------------------------------------------------------------------------------
(* Health, as GET /api/admin/jobs and the health endpoint compute it.       *)

Runs(j) == {r \in 1..Len(rows) : rows[r].job = j}

\* count_consecutive_failures: the failed rows newer than any other.
count_consecutive_failures(j) ==
  Cardinality({r \in Runs(j) :
                 \A q \in Runs(j) : q >= r => rows[q].status = "failed"})

\* get_last_run: the row with the greatest started_at.
LastStatus(j) == IF Runs(j) = {} THEN "none"
                 ELSE rows[CHOOSE r \in Runs(j) : \A q \in Runs(j) : q <= r].status

determine_health_state(j) ==
  LET n == count_consecutive_failures(j)
  IN IF LastStatus(j) # "failed" THEN "Healthy"
     ELSE IF n >= 3 THEN "Unhealthy" ELSE IF n >= 1 THEN "Degraded"
     ELSE "Healthy"

------------------------------------------------------------------------------
(* Properties.                                                              *)

\* The table and the tasks agree through retries, failed writes, manual runs
\* beside scheduled ones and restarts: a row says "running" exactly while one
\* task works on it, or when nobody could write its outcome: the UPDATE
\* failed, the job panicked, the process died or the caller hung up
\* (run_job_with_retry).
RunningRowsHaveOneRunner ==
  /\ \A r \in 1..Len(rows) :
       rows[r].status = "running" <=>
         \/ r \in orphaned
         \/ \E t \in Task : Live(t) /\ task[t].run = r
  /\ \A t, u \in Task : Live(t) /\ Live(u) /\ task[t].run = task[u].run => t = u
  /\ \A t \in Task : Live(t) => task[t].run \in 1..Len(rows)

\* A run calls job.run at most once more than MAX_RETRIES, also across a
\* restart: no row is ever taken up again.
CallsBounded == \A r \in 1..MaxRuns : calls[r] <= MaxRetries + 1

\* Once shutdown has returned, no scheduled run is under way and no periodic
\* task is left to start one.
ShutdownQuiesces ==
  phase = "stopped" =>
    /\ \A j \in Periodic : task[j].pc \in {"idle", "exited"}
    /\ \A r \in 1..Len(rows) :
         rows[r].status = "running" /\ rows[r].by = "schedule" => r \in orphaned

\* The history is never rewritten: rows stay and an outcome is final, however
\* scheduled and manual runs of a job overlap (record_run_complete).  The
\* retention job, which deletes old completed rows, is not part of the model.
OutcomesFinal ==
  [][/\ Len(rows') >= Len(rows)
     /\ \A r \in 1..Len(rows) :
          rows[r].status # "running" => rows'[r] = rows[r]]_vars

\* How bad the state reported for a job is.
Severity(j) == CASE determine_health_state(j) = "Unhealthy" -> 2
                 [] determine_health_state(j) = "Degraded"  -> 1
                 [] OTHER                                   -> 0

\* The health reported for a job gets better only when a newer run of it
\* starts: an older run that ends late, successful or not, a cancel, a
\* disabled job, a shutdown and a restart never clear what the newest failures
\* raised (determine_health_state).  That starting is enough, and success is
\* not needed, is the code's rule, not the specification's.
AlarmClearedOnlyByNewRun ==
  [][\A j \in Job : Runs(j)' = Runs(j) => Severity(j) <= Severity(j)']_vars

\* A shutdown returns although runs retry and back off, unless the process
\* dies first.
ShutdownCompletes == phase = "stopping" ~> phase \in {"stopped", "new"}

\* Doc: "Cancel a running job."  Only a run that was live when its job was
\* cancelled ends as cancelled.
DocCancelHitsRunningJob ==
  \A r \in 1..Len(rows) : rows[r].status = "cancelled" => r \in cancels
==============================================================================
