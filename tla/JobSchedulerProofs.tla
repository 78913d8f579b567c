-------------------------- MODULE JobSchedulerProofs --------------------------
(***************************************************************************)
(* Proofs about JobScheduler, for any jobs, callers and retry limit, and   *)
(* however often the database fails and the process dies.                  *)
(***************************************************************************)
EXTENDS JobScheduler, FiniteSetTheorems, SequenceTheorems, TLAPS

TaskType == [pc : {"idle", "sleep", "running", "backoff", "leaving", "exited"},
             run : 0..MaxRuns, retry : 0..MaxRetries]
Status == {"running", "succeeded", "failed", "cancelled"}
RowType == [job : Job, by : {"schedule", "manual"}, status : Status]

\* A run that nobody completed is a run, and nobody works on it any more.
OrphansOver ==
  /\ orphaned \subseteq 1..Len(rows)
  /\ \A t \in Task : Live(t) => task[t].run \notin orphaned

\* A periodic task works on scheduled runs, a caller on manual ones.
RunsOwnKind ==
  \A t \in Task : Live(t) =>
    rows[task[t].run].by = IF t \in Periodic THEN "schedule" ELSE "manual"

\* In a run job.run has been called once more than the task has retried, or
\* as often while it backs off.
CallsCounted ==
  \A t \in Task :
    /\ task[t].pc = "running" => calls[task[t].run] = task[t].retry + 1
    /\ task[t].pc = "backoff" => calls[task[t].run] = task[t].retry

\* Before start there are no tasks; once shutdown has returned the periodic
\* ones are over.
TasksOver ==
  /\ phase = "new" => \A t \in Task : task[t].pc = "idle"
  /\ phase = "stopped" => \A j \in Periodic : task[j].pc \in {"idle", "exited"}

\* The inductive invariant.
SchedulerInv ==
  /\ TypeOK /\ RunningRowsHaveOneRunner /\ OrphansOver /\ RunsOwnKind
  /\ CallsCounted /\ CallsBounded /\ TasksOver

\* TypeOK, with the length of the table as a number.
LEMMA Typing ==
  ASSUME TypeOK
  PROVE  /\ task \in [Task -> TaskType]
         /\ rows \in Seq(RowType) /\ Len(rows) \in Nat /\ Len(rows) <= MaxRuns
         /\ \A r \in 1..Len(rows) : rows[r] \in RowType
         /\ calls \in [1..MaxRuns -> Nat]
         /\ orphaned \subseteq 1..MaxRuns /\ cancels \subseteq 1..MaxRuns
         /\ MaxRetries \in Nat /\ MaxRuns \in Nat
<1>1. rows \in Seq(RowType) /\ Len(rows) \in Nat
  BY DEF TypeOK, RowType, Status
<1>2. \A r \in 1..Len(rows) : rows[r] \in RowType
  BY <1>1
<1> QED BY <1>1, <1>2, SchedulerAssumption DEF TypeOK, TaskType

------------------------------------------------------------------------------
(* A run begins                                                             *)

\* The new row has a number nobody has used, and one runner.
LEMMA BeginRunStep ==
  ASSUME SchedulerInv, NEW t \in Task, NEW j \in Job, ~Live(t),
         NEW by, by = IF t \in Periodic THEN "schedule" ELSE "manual",
         phase # "new", phase = "stopped" => t \notin Periodic,
         BeginRun(t, j, by)
  PROVE  SchedulerInv'
<1> USE Typing DEF SchedulerInv
<1> DEFINE n == Len(rows) + 1
           row == [job |-> j, by |-> by, status |-> "running"]
           new == [pc |-> "running", run |-> n, retry |-> 0]
<1>1. row \in RowType BY DEF RowType, Status
<1>2. /\ rows' = Append(rows, row) /\ n \in 1..MaxRuns
      /\ UNCHANGED <<phase, token, enabled, restarts, orphaned, cancels, dbErrors>>
  BY DEF BeginRun, Process
<1>3. /\ rows' \in Seq(RowType) /\ Len(rows') = n /\ rows'[n] = row
      /\ \A r \in 1..Len(rows) : rows'[r] = rows[r]
  BY <1>1, <1>2, AppendProperties
<1>4. task' = [task EXCEPT ![t] = new] /\ calls' = [calls EXCEPT ![n] = 1]
  BY <1>3 DEF BeginRun
<1>5. 1..Len(rows') = 1..Len(rows) \cup {n} /\ n \notin 1..Len(rows)
  BY <1>3
<1>6. task'[t] = new /\ \A u \in Task \ {t} : task'[u] = task[u]
  BY <1>4
<1>7. calls'[n] = 1 /\ \A r \in 1..MaxRuns \ {n} : calls'[r] = calls[r]
  BY <1>2, <1>4
<1>8. Live(t)' /\ \A u \in Task \ {t} : Live(u)' <=> Live(u)
  BY <1>6 DEF Live
<1>9. \A u \in Task : Live(u) => u # t /\ task[u].run \in 1..Len(rows)
  BY DEF RunningRowsHaveOneRunner
<1>10. TypeOK'
  <2>1. new \in TaskType BY <1>2 DEF TaskType
  <2>2. calls' \in [1..MaxRuns -> Nat] BY <1>2, <1>4
  <2> QED BY <1>2, <1>3, <1>4, <2>1, <2>2 DEF TypeOK, TaskType, RowType, Status
<1>11. RunningRowsHaveOneRunner'
  <2>1. ASSUME NEW r \in 1..Len(rows)
        PROVE  rows'[r].status = "running" <=>
                 r \in orphaned \/ \E u \in Task : Live(u)' /\ task'[u].run = r
    <3>1. task'[t].run # r BY <1>5, <1>6
    <3>2. ASSUME NEW u \in Task
          PROVE  Live(u)' /\ task'[u].run = r <=> Live(u) /\ task[u].run = r
      <4>1. CASE u = t BY <3>1, <4>1
      <4>2. CASE u # t BY <1>6, <1>8, <4>2
      <4> QED BY <4>1, <4>2
    <3>3. rows[r].status = "running" <=>
            r \in orphaned \/ \E u \in Task : Live(u) /\ task[u].run = r
      BY DEF RunningRowsHaveOneRunner
    <3> QED BY <1>3, <3>2, <3>3
  <2>2. rows'[n].status = "running" BY <1>3
  <2>3. \E u \in Task : Live(u)' /\ task'[u].run = n BY <1>6, <1>8
  <2>4. \A r \in 1..Len(rows') :
          rows'[r].status = "running" <=>
            r \in orphaned' \/ \E u \in Task : Live(u)' /\ task'[u].run = r
    BY <1>2, <1>5, <2>1, <2>2, <2>3
  <2>5. \A u, v \in Task :
          Live(u)' /\ Live(v)' /\ task'[u].run = task'[v].run => u = v
    BY <1>5, <1>6, <1>8, <1>9 DEF RunningRowsHaveOneRunner
  <2>6. \A u \in Task : Live(u)' => task'[u].run \in 1..Len(rows')
    <3> SUFFICES ASSUME NEW u \in Task, Live(u)'
                 PROVE  task'[u].run \in 1..Len(rows')
      OBVIOUS
    <3>1. CASE u = t BY <1>5, <1>6, <3>1
    <3>2. CASE u # t BY <1>5, <1>6, <1>8, <1>9, <3>2
    <3> QED BY <3>1, <3>2
  <2> QED BY <2>4, <2>5, <2>6 DEF RunningRowsHaveOneRunner
<1>12. OrphansOver'
  BY <1>2, <1>5, <1>6, <1>8 DEF OrphansOver
<1>13. RunsOwnKind'
  BY <1>3, <1>6, <1>8, <1>9 DEF RunsOwnKind
<1>14. CallsCounted'
  <2>1. ASSUME NEW u \in Task, u # t
        PROVE  /\ task'[u].pc = "running" => calls'[task'[u].run] = task'[u].retry + 1
               /\ task'[u].pc = "backoff" => calls'[task'[u].run] = task'[u].retry
    BY <1>5, <1>6, <1>7, <1>9, <2>1 DEF CallsCounted, Live
  <2> QED BY <1>6, <1>7, <2>1 DEF CallsCounted
<1>15. CallsBounded'
  BY <1>7 DEF CallsBounded
<1>16. TasksOver'
  BY <1>2, <1>6 DEF TasksOver, Task
<1> QED BY <1>10, <1>11, <1>12, <1>13, <1>14, <1>15, <1>16

------------------------------------------------------------------------------
(* A run ends                                                               *)

\* Its row is completed, or it is one that nobody completed; since nobody
\* else works on it, the other rows and tasks are not concerned.
LEMMA EndRunStep ==
  ASSUME SchedulerInv, NEW t \in Task, Live(t),
         NEW new \in TaskType, new.pc \notin {"running", "backoff"},
         task' = [task EXCEPT ![t] = new],
         \/ /\ UNCHANGED orphaned
            /\ \E status \in Status \ {"running"} :
                 rows' = [rows EXCEPT ![task[t].run].status = status]
         \/ UNCHANGED rows /\ orphaned' = orphaned \cup {task[t].run},
         UNCHANGED <<Process, calls, cancels>>, dbErrors' \in 0..MaxDbErrors
  PROVE  SchedulerInv'
<1> USE Typing DEF SchedulerInv
<1> DEFINE n == task[t].run
<1>1. n \in 1..Len(rows) /\ rows[n].status = "running" /\ n \notin orphaned
  BY DEF RunningRowsHaveOneRunner, OrphansOver
<1>2. task'[t] = new /\ \A u \in Task \ {t} : task'[u] = task[u]
  OBVIOUS
<1>3. \A u \in Task : Live(u)' <=> u # t /\ Live(u)
  BY <1>2 DEF Live
<1>4. \A u \in Task : u # t /\ Live(u) => task[u].run # n /\ task[u].run \in 1..Len(rows)
  BY DEF RunningRowsHaveOneRunner
<1>5. /\ rows' \in Seq(RowType) /\ Len(rows') = Len(rows)
      /\ \A r \in 1..Len(rows) : rows'[r].by = rows[r].by
      /\ \A r \in 1..Len(rows) : r # n => rows'[r] = rows[r]
      /\ rows'[n].status = "running" <=> n \in orphaned'
  <2>1. CASE UNCHANGED rows /\ orphaned' = orphaned \cup {n}
    BY <1>1, <2>1
  <2>2. ASSUME UNCHANGED orphaned, NEW status \in Status \ {"running"},
               rows' = [rows EXCEPT ![n].status = status]
        PROVE  /\ rows' \in Seq(RowType) /\ Len(rows') = Len(rows)
               /\ \A r \in 1..Len(rows) : rows'[r].by = rows[r].by
               /\ \A r \in 1..Len(rows) : r # n => rows'[r] = rows[r]
               /\ rows'[n].status = "running" <=> n \in orphaned'
    <3>1. PICK row : row = [rows[n] EXCEPT !.status = status]
      OBVIOUS
    <3>2. rows[n] \in RowType BY <1>1
    <3>3. row \in RowType /\ row.by = rows[n].by /\ row.status = status
      BY <3>1, <3>2 DEF RowType
    <3>4. rows' = [rows EXCEPT ![n] = row] BY <2>2, <3>1
    <3>5. /\ rows' \in Seq(RowType) /\ Len(rows') = Len(rows)
          /\ \A r \in 1..Len(rows) : rows'[r] = IF r = n THEN row ELSE rows[r]
      BY <1>1, <3>3, <3>4, ExceptSeq
    <3> QED BY <1>1, <2>2, <3>3, <3>5
  <2> QED BY <2>1, <2>2
<1>6. orphaned' \subseteq orphaned \cup {n} /\ orphaned \subseteq orphaned'
  OBVIOUS
<1>7. TypeOK'
  <2>1. task' \in [Task -> TaskType] OBVIOUS
  <2>2. orphaned' \subseteq 1..MaxRuns BY <1>1, <1>6
  <2> QED BY <1>5, <2>1, <2>2 DEF TypeOK, TaskType, RowType, Status, Process
<1>8. RunningRowsHaveOneRunner'
  <2>1. ASSUME NEW r \in 1..Len(rows)
        PROVE  rows'[r].status = "running" <=>
                 r \in orphaned' \/ \E u \in Task : Live(u)' /\ task'[u].run = r
    <3>1. CASE r = n
      <4>1. \A u \in Task : Live(u)' => task'[u].run # n
        BY <1>2, <1>3, <1>4
      <4> QED BY <1>5, <3>1, <4>1
    <3>2. CASE r # n
      <4>1. rows[r].status = "running" <=>
              r \in orphaned \/ \E u \in Task : Live(u) /\ task[u].run = r
        BY DEF RunningRowsHaveOneRunner
      <4>2. \A u \in Task : Live(u)' /\ task'[u].run = r <=> Live(u) /\ task[u].run = r
        BY <1>2, <1>3, <3>2
      <4> QED BY <1>5, <1>6, <3>2, <4>1, <4>2
    <3> QED BY <3>1, <3>2
  <2>2. \A u, v \in Task :
          Live(u)' /\ Live(v)' /\ task'[u].run = task'[v].run => u = v
    BY <1>2, <1>3 DEF RunningRowsHaveOneRunner
  <2>3. \A u \in Task : Live(u)' => task'[u].run \in 1..Len(rows')
    BY <1>2, <1>3, <1>4, <1>5
  <2> QED BY <1>5, <2>1, <2>2, <2>3 DEF RunningRowsHaveOneRunner
<1>9. OrphansOver'
  <2>1. orphaned' \subseteq 1..Len(rows') BY <1>1, <1>5, <1>6 DEF OrphansOver
  <2>2. \A u \in Task : Live(u)' => task'[u].run \notin orphaned'
    BY <1>2, <1>3, <1>4, <1>6 DEF OrphansOver
  <2> QED BY <2>1, <2>2 DEF OrphansOver
<1>10. RunsOwnKind'
  BY <1>2, <1>3, <1>4, <1>5 DEF RunsOwnKind
<1>11. CallsCounted'
  BY <1>2 DEF CallsCounted
<1>12. CallsBounded'
  BY DEF CallsBounded
<1>13. TasksOver'
  <2>1. phase # "new" BY DEF TasksOver, Live
  <2>2. phase = "stopped" => t \notin Periodic BY DEF TasksOver, Live
  <2> QED BY <1>2, <2>1, <2>2 DEF TasksOver, Process, Task
<1> QED BY <1>7, <1>8, <1>9, <1>10, <1>11, <1>12, <1>13

\* The places a task goes to when it has no run.
LEMMA AtTyped ==
  ASSUME TypeOK, NEW pc \in {"idle", "sleep", "leaving", "exited"}
  PROVE  At(pc) \in TaskType /\ At(pc).pc = pc /\ At("idle") = Idle
<1>1. MaxRuns \in Nat /\ MaxRetries \in Nat BY SchedulerAssumption
<1>2. PICK x : x = At(pc) OBVIOUS
<1>3. x = [pc |-> pc, run |-> 0, retry |-> 0] BY <1>2 DEF At, Idle, NoRun
<1>4. x \in TaskType /\ x.pc = pc BY <1>1, <1>3 DEF TaskType
<1>5. PICK y : y = At("idle") OBVIOUS
<1>6. y = Idle BY <1>5 DEF At, Idle, NoRun
<1> QED BY <1>2, <1>4, <1>5, <1>6

\* record_run_complete, or a failing write of it.
LEMMA FinishStep ==
  ASSUME SchedulerInv, NEW t \in Task, Live(t),
         NEW status \in Status \ {"running"}, Finish(t, status)
  PROVE  SchedulerInv'
<1>1. TypeOK /\ SchedulerAssumption BY SchedulerAssumption DEF SchedulerInv
<1>2. PICK new : new = Returned(t) OBVIOUS
<1>3. new \in {At("idle"), At("sleep"), At("leaving")}
  BY <1>1, <1>2, AtTyped DEF Returned
<1>4. new \in TaskType /\ new.pc \notin {"running", "backoff"}
  BY <1>1, <1>3, AtTyped
<1>5. dbErrors' \in 0..MaxDbErrors
  BY <1>1 DEF Finish, TypeOK, SchedulerAssumption
<1> QED BY <1>2, <1>4, <1>5, EndRunStep DEF Finish

\* The request is dropped, or the job panics.
LEMMA DroppedStep ==
  ASSUME SchedulerInv, NEW t \in Task, Hangup(t) \/ Panic(t)
  PROVE  SchedulerInv'
<1>1. TypeOK BY DEF SchedulerInv
<1>2. Live(t) BY DEF Hangup, Panic, Live
<1>3. PICK new \in {At("idle"), At("exited")} : task' = [task EXCEPT ![t] = new]
  BY <1>1, AtTyped DEF Hangup, Panic
<1>4. new \in TaskType /\ new.pc \notin {"running", "backoff"}
  BY <1>1, AtTyped
<1>5. dbErrors' \in 0..MaxDbErrors
  BY <1>1 DEF Hangup, Panic, TypeOK
<1> QED BY <1>2, <1>3, <1>4, <1>5, EndRunStep DEF Hangup, Panic

------------------------------------------------------------------------------
(* The other steps                                                          *)

\* A run goes on: its task keeps it, and no row changes.
LEMMA GoOnStep ==
  ASSUME SchedulerInv, NEW t \in Task, FailRetryable(t) \/ Retry(t)
  PROVE  SchedulerInv'
<1> USE Typing DEF SchedulerInv
<1> DEFINE n == task[t].run
<1>1. Live(t) BY DEF FailRetryable, Retry, Live
<1>2. n \in 1..Len(rows) /\ n \in 1..MaxRuns BY <1>1 DEF RunningRowsHaveOneRunner
<1>3. PICK new \in TaskType :
        /\ task' = [task EXCEPT ![t] = new] /\ new.run = n
        /\ \/ /\ task[t].pc = "running" /\ new.pc = "backoff"
              /\ new.retry = task[t].retry + 1 /\ UNCHANGED calls
           \/ /\ task[t].pc = "backoff" /\ new.pc = "running"
              /\ new.retry = task[t].retry
              /\ calls' = [calls EXCEPT ![n] = @ + 1]
  <2> DEFINE old == task[t]
  <2>1. old \in TaskType OBVIOUS
  <2>2. CASE FailRetryable(t)
    <3>1. PICK new : new = [old EXCEPT !.pc = "backoff", !.retry = @ + 1]
      OBVIOUS
    <3>2. task' = [task EXCEPT ![t] = new] BY <2>2, <3>1 DEF FailRetryable
    <3>3. old.pc = "running" /\ old.retry < MaxRetries /\ UNCHANGED calls
      BY <2>2 DEF FailRetryable
    <3> HIDE DEF old
    <3>4. new = [pc |-> "backoff", run |-> old.run, retry |-> old.retry + 1]
      BY <2>1, <3>1 DEF TaskType
    <3>5. old.retry + 1 \in 0..MaxRetries BY <2>1, <3>3 DEF TaskType
    <3>6. new \in TaskType BY <2>1, <3>4, <3>5 DEF TaskType
    <3> QED BY <3>2, <3>3, <3>4, <3>6 DEF old
  <2>3. CASE Retry(t)
    <3>1. PICK new : new = [old EXCEPT !.pc = "running"]
      OBVIOUS
    <3>2. task' = [task EXCEPT ![t] = new] BY <2>3, <3>1 DEF Retry
    <3>3. old.pc = "backoff" /\ calls' = [calls EXCEPT ![old.run] = @ + 1]
      BY <2>3 DEF Retry
    <3> HIDE DEF old
    <3>4. new = [pc |-> "running", run |-> old.run, retry |-> old.retry]
      BY <2>1, <3>1 DEF TaskType
    <3>5. new \in TaskType BY <2>1, <3>4 DEF TaskType
    <3> QED BY <3>2, <3>3, <3>4, <3>5 DEF old
  <2> QED BY <2>2, <2>3
<1>4. UNCHANGED <<phase, token, enabled, restarts, rows, orphaned, cancels, dbErrors>>
  BY DEF FailRetryable, Retry, Process
<1>5. task'[t] = new /\ \A u \in Task \ {t} : task'[u] = task[u]
  BY <1>3
<1>6. \A u \in Task : (Live(u)' <=> Live(u)) /\ task'[u].run = task[u].run
  BY <1>1, <1>3, <1>5 DEF Live
<1>7. TypeOK'
  <2>1. calls' \in [1..MaxRuns -> Nat]
    <3>1. calls[n] + 1 \in Nat BY <1>2
    <3> QED BY <1>3, <3>1
  <2>2. task' \in [Task -> TaskType] BY <1>3
  <2> QED BY <1>4, <2>1, <2>2 DEF TypeOK, TaskType
<1>8. RunningRowsHaveOneRunner'
  BY <1>4, <1>6 DEF RunningRowsHaveOneRunner
<1>9. OrphansOver' /\ RunsOwnKind'
  BY <1>4, <1>6 DEF OrphansOver, RunsOwnKind
<1>10. \A u \in Task : u # t /\ Live(u) => task[u].run # n /\ task[u].run \in 1..MaxRuns
  BY <1>1 DEF RunningRowsHaveOneRunner
<1>11. CallsCounted'
  <2> SUFFICES ASSUME NEW u \in Task
      PROVE  /\ task'[u].pc = "running" => calls'[task'[u].run] = task'[u].retry + 1
             /\ task'[u].pc = "backoff" => calls'[task'[u].run] = task'[u].retry
    BY DEF CallsCounted
  <2>1. CASE u = t
    BY <1>2, <1>3, <1>5, <2>1 DEF CallsCounted, TaskType
  <2>2. CASE u # t
    BY <1>3, <1>5, <1>10, <2>2 DEF CallsCounted, Live
  <2> QED BY <2>1, <2>2
<1>12. CallsBounded'
  <2> SUFFICES ASSUME NEW r \in 1..MaxRuns PROVE calls'[r] <= MaxRetries + 1
    BY DEF CallsBounded
  <2>1. CASE r = n /\ task[t].pc = "backoff"
    <3>1. calls'[n] = calls[n] + 1 BY <1>2, <1>3, <2>1
    <3>2. calls[n] = task[t].retry BY <2>1 DEF CallsCounted
    <3>3. task[t].retry \in Nat /\ task[t].retry <= MaxRetries BY DEF TaskType
    <3> QED BY <2>1, <3>1, <3>2, <3>3
  <2>2. CASE ~(r = n /\ task[t].pc = "backoff")
    BY <1>3, <2>2 DEF CallsBounded
  <2> QED BY <2>1, <2>2
<1>13. TasksOver'
  <2>1. phase # "new" /\ (phase = "stopped" => t \notin Periodic)
    BY <1>1 DEF TasksOver, Live
  <2> QED BY <1>4, <1>5, <2>1 DEF TasksOver, Task
<1> QED BY <1>7, <1>8, <1>9, <1>11, <1>12, <1>13

\* Tasks that are between runs come and go.
LEMMA NoRunStep ==
  ASSUME SchedulerInv, TypeOK', TasksOver',
         \A t \in Task : Live(t) \/ Live(t)' => task'[t] = task[t],
         UNCHANGED <<rows, orphaned, calls>>
  PROVE  SchedulerInv'
<1> USE Typing DEF SchedulerInv
<1>1. \A t \in Task : /\ Live(t)' <=> Live(t)
                      /\ Live(t) => task'[t] = task[t]
  BY DEF Live
<1>2. RunningRowsHaveOneRunner' BY <1>1 DEF RunningRowsHaveOneRunner
<1>3. OrphansOver' /\ RunsOwnKind' BY <1>1 DEF OrphansOver, RunsOwnKind
<1>4. CallsCounted' BY <1>1 DEF CallsCounted, Live
<1>5. CallsBounded' BY DEF CallsBounded
<1> QED BY <1>2, <1>3, <1>4, <1>5

\* start: nothing was under way before.
LEMMA StartStep == ASSUME SchedulerInv, NEW S, Start(S) PROVE SchedulerInv'
<1> USE Typing DEF SchedulerInv
<1>1. \A t \in Task : task[t].pc = "idle" BY DEF Start, TasksOver
<1>2. At("sleep") \in TaskType /\ At("sleep").pc = "sleep" BY AtTyped
<1>3. task' = [t \in Task |-> IF t \in S THEN At("sleep") ELSE task[t]]
  BY DEF Start
<1>4. task' \in [Task -> TaskType] BY <1>2, <1>3
<1>5. \A t \in Task : ~Live(t) /\ ~Live(t)' BY <1>1, <1>2, <1>3 DEF Live
<1>6. TypeOK' BY <1>4, SchedulerAssumption DEF Start, TypeOK, TaskType
<1>7. TasksOver' BY DEF Start, TasksOver
<1> QED BY <1>5, <1>6, <1>7, NoRunStep DEF Start

\* A task leaves between runs.
LEMMA TaskExitStep ==
  ASSUME SchedulerInv, NEW j \in Periodic, TaskExit(j) PROVE SchedulerInv'
<1> USE Typing DEF SchedulerInv
<1>1. At("exited") \in TaskType /\ At("exited").pc = "exited" BY AtTyped
<1>2. task' = [task EXCEPT ![j] = At("exited")] /\ j \in Task BY DEF TaskExit, Task
<1>3. task' \in [Task -> TaskType] BY <1>1, <1>2
<1>4. task'[j].pc = "exited" /\ \A t \in Task \ {j} : task'[t] = task[t]
  BY <1>1, <1>2
<1>5. \A t \in Task : Live(t) \/ Live(t)' => task'[t] = task[t]
  BY <1>2, <1>4 DEF Live, TaskExit
<1>6. TypeOK' BY <1>3 DEF TaskExit, Process, TypeOK, TaskType
<1>7. TasksOver' BY DEF TaskExit, Process, TasksOver
<1> QED BY <1>5, <1>6, <1>7, NoRunStep DEF TaskExit

\* cancel, enable and the two ends of shutdown leave the tasks alone.
LEMMA ControlStep ==
  ASSUME SchedulerInv,
         \/ \E j \in Job : cancel_job(j) \/ set_enabled(j)
         \/ ShutdownSend \/ ShutdownDone \/ UNCHANGED vars
  PROVE  SchedulerInv'
<1> USE Typing DEF SchedulerInv
<1>1. UNCHANGED <<task, rows, orphaned, calls, dbErrors, restarts>>
  BY DEF cancel_job, set_enabled, ShutdownSend, ShutdownDone, vars
<1>2. TypeOK'
  <2>1. cancels' \subseteq 1..MaxRuns
    <3>1. ASSUME NEW j \in Job, cancel_job(j) PROVE cancels' \subseteq 1..MaxRuns
      <4>1. \A u \in Task : Live(u) => task[u].run \in 1..MaxRuns
        BY DEF RunningRowsHaveOneRunner
      <4> QED BY <3>1, <4>1 DEF cancel_job
    <3> QED BY <3>1 DEF set_enabled, ShutdownSend, ShutdownDone, vars
  <2>2. /\ phase' \in {"new", "up", "stopping", "stopped"} /\ token' \subseteq Job
        /\ enabled' \in [Job -> BOOLEAN]
    BY DEF TypeOK, cancel_job, set_enabled, ShutdownSend, ShutdownDone, vars
  <2> QED BY <1>1, <2>1, <2>2 DEF TypeOK
<1>3. TasksOver'
  BY <1>1 DEF TasksOver, cancel_job, set_enabled, ShutdownSend, ShutdownDone, vars
<1> QED BY <1>1, <1>2, <1>3, NoRunStep

\* A crash leaves the runs that were under way to nobody.
LEMMA RestartStep == ASSUME SchedulerInv, Restart PROVE SchedulerInv'
<1> USE Typing DEF SchedulerInv
<1> DEFINE cut == {task[t].run : t \in {u \in Task : Live(u)}}
<1>1. /\ orphaned' = orphaned \cup cut /\ task' = [t \in Task |-> Idle]
      /\ UNCHANGED <<rows, enabled, calls, cancels, dbErrors>> /\ phase' = "new"
      /\ token' = {} /\ restarts' = restarts + 1 /\ restarts < MaxRestarts
  BY DEF Restart
<1>2. Idle \in TaskType /\ Idle.pc = "idle" BY AtTyped
<1>3. \A t \in Task : ~Live(t)' BY <1>1, <1>2 DEF Live
<1>4. cut \subseteq 1..Len(rows) BY DEF RunningRowsHaveOneRunner
<1>5. TypeOK'
  <2>1. task' \in [Task -> TaskType] BY <1>1, <1>2
  <2>2. orphaned' \subseteq 1..MaxRuns
    <3>1. 1..Len(rows) \subseteq 1..MaxRuns OBVIOUS
    <3> HIDE DEF cut
    <3> QED BY <1>1, <1>4, <3>1
  <2>3. restarts' \in 0..MaxRestarts BY <1>1, SchedulerAssumption DEF TypeOK
  <2> QED BY <1>1, <2>1, <2>2, <2>3 DEF TypeOK, TaskType
<1>6. RunningRowsHaveOneRunner'
  <2>1. ASSUME NEW r \in 1..Len(rows)
        PROVE  rows[r].status = "running" <=> r \in orphaned'
    BY <1>1 DEF RunningRowsHaveOneRunner
  <2> QED BY <1>1, <1>3, <2>1 DEF RunningRowsHaveOneRunner
<1>7. OrphansOver' /\ RunsOwnKind'
  BY <1>1, <1>3, <1>4 DEF OrphansOver, RunsOwnKind
<1>8. CallsCounted' /\ CallsBounded' /\ TasksOver'
  BY <1>1, <1>2 DEF CallsCounted, CallsBounded, TasksOver, Task
<1> QED BY <1>5, <1>6, <1>7, <1>8

------------------------------------------------------------------------------
(* The theorems                                                             *)

\* Every step keeps the invariant.
LEMMA InvStep == SchedulerInv /\ [Next]_vars => SchedulerInv'
<1> SUFFICES ASSUME SchedulerInv, [Next]_vars PROVE SchedulerInv'
  OBVIOUS
<1>1. ASSUME NEW S \in SUBSET Job, Start(S) PROVE SchedulerInv'
  BY <1>1, StartStep
<1>2. ASSUME NEW j \in Periodic, Tick(j) \/ TaskExit(j) \/ Panic(j)
      PROVE  SchedulerInv'
  <2>1. j \in Task /\ j \in Job BY DEF Task, Job
  <2>2. CASE Tick(j)
    <3>1. ~Live(j) /\ phase # "new" /\ phase # "stopped"
      BY <2>1, <2>2 DEF Tick, Live, SchedulerInv, TasksOver
    <3> QED BY <2>1, <2>2, <3>1, BeginRunStep DEF Tick
  <2>3. CASE TaskExit(j) BY <2>3, TaskExitStep
  <2>4. CASE Panic(j) BY <2>1, <2>4, DroppedStep
  <2> QED BY <1>2, <2>2, <2>3, <2>4
<1>3. ASSUME NEW c \in Caller, Hangup(c) PROVE SchedulerInv'
  BY <1>3, DroppedStep DEF Task
<1>4. ASSUME NEW c \in Caller, NEW j \in Job, trigger_job(c, j) PROVE SchedulerInv'
  <2>1. c \in Task /\ c \notin Periodic
    BY SchedulerAssumption DEF Task, Job
  <2>2. ~Live(c) /\ phase # "new" BY <1>4 DEF trigger_job, Live
  <2> QED BY <1>4, <2>1, <2>2, BeginRunStep DEF trigger_job
<1>5. ASSUME NEW t \in Task, RunStep(t) PROVE SchedulerInv'
  <2>1. CASE FailRetryable(t) \/ Retry(t) BY <2>1, GoOnStep
  <2>2. CASE Succeed(t) \/ Cancelled(t) \/ Fail(t)
    <3>1. Live(t) BY <2>2 DEF Succeed, Cancelled, Fail, Live
    <3>2. \E status \in Status \ {"running"} : Finish(t, status)
      BY <2>2 DEF Succeed, Cancelled, Fail, Status
    <3> QED BY <3>1, <3>2, FinishStep
  <2> QED BY <1>5, <2>1, <2>2 DEF RunStep
<1>6. CASE Restart BY <1>6, RestartStep
<1> QED BY <1>1, <1>2, <1>3, <1>4, <1>5, <1>6, ControlStep DEF Next

\* The invariant holds of every reachable state.
THEOREM SchedulerInvariant == Spec => []SchedulerInv
<1>1. Init => SchedulerInv
  <2> SUFFICES ASSUME Init PROVE SchedulerInv
    OBVIOUS
  <2>1. Idle = [pc |-> "idle", run |-> 0, retry |-> 0] BY DEF Idle, NoRun
  <2>2. Idle \in TaskType /\ Idle.pc = "idle"
    BY <2>1, SchedulerAssumption DEF TaskType
  <2>3. task \in [Task -> TaskType] /\ \A t \in Task : task[t].pc = "idle"
    BY <2>2 DEF Init
  <2>4. rows \in Seq(RowType) /\ Len(rows) = 0 BY DEF Init
  <2>5. TypeOK
    BY <2>3, <2>4, SchedulerAssumption DEF Init, TypeOK, TaskType, RowType, Status
  <2>6. \A t \in Task : ~Live(t) BY <2>3 DEF Live
  <2>7. RunningRowsHaveOneRunner /\ OrphansOver /\ RunsOwnKind
    BY <2>4, <2>6 DEF Init, RunningRowsHaveOneRunner, OrphansOver, RunsOwnKind
  <2>8. CallsCounted /\ TasksOver BY <2>3 DEF Init, CallsCounted, TasksOver
  <2>9. CallsBounded BY SchedulerAssumption DEF Init, CallsBounded
  <2> QED BY <2>5, <2>7, <2>8, <2>9 DEF SchedulerInv
<1> QED BY <1>1, InvStep, PTL DEF Spec

\* Every variable has its type: no task counts more than MAX_RETRIES retries,
\* and whatever is orphaned or cancelled is a run (run_job_with_retry).
THEOREM TypeCorrect == Spec => []TypeOK
BY SchedulerInvariant, PTL DEF SchedulerInv

\* A row says "running" exactly while one task works on it or when nobody could
\* write its outcome, for any number of overlapping runs, failing writes and
\* restarts (run_job_with_retry).
THEOREM TableMatchesTasks == Spec => []RunningRowsHaveOneRunner
BY SchedulerInvariant, PTL DEF SchedulerInv

\* A run calls job.run at most MAX_RETRIES + 1 times (run_job_with_retry).
THEOREM RetryBudget == Spec => []CallsBounded
BY SchedulerInvariant, PTL DEF SchedulerInv

\* After shutdown no periodic task is left, and a scheduled run whose row still
\* says "running" is one that nobody could complete (shutdown).
THEOREM ShutdownIsComplete == Spec => []ShutdownQuiesces
<1>1. SchedulerInv => ShutdownQuiesces
  <2> SUFFICES ASSUME SchedulerInv, phase = "stopped"
               PROVE  /\ \A j \in Periodic : task[j].pc \in {"idle", "exited"}
                      /\ \A r \in 1..Len(rows) :
                           rows[r].status = "running" /\ rows[r].by = "schedule"
                             => r \in orphaned
    BY DEF ShutdownQuiesces
  <2>1. \A j \in Periodic : task[j].pc \in {"idle", "exited"}
    BY DEF SchedulerInv, TasksOver
  <2>2. \A t \in Task : Live(t) => t \notin Periodic BY <2>1 DEF Live
  <2>3. \A t \in Task : Live(t) => rows[task[t].run].by = "manual"
    BY <2>2 DEF SchedulerInv, RunsOwnKind
  <2> QED BY <2>1, <2>3 DEF SchedulerInv, RunningRowsHaveOneRunner
<1> QED BY <1>1, SchedulerInvariant, PTL

\* No step changes a row whose outcome is written.
LEMMA RowsStay ==
  ASSUME SchedulerInv, [Next]_vars
  PROVE  /\ Len(rows') >= Len(rows)
         /\ \A r \in 1..Len(rows) :
              rows[r].status # "running" => rows'[r] = rows[r]
<1>1. TypeOK /\ RunningRowsHaveOneRunner BY DEF SchedulerInv
<1>2. CASE UNCHANGED rows BY <1>1, <1>2, Typing
<1>3. ASSUME NEW row, rows' = Append(rows, row)
      PROVE  /\ Len(rows') >= Len(rows)
             /\ \A r \in 1..Len(rows) : rows'[r] = rows[r]
  <2>1. rows \in Seq(RowType \cup {row}) BY <1>1, Typing
  <2> QED BY <1>3, <2>1, AppendProperties
<1>4. ASSUME NEW t \in Task, Live(t), NEW status,
             rows' = [rows EXCEPT ![task[t].run].status = status]
      PROVE  /\ Len(rows') >= Len(rows)
             /\ \A r \in 1..Len(rows) :
                  rows[r].status # "running" => rows'[r] = rows[r]
  <2>1. task[t].run \in 1..Len(rows) /\ rows[task[t].run].status = "running"
    BY <1>1, <1>4 DEF RunningRowsHaveOneRunner
  <2>2. Len(rows') = Len(rows) /\ Len(rows) \in Nat BY <1>1, <1>4, Typing
  <2> QED BY <1>1, <1>4, <2>1, <2>2, Typing
<1>5. \/ UNCHANGED rows
      \/ \E row : rows' = Append(rows, row)
      \/ \E t \in Task : \E status :
           Live(t) /\ rows' = [rows EXCEPT ![task[t].run].status = status]
  <2>1. ASSUME NEW t \in Task, RunStep(t)
        PROVE  \/ UNCHANGED rows
               \/ \E status : Live(t) /\ rows' = [rows EXCEPT
                                                   ![task[t].run].status = status]
    <3>1. CASE FailRetryable(t) BY <3>1 DEF FailRetryable
    <3>2. CASE Retry(t) BY <3>2 DEF Retry
    <3>3. CASE Succeed(t) \/ Cancelled(t) \/ Fail(t)
      <4>1. PICK status : Finish(t, status)
        BY <3>3 DEF Succeed, Cancelled, Fail
      <4>2. Live(t) BY <3>3 DEF Succeed, Cancelled, Fail, Live
      <4> QED BY <4>1, <4>2 DEF Finish
    <3> QED BY <2>1, <3>1, <3>2, <3>3 DEF RunStep
  <2>2. ASSUME NEW t, NEW j, NEW by, BeginRun(t, j, by)
        PROVE  \E row : rows' = Append(rows, row)
    BY <2>2 DEF BeginRun
  <2> QED BY <2>1, <2>2
      DEF Next, vars, Start, Tick, TaskExit, Panic, Hangup, trigger_job,
          cancel_job, set_enabled, ShutdownSend, ShutdownDone, Restart
<1> QED BY <1>2, <1>3, <1>4, <1>5

\* Rows stay, and an outcome is never written twice, however scheduled and
\* manual runs overlap (record_run_complete).
THEOREM OutcomesAreFinal == Spec => OutcomesFinal
BY SchedulerInvariant, RowsStay, PTL DEF Spec, OutcomesFinal

------------------------------------------------------------------------------
(* Health: counting back from the newest run.                               *)

\* The members of S newer than r.
Above(S, r) == {q \in S : q > r}

\* Finitely many runs have a newest one.  (The sets of newer runs are finite,
\* and strict inclusion is well founded on them.)
LEMMA NewestExists ==
  ASSUME NEW S, S \subseteq Nat, IsFiniteSet(S), S # {}
  PROVE  \E m \in S : \A q \in S : q <= m
<1>1. PICK R : R = StrictSubsetOrdering(S) OBVIOUS
<1>2. PICK U : U = SUBSET S OBVIOUS
<1>3. IsWellFoundedOn(R, U)
  BY <1>1, <1>2, FS_StrictSubsetOrderingWellFounded, FS_FiniteSubsetsOfFinite
<1>4. PICK T : T = {Above(S, r) : r \in S} OBVIOUS
<1>5. T \subseteq U /\ T # {} BY <1>2, <1>4 DEF Above
<1>6. PICK x \in T : \A y \in T : ~(<<y, x>> \in R) BY <1>3, <1>5, WFMin
<1>7. PICK m \in S : x = Above(S, m) BY <1>4, <1>6
<1>8. ASSUME NEW q \in S, q > m PROVE FALSE
  <2>1. PICK y : y = Above(S, q) OBVIOUS
  <2>2. y \in T /\ q \in x /\ q \notin y BY <1>4, <1>7, <1>8, <2>1 DEF Above
  <2>3. y \subseteq x
    <3>1. \A z \in S : z > q => z > m BY <1>8
    <3> QED BY <1>7, <2>1, <3>1 DEF Above
  <2>4. y \in SUBSET S /\ x \in SUBSET S BY <1>7, <2>1 DEF Above
  <2>5. <<y, x>> \in R BY <1>1, <2>2, <2>3, <2>4 DEF StrictSubsetOrdering
  <2> QED BY <1>6, <2>2, <2>5
<1> QED BY <1>8

\* The runs of a job are finitely many numbers.
LEMMA RunsFinite ==
  ASSUME TypeOK, NEW j
  PROVE  Runs(j) \subseteq Nat /\ IsFiniteSet(Runs(j)) /\ Runs(j) \subseteq 1..Len(rows)
<1>1. Len(rows) \in Nat BY Typing
<1>2. Runs(j) \in SUBSET (1..Len(rows)) BY DEF Runs
<1>3. IsFiniteSet(1..Len(rows)) BY <1>1, FS_Interval
<1>4. IsFiniteSet(Runs(j)) BY <1>2, <1>3, FS_Subset
<1> QED BY <1>1, <1>2, <1>4

\* However runs of a job overlap and end, the state reported for it gets worse
\* or stays until a newer run of it starts: what is newest, and the failures
\* counted back from it, are final (determine_health_state,
\* count_consecutive_failures).
THEOREM AlarmsStay == Spec => AlarmClearedOnlyByNewRun
<1>1. ASSUME SchedulerInv, SchedulerInv', [Next]_vars, NEW j \in Job, Runs(j)' = Runs(j)
      PROVE  Severity(j) <= Severity(j)'
  <2>1. PICK S : S = Runs(j) OBVIOUS
  <2>2. S \subseteq Nat /\ IsFiniteSet(S) /\ S \subseteq 1..Len(rows)
    BY <1>1, <2>1, RunsFinite DEF SchedulerInv
  <2>3. \A r \in S : rows[r].status # "running" => rows'[r] = rows[r]
    BY <1>1, <2>2, RowsStay
  <2>4. \A r \in S : rows[r].status = "failed" => rows'[r].status = "failed"
    BY <2>3
  <2>5. PICK A : A = {r \in S : \A q \in S : q >= r => rows[q].status = "failed"}
    OBVIOUS
  <2>6. PICK B : B = {r \in S : \A q \in S : q >= r => rows'[q].status = "failed"}
    OBVIOUS
  <2>7. /\ count_consecutive_failures(j) = Cardinality(A)
        /\ count_consecutive_failures(j)' = Cardinality(B)
    BY <1>1, <2>1, <2>5, <2>6 DEF count_consecutive_failures
  <2>8. Cardinality(A) <= Cardinality(B) /\ Cardinality(A) \in Nat /\ Cardinality(B) \in Nat
    <3>1. A \in SUBSET B BY <2>4, <2>5, <2>6
    <3>2. B \in SUBSET S BY <2>6
    <3>3. IsFiniteSet(B) BY <2>2, <3>2, FS_Subset
    <3> QED BY <3>1, <3>3, FS_Subset, FS_CardinalityType
  <2>9. LastStatus(j) = "failed" => LastStatus(j)' = "failed"
    <3>1. CASE S = {} BY <2>1, <3>1 DEF LastStatus
    <3>2. CASE S # {}
      <4>1. \E m \in S : \A q \in S : q <= m BY <2>2, <3>2, NewestExists
      <4>2. PICK m : m = CHOOSE r \in S : \A q \in S : q <= r OBVIOUS
      <4>3. m \in S BY <4>1, <4>2
      <4>4. LastStatus(j) = rows[m].status /\ LastStatus(j)' = rows'[m].status
        BY <1>1, <2>1, <3>2, <4>2 DEF LastStatus
      <4> QED BY <2>4, <4>3, <4>4
    <3> QED BY <3>1, <3>2
  <2>10. PICK n, k : n = Cardinality(A) /\ k = Cardinality(B) OBVIOUS
  <2>11. n <= k /\ n \in Nat /\ k \in Nat BY <2>8, <2>10
  <2>12. PICK x, y : x = LastStatus(j) /\ y = LastStatus(j)' OBVIOUS
  <2>13. x = "failed" => y = "failed" BY <2>9, <2>12
  <2>14. determine_health_state(j) = IF x # "failed" THEN "Healthy"
                                     ELSE IF n >= 3 THEN "Unhealthy"
                                     ELSE IF n >= 1 THEN "Degraded" ELSE "Healthy"
    BY <2>7, <2>10, <2>12 DEF determine_health_state
  <2>15. determine_health_state(j)' = IF y # "failed" THEN "Healthy"
                                      ELSE IF k >= 3 THEN "Unhealthy"
                                      ELSE IF k >= 1 THEN "Degraded" ELSE "Healthy"
    BY <2>7, <2>10, <2>12 DEF determine_health_state
  <2> QED BY <2>11, <2>13, <2>14, <2>15 DEF Severity
<1>2. SchedulerInv /\ SchedulerInv' /\ [Next]_vars =>
        [\A j \in Job : Runs(j)' = Runs(j) => Severity(j) <= Severity(j)']_vars
  BY <1>1
<1> QED BY <1>2, SchedulerInvariant, PTL DEF Spec, AlarmClearedOnlyByNewRun
==============================================================================
