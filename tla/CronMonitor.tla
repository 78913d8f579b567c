----------------------------- MODULE CronMonitor -----------------------------
(***************************************************************************)
(* One cron monitor: the check-ins its job reports (loom-server's          *)
(* routes/crons: ping.rs, checkins.rs), the routes that pause, resume and  *)
(* change it (monitors.rs), and the two detector jobs that record what did *)
(* not happen (jobs/cron_missed_run.rs, jobs/cron_timeout.rs), over the    *)
(* tables of loom-server-crons' repository.rs.                             *)
(*                                                                         *)
(* Every handler is a sequence of SQL statements without a transaction:    *)
(* it records the outcome in a check-in, then writes the monitor's health, *)
(* its last check-in with the next expected time, and its counters.  A     *)
(* statement that fails is skipped, or ends the handler if it is the first *)
(* one; a client that hangs up drops its handler between two statements.   *)
(*                                                                         *)
(* Time is a counter; one unit is the resolution of the detectors.         *)
(***************************************************************************)
EXTENDS Naturals, FiniteSets, Sequences

CONSTANTS
  Request,     \* slots for requests, and for detector runs an admin triggers
  Schedule,    \* the kind of the monitor's schedule, "interval" or "cron"
  Period,      \* its interval
  Margin,      \* checkin_margin_minutes
  MaxRuntime,  \* max_runtime_minutes, where it is set
  Limited,     \* whether it is when the monitor is created
  Sent,        \* the statuses clients send
  MaxTime,     \* bound on the clock
  MaxCalls,    \* bound on requests
  MaxFaults    \* bound on failing statements, hang-ups and server stops

CheckInStatus == {"in_progress", "ok", "error", "missed", "timeout"}

ASSUME CronMonitorAssumption ==
  /\ {Margin, MaxRuntime, MaxCalls, MaxFaults} \subseteq Nat
  /\ MaxTime \in Nat \ {0}
  /\ Schedule \in {"interval", "cron"} /\ Period \in Nat \ {0}
  /\ Sent \subseteq CheckInStatus /\ Limited \in BOOLEAN
  /\ Request \cap {"missed", "timeout"} = {}

VARIABLES
  now,       \* the clock, from 1 on
  monitor,   \* the row of the monitor
  checkins,  \* the rows of its check-ins, in the order of their creation
  procs,     \* per slot and per detector, the handler or job run in it
  calls, faults,
  owed,      \* history: outcomes recorded, by whether they are failures, less
             \* those whose handler was cut off before it counted them
  tangled    \* history: two runs of the missed-run detector have overlapped,
             \* or one of its statements has failed

vars == <<now, monitor, checkins, procs, calls, faults, owed, tangled>>
tables == <<monitor, checkins>>
bounds == <<calls, faults>>

Detector == {"missed", "timeout"}
Proc == Request \cup Detector

Health == {"unknown", "healthy", "failing", "missed", "timeout"}

\* The times are 0 where the column is NULL; limited says that
\* max_runtime_minutes is not.
Monitor ==
  [status : {"active", "paused"}, health : Health, limited : BOOLEAN,
   last_at : Nat, next_at : Nat,
   total : Nat, failures : Nat, consecutive : Nat]

\* due, ended and overruled are history: the deadline a missed check-in is
\* about; whether the job's report that it has ended was written within
\* max_runtime, later, or not ("no": also after a report that it is in progress
\* again); and that the timeout detector was the last to write the row.
CheckIn == [status : CheckInStatus, started_at : Nat, due : Nat,
            ended : {"no", "timely", "late"}, overruled : BOOLEAN]

\* A handler: what it does (ping: a finished check-in; report: PATCH of
\* a check-in; pause, resume, update: the monitor's routes; missed, timeout:
\* the detectors), where it is, its outcome, started_at of the check-in it will
\* insert or the check-in it will overwrite, next_expected_at from the time it
\* began, the deadline it found missed, its copy of the monitor, and the
\* check-ins it has listed and not yet overwritten.
Free == [op |-> "free", at |-> "free", outcome |-> "ok", started |-> 0, id |-> 0,
         next |-> 0, due |-> 0, copy |-> <<>>, todo |-> {}]
ProcType ==
  [op : {"free", "ping", "report", "pause", "resume", "update"} \cup Detector,
   at : {"free", "record", "health", "last", "stats", "write"},
   outcome : CheckInStatus, started : Nat, id : 0..Len(checkins), next : Nat,
   due : Nat, copy : Monitor \cup {<<>>}, todo : SUBSET (1..Len(checkins))]

\* calculate_next_expected: an interval counts from the given time, a cron
\* expression has fixed times.
calculate_next_expected(after) ==
  IF Schedule = "interval" THEN after + Period
  ELSE (after \div Period + 1) * Period

\* create_monitor, at time 1, with a max_runtime_minutes or without.
NewMonitor ==
  [status |-> "active", health |-> "unknown", limited |-> Limited,
   last_at |-> 0, next_at |-> calculate_next_expected(1),
   total |-> 0, failures |-> 0, consecutive |-> 0]

Init ==
  /\ now = 1
  /\ monitor = NewMonitor
  /\ checkins = <<>>
  /\ procs = [p \in Proc |-> Free]
  /\ calls = 0 /\ faults = 0
  /\ owed = [failure \in BOOLEAN |-> 0]
  /\ tangled = FALSE

Tick ==
  /\ now < MaxTime /\ now' = now + 1
  /\ UNCHANGED <<tables, procs, bounds, owed, tangled>>

------------------------------------------------------------------------------
(* Requests: each begins by reading the monitor                             *)

Call(handler) ==
  /\ calls < MaxCalls /\ calls' = calls + 1
  /\ \E p \in Request : procs[p] = Free
  /\ LET slot == CHOOSE p \in Request : procs[p] = Free
     IN procs' = [procs EXCEPT ![slot] = handler]
  /\ UNCHANGED <<now, tables, faults, owed>>

\* ping_success, ping_fail, ping_with_body, and create_checkin with a status
\* other than InProgress, for which the client may give a started_at.
Ping(outcome, started) ==
  /\ Call([Free EXCEPT !.op = "ping", !.at = "record", !.outcome = outcome,
                       !.started = started,
                       !.next = calculate_next_expected(now)])
  /\ UNCHANGED tangled

\* ping_start, and create_checkin with InProgress: one insert and no more.
Start ==
  /\ calls < MaxCalls /\ calls' = calls + 1
  /\ checkins' = Append(checkins, [status |-> "in_progress", started_at |-> now,
                                   due |-> 0, ended |-> "no",
                                   overruled |-> FALSE])
  /\ UNCHANGED <<now, monitor, procs, faults, owed, tangled>>

\* update_checkin: any status, for any check-in, and more than once.  Nothing
\* looks at the status the check-in has.
Report(id, outcome) ==
  /\ Call([Free EXCEPT !.op = "report", !.at = "record",
                          !.outcome = outcome, !.id = id,
                          !.next = calculate_next_expected(now)])
  /\ UNCHANGED tangled

\* pause_monitor, resume_monitor and update_monitor change a copy of the
\* monitor; resume also recalculates next_expected_at.  An update may set
\* max_runtime_minutes or clear it; its other columns are not modelled.
Changed(op, limited) ==
  CASE op = "pause"  -> [monitor EXCEPT !.status = "paused"]
    [] op = "resume" -> [monitor EXCEPT !.status = "active",
                                        !.next_at = calculate_next_expected(now)]
    [] op = "update" -> [monitor EXCEPT !.limited = limited]

Change(op, limited) ==
  /\ Call([Free EXCEPT !.op = op, !.at = "write", !.copy = Changed(op, limited)])
  /\ UNCHANGED tangled

------------------------------------------------------------------------------
(* The detectors                                                            *)

\* Mutant: whether a check-in came since is not looked at.
Overdue_by_time(m, at) ==
  /\ m.status = "active" /\ m.next_at # 0 /\ m.next_at + Margin < at
  /\ m.health # "missed"

\* Mutant: a monitor that has had no check-in at all is not listed, as in SQL
\* without `last_checkin_at IS NULL`.
Overdue_seen(m, at) ==
  /\ m.status = "active" /\ m.next_at # 0 /\ m.next_at + Margin < at
  /\ m.last_at # 0 /\ m.last_at < m.next_at
  /\ m.health # "missed"

\* list_overdue_monitors
Overdue(m, at) ==
  /\ m.status = "active" /\ m.next_at # 0 /\ m.next_at + Margin < at
  /\ m.last_at = 0 \/ m.last_at < m.next_at
  /\ m.health # "missed"

\* Mutant: a check-in expires one unit early.
TimedOut_early(c, at) ==
  /\ monitor.limited
  /\ c.status = "in_progress" /\ c.started_at # 0 /\ c.started_at + MaxRuntime <= at

\* list_timed_out_checkins
TimedOut(c, at) ==
  /\ monitor.limited
  /\ c.status = "in_progress" /\ c.started_at # 0 /\ c.started_at + MaxRuntime < at

\* A run begins by listing what is overdue; it ends there if nothing is.
Listing(op) ==
  IF op = "missed"
  THEN [Free EXCEPT !.op = op, !.at = "record", !.outcome = op,
                    !.next = calculate_next_expected(now),
                    !.due = monitor.next_at]
  ELSE [Free EXCEPT !.op = op, !.at = "record", !.outcome = op,
          !.todo = {id \in 1..Len(checkins) : TimedOut(checkins[id], now)}]

Finds(op) ==
  IF op = "missed" THEN Overdue(monitor, now)
  ELSE \E id \in 1..Len(checkins) : TimedOut(checkins[id], now)

Tangles(op) ==
  tangled' = (tangled \/ (op = "missed" /\ \E p \in Proc : procs[p].op = op))

\* By the scheduler, or triggered by an admin beside it.
RunDetector(op) ==
  /\ procs[op] = Free /\ Finds(op)
  /\ procs' = [procs EXCEPT ![op] = Listing(op)]
  /\ Tangles(op)
  /\ UNCHANGED <<now, tables, bounds, owed>>

Trigger(op) == Finds(op) /\ Call(Listing(op)) /\ Tangles(op)

------------------------------------------------------------------------------
(* The statements of a handler                                              *)

is_failure(outcome) == outcome \in {"error", "missed", "timeout"}

\* The next entry of the timeout detector's list, or the end.
Rest(proc) ==
  IF proc.todo = {} THEN Free
  ELSE [Free EXCEPT !.op = "timeout", !.at = "record", !.outcome = "timeout",
                    !.todo = proc.todo]

\* Whether a report written now is within max_runtime.
Punctual(started) == IF now <= started + MaxRuntime THEN "timely" ELSE "late"

\* The first statement: a new check-in, or a blind overwrite of one.
RecordNew(p) ==
  /\ procs[p].at = "record" /\ procs[p].op \in {"ping", "missed"}
  /\ checkins' = Append(checkins,
       [status |-> procs[p].outcome, started_at |-> procs[p].started,
        due |-> procs[p].due,
        ended |-> IF procs[p].op = "ping" THEN Punctual(procs[p].started) ELSE "no",
        overruled |-> FALSE])
  /\ procs' = [procs EXCEPT ![p].at = "health", ![p].started = 0, ![p].due = 0]
  /\ owed' = [owed EXCEPT ![is_failure(procs[p].outcome)] = @ + 1]
  /\ UNCHANGED <<now, monitor, bounds, tangled>>

Ended(proc, c) ==
  CASE proc.op = "timeout" -> c.ended
    [] proc.op # "timeout" /\ proc.outcome = "in_progress" -> "no"
    [] OTHER -> IF c.ended = "no" THEN Punctual(c.started_at) ELSE c.ended

RecordOver(p, id) ==
  /\ procs[p].at = "record"
  /\ \/ procs[p].op = "report" /\ id = procs[p].id
     \/ procs[p].op = "timeout" /\ id \in procs[p].todo
  /\ checkins' = [checkins EXCEPT
       ![id].status = procs[p].outcome,
       ![id].ended = Ended(procs[p], checkins[id]),
       ![id].overruled = procs[p].op = "timeout"]
  /\ procs' = [procs EXCEPT ![p].at = "health", ![p].id = 0,
                            ![p].todo = @ \ {id}]
  /\ owed' = [owed EXCEPT ![is_failure(procs[p].outcome)] = @ + 1]
  /\ UNCHANGED <<now, monitor, bounds, tangled>>

\* update_monitor_health
HealthOf(proc) ==
  CASE proc.op \in Detector -> proc.op
    [] proc.op \notin Detector /\ is_failure(proc.outcome) -> "failing"
    [] OTHER -> "healthy"

AfterHealth(proc) ==
  [proc EXCEPT !.at = IF proc.op = "timeout" THEN "stats" ELSE "last"]

WriteHealth(p) ==
  /\ procs[p].at = "health"
  /\ monitor' = [monitor EXCEPT !.health = HealthOf(procs[p])]
  /\ procs' = [procs EXCEPT ![p] = AfterHealth(@)]
  /\ UNCHANGED <<now, checkins, bounds, owed, tangled>>

\* The second get_monitor_by_id of update_checkin fails: next_expected_at will
\* be NULL.
RereadFails(p) ==
  /\ procs[p].op = "report" /\ procs[p].at = "health" /\ procs[p].next # 0
  /\ faults < MaxFaults /\ faults' = faults + 1
  /\ procs' = [procs EXCEPT ![p].next = 0]
  /\ UNCHANGED <<now, tables, calls, owed, tangled>>

\* update_monitor_last_checkin: last_checkin_at is the time of the statement,
\* next_expected_at is counted from the time the handler began.
WriteLast(p) ==
  /\ procs[p].at = "last"
  /\ monitor' = [monitor EXCEPT
       !.last_at = now, !.next_at = procs[p].next]
  /\ procs' = [procs EXCEPT ![p].at = "stats", ![p].next = 0]
  /\ UNCHANGED <<now, checkins, bounds, owed, tangled>>

\* Mutant: total_failures is left out of the UPDATE.
Incremented_partly(m, failure) ==
  IF failure THEN [m EXCEPT !.total = @ + 1, !.consecutive = @ + 1]
  ELSE [m EXCEPT !.total = @ + 1, !.consecutive = 0]

\* increment_monitor_stats
Incremented(m, failure) ==
  IF failure THEN [m EXCEPT !.total = @ + 1, !.failures = @ + 1,
                            !.consecutive = @ + 1]
  ELSE [m EXCEPT !.total = @ + 1, !.consecutive = 0]

WriteStats(p) ==
  /\ procs[p].at = "stats"
  /\ monitor' = Incremented(monitor, is_failure(procs[p].outcome))
  /\ procs' = [procs EXCEPT ![p] = Rest(@)]
  /\ UNCHANGED <<now, checkins, bounds, owed, tangled>>

\* Mutant: every column is written back.
Stored_all(m, copy) == copy

\* The columns of the repository's update_monitor: the health and the limit of
\* the copy are written back, next_expected_at and the counters are not.
Stored(m, copy) ==
  [m EXCEPT !.status = copy.status, !.health = copy.health,
            !.limited = copy.limited]

WriteMonitor(p) ==
  /\ procs[p].at = "write"
  /\ monitor' = Stored(monitor, procs[p].copy)
  /\ procs' = [procs EXCEPT ![p] = Free]
  /\ UNCHANGED <<now, checkins, bounds, owed, tangled>>

------------------------------------------------------------------------------
(* Failures                                                                 *)

Uncounted(proc) == proc.at \in {"health", "last", "stats"}

\* What is owed once the handlers of ps count no more.
Forgiven(ps) ==
  [failure \in BOOLEAN |->
     owed[failure] - Cardinality({p \in ps : /\ Uncounted(procs[p])
                                             /\ is_failure(procs[p].outcome)
                                                  = failure})]

\* A statement fails.  The first one ends the handler, or the entry of the
\* detector's list; the others are ignored.
StatementFails(p) ==
  /\ procs[p].at # "free"
  /\ faults < MaxFaults /\ faults' = faults + 1
  /\ CASE procs[p].at = "write" ->
            procs' = [procs EXCEPT ![p] = Free]
       [] procs[p].at = "record" ->
            \E id \in IF procs[p].todo = {} THEN {0} ELSE procs[p].todo :
              procs' = [procs EXCEPT
                          ![p] = Rest([procs[p] EXCEPT !.todo = @ \ {id}])]
       [] procs[p].at = "health" ->
            procs' = [procs EXCEPT ![p] = AfterHealth(@)]
       [] procs[p].at = "last" ->
            procs' = [procs EXCEPT ![p].at = "stats", ![p].next = 0]
       [] procs[p].at = "stats" ->
            procs' = [procs EXCEPT ![p] = Rest(@)]
  /\ owed' = IF procs[p].at = "stats" THEN Forgiven({p}) ELSE owed
  /\ tangled' = (tangled \/ procs[p].op = "missed")
  /\ UNCHANGED <<now, tables, calls>>

\* A client hangs up and its handler is dropped; or the server stops and takes
\* every handler and job run with it.
Gone(ps) ==
  /\ faults < MaxFaults /\ faults' = faults + 1
  /\ \E p \in ps : procs[p] # Free
  /\ procs' = [p \in Proc |-> IF p \in ps THEN Free ELSE procs[p]]
  /\ owed' = Forgiven(ps)
  /\ tangled' = (tangled \/ \E p \in ps : procs[p].op = "missed")
  /\ UNCHANGED <<now, tables, calls>>

------------------------------------------------------------------------------
Statement(p) ==
  \/ RecordNew(p)
  \/ \E id \in 1..Len(checkins) : RecordOver(p, id)
  \/ WriteHealth(p) \/ WriteLast(p) \/ WriteStats(p) \/ WriteMonitor(p)

Next ==
  \/ Tick \/ Start
  \/ \E outcome \in Sent \ {"in_progress"}, started \in {0, now} :
       Ping(outcome, started)
  \/ \E outcome \in Sent, id \in 1..Len(checkins) : Report(id, outcome)
  \/ \E op \in {"pause", "resume", "update"}, limited \in BOOLEAN :
       Change(op, limited)
  \/ \E op \in Detector : Trigger(op) \/ RunDetector(op)
  \/ \E p \in Proc : Statement(p) \/ StatementFails(p) \/ RereadFails(p)
  \/ \E p \in Request : Gone({p})
  \/ Gone(Proc)

\* The clock goes on, the scheduler runs each detector every minute, and a
\* handler that is not dropped gets to its next statement.
Fairness ==
  /\ WF_vars(Tick)
  /\ \A p \in Detector : WF_vars(RunDetector(p))
  /\ \A p \in Proc : WF_vars(Statement(p))

Spec == Init /\ [][Next]_vars
FairSpec == Spec /\ Fairness

------------------------------------------------------------------------------
(* Properties                                                               *)

\* Every variable has its type, and the counters are ordered as counts of
\* failures in a row, of failures and of all outcomes (increment_monitor_stats).
TypeOK ==
  /\ now \in 1..MaxTime
  /\ monitor \in Monitor
  /\ monitor.consecutive <= monitor.failures /\ monitor.failures <= monitor.total
  /\ checkins \in Seq(CheckIn)
  /\ procs \in [Proc -> ProcType]
  /\ calls \in 0..MaxCalls /\ faults \in 0..MaxFaults
  /\ owed \in [BOOLEAN -> Nat]
  /\ tangled \in BOOLEAN

\* The counters say exactly what has been recorded, once the handlers that
\* have recorded an outcome have counted it: no interleaving of check-ins,
\* detectors and the monitor's routes loses or repeats a count.  A check-in
\* that timed out and is then reported counts twice, as two outcomes, and a
\* report that a check-in is in progress counts as a success.
\* (increment_monitor_stats is one statement, and update_monitor leaves the
\* counters out.)
CountersAddUp ==
  LET uncounted(failure) ==
        Cardinality({p \in Proc : /\ Uncounted(procs[p])
                                  /\ is_failure(procs[p].outcome) = failure})
  IN /\ monitor.failures + uncounted(TRUE) = owed[TRUE]
     /\ monitor.total - monitor.failures + uncounted(FALSE) = owed[FALSE]

\* A run that does not happen is reported missed once, however check-ins that
\* are late, pauses and updates interleave with the detector: no two check-ins
\* the detector inserts are about the same deadline.  It takes a second run of the
\* detector beside the first, or a failing statement, to repeat one
\* (cron_missed_run.rs, list_overdue_monitors).
OneMissPerDeadline ==
  tangled \/ \A i, j \in 1..Len(checkins) :
    checkins[i].due # 0 /\ checkins[i].due = checkins[j].due => i = j

\* A report that the job has ended, written within max_runtime, stands: the
\* timeout detector, which overwrites check-ins blindly from a list it made
\* before, never overwrites it, unless the job itself has said since that the
\* check-in is in progress (cron_timeout.rs, list_timed_out_checkins).
TimelyReportsStand ==
  \A i \in 1..Len(checkins) :
    checkins[i].overruled => checkins[i].ended # "timely"

\* In progress for longer than the max_runtime the monitor has.
Expired(c) == /\ monitor.limited /\ c.status = "in_progress"
              /\ c.started_at # 0 /\ c.started_at + MaxRuntime < now

\* Active, and a check-in was expected at time d, with the margin, and has not
\* come: the four conditions in the comment of list_overdue_monitors.
Awaited(d) == /\ monitor.status = "active" /\ monitor.next_at = d
              /\ d + Margin < now /\ monitor.last_at < d

\* The detectors catch up, even when statements fail, the server stops, or a
\* pause or an update writes old columns back: no check-in stays in progress
\* beyond its limit, and a deadline that has passed gets its missed check-in,
\* unless the monitor already has the health `missed`.  Such a monitor is not
\* listed by the query, whatever its comment says, so a `missed` that an update
\* writes back leaves later misses unrecorded.
Behind ==
  \/ \E i \in 1..Len(checkins) : Expired(checkins[i])
  \/ /\ Awaited(monitor.next_at) /\ monitor.health # "missed"
     /\ \A i \in 1..Len(checkins) : checkins[i].due # monitor.next_at
DetectorsCatchUp == Behind ~> ~Behind

\* "Set status to active and recalculate next expected time" (monitors.rs,
\* resume_monitor): after a resume the next check-in is expected later than
\* the resume.
DocResumeRecalculates ==
  [][\A p \in Request : WriteMonitor(p) /\ procs[p].op = "resume"
                          => monitor'.next_at >= procs[p].copy.next_at]_vars
==============================================================================
