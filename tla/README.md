# Loom in TLA+

Loom is an AI coding agent (a CLI) and the server behind it, about ninety Rust
crates under `src/crates/`. This directory holds TLA+ models of the parts whose
correctness depends on the order in which things happen, the TLC configurations
that check them, and TLAPS proofs of all their safety properties. File names below are
relative to `src/crates/`.

## 1. Inventory

| Part | State it keeps | Operations | What is hard | What makes it correct |
| --- | --- | --- | --- | --- |
| Agent state machine (`loom-common-core`) | one `AgentState` variant with its conversation, retries, executions, pending request | `handle_event`: user input, LLM events, tool results, hook, retry timer, shutdown | events carry no request id; callers may deliver them late or twice | every request holds one result per tool call; nothing awaited in vain; bounded attempts; hook before the next request |
| Job scheduler (`loom-server-jobs`, `loom-server-db/src/job.rs`) | one task per periodic job, a token per job, table `job_runs` | start, tick, trigger, cancel, retry, shutdown, enable | manual beside scheduled runs, failing writes, dropped requests, panics, restarts | table and tasks agree; outcomes final; alarms stay; shutdown quiesces |
| Anthropic account pool (`loom-server-llm-anthropic/src/pool.rs`) | `accounts` (RwLock), `runtimes` and `next_index` (Mutex), credential file | select, call, mark, add, remove, refresh | two vectors changed in two critical sections; indices kept across unlocks; a file edited without a lock | vectors parallel; only the account at fault is marked; file and pool agree |
| Server queries (`loom-server/src/server_query.rs`) | `pending`, `responses`, a broadcast channel | send, receive, time out | subscribe after publish; lag; dropped futures | each query answered by its own response, cleaned up, returns |
| Thread sync (`loom-common-thread`, `loom-common-http`, server routes `threads.rs`) | local files, the pending queue's file if there is one, server rows with versions and owners | save, save_and_sync, delete, retry_pending; the upsert, delete and visibility routes | uploads of one thread run beside each other; answers and tasks are lost; routes are several statements | what is settled is on the server or queued; private threads stay local; deleted ones stay deleted |
| Cron monitors (`loom-server-crons`, routes and jobs) | monitors with health, expected time and counters; check-ins | ping, start, report, pause, resume, update; missed-run and timeout detectors | every handler is a row of statements without a transaction; detectors work on lists | no count lost; a miss reported once; a report in time stands; detectors catch up |

The agent's `SendLlmRequest` goes through the LLM proxy to the server, whose
`LlmService` calls the account pool; a stream may carry a server query, which
the client answers over HTTP. The job scheduler runs the server's periodic work,
among it the cron detectors and webhook retries. The post-tools hook is the
CLI's auto-commit.

Everything else (the remaining components of `PROJECT.json`) is I/O, wire
formats, SQL CRUD, policy tables or user interface, and is listed there with
the reason it is not modelled.

## 2. Plan

1. **Done.** `Agent` with its abstract specification `Transcript`;
   `JobScheduler`; `AnthropicPool`; `ServerQuery`; `ThreadSync` over
   `ThreadServer`; `CronMonitor`. Each has a module of proofs, `ThreadSync` two
   (`ThreadSyncProofs` and, on top of it, `ThreadSettleProofs`), and every
   invariant, step property and refinement that a passing run checks is a theorem.
2. Extensions: the generation of a rotated refresh token in `AnthropicPool`;
   `append_message` in `Agent`; schedule changes and
   deletion in `CronMonitor`; a second user in `ThreadServer`.
3. Further components with state worth a model: webhook deliveries and their
   retry job, the SDKs' batching and flag cache, the weaver provisioner.
4. Proofs to come: those of the extensions; measures for the liveness properties,
   along the lines of `JobsProgress`, where a step property can say how far a
   handler has come.

## 3. Modules

Definitions named `X_something` under a comment "Mutant" are faulty variants of
`X`. No specification uses them; replacing `X` by one must break the property
`PROJECT.json` pairs it with, which shows that the property depends on that code.

### Agent, Transcript

`state` is the variant of `AgentState`; the other agent variables are the fields
of the variants and are empty while their variant is not current. Each match arm
of `handle_event` is an action: `UserInput`, `LlmCompleted` (with
`process_llm_response`), `LlmError`, `RetryTimeoutFired`, `ToolCompleted`,
`PostToolsHookCompleted`, `ShutdownRequested`; the catch-all arm is the four
`Late…` actions. Text deltas and tool progress change no state.

The caller is the other half of the model: it opens a stream for a request,
starts tool runs and hooks, arms the timer, and feeds back what happens. `Careful`
says how well it behaves. TRUE: it drops a stream that reported an error and
reports each run, hook and timer once. FALSE: it repeats and delays anything. The
streams in `loom-server-llm-proxy` and `loom-server-llm-openai` do go on after an
error, and the Vertex client does reuse call ids, so `Careful` is an obligation of
the caller and not something the library enforces.

A stream ends with `Completed`, with errors, or with no event at all
(`StreamEndsSilently`: an Anthropic or proxy connection that closes early just
returns `None`). The action returned on an error is `WaitForInput` and does not ask
for a timer, so `ArmRetryTimer` is a step the caller may or may not take.

Messages keep role, the id a result answers and success. Two fields are history:
`asked`, the calls of the response an assistant message came with, and `round`, the
length of the conversation a message was produced for. The calls are history
because the message does not carry them: `handle_event` pushes `response.message`,
which every provider builds with `Message::assistant(text)`, and takes the
executions from `response.tool_calls`. The conversation that goes to the model
therefore holds tool results that no message asks for, and nothing in the
repository says otherwise. `TranscriptWellFormed` is about the results: one for
each call, in order, after the response's message. That a provider can match them
up is not claimed.

`append_message` pushes a message in any state and is called by nobody; it is not
modelled.

`Transcript` is what the agent promises without saying how: a user message when
idle, one answer when one is owed, the complete block of results the answer asked
for, giving up, closing. `Agent` implements it under `phaseOf`.

### JobScheduler

`task` gives each periodic job and each triggering request its place in
`run_job_with_retry`; `rows` is `job_runs`, ordered as `started_at` orders it;
`token` the cancelled jobs. `Start(S)` models the loop that a database error cuts
short. The `select!` of the periodic loop is `Tick` and `TaskExit`; a due sleep
may win against the broadcast once, after which only the broadcast is ready.
`Finish` is `record_run_complete` with its error path. `Hangup` drops a manual run
with its request, `Panic` ends a periodic task, `Restart` is a crash or an exit at
any time. Time is left out: any sleep may end at any time.

### AnthropicPool

Each critical section of `pool.rs` is one action and each `await` between two is
a point of interleaving. `CanRead` and `CanWrite` are tokio's fair RwLock: calls
and refreshes hold it for reading, a queued writer stops new readers. `runtimes`
remembers as history which account each entry was made for. Nothing keeps admin
requests apart, from each other or from calls: the service does not serialise them.
`Abandon` is any early end of an admin request, `Hangup` of a completion. Cooldowns
may be over at any time. Any id may be added, also one that is there already.

The credential file is `store`. A save or a delete is two steps, as in
`loom-cli-credentials/src/store.rs`: `ReadFile` takes a copy of the whole file and
edits it, `WriteFile` puts the copy in the file's place. Requests and the refresh
task save in the middle of a call (`get_access_token`), admin requests before and
after their changes of the pool. Only the ids are kept, not the tokens. All writers
use one name for their temporary file. If two write it at once, one rename
publishes what the other wrote and the other rename fails; the file then holds one
of the two copies, as if the writer that fails had written last and been abandoned,
which are steps of the model. One simplification: a file operation that tokio's
blocking pool has begun when its handler is dropped happens before the drop or not
at all, so a rename that straggles behind a whole removal is not modelled.

Three history variables name what the code really gets wrong, and the properties
are stated around them:

- `crossed`: an admin request looked up a position or changed a vector amid
  another's steps, or was dropped between its two critical sections. The vectors
  may be out of step from then on, until a restart.
- `stale`: an entry was removed after a request or the refresh task saw the failure
  it is about to mark. The mark then hits a neighbour, or panics.
- `astray`: the accounts for which pool and file may have parted, because an admin
  request failed half-way, because a writer overwrote another's edit of the file
  (a token refresh that read the file before a removal brings the removed account
  back), or because an id was added while it was in use.

A quota error after a rejection makes a disabled account cool down and then
available again, as in the code.

### ServerQuery

`step` is how far `send_query` is; `chan` is all that was broadcast and `rx` how
much of it each receiver has consumed, so that a lag beyond `Capacity` skips
messages as tokio's channel does. `Drop` is a caller that goes away. A client may
post a response to any id at any time, late and more than once: `receive_response`
looks at nothing. `list_pending` and `get_response` only read.

### ThreadSync, ThreadServer

`ThreadServer` is the server's half as operators: a handler is a record that
walks through the statements of its route (`owner`, `fetch`, `read`, `write`,
`reread`, `claim`), `Advance` says what the handler is after a statement and
`After` what the row is. No transaction spans two statements, so handlers of one
thread interleave. A deleted row stays, with `deleted` set.

`ThreadSync` is the client. `Save` writes the file and starts an upload, in a
spawned task (`save`) or awaited (`save_and_sync`); `Delete`, `RetryPending` and
`RetryNext` are the other calls, and each slot of `Job` holds one task. A request
that gets no answer (`AnswerLost`) is retried as `loom-common-http`'s `retry` does
it, and its handler is dropped or goes on as an orphan. `LoadQueue` and
`StoreQueue` are the two halves of `add_pending` and `remove_pending`, under the
mutex; `StoreQueueFails` is their error path; `Exit` ends the process with its
tasks. `RetryLoadFails` is a file that cannot be read, which ends the whole
`retry_pending`.

`pending_store` says whether the store has a queue at all, and both kinds are
checked and proved about. The program's own store is made by `with_sync`
(`loom-cli/src/main.rs:1364`) and has none: `Notes` is then false, a failed upload is
only logged, and `retry_pending` does nothing. Nothing in the repository calls
`with_pending_store`; the queue is the library's.

`disturbed` is history. `SettledMeansSynced` is about the threads outside it, because
for the others the code really does lose uploads: without a pending store, every
upload that fails; an older upload that lands after a newer one overwrites it (the
client never sends `If-Match`, although `specs/thread-system.md` describes it); the
success of an older one removes the queue's entry for the failure of a newer one; a
delete that overtakes the first upload finds nothing, counts as done, and the thread
appears afterwards; a visibility change writes back the document it read before an
upload; an exit drops a spawned upload that nothing on disk remembers. A thread
leaves `disturbed` with its next save or delete that begins alone. What the property
adds is that nothing else loses anything: `retry_pending` beside saves and deletes
with an old copy of the queue, exits at any other point, orphaned handlers that
write late, and failures of the queue that leave the entry in it.

### CronMonitor

`monitor` and `checkins` are the two tables, for one monitor; `procs` holds the
requests and the two detectors, each at its next statement: `RecordNew` or
`RecordOver` (the check-in), `WriteHealth`, `WriteLast`, `WriteStats`, or
`WriteMonitor` for pause, resume and update. `StatementFails` skips a statement, or
ends the handler at the first one, as the `let _ =` and `continue` of the code do;
`RereadFails` is the second read of the monitor in `update_checkin`, after which the
expected time is written as NULL; `Gone` is a hang-up or a stop. Clients send any
status of `Sent`, in a new check-in or over any existing one, as the routes accept
it: also `missed`, `timeout`, or `in_progress` again, which counts as a success.
`max_runtime` may be unset (`limited`), and an update sets or clears it. A detector
takes its time and its list in one step; in the code the query comes a moment after
the time was taken, which can only make the list shorter. `Start` is one insert and therefore one step.

Four things the code does show in the model and are not repaired by it:

- `resume` keeps the old `next_expected_at` (run `CronMonitor_resume`).
- `last_checkin_at` is the time of its statement, `next_expected_at` is counted
  from when the handler began. A check-in that straddles a scheduled time leaves
  the first not below the second, and `list_overdue_monitors` then passes the
  monitor over until its next check-in, so that a job that dies right after is
  never reported. `DetectorsCatchUp` counts such a monitor as one that has checked
  in, as the query's comment does.
- The query also skips a monitor whose health is already `missed`, which its comment
  does not list (`repository.rs:470-474` against `:493`): a job that stays silent gets
  one missed check-in and not one per deadline, and a pause or update that writes
  back an old `missed` silences the monitor until its next check-in. `Behind` is
  stated with the comment's four conditions and names this fifth as the exception.
- A report whose second read of the monitor fails leaves no expected time, and the
  monitor is not watched until its next check-in.

A ping of success leaves an earlier `in_progress` check-in open, and a report after
a timeout counts as a second outcome; `CountersAddUp` says so.

## 4. Runs

| Run | Instance | Result |
| --- | --- | --- |
| `Agent_careful` | careful caller, `max_retries` 3, 8 messages, replies with 0 to 2 calls | passes, 11 thousand states |
| `Agent_careless` | repeating caller, `max_retries` 2, 6 messages | passes, 610 thousand states |
| `JobScheduler_runs` | a periodic job, a triggering request, 1 retry, 3 rows, 1 database error, 1 restart | passes, 1.5 million states |
| `AnthropicPool_concurrent` | 2 accounts, 1 of them stored, a request, an admin request, the refresh task, 1 add, 2 faults | passes, 230 thousand states |
| `ServerQuery_waits` | 2 queries, capacity 2, 4 posts | passes, 520 thousand states |
| `ThreadSync_settles` | 2 synced threads and a private one, with and without a pending store, 2 tasks, 3 calls, 2 attempts, 1 fault | passes, 1.9 million states |
| `CronMonitor_detects` | 2 requests, both detectors, statuses in_progress, ok and timeout, 3 units of time, period 2, runtime 1, 2 calls, 1 fault | passes, 1.3 million states |
| `JobScheduler_cancel` | a cancel, then a manual run | violates `DocCancelHitsRunningJob` |
| `AnthropicPool_remove` | two removals at once | violates `DocRemoveOnlyNamed` |
| `AnthropicPool_select` | a selection while an account is added | violates `DocSelectReturns` |
| `ServerQuery_timeout` | one query, its response before the subscription | violates `DocResponseOrTimeout` |
| `CronMonitor_resume` | one request, a pause or resume | violates `DocResumeRecalculates` |

Why the bounds are enough. *Agent*: six messages hold a user message, an answer
with two calls, both results and a further answer, and eight hold two rounds, so a
call id is reused within one conversation; three attempts show a first, a middle
and a last retry. *Scheduler*: three rows are the three failures that make a job
Unhealthy; one manual and one scheduled run are the two that can overlap on a job;
one retry makes a run both back off and run out. *Pool*: two accounts tell an
index from a shifted index, and an added one from a stored one; one admin request,
one request and the refresh task are three writers of the file and every pair that
shares a lock; two faults are a failing admin request and the restart after it.
Admin requests that overlap are left to the run about the removal and to the
proofs, which hold for any number of them. *Queries*: with capacity 2 and four posts
a receiver lags, and two queries compete for the channel.
*Threads*: two tasks are an upload and what overtakes it; three calls are two
saves and a delete, a retry or a visibility change; two attempts make a request be
retried and run out; one fault is an exit, a lost handler or a failing queue; a
second thread shares the queue. The two synced threads are interchangeable, and
the run checks invariants and step properties only, so their symmetry is sound.
*Monitors*: in three units a deadline passes and a check-in expires; of the statuses
a client sends one is a success, one a failure and one neither end; two requests
are a start and its report, a check-in beside a pause, or a triggered detector
beside the scheduled one, each against both detectors.

The five violations are kept as runs; each restates a sentence of the code's
comments or of `specs/` (quoted in `PROJECT.json`):

- **cancel**: the token is shared by all runs of a job and never reset. A cancel
  with nothing running ends the next manual run, and the periodic task skips the
  job until the server restarts.
- **remove**: the index is looked up under a lock that is released before the
  removal. Two removals at once take out an account nobody named.
- **select**: `add_account` pushes the entry before the runtime, and a selection in
  between indexes past the runtimes and panics where the comment promises `None`.
- **timeout**: a query is listed as pending before its sender subscribes.
- **resume**: the time `resume_monitor` calculates is not among the columns that
  `update_monitor` writes.

Further disagreements met while modelling have no run of their own:
`specs/thread-system.md:537` says that failed operations are persisted for a later
retry, and the CLI's store has no pending store; the comment of
`list_overdue_monitors` lists four conditions and the query has five; one failing
upsert leaves the remaining jobs of `start` unscheduled; nothing removes an entry of the `responses` map; two accounts added
in one second share an id; the table in
`specs/state-machine.md` lets one more retry through than the code (which counts
the error at hand first); `specs/job-scheduler-system.md` says that shutdown
cancels all jobs, whereas the code cancels none and does not wait for manual runs;
the same document (`:535`) calls three failures Unhealthy, whereas a running or
orphaned newest row makes the job Healthy, and (`:536`) a disabled job Degraded,
whereas disabling changes a column nobody reads; `list_pending` lists the queries of
every session.

## 5. Fairness

- `Agent`: a stream ends, with an event or without, a tool run and a hook finish, an
  armed timer fires. The code has no timeout of its own. Nothing makes the caller
  arm the timer; `TurnEnds` names that, and a stream that ended silently, as the two
  ways a turn may fail to end. User input and shutdown are not fair.
- `JobScheduler`: `job.run` returns, backoffs end, a task sees the broadcast, the
  shutdown's await resumes. Ticks, triggers, panics and restarts are not fair.
- `AnthropicPool`: a free lock is granted to its next waiter (tokio's RwLock is FIFO)
  and an admin request's file operations end. Nothing is assumed of the provider:
  the HTTP clients set no timeout (`client.rs:139-141`, `oauth_flow.rs`), and a call
  that hangs holds the read lock, so that an admin request and, behind it, every new
  reader wait. `EverythingReturns` therefore has as a hypothesis that calls and
  refreshes end.
- `ServerQuery`: tokio polls a ready task and timers expire. Clients are not fair:
  a query returns although nobody answers.
- `CronMonitor`: the clock goes on, the scheduler starts each detector whenever it
  is idle and would find something (it runs every minute; an admin's cancel of the
  detector job would end that, see **cancel**), and a handler that is not dropped
  reaches its next statement. Requests are not fair.
- `ThreadSync` states none. That every task ends is `JobsProgress`: each step of a
  task lowers a bound on the steps it has left, so it ends after so many steps of
  its own, whatever the network does.

## 6. Proofs

Every safety property of the passing runs is proved for all values of the
constants: any number of jobs, accounts, queries, threads, tasks, requests and
retries, and any bound on faults. The assumptions are those the modules name
(`RepliesAssumption`, `BoundsAssumption`, `SchedulerAssumption` and so on: bounds
are natural numbers, kinds of names are disjoint, the calls of one reply have
different ids). Two theorems of `AgentProofs` have a hypothesis of their own, which the
run of those properties makes too and which is about the environment: `Careful`.

Each proof has the same plan: an inductive invariant, a lemma per action or per
kind of step that keeps it, and the property as a consequence. What follows says
what the invariant adds to the property and why.

**`AgentProofs`**, for both values of `Careful`:

- `TypeCorrect`: `TypeOK` is inductive as it stands because it says that payloads
  are empty outside their variant.
- `RetryBudget` (`AttemptsBounded`): the bound alone is not inductive: a retry needs
  to know that in `Error` the count is below the limit, and an error that in
  `CallingLlm` the attempts are the retries plus one. Both are its conjuncts.
- `TranscriptCorrect` (`TranscriptWellFormed`): the conversation is not well formed
  while tools run; the invariant then says that the rest is, and that the last
  response asked for exactly the executions, in order (`Asking`). Marking keeps the
  ids (`MarkedType`), so whatever result comes, late or repeated, the block
  appended at the end answers the calls one by one (`AnsweredBlock`).
- `NothingAwaitedInVain` (`WaitsAreOwed`): a step that begins to wait starts what it
  waits for, and an event the agent ignores never uses it up. It needs that the
  request kept for after the hook is the conversation (`PendingRequestCurrent`), for
  otherwise the stream opened after the hook would be another's.
- `AgentImplementsTranscript` (`ImplementsTranscript`), by `TranscriptRefinement`:
  each action is a step of `Transcript` or leaves it alone. `RequestsFit` (requests
  are no longer than the model's bound) and `TranscriptWellFormed` are the
  invariants it rests on.

For a careful caller (`ASSUME Careful`):

- `AnswersKeepTheirRound` (`AnswersBelongToTheirRound`). Nothing in an event says
  which request it is about, so the proof has to show that only one thing is under
  way, and that it is about the conversation as it stands (`OneAtATime`): one
  stream, or the runs of exactly the executions that are not complete, or one hook.
  The last run of a round ends with its last execution, which is why no run is
  left to meet a later call with the same id.
- `HooksComeFirst` (`HookBeforeNextRequest`). `HooksInv` carries the property from
  the requests to the conversation the next request is made of, with the round that
  waits for its hook left out; `OneAtATime` then makes the hook that completes
  that round's own.

**`JobSchedulerProofs`**. One invariant, `SchedulerInv`, for all but the last:
besides the properties, that an orphaned run has no runner (`OrphansOver`), that
periodic tasks work on scheduled rows (`RunsOwnKind`), that the calls of a live run
are its retries plus one (`CallsCounted`), and where tasks can be before `start`
and after `shutdown` (`TasksOver`). It gives `TypeCorrect`, `TableMatchesTasks`
(`RunningRowsHaveOneRunner`), `RetryBudget` (`CallsBounded`), `ShutdownIsComplete`
(`ShutdownQuiesces`) and `OutcomesAreFinal` (`OutcomesFinal`: the row a task writes
is its own and says "running"). `AlarmsStay` (`AlarmClearedOnlyByNewRun`) follows from
the latter: while no run of the job starts, its newest row stays the newest, and a
row that becomes final never shortens the failures counted back from it; it is found
by the well-founded order of finite sets (`NewestExists`), since induction is not
available. That a running newest row counts as Healthy, and so hides failures, is
what the code does; the theorem says that only the start of a run does it.

**`AnthropicPoolProofs`** is for any number of admin requests, which overlap as the
code lets them, and has three layers:

- `TypeCorrect` and `CalledAccountsStay` (`CallsUseMembers`), from `Base`: who calls or
  refreshes holds the account at his index (`InHand`), and only who may write the file
  holds a copy of it (`CopyHolders`).
- `IndicesAgree` (`VectorsParallel`) and `MarksAreDeserved` (`OnlyCulpritsMarked`), from
  `Aligned`: while nothing crossed, one admin request at most is midway, and
  the vectors differ by exactly its half-done change (`Half`). A mark that is not
  stale uses the index of an account that has not moved since.
- `RestartBringsNothingNew` (`PoolMatchesFile`), from `TidyInv`: an account outside `astray`
  is in the pool once at most, and in the file exactly when it is in the pool or
  when the one admin request at it is at a step where it is (`Stage`). A
  write of the file keeps this because whatever it changes beyond its own edit goes
  to `astray`.

**`ServerQueryProofs`**. `QueryInv` adds to the properties that receivers stay inside
the channel and that whatever was broadcast was received (`ChannelInv`): `TypeCorrect`,
`ReturnsCleanUp` (`PendingAreAwaited`), `AnswersCorrelate` (`AnsweredByOwnResponse`),
`ResponsesAreSeen` (`NoResponseOverlooked`), `OutcomesAreFinal` (`OutcomeFinal`).

**`ThreadSyncProofs`**:

- `DeletionIsFinal` (`DeletedStaysDeleted`) needs that only a row that exists is
  deleted (`RowsInv`), since an insert would otherwise replace a deleted row;
  `StatementKeepsDeleted` shows it for each statement of each route, whatever document
  and If-Match the handler carries.
- `QueueWritesAreCurrent` (`LoadedQueueIsCurrent`). `QueueInv` adds that only tasks of
  the store hold a copy of the queue: an exit releases the lock and must leave no
  such task behind.
- `TypeCorrect` and `PrivateThreadsStayLocal` (`PrivateStaysLocal`), from `TypeInv`, which
  follows documents and queue entries wherever they are held: on disk, in the queue,
  in a loaded copy of it, in `todo` lists, tasks, handlers and orphans.
- `TasksComeToAnEnd` (`JobsProgress`): `StepsLeft` goes down with every step of a task.
- `UploadsAreOwned` (`UploadedIsOwned`): what a handler has seen of a row may be out of
  date, but rows only grow (exist, then owned or deleted, for good), so what it has
  seen still holds (`SeenInv`).

**`ThreadSettleProofs`** proves `SettledThreadsAreSynced` (`SettledMeansSynced`). For a thread
that is not `disturbed` the invariant (`SettleInv`), with a pending store or without,
says that all tasks and orphaned handlers at it ask the same of the server, with
the newest content, and how far each has brought the row (`Serves`); that the web
interface is alone with it if it is there; and that the thread is synced or noted
already, or else a save or delete that has not succeeded is still at it (`Answers`).
That task is the one whose failure is noted or marks the thread disturbed. It needs the
invariants above, and that only what was deleted here is deleted there (`DeleteInv`).

**`CronMonitorProofs`**:

- `TimelyReports` (`TimelyReportsStand`). The detector writes from a list that is old
  when it writes, so the invariant (`TimeoutsInv`) is about the lists of all handlers:
  whatever is on a list was late when it was listed, and stays late whoever reports
  on it afterwards, since such a report is written past the limit, unless the job
  says again that it is in progress. Clients may write any status, `timeout` too;
  the property is about the rows the detector itself has overwritten.
- `CountersAreExact` (`CountersAddUp`): `CountInv` counts the handlers that have recorded
  an outcome and not counted it, as finite sets, and a step moves one handler into
  or out of one of them. `TypeCorrect` follows with the bounds.
- `MissesAreUnique` (`OneMissPerDeadline`). While no detector runs overlapped and none of
  their statements failed (`Untangled`), every deadline in the table lies before the
  one a run works on, and before `last_checkin_at` once the run has written it,
  so the next run, which lists only a deadline after that, finds a later one.

Only model-checked: the liveness properties `TurnEnds`, `ShutdownCompletes`,
`EverythingReturns`, `QueryReturns` and `DetectorsCatchUp`, because the prover does not
handle fairness and ENABLED; and the five violations, which are counterexamples.

## 7. What is left out

Message contents, prompts, token usage and logging; clocks except in `CronMonitor`
(every wait may end at any time, so no property is about durations, such as the
backoff delays or the length of a cooldown); `append_message`; in `AnthropicPool`
the tokens in the credential file and their rotation; in `ThreadSync` a second user,
a save after a delete, failing writes of local files, searching, and two processes
that share one queue; in `CronMonitor` changes of the schedule, the timezone, the
margin and the value of `max_runtime` (a new schedule's expected time is lost as in
**resume**), start times other than the present, deletion, invalid schedules, statistics and the event stream; the pool's `FirstAvailable` strategy, which no
configuration selects, and its constructor `new`, which the server does not call;
the retention of old `job_runs`; metrics. The components that are not modelled
are in `PROJECT.json`, each with its reason.

The models cover a small part of the repository by lines (about two hundred
thousand, in ninety crates). The parts chosen are the ones whose own logic depends
on order and failure. Most of the rest is SQL access, HTTP routes, wire formats,
cryptography, policy tables and terminal or web interfaces, where a model of
states and steps would repeat the code.
