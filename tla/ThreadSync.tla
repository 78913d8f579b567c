------------------------------ MODULE ThreadSync ------------------------------
(***************************************************************************)
(* Threads on the user's disk and their copies on the server               *)
(* (loom-common-thread: SyncingThreadStore, ThreadSyncClient,              *)
(* PendingSyncStore; loom-common-http: retry), over the routes of          *)
(* ThreadServer.                                                           *)
(*                                                                         *)
(* save writes the file and leaves the upload to a spawned task, so        *)
(* uploads of one thread run beside each other.  A request may fail before *)
(* it reaches the server, or be lost while the handler runs; the handler   *)
(* then ends there or goes on without anybody waiting for it.  The process *)
(* may exit at any point and take its tasks with it.                       *)
(*                                                                         *)
(* A store made by with_sync has no pending store, and the CLI configures  *)
(* none: a failed upload is only logged.  With with_pending_store it is    *)
(* noted in a queue on disk that retry_pending works off.  Both kinds of   *)
(* store are modelled.                                                     *)
(*                                                                         *)
(* A write of a file is a rename, so it happens or it does not.  A save    *)
(* whose local write fails returns before anything else and is left out.   *)
(***************************************************************************)
EXTENDS ThreadServer, Sequences

CONSTANTS
  Thread,       \* thread ids
  Private,      \* the threads created with is_private
  Job,          \* slots for background tasks and waiting callers
  MaxAttempts,  \* RetryConfig.max_attempts
  MaxOps,       \* bound on calls of the store and of the visibility route
  MaxFaults     \* bound on exits of the process, failing reads and writes of
                \* the files, and handlers nobody waits for

ASSUME ThreadSyncAssumption ==
  /\ Private \subseteq Thread
  /\ "none" \notin Thread \cup Job
  /\ MaxAttempts \in Nat \ {0}
  /\ {MaxOps, MaxFaults} \subseteq Nat

VARIABLES
  version,   \* per thread, its version in memory
  local,     \* per thread, the version in its file (0: no file)
  pending_store, \* whether the store has a pending store: Some or None
  pending,   \* the queue in sync/pending.json
  rows,      \* per thread, its row on the server
  jobs,      \* per slot, the task or waiting call in it
  lock,      \* the slot that holds the mutex of the queue, or NoJob
  orphans,   \* handlers nobody waits for
  ops, faults, \* calls and faults so far
  disturbed  \* history: threads whose newest save or delete began beside
             \* another task, was cut off before it succeeded, or failed
             \* without being noted, or with a change of visibility beside
             \* another task

vars == <<version, local, pending_store, pending, rows, jobs, lock, orphans,
          ops, faults, disturbed>>
disk == <<version, local, pending_store, pending>>
bounds == <<ops, faults>>

NoJob == "none"
NoThread == "none"
SyncOperation == {"upsert", "delete"}
PendingSyncEntry == [t : Thread, op : SyncOperation]

\* A slot: who started it, the thread it is at, where it is (served: an attempt
\* is under way; ok, err: the request has ended; noting: the queue is loaded
\* under the lock; next: retry_pending is between two entries).
Free == [by |-> "free", t |-> NoThread, at |-> "free", tries |-> 0,
         h |-> NewHandler("upsert", NoDocument, 0), won |-> FALSE,
         queue |-> <<>>, todo |-> <<>>]
JobType ==
  [by : {"free", "save", "sync", "delete", "retry", "web"},
   t : Thread \cup {NoThread},
   at : {"free", "served", "ok", "err", "noting", "next"},
   tries : 0..MaxAttempts, h : Handler, won : BOOLEAN,
   queue : Seq(PendingSyncEntry), todo : Seq(PendingSyncEntry)]

\* Every variable has its type, and the queue on disk holds an operation on a
\* thread at most once (PendingSyncQueue::add).
TypeOK ==
  /\ version \in [Thread -> 0..MaxOps] /\ local \in [Thread -> 0..MaxOps]
  /\ pending_store \in {"None", "Some"} /\ pending \in Seq(PendingSyncEntry)
  /\ \A m, n \in 1..Len(pending) : pending[m] = pending[n] => m = n
  /\ rows \in [Thread -> Row]
  /\ jobs \in [Job -> JobType]
  /\ lock \in Job \cup {NoJob}
  /\ \A o \in orphans : o.t \in Thread /\ o.h \in Handler
  /\ ops \in 0..MaxOps /\ faults \in 0..MaxFaults
  /\ disturbed \subseteq Thread

Init ==
  /\ version = [t \in Thread |-> 0] /\ local = [t \in Thread |-> 0]
  /\ pending_store \in {"None", "Some"} /\ pending = <<>>
  /\ rows = [t \in Thread |-> NoRow]
  /\ jobs = [i \in Job |-> Free]
  /\ lock = NoJob /\ orphans = {}
  /\ ops = 0 /\ faults = 0
  /\ disturbed = {}

------------------------------------------------------------------------------
(* The queue of pending operations                                          *)

Entry(t, op) == [t |-> t, op |-> op]
Contains(queue, e) == \E n \in 1..Len(queue) : queue[n] = e

\* Mutant: the queue is searched for the thread alone.
add_per_thread(queue, e) ==
  IF \E n \in 1..Len(queue) : queue[n].t = e.t THEN queue ELSE Append(queue, e)

\* Mutant: the queue is not searched.
add_twice(queue, e) == Append(queue, e)

\* PendingSyncQueue::add: one entry per thread and operation.
add(queue, e) == IF Contains(queue, e) THEN queue ELSE Append(queue, e)

\* PendingSyncQueue::remove: the entry is left out, if it is there.  add leaves
\* at most one entry for retain to find.
remove(queue, e) ==
  IF Contains(queue, e)
  THEN LET at == CHOOSE n \in 1..Len(queue) : queue[n] = e
       IN [n \in 1..Len(queue) - 1 |-> queue[IF n < at THEN n ELSE n + 1]]
  ELSE queue

------------------------------------------------------------------------------
(* The callers: the CLI, and the web interface for the visibility           *)

\* A thread whose file was there and is gone has been deleted; nobody saves
\* it again.
Deleted(t) == version[t] > 0 /\ local[t] = 0

\* Somebody is at this thread, on either side.
Busy(t) == \/ \E i \in Job : jobs[i].t = t
           \/ \E o \in orphans : o.t = t

WebAt(t) == \E i \in Job : jobs[i].t = t /\ jobs[i].by = "web"

\* save_and_sync is awaited: its caller does nothing else meanwhile.
CallerWaits == \E i \in Job : jobs[i].by = "sync"

NextSlot == CHOOSE i \in Job : jobs[i].at = "free"

\* A call of the store or a route, within the bounds.
Call == /\ ops < MaxOps /\ ops' = ops + 1
        /\ \E i \in Job : jobs[i].at = "free"

Spawn(by, t, h) ==
  /\ jobs' = [jobs EXCEPT ![NextSlot] = [Free EXCEPT !.by = by, !.t = t,
                                                     !.at = "served", !.h = h]]
  /\ disturbed' = IF Busy(t) THEN disturbed \cup {t} ELSE disturbed \ {t}

\* touch, then save or save_and_sync: the file first, then the upload, in a
\* spawned task or awaited.  No If-Match header is sent.
Save(t, by) ==
  /\ Call /\ ~CallerWaits /\ ~Deleted(t)
  /\ version' = [version EXCEPT ![t] = @ + 1]
  /\ local' = [local EXCEPT ![t] = version[t] + 1]
  /\ IF t \in Private THEN UNCHANGED <<jobs, disturbed>>
     ELSE Spawn(by, t, NewHandler("upsert", [body |-> version[t] + 1,
                                             version |-> version[t] + 1], 0))
  /\ UNCHANGED <<pending_store, pending, rows, lock, orphans, faults>>

\* Mutant: delete does not look at is_private.
Delete_private(t) ==
  /\ Call /\ ~CallerWaits /\ local[t] # 0
  /\ local' = [local EXCEPT ![t] = 0]
  /\ Spawn("delete", t, NewHandler("delete", NoDocument, 0))
  /\ UNCHANGED <<version, pending_store, pending, rows, lock, orphans, faults>>

\* delete: a thread without a file is NotFound.
Delete(t) ==
  /\ Call /\ ~CallerWaits /\ local[t] # 0
  /\ local' = [local EXCEPT ![t] = 0]
  /\ IF t \in Private THEN UNCHANGED <<jobs, disturbed>>
     ELSE Spawn("delete", t, NewHandler("delete", NoDocument, 0))
  /\ UNCHANGED <<version, pending_store, pending, rows, lock, orphans, faults>>

\* The web interface changes the visibility, with or without If-Match.
SetVisibility(t) ==
  /\ Call /\ get_thread_owner_user_id(rows[t])
  /\ \E expect \in {0, rows[t].doc.version} :
       /\ jobs' = [jobs EXCEPT ![NextSlot] =
             [Free EXCEPT !.by = "web", !.t = t, !.at = "served",
                          !.h = NewHandler("visibility", NoDocument, expect)]]
       /\ disturbed' = IF Busy(t) THEN disturbed \cup {t} ELSE disturbed
  /\ UNCHANGED <<disk, rows, lock, orphans, faults>>

\* retry_pending reads the queue once, under the lock.  Without a pending
\* store, or if the queue cannot be read, it returns and has done nothing.
RetryPending ==
  /\ pending_store = "Some"
  /\ Call /\ lock = NoJob
  /\ jobs' = [jobs EXCEPT ![NextSlot] =
                [Free EXCEPT !.by = "retry", !.at = "next", !.todo = pending]]
  /\ UNCHANGED <<disk, rows, lock, orphans, faults, disturbed>>

\* The next entry of the copy: an upload takes the thread's current file and
\* is skipped if there is none.
RetryNext(i) ==
  /\ jobs[i].at = "next"
  /\ IF jobs[i].todo = <<>>
     THEN jobs' = [jobs EXCEPT ![i] = Free] /\ UNCHANGED disturbed
     ELSE LET e == Head(jobs[i].todo)
              doc == [body |-> local[e.t], version |-> local[e.t]]
              rest == [Free EXCEPT !.by = "retry", !.at = "next",
                                   !.todo = Tail(jobs[i].todo)]
          IN IF e.op = "upsert" /\ local[e.t] = 0
             THEN jobs' = [jobs EXCEPT ![i] = rest] /\ UNCHANGED disturbed
             ELSE /\ jobs' = [jobs EXCEPT ![i] =
                       [rest EXCEPT !.t = e.t, !.at = "served",
                          !.h = NewHandler(e.op, IF e.op = "upsert" THEN doc
                                                 ELSE NoDocument, 0)]]
                  /\ disturbed' = IF WebAt(e.t) THEN disturbed \cup {e.t}
                                  ELSE disturbed
  /\ UNCHANGED <<disk, rows, lock, orphans, bounds>>

\* A thread's file that cannot be read ends the whole retry_pending, and the
\* entries after it stay as they are.
RetryLoadFails(i) ==
  /\ jobs[i].at = "next" /\ jobs[i].todo # <<>>
  /\ Head(jobs[i].todo).op = "upsert"
  /\ faults < MaxFaults /\ faults' = faults + 1
  /\ jobs' = [jobs EXCEPT ![i] = Free]
  /\ UNCHANGED <<disk, rows, lock, orphans, ops, disturbed>>

------------------------------------------------------------------------------
(* One attempt of a request                                                 *)

\* What the client makes of the response: a thread that is not there counts
\* as deleted.
Succeeded(h) == h.at = "ok" \/ (h.op = "delete" /\ h.at = "missing")

\* Of a request that has ended, its operation and outcome are left.
Over(job, outcome) ==
  [job EXCEPT !.at = outcome, !.tries = 0,
              !.h = NewHandler(job.h.op, NoDocument, 0)]

Serve(i) ==
  /\ jobs[i].at = "served"
  /\ LET t == jobs[i].t
         h == Advance(jobs[i].h, rows[t])
     IN /\ rows' = [rows EXCEPT ![t] = After(jobs[i].h, @)]
        /\ jobs' = [jobs EXCEPT ![i] =
                      CASE h.at \notin Ended -> [@ EXCEPT !.h = h]
                        [] Succeeded(h) -> Over(@, "ok")
                        [] OTHER -> Over(@, "err")]
  /\ UNCHANGED <<disk, lock, orphans, bounds, disturbed>>

ServeOrphan(o) ==
  /\ rows' = [rows EXCEPT ![o.t] = After(o.h, @)]
  /\ LET h == Advance(o.h, rows[o.t])
     IN orphans' = (orphans \ {o})
                     \cup (IF h.at \in Ended THEN {} ELSE {[o EXCEPT !.h = h]})
  /\ UNCHANGED <<disk, jobs, lock, bounds, disturbed>>

\* A handler that nobody waits for is dropped, or the server stops.
DropOrphan(o) ==
  /\ orphans' = orphans \ {o}
  /\ UNCHANGED <<disk, rows, jobs, lock, bounds, disturbed>>

\* Mutant: the attempts are not counted.
Tried_uncounted(job, retryable) ==
  IF retryable THEN [job EXCEPT !.h = NewHandler(@.op, @.doc, @.expect)]
  ELSE Over(job, "err")

\* retry: a retryable error is tried again until max_attempts is reached.
Tried(job, retryable) ==
  IF retryable /\ job.tries + 1 < MaxAttempts
  THEN [job EXCEPT !.tries = @ + 1, !.h = NewHandler(@.op, @.doc, @.expect)]
  ELSE Over(job, "err")

\* No answer arrives: the connection cannot be made or times out (retryable),
\* or it breaks or the server fails (not retryable).  The handler, if it had
\* begun, is dropped or goes on.
AnswerLost(i) ==
  /\ jobs[i].at = "served" /\ jobs[i].by # "web"
  /\ \E retryable, goesOn \in BOOLEAN :
       /\ IF goesOn
          THEN /\ faults < MaxFaults /\ faults' = faults + 1
               /\ orphans' = orphans \cup {[t |-> jobs[i].t, h |-> jobs[i].h]}
          ELSE UNCHANGED <<faults, orphans>>
       /\ jobs' = [jobs EXCEPT ![i] = Tried(@, retryable)]
  /\ UNCHANGED <<disk, rows, lock, ops, disturbed>>

------------------------------------------------------------------------------
(* What is noted when a request has ended                                   *)

\* The task of a save or delete that has not succeeded: it alone knows that
\* the server may lack something.
Answers(job) ==
  /\ job.by \in {"save", "sync", "delete"}
  /\ job.at \in {"served", "err"} \/ (job.at = "noting" /\ ~job.won)

EntryOf(job) == Entry(job.t, job.h.op)

\* Between two entries for retry_pending, the end for the others.
Rest(job) ==
  IF job.by = "retry"
  THEN [Free EXCEPT !.by = "retry", !.at = "next", !.todo = job.todo]
  ELSE Free

\* Who notes what has become of a request: the spawned tasks, and
\* retry_pending a success, if there is a pending store.
Notes(job) ==
  /\ pending_store = "Some"
  /\ job.by \in {"save", "delete"} \/ (job.by = "retry" /\ job.at = "ok")

\* The others return the outcome to their caller or log it, and note nothing.
Returned(i) ==
  /\ jobs[i].at \in {"ok", "err"} /\ ~Notes(jobs[i])
  /\ jobs' = [jobs EXCEPT ![i] = Rest(@)]
  /\ disturbed' = IF Answers(jobs[i]) THEN disturbed \cup {jobs[i].t}
                  ELSE disturbed
  /\ UNCHANGED <<disk, rows, lock, orphans, bounds>>

\* Mutant: the store is used without its mutex.
CanLock_always == lock = NoJob \/ lock \in Job

\* Only one task at a time has the pending store.
CanLock == lock = NoJob

\* add_pending and remove_pending begin by loading the queue, under the lock.
LoadQueue(i) ==
  /\ jobs[i].at \in {"ok", "err"} /\ Notes(jobs[i])
  /\ CanLock /\ lock' = i
  /\ jobs' = [jobs EXCEPT ![i].at = "noting", ![i].won = jobs[i].at = "ok",
                          ![i].queue = pending]
  /\ UNCHANGED <<disk, rows, orphans, bounds, disturbed>>

\* They end by saving it.
StoreQueue(i) ==
  /\ jobs[i].at = "noting"
  /\ LET e == EntryOf(jobs[i])
     IN pending' = IF jobs[i].won THEN remove(jobs[i].queue, e)
                   ELSE add(jobs[i].queue, e)
  /\ lock' = NoJob
  /\ jobs' = [jobs EXCEPT ![i] = Rest(@)]
  /\ UNCHANGED <<version, local, pending_store, rows, orphans, bounds, disturbed>>

\* A failing read makes add_pending start with an empty queue; a failing
\* write, and any failure of remove_pending, is ignored.
StoreQueueFails(i) ==
  /\ jobs[i].at = "noting" /\ faults < MaxFaults
  /\ LET e == EntryOf(jobs[i])
         left == {pending} \cup (IF jobs[i].won THEN {} ELSE {<<e>>})
     IN \E queue \in left :
          /\ pending' = queue
          /\ disturbed' = disturbed \cup {t \in Thread :
                \/ t = e.t /\ ~jobs[i].won /\ ~Contains(queue, e)
                \/ \E op \in SyncOperation : /\ Contains(pending, Entry(t, op))
                                            /\ ~Contains(queue, Entry(t, op))}
  /\ lock' = NoJob
  /\ jobs' = [jobs EXCEPT ![i] = Rest(@)]
  /\ faults' = faults + 1
  /\ UNCHANGED <<version, local, pending_store, rows, orphans, ops>>

\* The process ends with tasks under way (main returns right after the last
\* save) and is started again.  The handlers it waited for may go on.
Exit ==
  /\ faults < MaxFaults /\ faults' = faults + 1
  /\ LET mine == {i \in Job : jobs[i].by \notin {"free", "web"}}
         cut == {i \in mine : Answers(jobs[i])}
     IN /\ mine # {}
        /\ jobs' = [i \in Job |-> IF i \in mine THEN Free ELSE jobs[i]]
        /\ \E on \in SUBSET {i \in mine : jobs[i].at = "served"} :
             orphans' = orphans \cup {[t |-> jobs[i].t, h |-> jobs[i].h] : i \in on}
        /\ disturbed' = disturbed \cup {jobs[i].t : i \in cut}
  /\ lock' = NoJob
  /\ UNCHANGED <<disk, rows, ops>>

------------------------------------------------------------------------------
JobStep(i) ==
  \/ RetryNext(i) \/ Serve(i)
  \/ Returned(i) \/ LoadQueue(i) \/ StoreQueue(i)

Next ==
  \/ \E t \in Thread : \/ \E by \in {"save", "sync"} : Save(t, by)
                       \/ Delete(t) \/ SetVisibility(t)
  \/ RetryPending
  \/ \E i \in Job : JobStep(i) \/ AnswerLost(i)
                    \/ RetryLoadFails(i) \/ StoreQueueFails(i)
  \/ \E o \in orphans : ServeOrphan(o) \/ DropOrphan(o)
  \/ Exit

Spec == Init /\ [][Next]_vars

------------------------------------------------------------------------------
(* Properties                                                               *)

\* Once nobody is at a thread any more, the server has the newest saved
\* version, or no visible copy of a deleted thread, or the queue remembers
\* what is missing.  It holds unless the newest save or delete began while
\* another task was at the thread (their uploads may overtake each other), was
\* cut off by an exit before it succeeded, or failed without being noted, as
\* every failure does in a store without a pending store; or the web interface
\* was at the thread beside another task.  So whatever has been lost before,
\* one operation that begins alone puts it right when it succeeds or its
\* failure is noted, whatever retry_pending does meanwhile with its old copy of
\* the queue, and however often it is cut off (sync.rs, save, delete and
\* retry_pending).
SettledMeansSynced ==
  \A t \in Thread \ Private :
    ~Busy(t) /\ t \notin disturbed =>
      IF Deleted(t)
      THEN \/ ~get_thread_owner_user_id(rows[t])
           \/ Contains(pending, Entry(t, "delete"))
      ELSE \/ version[t] = 0
           \/ get_thread_owner_user_id(rows[t]) /\ rows[t].doc.body = local[t]
           \/ Contains(pending, Entry(t, "upsert"))

\* A private thread stays on this machine: no request, no entry in the queue
\* and no row on the server is ever about it, whatever is saved, deleted or
\* retried (retry_pending itself does not look at is_private).
PrivateStaysLocal ==
  \A t \in Private :
    /\ rows[t] = NoRow /\ ~Busy(t)
    /\ \A op \in SyncOperation :
         /\ ~Contains(pending, Entry(t, op))
         /\ \A i \in Job : /\ ~Contains(jobs[i].queue, Entry(t, op))
                           /\ ~Contains(jobs[i].todo, Entry(t, op))

\* A row that is deleted stays deleted: an upload or a change of visibility
\* that read the row before the delete does not make it visible again, for its
\* update leaves deleted_at alone, and an insert collides with the row.  (The
\* delete of a thread that has no row yet marks nothing: the thread's first
\* upload, if it is still under way, then inserts it.)
DeletedStaysDeleted ==
  [][\A t \in Thread : rows[t].deleted => rows'[t].deleted]_vars

\* An upload that reports success has left a thread the user can list and
\* delete: it has an owner, even when an earlier upload was lost between
\* inserting the row and setting its owner (routes/threads.rs, upsert_thread).
UploadedIsOwned ==
  \A i \in Job :
    jobs[i].at = "ok" /\ jobs[i].h.op = "upsert" =>
      LET row == rows[jobs[i].t] IN row.exists /\ (row.owned \/ row.deleted)

\* The queue a task has loaded is still the one on disk when the task writes
\* it back, so no entry of another thread is lost between (sync.rs locks the
\* pending store around add_pending and remove_pending).
LoadedQueueIsCurrent ==
  \A i \in Job : jobs[i].at = "noting" => lock = i /\ jobs[i].queue = pending

\* How many steps a task has left at most.
PointsLeft(h) == CASE h.at = "owner" -> 6 [] h.at = "fetch" -> 5
                   [] h.at = "read" -> 4 [] h.at = "write" -> 3
                   [] h.at = "reread" -> 2 [] OTHER -> 1
StepsLeft(job) ==
  LET perAttempt == 7
      perEntry == perAttempt * MaxAttempts + 5
      later == IF job.by = "retry" THEN 1 + perEntry * Len(job.todo) ELSE 0
  IN CASE job.at = "free"   -> 0
       [] job.at = "next"   -> later
       [] job.at = "noting" -> later + 1
       [] job.at = "served" -> later + 2 + PointsLeft(job.h)
                                 + perAttempt * (MaxAttempts - 1 - job.tries)
       [] OTHER -> later + 2

\* Every upload, delete and retry_pending is over after a bounded number of
\* its own steps, however often the network fails: each step brings it nearer
\* to its end (retry.rs counts the attempts of one request, retry_pending
\* works off a copy of the queue that does not grow).
JobsProgress ==
  [][\A i \in Job : jobs[i].at # "free" /\ jobs'[i] # jobs[i]
                      => StepsLeft(jobs'[i]) < StepsLeft(jobs[i])]_vars
==============================================================================
