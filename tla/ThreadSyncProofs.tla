--------------------------- MODULE ThreadSyncProofs ---------------------------
(***************************************************************************)
(* Proofs about ThreadSync, for all constants: a deleted thread never      *)
(* becomes visible again on the server, the queue of pending uploads is    *)
(* never written from an old copy, private threads stay on this machine,   *)
(* every task comes to an end, and an upload that reports success leaves   *)
(* a row with an owner.  They hold for any number of threads, tasks,       *)
(* handlers nobody waits for, retries and exits.                           *)
(***************************************************************************)
EXTENDS ThreadSync, SequenceTheorems, TLAPS

\* A row has the columns of the table, and only a row that exists is deleted.
RowShape(row) ==
  /\ row = [exists |-> row.exists, deleted |-> row.deleted,
            owned |-> row.owned, doc |-> row.doc]
  /\ row.exists \in BOOLEAN /\ row.deleted \in BOOLEAN
  /\ row.deleted => row.exists

\* The invariant about the rows of the server.
RowsInv ==
  /\ rows = [t \in Thread |-> rows[t]]
  /\ \A t \in Thread : RowShape(rows[t])

\* A slot has the fields of a task.
JobShape(job) ==
  job = [by |-> job.by, t |-> job.t, at |-> job.at, tries |-> job.tries,
         h |-> job.h, won |-> job.won, queue |-> job.queue, todo |-> job.todo]

\* The invariant about the queue: only tasks of the store have a copy of it,
\* which is current and theirs alone.
QueueInv ==
  /\ jobs = [i \in Job |-> jobs[i]]
  /\ \A i \in Job : JobShape(jobs[i])
  /\ \A i \in Job : jobs[i].at = "noting" => jobs[i].by \notin {"free", "web"}
  /\ LoadedQueueIsCurrent

\* No statement of any route makes a deleted row visible, or removes it.
LEMMA StatementKeepsDeleted ==
  ASSUME NEW h, NEW row, RowShape(row)
  PROVE  /\ RowShape(After(h, row))
         /\ row.deleted => After(h, row).deleted
<1> DEFINE Good(r) == RowShape(r) /\ (row.deleted => r.deleted)
<1>1. Good(row) OBVIOUS
<1>2. ASSUME get(row), NEW r, r = [row EXCEPT !.deleted = TRUE] PROVE Good(r)
  <2>1. r = [exists |-> row.exists, deleted |-> TRUE, owned |-> row.owned,
             doc |-> row.doc]
    BY <1>2 DEF RowShape
  <2> QED BY <1>2, <2>1 DEF RowShape, get
<1>3. ASSUME NEW d, NEW r, r = [row EXCEPT !.doc = d] PROVE Good(r)
  <2>1. r = [exists |-> row.exists, deleted |-> row.deleted, owned |-> row.owned,
             doc |-> d]
    BY <1>3 DEF RowShape
  <2> QED BY <2>1 DEF RowShape
<1>4. ASSUME NEW d, NEW r, r = [NoRow EXCEPT !.exists = TRUE, !.doc = d],
             ~row.exists
      PROVE  Good(r)
  <2>1. r = [exists |-> TRUE, deleted |-> FALSE, owned |-> FALSE, doc |-> d]
    BY <1>4 DEF NoRow
  <2>2. ~row.deleted BY <1>4 DEF RowShape
  <2>3. RowShape(r) BY <2>1 DEF RowShape
  <2> QED BY <2>2, <2>3
<1>5. ASSUME NEW r, r = [row EXCEPT !.owned = TRUE] PROVE Good(r)
  <2>1. r = [exists |-> row.exists, deleted |-> row.deleted, owned |-> TRUE,
             doc |-> row.doc]
    BY <1>5 DEF RowShape
  <2> QED BY <2>1 DEF RowShape
<1> HIDE DEF Good
<1>6. Good(WriteRow(h, row))
  BY <1>1, <1>2, <1>3, <1>4 DEF WriteRow
<1>7. Good(ClaimRow(row))
  BY <1>1, <1>5 DEF ClaimRow
<1>8. Good(After(h, row))
  BY <1>1, <1>6, <1>7 DEF After
<1> QED BY <1>8 DEF Good

\* A handler of any thread changes the rows by such a statement.
LEMMA ServedRows ==
  ASSUME RowsInv, NEW s, NEW h, rows' = [rows EXCEPT ![s] = After(h, @)]
  PROVE  RowsInv' /\ \A t \in Thread : rows[t].deleted => rows'[t].deleted
<1>1. rows' = [t \in Thread |-> IF t = s THEN After(h, rows[s]) ELSE rows[t]]
  BY DEF RowsInv
<1>2. ASSUME NEW t \in Thread
      PROVE  RowShape(rows'[t]) /\ (rows[t].deleted => rows'[t].deleted)
  <2>1. CASE t = s
    <3>1. rows'[t] = After(h, rows[t]) BY <1>1, <2>1
    <3>2. RowShape(rows[t]) BY DEF RowsInv
    <3> QED BY <3>1, <3>2, StatementKeepsDeleted
  <2>2. CASE t # s BY <1>1, <2>2 DEF RowsInv
  <2> QED BY <2>1, <2>2
<1>3. rows' = [t \in Thread |-> rows'[t]] BY <1>1
<1> QED BY <1>2, <1>3 DEF RowsInv, RowShape

\* Only the server's handlers write rows.
LEMMA RowsStep ==
  ASSUME RowsInv, [Next]_vars
  PROVE  RowsInv' /\ \A t \in Thread : rows[t].deleted => rows'[t].deleted
<1>1. ASSUME UNCHANGED rows
      PROVE  RowsInv' /\ \A t \in Thread : rows[t].deleted => rows'[t].deleted
  BY <1>1 DEF RowsInv, RowShape
<1>2. ASSUME NEW i \in Job, Serve(i)
      PROVE  RowsInv' /\ \A t \in Thread : rows[t].deleted => rows'[t].deleted
  <2>1. PICK s, h : rows' = [rows EXCEPT ![s] = After(h, @)]
    BY <1>2 DEF Serve
  <2> QED BY <2>1, ServedRows
<1>3. ASSUME NEW o \in orphans, ServeOrphan(o)
      PROVE  RowsInv' /\ \A t \in Thread : rows[t].deleted => rows'[t].deleted
  <2>1. PICK s, h : rows' = [rows EXCEPT ![s] = After(h, @)]
    BY <1>3 DEF ServeOrphan
  <2> QED BY <2>1, ServedRows
<1>4. \/ UNCHANGED rows
      \/ \E i \in Job : Serve(i)
      \/ \E o \in orphans : ServeOrphan(o)
  BY DEF Next, vars, Save, Delete, SetVisibility, RetryPending, JobStep, RetryNext,
         RetryLoadFails, Returned, LoadQueue, StoreQueue, AnswerLost, StoreQueueFails,
         DropOrphan, Exit
<1> QED BY <1>1, <1>2, <1>3, <1>4

\* A row that has been deleted stays deleted, whatever requests are lost,
\* repeated or reordered, and whatever an upload read before the delete
\* (loom-server-db thread.rs, upsert and delete).
THEOREM DeletionIsFinal == Spec => DeletedStaysDeleted
<1>1. Init => RowsInv
  <2> SUFFICES ASSUME Init PROVE RowsInv
    OBVIOUS
  <2>1. rows = [t \in Thread |-> NoRow] BY DEF Init
  <2>2. RowShape(NoRow) BY DEF RowShape, NoRow
  <2> QED BY <2>1, <2>2 DEF RowsInv
<1>2. RowsInv /\ [Next]_vars => RowsInv'
  BY RowsStep
<1>3. RowsInv /\ [Next]_vars
        => [\A t \in Thread : rows[t].deleted => rows'[t].deleted]_vars
  BY RowsStep
<1> QED BY <1>1, <1>2, <1>3, PTL DEF Spec, DeletedStaysDeleted

------------------------------------------------------------------------------
(* The queue of pending operations                                          *)

\* A step of one slot that does not load the queue, and leaves the queue and
\* its lock alone.
LEMMA SlotStep ==
  ASSUME QueueInv, NEW i \in Job, NEW job, JobShape(job), job.at # "noting",
         jobs' = [jobs EXCEPT ![i] = job], UNCHANGED <<pending, lock>>
  PROVE  QueueInv'
<1>1. jobs' = [j \in Job |-> IF j = i THEN job ELSE jobs[j]]
  BY DEF QueueInv
<1>2. \A j \in Job : JobShape(jobs'[j]) BY <1>1 DEF QueueInv
<1>3. \A j \in Job : jobs'[j].at = "noting" => j # i /\ jobs'[j] = jobs[j]
  BY <1>1
<1>4. \A j \in Job : jobs'[j].at = "noting" => lock' = j /\ jobs'[j].queue = pending'
  BY <1>3 DEF QueueInv, LoadedQueueIsCurrent
<1>5. \A j \in Job : jobs'[j].at = "noting" => jobs'[j].by \notin {"free", "web"}
  BY <1>3 DEF QueueInv
<1>6. jobs' = [j \in Job |-> jobs'[j]] BY <1>1
<1> QED BY <1>2, <1>4, <1>5, <1>6 DEF QueueInv, LoadedQueueIsCurrent, JobShape

\* When a task has the lock and gives it back, nobody else has the queue.
LEMMA StoreStep ==
  ASSUME QueueInv, NEW i \in Job, jobs[i].at = "noting",
         NEW job, JobShape(job), job.at # "noting",
         jobs' = [jobs EXCEPT ![i] = job]
  PROVE  QueueInv'
<1>1. jobs' = [j \in Job |-> IF j = i THEN job ELSE jobs[j]]
  BY DEF QueueInv
<1>2. \A j \in Job : JobShape(jobs'[j]) BY <1>1 DEF QueueInv
<1>3. \A j \in Job : jobs[j].at = "noting" => j = i
  BY DEF QueueInv, LoadedQueueIsCurrent
<1>4. \A j \in Job : jobs'[j].at # "noting" BY <1>1, <1>3
<1>5. jobs' = [j \in Job |-> jobs'[j]] BY <1>1
<1> QED BY <1>2, <1>4, <1>5 DEF QueueInv, LoadedQueueIsCurrent, JobShape

\* An idle slot is a slot.
LEMMA FreeShape == JobShape(Free) /\ Free.at = "free"
BY DEF JobShape, Free

\* What is left of a task that has noted or returned its outcome.
LEMMA RestShape ==
  ASSUME NEW job PROVE JobShape(Rest(job)) /\ Rest(job).at # "noting"
<1>1. CASE job.by = "retry"
  <2>1. Rest(job) = [by |-> "retry", t |-> NoThread, at |-> "next", tries |-> 0,
                     h |-> Free.h, won |-> FALSE, queue |-> <<>>,
                     todo |-> job.todo]
    BY <1>1 DEF Rest, Free
  <2> QED BY <2>1 DEF JobShape
<1>2. CASE job.by # "retry"
  BY <1>2, FreeShape DEF Rest
<1> QED BY <1>1, <1>2

\* A task whose request has ended.
LEMMA OverShape ==
  ASSUME NEW job, JobShape(job), NEW outcome
  PROVE  JobShape(Over(job, outcome)) /\ Over(job, outcome).at = outcome
<1> DEFINE h == NewHandler(job.h.op, NoDocument, 0)
<1>1. PICK over : over = [job EXCEPT !.at = outcome, !.tries = 0, !.h = h]
  OBVIOUS
<1>2. over = Over(job, outcome) BY <1>1 DEF Over
<1> HIDE DEF h
<1>3. over = [by |-> job.by, t |-> job.t, at |-> outcome, tries |-> 0, h |-> h,
              won |-> job.won, queue |-> job.queue, todo |-> job.todo]
  BY <1>1 DEF JobShape
<1>4. JobShape(over) /\ over.at = outcome BY <1>3 DEF JobShape
<1> QED BY <1>2, <1>4

\* A task whose answer was lost tries again, or its request ends.
LEMMA TriedShape ==
  ASSUME NEW job, JobShape(job), job.at = "served", NEW retryable \in BOOLEAN
  PROVE  JobShape(Tried(job, retryable)) /\ Tried(job, retryable).at # "noting"
<1>1. CASE retryable /\ job.tries + 1 < MaxAttempts
  <2>1. Tried(job, retryable) =
          [by |-> job.by, t |-> job.t, at |-> job.at, tries |-> job.tries + 1,
           h |-> NewHandler(job.h.op, job.h.doc, job.h.expect), won |-> job.won,
           queue |-> job.queue, todo |-> job.todo]
    BY <1>1 DEF Tried, JobShape
  <2> QED BY <2>1 DEF JobShape
<1>2. CASE ~(retryable /\ job.tries + 1 < MaxAttempts)
  BY <1>2, OverShape DEF Tried
<1> QED BY <1>1, <1>2

\* A call of the store takes a free slot, so none that has the queue.
LEMMA CallStep ==
  ASSUME QueueInv, Call, NEW job, JobShape(job), job.at # "noting",
         jobs' = [jobs EXCEPT ![NextSlot] = job], UNCHANGED <<pending, lock>>
  PROVE  QueueInv'
<1>1. NextSlot \in Job BY DEF Call, NextSlot
<1> QED BY <1>1, SlotStep

\* The task of an upload or a delete begins without a copy of the queue.
LEMMA SpawnStep ==
  ASSUME QueueInv, Call, NEW by, NEW t, NEW h, Spawn(by, t, h),
         UNCHANGED <<pending, lock>>
  PROVE  QueueInv'
<1>1. PICK job : /\ job = [Free EXCEPT !.by = by, !.t = t, !.at = "served", !.h = h]
                 /\ jobs' = [jobs EXCEPT ![NextSlot] = job]
  BY DEF Spawn
<1>2. job = [by |-> by, t |-> t, at |-> "served", tries |-> 0, h |-> h,
             won |-> FALSE, queue |-> <<>>, todo |-> <<>>]
  BY <1>1 DEF Free
<1>3. JobShape(job) /\ job.at # "noting" BY <1>2 DEF JobShape
<1> QED BY <1>1, <1>3, CallStep

\* Steps that are not about tasks or the queue.
LEMMA QueueKept ==
  ASSUME QueueInv, UNCHANGED <<jobs, pending, lock>> PROVE QueueInv'
BY DEF QueueInv, LoadedQueueIsCurrent, JobShape

\* Save and Delete spawn a task, or nothing for a private thread; the web
\* interface and retry_pending take a slot.
LEMMA CallersStep ==
  ASSUME QueueInv, NEW t,
         \/ \E by \in {"save", "sync"} : Save(t, by)
         \/ Delete(t)
         \/ SetVisibility(t)
         \/ RetryPending
  PROVE  QueueInv'
<1>1. ASSUME NEW by, Save(t, by) PROVE QueueInv'
  <2>1. UNCHANGED <<pending, lock>> /\ Call BY <1>1 DEF Save
  <2>2. UNCHANGED jobs \/ \E h : Spawn(by, t, h) BY <1>1 DEF Save
  <2> QED BY <2>1, <2>2, SpawnStep, QueueKept
<1>2. CASE Delete(t)
  <2>1. UNCHANGED <<pending, lock>> /\ Call BY <1>2 DEF Delete
  <2>2. UNCHANGED jobs \/ \E by, h : Spawn(by, t, h) BY <1>2 DEF Delete
  <2> QED BY <2>1, <2>2, SpawnStep, QueueKept
<1>3. CASE SetVisibility(t)
  <2>1. UNCHANGED <<pending, lock>> /\ Call BY <1>3 DEF SetVisibility, disk
  <2>2. PICK h, job :
          /\ job = [Free EXCEPT !.by = "web", !.t = t, !.at = "served", !.h = h]
          /\ jobs' = [jobs EXCEPT ![NextSlot] = job]
    BY <1>3 DEF SetVisibility
  <2>3. job = [by |-> "web", t |-> t, at |-> "served", tries |-> 0, h |-> h,
               won |-> FALSE, queue |-> <<>>, todo |-> <<>>]
    BY <2>2 DEF Free
  <2>4. JobShape(job) /\ job.at # "noting" BY <2>3 DEF JobShape
  <2> QED BY <2>1, <2>2, <2>4, CallStep
<1>4. CASE RetryPending
  <2>1. UNCHANGED <<pending, lock>> /\ Call BY <1>4 DEF RetryPending, disk
  <2>2. PICK job :
          /\ job = [Free EXCEPT !.by = "retry", !.at = "next", !.todo = pending]
          /\ jobs' = [jobs EXCEPT ![NextSlot] = job]
    BY <1>4 DEF RetryPending
  <2>3. job = [by |-> "retry", t |-> NoThread, at |-> "next", tries |-> 0,
               h |-> Free.h, won |-> FALSE, queue |-> <<>>, todo |-> pending]
    BY <2>2 DEF Free
  <2>4. JobShape(job) /\ job.at # "noting" BY <2>3 DEF JobShape
  <2> QED BY <2>1, <2>2, <2>4, CallStep
<1> QED BY <1>1, <1>2, <1>3, <1>4

\* The steps of a task that are not about the queue.
LEMMA TaskStep ==
  ASSUME QueueInv, NEW i \in Job,
         RetryNext(i) \/ RetryLoadFails(i) \/ Serve(i) \/ Returned(i) \/ AnswerLost(i)
  PROVE  QueueInv'
<1>1. UNCHANGED <<pending, lock>>
  BY DEF RetryNext, RetryLoadFails, Serve, Returned, AnswerLost, disk
<1>2. JobShape(jobs[i]) BY DEF QueueInv
<1>3. \E job : /\ JobShape(job) /\ job.at # "noting"
               /\ jobs' = [jobs EXCEPT ![i] = job]
  <2>1. CASE RetryNext(i)
    <3> DEFINE todo == Tail(jobs[i].todo)
               rest == [Free EXCEPT !.by = "retry", !.at = "next", !.todo = todo]
    <3>1. \/ jobs' = [jobs EXCEPT ![i] = Free]
          \/ jobs' = [jobs EXCEPT ![i] = rest]
          \/ \E t, h : jobs' = [jobs EXCEPT ![i] =
                                  [rest EXCEPT !.t = t, !.at = "served", !.h = h]]
      BY <2>1 DEF RetryNext
    <3> HIDE DEF todo
    <3>2. CASE jobs' = [jobs EXCEPT ![i] = Free]
      BY <3>2, FreeShape
    <3>3. PICK r : r = rest OBVIOUS
    <3>4. r = [by |-> "retry", t |-> NoThread, at |-> "next", tries |-> 0,
               h |-> Free.h, won |-> FALSE, queue |-> <<>>, todo |-> todo]
      BY <3>3 DEF Free
    <3> HIDE DEF rest
    <3>5. CASE jobs' = [jobs EXCEPT ![i] = rest]
      <4>1. JobShape(r) /\ r.at # "noting" BY <3>4 DEF JobShape
      <4> QED BY <3>3, <3>5, <4>1
    <3>6. CASE \E t, h : jobs' = [jobs EXCEPT ![i] =
                                   [rest EXCEPT !.t = t, !.at = "served", !.h = h]]
      <4>1. PICK t, h, job :
              /\ job = [r EXCEPT !.t = t, !.at = "served", !.h = h]
              /\ jobs' = [jobs EXCEPT ![i] = job]
        BY <3>3, <3>6
      <4>2. job = [by |-> "retry", t |-> t, at |-> "served", tries |-> 0,
                   h |-> h, won |-> FALSE, queue |-> <<>>, todo |-> todo]
        BY <3>4, <4>1
      <4>3. JobShape(job) /\ job.at # "noting" BY <4>2 DEF JobShape
      <4> QED BY <4>1, <4>3
    <3> QED BY <3>1, <3>2, <3>5, <3>6
  <2>2. CASE Serve(i)
    <3>1. \/ \E h : jobs' = [jobs EXCEPT ![i] = [jobs[i] EXCEPT !.h = h]]
          \/ jobs' = [jobs EXCEPT ![i] = Over(jobs[i], "ok")]
          \/ jobs' = [jobs EXCEPT ![i] = Over(jobs[i], "err")]
      <4> DEFINE h == Advance(jobs[i].h, rows[jobs[i].t])
                 new == CASE h.at \notin Ended -> [jobs[i] EXCEPT !.h = h]
                          [] Succeeded(h) -> Over(jobs[i], "ok")
                          [] OTHER -> Over(jobs[i], "err")
      <4>1. jobs' = [jobs EXCEPT ![i] = new] BY <2>2 DEF Serve
      <4> HIDE DEF h
      <4>2. \/ new = [jobs[i] EXCEPT !.h = h]
            \/ new = Over(jobs[i], "ok")
            \/ new = Over(jobs[i], "err")
        OBVIOUS
      <4> HIDE DEF new
      <4> QED BY <4>1, <4>2
    <3>2. ASSUME NEW h, jobs' = [jobs EXCEPT ![i] = [jobs[i] EXCEPT !.h = h]]
          PROVE  \E job : /\ JobShape(job) /\ job.at # "noting"
                          /\ jobs' = [jobs EXCEPT ![i] = job]
      <4>1. PICK old, job : /\ old = jobs[i] /\ job = [old EXCEPT !.h = h]
                            /\ jobs' = [jobs EXCEPT ![i] = job]
        BY <3>2
      <4>2. job = [by |-> old.by, t |-> old.t, at |-> old.at, tries |-> old.tries,
                   h |-> h, won |-> old.won, queue |-> old.queue,
                   todo |-> old.todo]
        BY <1>2, <4>1 DEF JobShape
      <4>3. old.at = "served" BY <2>2, <4>1 DEF Serve
      <4>4. JobShape(job) /\ job.at # "noting" BY <4>2, <4>3 DEF JobShape
      <4> QED BY <4>1, <4>4
    <3>3. \A outcome \in {"ok", "err"} :
            /\ JobShape(Over(jobs[i], outcome))
            /\ Over(jobs[i], outcome).at # "noting"
      BY <1>2, OverShape
    <3> QED BY <3>1, <3>2, <3>3
  <2>3. CASE Returned(i)
    <3>1. jobs' = [jobs EXCEPT ![i] = Rest(jobs[i])] BY <2>3 DEF Returned
    <3> QED BY <3>1, RestShape
  <2>4. CASE AnswerLost(i)
    <3>1. PICK retryable \in BOOLEAN :
            jobs' = [jobs EXCEPT ![i] = Tried(jobs[i], retryable)]
      BY <2>4 DEF AnswerLost
    <3>2. jobs[i].at = "served" BY <2>4 DEF AnswerLost
    <3> QED BY <1>2, <3>1, <3>2, TriedShape
  <2>5. CASE RetryLoadFails(i) BY <2>5, FreeShape DEF RetryLoadFails
  <2> QED BY <2>1, <2>2, <2>3, <2>4, <2>5
<1> QED BY <1>1, <1>3, SlotStep

\* A task loads the queue only when nobody has the lock, so that nobody else
\* has a copy; it is the one on disk.
LEMMA LoadStep ==
  ASSUME QueueInv, NEW i \in Job, LoadQueue(i)
  PROVE  QueueInv'
<1> DEFINE old == jobs[i]
<1>1. PICK job :
        /\ job = [old EXCEPT !.at = "noting", !.won = (old.at = "ok"),
                             !.queue = pending]
        /\ jobs' = [jobs EXCEPT ![i] = job]
        /\ lock = NoJob /\ lock' = i /\ UNCHANGED pending
  BY DEF LoadQueue, CanLock, disk, QueueInv
<1>2. JobShape(old) BY DEF QueueInv
<1> HIDE DEF old
<1>3. job = [by |-> old.by, t |-> old.t, at |-> "noting", tries |-> old.tries,
             h |-> old.h, won |-> (old.at = "ok"), queue |-> pending,
             todo |-> old.todo]
  BY <1>1, <1>2 DEF JobShape
<1>4. JobShape(job) /\ job.queue = pending /\ job.by = old.by
  BY <1>3 DEF JobShape
<1>5. jobs' = [j \in Job |-> IF j = i THEN job ELSE jobs[j]]
  BY <1>1 DEF QueueInv
<1>6. \A j \in Job : jobs[j].at # "noting"
  BY <1>1, ThreadSyncAssumption DEF QueueInv, LoadedQueueIsCurrent, NoJob
<1>7. \A j \in Job : jobs'[j].at = "noting"
                       => lock' = j /\ jobs'[j].queue = pending'
  BY <1>1, <1>4, <1>5, <1>6
<1>8. \A j \in Job : JobShape(jobs'[j]) BY <1>4, <1>5 DEF QueueInv
<1>9. jobs' = [j \in Job |-> jobs'[j]] BY <1>5
<1>10. old.by \notin {"free", "web"} BY DEF LoadQueue, Notes, old
<1>11. \A j \in Job : jobs'[j].at = "noting" => jobs'[j].by \notin {"free", "web"}
  BY <1>4, <1>5, <1>6, <1>10
<1> QED BY <1>7, <1>8, <1>9, <1>11 DEF QueueInv, LoadedQueueIsCurrent, JobShape

\* An exit frees every slot that can hold the queue: the others are free or
\* wait for the web interface.
LEMMA ExitStep == ASSUME QueueInv, Exit PROVE QueueInv'
<1> DEFINE mine == {i \in Job : jobs[i].by \notin {"free", "web"}}
<1>1. jobs' = [i \in Job |-> IF i \in mine THEN Free ELSE jobs[i]]
  BY DEF Exit
<1>2. \A i \in Job : JobShape(jobs'[i]) BY <1>1, FreeShape DEF QueueInv
<1>3. \A i \in Job : jobs'[i].at # "noting"
  BY <1>1, FreeShape DEF QueueInv
<1>4. jobs' = [i \in Job |-> jobs'[i]] BY <1>1
<1> QED BY <1>2, <1>3, <1>4 DEF QueueInv, LoadedQueueIsCurrent, JobShape

\* Every step keeps the invariant of the queue.
LEMMA QueueStep == ASSUME QueueInv, [Next]_vars PROVE QueueInv'
<1>1. ASSUME NEW t \in Thread,
             (\E by \in {"save", "sync"} : Save(t, by)) \/ Delete(t) \/ SetVisibility(t)
      PROVE  QueueInv'
  BY <1>1, CallersStep
<1>2. CASE RetryPending BY <1>2, CallersStep
<1>3. ASSUME NEW i \in Job, JobStep(i) \/ AnswerLost(i) \/ RetryLoadFails(i) \/ StoreQueueFails(i)
      PROVE  QueueInv'
  <2>1. CASE RetryNext(i) \/ RetryLoadFails(i) \/ Serve(i) \/ Returned(i) \/ AnswerLost(i)
    BY <2>1, TaskStep
  <2>2. CASE LoadQueue(i) BY <2>2, LoadStep
  <2>3. CASE StoreQueue(i) \/ StoreQueueFails(i)
    <3>1. jobs[i].at = "noting" /\ jobs' = [jobs EXCEPT ![i] = Rest(jobs[i])]
      BY <2>3 DEF StoreQueue, StoreQueueFails
    <3>2. JobShape(Rest(jobs[i])) /\ Rest(jobs[i]).at # "noting"
      BY RestShape
    <3> QED BY <3>1, <3>2, StoreStep
  <2> QED BY <1>3, <2>1, <2>2, <2>3 DEF JobStep
<1>4. ASSUME NEW o \in orphans, ServeOrphan(o) \/ DropOrphan(o) PROVE QueueInv'
  BY <1>4, QueueKept DEF ServeOrphan, DropOrphan, disk
<1>5. CASE Exit BY <1>5, ExitStep
<1>6. CASE UNCHANGED vars BY <1>6, QueueKept DEF vars
<1> QED BY <1>1, <1>2, <1>3, <1>4, <1>5, <1>6 DEF Next

\* The queue a task writes back is the one on disk with its own entry added or
\* removed: no entry of another task is lost between, for any number of tasks
\* and any pattern of failures and exits (sync.rs, the mutex around
\* add_pending and remove_pending).
THEOREM QueueWritesAreCurrent == Spec => []LoadedQueueIsCurrent
<1>1. Init => QueueInv
  <2> SUFFICES ASSUME Init PROVE QueueInv
    OBVIOUS
  <2>1. jobs = [i \in Job |-> Free] BY DEF Init
  <2> QED BY <2>1, FreeShape DEF QueueInv, LoadedQueueIsCurrent
<1>2. QueueInv /\ [Next]_vars => QueueInv' BY QueueStep
<1>3. QueueInv => LoadedQueueIsCurrent BY DEF QueueInv
<1> QED BY <1>1, <1>2, <1>3, PTL DEF Spec


------------------------------------------------------------------------------
(* Types, and threads that stay on this machine                             *)

\* The threads that are synced, and what the queue may say about them.
Shared == Thread \ Private
SharedEntry == [t : Shared, op : SyncOperation]
Distinct(queue) == \A m, n \in 1..Len(queue) : queue[m] = queue[n] => m = n

\* A handler that has not ended.
HandlerOK(h) == h \in Handler /\ h.at \notin Ended

\* A slot that is not between two requests is at a thread that is synced; only
\* the web interface changes the visibility, and it notes nothing.
JobOK(job) ==
  /\ job \in JobType /\ job.tries < MaxAttempts /\ HandlerOK(job.h)
  /\ job.queue \in Seq(SharedEntry) /\ job.todo \in Seq(SharedEntry)
  /\ job.t \in IF job.at \in {"free", "next"} THEN {NoThread} ELSE Shared
  /\ job.by = "free" <=> job.at = "free"
  /\ job.at = "next" => job.by = "retry"
  /\ job.h.op = "visibility" <=> job.by = "web"
  /\ job.by = "web" => job.at # "noting"

OrphanOK(o) ==
  /\ o = [t |-> o.t, h |-> o.h] /\ o.t \in Shared
  /\ HandlerOK(o.h) /\ o.h.op \in SyncOperation

\* The inductive invariant: types, and nothing is about a private thread.
DiskOK ==
  /\ version \in [Thread -> Nat] /\ local \in [Thread -> Nat] /\ ops \in 0..MaxOps
  /\ \A t \in Thread : local[t] \in {0, version[t]} /\ version[t] <= ops
QueueOK == pending \in Seq(SharedEntry) /\ Distinct(pending)
RowsOK == rows \in [Thread -> Row] /\ \A t \in Private : rows[t] = NoRow
JobsOK == jobs \in [Job -> JobType] /\ \A i \in Job : JobOK(jobs[i])
OrphansOK == \A o \in orphans : OrphanOK(o)
RestOfTypes ==
  /\ lock \in Job \cup {NoJob} /\ faults \in 0..MaxFaults /\ disturbed \subseteq Thread
  /\ pending_store \in {"None", "Some"}
TypeInv == DiskOK /\ QueueOK /\ RowsOK /\ JobsOK /\ OrphansOK /\ RestOfTypes

\* A request begins at the ownership check.
LEMMA NewHandlerOK ==
  ASSUME NEW op \in Ops, NEW doc \in Document, NEW expect \in Nat
  PROVE  /\ HandlerOK(NewHandler(op, doc, expect))
         /\ NewHandler(op, doc, expect).op = op
         /\ NewHandler(op, doc, expect).doc = doc
         /\ NewHandler(op, doc, expect).at = "owner"
         /\ ~NewHandler(op, doc, expect).owned
         /\ ~NewHandler(op, doc, expect).found
BY DEF HandlerOK, NewHandler, Handler, Points, Ended

LEMMA SharedQueue == Seq(SharedEntry) \subseteq Seq(PendingSyncEntry)
<1>1. SharedEntry \subseteq PendingSyncEntry
  BY DEF SharedEntry, PendingSyncEntry, Shared
<1>2. ASSUME NEW S, NEW T, S \subseteq T PROVE Seq(S) \subseteq Seq(T) BY <1>2
<1> QED BY <1>1, <1>2

LEMMA NoDocumentOK == NoDocument \in Document
BY DEF NoDocument, Document

\* An idle slot.
LEMMA FreeOK ==
  /\ JobOK(Free) /\ Free.at = "free" /\ Free.by = "free" /\ Free.t = NoThread
  /\ Free.h.op = "upsert" /\ Free.queue = <<>> /\ Free.todo = <<>>
<1>1. PICK h : h = NewHandler("upsert", NoDocument, 0) OBVIOUS
<1>2. HandlerOK(h) /\ h.op = "upsert"
  BY <1>1, NewHandlerOK, NoDocumentOK DEF Ops
<1>3. Free = [by |-> "free", t |-> NoThread, at |-> "free", tries |-> 0, h |-> h,
              won |-> FALSE, queue |-> <<>>, todo |-> <<>>]
  BY <1>1 DEF Free
<1>4. h \in Handler BY <1>2 DEF HandlerOK
<1>5. Free \in JobType BY <1>3, <1>4, ThreadSyncAssumption DEF JobType
<1>6. /\ Free.by = "free" /\ Free.t = NoThread /\ Free.at = "free" /\ Free.tries = 0
      /\ Free.h = h /\ Free.queue = <<>> /\ Free.todo = <<>>
  BY <1>3
<1> QED BY <1>2, <1>5, <1>6, ThreadSyncAssumption DEF JobOK

\* A statement of a handler leaves a handler of the same request, nearer to
\* its end, and a row.
LEMMA AdvanceOK ==
  ASSUME NEW h, HandlerOK(h), NEW row \in Row
  PROVE  /\ Advance(h, row) \in Handler /\ Advance(h, row).op = h.op
         /\ Advance(h, row).at \in Ended \/ PointsLeft(Advance(h, row)) < PointsLeft(h)
<1> DEFINE Good(g) == g \in Handler /\ g.op = h.op
                      /\ (g.at \in Ended \/ PointsLeft(g) < PointsLeft(h))
<1>0. h \in Handler /\ h.at \in {"owner", "fetch", "read", "write", "reread", "claim"}
  BY DEF HandlerOK, Handler, Points
<1>1. CASE h.at = "owner"
  <2>1. PICK g : g = CheckOwner(h, row) OBVIOUS
  <2>2. g \in Handler /\ g.op = h.op
    BY <1>0, <2>1 DEF CheckOwner, Handler, Points, Ended, get_thread_owner_user_id, get, Row
  <2>3. g.at \in {"read", "missing", "write", "fetch"}
    BY <1>0, <2>1 DEF CheckOwner, Handler
  <2>4. Good(g) BY <1>1, <2>2, <2>3 DEF Ended, PointsLeft
  <2> QED BY <1>1, <2>1, <2>4 DEF Advance
<1>2. CASE h.at = "fetch"
  <2>1. PICK g : g = Fetch(h, row) OBVIOUS
  <2>2. PICK d : d = [row.doc EXCEPT !.version = @ + 1] OBVIOUS
  <2>3. d \in Document BY <2>2 DEF Row, Document
  <2>4. \/ g = [h EXCEPT !.at = "missing"] \/ g = [h EXCEPT !.at = "conflict"]
        \/ g = [h EXCEPT !.at = "read", !.expect = 0, !.doc = d]
    BY <2>1, <2>2 DEF Fetch
  <2>5. g \in Handler /\ g.op = h.op /\ g.at \in {"missing", "conflict", "read"}
    <3>1. ASSUME NEW k \in Ended, g = [h EXCEPT !.at = k]
          PROVE  g \in Handler /\ g.op = h.op /\ g.at = k
      BY <1>0, <3>1 DEF Handler, Points
    <3>2. CASE g = [h EXCEPT !.at = "read", !.expect = 0, !.doc = d]
      <4>1. g = [op |-> h.op, doc |-> d, expect |-> 0, at |-> "read",
                 owned |-> h.owned, found |-> h.found]
        BY <1>0, <3>2 DEF Handler
      <4> QED BY <1>0, <2>3, <4>1 DEF Handler, Points
    <3> QED BY <2>4, <3>1, <3>2 DEF Ended
  <2>6. Good(g) BY <1>2, <2>5 DEF Ended, PointsLeft
  <2> QED BY <1>2, <2>1, <2>6 DEF Advance
<1>3. CASE h.at = "read"
  <2>1. PICK g : g = Read(h, row) OBVIOUS
  <2>2. g \in Handler /\ g.op = h.op /\ g.at \in {"conflict", "write"}
    BY <1>0, <2>1 DEF Read, Handler, Points, Ended, get, Row
  <2>3. Good(g) BY <1>3, <2>2 DEF Ended, PointsLeft
  <2> QED BY <1>3, <2>1, <2>3 DEF Advance
<1>4. CASE h.at = "write"
  <2>1. PICK g : g = Wrote(h, row) OBVIOUS
  <2>2. g \in Handler /\ g.op = h.op /\ g.at \in {"ok", "missing", "reread", "error"}
    BY <1>0, <2>1 DEF Wrote, Handler, Points, Ended
  <2>3. Good(g) BY <1>4, <2>2 DEF Ended, PointsLeft
  <2> QED BY <1>4, <2>1, <2>3 DEF Advance
<1>5. CASE h.at = "reread"
  <2>1. PICK g : g = Reread(h, row) OBVIOUS
  <2>2. g \in Handler /\ g.op = h.op /\ g.at \in {"ok", "error", "claim"}
    BY <1>0, <2>1 DEF Reread, Handler, Points, Ended
  <2>3. Good(g) BY <1>5, <2>2 DEF Ended, PointsLeft
  <2> QED BY <1>5, <2>1, <2>3 DEF Advance
<1>6. CASE h.at = "claim"
  <2>1. PICK g : g = [h EXCEPT !.at = "ok"] OBVIOUS
  <2>2. g \in Handler /\ g.op = h.op /\ g.at = "ok"
    BY <1>0, <2>1 DEF Handler, Points, Ended
  <2>3. Good(g) BY <2>2 DEF Ended
  <2> QED BY <1>6, <2>1, <2>3 DEF Advance
<1> QED BY <1>0, <1>1, <1>2, <1>3, <1>4, <1>5, <1>6

LEMMA AfterOK ==
  ASSUME NEW h \in Handler, NEW row \in Row
  PROVE  After(h, row) \in Row
<1>1. ASSUME NEW r, r = [row EXCEPT !.deleted = TRUE] PROVE r \in Row
  BY <1>1 DEF Row
<1>2. ASSUME NEW r, r = [row EXCEPT !.doc = h.doc] PROVE r \in Row
  BY <1>2 DEF Row, Handler
<1>3. ASSUME NEW r, r = [NoRow EXCEPT !.exists = TRUE, !.doc = h.doc] PROVE r \in Row
  <2>1. r = [exists |-> TRUE, deleted |-> FALSE, owned |-> FALSE, doc |-> h.doc]
    BY <1>3 DEF NoRow
  <2> QED BY <2>1 DEF Row, Handler
<1>4. ASSUME NEW r, r = [row EXCEPT !.owned = TRUE] PROVE r \in Row
  BY <1>4 DEF Row
<1>5. WriteRow(h, row) \in Row BY <1>1, <1>2, <1>3 DEF WriteRow
<1>6. ClaimRow(row) \in Row BY <1>4 DEF ClaimRow
<1> QED BY <1>5, <1>6 DEF After

\* What is left of a task whose request has ended: its thread, operation and
\* outcome.
LEMMA OverFields ==
  ASSUME NEW job \in JobType, HandlerOK(job.h), NEW outcome
  PROVE  \E h : /\ HandlerOK(h) /\ h.op = job.h.op
                /\ Over(job, outcome) =
                     [by |-> job.by, t |-> job.t, at |-> outcome, tries |-> 0,
                      h |-> h, won |-> job.won, queue |-> job.queue,
                      todo |-> job.todo]
<1>1. PICK h : h = NewHandler(job.h.op, NoDocument, 0) OBVIOUS
<1>2. HandlerOK(h) /\ h.op = job.h.op
  BY <1>1, NewHandlerOK, NoDocumentOK DEF HandlerOK, Handler
<1>3. PICK over : over = [job EXCEPT !.at = outcome, !.tries = 0, !.h = h] OBVIOUS
<1>4. over = [by |-> job.by, t |-> job.t, at |-> outcome, tries |-> 0,
              h |-> h, won |-> job.won, queue |-> job.queue, todo |-> job.todo]
  BY <1>3 DEF JobType
<1>5. Over(job, outcome) = over BY <1>1, <1>3 DEF Over
<1> QED BY <1>2, <1>4, <1>5

LEMMA OverOK ==
  ASSUME NEW job, JobOK(job), job.at = "served", NEW outcome \in {"ok", "err"}
  PROVE  JobOK(Over(job, outcome))
<1>0. job \in JobType /\ HandlerOK(job.h) BY DEF JobOK
<1>1. PICK h, over :
        /\ HandlerOK(h) /\ h.op = job.h.op /\ over = Over(job, outcome)
        /\ over = [by |-> job.by, t |-> job.t, at |-> outcome, tries |-> 0,
                   h |-> h, won |-> job.won, queue |-> job.queue,
                   todo |-> job.todo]
  BY <1>0, OverFields
<1>2. over \in JobType
  BY <1>0, <1>1, ThreadSyncAssumption DEF JobType, HandlerOK
<1>3. /\ over.by = job.by /\ over.t = job.t /\ over.at = outcome /\ over.tries = 0
      /\ over.h = h /\ over.queue = job.queue /\ over.todo = job.todo
  BY <1>1
<1> QED BY <1>1, <1>2, <1>3, ThreadSyncAssumption DEF JobOK

\* What is left of a task that has noted or returned its outcome.
LEMMA RestFields ==
  ASSUME NEW job
  PROVE  Rest(job) = IF job.by = "retry"
                     THEN [by |-> "retry", t |-> NoThread, at |-> "next", tries |-> 0,
                           h |-> Free.h, won |-> FALSE, queue |-> <<>>,
                           todo |-> job.todo]
                     ELSE Free
<1>1. CASE job.by = "retry"
  <2>1. PICK h : h = Free.h OBVIOUS
  <2>2. Rest(job) = [by |-> "retry", t |-> NoThread, at |-> "next", tries |-> 0,
                     h |-> h, won |-> FALSE, queue |-> <<>>, todo |-> job.todo]
    BY <1>1, <2>1 DEF Rest, Free
  <2> QED BY <1>1, <2>1, <2>2
<1>2. CASE job.by # "retry" BY <1>2 DEF Rest
<1> QED BY <1>1, <1>2

\* A retry_pending between two entries.
LEMMA BetweenOK ==
  ASSUME NEW todo \in Seq(SharedEntry), NEW job,
         job = [by |-> "retry", t |-> NoThread, at |-> "next", tries |-> 0,
                h |-> Free.h, won |-> FALSE, queue |-> <<>>, todo |-> todo]
  PROVE  JobOK(job)
<1>1. PICK h : h = Free.h /\ HandlerOK(h) /\ h.op = "upsert" BY FreeOK DEF JobOK
<1>2. h \in Handler /\ todo \in Seq(PendingSyncEntry)
  BY <1>1, SharedQueue DEF HandlerOK
<1>3. job \in JobType BY <1>1, <1>2, ThreadSyncAssumption DEF JobType
<1>4. /\ job.by = "retry" /\ job.t = NoThread /\ job.at = "next" /\ job.tries = 0
      /\ job.h = h /\ job.queue = <<>> /\ job.todo = todo
  BY <1>1
<1> QED BY <1>1, <1>3, <1>4, ThreadSyncAssumption DEF JobOK

LEMMA RestOK == ASSUME NEW job, JobOK(job) PROVE JobOK(Rest(job))
BY RestFields, BetweenOK, FreeOK DEF JobOK

\* A request that begins.
LEMMA RequestOK ==
  ASSUME NEW by \in {"save", "sync", "delete", "retry", "web"}, NEW t \in Shared,
         NEW h, HandlerOK(h), h.op = "visibility" <=> by = "web",
         NEW todo \in Seq(SharedEntry), NEW job,
         job = [by |-> by, t |-> t, at |-> "served", tries |-> 0, h |-> h,
                won |-> FALSE, queue |-> <<>>, todo |-> todo]
  PROVE  JobOK(job)
<1>1. h \in Handler /\ todo \in Seq(PendingSyncEntry) /\ t \in Thread
  BY SharedQueue DEF HandlerOK, Shared
<1>2. job \in JobType BY <1>1, ThreadSyncAssumption DEF JobType
<1>3. /\ job.by = by /\ job.t = t /\ job.at = "served" /\ job.tries = 0
      /\ job.h = h /\ job.queue = <<>> /\ job.todo = todo
  OBVIOUS
<1> QED BY <1>2, <1>3, ThreadSyncAssumption DEF JobOK

\* A task whose answer was lost.
LEMMA TriedFields ==
  ASSUME NEW job, JobOK(job), job.at = "served", NEW retryable \in BOOLEAN
  PROVE  \/ /\ job.tries + 1 < MaxAttempts
            /\ Tried(job, retryable) =
                 [by |-> job.by, t |-> job.t, at |-> "served",
                  tries |-> job.tries + 1,
                  h |-> NewHandler(job.h.op, job.h.doc, job.h.expect),
                  won |-> job.won, queue |-> job.queue, todo |-> job.todo]
         \/ Tried(job, retryable) = Over(job, "err")
<1>1. job \in JobType BY DEF JobOK
<1>2. CASE retryable /\ job.tries + 1 < MaxAttempts
  BY <1>1, <1>2 DEF Tried, JobType
<1>3. CASE ~(retryable /\ job.tries + 1 < MaxAttempts)
  BY <1>3 DEF Tried
<1> QED BY <1>2, <1>3

LEMMA TriedOK ==
  ASSUME NEW job, JobOK(job), job.at = "served", NEW retryable \in BOOLEAN
  PROVE  JobOK(Tried(job, retryable))
<1>0. job \in JobType /\ HandlerOK(job.h) BY DEF JobOK
<1>1. CASE Tried(job, retryable) = Over(job, "err") BY <1>1, OverOK
<1>2. CASE /\ job.tries + 1 < MaxAttempts
           /\ Tried(job, retryable) =
                 [by |-> job.by, t |-> job.t, at |-> "served",
                  tries |-> job.tries + 1,
                  h |-> NewHandler(job.h.op, job.h.doc, job.h.expect),
                  won |-> job.won, queue |-> job.queue, todo |-> job.todo]
  <2>1. PICK h, new : /\ h = NewHandler(job.h.op, job.h.doc, job.h.expect)
                      /\ new = Tried(job, retryable)
    OBVIOUS
  <2>2. HandlerOK(h) /\ h.op = job.h.op
    BY <1>0, <2>1, NewHandlerOK DEF HandlerOK, Handler
  <2>3. new = [by |-> job.by, t |-> job.t, at |-> "served", tries |-> job.tries + 1,
               h |-> h, won |-> job.won, queue |-> job.queue, todo |-> job.todo]
    BY <1>2, <2>1
  <2>4. job.tries \in Nat /\ job.tries + 1 \in 0..MaxAttempts
    BY <1>0, <1>2, ThreadSyncAssumption DEF JobType
  <2>5. new \in JobType BY <1>0, <2>2, <2>3, <2>4 DEF JobType, HandlerOK
  <2>6. /\ new.by = job.by /\ new.t = job.t /\ new.at = "served"
        /\ new.tries = job.tries + 1 /\ new.h = h /\ new.queue = job.queue
        /\ new.todo = job.todo
    BY <2>3
  <2>7. JobOK(new) BY <1>2, <2>2, <2>5, <2>6 DEF JobOK
  <2> QED BY <2>1, <2>7
<1> QED BY <1>1, <1>2, TriedFields

\* The queue with an entry added, or left out.
LEMMA AddOK ==
  ASSUME NEW S, NEW queue \in Seq(S), Distinct(queue), NEW e \in S
  PROVE  /\ add(queue, e) \in Seq(S) /\ Distinct(add(queue, e))
         /\ \A x : Contains(add(queue, e), x) <=> Contains(queue, x) \/ x = e
<1>1. CASE Contains(queue, e) BY <1>1 DEF add
<1>2. CASE ~Contains(queue, e)
  <2>1. PICK q : q = Append(queue, e) OBVIOUS
  <2>2. /\ q \in Seq(S) /\ Len(q) = Len(queue) + 1 /\ Len(queue) \in Nat
        /\ q[Len(queue) + 1] = e /\ \A n \in 1..Len(queue) : q[n] = queue[n]
    BY <2>1, AppendProperties
  <2>3. Distinct(q) BY <1>2, <2>2 DEF Distinct, Contains
  <2>4. \A x : Contains(q, x) <=> Contains(queue, x) \/ x = e
    BY <2>2 DEF Contains
  <2> QED BY <1>2, <2>1, <2>2, <2>3, <2>4 DEF add
<1> QED BY <1>1, <1>2

LEMMA RemoveOK ==
  ASSUME NEW S, NEW queue \in Seq(S), Distinct(queue), NEW e
  PROVE  /\ remove(queue, e) \in Seq(S) /\ Distinct(remove(queue, e))
         /\ \A x : Contains(remove(queue, e), x) <=> Contains(queue, x) /\ x # e
<1>1. CASE ~Contains(queue, e)
  <2>1. remove(queue, e) = queue BY <1>1 DEF remove
  <2> QED BY <1>1, <2>1
<1>2. CASE Contains(queue, e)
  <2>1. PICK k : k = CHOOSE n \in 1..Len(queue) : queue[n] = e OBVIOUS
  <2>2. k \in 1..Len(queue) /\ queue[k] = e BY <1>2, <2>1 DEF Contains
  <2>3. PICK N : N = Len(queue) - 1 /\ N \in Nat /\ k <= N + 1 /\ Len(queue) = N + 1
    BY <2>2
  <2>4. PICK q : q = [n \in 1..N |-> queue[IF n < k THEN n ELSE n + 1]] OBVIOUS
  <2>5. remove(queue, e) = q BY <1>2, <2>1, <2>3, <2>4 DEF remove
  <2>6. \A n \in 1..N : (IF n < k THEN n ELSE n + 1) \in 1..Len(queue)
    BY <2>2, <2>3
  <2>7. q \in [1..N -> S] BY <2>4, <2>6
  <2>8. q \in Seq(S) /\ Len(q) = N BY <2>3, <2>7
  <2>9. ASSUME NEW m \in 1..N, NEW n \in 1..N, q[m] = q[n] PROVE m = n
    <3>1. q[m] = queue[IF m < k THEN m ELSE m + 1] /\ q[n] = queue[IF n < k THEN n ELSE n + 1]
      BY <2>4
    <3>2. (IF m < k THEN m ELSE m + 1) = (IF n < k THEN n ELSE n + 1)
      BY <2>6, <2>9, <3>1 DEF Distinct
    <3> QED BY <2>2, <2>3, <3>2
  <2>10. Distinct(q) BY <2>8, <2>9 DEF Distinct
  <2>11. ASSUME NEW x, Contains(q, x) PROVE Contains(queue, x) /\ x # e
    <3>1. PICK n \in 1..N : q[n] = x BY <2>8, <2>11 DEF Contains
    <3>2. PICK j : j = (IF n < k THEN n ELSE n + 1) /\ j \in 1..Len(queue) BY <2>6
    <3>3. queue[j] = x BY <2>4, <3>1, <3>2
    <3>4. j # k BY <2>2, <2>3, <3>2
    <3>5. x # e BY <2>2, <3>2, <3>3, <3>4 DEF Distinct
    <3> QED BY <3>2, <3>3, <3>5 DEF Contains
  <2>12. ASSUME NEW x, Contains(queue, x), x # e PROVE Contains(q, x)
    <3>1. PICK j \in 1..Len(queue) : queue[j] = x BY <2>12 DEF Contains
    <3>2. j # k BY <2>2, <2>12, <3>1
    <3>3. PICK n : n = IF j < k THEN j ELSE j - 1 OBVIOUS
    <3>4. n \in 1..N /\ j = (IF n < k THEN n ELSE n + 1) BY <2>2, <2>3, <3>1, <3>2, <3>3
    <3>5. q[n] = x BY <2>4, <3>1, <3>4
    <3> QED BY <2>8, <3>4, <3>5 DEF Contains
  <2> QED BY <2>5, <2>8, <2>10, <2>11, <2>12
<1> QED BY <1>1, <1>2

\* A step of one slot.
LEMMA SlotTyped ==
  ASSUME JobsOK, NEW i \in Job, NEW job, JobOK(job), jobs' = [jobs EXCEPT ![i] = job]
  PROVE  JobsOK' /\ \A j \in Job : jobs'[j] = IF j = i THEN job ELSE jobs[j]
<1>1. \A j \in Job : jobs'[j] = IF j = i THEN job ELSE jobs[j] BY DEF JobsOK
<1>2. jobs' \in [Job -> JobType] BY DEF JobsOK, JobOK
<1>3. \A j \in Job : JobOK(jobs'[j]) BY <1>1 DEF JobsOK
<1> QED BY <1>1, <1>2, <1>3 DEF JobsOK

\* A call of the store, a route or retry_pending takes a free slot.
LEMMA SlotIsFree ==
  ASSUME Call PROVE NextSlot \in Job /\ jobs[NextSlot].at = "free"
BY DEF Call, NextSlot

\* What a request about a thread leaves of the task, and of the other slots.
LEMMA SpawnTyped ==
  ASSUME TypeInv, Call, NEW by \in {"save", "sync", "delete"}, NEW t \in Shared,
         NEW op \in SyncOperation, NEW doc \in Document,
         Spawn(by, t, NewHandler(op, doc, 0))
  PROVE  /\ JobsOK' /\ disturbed' \subseteq Thread
         /\ \E h : /\ h = NewHandler(op, doc, 0)
                   /\ jobs' = [jobs EXCEPT ![NextSlot] =
                        [by |-> by, t |-> t, at |-> "served", tries |-> 0, h |-> h,
                         won |-> FALSE, queue |-> <<>>, todo |-> <<>>]]
<1>1. PICK h : h = NewHandler(op, doc, 0) OBVIOUS
<1>2. HandlerOK(h) /\ h.op # "visibility"
  BY <1>1, NewHandlerOK DEF SyncOperation, Ops
<1>3. PICK job : /\ job = [Free EXCEPT !.by = by, !.t = t, !.at = "served", !.h = h]
                 /\ jobs' = [jobs EXCEPT ![NextSlot] = job]
  BY <1>1 DEF Spawn
<1>4. job = [by |-> by, t |-> t, at |-> "served", tries |-> 0, h |-> h,
             won |-> FALSE, queue |-> <<>>, todo |-> <<>>]
  BY <1>3 DEF Free
<1>5. JobOK(job)
  <2>1. /\ by \in {"save", "sync", "delete", "retry", "web"} /\ by # "web"
        /\ <<>> \in Seq(SharedEntry)
    OBVIOUS
  <2> QED BY <1>2, <1>4, <2>1, RequestOK
<1>6. JobsOK' BY <1>3, <1>5, SlotTyped, SlotIsFree DEF TypeInv
<1>7. disturbed' \subseteq Thread BY DEF Spawn, TypeInv, RestOfTypes, Shared
<1> QED BY <1>1, <1>3, <1>4, <1>6, <1>7

\* What a save and a delete do to the files.
LEMMA SaveDisk ==
  ASSUME TypeInv, NEW t \in Thread, NEW by, Save(t, by)
  PROVE  /\ DiskOK' /\ ops' = ops + 1 /\ version'[t] > 0 /\ local'[t] = version'[t]
         /\ \A s \in Thread : s # t => version'[s] = version[s] /\ local'[s] = local[s]
<1>1. /\ version' = [version EXCEPT ![t] = @ + 1]
      /\ local' = [local EXCEPT ![t] = version[t] + 1]
      /\ ops < MaxOps /\ ops' = ops + 1
  BY DEF Save, Call
<1>2. DiskOK /\ MaxOps \in Nat BY ThreadSyncAssumption DEF TypeInv
<1>3. \A s \in Thread : /\ version'[s] = IF s = t THEN version[t] + 1 ELSE version[s]
                        /\ local'[s] = IF s = t THEN version[t] + 1 ELSE local[s]
  BY <1>1, <1>2 DEF DiskOK
<1>4. version' \in [Thread -> Nat] /\ local' \in [Thread -> Nat] BY <1>1, <1>2 DEF DiskOK
<1>5. ops' \in 0..MaxOps BY <1>1, <1>2 DEF DiskOK
<1>6. \A s \in Thread : local'[s] \in {0, version'[s]} /\ version'[s] <= ops'
  BY <1>1, <1>2, <1>3 DEF DiskOK
<1> QED BY <1>1, <1>2, <1>3, <1>4, <1>5, <1>6 DEF DiskOK

LEMMA DeleteDisk ==
  ASSUME TypeInv, NEW t \in Thread, Delete(t)
  PROVE  /\ DiskOK' /\ local[t] # 0 /\ version[t] > 0 /\ local'[t] = 0
         /\ UNCHANGED version
         /\ \A s \in Thread : s # t => local'[s] = local[s]
<1>1. /\ UNCHANGED version /\ local' = [local EXCEPT ![t] = 0] /\ local[t] # 0
      /\ ops < MaxOps /\ ops' = ops + 1
  BY DEF Delete, Call
<1>2. DiskOK /\ MaxOps \in Nat BY ThreadSyncAssumption DEF TypeInv
<1>3. \A s \in Thread : local'[s] = IF s = t THEN 0 ELSE local[s]
  BY <1>1, <1>2 DEF DiskOK
<1>4. local' \in [Thread -> Nat] /\ ops' \in 0..MaxOps BY <1>1, <1>2 DEF DiskOK
<1>5. \A s \in Thread : local'[s] \in {0, version'[s]} /\ version'[s] <= ops'
  BY <1>1, <1>2, <1>3 DEF DiskOK
<1>6. version[t] > 0 BY <1>1, <1>2 DEF DiskOK
<1> QED BY <1>1, <1>2, <1>3, <1>4, <1>5, <1>6 DEF DiskOK

\* A call that leaves the files alone.
LEMMA CallDisk ==
  ASSUME DiskOK, Call, UNCHANGED <<version, local>> PROVE DiskOK'
<1>1. ops < MaxOps /\ ops' = ops + 1 /\ MaxOps \in Nat BY ThreadSyncAssumption DEF Call
<1>2. ops' \in 0..MaxOps BY <1>1 DEF DiskOK
<1>3. \A s \in Thread : local'[s] \in {0, version'[s]} /\ version'[s] <= ops'
  BY <1>1 DEF DiskOK
<1> QED BY <1>2, <1>3 DEF DiskOK

\* The parts of the types that a step leaves alone.
LEMMA DiskKept == ASSUME DiskOK, UNCHANGED <<version, local, ops>> PROVE DiskOK'
BY DEF DiskOK
LEMMA QueueOKKept == ASSUME QueueOK, UNCHANGED pending PROVE QueueOK'
BY DEF QueueOK, Distinct
LEMMA RowsOKKept == ASSUME RowsOK, UNCHANGED rows PROVE RowsOK'
BY DEF RowsOK
LEMMA JobsOKKept == ASSUME JobsOK, UNCHANGED jobs PROVE JobsOK'
BY DEF JobsOK
LEMMA OrphansOKKept == ASSUME OrphansOK, UNCHANGED orphans PROVE OrphansOK'
BY DEF OrphansOK

\* The callers.
LEMMA SaveTyped ==
  ASSUME TypeInv, NEW t \in Thread, NEW by \in {"save", "sync"}, Save(t, by)
  PROVE  TypeInv'
<1>1. UNCHANGED <<pending_store, pending, rows, lock, orphans, faults>> /\ Call BY DEF Save
<1>2. DiskOK' BY SaveDisk
<1>3. JobsOK' /\ disturbed' \subseteq Thread
  <2>1. CASE t \in Private
    BY <2>1, JobsOKKept DEF Save, TypeInv, RestOfTypes
  <2>2. CASE t \notin Private
    <3>1. PICK d : d = [body |-> version[t] + 1, version |-> version[t] + 1] OBVIOUS
    <3>2. d \in Document BY <3>1 DEF Document, TypeInv, DiskOK
    <3>3. Spawn(by, t, NewHandler("upsert", d, 0)) BY <2>2, <3>1 DEF Save
    <3>4. by \in {"save", "sync", "delete"} /\ "upsert" \in SyncOperation /\ t \in Shared
      BY <2>2 DEF SyncOperation, Shared
    <3> QED BY <1>1, <3>2, <3>3, <3>4, SpawnTyped
  <2> QED BY <2>1, <2>2
<1> QED BY <1>1, <1>2, <1>3, QueueOKKept, RowsOKKept, OrphansOKKept DEF TypeInv, RestOfTypes

LEMMA DeleteTyped ==
  ASSUME TypeInv, NEW t \in Thread, Delete(t)
  PROVE  TypeInv'
<1>1. UNCHANGED <<pending_store, pending, rows, lock, orphans, faults>> /\ Call BY DEF Delete
<1>2. DiskOK' BY DeleteDisk
<1>3. JobsOK' /\ disturbed' \subseteq Thread
  <2>1. CASE t \in Private
    BY <2>1, JobsOKKept DEF Delete, TypeInv, RestOfTypes
  <2>2. CASE t \notin Private
    <3>1. Spawn("delete", t, NewHandler("delete", NoDocument, 0)) BY <2>2 DEF Delete
    <3>2. "delete" \in SyncOperation /\ t \in Shared BY <2>2 DEF SyncOperation, Shared
    <3> QED BY <1>1, <3>1, <3>2, SpawnTyped, NoDocumentOK
  <2> QED BY <2>1, <2>2
<1> QED BY <1>1, <1>2, <1>3, QueueOKKept, RowsOKKept, OrphansOKKept DEF TypeInv, RestOfTypes

\* The web interface sees a row only of a thread that is synced.
LEMMA VisibilityJob ==
  ASSUME TypeInv, NEW t \in Thread, SetVisibility(t)
  PROVE  /\ t \in Shared
         /\ \E h, job : /\ HandlerOK(h) /\ h.op = "visibility" /\ h.at = "owner"
                        /\ ~h.owned /\ ~h.found
                        /\ job = [by |-> "web", t |-> t, at |-> "served", tries |-> 0,
                                  h |-> h, won |-> FALSE, queue |-> <<>>,
                                  todo |-> <<>>]
                        /\ jobs' = [jobs EXCEPT ![NextSlot] = job]
<1>1. t \in Shared
  BY DEF SetVisibility, TypeInv, RowsOK, Shared, NoRow, get_thread_owner_user_id, get
<1>2. PICK expect \in {0, rows[t].doc.version} :
        jobs' = [jobs EXCEPT ![NextSlot] =
             [Free EXCEPT !.by = "web", !.t = t, !.at = "served",
                          !.h = NewHandler("visibility", NoDocument, expect)]]
  BY DEF SetVisibility
<1>3. expect \in Nat BY <1>2 DEF TypeInv, RowsOK, Row, Document
<1>4. PICK h : h = NewHandler("visibility", NoDocument, expect) OBVIOUS
<1>5. HandlerOK(h) /\ h.op = "visibility" /\ h.at = "owner" /\ ~h.owned /\ ~h.found
  BY <1>3, <1>4, NewHandlerOK, NoDocumentOK DEF Ops
<1>6. PICK job : job = [Free EXCEPT !.by = "web", !.t = t, !.at = "served", !.h = h]
  OBVIOUS
<1>7. job = [by |-> "web", t |-> t, at |-> "served", tries |-> 0,
             h |-> h, won |-> FALSE, queue |-> <<>>, todo |-> <<>>]
  BY <1>6 DEF Free
<1>8. jobs' = [jobs EXCEPT ![NextSlot] = job] BY <1>2, <1>4, <1>6
<1> QED BY <1>1, <1>5, <1>7, <1>8

LEMMA VisibilityTyped ==
  ASSUME TypeInv, NEW t \in Thread, SetVisibility(t)
  PROVE  TypeInv'
<1>1. UNCHANGED <<disk, rows, lock, orphans, faults>> /\ Call BY DEF SetVisibility
<1>2. PICK h, job :
        /\ HandlerOK(h) /\ h.op = "visibility"
        /\ job = [by |-> "web", t |-> t, at |-> "served", tries |-> 0, h |-> h,
                  won |-> FALSE, queue |-> <<>>, todo |-> <<>>]
        /\ jobs' = [jobs EXCEPT ![NextSlot] = job]
  BY VisibilityJob
<1>3. JobOK(job)
  <2>1. t \in Shared /\ <<>> \in Seq(SharedEntry) BY VisibilityJob
  <2> QED BY <1>2, <2>1, RequestOK
<1>4. JobsOK' BY <1>1, <1>2, <1>3, SlotTyped, SlotIsFree DEF TypeInv
<1>5. disturbed' \subseteq Thread BY DEF SetVisibility, TypeInv, RestOfTypes
<1>6. DiskOK' BY <1>1, CallDisk DEF disk, TypeInv
<1> QED BY <1>1, <1>4, <1>5, <1>6, QueueOKKept, RowsOKKept, OrphansOKKept
        DEF TypeInv, RestOfTypes, disk

LEMMA RetryPendingTyped ==
  ASSUME TypeInv, RetryPending PROVE TypeInv'
<1>1. UNCHANGED <<disk, rows, lock, orphans, faults, disturbed>> /\ Call
  BY DEF RetryPending
<1>2. PICK job :
        /\ job = [Free EXCEPT !.by = "retry", !.at = "next", !.todo = pending]
        /\ jobs' = [jobs EXCEPT ![NextSlot] = job]
  BY DEF RetryPending
<1>3. job = [by |-> "retry", t |-> NoThread, at |-> "next", tries |-> 0,
             h |-> Free.h, won |-> FALSE, queue |-> <<>>, todo |-> pending]
  BY <1>2 DEF Free
<1>4. JobOK(job) BY <1>3, BetweenOK DEF TypeInv, QueueOK
<1>5. JobsOK' BY <1>1, <1>2, <1>4, SlotTyped, SlotIsFree DEF TypeInv
<1>6. DiskOK' BY <1>1, CallDisk DEF disk, TypeInv
<1> QED BY <1>1, <1>5, <1>6, QueueOKKept, RowsOKKept, OrphansOKKept
        DEF TypeInv, RestOfTypes, disk

Between(job, todo) ==
  job = [by |-> "retry", t |-> NoThread, at |-> "next", tries |-> 0, h |-> Free.h,
         won |-> FALSE, queue |-> <<>>, todo |-> todo]

\* What retry_pending does with the next entry of its copy: it is done, skips
\* an upload whose file is gone, or begins a request about the thread.
RequestOf(job, e, h, todo) ==
  /\ e \in SharedEntry /\ HandlerOK(h) /\ h.op = e.op /\ h.at = "owner"
  /\ ~h.owned /\ ~h.found
  /\ e.op = "upsert" => local[e.t] # 0 /\ h.doc.body = local[e.t]
  /\ job = [by |-> "retry", t |-> e.t, at |-> "served", tries |-> 0, h |-> h,
            won |-> FALSE, queue |-> <<>>, todo |-> todo]
  /\ disturbed' = IF WebAt(e.t) THEN disturbed \cup {e.t} ELSE disturbed

LEMMA RetryNextJob ==
  ASSUME TypeInv, NEW i \in Job, RetryNext(i)
  PROVE  \E job, todo :
           /\ jobs' = [jobs EXCEPT ![i] = job] /\ JobOK(job)
           /\ jobs[i].at = "next" /\ jobs[i].by = "retry"
           /\ todo \in Seq(SharedEntry)
           /\ \/ job = Free /\ UNCHANGED disturbed
              \/ /\ Len(todo) + 1 = Len(jobs[i].todo)
                 /\ \A n \in 1..Len(todo) : todo[n] = jobs[i].todo[n + 1]
                 /\ Between(job, todo) /\ UNCHANGED disturbed
              \/ /\ Len(todo) + 1 = Len(jobs[i].todo)
                 /\ \A n \in 1..Len(todo) : todo[n] = jobs[i].todo[n + 1]
                 /\ \E h : RequestOf(job, jobs[i].todo[1], h, todo)
<1>0. jobs[i].at = "next" /\ jobs[i].by = "retry" /\ jobs[i].todo \in Seq(SharedEntry)
  BY DEF RetryNext, TypeInv, JobsOK, JobOK
<1>1. CASE jobs[i].todo = <<>>
  <2>1. jobs' = [jobs EXCEPT ![i] = Free] /\ UNCHANGED disturbed
    BY <1>1 DEF RetryNext
  <2>2. <<>> \in Seq(SharedEntry) OBVIOUS
  <2> QED BY <1>0, <2>1, <2>2, FreeOK
<1>2. CASE jobs[i].todo # <<>>
  <2>1. PICK old, e, todo : /\ old = jobs[i].todo /\ e = Head(old) /\ todo = Tail(old)
    OBVIOUS
  <2>2. /\ old \in Seq(SharedEntry) /\ e \in SharedEntry /\ e = old[1]
        /\ todo \in Seq(SharedEntry) /\ Len(todo) + 1 = Len(old)
        /\ \A n \in 1..Len(todo) : todo[n] = old[n + 1]
    BY <1>0, <1>2, <2>1
  <2>3. PICK rest : rest = [Free EXCEPT !.by = "retry", !.at = "next", !.todo = todo]
    OBVIOUS
  <2>4. rest = [by |-> "retry", t |-> NoThread, at |-> "next", tries |-> 0,
                h |-> Free.h, won |-> FALSE, queue |-> <<>>, todo |-> todo]
    BY <2>3 DEF Free
  <2>5. CASE e.op = "upsert" /\ local[e.t] = 0
    <3>1. jobs' = [jobs EXCEPT ![i] = rest] /\ UNCHANGED disturbed
      BY <1>2, <2>1, <2>3, <2>5 DEF RetryNext
    <3>2. JobOK(rest) BY <2>2, <2>4, BetweenOK
    <3>3. Between(rest, todo) BY <2>4 DEF Between
    <3> QED BY <1>0, <2>1, <2>2, <3>1, <3>2, <3>3
  <2>6. CASE ~(e.op = "upsert" /\ local[e.t] = 0)
    <3>1. PICK d : d = IF e.op = "upsert" THEN [body |-> local[e.t], version |-> local[e.t]]
                       ELSE NoDocument
      OBVIOUS
    <3>2. e.t \in Shared /\ e.t \in Thread /\ e.op \in SyncOperation
      BY <2>2 DEF SharedEntry, Shared
    <3>3. d \in Document
      <4>1. local[e.t] \in Nat BY <3>2 DEF TypeInv, DiskOK
      <4> QED BY <3>1, <4>1, NoDocumentOK DEF Document
    <3>4. PICK h : h = NewHandler(e.op, d, 0) OBVIOUS
    <3>5. /\ HandlerOK(h) /\ h.op = e.op /\ h.at = "owner" /\ ~h.owned /\ ~h.found
          /\ h.doc = d /\ h.op # "visibility"
      BY <3>2, <3>3, <3>4, NewHandlerOK DEF SyncOperation, Ops
    <3>6. e.op = "upsert" => local[e.t] # 0 /\ h.doc.body = local[e.t]
      BY <2>6, <3>1, <3>5
    <3>7. PICK job : job = [rest EXCEPT !.t = e.t, !.at = "served", !.h = h] OBVIOUS
    <3>8. job = [by |-> "retry", t |-> e.t, at |-> "served", tries |-> 0, h |-> h,
                 won |-> FALSE, queue |-> <<>>, todo |-> todo]
      BY <2>4, <3>7
    <3>9. /\ jobs' = [jobs EXCEPT ![i] = job]
          /\ disturbed' = IF WebAt(e.t) THEN disturbed \cup {e.t} ELSE disturbed
      BY <1>2, <2>1, <2>3, <2>6, <3>1, <3>4, <3>7 DEF RetryNext
    <3>10. RequestOf(job, e, h, todo) BY <2>2, <3>5, <3>6, <3>8, <3>9 DEF RequestOf
    <3>11. JobOK(job) BY <2>2, <3>2, <3>5, <3>8, RequestOK
    <3> QED BY <1>0, <2>1, <2>2, <3>9, <3>10, <3>11
  <2> QED BY <2>5, <2>6
<1> QED BY <1>1, <1>2

LEMMA RetryNextTyped ==
  ASSUME TypeInv, NEW i \in Job, RetryNext(i) PROVE TypeInv'
<1>1. UNCHANGED <<disk, rows, lock, orphans, bounds>> BY DEF RetryNext
<1>2. PICK job : jobs' = [jobs EXCEPT ![i] = job] /\ JobOK(job) BY RetryNextJob
<1>3. JobsOK' BY <1>2, SlotTyped DEF TypeInv
<1>4. disturbed' \subseteq Thread
  <2>1. UNCHANGED disturbed \/ \E j, e, h, todo : RequestOf(j, e, h, todo) BY RetryNextJob
  <2> QED BY <2>1 DEF RequestOf, SharedEntry, Shared, TypeInv, RestOfTypes
<1> QED BY <1>1, <1>3, <1>4, DiskKept, QueueOKKept, RowsOKKept, OrphansOKKept
        DEF TypeInv, RestOfTypes, disk, bounds

\* What a statement of a handler leaves in the table.
LEMMA RowsTyped ==
  ASSUME RowsOK, NEW t \in Shared, NEW h \in Handler,
         rows' = [rows EXCEPT ![t] = After(h, @)]
  PROVE  /\ RowsOK' /\ rows'[t] = After(h, rows[t])
         /\ \A s \in Thread : s # t => rows'[s] = rows[s]
<1>1. t \in Thread BY DEF Shared
<1>2. After(h, rows[t]) \in Row BY <1>1, AfterOK DEF RowsOK
<1>3. \A s \in Thread : rows'[s] = IF s = t THEN After(h, rows[t]) ELSE rows[s]
  BY <1>1 DEF RowsOK
<1>4. rows' \in [Thread -> Row] BY <1>2 DEF RowsOK
<1>5. \A s \in Private : rows'[s] = NoRow
  BY <1>3, ThreadSyncAssumption DEF RowsOK, Shared
<1> QED BY <1>1, <1>3, <1>4, <1>5 DEF RowsOK

\* The task of a request after a statement of its handler.
LEMMA ServeJob ==
  ASSUME TypeInv, NEW i \in Job, Serve(i)
  PROVE  \E t, h, g, job :
           /\ t = jobs[i].t /\ t \in Shared /\ h = jobs[i].h /\ HandlerOK(h)
           /\ jobs[i].at = "served"
           /\ g = Advance(h, rows[t]) /\ g \in Handler /\ g.op = h.op
           /\ rows' = [rows EXCEPT ![t] = After(h, @)]
           /\ jobs' = [jobs EXCEPT ![i] = job] /\ JobOK(job)
           /\ \/ /\ HandlerOK(g) /\ PointsLeft(g) < PointsLeft(h)
                 /\ job = [by |-> jobs[i].by, t |-> t, at |-> "served",
                           tries |-> jobs[i].tries, h |-> g, won |-> jobs[i].won,
                           queue |-> jobs[i].queue, todo |-> jobs[i].todo]
              \/ g.at \in Ended /\ Succeeded(g) /\ job = Over(jobs[i], "ok")
              \/ g.at \in Ended /\ ~Succeeded(g) /\ job = Over(jobs[i], "err")
<1>1. PICK old, t, h, g : /\ old = jobs[i] /\ t = old.t /\ h = old.h
                          /\ g = Advance(h, rows[t])
  OBVIOUS
<1>2. JobOK(old) /\ old.at = "served" /\ old \in JobType
  BY <1>1 DEF Serve, TypeInv, JobsOK, JobOK
<1>3. t \in Shared /\ t \in Thread /\ HandlerOK(h) BY <1>1, <1>2 DEF JobOK, Shared
<1>4. /\ g \in Handler /\ g.op = h.op
      /\ g.at \in Ended \/ PointsLeft(g) < PointsLeft(h)
  BY <1>1, <1>3, AdvanceOK DEF TypeInv, RowsOK
<1>5. rows' = [rows EXCEPT ![t] = After(h, @)] BY <1>1 DEF Serve
<1>6. PICK new : new = CASE g.at \notin Ended -> [old EXCEPT !.h = g]
                         [] Succeeded(g) -> Over(old, "ok")
                         [] OTHER -> Over(old, "err")
  OBVIOUS
<1>7. jobs' = [jobs EXCEPT ![i] = new]
  <2>1. jobs' = [jobs EXCEPT ![i] =
                   CASE g.at \notin Ended -> [jobs[i] EXCEPT !.h = g]
                     [] Succeeded(g) -> Over(jobs[i], "ok")
                     [] OTHER -> Over(jobs[i], "err")]
    BY <1>1 DEF Serve
  <2> QED BY <1>1, <1>6, <2>1
<1>8. CASE g.at \notin Ended
  <2>1. new = [old EXCEPT !.h = g] \/ (Succeeded(g) /\ FALSE) BY <1>6, <1>8 DEF Succeeded, Ended
  <2>2. new = [by |-> old.by, t |-> t, at |-> "served", tries |-> old.tries, h |-> g,
               won |-> old.won, queue |-> old.queue, todo |-> old.todo]
    BY <1>1, <1>2, <2>1 DEF JobType
  <2>3. HandlerOK(g) BY <1>4, <1>8 DEF HandlerOK
  <2>4. new \in JobType BY <1>1, <1>2, <1>4, <2>2 DEF JobType
  <2>5. /\ new.by = old.by /\ new.t = old.t /\ new.at = "served" /\ new.tries = old.tries
        /\ new.h = g /\ new.queue = old.queue /\ new.todo = old.todo
    BY <1>1, <2>2
  <2>6. JobOK(new) BY <1>1, <1>2, <1>4, <2>3, <2>4, <2>5 DEF JobOK
  <2>7. PointsLeft(g) < PointsLeft(h) BY <1>4, <1>8
  <2> QED BY <1>1, <1>2, <1>3, <1>4, <1>5, <1>7, <2>2, <2>3, <2>6, <2>7
<1>9. CASE g.at \in Ended /\ Succeeded(g)
  <2>1. new = Over(old, "ok") BY <1>6, <1>9
  <2>2. JobOK(new) BY <1>2, <2>1, OverOK
  <2> QED BY <1>1, <1>2, <1>3, <1>4, <1>5, <1>7, <1>9, <2>1, <2>2
<1>10. CASE g.at \in Ended /\ ~Succeeded(g)
  <2>1. new = Over(old, "err") BY <1>6, <1>10
  <2>2. JobOK(new) BY <1>2, <2>1, OverOK
  <2> QED BY <1>1, <1>2, <1>3, <1>4, <1>5, <1>7, <1>10, <2>1, <2>2
<1> QED BY <1>8, <1>9, <1>10

LEMMA ServeTyped ==
  ASSUME TypeInv, NEW i \in Job, Serve(i) PROVE TypeInv'
<1>1. UNCHANGED <<disk, lock, orphans, bounds, disturbed>> BY DEF Serve
<1>2. PICK t, h, job : /\ t \in Shared /\ HandlerOK(h)
                       /\ rows' = [rows EXCEPT ![t] = After(h, @)]
                       /\ jobs' = [jobs EXCEPT ![i] = job] /\ JobOK(job)
  BY ServeJob
<1>3. JobsOK' BY <1>2, SlotTyped DEF TypeInv
<1>4. RowsOK' BY <1>2, RowsTyped DEF TypeInv, HandlerOK
<1> QED BY <1>1, <1>3, <1>4, DiskKept, QueueOKKept, OrphansOKKept
        DEF TypeInv, RestOfTypes, disk, bounds

\* Handlers nobody waits for.
Orphan(t, h) == [t |-> t, h |-> h]

LEMMA OrphanStep ==
  ASSUME TypeInv, NEW o \in orphans, ServeOrphan(o)
  PROVE  \E t, h, g :
           /\ t = o.t /\ t \in Shared /\ h = o.h /\ HandlerOK(h) /\ h.op \in SyncOperation
           /\ g = Advance(h, rows[t]) /\ g \in Handler /\ g.op = h.op
           /\ rows' = [rows EXCEPT ![t] = After(h, @)]
           /\ \/ g.at \in Ended /\ orphans' = orphans \ {o}
              \/ /\ HandlerOK(g)
                 /\ orphans' = (orphans \ {o}) \cup {Orphan(t, g)}
<1>1. PICK t, h, g : t = o.t /\ h = o.h /\ g = Advance(h, rows[t]) OBVIOUS
<1>2. OrphanOK(o) /\ o = [t |-> t, h |-> h] BY <1>1 DEF TypeInv, OrphansOK, OrphanOK
<1>3. t \in Shared /\ t \in Thread /\ HandlerOK(h) /\ h.op \in SyncOperation
  BY <1>1, <1>2 DEF OrphanOK, Shared
<1>4. g \in Handler /\ g.op = h.op
  BY <1>1, <1>3, AdvanceOK DEF TypeInv, RowsOK
<1>5. /\ rows' = [rows EXCEPT ![t] = After(h, @)]
      /\ orphans' = (orphans \ {o})
                      \cup (IF g.at \in Ended THEN {} ELSE {[o EXCEPT !.h = g]})
  BY <1>1 DEF ServeOrphan
<1>6. [o EXCEPT !.h = g] = Orphan(t, g) BY <1>2 DEF Orphan
<1>7. CASE g.at \in Ended
  <2>1. orphans' = orphans \ {o} BY <1>5, <1>7
  <2> QED BY <1>1, <1>3, <1>4, <1>5, <1>7, <2>1
<1>8. CASE g.at \notin Ended
  <2>1. orphans' = (orphans \ {o}) \cup {Orphan(t, g)} BY <1>5, <1>6, <1>8
  <2>2. HandlerOK(g) BY <1>4, <1>8 DEF HandlerOK
  <2> QED BY <1>1, <1>3, <1>4, <1>5, <2>1, <2>2
<1> QED BY <1>7, <1>8

LEMMA NewOrphanOK ==
  ASSUME NEW t \in Shared, NEW h, HandlerOK(h), h.op \in SyncOperation
  PROVE  OrphanOK(Orphan(t, h))
BY DEF OrphanOK, Orphan

LEMMA OrphanTyped ==
  ASSUME TypeInv, NEW o \in orphans, ServeOrphan(o) \/ DropOrphan(o) PROVE TypeInv'
<1>1. UNCHANGED <<disk, jobs, lock, bounds, disturbed>> BY DEF ServeOrphan, DropOrphan
<1>2. RowsOK' /\ OrphansOK'
  <2>1. CASE DropOrphan(o) BY <2>1, RowsOKKept DEF DropOrphan, TypeInv, OrphansOK
  <2>2. CASE ServeOrphan(o)
    <3>1. PICK t, h, g :
           /\ t \in Shared /\ HandlerOK(h) /\ h.op \in SyncOperation /\ g.op = h.op
           /\ rows' = [rows EXCEPT ![t] = After(h, @)]
           /\ \/ orphans' = orphans \ {o}
              \/ HandlerOK(g) /\ orphans' = (orphans \ {o}) \cup {Orphan(t, g)}
      BY <2>2, OrphanStep
    <3>2. RowsOK' BY <3>1, RowsTyped DEF TypeInv, HandlerOK
    <3>3. \A x \in orphans' : x \in orphans \/ (x = Orphan(t, g) /\ HandlerOK(g))
      BY <3>1
    <3>4. OrphansOK' BY <3>1, <3>3, NewOrphanOK DEF TypeInv, OrphansOK
    <3> QED BY <3>2, <3>4
  <2> QED BY <2>1, <2>2
<1> QED BY <1>1, <1>2, DiskKept, QueueOKKept, JobsOKKept
        DEF TypeInv, RestOfTypes, disk, bounds

\* A task that the network keeps waiting works for the client, at a thread.
LEMMA ServedJob ==
  ASSUME TypeInv, NEW i \in Job, jobs[i].at = "served", jobs[i].by # "web"
  PROVE  /\ JobOK(jobs[i]) /\ jobs[i].t \in Shared /\ HandlerOK(jobs[i].h)
         /\ jobs[i].h.op \in SyncOperation
BY DEF TypeInv, JobsOK, JobOK, HandlerOK, Handler, Ops, SyncOperation

LEMMA LostTyped ==
  ASSUME TypeInv, NEW i \in Job, AnswerLost(i) PROVE TypeInv'
<1>1. UNCHANGED <<disk, rows, lock, ops, disturbed>> /\ jobs[i].at = "served"
      /\ jobs[i].by # "web"
  BY DEF AnswerLost
<1>2. PICK retryable \in BOOLEAN, goesOn \in BOOLEAN :
        /\ IF goesOn
           THEN /\ faults < MaxFaults /\ faults' = faults + 1
                /\ orphans' = orphans \cup {Orphan(jobs[i].t, jobs[i].h)}
           ELSE UNCHANGED <<faults, orphans>>
        /\ jobs' = [jobs EXCEPT ![i] = Tried(jobs[i], retryable)]
  BY DEF AnswerLost, Orphan
<1>3. JobOK(Tried(jobs[i], retryable)) BY <1>1, TriedOK DEF TypeInv, JobsOK
<1>4. JobsOK' BY <1>2, <1>3, SlotTyped DEF TypeInv
<1>5. OrphanOK(Orphan(jobs[i].t, jobs[i].h)) BY <1>1, ServedJob, NewOrphanOK
<1>6. OrphansOK' BY <1>2, <1>5 DEF TypeInv, OrphansOK
<1>7. faults' \in 0..MaxFaults
  BY <1>2, ThreadSyncAssumption DEF TypeInv, RestOfTypes
<1> QED BY <1>1, <1>4, <1>6, <1>7, DiskKept, QueueOKKept, RowsOKKept
        DEF TypeInv, RestOfTypes, disk

LEMMA ReturnedTyped ==
  ASSUME TypeInv, NEW i \in Job, Returned(i) PROVE TypeInv'
<1>1. UNCHANGED <<disk, rows, lock, orphans, bounds>>
      /\ jobs' = [jobs EXCEPT ![i] = Rest(jobs[i])]
  BY DEF Returned
<1>2. JobsOK' BY <1>1, RestOK, SlotTyped DEF TypeInv, JobsOK
<1>3. disturbed' \subseteq Thread
  <2>1. jobs[i].t \in Thread BY DEF Returned, TypeInv, JobsOK, JobOK, Shared
  <2> QED BY <2>1 DEF Returned, TypeInv, RestOfTypes
<1> QED BY <1>1, <1>2, <1>3, DiskKept, QueueOKKept, RowsOKKept, OrphansOKKept
        DEF TypeInv, RestOfTypes, disk, bounds

LEMMA LoadFailsTyped ==
  ASSUME TypeInv, NEW i \in Job, RetryLoadFails(i) PROVE TypeInv'
<1>1. UNCHANGED <<disk, rows, lock, orphans, ops, disturbed>>
      /\ jobs' = [jobs EXCEPT ![i] = Free]
  BY DEF RetryLoadFails
<1>2. JobsOK' BY <1>1, FreeOK, SlotTyped DEF TypeInv
<1>3. faults' \in 0..MaxFaults
  BY ThreadSyncAssumption DEF RetryLoadFails, TypeInv, RestOfTypes
<1> QED BY <1>1, <1>2, <1>3, DiskKept, QueueOKKept, RowsOKKept, OrphansOKKept
        DEF TypeInv, RestOfTypes, disk

\* The task that has loaded the queue.
LEMMA LoadedJob ==
  ASSUME TypeInv, NEW i \in Job, LoadQueue(i)
  PROVE  \E job :
           /\ jobs' = [jobs EXCEPT ![i] = job] /\ JobOK(job)
           /\ job = [by |-> jobs[i].by, t |-> jobs[i].t, at |-> "noting",
                     tries |-> jobs[i].tries, h |-> jobs[i].h,
                     won |-> (jobs[i].at = "ok"), queue |-> pending,
                     todo |-> jobs[i].todo]
           /\ jobs[i].at \in {"ok", "err"} /\ jobs[i].by \in {"save", "delete", "retry"}
<1>1. PICK old : old = jobs[i] OBVIOUS
<1>2. JobOK(old) /\ old \in JobType /\ jobs \in [Job -> JobType]
  BY <1>1 DEF TypeInv, JobsOK, JobOK
<1>3. old.at \in {"ok", "err"} /\ old.by \in {"save", "delete", "retry"}
  BY <1>1 DEF LoadQueue, Notes
<1>4. PICK w : w = (old.at = "ok") /\ w \in BOOLEAN OBVIOUS
<1>5. PICK job : job = [old EXCEPT !.at = "noting", !.won = w, !.queue = pending]
  OBVIOUS
<1>6. job = [by |-> old.by, t |-> old.t, at |-> "noting", tries |-> old.tries,
             h |-> old.h, won |-> w, queue |-> pending, todo |-> old.todo]
  BY <1>2, <1>5 DEF JobType
<1>7. jobs' = [jobs EXCEPT ![i] = job]
  <2>1. jobs' = [jobs EXCEPT ![i] = [jobs[i] EXCEPT !.at = "noting",
                     !.won = (jobs[i].at = "ok"), !.queue = pending]]
    BY <1>2 DEF LoadQueue
  <2> QED BY <1>1, <1>4, <1>5, <2>1
<1>8. pending \in Seq(SharedEntry) /\ pending \in Seq(PendingSyncEntry)
  BY SharedQueue DEF TypeInv, QueueOK
<1>9. job \in JobType BY <1>2, <1>4, <1>6, <1>8 DEF JobType
<1>10. /\ job.by = old.by /\ job.t = old.t /\ job.at = "noting" /\ job.tries = old.tries
       /\ job.h = old.h /\ job.queue = pending /\ job.todo = old.todo
  BY <1>6
<1>11. JobOK(job) BY <1>2, <1>3, <1>8, <1>9, <1>10 DEF JobOK
<1> QED BY <1>1, <1>3, <1>4, <1>6, <1>7, <1>11

LEMMA LoadTyped ==
  ASSUME TypeInv, NEW i \in Job, LoadQueue(i) PROVE TypeInv'
<1>1. UNCHANGED <<disk, rows, orphans, bounds, disturbed>> /\ lock' = i BY DEF LoadQueue
<1>2. JobsOK' BY LoadedJob, SlotTyped DEF TypeInv
<1> QED BY <1>1, <1>2, DiskKept, QueueOKKept, RowsOKKept, OrphansOKKept
        DEF TypeInv, RestOfTypes, disk, bounds

\* What a task notes is about its thread.
LEMMA EntryOK ==
  ASSUME TypeInv, NEW i \in Job, jobs[i].at = "noting"
  PROVE  /\ EntryOf(jobs[i]) \in SharedEntry /\ EntryOf(jobs[i]).t = jobs[i].t
         /\ EntryOf(jobs[i]).op = jobs[i].h.op /\ jobs[i].won \in BOOLEAN
<1>1. JobOK(jobs[i]) BY DEF TypeInv, JobsOK
<1>2. jobs[i].t \in Shared /\ jobs[i].h.op \in SyncOperation /\ jobs[i].won \in BOOLEAN
  BY <1>1 DEF JobOK, HandlerOK, Handler, Ops, SyncOperation, JobType
<1> QED BY <1>2 DEF EntryOf, Entry, SharedEntry

LEMMA StoreTyped ==
  ASSUME TypeInv, QueueInv, NEW i \in Job, StoreQueue(i) \/ StoreQueueFails(i)
  PROVE  TypeInv'
<1>1. PICK e : e = EntryOf(jobs[i]) OBVIOUS
<1>2. jobs[i].at = "noting" /\ e \in SharedEntry
  BY <1>1, EntryOK DEF StoreQueue, StoreQueueFails
<1>3. jobs[i].queue = pending /\ pending \in Seq(SharedEntry) /\ Distinct(pending)
  BY <1>2 DEF QueueInv, LoadedQueueIsCurrent, TypeInv, QueueOK
<1>4. /\ pending' \in {remove(pending, e), add(pending, e), pending, <<e>>}
      /\ lock' = NoJob /\ jobs' = [jobs EXCEPT ![i] = Rest(jobs[i])]
      /\ UNCHANGED <<version, local, pending_store, rows, orphans, ops>>
  BY <1>1, <1>3 DEF StoreQueue, StoreQueueFails, bounds
<1>5. <<e>> \in Seq(SharedEntry) /\ Distinct(<<e>>) BY <1>2 DEF Distinct
<1>6. pending' \in Seq(SharedEntry) /\ Distinct(pending')
  <2>1. add(pending, e) \in Seq(SharedEntry) /\ Distinct(add(pending, e))
    BY <1>2, <1>3, AddOK
  <2>2. remove(pending, e) \in Seq(SharedEntry) /\ Distinct(remove(pending, e))
    BY <1>3, RemoveOK
  <2> QED BY <1>3, <1>4, <1>5, <2>1, <2>2
<1>7. QueueOK' BY <1>6 DEF QueueOK, Distinct
<1>8. JobsOK' BY <1>4, RestOK, SlotTyped DEF TypeInv, JobsOK
<1>9. faults' \in 0..MaxFaults /\ disturbed' \subseteq Thread
  BY ThreadSyncAssumption DEF StoreQueue, StoreQueueFails, bounds, TypeInv, RestOfTypes
<1> QED BY <1>4, <1>7, <1>8, <1>9, DiskKept, RowsOKKept, OrphansOKKept
        DEF TypeInv, RestOfTypes

LEMMA ExitTyped == ASSUME TypeInv, Exit PROVE TypeInv'
<1> DEFINE mine == {i \in Job : jobs[i].by \notin {"free", "web"}}
           cut == {i \in mine : Answers(jobs[i])}
<1>1. /\ UNCHANGED <<disk, rows, ops>> /\ lock' = NoJob
      /\ faults < MaxFaults /\ faults' = faults + 1
      /\ jobs' = [i \in Job |-> IF i \in mine THEN Free ELSE jobs[i]]
      /\ disturbed' = disturbed \cup {jobs[i].t : i \in cut}
  BY DEF Exit
<1>2. PICK on \in SUBSET {i \in mine : jobs[i].at = "served"} :
        orphans' = orphans \cup {Orphan(jobs[i].t, jobs[i].h) : i \in on}
  BY DEF Exit, Orphan
<1>3. \A i \in on : OrphanOK(Orphan(jobs[i].t, jobs[i].h))
  <2> TAKE i \in on
  <2>1. i \in Job /\ jobs[i].at = "served" /\ jobs[i].by # "web" OBVIOUS
  <2> QED BY <2>1, ServedJob, NewOrphanOK
<1>4. OrphansOK' BY <1>2, <1>3 DEF TypeInv, OrphansOK
<1>5. JobsOK'
  <2>1. \A i \in Job : JobOK(jobs'[i]) BY <1>1, FreeOK DEF TypeInv, JobsOK
  <2>2. \A i \in Job : jobs'[i] \in JobType BY <2>1 DEF JobOK
  <2>3. jobs' = [i \in Job |-> jobs'[i]] BY <1>1
  <2> QED BY <2>1, <2>2, <2>3 DEF JobsOK
<1>6. disturbed' \subseteq Thread
  <2>1. \A i \in cut : jobs[i].t \in Thread BY DEF Answers, TypeInv, JobsOK, JobOK, Shared
  <2> QED BY <1>1, <2>1 DEF TypeInv, RestOfTypes
<1>7. faults' \in 0..MaxFaults BY <1>1, ThreadSyncAssumption DEF TypeInv, RestOfTypes
<1> QED BY <1>1, <1>4, <1>5, <1>6, <1>7, DiskKept, QueueOKKept, RowsOKKept
        DEF TypeInv, RestOfTypes, disk

\* Every step keeps the types.
LEMMA TypeStep ==
  ASSUME TypeInv, QueueInv, [Next]_vars PROVE TypeInv'
<1>1. CASE UNCHANGED vars
  BY <1>1, DiskKept, QueueOKKept, RowsOKKept, JobsOKKept, OrphansOKKept
     DEF vars, TypeInv, RestOfTypes
<1>2. ASSUME NEW t \in Thread,
             (\E by \in {"save", "sync"} : Save(t, by)) \/ Delete(t) \/ SetVisibility(t)
      PROVE  TypeInv'
  BY <1>2, SaveTyped, DeleteTyped, VisibilityTyped
<1>3. CASE RetryPending BY <1>3, RetryPendingTyped
<1>4. ASSUME NEW i \in Job, JobStep(i) \/ AnswerLost(i) \/ RetryLoadFails(i) \/ StoreQueueFails(i)
      PROVE  TypeInv'
  BY <1>4, RetryNextTyped, ServeTyped, ReturnedTyped, LoadTyped, StoreTyped, LostTyped,
     LoadFailsTyped
     DEF JobStep
<1>5. ASSUME NEW o \in orphans, ServeOrphan(o) \/ DropOrphan(o) PROVE TypeInv'
  BY <1>5, OrphanTyped
<1>6. CASE Exit BY <1>6, ExitTyped
<1> QED BY <1>1, <1>2, <1>3, <1>4, <1>5, <1>6 DEF Next

\* The invariants of this module hold in the initial state.
LEMMA InitTypes == Init => TypeInv
<1> SUFFICES ASSUME Init PROVE TypeInv OBVIOUS
<1>1. DiskOK BY ThreadSyncAssumption DEF Init, DiskOK
<1>2. QueueOK
  <2>1. pending = <<>> /\ <<>> \in Seq(SharedEntry) /\ Len(<<>>) = 0 BY DEF Init
  <2> QED BY <2>1 DEF QueueOK, Distinct
<1>3. RowsOK BY ThreadSyncAssumption DEF Init, RowsOK, NoRow, Row, NoDocument, Document
<1>4. JobsOK BY FreeOK DEF Init, JobsOK, JobOK
<1>5. OrphansOK /\ RestOfTypes BY ThreadSyncAssumption DEF Init, OrphansOK, RestOfTypes
<1> QED BY <1>1, <1>2, <1>3, <1>4, <1>5 DEF TypeInv

LEMMA InitQueue == Init => QueueInv
<1> SUFFICES ASSUME Init PROVE QueueInv
  OBVIOUS
<1>1. jobs = [i \in Job |-> Free] BY DEF Init
<1> QED BY <1>1, FreeShape DEF QueueInv, LoadedQueueIsCurrent

\* Every variable has its type, in particular the queue has one entry for a
\* thread and operation at most, for any number of threads, tasks and handlers
\* (sync.rs, pending_sync.rs).
THEOREM TypeCorrect == Spec => []TypeOK
<1>1. QueueInv /\ [Next]_vars => QueueInv' BY QueueStep
<1>2. TypeInv /\ QueueInv /\ [Next]_vars => TypeInv' BY TypeStep
<1>3. TypeInv => TypeOK
  <2> SUFFICES ASSUME TypeInv PROVE TypeOK OBVIOUS
  <2>1. version \in [Thread -> 0..MaxOps] /\ local \in [Thread -> 0..MaxOps]
    <3>1. \A t \in Thread : version[t] \in 0..MaxOps /\ local[t] \in 0..MaxOps
      BY ThreadSyncAssumption DEF TypeInv, DiskOK
    <3> QED BY <3>1 DEF TypeInv, DiskOK
  <2>2. pending \in Seq(PendingSyncEntry)
    BY SharedQueue DEF TypeInv, QueueOK
  <2>3. \A m, n \in 1..Len(pending) : pending[m] = pending[n] => m = n
    BY DEF TypeInv, QueueOK, Distinct
  <2>4. \A o \in orphans : o.t \in Thread /\ o.h \in Handler
    BY DEF TypeInv, OrphansOK, OrphanOK, HandlerOK, Shared
  <2> QED BY <2>1, <2>2, <2>3, <2>4 DEF TypeInv, DiskOK, RowsOK, JobsOK, RestOfTypes, TypeOK
<1> QED BY <1>1, <1>2, <1>3, InitTypes, InitQueue, PTL DEF Spec

\* A private thread stays on this machine: although retry_pending and the
\* routes never look at is_private, no request, no queue on disk or in memory
\* and no row is ever about one (sync.rs, save and delete).
THEOREM PrivateThreadsStayLocal == Spec => []PrivateStaysLocal
<1>1. QueueInv /\ [Next]_vars => QueueInv' BY QueueStep
<1>2. TypeInv /\ QueueInv /\ [Next]_vars => TypeInv' BY TypeStep
<1>3. TypeInv => PrivateStaysLocal
  <2> SUFFICES ASSUME TypeInv, NEW t \in Private
               PROVE  /\ rows[t] = NoRow /\ ~Busy(t)
                      /\ \A op \in SyncOperation :
                         /\ ~Contains(pending, Entry(t, op))
                         /\ \A i \in Job : /\ ~Contains(jobs[i].queue, Entry(t, op))
                                           /\ ~Contains(jobs[i].todo, Entry(t, op))
    BY DEF PrivateStaysLocal
  <2>1. t \notin Shared /\ t # NoThread BY ThreadSyncAssumption DEF Shared, NoThread
  <2>2. rows[t] = NoRow BY DEF TypeInv, RowsOK
  <2>3. ~Busy(t) BY <2>1 DEF Busy, TypeInv, JobsOK, JobOK, OrphansOK, OrphanOK
  <2>4. ASSUME NEW queue \in Seq(SharedEntry), NEW op PROVE ~Contains(queue, Entry(t, op))
    <3>1. Entry(t, op).t = t BY DEF Entry
    <3>2. \A n \in 1..Len(queue) : queue[n] \in SharedEntry OBVIOUS
    <3>3. \A x \in SharedEntry : x.t \in Shared BY DEF SharedEntry
    <3> QED BY <2>1, <3>1, <3>2, <3>3 DEF Contains
  <2>5. /\ pending \in Seq(SharedEntry)
        /\ \A i \in Job : /\ jobs[i].queue \in Seq(SharedEntry)
                          /\ jobs[i].todo \in Seq(SharedEntry)
    BY DEF TypeInv, QueueOK, JobsOK, JobOK
  <2> QED BY <2>2, <2>3, <2>4, <2>5
<1> QED BY <1>1, <1>2, <1>3, InitTypes, InitQueue, PTL DEF Spec

------------------------------------------------------------------------------
(* Every task comes to an end                                               *)

\* The steps for the entries a retry_pending has left, and for all attempts of
\* one of them.
PerEntry == 7 * MaxAttempts + 5
Later(job) == IF job.by = "retry" THEN 1 + PerEntry * Len(job.todo) ELSE 0

LEMMA LaterBounds ==
  ASSUME NEW job, JobOK(job)
  PROVE  /\ PerEntry \in Nat /\ Len(job.todo) \in Nat /\ Later(job) \in Nat
         /\ job.by = "retry" => Later(job) >= 1
<1>1. PerEntry \in Nat /\ Len(job.todo) \in Nat
  BY ThreadSyncAssumption DEF PerEntry, JobOK
<1>2. ASSUME NEW m \in Nat, NEW n \in Nat PROVE m * n \in Nat BY <1>2
<1>3. PerEntry * Len(job.todo) \in Nat BY <1>1, <1>2
<1> QED BY <1>1, <1>3 DEF Later

\* The measure, without its local definitions.
LEMMA StepsLeftIs ==
  ASSUME NEW job, JobOK(job)
  PROVE  /\ job.at = "free" => StepsLeft(job) = 0
         /\ job.at = "next" => StepsLeft(job) = Later(job)
         /\ job.at = "noting" => StepsLeft(job) = Later(job) + 1
         /\ job.at = "served" => StepsLeft(job) = Later(job) + 2 + PointsLeft(job.h)
                                   + 7 * (MaxAttempts - 1 - job.tries)
         /\ job.at \in {"ok", "err"} => StepsLeft(job) = Later(job) + 2
<1>1. PICK later : later = IF job.by = "retry"
                           THEN 1 + (7 * MaxAttempts + 5) * Len(job.todo) ELSE 0
  OBVIOUS
<1>2. later = Later(job) BY <1>1 DEF Later, PerEntry
<1>3. StepsLeft(job) =
        CASE job.at = "free"   -> 0
          [] job.at = "next"   -> later
          [] job.at = "noting" -> later + 1
          [] job.at = "served" -> later + 2 + PointsLeft(job.h)
                                    + 7 * (MaxAttempts - 1 - job.tries)
          [] OTHER -> later + 2
  BY <1>1 DEF StepsLeft
<1> QED BY <1>2, <1>3

LEMMA PointsBounds == ASSUME NEW h PROVE PointsLeft(h) \in 1..6
BY DEF PointsLeft

\* A task that is not over has steps left.
LEMMA StepsArePositive ==
  ASSUME NEW job, JobOK(job), job.at # "free"
  PROVE  StepsLeft(job) \in Nat /\ StepsLeft(job) > 0
<1>1. Later(job) \in Nat /\ (job.by = "retry" => Later(job) >= 1)
  BY LaterBounds
<1>2. PointsLeft(job.h) \in 1..6 BY PointsBounds
<1>3. PICK k : k = MaxAttempts - 1 - job.tries /\ k \in Nat
  BY ThreadSyncAssumption DEF JobOK, JobType
<1>4. job.at \in {"next", "noting", "served", "ok", "err"} /\ (job.at = "next" => job.by = "retry")
  BY DEF JobOK, JobType
<1>5. \/ StepsLeft(job) = Later(job) /\ job.by = "retry"
      \/ StepsLeft(job) = Later(job) + 1 \/ StepsLeft(job) = Later(job) + 2
      \/ StepsLeft(job) = Later(job) + 2 + PointsLeft(job.h) + 7 * k
  BY <1>3, <1>4, StepsLeftIs
<1> QED BY <1>1, <1>2, <1>3, <1>5

\* The steps of a task bring it nearer to its end.
LEMMA OverSteps ==
  ASSUME NEW job, JobOK(job), job.at = "served", NEW outcome \in {"ok", "err"}
  PROVE  StepsLeft(Over(job, outcome)) < StepsLeft(job)
<1>1. PICK over : over = Over(job, outcome) OBVIOUS
<1>2. JobOK(over) BY <1>1, OverOK
<1>3. over.by = job.by /\ over.at = outcome /\ over.todo = job.todo
  BY <1>1, OverFields DEF JobOK
<1>4. Later(over) = Later(job) /\ Later(job) \in Nat
  BY <1>3, LaterBounds DEF Later
<1>5. StepsLeft(over) = Later(job) + 2 BY <1>2, <1>3, <1>4, StepsLeftIs
<1>6. PointsLeft(job.h) \in 1..6 BY PointsBounds
<1>7. PICK k : k = MaxAttempts - 1 - job.tries /\ k \in Nat
  BY ThreadSyncAssumption DEF JobOK, JobType
<1>8. StepsLeft(job) = Later(job) + 2 + PointsLeft(job.h) + 7 * k
  BY <1>7, StepsLeftIs
<1> QED BY <1>1, <1>4, <1>5, <1>6, <1>7, <1>8

LEMMA TriedSteps ==
  ASSUME NEW job, JobOK(job), job.at = "served", NEW retryable \in BOOLEAN
  PROVE  StepsLeft(Tried(job, retryable)) < StepsLeft(job)
<1>1. CASE Tried(job, retryable) = Over(job, "err") BY <1>1, OverSteps
<1>2. CASE Tried(job, retryable) # Over(job, "err")
  <2>1. PICK new, h :
          /\ new = Tried(job, retryable) /\ job.tries + 1 < MaxAttempts
          /\ new = [by |-> job.by, t |-> job.t, at |-> "served",
                    tries |-> job.tries + 1, h |-> h,
                    won |-> job.won, queue |-> job.queue, todo |-> job.todo]
    BY <1>2, TriedFields
  <2>2. JobOK(new) BY <2>1, TriedOK
  <2>3. new.by = job.by /\ new.at = "served" /\ new.todo = job.todo
        /\ new.tries = job.tries + 1 /\ new.h = h
    BY <2>1
  <2>4. Later(new) = Later(job) /\ Later(job) \in Nat BY <2>3, LaterBounds DEF Later
  <2>5. PICK k : k = MaxAttempts - 1 - (job.tries + 1) /\ k \in Nat
                 /\ MaxAttempts - 1 - job.tries = k + 1
    BY <2>1, ThreadSyncAssumption DEF JobOK, JobType
  <2>6. PointsLeft(job.h) \in 1..6 /\ PointsLeft(h) \in 1..6 BY PointsBounds
  <2>7. StepsLeft(new) = Later(job) + 2 + PointsLeft(h) + 7 * k
    BY <2>2, <2>3, <2>4, <2>5, StepsLeftIs
  <2>8. StepsLeft(job) = Later(job) + 2 + PointsLeft(job.h) + 7 * (k + 1)
    BY <2>5, StepsLeftIs
  <2> QED BY <2>1, <2>4, <2>5, <2>6, <2>7, <2>8
<1> QED BY <1>1, <1>2

LEMMA RestSteps ==
  ASSUME NEW job, JobOK(job), job.at \in {"ok", "err", "noting"}
  PROVE  StepsLeft(Rest(job)) < StepsLeft(job)
<1>1. CASE job.by # "retry"
  <2>1. StepsLeft(Rest(job)) = 0 BY <1>1, RestFields, FreeOK, StepsLeftIs
  <2> QED BY <2>1, StepsArePositive
<1>2. CASE job.by = "retry"
  <2>1. PICK r : r = Rest(job) OBVIOUS
  <2>2. JobOK(r) BY <2>1, RestOK
  <2>3. r.by = "retry" /\ r.at = "next" /\ r.todo = job.todo BY <1>2, <2>1, RestFields
  <2>4. StepsLeft(r) = Later(job) /\ Later(job) \in Nat
    BY <1>2, <2>2, <2>3, StepsLeftIs, LaterBounds DEF Later
  <2>5. StepsLeft(job) = Later(job) + 1 \/ StepsLeft(job) = Later(job) + 2
    BY StepsLeftIs
  <2> QED BY <2>1, <2>4, <2>5
<1> QED BY <1>1, <1>2

LEMMA RetryNextSteps ==
  ASSUME TypeInv, NEW i \in Job, RetryNext(i)
  PROVE  \E job : jobs' = [jobs EXCEPT ![i] = job] /\ JobOK(job)
                  /\ StepsLeft(job) < StepsLeft(jobs[i])
<1>1. PICK old : old = jobs[i] /\ JobOK(old) BY DEF TypeInv, JobsOK
<1>2. PICK job, todo :
        /\ jobs' = [jobs EXCEPT ![i] = job] /\ JobOK(job)
        /\ old.at = "next" /\ old.by = "retry"
        /\ todo \in Seq(SharedEntry)
        /\ \/ job = Free
           \/ Len(todo) + 1 = Len(old.todo) /\ Between(job, todo)
           \/ Len(todo) + 1 = Len(old.todo) /\ \E e, h : RequestOf(job, e, h, todo)
  BY <1>1, RetryNextJob
<1>3. StepsLeft(old) = Later(old) /\ Later(old) \in Nat /\ Later(old) >= 1
  BY <1>1, <1>2, StepsLeftIs, LaterBounds
<1>4. CASE job = Free
  <2>1. StepsLeft(Free) = 0 BY FreeOK, StepsLeftIs
  <2>2. StepsLeft(Free) < StepsLeft(old) BY <1>3, <2>1
  <2> QED BY <1>1, <1>2, <1>4, <2>2
<1>5. CASE Len(todo) + 1 = Len(old.todo)
           /\ (Between(job, todo) \/ \E e, h : RequestOf(job, e, h, todo))
  <2>1. /\ job.by = "retry" /\ job.todo = todo
        /\ job.at = "next" \/ (job.at = "served" /\ job.tries = 0)
    BY <1>5 DEF Between, RequestOf
  <2>2. PICK K, n : K = PerEntry /\ n = Len(todo) /\ K \in Nat /\ n \in Nat
    BY <1>1, <1>2, LaterBounds
  <2>3. Later(old) = 1 + K * (n + 1) BY <1>2, <1>5, <2>2 DEF Later
  <2>4. Later(job) = 1 + K * n BY <2>1, <2>2 DEF Later
  <2>5. PICK m : m = K * n /\ m \in Nat BY <2>2
  <2>6. K * (n + 1) = m + K BY <2>2, <2>5
  <2>7. CASE job.at = "next"
    <3>1. StepsLeft(job) = Later(job) BY <1>2, <2>7, StepsLeftIs
    <3>2. K >= 5 BY <2>2, ThreadSyncAssumption DEF PerEntry
    <3>3. StepsLeft(job) < StepsLeft(old)
      BY <1>3, <2>2, <2>3, <2>4, <2>5, <2>6, <3>1, <3>2
    <3> QED BY <1>1, <1>2, <3>3
  <2>8. CASE job.at = "served" /\ job.tries = 0
    <3>1. StepsLeft(job) = Later(job) + 2 + PointsLeft(job.h) + 7 * (MaxAttempts - 1)
      BY <1>2, <2>8, ThreadSyncAssumption, StepsLeftIs
    <3>2. PointsLeft(job.h) \in 1..6 BY PointsBounds
    <3>3. K = 7 * MaxAttempts + 5 /\ MaxAttempts \in Nat
      BY <2>2, ThreadSyncAssumption DEF PerEntry
    <3>4. StepsLeft(job) < StepsLeft(old)
      BY <1>3, <2>2, <2>3, <2>4, <2>5, <2>6, <3>1, <3>2, <3>3
    <3> QED BY <1>1, <1>2, <3>4
  <2> QED BY <2>1, <2>7, <2>8
<1> QED BY <1>2, <1>4, <1>5

LEMMA ServeSteps ==
  ASSUME TypeInv, NEW i \in Job, Serve(i)
  PROVE  \E job : jobs' = [jobs EXCEPT ![i] = job] /\ JobOK(job)
                  /\ StepsLeft(job) < StepsLeft(jobs[i])
<1>1. PICK old : old = jobs[i] /\ JobOK(old) BY DEF TypeInv, JobsOK
<1>2. PICK g, job :
        /\ old.at = "served" /\ jobs' = [jobs EXCEPT ![i] = job] /\ JobOK(job)
        /\ \/ /\ PointsLeft(g) < PointsLeft(old.h)
              /\ job = [by |-> old.by, t |-> old.t, at |-> "served",
                        tries |-> old.tries, h |-> g, won |-> old.won,
                        queue |-> old.queue, todo |-> old.todo]
           \/ job = Over(old, "ok")
           \/ job = Over(old, "err")
  BY <1>1, ServeJob
<1>3. CASE job \in {Over(old, "ok"), Over(old, "err")}
  BY <1>1, <1>2, <1>3, OverSteps
<1>4. CASE /\ PointsLeft(g) < PointsLeft(old.h)
           /\ job = [by |-> old.by, t |-> old.t, at |-> "served",
                     tries |-> old.tries, h |-> g, won |-> old.won,
                     queue |-> old.queue, todo |-> old.todo]
  <2>1. job.by = old.by /\ job.at = "served" /\ job.tries = old.tries /\ job.h = g
        /\ job.todo = old.todo
    BY <1>4
  <2>2. Later(job) = Later(old) /\ Later(old) \in Nat BY <1>1, <2>1, LaterBounds DEF Later
  <2>3. PICK k : k = 7 * (MaxAttempts - 1 - old.tries) /\ k \in Int
    BY <1>1, ThreadSyncAssumption DEF JobOK, JobType
  <2>4. PointsLeft(g) \in 1..6 /\ PointsLeft(old.h) \in 1..6 BY PointsBounds
  <2>5. StepsLeft(job) = Later(old) + 2 + PointsLeft(g) + k
    BY <1>2, <2>1, <2>2, <2>3, StepsLeftIs
  <2>6. StepsLeft(old) = Later(old) + 2 + PointsLeft(old.h) + k
    BY <1>1, <1>2, <2>3, StepsLeftIs
  <2>7. StepsLeft(job) < StepsLeft(old) BY <1>4, <2>2, <2>3, <2>4, <2>5, <2>6
  <2> QED BY <1>1, <1>2, <2>7
<1> QED BY <1>2, <1>3, <1>4

LEMMA LoadSteps ==
  ASSUME TypeInv, NEW i \in Job, LoadQueue(i)
  PROVE  \E job : jobs' = [jobs EXCEPT ![i] = job] /\ JobOK(job)
                  /\ StepsLeft(job) < StepsLeft(jobs[i])
<1>1. PICK old : old = jobs[i] /\ JobOK(old) BY DEF TypeInv, JobsOK
<1>2. PICK job :
        /\ jobs' = [jobs EXCEPT ![i] = job] /\ JobOK(job) /\ old.at \in {"ok", "err"}
        /\ job.by = old.by /\ job.at = "noting" /\ job.todo = old.todo
  BY <1>1, LoadedJob
<1>3. Later(job) = Later(old) /\ Later(old) \in Nat BY <1>1, <1>2, LaterBounds DEF Later
<1>4. StepsLeft(job) = Later(old) + 1 BY <1>2, <1>3, StepsLeftIs
<1>5. StepsLeft(old) = Later(old) + 2 BY <1>1, <1>2, StepsLeftIs
<1>6. StepsLeft(job) < StepsLeft(old) BY <1>3, <1>4, <1>5
<1> QED BY <1>1, <1>2, <1>6

\* One slot moves, nearer to its end.
LEMMA OneProgress ==
  ASSUME TypeInv, NEW i \in Job, NEW job, JobOK(job), jobs' = [jobs EXCEPT ![i] = job],
         jobs[i].at = "free" \/ StepsLeft(job) < StepsLeft(jobs[i])
  PROVE  \A j \in Job : jobs[j].at # "free" /\ jobs'[j] # jobs[j]
                          => StepsLeft(jobs'[j]) < StepsLeft(jobs[j])
<1>1. \A j \in Job : jobs'[j] = IF j = i THEN job ELSE jobs[j]
  BY SlotTyped DEF TypeInv
<1> QED BY <1>1

LEMMA ProgressStep ==
  ASSUME TypeInv, [Next]_vars
  PROVE  \A j \in Job : jobs[j].at # "free" /\ jobs'[j] # jobs[j]
                          => StepsLeft(jobs'[j]) < StepsLeft(jobs[j])
<1> DEFINE Good == \A j \in Job : jobs[j].at # "free" /\ jobs'[j] # jobs[j]
                                    => StepsLeft(jobs'[j]) < StepsLeft(jobs[j])
<1>1. CASE UNCHANGED jobs BY <1>1
<1>2. ASSUME Call, NEW job, jobs' = [jobs EXCEPT ![NextSlot] = job] PROVE Good
  <2>1. \A j \in Job : jobs[j].at # "free" => jobs'[j] = jobs[j]
    BY <1>2, SlotIsFree DEF TypeInv, JobsOK
  <2> QED BY <2>1
<1>3. ASSUME NEW t \in Thread, NEW by, Save(t, by) PROVE Good
  <2>1. Call /\ (UNCHANGED jobs \/ \E job : jobs' = [jobs EXCEPT ![NextSlot] = job])
    BY <1>3 DEF Save, Spawn
  <2> QED BY <1>1, <1>2, <2>1
<1>4. ASSUME NEW t \in Thread, Delete(t) PROVE Good
  <2>1. Call /\ (UNCHANGED jobs \/ \E job : jobs' = [jobs EXCEPT ![NextSlot] = job])
    BY <1>4 DEF Delete, Spawn
  <2> QED BY <1>1, <1>2, <2>1
<1>5. ASSUME NEW t \in Thread, SetVisibility(t) PROVE Good
  <2>1. Call /\ \E job : jobs' = [jobs EXCEPT ![NextSlot] = job]
    BY <1>5 DEF SetVisibility
  <2> QED BY <1>2, <2>1
<1>6. CASE RetryPending
  <2>1. Call /\ \E job : jobs' = [jobs EXCEPT ![NextSlot] = job]
    BY <1>6 DEF RetryPending
  <2> QED BY <1>2, <2>1
<1>7. ASSUME NEW i \in Job, JobStep(i) \/ AnswerLost(i) \/ RetryLoadFails(i) \/ StoreQueueFails(i)
      PROVE  Good
  <2>0. JobOK(jobs[i]) BY DEF TypeInv, JobsOK
  <2>1. CASE RetryNext(i) BY <2>1, RetryNextSteps, OneProgress
  <2>2. CASE Serve(i) BY <2>2, ServeSteps, OneProgress
  <2>3. CASE LoadQueue(i) BY <2>3, LoadSteps, OneProgress
  <2>4. CASE Returned(i) \/ StoreQueue(i) \/ StoreQueueFails(i)
    <3>1. jobs' = [jobs EXCEPT ![i] = Rest(jobs[i])] /\ jobs[i].at \in {"ok", "err", "noting"}
      BY <2>4 DEF Returned, StoreQueue, StoreQueueFails
    <3> QED BY <2>0, <3>1, RestOK, RestSteps, OneProgress
  <2>5. CASE AnswerLost(i)
    <3>1. PICK retryable \in BOOLEAN : jobs' = [jobs EXCEPT ![i] = Tried(jobs[i], retryable)]
      BY <2>5 DEF AnswerLost
    <3>2. jobs[i].at = "served" BY <2>5 DEF AnswerLost
    <3> QED BY <2>0, <3>1, <3>2, TriedOK, TriedSteps, OneProgress
  <2>6. CASE RetryLoadFails(i)
    <3>1. jobs' = [jobs EXCEPT ![i] = Free] /\ jobs[i].at # "free"
      BY <2>6 DEF RetryLoadFails
    <3>2. StepsLeft(Free) = 0 /\ 0 < StepsLeft(jobs[i])
      BY <2>0, <3>1, FreeOK, StepsLeftIs, StepsArePositive
    <3>3. JobOK(Free) BY FreeOK
    <3> QED BY <3>1, <3>2, <3>3, OneProgress
  <2> QED BY <1>7, <2>1, <2>2, <2>3, <2>4, <2>5, <2>6 DEF JobStep
<1>8. CASE Exit
  <2>1. \A j \in Job : jobs'[j] = jobs[j] \/ jobs'[j] = Free BY <1>8 DEF Exit
  <2>2. StepsLeft(Free) = 0 BY FreeOK, StepsLeftIs
  <2>3. \A j \in Job : jobs[j].at # "free" => 0 < StepsLeft(jobs[j])
    BY StepsArePositive DEF TypeInv, JobsOK
  <2> QED BY <2>1, <2>2, <2>3
<1>9. ASSUME NEW o \in orphans, ServeOrphan(o) \/ DropOrphan(o) PROVE Good
  BY <1>1, <1>9 DEF ServeOrphan, DropOrphan
<1> QED BY <1>1, <1>3, <1>4, <1>5, <1>6, <1>7, <1>8, <1>9 DEF Next, vars

\* Every upload, delete and retry_pending is over after a bounded number of its
\* own steps, whatever the network does: StepsLeft is a measure that each of
\* its steps makes smaller (retry.rs, sync.rs retry_pending).
THEOREM TasksComeToAnEnd == Spec => JobsProgress
<1>1. QueueInv /\ [Next]_vars => QueueInv' BY QueueStep
<1>2. TypeInv /\ QueueInv /\ [Next]_vars => TypeInv' BY TypeStep
<1>3. TypeInv /\ [Next]_vars
        => [\A i \in Job : jobs[i].at # "free" /\ jobs'[i] # jobs[i]
                             => StepsLeft(jobs'[i]) < StepsLeft(jobs[i])]_vars
  BY ProgressStep
<1> QED BY <1>1, <1>2, <1>3, InitTypes, InitQueue, PTL DEF Spec, JobsProgress

------------------------------------------------------------------------------
(* Uploads that succeed leave a thread with an owner                        *)

\* A row that exists, has an owner or is deleted stays so.
Grows(row, new) ==
  /\ row.exists => new.exists
  /\ row.owned => new.owned
  /\ row.deleted => new.deleted

RowOK(row) == row \in Row /\ (row.deleted \/ row.owned => row.exists)

\* What a handler has read of its row is still so.
Saw(h, row) ==
  /\ h.found => row.exists
  /\ h.owned => row.exists /\ row.owned
  /\ h.at \in {"reread", "claim"} => row.exists
  /\ h.op = "visibility" /\ h.at # "owner" => h.owned
  /\ h.op = "delete" => h.at \in {"owner", "write"}
  /\ h.op = "upsert" => h.at # "fetch"

HasOwner(row) == row.exists /\ (row.owned \/ row.deleted)

JobSaw(job, row) ==
  /\ job.at = "served" => Saw(job.h, row)
  /\ job.at = "ok" /\ job.h.op = "upsert" => HasOwner(row)

\* The inductive invariant about the rows and what is known of them.
SeenInv ==
  /\ \A t \in Thread : RowOK(rows[t])
  /\ \A i \in Job : JobSaw(jobs[i], rows[jobs[i].t])
  /\ \A o \in orphans : Saw(o.h, rows[o.t])

\* Every statement lets rows grow only.
LEMMA StatementGrows ==
  ASSUME NEW h \in Handler, NEW row, RowOK(row)
  PROVE  RowOK(After(h, row)) /\ Grows(row, After(h, row))
<1> DEFINE Good(r) == (r.deleted \/ r.owned => r.exists) /\ Grows(row, r)
<1>0. row \in Row BY DEF RowOK
<1>1. Good(row) BY DEF RowOK, Grows
<1>2. ASSUME get(row), NEW r, r = [row EXCEPT !.deleted = TRUE] PROVE Good(r)
  <2>1. r = [exists |-> row.exists, deleted |-> TRUE, owned |-> row.owned,
             doc |-> row.doc]
    BY <1>0, <1>2 DEF Row
  <2> QED BY <1>2, <2>1 DEF RowOK, Grows, get
<1>3. ASSUME NEW d, NEW r, r = [row EXCEPT !.doc = d] PROVE Good(r)
  <2>1. r = [exists |-> row.exists, deleted |-> row.deleted, owned |-> row.owned,
             doc |-> d]
    BY <1>0, <1>3 DEF Row
  <2> QED BY <2>1 DEF RowOK, Grows
<1>4. ASSUME NEW d, NEW r, r = [NoRow EXCEPT !.exists = TRUE, !.doc = d], ~row.exists
      PROVE  Good(r)
  <2>1. r = [exists |-> TRUE, deleted |-> FALSE, owned |-> FALSE, doc |-> d]
    BY <1>4 DEF NoRow
  <2>2. ~row.deleted /\ ~row.owned BY <1>0, <1>4 DEF RowOK, Row
  <2> QED BY <2>1, <2>2 DEF Grows
<1>5. ASSUME get(row), NEW r, r = [row EXCEPT !.owned = TRUE] PROVE Good(r)
  <2>1. r = [exists |-> row.exists, deleted |-> row.deleted, owned |-> TRUE,
             doc |-> row.doc]
    BY <1>0, <1>5 DEF Row
  <2> QED BY <1>5, <2>1 DEF RowOK, Grows, get
<1> HIDE DEF Good
<1>6. Good(WriteRow(h, row)) BY <1>1, <1>2, <1>3, <1>4 DEF WriteRow
<1>7. Good(ClaimRow(row)) BY <1>1, <1>5 DEF ClaimRow
<1>8. Good(After(h, row)) BY <1>1, <1>6, <1>7 DEF After
<1>9. After(h, row) \in Row BY <1>0, AfterOK
<1> QED BY <1>8, <1>9 DEF Good, RowOK

LEMMA GrowingKeeps ==
  ASSUME NEW row, NEW new, Grows(row, new)
  PROVE  /\ \A h : Saw(h, row) => Saw(h, new)
         /\ HasOwner(row) => HasOwner(new)
BY DEF Grows, Saw, HasOwner

\* What a handler has read, after its next statement; an upload that ends well
\* leaves a row with an owner.
LEMMA StatementSees ==
  ASSUME NEW h, HandlerOK(h), NEW row, RowOK(row), Saw(h, row)
  PROVE  /\ Advance(h, row).at \notin Ended => Saw(Advance(h, row), After(h, row))
         /\ h.op = "upsert" /\ Advance(h, row).at = "ok" => HasOwner(After(h, row))
<1> DEFINE Good(g, r) == /\ g.at \notin Ended => Saw(g, r)
                         /\ h.op = "upsert" /\ g.at = "ok" => HasOwner(r)
<1>0. /\ h \in Handler /\ row \in Row
      /\ h.at \in {"owner", "fetch", "read", "write", "reread", "claim"}
  BY DEF HandlerOK, Handler, Points, RowOK
<1>1. CASE h.at = "owner"
  <2>1. PICK g : g = CheckOwner(h, row) OBVIOUS
  <2>2. /\ g.op = h.op /\ g.found = h.found /\ g.owned = get_thread_owner_user_id(row)
        /\ g.at = CASE h.op = "upsert" -> "read"
                    [] h.op # "upsert" /\ ~get_thread_owner_user_id(row) -> "missing"
                    [] h.op = "delete" /\ get_thread_owner_user_id(row) -> "write"
                    [] OTHER -> "fetch"
    BY <1>0, <2>1 DEF CheckOwner, Handler
  <2>3. /\ g.at \in {"read", "missing", "write", "fetch"}
        /\ h.op = "delete" => g.at \in {"missing", "write"}
        /\ h.op = "visibility" => g.at = "missing" \/ g.owned
        /\ h.op = "upsert" => g.at = "read"
    BY <1>0, <2>2 DEF Handler, Ops
  <2>4. g.owned => row.exists /\ row.owned BY <2>2 DEF get_thread_owner_user_id, get
  <2>5. Good(g, row) BY <2>2, <2>3, <2>4 DEF Saw, Ended
  <2> QED BY <1>1, <2>1, <2>5 DEF Advance, After
<1>2. CASE h.at = "fetch"
  <2>1. PICK g : g = Fetch(h, row) OBVIOUS
  <2>2. PICK d : d = [row.doc EXCEPT !.version = @ + 1] OBVIOUS
  <2>3. \/ g = [h EXCEPT !.at = "missing"] \/ g = [h EXCEPT !.at = "conflict"]
        \/ g = [h EXCEPT !.at = "read", !.expect = 0, !.doc = d]
    BY <2>1, <2>2 DEF Fetch
  <2>4. g.at \in {"missing", "conflict"}
        \/ /\ g.op = h.op /\ g.found = h.found /\ g.owned = h.owned /\ g.at = "read"
    BY <1>0, <2>3 DEF Handler
  <2>5. Good(g, row) BY <1>2, <2>4 DEF Saw, Ended
  <2> QED BY <1>2, <2>1, <2>5 DEF Advance, After
<1>3. CASE h.at = "read"
  <2>1. PICK g : g = Read(h, row) OBVIOUS
  <2>2. /\ g.op = h.op /\ g.owned = h.owned /\ g.found = get(row)
        /\ g.at \in {"conflict", "write"}
    BY <1>0, <2>1 DEF Read, Handler
  <2>3. Good(g, row) BY <1>3, <2>2 DEF Saw, Ended, get
  <2> QED BY <1>3, <2>1, <2>3 DEF Advance, After
<1>4. CASE h.at = "write"
  <2>1. PICK g, r : g = Wrote(h, row) /\ r = WriteRow(h, row) OBVIOUS
  <2>2. /\ g.op = h.op /\ g.owned = h.owned /\ g.found = h.found
        /\ g.at = CASE h.op = "delete" -> IF get(row) THEN "ok" ELSE "missing"
                     [] h.op # "delete" /\ (h.found \/ ~row.exists) -> "reread"
                     [] OTHER -> "error"
    BY <1>0, <2>1 DEF Wrote, Handler
  <2>3. /\ h.op # "delete" => g.at \in {"reread", "error"}
        /\ h.op = "delete" => g.at \in {"ok", "missing"}
        /\ g.at = "reread" => h.op # "delete" /\ (h.found \/ ~row.exists)
    BY <2>2
  <2>4. Grows(row, r)
    <3>1. After(h, row) = r BY <1>4, <2>1 DEF After
    <3> QED BY <1>0, <3>1, StatementGrows
  <2>5. g.at = "reread" => r.exists
    <3>1. CASE h.found BY <2>4, <3>1 DEF Saw, Grows
    <3>2. CASE ~h.found /\ ~row.exists /\ h.op # "delete"
      <4>1. r = [NoRow EXCEPT !.exists = TRUE, !.doc = h.doc]
        BY <2>1, <3>2 DEF WriteRow
      <4> QED BY <4>1 DEF NoRow
    <3> QED BY <2>3, <3>1, <3>2
  <2>6. Good(g, r) BY <1>4, <2>2, <2>3, <2>4, <2>5 DEF Saw, Ended, Grows
  <2> QED BY <1>4, <2>1, <2>6 DEF Advance, After
<1>5. CASE h.at = "reread"
  <2>1. PICK g : g = Reread(h, row) OBVIOUS
  <2>2. /\ g.op = h.op /\ g.owned = h.owned /\ g.found = h.found
        /\ g.at \in {"error", "ok", "claim"} /\ (g.at = "ok" => h.owned)
    BY <1>0, <2>1 DEF Reread, Handler
  <2>3. h.op # "delete" BY <1>5 DEF Saw
  <2>4. Good(g, row) BY <1>5, <2>2, <2>3 DEF Saw, Ended, HasOwner
  <2> QED BY <1>5, <2>1, <2>4 DEF Advance, After
<1>6. CASE h.at = "claim"
  <2>1. PICK g, r : g = [h EXCEPT !.at = "ok"] /\ r = ClaimRow(row) OBVIOUS
  <2>2. g.at = "ok" BY <1>0, <2>1 DEF Handler
  <2>3. HasOwner(r)
    <3>1. row.exists BY <1>6 DEF Saw
    <3>2. CASE get(row)
      <4>1. r = [row EXCEPT !.owned = TRUE] BY <2>1, <3>2 DEF ClaimRow
      <4>2. r.exists = row.exists /\ r.owned BY <1>0, <4>1 DEF Row
      <4> QED BY <3>1, <4>2 DEF HasOwner
    <3>3. CASE ~get(row)
      BY <1>0, <2>1, <3>1, <3>3 DEF ClaimRow, get, HasOwner, Row
    <3> QED BY <3>2, <3>3
  <2>4. Good(g, r) BY <2>2, <2>3 DEF Ended
  <2> QED BY <1>6, <2>1, <2>4 DEF Advance, After
<1> QED BY <1>0, <1>1, <1>2, <1>3, <1>4, <1>5, <1>6

\* A handler that has just begun has seen nothing.
Fresh(h) == HandlerOK(h) /\ h.at = "owner" /\ ~h.owned /\ ~h.found

LEMMA FreshSees ==
  ASSUME NEW h, Fresh(h), NEW row PROVE Saw(h, row)
BY DEF Fresh, Saw

LEMMA NewIsFresh ==
  ASSUME NEW op \in Ops, NEW doc \in Document, NEW expect \in Nat
  PROVE  Fresh(NewHandler(op, doc, expect))
BY NewHandlerOK DEF Fresh

\* It is enough to look at the slots and handlers that change.
LEMMA SeenBy ==
  ASSUME TypeInv, SeenInv,
         \A s \in Thread : RowOK(rows'[s]) /\ Grows(rows[s], rows'[s]),
         \A i \in Job : jobs'[i] = jobs[i] \/ JobSaw(jobs'[i], rows'[jobs'[i].t]),
         \A o \in orphans' : o \in orphans \/ Saw(o.h, rows'[o.t])
  PROVE  SeenInv'
<1>1. ASSUME NEW i \in Job PROVE JobSaw(jobs'[i], rows'[jobs'[i].t])
  <2>1. CASE jobs'[i] = jobs[i]
    <3>1. JobOK(jobs[i]) /\ JobSaw(jobs[i], rows[jobs[i].t])
      BY DEF TypeInv, JobsOK, SeenInv
    <3>2. CASE jobs[i].at \in {"served", "ok"}
      <4>1. jobs[i].t \in Thread BY <3>1, <3>2 DEF JobOK, Shared
      <4> QED BY <2>1, <3>1, <4>1, GrowingKeeps DEF JobSaw
    <3>3. CASE jobs[i].at \notin {"served", "ok"} BY <2>1, <3>3 DEF JobSaw
    <3> QED BY <3>2, <3>3
  <2> QED BY <2>1
<1>2. ASSUME NEW o \in orphans' PROVE Saw(o.h, rows'[o.t])
  <2>1. CASE o \in orphans
    <3>1. o.t \in Thread /\ Saw(o.h, rows[o.t])
      BY <2>1 DEF TypeInv, OrphansOK, OrphanOK, SeenInv, Shared
    <3> QED BY <3>1, GrowingKeeps
  <2> QED BY <2>1
<1> QED BY <1>1, <1>2 DEF SeenInv, JobSaw, Saw, HasOwner, RowOK

LEMMA RowsStay ==
  ASSUME SeenInv, UNCHANGED rows
  PROVE  \A s \in Thread : RowOK(rows'[s]) /\ Grows(rows[s], rows'[s])
BY DEF SeenInv, Grows

LEMMA RowsGrow ==
  ASSUME TypeInv, SeenInv, NEW t \in Shared, NEW h \in Handler,
         rows' = [rows EXCEPT ![t] = After(h, @)]
  PROVE  \A s \in Thread : RowOK(rows'[s]) /\ Grows(rows[s], rows'[s])
<1> TAKE s \in Thread
<1>1. RowOK(rows[s]) BY DEF SeenInv
<1>2. rows'[s] = IF s = t THEN After(h, rows[s]) ELSE rows[s]
  BY RowsTyped DEF TypeInv
<1>3. RowOK(After(h, rows[s])) /\ Grows(rows[s], After(h, rows[s])) BY <1>1, StatementGrows
<1> QED BY <1>1, <1>2, <1>3 DEF Grows

\* A slot takes a request, or is free again.
LEMMA SlotSees ==
  ASSUME TypeInv, SeenInv, NEW i \in Job, NEW job, JobOK(job),
         jobs' = [jobs EXCEPT ![i] = job], UNCHANGED rows,
         job.at \notin {"served", "ok"} \/ (job.at = "served" /\ Fresh(job.h)),
         \A o \in orphans' : o \in orphans \/ Saw(o.h, rows'[o.t])
  PROVE  SeenInv'
<1>1. \A s : JobSaw(job, rows'[s]) BY FreshSees DEF JobSaw
<1>2. \A j \in Job : jobs'[j] = IF j = i THEN job ELSE jobs[j] BY SlotTyped DEF TypeInv
<1> QED BY <1>1, <1>2, RowsStay, SeenBy

LEMMA SeenCalls ==
  ASSUME TypeInv, SeenInv, NEW t \in Thread,
         \/ \E by \in {"save", "sync"} : Save(t, by)
         \/ Delete(t)
         \/ SetVisibility(t)
  PROVE  SeenInv'
<1>1. UNCHANGED <<rows, orphans>> /\ Call
  BY DEF Save, Delete, SetVisibility
<1>2. CASE UNCHANGED jobs BY <1>1, <1>2, RowsStay, SeenBy
<1>3. ASSUME NEW by \in {"save", "sync", "delete"}, NEW op \in SyncOperation,
             NEW doc \in Document, Spawn(by, t, NewHandler(op, doc, 0)), t \in Shared
      PROVE  SeenInv'
  <2>1. PICK h, job : /\ h = NewHandler(op, doc, 0)
                      /\ jobs' = [jobs EXCEPT ![NextSlot] = job]
                      /\ job.at = "served" /\ job.h = h
    <3>1. PICK h : /\ h = NewHandler(op, doc, 0)
                   /\ jobs' = [jobs EXCEPT ![NextSlot] =
                        [by |-> by, t |-> t, at |-> "served", tries |-> 0, h |-> h,
                         won |-> FALSE, queue |-> <<>>, todo |-> <<>>]]
      BY <1>1, <1>3, SpawnTyped
    <3>2. PICK job : job = [by |-> by, t |-> t, at |-> "served", tries |-> 0, h |-> h,
                            won |-> FALSE, queue |-> <<>>, todo |-> <<>>]
      OBVIOUS
    <3>3. job.at = "served" /\ job.h = h BY <3>2
    <3> QED BY <3>1, <3>2, <3>3
  <2>2. Fresh(h) BY <2>1, NewIsFresh DEF SyncOperation, Ops
  <2>3. \A s : JobSaw(job, rows'[s]) BY <2>1, <2>2, FreshSees DEF JobSaw
  <2>4. NextSlot \in Job BY <1>1, SlotIsFree
  <2>5. \A j \in Job : jobs'[j] = IF j = NextSlot THEN job ELSE jobs[j]
    BY <2>1, <2>4 DEF TypeInv, JobsOK
  <2> QED BY <1>1, <2>3, <2>5, RowsStay, SeenBy
<1>4. ASSUME NEW by \in {"save", "sync"}, Save(t, by) PROVE SeenInv'
  <2>1. CASE t \in Private BY <1>2, <1>4, <2>1 DEF Save
  <2>2. CASE t \notin Private
    <3>1. PICK d : d = [body |-> version[t] + 1, version |-> version[t] + 1] OBVIOUS
    <3>2. d \in Document BY <3>1 DEF Document, TypeInv, DiskOK
    <3>3. Spawn(by, t, NewHandler("upsert", d, 0)) BY <1>4, <2>2, <3>1 DEF Save
    <3>4. "upsert" \in SyncOperation /\ t \in Shared BY <2>2 DEF SyncOperation, Shared
    <3> QED BY <1>3, <3>2, <3>3, <3>4
  <2> QED BY <2>1, <2>2
<1>5. CASE Delete(t)
  <2>1. CASE t \in Private BY <1>2, <1>5, <2>1 DEF Delete
  <2>2. CASE t \notin Private
    <3>1. Spawn("delete", t, NewHandler("delete", NoDocument, 0)) BY <1>5, <2>2 DEF Delete
    <3>2. "delete" \in SyncOperation /\ t \in Shared BY <2>2 DEF SyncOperation, Shared
    <3> QED BY <1>3, <3>1, <3>2, NoDocumentOK
  <2> QED BY <2>1, <2>2
<1>6. CASE SetVisibility(t)
  <2>1. PICK h, job : /\ HandlerOK(h) /\ h.at = "owner" /\ ~h.owned /\ ~h.found
                      /\ job.at = "served" /\ job.h = h
                      /\ jobs' = [jobs EXCEPT ![NextSlot] = job]
    BY <1>6, VisibilityJob
  <2>2. \A s : JobSaw(job, rows'[s]) BY <2>1, FreshSees DEF JobSaw, Fresh
  <2>3. NextSlot \in Job BY <1>1, SlotIsFree
  <2>4. \A j \in Job : jobs'[j] = IF j = NextSlot THEN job ELSE jobs[j]
    BY <2>1, <2>3 DEF TypeInv, JobsOK
  <2> QED BY <1>1, <2>2, <2>4, RowsStay, SeenBy
<1> QED BY <1>4, <1>5, <1>6

LEMMA SeenRetry == ASSUME TypeInv, SeenInv, RetryPending PROVE SeenInv'
<1>1. UNCHANGED <<rows, orphans>> /\ Call BY DEF RetryPending
<1>2. PICK job : /\ job = [Free EXCEPT !.by = "retry", !.at = "next", !.todo = pending]
                 /\ jobs' = [jobs EXCEPT ![NextSlot] = job]
  BY DEF RetryPending
<1>3. job.at = "next" BY <1>2 DEF Free
<1>4. \A s : JobSaw(job, rows'[s]) BY <1>3 DEF JobSaw
<1>5. NextSlot \in Job BY <1>1, SlotIsFree
<1>6. \A j \in Job : jobs'[j] = IF j = NextSlot THEN job ELSE jobs[j]
  BY <1>2, <1>5 DEF TypeInv, JobsOK
<1> QED BY <1>1, <1>4, <1>6, RowsStay, SeenBy

LEMMA SeenServe ==
  ASSUME TypeInv, SeenInv, NEW i \in Job, Serve(i) PROVE SeenInv'
<1>1. PICK old : old = jobs[i] /\ JobOK(old) BY DEF TypeInv, JobsOK
<1>2. PICK t, h, g, job :
         /\ t = old.t /\ t \in Shared /\ h = old.h /\ HandlerOK(h) /\ old.at = "served"
         /\ g = Advance(h, rows[t]) /\ g.op = h.op
         /\ rows' = [rows EXCEPT ![t] = After(h, @)]
         /\ jobs' = [jobs EXCEPT ![i] = job] /\ JobOK(job)
         /\ \/ HandlerOK(g) /\ job.at = "served" /\ job.t = t /\ job.h = g
            \/ g.at \in Ended /\ Succeeded(g) /\ job = Over(old, "ok")
            \/ job = Over(old, "err")
  BY <1>1, ServeJob
<1>3. Saw(h, rows[t]) /\ RowOK(rows[t])
  BY <1>1, <1>2 DEF SeenInv, JobSaw, Shared
<1>4. rows'[t] = After(h, rows[t]) BY <1>2, RowsTyped DEF TypeInv, HandlerOK
<1>5. JobSaw(job, rows'[job.t])
  <2>1. CASE HandlerOK(g) /\ job.at = "served" /\ job.t = t /\ job.h = g
    <3>1. Saw(g, rows'[t]) BY <1>2, <1>3, <1>4, <2>1, StatementSees DEF HandlerOK
    <3> QED BY <2>1, <3>1 DEF JobSaw
  <2>2. CASE g.at \in Ended /\ Succeeded(g) /\ job = Over(old, "ok")
    <3>1. job.at = "ok" /\ job.t = t /\ job.h.op = h.op
      BY <1>1, <1>2, <2>2, OverFields DEF JobOK
    <3>2. h.op = "upsert" => g.at = "ok" BY <1>2, <2>2 DEF Succeeded
    <3>3. h.op = "upsert" => HasOwner(rows'[t]) BY <1>2, <1>3, <1>4, <3>2, StatementSees
    <3> QED BY <3>1, <3>3 DEF JobSaw
  <2>3. CASE job = Over(old, "err")
    <3>1. job.at = "err" BY <1>1, <2>3, OverFields DEF JobOK
    <3> QED BY <3>1 DEF JobSaw
  <2> QED BY <1>2, <2>1, <2>2, <2>3
<1>6. \A j \in Job : jobs'[j] = IF j = i THEN job ELSE jobs[j]
  BY <1>2, SlotTyped DEF TypeInv
<1>7. \A s \in Thread : RowOK(rows'[s]) /\ Grows(rows[s], rows'[s])
  BY <1>2, RowsGrow DEF HandlerOK
<1>8. UNCHANGED orphans BY DEF Serve
<1> QED BY <1>5, <1>6, <1>7, <1>8, SeenBy

LEMMA SeenOrphan ==
  ASSUME TypeInv, SeenInv, NEW o \in orphans, ServeOrphan(o) PROVE SeenInv'
<1>1. PICK t, h, g :
        /\ t = o.t /\ t \in Shared /\ h = o.h /\ HandlerOK(h)
        /\ g = Advance(h, rows[t])
        /\ rows' = [rows EXCEPT ![t] = After(h, @)]
        /\ \/ orphans' = orphans \ {o}
           \/ HandlerOK(g) /\ orphans' = (orphans \ {o}) \cup {Orphan(t, g)}
  BY OrphanStep
<1>2. Saw(h, rows[t]) /\ RowOK(rows[t]) BY <1>1 DEF SeenInv, Shared
<1>3. rows'[t] = After(h, rows[t]) BY <1>1, RowsTyped DEF TypeInv, HandlerOK
<1>4. HandlerOK(g) => Saw(g, rows'[t])
  BY <1>1, <1>2, <1>3, StatementSees DEF HandlerOK
<1>5. \A x \in orphans' : x \in orphans \/ (x = Orphan(t, g) /\ HandlerOK(g)) BY <1>1
<1>6. Orphan(t, g).h = g /\ Orphan(t, g).t = t BY DEF Orphan
<1>7. \A s \in Thread : RowOK(rows'[s]) /\ Grows(rows[s], rows'[s])
  BY <1>1, RowsGrow DEF HandlerOK
<1>8. \A x \in orphans' : x \in orphans \/ Saw(x.h, rows'[x.t]) BY <1>4, <1>5, <1>6
<1>9. UNCHANGED jobs BY DEF ServeOrphan
<1> QED BY <1>7, <1>8, <1>9, SeenBy

\* The handlers that go on when an answer is lost or the process exits.
LEMMA SeenGoesOn ==
  ASSUME TypeInv, SeenInv, UNCHANGED rows, NEW i \in Job, jobs[i].at = "served"
  PROVE  Saw(Orphan(jobs[i].t, jobs[i].h).h, rows'[Orphan(jobs[i].t, jobs[i].h).t])
BY DEF SeenInv, JobSaw, Orphan

LEMMA SeenTasks ==
  ASSUME TypeInv, SeenInv, NEW i \in Job,
         \/ RetryNext(i) \/ Returned(i) \/ LoadQueue(i) \/ StoreQueue(i)
         \/ StoreQueueFails(i) \/ AnswerLost(i) \/ RetryLoadFails(i)
  PROVE  SeenInv'
<1>0. UNCHANGED rows /\ JobOK(jobs[i])
  BY DEF RetryNext, RetryLoadFails, Returned, LoadQueue, StoreQueue, StoreQueueFails, AnswerLost,
         TypeInv, JobsOK
<1>1. CASE RetryNext(i)
  <2>1. PICK job, todo :
          /\ jobs' = [jobs EXCEPT ![i] = job] /\ JobOK(job)
          /\ \/ job = Free \/ Between(job, todo)
             \/ \E h, e : RequestOf(job, e, h, todo)
    BY <1>1, RetryNextJob
  <2>2. job.at \notin {"served", "ok"} \/ (job.at = "served" /\ Fresh(job.h))
    BY <2>1, FreeOK DEF Between, RequestOf, Fresh
  <2>3. UNCHANGED orphans BY <1>1 DEF RetryNext
  <2> QED BY <1>0, <2>1, <2>2, <2>3, SlotSees
<1>2. CASE Returned(i) \/ StoreQueue(i) \/ StoreQueueFails(i)
  <2>1. jobs' = [jobs EXCEPT ![i] = Rest(jobs[i])] /\ UNCHANGED orphans
    BY <1>2 DEF Returned, StoreQueue, StoreQueueFails
  <2>2. JobOK(Rest(jobs[i])) BY <1>0, RestOK
  <2>3. Rest(jobs[i]).at \notin {"served", "ok"} BY RestFields, FreeOK
  <2> QED BY <1>0, <2>1, <2>2, <2>3, SlotSees
<1>3. CASE LoadQueue(i)
  <2>1. PICK job : jobs' = [jobs EXCEPT ![i] = job] /\ JobOK(job) /\ job.at = "noting"
    BY <1>3, LoadedJob
  <2>2. UNCHANGED orphans BY <1>3 DEF LoadQueue
  <2> QED BY <1>0, <2>1, <2>2, SlotSees
<1>4. CASE AnswerLost(i)
  <2>1. PICK retryable \in BOOLEAN :
          /\ jobs' = [jobs EXCEPT ![i] = Tried(jobs[i], retryable)]
          /\ \/ UNCHANGED orphans
             \/ orphans' = orphans \cup {Orphan(jobs[i].t, jobs[i].h)}
    BY <1>4 DEF AnswerLost, Orphan
  <2>2. jobs[i].at = "served" BY <1>4 DEF AnswerLost
  <2>3. PICK job : job = Tried(jobs[i], retryable) /\ JobOK(job)
    BY <1>0, <2>2, TriedOK
  <2>4. job.at \notin {"served", "ok"} \/ (job.at = "served" /\ Fresh(job.h))
    <3>1. CASE job = Over(jobs[i], "err")
      <4>1. job.at = "err" BY <1>0, <3>1, OverFields DEF JobOK
      <4> QED BY <4>1
    <3>2. CASE job # Over(jobs[i], "err")
      <4>1. PICK h : h = NewHandler(jobs[i].h.op, jobs[i].h.doc, jobs[i].h.expect) OBVIOUS
      <4>2. job.at = "served" /\ job.h = h BY <1>0, <2>2, <2>3, <3>2, <4>1, TriedFields
      <4>3. Fresh(h) BY <1>0, <4>1, NewIsFresh DEF JobOK, HandlerOK, Handler
      <4> QED BY <4>2, <4>3
    <3> QED BY <3>1, <3>2
  <2>5. \A o \in orphans' : o \in orphans \/ Saw(o.h, rows'[o.t])
    BY <1>0, <2>1, <2>2, SeenGoesOn
  <2> QED BY <1>0, <2>1, <2>3, <2>4, <2>5, SlotSees
<1>5. CASE RetryLoadFails(i)
  <2>1. jobs' = [jobs EXCEPT ![i] = Free] /\ UNCHANGED orphans BY <1>5 DEF RetryLoadFails
  <2>2. JobOK(Free) /\ Free.at \notin {"served", "ok"} BY FreeOK
  <2> QED BY <1>0, <2>1, <2>2, SlotSees
<1> QED BY <1>1, <1>2, <1>3, <1>4, <1>5

LEMMA SeenExit == ASSUME TypeInv, SeenInv, Exit PROVE SeenInv'
<1>1. UNCHANGED rows /\ \A j \in Job : jobs'[j] = jobs[j] \/ jobs'[j] = Free
  BY DEF Exit
<1>2. PICK on : /\ on \subseteq {i \in Job : jobs[i].at = "served"}
                /\ orphans' = orphans \cup {Orphan(jobs[i].t, jobs[i].h) : i \in on}
  BY DEF Exit, Orphan
<1>3. \A o \in orphans' : o \in orphans \/ Saw(o.h, rows'[o.t])
  BY <1>1, <1>2, SeenGoesOn
<1>4. \A s : JobSaw(Free, rows'[s]) BY FreeOK DEF JobSaw
<1> QED BY <1>1, <1>3, <1>4, RowsStay, SeenBy

LEMMA SeenStep == ASSUME TypeInv, SeenInv, [Next]_vars PROVE SeenInv'
<1>1. CASE UNCHANGED vars
  BY <1>1, RowsStay, SeenBy DEF vars
<1>2. ASSUME NEW t \in Thread,
             (\E by \in {"save", "sync"} : Save(t, by)) \/ Delete(t) \/ SetVisibility(t)
      PROVE  SeenInv'
  BY <1>2, SeenCalls
<1>3. CASE RetryPending BY <1>3, SeenRetry
<1>4. ASSUME NEW i \in Job, JobStep(i) \/ AnswerLost(i) \/ RetryLoadFails(i) \/ StoreQueueFails(i)
      PROVE  SeenInv'
  BY <1>4, SeenServe, SeenTasks DEF JobStep
<1>5. ASSUME NEW o \in orphans, ServeOrphan(o) \/ DropOrphan(o) PROVE SeenInv'
  <2>1. CASE DropOrphan(o)
    <3>1. UNCHANGED <<rows, jobs>> /\ orphans' \subseteq orphans BY <2>1 DEF DropOrphan
    <3> QED BY <3>1, RowsStay, SeenBy
  <2> QED BY <1>5, <2>1, SeenOrphan
<1>6. CASE Exit BY <1>6, SeenExit
<1> QED BY <1>1, <1>2, <1>3, <1>4, <1>5, <1>6 DEF Next

LEMMA InitSeen == Init => SeenInv
<1> SUFFICES ASSUME Init PROVE SeenInv OBVIOUS
<1>1. /\ rows = [t \in Thread |-> NoRow] /\ jobs = [i \in Job |-> Free] /\ orphans = {}
  BY DEF Init
<1>2. RowOK(NoRow) BY DEF RowOK, NoRow, Row, NoDocument, Document
<1>3. \A s : JobSaw(Free, s) BY FreeOK DEF JobSaw
<1> QED BY <1>1, <1>2, <1>3 DEF SeenInv

\* An upload that reports success has left a row that has an owner, or has been
\* deleted since, although other handlers of the same thread run between its
\* statements (routes/threads.rs, upsert_thread).
THEOREM UploadsAreOwned == Spec => []UploadedIsOwned
<1>1. QueueInv /\ [Next]_vars => QueueInv' BY QueueStep
<1>2. TypeInv /\ QueueInv /\ [Next]_vars => TypeInv' BY TypeStep
<1>3. TypeInv /\ SeenInv /\ [Next]_vars => SeenInv' BY SeenStep
<1>4. SeenInv => UploadedIsOwned BY DEF SeenInv, JobSaw, HasOwner, UploadedIsOwned
<1> QED BY <1>1, <1>2, <1>3, <1>4, InitTypes, InitQueue, InitSeen, PTL DEF Spec
==============================================================================
