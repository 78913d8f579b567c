-------------------------- MODULE ThreadSettleProofs --------------------------
(***************************************************************************)
(* The main property of ThreadSync, for all constants and with or without  *)
(* a pending store: a thread nobody is at any more is on the server as it  *)
(* is on disk, or the queue remembers what is missing, unless its newest   *)
(* operation was disturbed.                                                *)
(***************************************************************************)
EXTENDS ThreadSyncProofs

\* The deleted threads, and the requests and entries that delete.
Gone == {t \in Thread : Deleted(t)}
DeletesIn(queue, gone) ==
  \A n \in 1..Len(queue) : queue[n].op = "delete" => queue[n].t \in gone
JobDeletes(job, gone) ==
  (job.h.op = "delete" => job.t \in gone) /\ DeletesIn(job.todo, gone)

\* Only what has been deleted here is deleted there.
DeleteInv ==
  /\ \A t \in Thread : rows[t].deleted => t \in Gone
  /\ DeletesIn(pending, Gone)
  /\ \A i \in Job : JobDeletes(jobs[i], Gone)
  /\ \A o \in orphans : o.h.op = "delete" => o.t \in Gone

\* What is asked of the server about a thread, and whether it has done it.
Wanted(t) == IF t \in Gone THEN "delete" ELSE "upsert"
Done(want, body, row) ==
  IF want = "delete" THEN ~get_thread_owner_user_id(row)
  ELSE get_thread_owner_user_id(row) /\ row.doc.body = body

\* A handler does what is asked, with the newest content; the web interface
\* writes the content it has found.
Serves(h, want, body, row) ==
  /\ h.op = want
  /\ h.op = "upsert" => /\ h.doc.body = body
                        /\ h.at \in {"reread", "claim"} => row.doc.body = body
Shows(h, row) ==
  h.at \in {"read", "write", "reread", "claim"} => h.doc.body = row.doc.body

\* A statement of such a handler brings the row to what is asked, and keeps it
\* so for the others.
LEMMA ServingStatement ==
  ASSUME NEW h, HandlerOK(h), NEW row, RowOK(row), Saw(h, row), NEW want \in SyncOperation,
         NEW body, Serves(h, want, body, row), row.deleted => want = "delete"
  PROVE  LET g == Advance(h, row)
             r == After(h, row)
         IN /\ g.at \notin Ended => Serves(g, want, body, r)
            /\ g.at \in Ended /\ Succeeded(g) => Done(want, body, r)
            /\ Done(want, body, row) => Done(want, body, r)
            /\ \A x : Serves(x, want, body, row) => Serves(x, want, body, r)
<1> DEFINE Good(g, r) ==
             /\ g.at \notin Ended => Serves(g, want, body, r)
             /\ g.at \in Ended /\ Succeeded(g) => Done(want, body, r)
             /\ Done(want, body, row) => Done(want, body, r)
             /\ \A x : Serves(x, want, body, row) => Serves(x, want, body, r)
<1>0. /\ h \in Handler /\ row \in Row
      /\ h.at \in {"owner", "fetch", "read", "write", "reread", "claim"}
      /\ h.op = want /\ h.op \in {"upsert", "delete"}
  BY DEF HandlerOK, Handler, Points, RowOK, Serves, SyncOperation
<1>1. CASE h.at = "owner"
  <2>1. PICK g : g = CheckOwner(h, row) OBVIOUS
  <2>2. /\ g.op = h.op /\ g.doc = h.doc
        /\ g.at = CASE h.op = "upsert" -> "read"
                    [] h.op # "upsert" /\ ~get_thread_owner_user_id(row) -> "missing"
                    [] h.op = "delete" /\ get_thread_owner_user_id(row) -> "write"
                    [] OTHER -> "fetch"
    BY <1>0, <2>1 DEF CheckOwner, Handler
  <2>3. \/ g.at = "read" /\ h.op = "upsert"
        \/ g.at = "missing" /\ h.op = "delete" /\ ~get_thread_owner_user_id(row)
        \/ g.at = "write" /\ h.op = "delete"
    BY <1>0, <2>2
  <2>4. Good(g, row) BY <1>0, <2>2, <2>3 DEF Serves, Done, Ended, Succeeded
  <2> QED BY <1>1, <2>1, <2>4 DEF Advance, After
<1>2. CASE h.at = "read"
  <2>1. PICK g : g = Read(h, row) OBVIOUS
  <2>2. g.op = h.op /\ g.doc = h.doc /\ g.at \in {"conflict", "write"}
    BY <1>0, <2>1 DEF Read, Handler
  <2>3. h.op = "upsert" BY <1>0, <1>2 DEF Saw
  <2>4. Good(g, row) BY <1>0, <2>2, <2>3 DEF Serves, Ended, Succeeded
  <2> QED BY <1>2, <2>1, <2>4 DEF Advance, After
<1>3. CASE h.at = "write" /\ h.op = "delete"
  <2>1. PICK g, r : g = Wrote(h, row) /\ r = WriteRow(h, row) OBVIOUS
  <2>2. g.at \in Ended /\ want = "delete"
    BY <1>0, <1>3, <2>1 DEF Wrote, Handler, Ended
  <2>3. ~get_thread_owner_user_id(r)
    <3>1. CASE get(row)
      <4>1. r = [row EXCEPT !.deleted = TRUE] BY <1>3, <2>1, <3>1 DEF WriteRow
      <4>2. r.deleted BY <1>0, <4>1 DEF Row
      <4> QED BY <4>2 DEF get_thread_owner_user_id, get
    <3>2. CASE ~get(row)
      <4>1. r = row BY <1>3, <2>1, <3>2 DEF WriteRow
      <4> QED BY <3>2, <4>1 DEF get_thread_owner_user_id
    <3> QED BY <3>1, <3>2
  <2>4. Good(g, r) BY <2>2, <2>3 DEF Serves, Done
  <2> QED BY <1>3, <2>1, <2>4 DEF Advance, After
<1>4. CASE h.at = "write" /\ h.op = "upsert"
  <2>1. PICK g, r : g = Wrote(h, row) /\ r = WriteRow(h, row) OBVIOUS
  <2>2. /\ g.op = h.op /\ g.doc = h.doc
        /\ g.at = IF h.found \/ ~row.exists THEN "reread" ELSE "error"
    BY <1>0, <1>4, <2>1 DEF Wrote, Handler
  <2>3. want = "upsert" /\ h.doc.body = body BY <1>0, <1>4 DEF Wanted, Serves
  <2>4. CASE h.found
    <3>1. r = [row EXCEPT !.doc = h.doc] BY <1>4, <2>1, <2>4 DEF WriteRow
    <3>2. /\ r.exists = row.exists /\ r.deleted = row.deleted /\ r.owned = row.owned
          /\ r.doc = h.doc
      BY <1>0, <3>1 DEF Row
    <3>3. get_thread_owner_user_id(r) <=> get_thread_owner_user_id(row)
      BY <3>2 DEF get_thread_owner_user_id, get
    <3>4. g.at = "reread" BY <2>2, <2>4
    <3>5. Good(g, r)
      BY <1>4, <2>2, <2>3, <3>2, <3>3, <3>4 DEF Serves, Done, Ended
    <3> QED BY <1>4, <2>1, <3>5 DEF Advance, After
  <2>5. CASE ~h.found /\ row.exists
    <3>1. r = row /\ g.at = "error" BY <1>4, <2>1, <2>2, <2>5 DEF WriteRow
    <3>2. Good(g, r) BY <1>4, <2>2, <3>1 DEF Ended, Succeeded
    <3> QED BY <1>4, <2>1, <3>2 DEF Advance, After
  <2>6. CASE ~h.found /\ ~row.exists
    <3>1. r = [NoRow EXCEPT !.exists = TRUE, !.doc = h.doc]
      BY <1>4, <2>1, <2>6 DEF WriteRow
    <3>2. r.doc = h.doc BY <3>1 DEF NoRow
    <3>3. ~Done(want, body, row) BY <2>3, <2>6 DEF Done, get_thread_owner_user_id, get
    <3>4. g.at = "reread" BY <2>2, <2>6
    <3>5. Good(g, r) BY <1>4, <2>2, <2>3, <3>2, <3>3, <3>4 DEF Serves, Ended
    <3> QED BY <1>4, <2>1, <3>5 DEF Advance, After
  <2> QED BY <2>4, <2>5, <2>6
<1>5. CASE h.at = "reread"
  <2>1. PICK g : g = Reread(h, row) OBVIOUS
  <2>2. /\ g.op = h.op /\ g.doc = h.doc /\ g.at \in {"error", "ok", "claim"}
        /\ g.at = "ok" => get(row) /\ h.owned
    BY <1>0, <2>1 DEF Reread, Handler
  <2>3. h.op = "upsert" /\ want = "upsert" /\ row.doc.body = body
    BY <1>0, <1>5 DEF Saw, Serves
  <2>4. g.at = "ok" => get_thread_owner_user_id(row)
    BY <2>2 DEF Saw, get_thread_owner_user_id
  <2>5. Good(g, row) BY <2>2, <2>3, <2>4 DEF Serves, Done, Ended, Succeeded
  <2> QED BY <1>5, <2>1, <2>5 DEF Advance, After
<1>6. CASE h.at = "claim"
  <2>1. PICK g, r : g = [h EXCEPT !.at = "ok"] /\ r = ClaimRow(row) OBVIOUS
  <2>2. h.op = "upsert" /\ want = "upsert" /\ row.doc.body = body /\ get(row)
    BY <1>0, <1>6 DEF Saw, Serves, get
  <2>3. r = [row EXCEPT !.owned = TRUE] BY <2>1, <2>2 DEF ClaimRow
  <2>4. r.exists = row.exists /\ r.deleted = row.deleted /\ r.owned /\ r.doc = row.doc
    BY <1>0, <2>3 DEF Row
  <2>5. get_thread_owner_user_id(r) BY <2>2, <2>4 DEF get_thread_owner_user_id, get
  <2>6. g.at = "ok" BY <1>0, <2>1 DEF Handler
  <2>7. Good(g, r) BY <2>2, <2>4, <2>5, <2>6 DEF Serves, Done, Ended
  <2> QED BY <1>6, <2>1, <2>7 DEF Advance, After
<1>7. h.at # "fetch" BY <1>0 DEF Saw
<1> QED BY <1>0, <1>1, <1>2, <1>3, <1>4, <1>5, <1>6, <1>7

\* The web interface changes neither the content nor the owner of a thread.
LEMMA ShowingStatement ==
  ASSUME NEW h, HandlerOK(h), NEW row, RowOK(row), Saw(h, row), h.op = "visibility",
         Shows(h, row)
  PROVE  LET g == Advance(h, row)
             r == After(h, row)
         IN /\ g.at \notin Ended => Shows(g, r)
            /\ \A want, body : Done(want, body, row) => Done(want, body, r)
<1> DEFINE Good(g, r) ==
             /\ g.at \notin Ended => Shows(g, r)
             /\ \A want, body : Done(want, body, row) => Done(want, body, r)
<1>0. /\ h \in Handler /\ row \in Row
      /\ h.at \in {"owner", "fetch", "read", "write", "reread", "claim"}
  BY DEF HandlerOK, Handler, Points, RowOK
<1>1. CASE h.at = "owner"
  <2>1. PICK g : g = CheckOwner(h, row) OBVIOUS
  <2>2. g.at \in {"missing", "fetch"} BY <1>0, <2>1 DEF CheckOwner, Handler
  <2>3. Good(g, row) BY <2>2 DEF Shows, Ended
  <2> QED BY <1>1, <2>1, <2>3 DEF Advance, After
<1>2. CASE h.at = "fetch"
  <2>1. PICK g : g = Fetch(h, row) OBVIOUS
  <2>2. PICK d : d = [row.doc EXCEPT !.version = @ + 1] OBVIOUS
  <2>3. d.body = row.doc.body BY <1>0, <2>2 DEF Row, Document
  <2>4. \/ g = [h EXCEPT !.at = "missing"] \/ g = [h EXCEPT !.at = "conflict"]
        \/ g = [h EXCEPT !.at = "read", !.expect = 0, !.doc = d]
    BY <2>1, <2>2 DEF Fetch
  <2>5. g.at \in {"missing", "conflict"} \/ g.doc = d BY <1>0, <2>4 DEF Handler
  <2>6. Good(g, row) BY <2>3, <2>5 DEF Shows, Ended
  <2> QED BY <1>2, <2>1, <2>6 DEF Advance, After
<1>3. CASE h.at = "read"
  <2>1. PICK g : g = Read(h, row) OBVIOUS
  <2>2. g.doc = h.doc BY <1>0, <2>1 DEF Read, Handler
  <2>3. Good(g, row) BY <1>3, <2>2 DEF Shows
  <2> QED BY <1>3, <2>1, <2>3 DEF Advance, After
<1>4. CASE h.at = "write"
  <2>1. PICK g, r : g = Wrote(h, row) /\ r = WriteRow(h, row) OBVIOUS
  <2>2. g.doc = h.doc /\ (g.at \in Ended \/ h.found \/ ~row.exists)
    BY <1>0, <2>1 DEF Wrote, Handler, Ended
  <2>3. CASE h.found
    <3>1. r = [row EXCEPT !.doc = h.doc] BY <2>1, <2>3 DEF WriteRow
    <3>2. /\ r.exists = row.exists /\ r.deleted = row.deleted /\ r.owned = row.owned
          /\ r.doc = h.doc
      BY <1>0, <3>1 DEF Row
    <3>3. get_thread_owner_user_id(r) <=> get_thread_owner_user_id(row)
      BY <3>2 DEF get_thread_owner_user_id, get
    <3>4. Good(g, r) BY <1>4, <2>2, <3>2, <3>3 DEF Shows, Done
    <3> QED BY <1>4, <2>1, <3>4 DEF Advance, After
  <2>4. CASE ~h.found /\ row.exists
    <3>1. r = row BY <2>1, <2>4 DEF WriteRow
    <3>2. Good(g, r) BY <2>2, <2>4, <3>1
    <3> QED BY <1>4, <2>1, <3>2 DEF Advance, After
  <2>5. CASE ~h.found /\ ~row.exists
    <3>1. r = [NoRow EXCEPT !.exists = TRUE, !.doc = h.doc] BY <2>1, <2>5 DEF WriteRow
    <3>2. r.doc = h.doc /\ ~r.owned BY <3>1 DEF NoRow
    <3>3. ~get_thread_owner_user_id(r) /\ ~get_thread_owner_user_id(row)
      BY <2>5, <3>2 DEF get_thread_owner_user_id, get
    <3>4. Good(g, r) BY <2>2, <3>2, <3>3 DEF Shows, Done
    <3> QED BY <1>4, <2>1, <3>4 DEF Advance, After
  <2> QED BY <2>3, <2>4, <2>5
<1>5. CASE h.at = "reread"
  <2>1. PICK g : g = Reread(h, row) OBVIOUS
  <2>2. g.doc = h.doc BY <1>0, <2>1 DEF Reread, Handler
  <2>3. Good(g, row) BY <1>5, <2>2 DEF Shows
  <2> QED BY <1>5, <2>1, <2>3 DEF Advance, After
<1>6. CASE h.at = "claim"
  <2>1. PICK g, r : g = [h EXCEPT !.at = "ok"] /\ r = ClaimRow(row) OBVIOUS
  <2>2. row.owned BY <1>6 DEF Saw
  <2>3. r.exists = row.exists /\ r.deleted = row.deleted /\ r.owned /\ r.doc = row.doc
    BY <1>0, <2>1, <2>2 DEF ClaimRow, Row
  <2>4. get_thread_owner_user_id(r) <=> get_thread_owner_user_id(row)
    BY <2>2, <2>3 DEF get_thread_owner_user_id, get
  <2>5. g.at = "ok" BY <1>0, <2>1 DEF Handler
  <2>6. Good(g, r) BY <2>3, <2>4, <2>5 DEF Done, Ended
  <2> QED BY <1>6, <2>1, <2>6 DEF Advance, After
<1> QED BY <1>0, <1>1, <1>2, <1>3, <1>4, <1>5, <1>6

------------------------------------------------------------------------------
(* Deletes                                                                  *)

LEMMA StatementDeletes ==
  ASSUME NEW h, NEW row \in Row
  PROVE  After(h, row).deleted => row.deleted \/ h.op = "delete"
<1>1. WriteRow(h, row).deleted => row.deleted \/ h.op = "delete"
  <2>1. CASE h.op # "delete" /\ h.found
    <3>1. PICK r : r = [row EXCEPT !.doc = h.doc] OBVIOUS
    <3>2. r.deleted = row.deleted BY <3>1 DEF Row
    <3> QED BY <2>1, <3>1, <3>2 DEF WriteRow
  <2>2. CASE h.op # "delete" /\ ~h.found
    <3>1. PICK r : r = [NoRow EXCEPT !.exists = TRUE, !.doc = h.doc] OBVIOUS
    <3>2. ~r.deleted BY <3>1 DEF NoRow
    <3> QED BY <2>2, <3>1, <3>2 DEF WriteRow
  <2> QED BY <2>1, <2>2
<1>2. ClaimRow(row).deleted => row.deleted BY DEF ClaimRow, Row
<1> QED BY <1>1, <1>2 DEF After

\* Nobody saves a thread again that has been deleted.
LEMMA GoneKept == ASSUME UNCHANGED <<version, local>> PROVE Gone' = Gone
BY DEF Gone, Deleted

LEMMA GoneStays ==
  ASSUME TypeInv, [Next]_vars PROVE Gone \subseteq Gone'
<1>1. ASSUME NEW t \in Thread, NEW by \in {"save", "sync"}, Save(t, by)
      PROVE  Gone \subseteq Gone'
  <2>1. \A s \in Thread : s # t => version'[s] = version[s] /\ local'[s] = local[s]
    BY <1>1, SaveDisk
  <2>2. t \notin Gone BY <1>1 DEF Save, Gone
  <2> QED BY <2>1, <2>2 DEF Gone, Deleted
<1>2. ASSUME NEW t \in Thread, Delete(t) PROVE Gone \subseteq Gone'
  <2>1. /\ version[t] > 0 /\ local'[t] = 0 /\ UNCHANGED version
        /\ \A s \in Thread : s # t => local'[s] = local[s]
    BY <1>2, DeleteDisk
  <2> QED BY <2>1 DEF Gone, Deleted
<1>3. \/ \E t \in Thread : (\E by \in {"save", "sync"} : Save(t, by)) \/ Delete(t)
      \/ UNCHANGED <<version, local>>
  BY DEF Next, vars, disk, SetVisibility, RetryPending, JobStep, RetryNext,
         RetryLoadFails, Serve,
         Returned, LoadQueue, StoreQueue, AnswerLost, StoreQueueFails, ServeOrphan,
         DropOrphan, Exit
<1> QED BY <1>1, <1>2, <1>3, GoneKept

\* It is enough to look at what changes.
LEMMA DeletesBy ==
  ASSUME TypeInv, DeleteInv, [Next]_vars,
         \A s \in Thread : rows'[s].deleted => rows[s].deleted \/ s \in Gone',
         pending' = pending \/ DeletesIn(pending', Gone'),
         \A i \in Job : jobs'[i] = jobs[i] \/ JobDeletes(jobs'[i], Gone'),
         \A o \in orphans' : o \in orphans \/ (o.h.op = "delete" => o.t \in Gone')
  PROVE  DeleteInv'
<1>1. Gone \subseteq Gone' BY GoneStays
<1>2. \A queue : DeletesIn(queue, Gone) => DeletesIn(queue, Gone') BY <1>1 DEF DeletesIn
<1>3. DeletesIn(pending', Gone') BY <1>2 DEF DeleteInv
<1>4. \A i \in Job : JobDeletes(jobs'[i], Gone') BY <1>1, <1>2 DEF DeleteInv, JobDeletes
<1>5. \A o \in orphans' : o.h.op = "delete" => o.t \in Gone' BY <1>1 DEF DeleteInv
<1>6. \A s \in Thread : rows'[s].deleted => s \in Gone' BY <1>1 DEF DeleteInv
<1> QED BY <1>3, <1>4, <1>5, <1>6 DEF DeleteInv, DeletesIn, JobDeletes

LEMMA DeletesRows ==
  ASSUME TypeInv, DeleteInv, [Next]_vars, NEW t \in Shared, NEW h \in Handler,
         h.op = "delete" => t \in Gone, rows' = [rows EXCEPT ![t] = After(h, @)]
  PROVE  \A s \in Thread : rows'[s].deleted => rows[s].deleted \/ s \in Gone'
<1>1. t \in Thread /\ rows[t] \in Row /\ Gone \subseteq Gone'
  BY GoneStays DEF Shared, TypeInv, RowsOK
<1>2. /\ rows'[t] = After(h, rows[t])
      /\ \A s \in Thread : s # t => rows'[s] = rows[s]
  BY RowsTyped DEF TypeInv
<1>3. rows'[t].deleted => rows[t].deleted \/ t \in Gone'
  BY <1>1, <1>2, StatementDeletes
<1> QED BY <1>2, <1>3

\* A slot that changes, with rows, queue and handlers as they were or right.
LEMMA DeletesSlot ==
  ASSUME TypeInv, DeleteInv, [Next]_vars, NEW i \in Job, NEW job,
         jobs' = [jobs EXCEPT ![i] = job], JobDeletes(job, Gone'),
         \A s \in Thread : rows'[s].deleted => rows[s].deleted \/ s \in Gone',
         pending' = pending \/ DeletesIn(pending', Gone'),
         \A o \in orphans' : o \in orphans \/ (o.h.op = "delete" => o.t \in Gone')
  PROVE  DeleteInv'
<1>1. \A j \in Job : jobs'[j] = IF j = i THEN job ELSE jobs[j] BY DEF TypeInv, JobsOK
<1> QED BY <1>1, DeletesBy

LEMMA DeletesCalls ==
  ASSUME TypeInv, DeleteInv, [Next]_vars, NEW t \in Thread,
         \/ \E by \in {"save", "sync"} : Save(t, by)
         \/ Delete(t)
         \/ SetVisibility(t)
  PROVE  DeleteInv'
<1>1. UNCHANGED <<rows, orphans, pending>> /\ Call
  BY DEF Save, Delete, SetVisibility, disk
<1>2. CASE UNCHANGED jobs BY <1>1, <1>2, DeletesBy
<1>3. NextSlot \in Job BY <1>1, SlotIsFree
<1>4. ASSUME NEW by \in {"save", "sync", "delete"}, NEW op \in SyncOperation,
             NEW doc \in Document, Spawn(by, t, NewHandler(op, doc, 0)), t \in Shared,
             op = "delete" => t \in Gone'
      PROVE  DeleteInv'
  <2>1. PICK h : /\ h = NewHandler(op, doc, 0)
                 /\ jobs' = [jobs EXCEPT ![NextSlot] =
                      [by |-> by, t |-> t, at |-> "served", tries |-> 0, h |-> h,
                       won |-> FALSE, queue |-> <<>>, todo |-> <<>>]]
    BY <1>1, <1>4, SpawnTyped
  <2>2. PICK job : job = [by |-> by, t |-> t, at |-> "served", tries |-> 0, h |-> h,
                          won |-> FALSE, queue |-> <<>>, todo |-> <<>>]
    OBVIOUS
  <2>3. h.op = op BY <2>1, NewHandlerOK DEF SyncOperation, Ops
  <2>4. job.h = h /\ job.t = t /\ job.todo = <<>> BY <2>2
  <2>5. JobDeletes(job, Gone') BY <1>4, <2>3, <2>4 DEF JobDeletes, DeletesIn
  <2> QED BY <1>1, <1>3, <2>1, <2>2, <2>5, DeletesSlot
<1>5. ASSUME NEW by \in {"save", "sync"}, Save(t, by) PROVE DeleteInv'
  <2>1. CASE t \in Private BY <1>2, <1>5, <2>1 DEF Save
  <2>2. CASE t \notin Private
    <3>1. PICK d : d = [body |-> version[t] + 1, version |-> version[t] + 1] OBVIOUS
    <3>2. d \in Document BY <3>1 DEF Document, TypeInv, DiskOK
    <3>3. Spawn(by, t, NewHandler("upsert", d, 0)) BY <1>5, <2>2, <3>1 DEF Save
    <3>4. "upsert" \in SyncOperation /\ t \in Shared BY <2>2 DEF SyncOperation, Shared
    <3> QED BY <1>4, <3>2, <3>3, <3>4
  <2> QED BY <2>1, <2>2
<1>6. CASE Delete(t)
  <2>1. CASE t \in Private BY <1>2, <1>6, <2>1 DEF Delete
  <2>2. CASE t \notin Private
    <3>1. Spawn("delete", t, NewHandler("delete", NoDocument, 0)) BY <1>6, <2>2 DEF Delete
    <3>2. "delete" \in SyncOperation /\ t \in Shared BY <2>2 DEF SyncOperation, Shared
    <3>3. t \in Gone' BY <1>6, DeleteDisk DEF Gone, Deleted
    <3> QED BY <1>4, <3>1, <3>2, <3>3, NoDocumentOK
  <2> QED BY <2>1, <2>2
<1>7. CASE SetVisibility(t)
  <2>1. PICK h, job : /\ h.op = "visibility"
                      /\ job = [by |-> "web", t |-> t, at |-> "served", tries |-> 0,
                                h |-> h, won |-> FALSE, queue |-> <<>>,
                                todo |-> <<>>]
                      /\ jobs' = [jobs EXCEPT ![NextSlot] = job]
    BY <1>7, VisibilityJob
  <2>2. JobDeletes(job, Gone') BY <2>1 DEF JobDeletes, DeletesIn
  <2> QED BY <1>1, <1>3, <2>1, <2>2, DeletesSlot
<1> QED BY <1>5, <1>6, <1>7

LEMMA DeletesTasks ==
  ASSUME TypeInv, QueueInv, DeleteInv, [Next]_vars, NEW i \in Job,
         JobStep(i) \/ AnswerLost(i) \/ RetryLoadFails(i) \/ StoreQueueFails(i)
  PROVE  DeleteInv'
<1>0. /\ JobOK(jobs[i]) /\ JobDeletes(jobs[i], Gone)
      /\ Gone' = Gone
  <2>1. UNCHANGED <<version, local>>
    BY DEF JobStep, RetryNext, RetryLoadFails, Serve, Returned, LoadQueue, StoreQueue,
           StoreQueueFails, AnswerLost, disk
  <2> QED BY <2>1, GoneKept DEF TypeInv, JobsOK, DeleteInv
<1>1. CASE RetryNext(i)
  <2>1. UNCHANGED <<rows, pending, orphans>> BY <1>1 DEF RetryNext, disk
  <2>2. PICK job, todo :
          /\ jobs' = [jobs EXCEPT ![i] = job] /\ todo \in Seq(SharedEntry)
          /\ \/ job = Free
             \/ /\ Len(todo) + 1 = Len(jobs[i].todo)
                /\ \A n \in 1..Len(todo) : todo[n] = jobs[i].todo[n + 1]
                /\ Between(job, todo) \/ \E h : RequestOf(job, jobs[i].todo[1], h, todo)
    BY <1>1, RetryNextJob
  <2>3. CASE job = Free
    <3>1. JobDeletes(job, Gone') BY <2>3, FreeOK DEF JobDeletes, DeletesIn
    <3> QED BY <2>1, <2>2, <3>1, DeletesSlot
  <2>4. CASE /\ Len(todo) + 1 = Len(jobs[i].todo)
             /\ \A n \in 1..Len(todo) : todo[n] = jobs[i].todo[n + 1]
             /\ Between(job, todo) \/ \E h : RequestOf(job, jobs[i].todo[1], h, todo)
    <3>1. Len(todo) \in Nat BY <2>2
    <3>2. \A n \in 1..Len(todo) : n + 1 \in 1..Len(jobs[i].todo) BY <2>4, <3>1
    <3>3. DeletesIn(todo, Gone') BY <1>0, <2>4, <3>2 DEF JobDeletes, DeletesIn
    <3>4. job.todo = todo /\ (job.h.op = "delete" => job.t \in Gone')
      <4>1. CASE Between(job, todo) BY <4>1, FreeOK DEF Between
      <4>2. CASE \E h : RequestOf(job, jobs[i].todo[1], h, todo)
        <5>1. PICK e : e = jobs[i].todo[1] OBVIOUS
        <5>2. job.todo = todo /\ job.t = e.t /\ job.h.op = e.op BY <4>2, <5>1 DEF RequestOf
        <5>3. 1 \in 1..Len(jobs[i].todo) BY <2>4, <3>1
        <5> QED BY <1>0, <5>1, <5>2, <5>3 DEF JobDeletes, DeletesIn
      <4> QED BY <2>4, <4>1, <4>2
    <3>5. JobDeletes(job, Gone') BY <3>3, <3>4 DEF JobDeletes
    <3> QED BY <2>1, <2>2, <3>5, DeletesSlot
  <2> QED BY <2>2, <2>3, <2>4
<1>2. ASSUME NEW job, jobs' = [jobs EXCEPT ![i] = job], job.t = jobs[i].t,
             job.h.op = jobs[i].h.op, job.todo = jobs[i].todo,
             UNCHANGED pending,
             \A s \in Thread : rows'[s].deleted => rows[s].deleted \/ s \in Gone',
             \A o \in orphans' : o \in orphans \/ (o.h.op = "delete" => o.t \in Gone')
      PROVE  DeleteInv'
  <2>1. JobDeletes(job, Gone') BY <1>0, <1>2 DEF JobDeletes
  <2> QED BY <1>2, <2>1, DeletesSlot
<1>3. CASE Serve(i)
  <2>1. PICK old : old = jobs[i] OBVIOUS
  <2>2. PICK t, h, g, job :
           /\ t = old.t /\ t \in Shared /\ h = old.h /\ HandlerOK(h) /\ g.op = h.op
           /\ rows' = [rows EXCEPT ![t] = After(h, @)]
           /\ jobs' = [jobs EXCEPT ![i] = job]
           /\ \/ job.t = t /\ job.h = g /\ job.todo = old.todo
              \/ job = Over(old, "ok")
              \/ job = Over(old, "err")
    BY <1>3, <2>1, ServeJob
  <2>3. job.t = old.t /\ job.h.op = old.h.op /\ job.todo = old.todo
    <3>1. \A outcome : /\ Over(old, outcome).t = old.t /\ Over(old, outcome).h.op = old.h.op
                       /\ Over(old, outcome).todo = old.todo
      BY <1>0, <2>1, OverFields DEF JobOK
    <3> QED BY <2>2, <3>1
  <2>4. h.op = "delete" => t \in Gone BY <1>0, <2>1, <2>2 DEF JobDeletes
  <2>5. \A s \in Thread : rows'[s].deleted => rows[s].deleted \/ s \in Gone'
    BY <2>2, <2>4, DeletesRows DEF HandlerOK
  <2>6. UNCHANGED <<orphans, pending>> BY <1>3 DEF Serve, disk
  <2> QED BY <1>2, <2>1, <2>2, <2>3, <2>5, <2>6
<1>4. CASE LoadQueue(i)
  <2>1. UNCHANGED <<rows, pending, orphans>> BY <1>4 DEF LoadQueue, disk
  <2>2. PICK job : /\ jobs' = [jobs EXCEPT ![i] = job] /\ job.t = jobs[i].t
                   /\ job.h.op = jobs[i].h.op /\ job.todo = jobs[i].todo
    BY <1>4, LoadedJob
  <2> QED BY <1>2, <2>1, <2>2
<1>5. CASE AnswerLost(i)
  <2>1. PICK retryable \in BOOLEAN :
          /\ jobs' = [jobs EXCEPT ![i] = Tried(jobs[i], retryable)]
          /\ \/ UNCHANGED orphans
             \/ orphans' = orphans \cup {Orphan(jobs[i].t, jobs[i].h)}
    BY <1>5 DEF AnswerLost, Orphan
  <2>2. jobs[i].at = "served" /\ UNCHANGED <<rows, pending>> BY <1>5 DEF AnswerLost, disk
  <2>3. PICK old, job : old = jobs[i] /\ job = Tried(old, retryable) OBVIOUS
  <2>4. job.t = old.t /\ job.h.op = old.h.op /\ job.todo = old.todo
    <3>0. old \in JobType /\ HandlerOK(old.h) BY <1>0, <2>3 DEF JobOK
    <3>1. CASE job = Over(old, "err") BY <3>0, <3>1, OverFields
    <3>2. CASE job # Over(old, "err")
      <4>1. PICK h : h = NewHandler(old.h.op, old.h.doc, old.h.expect) OBVIOUS
      <4>2. job.t = old.t /\ job.h = h /\ job.todo = old.todo
        BY <1>0, <2>2, <2>3, <3>2, <4>1, TriedFields
      <4>3. h.op = old.h.op BY <3>0, <4>1, NewHandlerOK DEF HandlerOK, Handler
      <4> QED BY <4>2, <4>3
    <3> QED BY <3>1, <3>2
  <2>5. \A o \in orphans' : o \in orphans \/ (o.h.op = "delete" => o.t \in Gone')
    BY <1>0, <2>1 DEF Orphan, JobDeletes
  <2> QED BY <1>2, <2>1, <2>2, <2>3, <2>4, <2>5
<1>6. CASE Returned(i) \/ StoreQueue(i) \/ StoreQueueFails(i)
  <2>1. /\ jobs' = [jobs EXCEPT ![i] = Rest(jobs[i])] /\ UNCHANGED <<rows, orphans>>
    BY <1>6 DEF Returned, StoreQueue, StoreQueueFails
  <2>2. JobDeletes(Rest(jobs[i]), Gone')
    BY <1>0, RestFields, FreeOK DEF JobDeletes, DeletesIn
  <2>3. CASE Returned(i)
    <3>1. UNCHANGED pending BY <2>3 DEF Returned, disk
    <3> QED BY <2>1, <2>2, <3>1, DeletesSlot
  <2>4. CASE StoreQueue(i) \/ StoreQueueFails(i)
    <3>1. PICK e : e = EntryOf(jobs[i]) OBVIOUS
    <3>2. /\ jobs[i].at = "noting" /\ e \in SharedEntry /\ e.t = jobs[i].t
          /\ e.op = jobs[i].h.op
      BY <2>4, <3>1, EntryOK DEF StoreQueue, StoreQueueFails
    <3>3. /\ jobs[i].queue = pending /\ pending \in Seq(SharedEntry) /\ Distinct(pending)
      BY <3>2 DEF QueueInv, LoadedQueueIsCurrent, TypeInv, QueueOK
    <3>4. pending' \in {remove(pending, e), add(pending, e), pending, <<e>>}
      BY <2>4, <3>1, <3>3 DEF StoreQueue, StoreQueueFails
    <3>5. e.op = "delete" => e.t \in Gone' BY <1>0, <3>2 DEF JobDeletes
    <3>6. \A x : Contains(pending, x) /\ x.op = "delete" => x.t \in Gone'
      BY <1>0 DEF DeleteInv, DeletesIn, Contains
    <3>7. \A x : Contains(pending', x) => Contains(pending, x) \/ x = e
      <4>1. \A x : Contains(add(pending, e), x) => Contains(pending, x) \/ x = e
        BY <3>2, <3>3, AddOK
      <4>2. \A x : Contains(remove(pending, e), x) => Contains(pending, x)
        BY <3>3, RemoveOK
      <4>3. \A x : Contains(<<e>>, x) => x = e BY DEF Contains
      <4> QED BY <3>4, <4>1, <4>2, <4>3
    <3>8. \A n \in 1..Len(pending') : Contains(pending', pending'[n]) BY DEF Contains
    <3>9. DeletesIn(pending', Gone') BY <3>5, <3>6, <3>7, <3>8 DEF DeletesIn
    <3> QED BY <2>1, <2>2, <3>9, DeletesSlot
  <2> QED BY <1>6, <2>3, <2>4
<1>7. CASE RetryLoadFails(i)
  <2>1. UNCHANGED <<rows, pending, orphans>> /\ jobs' = [jobs EXCEPT ![i] = Free]
    BY <1>7 DEF RetryLoadFails, disk
  <2>2. JobDeletes(Free, Gone') BY FreeOK DEF JobDeletes, DeletesIn
  <2> QED BY <2>1, <2>2, DeletesSlot
<1> QED BY <1>1, <1>3, <1>4, <1>5, <1>6, <1>7 DEF JobStep

LEMMA DeletesStep ==
  ASSUME TypeInv, QueueInv, DeleteInv, [Next]_vars PROVE DeleteInv'
<1>1. CASE UNCHANGED vars BY <1>1, DeletesBy DEF vars
<1>2. ASSUME NEW t \in Thread,
             (\E by \in {"save", "sync"} : Save(t, by)) \/ Delete(t) \/ SetVisibility(t)
      PROVE  DeleteInv'
  BY <1>2, DeletesCalls
<1>3. CASE RetryPending
  <2>1. UNCHANGED <<rows, pending, orphans, version, local>> /\ Call
    BY <1>3 DEF RetryPending, disk
  <2>2. PICK job : /\ job = [Free EXCEPT !.by = "retry", !.at = "next", !.todo = pending]
                   /\ jobs' = [jobs EXCEPT ![NextSlot] = job]
    BY <1>3 DEF RetryPending
  <2>3. job.h = Free.h /\ job.todo = pending BY <2>2 DEF Free
  <2>4. JobDeletes(job, Gone')
    BY <2>1, <2>3, FreeOK, GoneKept DEF JobDeletes, DeleteInv
  <2>5. NextSlot \in Job BY <2>1, SlotIsFree
  <2> QED BY <2>1, <2>2, <2>4, <2>5, DeletesSlot
<1>4. ASSUME NEW i \in Job, JobStep(i) \/ AnswerLost(i) \/ RetryLoadFails(i) \/ StoreQueueFails(i)
      PROVE  DeleteInv'
  BY <1>4, DeletesTasks
<1>5. ASSUME NEW o \in orphans, ServeOrphan(o) PROVE DeleteInv'
  <2>1. UNCHANGED <<jobs, pending, version, local>> BY <1>5 DEF ServeOrphan, disk
  <2>2. Gone' = Gone BY <2>1, GoneKept
  <2>3. PICK t, h, g :
          /\ t = o.t /\ t \in Shared /\ h = o.h /\ HandlerOK(h) /\ g.op = h.op
          /\ rows' = [rows EXCEPT ![t] = After(h, @)]
          /\ \/ orphans' = orphans \ {o}
             \/ orphans' = (orphans \ {o}) \cup {Orphan(t, g)}
    BY <1>5, OrphanStep
  <2>4. h.op = "delete" => t \in Gone BY <2>3 DEF DeleteInv
  <2>5. \A s \in Thread : rows'[s].deleted => rows[s].deleted \/ s \in Gone'
    BY <2>3, <2>4, DeletesRows DEF HandlerOK
  <2>6. Orphan(t, g).h = g /\ Orphan(t, g).t = t BY DEF Orphan
  <2>7. \A x \in orphans' : x \in orphans \/ (x.h.op = "delete" => x.t \in Gone')
    BY <2>2, <2>3, <2>4, <2>6
  <2> QED BY <2>1, <2>5, <2>7, DeletesBy
<1>6. ASSUME NEW o \in orphans, DropOrphan(o) PROVE DeleteInv'
  <2>1. UNCHANGED <<jobs, pending, rows>> /\ orphans' \subseteq orphans
    BY <1>6 DEF DropOrphan, disk
  <2> QED BY <2>1, DeletesBy
<1>7. CASE Exit
  <2>1. /\ UNCHANGED <<rows, pending, version, local>>
        /\ \A j \in Job : jobs'[j] = jobs[j] \/ jobs'[j] = Free
    BY <1>7 DEF Exit, disk
  <2>2. PICK on : /\ on \subseteq Job
                  /\ orphans' = orphans \cup {Orphan(jobs[i].t, jobs[i].h) : i \in on}
    BY <1>7 DEF Exit, Orphan
  <2>3. \A i \in Job : jobs[i].h.op = "delete" => jobs[i].t \in Gone'
    BY <2>1, GoneKept DEF DeleteInv, JobDeletes
  <2>4. \A i \in Job : /\ Orphan(jobs[i].t, jobs[i].h).h = jobs[i].h
                       /\ Orphan(jobs[i].t, jobs[i].h).t = jobs[i].t
    BY DEF Orphan
  <2>5. \A o \in orphans' : o \in orphans \/ (o.h.op = "delete" => o.t \in Gone')
    BY <2>2, <2>3, <2>4
  <2>6. JobDeletes(Free, Gone') BY FreeOK DEF JobDeletes, DeletesIn
  <2> QED BY <2>1, <2>5, <2>6, DeletesBy
<1> QED BY <1>1, <1>2, <1>3, <1>4, <1>5, <1>6, <1>7 DEF Next

------------------------------------------------------------------------------
(* Threads whose newest operation is undisturbed                            *)

\* The server has done what is asked about a thread, or the queue says so.
DoneAt(t) == Done(Wanted(t), local[t], rows[t])
Noted(t) == Contains(pending, Entry(t, Wanted(t))) \/ version[t] = 0
Synced(t) == DoneAt(t) \/ Noted(t)

LEMMA NotedKept ==
  ASSUME NEW t, version'[t] = version[t], local'[t] = local[t], UNCHANGED pending
  PROVE  Noted(t)' <=> Noted(t)
BY DEF Noted, Wanted, Gone, Deleted

\* A task does what is asked of the server; when the request has succeeded,
\* the server has done it.
JobSettles(job, want, body, row) ==
  /\ job.by = "web" => (job.at = "served" => Shows(job.h, row))
  /\ job.by # "web" =>
       /\ job.h.op = want
       /\ job.at = "served" => Serves(job.h, want, body, row)
       /\ job.at = "ok" \/ (job.at = "noting" /\ job.won) => Done(want, body, row)

\* The web interface is at a thread alone.
Alone(i, t) ==
  (\A j \in Job : jobs[j].t = t => j = i) /\ \A o \in orphans : o.t # t

\* All tasks and handlers at the thread, those of retry_pending too, ask for
\* the same, unless it is the web interface alone; and the thread is synced or
\* the task of its newest operation has yet to succeed or to note its failure.
ThreadSettles(t) ==
  /\ \A i \in Job : jobs[i].t = t => JobSettles(jobs[i], Wanted(t), local[t], rows[t])
  /\ \A o \in orphans : o.t = t => Serves(o.h, Wanted(t), local[t], rows[t])
  /\ \A i \in Job : jobs[i].t = t /\ jobs[i].by = "web" => Alone(i, t)
  /\ Synced(t) \/ \E i \in Job : jobs[i].t = t /\ Answers(jobs[i])

SettleInv == \A t \in Shared : t \in disturbed \/ ThreadSettles(t)

LEMMA SettlesBy ==
  ASSUME NEW t \in Shared,
         \A i \in Job : jobs'[i].t = t => JobSettles(jobs'[i], Wanted(t)', local'[t], rows'[t]),
         \A o \in orphans' : o.t = t => Serves(o.h, Wanted(t)', local'[t], rows'[t]),
         \A i \in Job : jobs'[i].t = t /\ jobs'[i].by = "web" =>
           (\A j \in Job : jobs'[j].t = t => j = i) /\ \A o \in orphans' : o.t # t,
         Synced(t)' \/ \E i \in Job : jobs'[i].t = t /\ Answers(jobs'[i])
  PROVE  ThreadSettles(t)'
BY DEF ThreadSettles, Alone, JobSettles, Serves, Done, Shows, Answers

\* A step that is not about the thread.
LEMMA Elsewhere ==
  ASSUME NEW t \in Shared, ThreadSettles(t),
         rows'[t] = rows[t], local'[t] = local[t], version'[t] = version[t],
         Noted(t) => Noted(t)',
         \A i \in Job : jobs[i].t = t \/ jobs'[i].t = t => jobs'[i] = jobs[i],
         \A o \in orphans' : o.t = t => o \in orphans
  PROVE  ThreadSettles(t)'
<1>1. Wanted(t)' = Wanted(t) BY DEF Wanted, Gone, Deleted
<1>2. Synced(t) => Synced(t)' BY <1>1 DEF Synced, DoneAt
<1>3. \A i \in Job : jobs'[i].t = t => jobs[i].t = t /\ jobs'[i] = jobs[i] OBVIOUS
<1>4. \A i \in Job : jobs'[i].t = t =>
        JobSettles(jobs'[i], Wanted(t)', local'[t], rows'[t])
  BY <1>1, <1>3 DEF ThreadSettles
<1>5. \A o \in orphans' : o.t = t => Serves(o.h, Wanted(t)', local'[t], rows'[t])
  BY <1>1 DEF ThreadSettles
<1>6. \A i \in Job : jobs'[i].t = t /\ jobs'[i].by = "web" =>
        (\A j \in Job : jobs'[j].t = t => j = i) /\ \A o \in orphans' : o.t # t
  BY <1>3 DEF ThreadSettles, Alone
<1>7. Synced(t)' \/ \E i \in Job : jobs'[i].t = t /\ Answers(jobs'[i])
  BY <1>2 DEF ThreadSettles
<1> QED BY <1>4, <1>5, <1>6, <1>7, SettlesBy

\* A step of one task at the thread, which is not the web interface: it leaves,
\* or does what is asked, and what the others do stays right.
LEMMA TaskSettles ==
  ASSUME TypeInv, NEW t \in Shared, ThreadSettles(t), NEW i \in Job, NEW job,
         jobs' = [jobs EXCEPT ![i] = job], jobs[i].t = t, jobs[i].by # "web",
         job.t = t => job.by # "web" /\ JobSettles(job, Wanted(t)', local'[t], rows'[t]),
         Wanted(t)' = Wanted(t),
         \A x : Serves(x, Wanted(t), local[t], rows[t])
                  => Serves(x, Wanted(t)', local'[t], rows'[t]),
         Done(Wanted(t), local[t], rows[t]) => Done(Wanted(t)', local'[t], rows'[t]),
         \A o \in orphans' : o.t = t => Serves(o.h, Wanted(t)', local'[t], rows'[t]),
         Synced(t) => Synced(t)',
         Answers(jobs[i]) => Synced(t)' \/ (job.t = t /\ Answers(job))
  PROVE  ThreadSettles(t)'
<1>1. \A j \in Job : jobs'[j] = IF j = i THEN job ELSE jobs[j] BY DEF TypeInv, JobsOK
<1>2. \A j \in Job : jobs[j].t = t =>
        jobs[j].by # "web" /\ JobSettles(jobs[j], Wanted(t), local[t], rows[t])
  BY DEF ThreadSettles, Alone
<1>3. \A j \in Job : jobs[j].t = t =>
        JobSettles(jobs[j], Wanted(t)', local'[t], rows'[t])
  BY <1>2 DEF JobSettles
<1>4. \A j \in Job : jobs'[j].t = t =>
        jobs'[j].by # "web" /\ JobSettles(jobs'[j], Wanted(t)', local'[t], rows'[t])
  BY <1>1, <1>2, <1>3
<1>5. Synced(t)' \/ \E j \in Job : jobs'[j].t = t /\ Answers(jobs'[j])
  <2>1. CASE Synced(t) BY <2>1
  <2>2. CASE ~Synced(t)
    <3>1. PICK j \in Job : jobs[j].t = t /\ Answers(jobs[j]) BY <2>2 DEF ThreadSettles
    <3>2. CASE j = i
      <4>1. Synced(t)' \/ (job.t = t /\ Answers(job)) BY <3>1, <3>2
      <4>2. jobs'[i] = job BY <1>1
      <4> QED BY <4>1, <4>2
    <3>3. CASE j # i
      <4>1. jobs'[j] = jobs[j] BY <1>1, <3>3
      <4> QED BY <3>1, <4>1
    <3> QED BY <3>2, <3>3
  <2> QED BY <2>1, <2>2
<1> QED BY <1>4, <1>5, SettlesBy

\* A step of the web interface.
LEMMA WebSettles ==
  ASSUME TypeInv, NEW t \in Shared, ThreadSettles(t), NEW i \in Job, NEW job,
         jobs' = [jobs EXCEPT ![i] = job], jobs[i].t = t, jobs[i].by = "web",
         job.t = t => JobSettles(job, Wanted(t)', local'[t], rows'[t]),
         UNCHANGED orphans, Synced(t) => Synced(t)'
  PROVE  ThreadSettles(t)'
<1>1. \A j \in Job : jobs'[j] = IF j = i THEN job ELSE jobs[j] BY DEF TypeInv, JobsOK
<1>2. (\A j \in Job : jobs[j].t = t => j = i) /\ \A o \in orphans : o.t # t
  BY DEF ThreadSettles, Alone
<1>3. Synced(t)' BY <1>2 DEF ThreadSettles, Answers
<1>4. \A j \in Job : jobs'[j].t = t => j = i /\ jobs'[j] = job BY <1>1, <1>2
<1> QED BY <1>2, <1>3, <1>4, SettlesBy

\* A task begins at the thread: the web interface where nobody is, or
\* retry_pending where the web interface is not.
LEMMA JoinSettles ==
  ASSUME TypeInv, NEW t \in Shared, ThreadSettles(t), NEW i \in Job, NEW job,
         jobs' = [jobs EXCEPT ![i] = job], jobs[i].t # t, job.t = t,
         JobSettles(job, Wanted(t), local[t], rows[t]),
         IF job.by = "web" THEN ~Busy(t) ELSE ~WebAt(t),
         UNCHANGED <<version, local, pending, rows, orphans>>
  PROVE  ThreadSettles(t)'
<1>1. \A j \in Job : jobs'[j] = IF j = i THEN job ELSE jobs[j] BY DEF TypeInv, JobsOK
<1>2. Wanted(t)' = Wanted(t) BY DEF Wanted, Gone, Deleted
<1>3. Synced(t) => Synced(t)' BY <1>2, NotedKept DEF Synced, DoneAt
<1>4. \A j \in Job : jobs'[j].t = t => JobSettles(jobs'[j], Wanted(t)', local'[t], rows'[t])
  BY <1>1, <1>2 DEF ThreadSettles
<1>5. \A o \in orphans' : o.t = t => Serves(o.h, Wanted(t)', local'[t], rows'[t])
  BY <1>2 DEF ThreadSettles
<1>6. \A j \in Job : jobs'[j].t = t /\ jobs'[j].by = "web" =>
        (\A k \in Job : jobs'[k].t = t => k = j) /\ \A o \in orphans' : o.t # t
  BY <1>1 DEF Busy, WebAt
<1>7. Synced(t)' \/ \E j \in Job : jobs'[j].t = t /\ Answers(jobs'[j])
  <2>1. CASE Synced(t) BY <1>3, <2>1
  <2>2. CASE ~Synced(t)
    <3>1. PICK j \in Job : jobs[j].t = t /\ Answers(jobs[j]) BY <2>2 DEF ThreadSettles
    <3>2. jobs'[j] = jobs[j] BY <1>1, <3>1
    <3> QED BY <3>1, <3>2
  <2> QED BY <2>1, <2>2
<1> QED BY <1>4, <1>5, <1>6, <1>7, SettlesBy

\* A thread nobody is at.
LEMMA IdleIsSynced ==
  ASSUME NEW t \in Shared, ThreadSettles(t), ~Busy(t)
  PROVE  Synced(t)
BY DEF ThreadSettles, Busy

\* A step of one slot that is not about the thread.
LEMMA SlotElsewhere ==
  ASSUME TypeInv, NEW t \in Shared, ThreadSettles(t), NEW i \in Job, NEW job,
         jobs' = [jobs EXCEPT ![i] = job], jobs[i].t # t, job.t # t,
         version'[t] = version[t], local'[t] = local[t], rows'[t] = rows[t],
         Noted(t) => Noted(t)', \A o \in orphans' : o.t = t => o \in orphans
  PROVE  ThreadSettles(t)'
<1>1. \A j \in Job : jobs'[j] = IF j = i THEN job ELSE jobs[j] BY DEF TypeInv, JobsOK
<1>2. \A j \in Job : jobs[j].t = t \/ jobs'[j].t = t => jobs'[j] = jobs[j] BY <1>1
<1> QED BY <1>2, Elsewhere

\* A save or a delete that finds nobody at the thread begins anew; the task
\* asks for what is wanted now.
LEMMA SpawnSettles ==
  ASSUME TypeInv, Call, NEW by \in {"save", "sync", "delete"}, NEW s \in Shared,
         NEW op \in SyncOperation, NEW doc \in Document,
         Spawn(by, s, NewHandler(op, doc, 0)),
         op = Wanted(s)', op = "upsert" => doc.body = local'[s],
         UNCHANGED orphans, s \notin disturbed'
  PROVE  ThreadSettles(s)'
<1>1. ~Busy(s) BY DEF Spawn
<1>2. PICK h : /\ h = NewHandler(op, doc, 0)
               /\ jobs' = [jobs EXCEPT ![NextSlot] =
                    [by |-> by, t |-> s, at |-> "served", tries |-> 0, h |-> h,
                     won |-> FALSE, queue |-> <<>>, todo |-> <<>>]]
  BY SpawnTyped
<1>3. PICK job : job = [by |-> by, t |-> s, at |-> "served", tries |-> 0, h |-> h,
                        won |-> FALSE, queue |-> <<>>, todo |-> <<>>]
  OBVIOUS
<1>4. job.by = by /\ job.t = s /\ job.at = "served" /\ job.h = h BY <1>3
<1>5. h.op = op /\ h.doc = doc /\ h.at = "owner"
  BY <1>2, NewHandlerOK DEF SyncOperation, Ops
<1>6. NextSlot \in Job BY SlotIsFree
<1>7. \A j \in Job : jobs'[j] = IF j = NextSlot THEN job ELSE jobs[j]
  BY <1>2, <1>3, <1>6 DEF TypeInv, JobsOK
<1>8. job = jobs'[NextSlot] /\ \A j \in Job : j # NextSlot => jobs'[j].t # s
  BY <1>1, <1>6, <1>7 DEF Busy
<1>9. Serves(h, Wanted(s)', local'[s], rows'[s]) BY <1>5 DEF Serves
<1>10. JobSettles(job, Wanted(s)', local'[s], rows'[s]) /\ job.by # "web" /\ Answers(job)
  BY <1>4, <1>5, <1>9 DEF JobSettles, Answers
<1>11. \A o \in orphans' : o.t # s BY <1>1 DEF Busy
<1>12. \A j \in Job : jobs'[j].t = s => jobs'[j] = job BY <1>8
<1>13. \E j \in Job : jobs'[j].t = s /\ Answers(jobs'[j]) BY <1>4, <1>6, <1>8, <1>10
<1> QED BY <1>10, <1>11, <1>12, <1>13, SettlesBy

\* A call takes a slot that is at no thread.
LEMMA CallElsewhere ==
  ASSUME TypeInv, Call, NEW t \in Shared, ThreadSettles(t), NEW job,
         jobs' = [jobs EXCEPT ![NextSlot] = job], job.t # t,
         version'[t] = version[t], local'[t] = local[t],
         UNCHANGED <<pending, rows, orphans>>
  PROVE  ThreadSettles(t)'
<1>1. PICK i : i = NextSlot /\ i \in Job /\ jobs[i].at = "free" BY SlotIsFree
<1>2. jobs[i].t = NoThread BY <1>1 DEF TypeInv, JobsOK, JobOK
<1>3. jobs[i].t # t BY <1>2, ThreadSyncAssumption DEF Shared, NoThread
<1>4. Noted(t) => Noted(t)' BY NotedKept
<1> QED BY <1>1, <1>3, <1>4, SlotElsewhere

LEMMA SpawnElsewhere ==
  ASSUME TypeInv, Call, NEW by \in {"save", "sync", "delete"}, NEW s \in Shared,
         NEW op \in SyncOperation, NEW doc \in Document,
         Spawn(by, s, NewHandler(op, doc, 0)),
         NEW t \in Shared, t # s, ThreadSettles(t),
         version'[t] = version[t], local'[t] = local[t],
         UNCHANGED <<pending, rows, orphans>>
  PROVE  ThreadSettles(t)'
<1>1. PICK h : jobs' = [jobs EXCEPT ![NextSlot] =
                    [by |-> by, t |-> s, at |-> "served", tries |-> 0, h |-> h,
                     won |-> FALSE, queue |-> <<>>, todo |-> <<>>]]
  BY SpawnTyped
<1>2. PICK job : job = [by |-> by, t |-> s, at |-> "served", tries |-> 0, h |-> h,
                        won |-> FALSE, queue |-> <<>>, todo |-> <<>>]
  OBVIOUS
<1>3. job.t # t /\ jobs' = [jobs EXCEPT ![NextSlot] = job] BY <1>1, <1>2
<1> QED BY <1>3, CallElsewhere

LEMMA SaveSettles ==
  ASSUME TypeInv, SettleInv, NEW s \in Thread, NEW by \in {"save", "sync"}, Save(s, by)
  PROVE  SettleInv'
<1>1. /\ Call /\ UNCHANGED <<pending, rows, orphans>>
      /\ version'[s] > 0 /\ local'[s] = version'[s]
      /\ \A r \in Thread : r # s => version'[r] = version[r] /\ local'[r] = local[r]
  BY SaveDisk DEF Save
<1>2. SUFFICES ASSUME NEW t \in Shared, t \notin disturbed' PROVE ThreadSettles(t)'
  BY DEF SettleInv
<1>3. t \in Thread BY DEF Shared
<1>4. CASE s \in Private
  <2>1. UNCHANGED <<jobs, disturbed>> BY <1>4 DEF Save
  <2>2. t # s /\ ThreadSettles(t) BY <1>2, <1>4, <2>1 DEF Shared, SettleInv
  <2>3. Noted(t) => Noted(t)' BY <1>1, <1>3, <2>2, NotedKept
  <2> QED BY <1>1, <1>3, <2>1, <2>2, <2>3, Elsewhere
<1>5. CASE s \notin Private
  <2>1. PICK doc : doc = [body |-> version[s] + 1, version |-> version[s] + 1] OBVIOUS
  <2>2. Spawn(by, s, NewHandler("upsert", doc, 0)) BY <1>5, <2>1 DEF Save
  <2>3. local'[s] = version[s] + 1 /\ version[s] \in Nat
    BY DEF Save, TypeInv, DiskOK
  <2>4. doc \in Document /\ doc.body = local'[s] BY <2>1, <2>3 DEF Document
  <2>5. s \in Shared /\ "upsert" \in SyncOperation /\ by \in {"save", "sync", "delete"}
    BY <1>5 DEF Shared, SyncOperation
  <2>6. CASE t = s
    <3>1. local'[s] # 0 BY <2>3
    <3>2. "upsert" = Wanted(s)' BY <3>1 DEF Wanted, Gone, Deleted
    <3> QED BY <1>1, <1>2, <2>2, <2>4, <2>5, <2>6, <3>2, SpawnSettles
  <2>7. CASE t # s
    <3>1. ThreadSettles(t) BY <1>2, <2>2, <2>7 DEF SettleInv, Spawn
    <3> QED BY <1>1, <1>3, <2>2, <2>4, <2>5, <2>7, <3>1, SpawnElsewhere
  <2> QED BY <2>6, <2>7
<1> QED BY <1>4, <1>5

LEMMA DeleteSettles ==
  ASSUME TypeInv, SettleInv, NEW s \in Thread, Delete(s)
  PROVE  SettleInv'
<1>1. /\ Call /\ UNCHANGED <<pending, rows, orphans>>
      /\ s \in Gone' /\ UNCHANGED version
      /\ \A r \in Thread : r # s => local'[r] = local[r]
  BY DeleteDisk DEF Delete, Gone, Deleted
<1>2. SUFFICES ASSUME NEW t \in Shared, t \notin disturbed' PROVE ThreadSettles(t)'
  BY DEF SettleInv
<1>3. t \in Thread BY DEF Shared
<1>4. CASE s \in Private
  <2>1. UNCHANGED <<jobs, disturbed>> BY <1>4 DEF Delete
  <2>2. t # s /\ ThreadSettles(t) BY <1>2, <1>4, <2>1 DEF Shared, SettleInv
  <2>3. Noted(t) => Noted(t)' BY <1>1, <1>3, <2>2, NotedKept
  <2> QED BY <1>1, <1>3, <2>1, <2>2, <2>3, Elsewhere
<1>5. CASE s \notin Private
  <2>1. Spawn("delete", s, NewHandler("delete", NoDocument, 0)) BY <1>5 DEF Delete
  <2>2. s \in Shared /\ "delete" \in SyncOperation BY <1>5 DEF Shared, SyncOperation
  <2>3. CASE t = s
    <3>1. "delete" = Wanted(s)' BY <1>1 DEF Wanted
    <3> QED BY <1>1, <1>2, <2>1, <2>2, <2>3, <3>1, NoDocumentOK, SpawnSettles
  <2>4. CASE t # s
    <3>1. ThreadSettles(t) BY <1>2, <2>1, <2>4 DEF SettleInv, Spawn
    <3> QED BY <1>1, <1>3, <2>1, <2>2, <2>4, <3>1, NoDocumentOK, SpawnElsewhere
  <2> QED BY <2>3, <2>4
<1> QED BY <1>4, <1>5

LEMMA VisibilitySettles ==
  ASSUME TypeInv, SettleInv, NEW s \in Thread, SetVisibility(s)
  PROVE  SettleInv'
<1>1. /\ Call /\ UNCHANGED <<version, local, pending, rows, orphans>>
      /\ disturbed' = IF Busy(s) THEN disturbed \cup {s} ELSE disturbed
  BY DEF SetVisibility, disk
<1>2. SUFFICES ASSUME NEW t \in Shared, t \notin disturbed' PROVE ThreadSettles(t)'
  BY DEF SettleInv
<1>3. ThreadSettles(t) BY <1>1, <1>2 DEF SettleInv
<1>4. PICK h, job : /\ s \in Shared /\ h.at = "owner"
                    /\ job = [by |-> "web", t |-> s, at |-> "served", tries |-> 0,
                              h |-> h, won |-> FALSE, queue |-> <<>>, todo |-> <<>>]
                    /\ jobs' = [jobs EXCEPT ![NextSlot] = job]
  BY VisibilityJob
<1>5. job.by = "web" /\ job.t = s /\ job.at = "served" /\ job.h = h BY <1>4
<1>6. CASE t = s
  <2>1. ~Busy(t) BY <1>1, <1>2, <1>6
  <2>2. PICK i : i \in Job /\ jobs' = [jobs EXCEPT ![i] = job] BY <1>1, <1>4, SlotIsFree
  <2>3. jobs[i].t # t BY <2>1, <2>2 DEF Busy
  <2>4. JobSettles(job, Wanted(t), local[t], rows[t])
    BY <1>4, <1>5 DEF JobSettles, Shows
  <2> QED BY <1>1, <1>3, <1>5, <1>6, <2>1, <2>2, <2>3, <2>4, JoinSettles
<1>7. CASE t # s BY <1>1, <1>3, <1>4, <1>5, <1>7, CallElsewhere
<1> QED BY <1>6, <1>7

LEMMA RetryPendingSettles ==
  ASSUME TypeInv, SettleInv, RetryPending PROVE SettleInv'
<1>1. Call /\ UNCHANGED <<version, local, pending, rows, orphans, disturbed>>
  BY DEF RetryPending, disk
<1>2. PICK job : /\ job = [Free EXCEPT !.by = "retry", !.at = "next", !.todo = pending]
                 /\ jobs' = [jobs EXCEPT ![NextSlot] = job]
  BY DEF RetryPending
<1>3. job.t = NoThread BY <1>2 DEF Free
<1>4. \A t \in Shared : job.t # t BY <1>3, ThreadSyncAssumption DEF Shared, NoThread
<1>5. ASSUME NEW t \in Shared, t \notin disturbed' PROVE ThreadSettles(t)'
  <2>1. ThreadSettles(t) BY <1>1, <1>5 DEF SettleInv
  <2> QED BY <1>1, <1>2, <1>4, <2>1, CallElsewhere
<1> QED BY <1>5 DEF SettleInv

LEMMA RetryNextSettles ==
  ASSUME TypeInv, DeleteInv, SettleInv, NEW i \in Job, RetryNext(i) PROVE SettleInv'
<1>1. UNCHANGED <<version, local, pending, rows, orphans>> BY DEF RetryNext, disk
<1>2. PICK job, todo :
        /\ jobs' = [jobs EXCEPT ![i] = job] /\ jobs[i].at = "next"
        /\ todo \in Seq(SharedEntry)
        /\ \/ job = Free /\ UNCHANGED disturbed
           \/ Between(job, todo) /\ UNCHANGED disturbed
           \/ /\ Len(todo) + 1 = Len(jobs[i].todo)
              /\ \E h : RequestOf(job, jobs[i].todo[1], h, todo)
  BY RetryNextJob
<1>3. SUFFICES ASSUME NEW t \in Shared, t \notin disturbed' PROVE ThreadSettles(t)'
  BY DEF SettleInv
<1>4. t # NoThread /\ jobs[i].t # t
  <2>1. jobs[i].t = NoThread BY <1>2 DEF TypeInv, JobsOK, JobOK
  <2> QED BY <2>1, ThreadSyncAssumption DEF Shared, NoThread
<1>5. ASSUME ThreadSettles(t), job.t # t PROVE ThreadSettles(t)'
  <2>1. Noted(t) => Noted(t)' BY <1>1, NotedKept
  <2> QED BY <1>1, <1>2, <1>4, <1>5, <2>1, SlotElsewhere
<1>6. CASE (job = Free \/ Between(job, todo)) /\ UNCHANGED disturbed
  <2>1. job.t = NoThread BY <1>6, FreeOK DEF Between
  <2> QED BY <1>3, <1>4, <1>5, <1>6, <2>1 DEF SettleInv
<1>7. CASE /\ Len(todo) + 1 = Len(jobs[i].todo)
           /\ \E h : RequestOf(job, jobs[i].todo[1], h, todo)
  <2>1. PICK e, h : e = jobs[i].todo[1] /\ RequestOf(job, e, h, todo) BY <1>7
  <2>2. PICK s : s = e.t /\ s \in Shared /\ s \in Thread
    BY <2>1 DEF RequestOf, SharedEntry, Shared
  <2>3. job.by = "retry" /\ job.t = s /\ job.at = "served" /\ job.h = h
    BY <2>1, <2>2 DEF RequestOf
  <2>4. /\ h.op = e.op /\ h.op \in {"upsert", "delete"} /\ h.at = "owner"
        /\ e.op = "upsert" => local[s] # 0 /\ h.doc.body = local[s]
        /\ disturbed' = IF WebAt(s) THEN disturbed \cup {s} ELSE disturbed
    BY <2>1, <2>2 DEF RequestOf, SharedEntry, SyncOperation
  <2>5. ThreadSettles(t) BY <1>3, <2>4 DEF SettleInv
  <2>6. CASE t = s
    <3>1. ~WebAt(s) BY <1>3, <2>4, <2>6
    <3>2. h.op = Wanted(s)
      <4>1. 1 \in 1..Len(jobs[i].todo) BY <1>2, <1>7
      <4>2. h.op = "delete" => s \in Gone
        BY <2>1, <2>2, <2>4, <4>1 DEF DeleteInv, JobDeletes, DeletesIn
      <4>3. h.op = "upsert" => s \notin Gone BY <2>4 DEF Gone, Deleted
      <4> QED BY <2>4, <4>2, <4>3 DEF Wanted
    <3>3. JobSettles(job, Wanted(t), local[t], rows[t])
      BY <2>3, <2>4, <2>6, <3>2 DEF JobSettles, Serves
    <3> QED BY <1>1, <1>2, <1>4, <2>3, <2>5, <2>6, <3>1, <3>3, JoinSettles
  <2>7. CASE t # s BY <1>5, <2>3, <2>5, <2>7
  <2> QED BY <2>6, <2>7
<1> QED BY <1>2, <1>6, <1>7

\* A statement of a handler at the thread, of a task or of one nobody waits
\* for, and what it means for the others.
LEMMA ServedSettles ==
  ASSUME TypeInv, SeenInv, DeleteInv, NEW t \in Shared, ThreadSettles(t),
         NEW h, HandlerOK(h), Saw(h, rows[t]), Serves(h, Wanted(t), local[t], rows[t]),
         NEW g, g = Advance(h, rows[t]), rows' = [rows EXCEPT ![t] = After(h, @)],
         UNCHANGED <<version, local, pending>>
  PROVE  /\ g.at \notin Ended => Serves(g, Wanted(t)', local'[t], rows'[t])
         /\ g.at \in Ended /\ Succeeded(g) => Done(Wanted(t)', local'[t], rows'[t])
         /\ Done(Wanted(t), local[t], rows[t]) => Done(Wanted(t)', local'[t], rows'[t])
         /\ \A x : Serves(x, Wanted(t), local[t], rows[t])
                     => Serves(x, Wanted(t)', local'[t], rows'[t])
         /\ Synced(t) => Synced(t)'
<1>1. Wanted(t)' = Wanted(t) /\ Wanted(t) \in SyncOperation
  BY DEF Wanted, Gone, Deleted, SyncOperation
<1>2. h \in Handler /\ t \in Thread BY DEF HandlerOK, Shared
<1>3. PICK r : r = After(h, rows[t]) /\ r = rows'[t] BY <1>2, RowsTyped DEF TypeInv
<1>4. RowOK(rows[t]) /\ (rows[t].deleted => Wanted(t) = "delete")
  BY <1>2 DEF SeenInv, DeleteInv, Wanted
<1>5. PICK row, want, body : row = rows[t] /\ want = Wanted(t) /\ body = local[t] OBVIOUS
<1>6. /\ g.at \notin Ended => Serves(g, want, body, r)
      /\ g.at \in Ended /\ Succeeded(g) => Done(want, body, r)
      /\ Done(want, body, row) => Done(want, body, r)
      /\ \A x : Serves(x, want, body, row) => Serves(x, want, body, r)
  BY <1>1, <1>3, <1>4, <1>5, ServingStatement
<1>7. Done(want, body, row) => Done(Wanted(t)', local'[t], rows'[t]) BY <1>1, <1>3, <1>5, <1>6
<1>8. Synced(t) => Synced(t)' BY <1>5, <1>7, NotedKept DEF Synced, DoneAt
<1> QED BY <1>1, <1>3, <1>5, <1>6, <1>7, <1>8

LEMMA ServeSettles ==
  ASSUME TypeInv, SeenInv, DeleteInv, SettleInv, NEW i \in Job, Serve(i)
  PROVE  SettleInv'
<1>1. UNCHANGED <<version, local, pending, orphans, disturbed>> BY DEF Serve, disk
<1>2. PICK old : old = jobs[i] OBVIOUS
<1>3. PICK s, h, g, job :
        /\ s = old.t /\ s \in Shared /\ h = old.h /\ HandlerOK(h) /\ old.at = "served"
        /\ g = Advance(h, rows[s]) /\ rows' = [rows EXCEPT ![s] = After(h, @)]
        /\ jobs' = [jobs EXCEPT ![i] = job] /\ g.op = h.op
        /\ \/ /\ HandlerOK(g)
              /\ job = [by |-> old.by, t |-> s, at |-> "served",
                        tries |-> old.tries, h |-> g, won |-> old.won,
                        queue |-> old.queue, todo |-> old.todo]
           \/ g.at \in Ended /\ Succeeded(g) /\ job = Over(old, "ok")
           \/ g.at \in Ended /\ ~Succeeded(g) /\ job = Over(old, "err")
  BY <1>2, ServeJob
<1>4. /\ job.by = old.by /\ job.t = s /\ job.h.op = h.op
      /\ \/ HandlerOK(g) /\ job.at = "served" /\ job.h = g
         \/ g.at \in Ended /\ Succeeded(g) /\ job.at = "ok"
         \/ g.at \in Ended /\ ~Succeeded(g) /\ job.at = "err"
  <2>1. JobOK(old) /\ old \in JobType BY <1>2 DEF TypeInv, JobsOK, JobOK
  <2>2. \A outcome : /\ Over(old, outcome).t = old.t /\ Over(old, outcome).h.op = old.h.op
                     /\ Over(old, outcome).by = old.by /\ Over(old, outcome).at = outcome
    BY <1>3, <2>1, OverFields
  <2> QED BY <1>3, <2>2
<1>5. SUFFICES ASSUME NEW t \in Shared, t \notin disturbed' PROVE ThreadSettles(t)'
  BY DEF SettleInv
<1>6. ThreadSettles(t) BY <1>1, <1>5 DEF SettleInv
<1>7. \A j \in Job : jobs'[j] = IF j = i THEN job ELSE jobs[j]
  BY <1>3 DEF TypeInv, JobsOK
<1>8. h \in Handler /\ t \in Thread BY <1>3 DEF HandlerOK, Shared
<1>9. CASE t # s
  <2>1. rows'[t] = rows[t] BY <1>3, <1>8, <1>9, RowsTyped DEF TypeInv
  <2>2. Noted(t) => Noted(t)' BY <1>1, NotedKept
  <2> QED BY <1>1, <1>2, <1>3, <1>4, <1>6, <1>9, <2>1, <2>2, SlotElsewhere
<1>10. CASE t = s
  <2>1. /\ JobSettles(old, Wanted(t), local[t], rows[t])
        /\ \A o \in orphans : o.t = t => Serves(o.h, Wanted(t), local[t], rows[t])
    BY <1>2, <1>3, <1>6, <1>10 DEF ThreadSettles
  <2>2. Saw(h, rows[t]) /\ RowOK(rows[t]) /\ (h.op = "visibility" <=> old.by = "web")
    BY <1>2, <1>3, <1>8, <1>10 DEF SeenInv, JobSaw, TypeInv, JobsOK, JobOK
  <2>3. Wanted(t)' = Wanted(t) BY <1>1 DEF Wanted, Gone, Deleted
  <2>4. CASE old.by # "web"
    <3>1. Serves(h, Wanted(t), local[t], rows[t]) /\ h.op = Wanted(t)
      BY <1>3, <2>1, <2>4 DEF JobSettles
    <3>2. /\ g.at \notin Ended => Serves(g, Wanted(t)', local'[t], rows'[t])
          /\ g.at \in Ended /\ Succeeded(g) => Done(Wanted(t)', local'[t], rows'[t])
          /\ Done(Wanted(t), local[t], rows[t]) => Done(Wanted(t)', local'[t], rows'[t])
          /\ \A x : Serves(x, Wanted(t), local[t], rows[t])
                      => Serves(x, Wanted(t)', local'[t], rows'[t])
          /\ Synced(t) => Synced(t)'
      BY <1>1, <1>3, <1>6, <1>10, <2>2, <3>1, ServedSettles
    <3>3. JobSettles(job, Wanted(t)', local'[t], rows'[t])
      BY <1>4, <2>3, <2>4, <3>1, <3>2 DEF JobSettles, HandlerOK
    <3>4. Answers(old) => Synced(t)' \/ Answers(job)
      BY <1>4, <3>2 DEF Answers, Synced, DoneAt
    <3>5. \A o \in orphans' : o.t = t => Serves(o.h, Wanted(t)', local'[t], rows'[t])
      BY <1>1, <2>1, <3>2
    <3> QED BY <1>2, <1>3, <1>4, <1>6, <1>10, <2>3, <2>4, <3>2, <3>3, <3>4, <3>5,
               TaskSettles
  <2>5. CASE old.by = "web"
    <3>1. Shows(h, rows[t]) BY <1>3, <2>1, <2>5 DEF JobSettles
    <3>2. PICK row, r : row = rows[t] /\ r = After(h, row) /\ r = rows'[t]
      BY <1>3, <1>8, <1>10, RowsTyped DEF TypeInv
    <3>3. /\ g.at \notin Ended => Shows(g, r)
          /\ \A want, body : Done(want, body, row) => Done(want, body, r)
      BY <1>3, <1>10, <2>2, <2>5, <3>1, <3>2, ShowingStatement
    <3>4. Synced(t) => Synced(t)'
      <4>1. DoneAt(t) => DoneAt(t)' BY <1>1, <2>3, <3>2, <3>3 DEF DoneAt
      <4> QED BY <1>1, <4>1, NotedKept DEF Synced
    <3>5. JobSettles(job, Wanted(t)', local'[t], rows'[t])
      BY <1>4, <2>5, <3>2, <3>3 DEF JobSettles, HandlerOK
    <3> QED BY <1>1, <1>2, <1>3, <1>6, <1>10, <2>5, <3>4, <3>5, WebSettles
  <2> QED BY <2>4, <2>5
<1> QED BY <1>9, <1>10

LEMMA ServeOrphanSettles ==
  ASSUME TypeInv, SeenInv, DeleteInv, SettleInv, NEW o \in orphans, ServeOrphan(o)
  PROVE  SettleInv'
<1>1. UNCHANGED <<version, local, pending, jobs, disturbed>> BY DEF ServeOrphan, disk
<1>2. PICK s, h, g :
        /\ s = o.t /\ s \in Shared /\ h = o.h /\ HandlerOK(h)
        /\ g = Advance(h, rows[s]) /\ g.op = h.op
        /\ rows' = [rows EXCEPT ![s] = After(h, @)]
        /\ \/ g.at \in Ended /\ orphans' = orphans \ {o}
           \/ HandlerOK(g) /\ orphans' = (orphans \ {o}) \cup {Orphan(s, g)}
  BY OrphanStep
<1>3. Orphan(s, g).t = s /\ Orphan(s, g).h = g BY DEF Orphan
<1>4. SUFFICES ASSUME NEW t \in Shared, t \notin disturbed' PROVE ThreadSettles(t)'
  BY DEF SettleInv
<1>5. ThreadSettles(t) BY <1>1, <1>4 DEF SettleInv
<1>6. h \in Handler /\ t \in Thread BY <1>2 DEF HandlerOK, Shared
<1>7. CASE t # s
  <2>1. rows'[t] = rows[t] BY <1>2, <1>6, <1>7, RowsTyped DEF TypeInv
  <2>2. Noted(t) => Noted(t)' BY <1>1, NotedKept
  <2>3. \A x \in orphans' : x.t = t => x \in orphans BY <1>2, <1>3, <1>7
  <2> QED BY <1>1, <1>5, <2>1, <2>2, <2>3, Elsewhere
<1>8. CASE t = s
  <2>1. Saw(h, rows[t]) /\ Serves(h, Wanted(t), local[t], rows[t])
    BY <1>2, <1>5, <1>8 DEF SeenInv, ThreadSettles
  <2>2. /\ g.at \notin Ended => Serves(g, Wanted(t)', local'[t], rows'[t])
        /\ Done(Wanted(t), local[t], rows[t]) => Done(Wanted(t)', local'[t], rows'[t])
        /\ \A x : Serves(x, Wanted(t), local[t], rows[t])
                    => Serves(x, Wanted(t)', local'[t], rows'[t])
        /\ Synced(t) => Synced(t)'
    BY <1>1, <1>2, <1>5, <1>8, <2>1, ServedSettles
  <2>3. Wanted(t)' = Wanted(t) BY <1>1 DEF Wanted, Gone, Deleted
  <2>4. \A x \in orphans' : x.t = t => Serves(x.h, Wanted(t)', local'[t], rows'[t])
    BY <1>2, <1>3, <1>5, <2>2 DEF ThreadSettles, HandlerOK
  <2>5. \A j \in Job : jobs[j].t = t =>
          jobs[j].by # "web" /\ JobSettles(jobs[j], Wanted(t), local[t], rows[t])
    BY <1>2, <1>5, <1>8 DEF ThreadSettles, Alone
  <2>6. \A j \in Job : jobs[j].t = t =>
          JobSettles(jobs[j], Wanted(t)', local'[t], rows'[t])
    BY <2>2, <2>3, <2>5 DEF JobSettles
  <2>7. Synced(t)' \/ \E j \in Job : jobs'[j].t = t /\ Answers(jobs'[j])
    BY <1>1, <1>5, <2>2 DEF ThreadSettles
  <2> QED BY <1>1, <2>4, <2>5, <2>6, <2>7, SettlesBy
<1> QED BY <1>7, <1>8

LEMMA DropOrphanSettles ==
  ASSUME SettleInv, NEW o \in orphans, DropOrphan(o) PROVE SettleInv'
<1>1. UNCHANGED <<version, local, pending, jobs, rows, disturbed>> /\ orphans' \subseteq orphans
  BY DEF DropOrphan, disk
<1>2. ASSUME NEW t \in Shared, t \notin disturbed' PROVE ThreadSettles(t)'
  <2>1. ThreadSettles(t) BY <1>1, <1>2 DEF SettleInv
  <2>2. Noted(t) => Noted(t)' BY <1>1, NotedKept
  <2> QED BY <1>1, <2>1, <2>2, Elsewhere
<1> QED BY <1>2 DEF SettleInv

LEMMA LostSettles ==
  ASSUME TypeInv, SettleInv, NEW i \in Job, AnswerLost(i) PROVE SettleInv'
<1>1. /\ UNCHANGED <<version, local, pending, rows, disturbed>>
      /\ jobs[i].at = "served" /\ jobs[i].by # "web"
  BY DEF AnswerLost, disk
<1>2. PICK retryable \in BOOLEAN :
        /\ jobs' = [jobs EXCEPT ![i] = Tried(jobs[i], retryable)]
        /\ \/ UNCHANGED orphans
           \/ orphans' = orphans \cup {Orphan(jobs[i].t, jobs[i].h)}
  BY DEF AnswerLost, Orphan
<1>3. PICK old, job : /\ old = jobs[i] /\ job = Tried(old, retryable)
                      /\ jobs' = [jobs EXCEPT ![i] = job]
  BY <1>2
<1>4. JobOK(old) /\ old \in JobType /\ HandlerOK(old.h) /\ old.t \in Shared
  BY <1>1, <1>3, ServedJob DEF JobOK
<1>5. /\ job.by = old.by /\ job.t = old.t /\ job.h.op = old.h.op
      /\ \/ job.at = "err"
         \/ job.at = "served" /\ job.h.at = "owner" /\ job.h.doc = old.h.doc
  <2>1. CASE job = Over(old, "err") BY <1>4, <2>1, OverFields
  <2>2. CASE job # Over(old, "err")
    <3>1. PICK h : h = NewHandler(old.h.op, old.h.doc, old.h.expect) OBVIOUS
    <3>2. job.by = old.by /\ job.t = old.t /\ job.at = "served" /\ job.h = h
      BY <1>1, <1>3, <1>4, <2>2, <3>1, TriedFields
    <3>3. h.op = old.h.op /\ h.doc = old.h.doc /\ h.at = "owner"
      BY <1>4, <3>1, NewHandlerOK DEF HandlerOK, Handler
    <3> QED BY <3>2, <3>3
  <2> QED BY <2>1, <2>2
<1>6. Orphan(old.t, old.h).t = old.t /\ Orphan(old.t, old.h).h = old.h BY DEF Orphan
<1>7. SUFFICES ASSUME NEW t \in Shared, t \notin disturbed' PROVE ThreadSettles(t)'
  BY DEF SettleInv
<1>8. ThreadSettles(t) BY <1>1, <1>7 DEF SettleInv
<1>9. (Noted(t) => Noted(t)') /\ Wanted(t)' = Wanted(t)
  BY <1>1, NotedKept DEF Wanted, Gone, Deleted
<1>10. CASE t # old.t
  <2>1. \A o \in orphans' : o.t = t => o \in orphans BY <1>2, <1>3, <1>6, <1>10
  <2> QED BY <1>1, <1>3, <1>5, <1>8, <1>9, <1>10, <2>1, SlotElsewhere
<1>11. CASE t = old.t
  <2>2. /\ JobSettles(old, Wanted(t), local[t], rows[t])
        /\ \A o \in orphans : o.t = t => Serves(o.h, Wanted(t), local[t], rows[t])
    BY <1>3, <1>8, <1>11 DEF ThreadSettles
  <2>3. Serves(old.h, Wanted(t), local[t], rows[t]) /\ old.h.op = Wanted(t)
    BY <1>1, <1>3, <2>2 DEF JobSettles
  <2>4. JobSettles(job, Wanted(t)', local'[t], rows'[t])
    BY <1>1, <1>3, <1>5, <1>9, <2>3 DEF JobSettles, Serves
  <2>5. Synced(t) => Synced(t)' BY <1>1, <1>9 DEF Synced, DoneAt
  <2>6. \A o \in orphans' : o.t = t => Serves(o.h, Wanted(t)', local'[t], rows'[t])
    BY <1>1, <1>2, <1>3, <1>6, <1>9, <2>2, <2>3
  <2>7. Answers(old) => Answers(job) BY <1>5 DEF Answers
  <2> QED BY <1>1, <1>3, <1>5, <1>8, <1>9, <1>11, <2>4, <2>5, <2>6, <2>7, TaskSettles
<1> QED BY <1>10, <1>11

\* A task that is over, or goes on to another entry.
LEMMA RestIsNowhere ==
  ASSUME NEW job, NEW t \in Shared PROVE Rest(job).t # t
<1>1. Rest(job).t = NoThread BY RestFields, FreeOK
<1> QED BY <1>1, ThreadSyncAssumption DEF Shared, NoThread

LEMMA LeavingSettles ==
  ASSUME TypeInv, NEW i \in Job, NEW t \in Shared, ThreadSettles(t), jobs[i].t = t,
         jobs' = [jobs EXCEPT ![i] = Rest(jobs[i])],
         UNCHANGED <<version, local, rows, orphans>>,
         Synced(t) => Synced(t)', Answers(jobs[i]) => Synced(t)'
  PROVE  ThreadSettles(t)'
<1>0. PICK job : job = Rest(jobs[i]) OBVIOUS
<1>1. jobs' = [jobs EXCEPT ![i] = job] /\ job.t # t BY <1>0, RestIsNowhere
<1>2. Wanted(t)' = Wanted(t) BY DEF Wanted, Gone, Deleted
<1>3. \A o \in orphans' : o.t = t => Serves(o.h, Wanted(t)', local'[t], rows'[t])
  BY <1>2 DEF ThreadSettles
<1>4. CASE jobs[i].by = "web" BY <1>1, <1>4, WebSettles
<1>5. CASE jobs[i].by # "web" BY <1>1, <1>2, <1>3, <1>5, TaskSettles
<1> QED BY <1>4, <1>5

LEMMA ReturnedSettles ==
  ASSUME TypeInv, SettleInv, NEW i \in Job, Returned(i) PROVE SettleInv'
<1>1. /\ UNCHANGED <<version, local, pending, rows, orphans>>
      /\ jobs' = [jobs EXCEPT ![i] = Rest(jobs[i])]
      /\ disturbed' = IF Answers(jobs[i]) THEN disturbed \cup {jobs[i].t} ELSE disturbed
  BY DEF Returned, disk
<1>2. SUFFICES ASSUME NEW t \in Shared, t \notin disturbed' PROVE ThreadSettles(t)'
  BY DEF SettleInv
<1>3. ThreadSettles(t) BY <1>1, <1>2 DEF SettleInv
<1>4. (Noted(t) => Noted(t)') /\ Wanted(t)' = Wanted(t)
  BY <1>1, NotedKept DEF Wanted, Gone, Deleted
<1>5. CASE jobs[i].t # t BY <1>1, <1>3, <1>4, <1>5, RestIsNowhere, SlotElsewhere
<1>6. CASE jobs[i].t = t
  <2>1. ~Answers(jobs[i]) BY <1>1, <1>2, <1>6
  <2>2. Synced(t) => Synced(t)' BY <1>1, <1>4 DEF Synced, DoneAt
  <2> QED BY <1>1, <1>3, <1>6, <2>1, <2>2, LeavingSettles
<1> QED BY <1>5, <1>6

LEMMA LoadSettles ==
  ASSUME TypeInv, SettleInv, NEW i \in Job, LoadQueue(i) PROVE SettleInv'
<1>1. UNCHANGED <<version, local, pending, rows, orphans, disturbed>> BY DEF LoadQueue, disk
<1>2. PICK old : old = jobs[i] OBVIOUS
<1>3. PICK job : /\ jobs' = [jobs EXCEPT ![i] = job]
                 /\ job = [by |-> old.by, t |-> old.t, at |-> "noting",
                           tries |-> old.tries, h |-> old.h, won |-> (old.at = "ok"),
                           queue |-> pending, todo |-> old.todo]
                 /\ old.by \in {"save", "delete", "retry"}
  BY <1>2, LoadedJob
<1>4. /\ job.by = old.by /\ job.t = old.t /\ job.at = "noting" /\ job.h = old.h
      /\ job.won <=> old.at = "ok"
  BY <1>3
<1>5. SUFFICES ASSUME NEW t \in Shared, t \notin disturbed' PROVE ThreadSettles(t)'
  BY DEF SettleInv
<1>6. ThreadSettles(t) BY <1>1, <1>5 DEF SettleInv
<1>7. (Noted(t) => Noted(t)') /\ Wanted(t)' = Wanted(t)
  BY <1>1, NotedKept DEF Wanted, Gone, Deleted
<1>8. CASE old.t # t BY <1>1, <1>2, <1>3, <1>4, <1>6, <1>7, <1>8, SlotElsewhere
<1>9. CASE old.t = t
  <2>2. /\ JobSettles(old, Wanted(t), local[t], rows[t])
        /\ \A o \in orphans : o.t = t => Serves(o.h, Wanted(t), local[t], rows[t])
    BY <1>2, <1>6, <1>9 DEF ThreadSettles
  <2>3. JobSettles(job, Wanted(t)', local'[t], rows'[t])
    BY <1>1, <1>3, <1>4, <1>7, <2>2 DEF JobSettles
  <2>4. Synced(t) => Synced(t)' BY <1>1, <1>7 DEF Synced, DoneAt
  <2>5. \A o \in orphans' : o.t = t => Serves(o.h, Wanted(t)', local'[t], rows'[t])
    BY <1>1, <1>7, <2>2
  <2>6. Answers(old) => Answers(job)
    <3>1. Answers(old) => old.at # "ok" /\ old.by \in {"save", "sync", "delete"}
      BY DEF Answers
    <3> QED BY <1>4, <3>1 DEF Answers
  <2>7. /\ \A x : Serves(x, Wanted(t), local[t], rows[t])
                    => Serves(x, Wanted(t)', local'[t], rows'[t])
        /\ Done(Wanted(t), local[t], rows[t]) => Done(Wanted(t)', local'[t], rows'[t])
    BY <1>1, <1>7
  <2>8. jobs[i].t = t /\ jobs[i].by # "web" /\ job.t = t /\ job.by # "web"
    BY <1>2, <1>3, <1>4, <1>9
  <2> QED BY <1>2, <1>3, <1>6, <1>7, <2>3, <2>4, <2>5, <2>6, <2>7, <2>8, TaskSettles
<1> QED BY <1>8, <1>9

\* retry_pending ends between two entries.
LEMMA LoadFailsSettles ==
  ASSUME TypeInv, SettleInv, NEW i \in Job, RetryLoadFails(i) PROVE SettleInv'
<1>1. /\ UNCHANGED <<version, local, pending, rows, orphans, disturbed>>
      /\ jobs' = [jobs EXCEPT ![i] = Free] /\ jobs[i].at = "next"
  BY DEF RetryLoadFails, disk
<1>2. SUFFICES ASSUME NEW t \in Shared, t \notin disturbed' PROVE ThreadSettles(t)'
  BY DEF SettleInv
<1>3. ThreadSettles(t) BY <1>1, <1>2 DEF SettleInv
<1>4. Noted(t) => Noted(t)' BY <1>1, NotedKept
<1>5. t # NoThread BY ThreadSyncAssumption DEF Shared, NoThread
<1>6. jobs[i].t # t /\ Free.t # t
  BY <1>1, <1>5, FreeOK DEF TypeInv, JobsOK, JobOK
<1> QED BY <1>1, <1>3, <1>4, <1>6, SlotElsewhere

\* What a task notes about its thread, with what it leaves of the queue.
LEMMA StoreSettles ==
  ASSUME TypeInv, QueueInv, SettleInv, NEW i \in Job, StoreQueue(i) \/ StoreQueueFails(i)
  PROVE  SettleInv'
<1>1. PICK e : e = EntryOf(jobs[i]) OBVIOUS
<1>2. /\ UNCHANGED <<version, local, rows, orphans>> /\ jobs[i].at = "noting"
      /\ jobs' = [jobs EXCEPT ![i] = Rest(jobs[i])] /\ disturbed \subseteq disturbed'
  BY DEF StoreQueue, StoreQueueFails
<1>3. /\ e \in SharedEntry /\ e.t = jobs[i].t /\ e.op = jobs[i].h.op
      /\ e = Entry(jobs[i].t, jobs[i].h.op) /\ jobs[i].won \in BOOLEAN
      /\ jobs[i].by # "web"
  BY <1>1, <1>2, EntryOK DEF EntryOf, TypeInv, JobsOK, JobOK
<1>4. jobs[i].queue = pending /\ pending \in Seq(SharedEntry) /\ Distinct(pending)
  BY <1>2 DEF QueueInv, LoadedQueueIsCurrent, TypeInv, QueueOK
<1>5. SUFFICES ASSUME NEW t \in Shared, t \notin disturbed' PROVE ThreadSettles(t)'
  BY DEF SettleInv
<1>6. ThreadSettles(t) /\ t \in Thread BY <1>2, <1>5 DEF SettleInv, Shared
<1>7. Wanted(t)' = Wanted(t) /\ Wanted(t) \in SyncOperation
  BY <1>2 DEF Wanted, Gone, Deleted, SyncOperation
<1>8. PICK x : x = Entry(t, Wanted(t)) /\ x.t = t
  <2>1. PICK op, x : op = Wanted(t) /\ x = Entry(t, op) OBVIOUS
  <2>2. x.t = t BY <2>1 DEF Entry
  <2> QED BY <2>1, <2>2
<1>9. /\ StoreQueue(i) /\ ~jobs[i].won => pending' = add(pending, e)
      /\ StoreQueue(i) /\ jobs[i].won => pending' = remove(pending, e)
  BY <1>1, <1>4 DEF StoreQueue
<1>10. CASE jobs[i].t # t
  <2>1. x # e BY <1>3, <1>8, <1>10
  <2>2. Contains(pending, x) => Contains(pending', x)
    <3>1. CASE StoreQueue(i)
      <4>1. Contains(pending, x) => Contains(add(pending, e), x) BY <1>3, <1>4, AddOK
      <4>2. Contains(pending, x) => Contains(remove(pending, e), x)
        BY <1>4, <2>1, RemoveOK
      <4> QED BY <1>3, <1>9, <3>1, <4>1, <4>2
    <3>2. CASE StoreQueueFails(i)
      <4>1. \A s \in Thread : (\E op \in SyncOperation : /\ Contains(pending, Entry(s, op))
                                                         /\ ~Contains(pending', Entry(s, op)))
                                => s \in disturbed'
        BY <3>2 DEF StoreQueueFails
      <4> QED BY <1>5, <1>6, <1>7, <1>8, <4>1
    <3> QED BY <3>1, <3>2
  <2>3. Noted(t) => Noted(t)' BY <1>2, <1>7, <1>8, <2>2 DEF Noted, Contains, Entry
  <2> QED BY <1>2, <1>6, <1>10, <2>3, RestIsNowhere, SlotElsewhere
<1>11. CASE jobs[i].t = t
  <2>1. JobSettles(jobs[i], Wanted(t), local[t], rows[t])
    BY <1>6, <1>11 DEF ThreadSettles
  <2>2. CASE jobs[i].won
    <3>1. Done(Wanted(t), local[t], rows[t]) BY <1>2, <1>3, <2>1, <2>2 DEF JobSettles
    <3>2. Synced(t)' BY <1>2, <1>7, <3>1 DEF Synced, DoneAt
    <3> QED BY <1>2, <1>6, <1>11, <3>2, LeavingSettles
  <2>3. CASE ~jobs[i].won
    <3>1. e = x BY <1>3, <1>8, <1>11, <2>1 DEF JobSettles
    <3>2. ASSUME StoreQueueFails(i) PROVE Contains(pending', x)
      <4>1. ~Contains(pending', e) => e.t \in disturbed'
        BY <1>1, <1>3, <1>6, <1>11, <2>3, <3>2 DEF StoreQueueFails
      <4> QED BY <1>3, <1>5, <1>11, <3>1, <4>1
    <3>3. Contains(pending', x) BY <1>3, <1>4, <1>9, <2>3, <3>1, <3>2, AddOK
    <3>4. Synced(t)' BY <1>7, <1>8, <3>3 DEF Synced, Noted, Contains, Entry
    <3> QED BY <1>2, <1>6, <1>11, <3>4, LeavingSettles
  <2> QED BY <1>3, <2>2, <2>3
<1> QED BY <1>10, <1>11

\* An exit takes every task of the store.  If none of them at the thread has
\* yet to succeed, the thread is synced, and the handlers that go on ask for
\* what has been done or noted.
LEMMA ExitSettles == ASSUME TypeInv, SettleInv, Exit PROVE SettleInv'
<1> DEFINE mine == {i \in Job : jobs[i].by \notin {"free", "web"}}
<1>1. /\ UNCHANGED <<version, local, pending, rows>>
      /\ jobs' = [i \in Job |-> IF i \in mine THEN Free ELSE jobs[i]]
      /\ disturbed' = disturbed \cup {jobs[i].t : i \in {i \in mine : Answers(jobs[i])}}
  BY DEF Exit, disk
<1>2. PICK on : /\ on \subseteq {i \in mine : jobs[i].at = "served"}
                /\ orphans' = orphans \cup {Orphan(jobs[i].t, jobs[i].h) : i \in on}
  BY DEF Exit, Orphan
<1>3. SUFFICES ASSUME NEW t \in Shared, t \notin disturbed' PROVE ThreadSettles(t)'
  BY DEF SettleInv
<1>4. ThreadSettles(t) /\ t # NoThread
  BY <1>1, <1>3, ThreadSyncAssumption DEF SettleInv, Shared, NoThread
<1>5. \A i \in Job : jobs[i].t = t => ~Answers(jobs[i]) BY <1>1, <1>3 DEF Answers
<1>6. Wanted(t)' = Wanted(t) BY <1>1 DEF Wanted, Gone, Deleted
<1>7. Synced(t)' BY <1>1, <1>4, <1>5, <1>6, NotedKept DEF ThreadSettles, Synced, DoneAt
<1>8. \A i \in Job : jobs'[i].t = t => jobs'[i] = jobs[i] /\ jobs[i].t = t
  BY <1>1, <1>4, FreeOK
<1>9. \A i \in Job : jobs'[i].t = t => JobSettles(jobs'[i], Wanted(t)', local'[t], rows'[t])
  BY <1>1, <1>4, <1>6, <1>8 DEF ThreadSettles
<1>10. \A i \in Job : /\ Orphan(jobs[i].t, jobs[i].h).t = jobs[i].t
                       /\ Orphan(jobs[i].t, jobs[i].h).h = jobs[i].h
  BY DEF Orphan
<1>11. \A o \in orphans' : o.t = t =>
         o \in orphans \/ \E i \in on : jobs[i].t = t /\ o.h = jobs[i].h
  BY <1>2, <1>10
<1>12. \A i \in on : jobs[i].t = t => Serves(jobs[i].h, Wanted(t), local[t], rows[t])
  BY <1>2, <1>4 DEF ThreadSettles, JobSettles
<1>13. \A o \in orphans' : o.t = t => Serves(o.h, Wanted(t)', local'[t], rows'[t])
  BY <1>1, <1>4, <1>6, <1>11, <1>12 DEF ThreadSettles
<1>14. ASSUME NEW i \in Job, jobs'[i].t = t, jobs'[i].by = "web"
       PROVE  (\A j \in Job : jobs'[j].t = t => j = i) /\ \A o \in orphans' : o.t # t
  <2>1. (\A j \in Job : jobs[j].t = t => j = i) /\ \A o \in orphans : o.t # t
    BY <1>4, <1>8, <1>14 DEF ThreadSettles, Alone
  <2>2. i \notin on BY <1>2, <1>8, <1>14
  <2> QED BY <1>2, <1>8, <1>11, <2>1, <2>2
<1> QED BY <1>7, <1>9, <1>13, <1>14, SettlesBy

LEMMA SettleStep ==
  ASSUME TypeInv, QueueInv, SeenInv, DeleteInv, SettleInv, [Next]_vars PROVE SettleInv'
<1>1. CASE UNCHANGED vars
  <2>1. ASSUME NEW t \in Shared, t \notin disturbed' PROVE ThreadSettles(t)'
    <3>1. ThreadSettles(t) BY <1>1, <2>1 DEF SettleInv, vars
    <3>2. Noted(t) => Noted(t)' BY <1>1, NotedKept DEF vars
    <3> QED BY <1>1, <3>1, <3>2, Elsewhere DEF vars
  <2> QED BY <2>1 DEF SettleInv
<1>2. ASSUME NEW t \in Thread, NEW by \in {"save", "sync"}, Save(t, by) PROVE SettleInv'
  BY <1>2, SaveSettles
<1>3. ASSUME NEW t \in Thread, Delete(t) PROVE SettleInv' BY <1>3, DeleteSettles
<1>4. ASSUME NEW t \in Thread, SetVisibility(t) PROVE SettleInv' BY <1>4, VisibilitySettles
<1>5. CASE RetryPending BY <1>5, RetryPendingSettles
<1>6. ASSUME NEW i \in Job, JobStep(i) \/ AnswerLost(i) \/ RetryLoadFails(i) \/ StoreQueueFails(i)
      PROVE  SettleInv'
  BY <1>6, RetryNextSettles, LoadFailsSettles, ServeSettles, ReturnedSettles,
     LoadSettles, StoreSettles,
     LostSettles DEF JobStep
<1>7. ASSUME NEW o \in orphans, ServeOrphan(o) \/ DropOrphan(o) PROVE SettleInv'
  BY <1>7, ServeOrphanSettles, DropOrphanSettles
<1>8. CASE Exit BY <1>8, ExitSettles
<1> QED BY <1>1, <1>2, <1>3, <1>4, <1>5, <1>6, <1>7, <1>8 DEF Next

LEMMA InitSettles == Init => DeleteInv /\ SettleInv
<1> SUFFICES ASSUME Init PROVE DeleteInv /\ SettleInv
  OBVIOUS
<1>1. /\ pending = <<>> /\ orphans = {} /\ \A i \in Job : jobs[i] = Free
      /\ \A t \in Thread : version[t] = 0 /\ rows[t] = NoRow
  BY DEF Init
<1>2. DeleteInv BY <1>1, FreeOK DEF DeleteInv, JobDeletes, DeletesIn, NoRow
<1>3. ASSUME NEW t \in Shared PROVE ThreadSettles(t)
  <2>1. t \in Thread /\ t # NoThread BY ThreadSyncAssumption DEF Shared, NoThread
  <2>2. \A i \in Job : jobs[i].t # t BY <1>1, <2>1, FreeOK
  <2>3. Synced(t) BY <1>1, <2>1 DEF Synced, Noted
  <2> QED BY <1>1, <2>2, <2>3 DEF ThreadSettles
<1> QED BY <1>2, <1>3 DEF SettleInv

\* SettledMeansSynced for all constants: when nobody is at a thread any more
\* and its newest operation was undisturbed, the server has what is on disk or
\* the queue remembers what is missing.  In a store without a pending store, the
\* kind the CLI uses, a failed save or delete is a disturbance: there it says
\* that one operation which begins alone and succeeds is enough.  Tasks of
\* retry_pending beside it, exits that cut them off and handlers that go on are
\* no disturbance (sync.rs, save, delete and retry_pending).
THEOREM SettledThreadsAreSynced == Spec => []SettledMeansSynced
<1> DEFINE Inv == TypeInv /\ QueueInv /\ SeenInv /\ DeleteInv /\ SettleInv
<1>1. Init => Inv BY InitTypes, InitQueue, InitSeen, InitSettles
<1>2. Inv /\ [Next]_vars => Inv'
  BY TypeStep, QueueStep, SeenStep, DeletesStep, SettleStep
<1>3. Inv => SettledMeansSynced
  <2> SUFFICES ASSUME Inv, NEW t \in Thread \ Private, ~Busy(t), t \notin disturbed
               PROVE  IF Deleted(t)
                      THEN \/ ~get_thread_owner_user_id(rows[t])
                           \/ Contains(pending, Entry(t, "delete"))
                      ELSE \/ version[t] = 0
                           \/ get_thread_owner_user_id(rows[t]) /\ rows[t].doc.body = local[t]
                           \/ Contains(pending, Entry(t, "upsert"))
    BY DEF SettledMeansSynced
  <2>1. t \in Shared /\ t \in Thread BY DEF Shared
  <2>2. Synced(t) BY <2>1, IdleIsSynced DEF SettleInv
  <2>3. t \in Gone <=> Deleted(t) BY <2>1 DEF Gone
  <2>4. CASE Deleted(t)
    <3>1. version[t] # 0 BY <2>1, <2>4 DEF Deleted, TypeInv, DiskOK
    <3> QED BY <2>2, <2>3, <2>4, <3>1 DEF Synced, DoneAt, Noted, Done, Wanted
  <2>5. CASE ~Deleted(t)
    BY <2>2, <2>3, <2>5 DEF Synced, DoneAt, Noted, Done, Wanted
  <2> QED BY <2>4, <2>5
<1> QED BY <1>1, <1>2, <1>3, PTL DEF Spec
==============================================================================
