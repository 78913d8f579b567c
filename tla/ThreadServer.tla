----------------------------- MODULE ThreadServer -----------------------------
(***************************************************************************)
(* The server's side of thread sync: the routes upsert_thread,             *)
(* delete_thread and update_thread_visibility (loom-server's               *)
(* routes/threads.rs) over the threads table (loom-server-db's thread.rs). *)
(*                                                                         *)
(* A handler is a record that walks through the statements of its route;   *)
(* no transaction holds them together, so handlers interleave between      *)
(* statements.  A thread's document is its content, named by the version   *)
(* the client saved it with (body), and the version field.  A row that has *)
(* been deleted stays, with deleted_at set.  All requests are of one user. *)
(***************************************************************************)
EXTENDS Naturals

Document == [body : Nat, version : Nat]
NoDocument == [body |-> 0, version |-> 0]

\* doc is full_json, owned is owner_user_id IS NOT NULL.
Row == [exists : BOOLEAN, deleted : BOOLEAN, owned : BOOLEAN, doc : Document]
NoRow == [exists |-> FALSE, deleted |-> FALSE, owned |-> FALSE,
          doc |-> NoDocument]

\* get: the row, unless it is deleted.
get(row) == row.exists /\ ~row.deleted

\* get_thread_owner_user_id is Some.
get_thread_owner_user_id(row) == get(row) /\ row.owned

------------------------------------------------------------------------------
(* A request as its handler sees it                                         *)

Ops == {"upsert", "delete", "visibility"}
Ended == {"ok", "missing", "conflict", "error"}
Points == {"owner", "fetch", "read", "write", "reread", "claim"} \cup Ended

\* expect is the If-Match header (0: absent); owned and found are what the
\* handler has read.
Handler == [op : Ops, doc : Document, expect : Nat, at : Points,
            owned : BOOLEAN, found : BOOLEAN]

NewHandler(op, doc, expect) ==
  [op |-> op, doc |-> doc, expect |-> expect, at |-> "owner",
   owned |-> FALSE, found |-> FALSE]

\* The ownership check that every route begins with.
CheckOwner(h, row) ==
  LET owned == get_thread_owner_user_id(row)
  IN [h EXCEPT !.owned = owned,
               !.at = CASE h.op = "upsert" -> "read"
                        [] h.op # "upsert" /\ ~owned -> "missing"
                        [] h.op = "delete" /\ owned -> "write"
                        [] OTHER -> "fetch"]

\* update_thread_visibility reads the document, compares If-Match and
\* prepares the document it will write.
Fetch(h, row) ==
  CASE ~get(row) -> [h EXCEPT !.at = "missing"]
    [] get(row) /\ h.expect \notin {0, row.doc.version} ->
         [h EXCEPT !.at = "conflict"]
    [] OTHER -> [h EXCEPT !.at = "read", !.expect = 0,
                          !.doc = [row.doc EXCEPT !.version = @ + 1]]

\* The first statement of the repository's upsert.
Read(h, row) ==
  [h EXCEPT !.found = get(row),
            !.at = IF get(row) /\ h.expect \notin {0, row.doc.version}
                   THEN "conflict" ELSE "write"]

\* Mutant: update also clears deleted_at.
WriteRow_restoring(h, row) ==
  CASE h.op = "delete" -> IF get(row) THEN [row EXCEPT !.deleted = TRUE] ELSE row
    [] h.op # "delete" /\ h.found -> [row EXCEPT !.doc = h.doc, !.deleted = FALSE]
    [] OTHER -> IF row.exists THEN row
                ELSE [NoRow EXCEPT !.exists = TRUE, !.doc = h.doc]

\* What the writing statement of each route leaves in the table.  update
\* filters neither on deleted_at nor on the version; insert fails on the
\* primary key when a row is there, deleted or not.
WriteRow(h, row) ==
  CASE h.op = "delete" -> IF get(row) THEN [row EXCEPT !.deleted = TRUE] ELSE row
    [] h.op # "delete" /\ h.found -> [row EXCEPT !.doc = h.doc]
    [] OTHER -> IF row.exists THEN row
                ELSE [NoRow EXCEPT !.exists = TRUE, !.doc = h.doc]

Wrote(h, row) ==
  [h EXCEPT !.at = CASE h.op = "delete" -> IF get(row) THEN "ok" ELSE "missing"
                     [] h.op # "delete" /\ (h.found \/ ~row.exists) -> "reread"
                     [] OTHER -> "error"]

\* Mutant: only the upload that inserts the row sets its owner.
Reread_new(h, row) ==
  [h EXCEPT !.at = CASE ~get(row) -> "error"
                     [] get(row) /\ h.found -> "ok"
                     [] OTHER -> "claim"]

\* upsert returns the row it has just written, or fails if it is gone; the
\* route then claims the thread unless it saw an owner at the beginning.
Reread(h, row) ==
  [h EXCEPT !.at = CASE ~get(row) -> "error"
                     [] get(row) /\ h.owned -> "ok"
                     [] OTHER -> "claim"]

\* set_owner_user_id
ClaimRow(row) == IF get(row) THEN [row EXCEPT !.owned = TRUE] ELSE row

\* One statement of the handler: what the handler is after it ...
Advance(h, row) ==
  CASE h.at = "owner"  -> CheckOwner(h, row)
    [] h.at = "fetch"  -> Fetch(h, row)
    [] h.at = "read"   -> Read(h, row)
    [] h.at = "write"  -> Wrote(h, row)
    [] h.at = "reread" -> Reread(h, row)
    [] h.at = "claim"  -> [h EXCEPT !.at = "ok"]

\* ... and what the table's row is.
After(h, row) ==
  CASE h.at = "write" -> WriteRow(h, row)
    [] h.at = "claim" -> ClaimRow(row)
    [] OTHER -> row
==============================================================================
