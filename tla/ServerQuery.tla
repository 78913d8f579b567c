----------------------------- MODULE ServerQuery -----------------------------
(***************************************************************************)
(* The server's queries to its clients (loom-server/src/server_query.rs).  *)
(*                                                                         *)
(* send_query stores the query as pending, subscribes to the broadcast of  *)
(* responses, and waits with a timeout.  A client posts a response, which  *)
(* is stored and broadcast.  Nothing orders the subscription before the    *)
(* response; the broadcast channel keeps only its newest messages; the     *)
(* task that waits may be dropped.                                         *)
(*                                                                         *)
(* A response is its query's id; ids are unique.  list_pending, which the  *)
(* client polls, and get_response only read.  The channel is never closed  *)
(* while send_query borrows its sender, so NoResponse cannot occur.        *)
(***************************************************************************)
EXTENDS Naturals, Sequences

CONSTANTS
  Query,      \* query ids
  Capacity,   \* messages the broadcast channel keeps (100 asked for)
  MaxPosts    \* bound on the responses posted

ASSUME QueryAssumption == Capacity \in Nat \ {0} /\ MaxPosts \in Nat

VARIABLES
  step,       \* how far send_query is, per query
  pending,    \* the pending map
  responses,  \* the responses map
  chan,       \* everything broadcast so far
  rx,         \* per waiting query, the messages it has received or skipped
  inFlight,   \* per query, the responses stored but not yet broadcast
  posts,      \* history: responses posted
  sent,       \* history: length of chan when the query was stored
  subscribed, \* history: length of chan when the query subscribed
  lagged      \* history: queries whose receiver has skipped messages

vars == <<step, pending, responses, chan, rx, inFlight, posts, sent,
          subscribed, lagged>>
sender == <<step, pending, rx, sent, subscribed, lagged>>
client == <<responses, chan, inFlight, posts>>

Steps == {"new", "stored", "waiting", "got", "expired", "answered", "timeout",
          "dropped"}

\* Every variable has its type, and what is being broadcast or has been is
\* stored (receive_response).
TypeOK ==
  /\ step \in [Query -> Steps]
  /\ UNION {pending, responses, lagged} \subseteq Query
  /\ chan \in Seq(Query) /\ Len(chan) <= MaxPosts
  /\ rx \in [Query -> 0..MaxPosts] /\ sent \in [Query -> 0..MaxPosts]
  /\ subscribed \in [Query -> 0..MaxPosts]
  /\ inFlight \in [Query -> Nat] /\ posts \in Nat
  /\ \A q \in Query : inFlight[q] > 0 => q \in responses
  /\ \A k \in 1..Len(chan) : chan[k] \in responses

Init ==
  /\ step = [q \in Query |-> "new"]
  /\ pending = {} /\ responses = {} /\ chan = <<>>
  /\ inFlight = [q \in Query |-> 0] /\ rx = [q \in Query |-> 0]
  /\ sent = [q \in Query |-> 0] /\ subscribed = [q \in Query |-> 0]
  /\ lagged = {} /\ posts = 0

------------------------------------------------------------------------------
(* send_query and wait_for_response                                         *)

StorePending(q) ==
  /\ step[q] = "new"
  /\ step' = [step EXCEPT ![q] = "stored"]
  /\ pending' = pending \cup {q}
  /\ sent' = [sent EXCEPT ![q] = Len(chan)]
  /\ UNCHANGED <<rx, subscribed, lagged, client>>

\* The first poll of wait_for_response: only later messages are received.
Subscribe(q) ==
  /\ step[q] = "stored"
  /\ step' = [step EXCEPT ![q] = "waiting"]
  /\ rx' = [rx EXCEPT ![q] = Len(chan)]
  /\ subscribed' = [subscribed EXCEPT ![q] = Len(chan)]
  /\ UNCHANGED <<pending, sent, lagged, client>>

\* Mutant: the id of the response is not compared.
Recv_any(q) ==
  /\ step[q] = "waiting" /\ rx[q] < Len(chan)
  /\ rx' = [rx EXCEPT ![q] = @ + 1]
  /\ step' = [step EXCEPT ![q] = "got"]
  /\ UNCHANGED <<pending, sent, subscribed, lagged, client>>

\* Mutant: what is queued behind another query's response is dropped.
Recv_draining(q) ==
  /\ step[q] = "waiting" /\ rx[q] < Len(chan)
  /\ IF chan[rx[q] + 1] = q
     THEN step' = [step EXCEPT ![q] = "got"] /\ rx' = [rx EXCEPT ![q] = @ + 1]
     ELSE rx' = [rx EXCEPT ![q] = Len(chan)] /\ UNCHANGED step
  /\ UNCHANGED <<pending, sent, subscribed, lagged, client>>

\* rx.recv(): the next message, unless the channel has dropped it; then the
\* receiver goes on with the oldest one kept.
Recv(q) ==
  /\ step[q] = "waiting" /\ rx[q] < Len(chan)
  /\ IF Len(chan) - rx[q] > Capacity
     THEN /\ rx' = [rx EXCEPT ![q] = Len(chan) - Capacity]
          /\ lagged' = lagged \cup {q}
          /\ UNCHANGED step
     ELSE /\ rx' = [rx EXCEPT ![q] = @ + 1]
          /\ step' = IF chan[rx[q] + 1] = q THEN [step EXCEPT ![q] = "got"]
                     ELSE step
          /\ UNCHANGED lagged
  /\ UNCHANGED <<pending, sent, subscribed, client>>

\* Mutant: only the first recv is under the timeout.
Timeout_first(q) ==
  /\ step[q] = "waiting" /\ rx[q] = Len(chan) /\ rx[q] = subscribed[q]
  /\ step' = [step EXCEPT ![q] = "expired"]
  /\ UNCHANGED <<pending, rx, sent, subscribed, lagged, client>>

\* tokio's timeout polls the receiver first and the timer only when there is
\* nothing to receive.
Timeout(q) ==
  /\ step[q] = "waiting" /\ rx[q] = Len(chan)
  /\ step' = [step EXCEPT ![q] = "expired"]
  /\ UNCHANGED <<pending, rx, sent, subscribed, lagged, client>>

\* Mutant: the timeout arm leaves the query pending.
Return_pending(q) ==
  /\ step[q] \in {"got", "expired"}
  /\ pending' = IF step[q] = "got" THEN pending \ {q} ELSE pending
  /\ step' = [step EXCEPT ![q] = IF @ = "got" THEN "answered" ELSE "timeout"]
  /\ UNCHANGED <<rx, sent, subscribed, lagged, client>>

\* Both arms of the match take the query out of the pending map.
Return(q) ==
  /\ step[q] \in {"got", "expired"}
  /\ pending' = pending \ {q}
  /\ step' = [step EXCEPT ![q] = IF @ = "got" THEN "answered" ELSE "timeout"]
  /\ UNCHANGED <<rx, sent, subscribed, lagged, client>>

\* The caller goes away and its future is dropped: nothing is cleaned up.
Drop(q) ==
  /\ step[q] \in {"stored", "waiting", "got", "expired"}
  /\ step' = [step EXCEPT ![q] = "dropped"]
  /\ UNCHANGED <<pending, rx, sent, subscribed, lagged, client>>

------------------------------------------------------------------------------
(* The client                                                               *)

\* One more response under way, within the bound.
Posted(q) == /\ posts < MaxPosts /\ posts' = posts + 1
             /\ inFlight' = [inFlight EXCEPT ![q] = @ + 1]

\* Mutant: a response to an unknown query makes it pending again.
StoreResponse_requeue(q) ==
  /\ Posted(q)
  /\ pending' = pending \cup {q}
  /\ responses' = responses \cup {q}
  /\ UNCHANGED <<step, rx, sent, subscribed, lagged, chan>>

\* Mutant: only a pending query's response is stored, all are broadcast.
StoreResponse_pending(q) ==
  /\ Posted(q)
  /\ responses' = IF q \in pending THEN responses \cup {q} ELSE responses
  /\ UNCHANGED <<sender, chan>>

\* receive_response, to the unlock of the responses map: any id is stored,
\* late, twice or never asked for.
StoreResponse(q) ==
  /\ Posted(q)
  /\ responses' = responses \cup {q}
  /\ UNCHANGED <<sender, chan>>

\* response_tx.send
Broadcast(q) ==
  /\ inFlight[q] > 0 /\ Len(chan) < MaxPosts
  /\ inFlight' = [inFlight EXCEPT ![q] = @ - 1]
  /\ chan' = Append(chan, q)
  /\ UNCHANGED <<sender, responses, posts>>

SendQuery(q) == Subscribe(q) \/ Recv(q) \/ Timeout(q) \/ Return(q)

Next == \E q \in Query : \/ StorePending(q) \/ SendQuery(q) \/ Drop(q)
                         \/ StoreResponse(q) \/ Broadcast(q)

Spec == Init /\ [][Next]_vars

\* The runtime polls a task that is ready, and timers expire.
FairSpec == Spec /\ \A q \in Query : WF_vars(SendQuery(q))

------------------------------------------------------------------------------
(* Properties.                                                              *)

\* The pending map holds the queries somebody still waits for, and those
\* whose caller was dropped: returning, answered or not, always cleans up.
PendingAreAwaited ==
  pending = {q \in Query : step[q] \in {"stored", "waiting", "got", "expired"}}
            \cup {q \in pending : step[q] = "dropped"}

\* Correlation: a query is answered only by a response posted for it while it
\* was waiting, however many responses share the channel.
AnsweredByOwnResponse ==
  \A q \in Query : step[q] \in {"got", "answered"} =>
    /\ q \in responses
    /\ \E k \in (subscribed[q] + 1)..Len(chan) : chan[k] = q

\* After a query has subscribed, no response to it is overlooked: it times
\* out only if none was broadcast by then, or if its receiver lagged.
NoResponseOverlooked ==
  \A q \in Query : step[q] \in {"waiting", "expired"} /\ q \notin lagged =>
    \A k \in (subscribed[q] + 1)..rx[q] : chan[k] # q

\* Every query returns unless its caller goes away.
QueryReturns ==
  \A q \in Query : step[q] = "stored" ~> step[q] \in {"answered", "timeout", "dropped"}

\* A query that returned, returned once and for all: a late or repeated
\* response changes nothing for the caller.
OutcomeFinal ==
  [][\A q \in Query : step[q] \in {"answered", "timeout", "dropped"} =>
       /\ step'[q] = step[q]
       /\ q \notin pending => q \notin pending']_vars

\* Comment: "The response from the client, or timeout error": a query does
\* not time out when its response has been broadcast since it was stored as
\* pending, where clients find it.
DocResponseOrTimeout ==
  [][\A q \in Query : step[q] = "waiting" /\ step'[q] = "expired" =>
       \A k \in (sent[q] + 1)..Len(chan) : chan[k] # q]_vars
==============================================================================
