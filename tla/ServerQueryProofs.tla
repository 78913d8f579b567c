-------------------------- MODULE ServerQueryProofs --------------------------
(***************************************************************************)
(* Proofs about ServerQuery, for every set of queries, every               *)
(* capacity of the broadcast channel and any number of responses: queries  *)
(* are cleaned up, answered by their own responses only, and overlook none *)
(* they could have received.                                               *)
(***************************************************************************)
EXTENDS ServerQuery, SequenceTheorems, TLAPS

\* What the steps do to the channel: it keeps its messages, and a receiver is
\* never past its end.
ChannelInv ==
  \A q \in Query : subscribed[q] <= rx[q] /\ rx[q] <= Len(chan)

\* The inductive invariant.
QueryInv == /\ TypeOK /\ ChannelInv
            /\ PendingAreAwaited /\ AnsweredByOwnResponse /\ NoResponseOverlooked

\* TypeOK and ChannelInv without the union, with the length as a number.
LEMMA Typing ==
  ASSUME TypeOK
  PROVE  /\ step \in [Query -> Steps] /\ chan \in Seq(Query)
         /\ pending \subseteq Query /\ responses \subseteq Query
         /\ lagged \subseteq Query
         /\ Len(chan) \in Nat /\ Len(chan) <= MaxPosts /\ MaxPosts \in Nat
         /\ rx \in [Query -> 0..MaxPosts] /\ subscribed \in [Query -> 0..MaxPosts]
         /\ Capacity \in Nat /\ Capacity > 0
BY QueryAssumption DEF TypeOK

\* What is broadcast was stored before.
LEMMA Stored ==
  ASSUME TypeOK
  PROVE  /\ inFlight \in [Query -> Nat] /\ posts \in Nat
         /\ \A q \in Query : inFlight[q] > 0 => q \in responses
         /\ \A k \in 1..Len(chan) : chan[k] \in responses
BY DEF TypeOK

\* The steps of send_query leave the client's variables alone, and the
\* receiver's position stays in the channel.
LEMMA TypeStep == TypeOK /\ [Next]_vars => TypeOK'
<1> SUFFICES ASSUME TypeOK, [Next]_vars PROVE TypeOK'
  OBVIOUS
<1> USE Typing
<1>1. ASSUME NEW q \in Query, StorePending(q) PROVE TypeOK'
  BY <1>1 DEF TypeOK, StorePending, client, Steps
<1>2. ASSUME NEW q \in Query, Subscribe(q) PROVE TypeOK'
  BY <1>2 DEF TypeOK, Subscribe, client, Steps
<1>3. ASSUME NEW q \in Query, Recv(q) PROVE TypeOK'
  <2>1. rx' \in [Query -> 0..MaxPosts]
    <3>1. rx[q] \in 0..MaxPosts /\ rx[q] < Len(chan) BY <1>3 DEF Recv
    <3>2. rx[q] + 1 \in 0..MaxPosts BY <3>1
    <3>3. Len(chan) - rx[q] > Capacity => Len(chan) - Capacity \in 0..MaxPosts
      BY <3>1
    <3> QED BY <1>3, <3>2, <3>3 DEF Recv
  <2>2. step' \in [Query -> Steps] BY <1>3 DEF Recv, Steps
  <2>3. lagged' \subseteq Query /\ UNCHANGED <<pending, sent, subscribed, client>>
    BY <1>3 DEF Recv
  <2> QED BY <2>1, <2>2, <2>3 DEF TypeOK, client
<1>4. ASSUME NEW q \in Query, Timeout(q) PROVE TypeOK'
  BY <1>4 DEF TypeOK, Timeout, client, Steps
<1>5. ASSUME NEW q \in Query, Return(q) PROVE TypeOK'
  BY <1>5 DEF TypeOK, Return, client, Steps
<1>6. ASSUME NEW q \in Query, Drop(q) PROVE TypeOK'
  BY <1>6 DEF TypeOK, Drop, client, Steps
<1>8. ASSUME NEW q \in Query, StoreResponse(q) PROVE TypeOK'
  <2>1. /\ responses' = responses \cup {q} /\ posts' \in Nat
        /\ inFlight' = [inFlight EXCEPT ![q] = @ + 1] /\ UNCHANGED <<sender, chan>>
    BY <1>8, Stored DEF StoreResponse, Posted
  <2>2. inFlight' \in [Query -> Nat] BY <2>1, Stored
  <2>3. \A p \in Query : inFlight'[p] > 0 => p \in responses' BY <2>1, Stored
  <2>4. \A k \in 1..Len(chan) : chan[k] \in responses' BY <2>1, Stored
  <2>5. UNION {pending, responses', lagged} \subseteq Query BY <2>1
  <2> QED BY <2>1, <2>2, <2>3, <2>4, <2>5 DEF TypeOK, sender
<1>9. ASSUME NEW q \in Query, Broadcast(q) PROVE TypeOK'
  <2>1. chan' \in Seq(Query) /\ Len(chan') = Len(chan) + 1
    BY <1>9, AppendProperties DEF Broadcast
  <2>2. /\ inFlight[q] > 0 /\ inFlight' = [inFlight EXCEPT ![q] = @ - 1]
        /\ Len(chan) < MaxPosts /\ UNCHANGED <<sender, responses, posts>>
    BY <1>9 DEF Broadcast
  <2>3. inFlight' \in [Query -> Nat] /\ q \in responses BY <2>2, Stored
  <2>4. \A p \in Query : inFlight'[p] > 0 => p \in responses
    <3> TAKE p \in Query
    <3>1. CASE p = q BY <2>3, <3>1
    <3>2. CASE p # q BY <2>2, <3>2, Stored
    <3> QED BY <3>1, <3>2
  <2>5. \A k \in 1..Len(chan') : chan'[k] \in responses
    <3>1. chan'[Len(chan) + 1] = q /\ \A k \in 1..Len(chan) : chan'[k] = chan[k]
      BY <1>9, AppendProperties DEF Broadcast
    <3>2. \A k \in 1..Len(chan') : k \in 1..Len(chan) \/ k = Len(chan) + 1
      BY <2>1
    <3> QED BY <2>3, <3>1, <3>2, Stored
  <2>6. Len(chan') <= MaxPosts BY <2>1, <2>2
  <2>7. UNCHANGED <<step, pending, responses, rx, sent, subscribed, lagged, posts>>
    BY <2>2 DEF sender
  <2> QED BY <2>1, <2>3, <2>4, <2>5, <2>6, <2>7 DEF TypeOK
<1>10. CASE UNCHANGED vars
  BY <1>10 DEF TypeOK, vars
<1> QED BY <1>1, <1>2, <1>3, <1>4, <1>5, <1>6, <1>8, <1>9, <1>10
        DEF Next, SendQuery

\* A new message is stored before it is broadcast, and the old ones stay.
LEMMA ChannelStep == TypeOK /\ ChannelInv /\ [Next]_vars => ChannelInv'
<1> SUFFICES ASSUME TypeOK, ChannelInv, [Next]_vars PROVE ChannelInv'
  OBVIOUS
<1> USE Typing
<1>1. ASSUME NEW q \in Query, Subscribe(q) PROVE ChannelInv'
  BY <1>1 DEF ChannelInv, Subscribe, client
<1>2. ASSUME NEW q \in Query, Recv(q) PROVE ChannelInv'
  <2>1. rx[q] <= rx'[q] /\ rx'[q] <= Len(chan)
    BY <1>2 DEF Recv
  <2>2. \A p \in Query \ {q} : rx'[p] = rx[p]
    BY <1>2 DEF Recv
  <2>3. \A p \in Query : subscribed[p] <= rx'[p] /\ rx'[p] <= Len(chan)
    <3> TAKE p \in Query
    <3>1. subscribed[p] \in Nat /\ rx[p] \in Nat /\ subscribed[p] <= rx[p]
          /\ rx[p] <= Len(chan)
      BY DEF ChannelInv
    <3>2. CASE p = q
      <4>1. rx'[p] \in Nat BY <1>2, <3>1, <3>2 DEF Recv
      <4> QED BY <2>1, <3>1, <3>2, <4>1
    <3>3. CASE p # q BY <2>2, <3>1, <3>3
    <3> QED BY <3>2, <3>3
  <2> QED BY <1>2, <2>3 DEF ChannelInv, Recv, client
<1>3. ASSUME NEW q \in Query, StoreResponse(q) PROVE ChannelInv'
  BY <1>3 DEF ChannelInv, StoreResponse, sender
<1>4. ASSUME NEW q \in Query, Broadcast(q) PROVE ChannelInv'
  <2>1. Len(chan') = Len(chan) + 1
    BY <1>4, AppendProperties DEF Broadcast
  <2> QED BY <1>4, <2>1 DEF ChannelInv, Broadcast, sender
<1>5. ASSUME UNCHANGED <<rx, subscribed, chan>>
      PROVE  ChannelInv'
  BY <1>5 DEF ChannelInv
<1> QED BY <1>1, <1>2, <1>3, <1>4, <1>5
        DEF Next, SendQuery, StorePending, Timeout, Return, Drop,
            sender, client, vars

\* A query is pending from its first step to its return.
LEMMA PendingStep ==
  TypeOK /\ PendingAreAwaited /\ [Next]_vars => PendingAreAwaited'
<1> SUFFICES ASSUME TypeOK, PendingAreAwaited, [Next]_vars PROVE PendingAreAwaited'
  OBVIOUS
<1> USE Typing
<1> DEFINE Awaited == {"stored", "waiting", "got", "expired"}
<1>1. \A q \in Query : step[q] \in Awaited => q \in pending
  BY DEF PendingAreAwaited
<1>2. \A q \in Query : q \in pending => step[q] \in Awaited \cup {"dropped"}
  BY DEF PendingAreAwaited
<1>3. SUFFICES /\ pending' \subseteq Query
               /\ \A q \in Query : step'[q] \in Awaited => q \in pending'
               /\ \A q \in Query : q \in pending' => step'[q] \in Awaited \cup {"dropped"}
  BY DEF PendingAreAwaited
<1>4. ASSUME NEW q \in Query, StorePending(q) \/ SendQuery(q) \/ Drop(q)
      PROVE  /\ pending' \subseteq Query
             /\ \A p \in Query : step'[p] \in Awaited => p \in pending'
             /\ \A p \in Query : p \in pending' => step'[p] \in Awaited \cup {"dropped"}
  <2>1. /\ pending' \subseteq Query
        /\ \A p \in Query \ {q} : step'[p] = step[p] /\ (p \in pending' <=> p \in pending)
    BY <1>4 DEF StorePending, SendQuery, Drop, Subscribe, Recv, Timeout, Return
  <2>2. /\ step'[q] \in Awaited => q \in pending'
        /\ q \in pending' => step'[q] \in Awaited \cup {"dropped"}
    BY <1>1, <1>2, <1>4
       DEF StorePending, SendQuery, Drop, Subscribe, Recv, Timeout, Return
  <2> QED BY <1>1, <1>2, <2>1, <2>2
<1>5. CASE UNCHANGED <<step, pending>>
  BY <1>1, <1>2, <1>5
<1> QED BY <1>4, <1>5
        DEF Next, StoreResponse, Broadcast, sender, vars

\* The response that answers a query was received after it subscribed.
LEMMA AnsweredStep ==
  QueryInv /\ [Next]_vars => AnsweredByOwnResponse'
<1> SUFFICES ASSUME QueryInv, [Next]_vars,
                    NEW p \in Query, step'[p] \in {"got", "answered"}
             PROVE  /\ p \in responses'
                    /\ \E k \in (subscribed'[p] + 1)..Len(chan') : chan'[k] = p
  BY DEF AnsweredByOwnResponse
<1> USE Typing DEF QueryInv
<1>1. ASSUME step[p] \in {"got", "answered"}, UNCHANGED subscribed
      PROVE  /\ p \in responses'
             /\ \E k \in (subscribed'[p] + 1)..Len(chan') : chan'[k] = p
  <2>1. PICK k \in (subscribed[p] + 1)..Len(chan) : chan[k] = p
    BY <1>1 DEF AnsweredByOwnResponse
  <2>2. p \in responses BY <1>1 DEF AnsweredByOwnResponse
  <2>3. responses \subseteq responses' /\ Len(chan) <= Len(chan') /\ Len(chan') \in Nat
        /\ chan'[k] = chan[k]
    <3>1. CASE \E q \in Query : Broadcast(q)
      BY <2>1, <3>1, AppendProperties DEF Broadcast
    <3>2. CASE UNCHANGED chan /\ responses \subseteq responses'
      BY <3>2
    <3> QED BY <3>1, <3>2
        DEF Next, SendQuery, StorePending, Subscribe, Recv, Timeout, Return, Drop,
            StoreResponse, sender, client, vars
  <2> QED BY <1>1, <2>1, <2>2, <2>3
<1>2. CASE \E q \in Query : Recv(q)
  <2>1. PICK q \in Query : Recv(q) BY <1>2
  <2>2. CASE step[p] \in {"got", "answered"} BY <1>1, <2>1, <2>2 DEF Recv
  <2>3. CASE step[p] \notin {"got", "answered"}
    <3>1. p = q /\ chan[rx[p] + 1] = p /\ rx[p] < Len(chan)
      BY <2>1, <2>3 DEF Recv
    <3>2. rx[p] + 1 \in (subscribed[p] + 1)..Len(chan) BY <3>1 DEF ChannelInv
    <3>3. p \in responses BY <3>1, <3>2, Stored DEF ChannelInv
    <3> QED BY <2>1, <3>1, <3>2, <3>3 DEF Recv, client
  <2> QED BY <2>2, <2>3
<1>3. CASE \E q \in Query : Subscribe(q)
  <2>1. PICK q \in Query : Subscribe(q) BY <1>3
  <2>2. p # q /\ step[p] = step'[p] /\ subscribed'[p] = subscribed[p]
    BY <2>1 DEF Subscribe
  <2> QED BY <2>1, <2>2 DEF Subscribe, client, AnsweredByOwnResponse
<1>4. CASE ~\E q \in Query : Recv(q) \/ Subscribe(q)
  <2>1. step[p] \in {"got", "answered"} /\ UNCHANGED subscribed
    BY <1>4 DEF Next, SendQuery, StorePending, Timeout, Return, Drop,
                StoreResponse, Broadcast, sender, vars
  <2> QED BY <1>1, <2>1
<1> QED BY <1>2, <1>3, <1>4

\* What a receiver has passed without lagging was not its response.
LEMMA OverlookedStep ==
  QueryInv /\ [Next]_vars => NoResponseOverlooked'
<1> SUFFICES ASSUME QueryInv, [Next]_vars, NEW p \in Query,
                    step'[p] \in {"waiting", "expired"}, p \notin lagged',
                    NEW k \in (subscribed'[p] + 1)..rx'[p]
             PROVE  chan'[k] # p
  BY DEF NoResponseOverlooked
<1> USE Typing DEF QueryInv
<1>1. ASSUME step[p] \in {"waiting", "expired"}, UNCHANGED <<rx, subscribed, lagged>>
      PROVE  chan'[k] # p
  <2>1. chan[k] # p BY <1>1 DEF NoResponseOverlooked
  <2>2. k \in 1..Len(chan) BY <1>1 DEF ChannelInv
  <2>3. chan'[k] = chan[k]
    <3>1. CASE \E q \in Query : Broadcast(q)
      BY <2>2, <3>1, AppendProperties DEF Broadcast
    <3>2. CASE UNCHANGED chan
      BY <3>2
    <3> QED BY <3>1, <3>2
        DEF Next, SendQuery, StorePending, Subscribe, Recv, Timeout, Return, Drop,
            StoreResponse, sender, client, vars
  <2> QED BY <2>1, <2>3
<1>2. CASE \E q \in Query : Recv(q)
  <2>1. PICK q \in Query : Recv(q) BY <1>2
  <2>2. UNCHANGED <<chan, subscribed>> BY <2>1 DEF Recv, client
  <2>3. CASE p # q
    BY <2>1, <2>2, <2>3 DEF Recv, NoResponseOverlooked
  <2>4. CASE p = q
    <3>1. /\ step[p] = "waiting" /\ rx'[p] = rx[p] + 1 /\ chan[rx[p] + 1] # p
          /\ p \notin lagged
      BY <2>1, <2>4 DEF Recv
    <3>2. k = rx[p] + 1 \/ k \in (subscribed[p] + 1)..rx[p]
      BY <2>2, <3>1
    <3> QED BY <2>2, <3>1, <3>2 DEF NoResponseOverlooked
  <2> QED BY <2>3, <2>4
<1>3. CASE \E q \in Query : Subscribe(q)
  <2>1. PICK q \in Query : Subscribe(q) BY <1>3
  <2>2. p # q BY <2>1 DEF Subscribe
  <2> QED BY <2>1, <2>2 DEF Subscribe, client, NoResponseOverlooked
<1>4. CASE ~\E q \in Query : Recv(q) \/ Subscribe(q)
  <2>1. step[p] \in {"waiting", "expired"} /\ UNCHANGED <<rx, subscribed, lagged>>
    BY <1>4 DEF Next, SendQuery, StorePending, Timeout, Return, Drop,
                StoreResponse, Broadcast, sender, vars
  <2> QED BY <1>1, <2>1
<1> QED BY <1>2, <1>3, <1>4

\* The invariant holds of every reachable state.
THEOREM QueryInvariant == Spec => []QueryInv
<1>1. Init => QueryInv
  <2> SUFFICES ASSUME Init PROVE QueryInv
    OBVIOUS
  <2>1. TypeOK
    BY QueryAssumption DEF Init, TypeOK, Steps
  <2>2. ChannelInv
    <3>1. Len(chan) = 0 /\ \A q \in Query : rx[q] = 0 /\ subscribed[q] = 0
      BY DEF Init
    <3>2. ASSUME NEW q \in Query PROVE subscribed[q] <= rx[q] /\ rx[q] <= Len(chan)
      <4>1. rx[q] = 0 /\ subscribed[q] = 0 /\ Len(chan) = 0 BY <3>1
      <4> QED BY <4>1
    <3> QED BY <3>2 DEF ChannelInv
  <2>3. PendingAreAwaited /\ AnsweredByOwnResponse /\ NoResponseOverlooked
    BY DEF Init, PendingAreAwaited, AnsweredByOwnResponse, NoResponseOverlooked
  <2> QED BY <2>1, <2>2, <2>3 DEF QueryInv
<1>2. QueryInv /\ [Next]_vars => QueryInv'
  BY TypeStep, ChannelStep, PendingStep, AnsweredStep, OverlookedStep DEF QueryInv
<1> QED BY <1>1, <1>2, PTL DEF Spec

\* Every variable has its type, and no response is broadcast that is not
\* stored (receive_response).
THEOREM TypeCorrect == Spec => []TypeOK
BY QueryInvariant, PTL DEF QueryInv

\* The pending map holds exactly the queries somebody waits for and those whose
\* caller was dropped: answered or timed out, send_query cleans up.
THEOREM ReturnsCleanUp == Spec => []PendingAreAwaited
BY QueryInvariant, PTL DEF QueryInv

\* A query is answered only by a response to it that was broadcast after it
\* subscribed, for any number of queries that share the channel
\* (wait_for_response).
THEOREM AnswersCorrelate == Spec => []AnsweredByOwnResponse
BY QueryInvariant, PTL DEF QueryInv

\* No response broadcast after the subscription is passed over, unless the
\* channel had dropped it, for every capacity (wait_for_response).
THEOREM ResponsesAreSeen == Spec => []NoResponseOverlooked
BY QueryInvariant, PTL DEF QueryInv

\* A query that returned stays returned and is not pending again, whatever
\* responses come late or twice (send_query, receive_response).
THEOREM OutcomesAreFinal == Spec => OutcomeFinal
<1>1. TypeOK /\ [Next]_vars =>
        [\A q \in Query : step[q] \in {"answered", "timeout", "dropped"} =>
           /\ step'[q] = step[q]
           /\ q \notin pending => q \notin pending']_vars
  <2> SUFFICES ASSUME TypeOK, [Next]_vars, NEW q \in Query,
                      step[q] \in {"answered", "timeout", "dropped"}
               PROVE  step'[q] = step[q] /\ (q \notin pending => q \notin pending')
    OBVIOUS
  <2> QED BY Typing
      DEF Next, SendQuery, StorePending, Subscribe, Recv, Timeout, Return, Drop,
          StoreResponse, Broadcast, sender, vars
<1> QED BY <1>1, TypeCorrect, PTL DEF Spec, OutcomeFinal
==============================================================================
