----------------------------- MODULE AgentProofs -----------------------------
(***************************************************************************)
(* Theorems about Agent, for every set of tools, replies and call ids and  *)
(* every max_retries.  AnswersKeepTheirRound and HooksComeFirst say what a *)
(* careful caller gains; the others hold for a caller of either kind.      *)
(***************************************************************************)
EXTENDS Agent, TLAPS

------------------------------------------------------------------------------
(* The operators the model is built from.                                   *)

\* A user's and an assistant's message are messages.
LEMMA MessageTypes ==
  /\ UserMsg \in Message
  /\ \A calls \in Replies, n \in Nat : AssistantMsg(calls, n) \in Message
BY DEF UserMsg, AssistantMsg, Message

\* A response's calls become as many executions, with the same ids, none of
\* them complete (process_llm_response).
LEMMA PendingExecutionsType ==
  ASSUME NEW calls \in Replies
  PROVE  /\ PendingExecutions(calls) \in Seq(ToolExecutionStatus)
         /\ Len(PendingExecutions(calls)) = Len(calls)
         /\ \A k \in 1..Len(calls) : /\ PendingExecutions(calls)[k].id = calls[k].id
                                     /\ ~PendingExecutions(calls)[k].done
<1>1. calls \in Seq(Call)
  BY RepliesAssumption
<1>a. \A k \in 1..Len(calls) : calls[k] \in Call
  BY <1>1
<1>2. \A k \in 1..Len(calls) : calls[k].id \in CallId /\ calls[k].tool \in Tool
  BY <1>a DEF Call
<1>3. \A k \in 1..Len(calls) :
        [id |-> calls[k].id, tool |-> calls[k].tool, done |-> FALSE,
         ok |-> FALSE, round |-> 0] \in ToolExecutionStatus
  BY <1>2 DEF ToolExecutionStatus
<1> QED
  BY <1>1, <1>3 DEF PendingExecutions

\* Marking a result keeps the executions, their order and their ids.
LEMMA MarkedType ==
  ASSUME NEW execs \in Seq(ToolExecutionStatus),
         NEW r \in [id : CallId, round : Nat], NEW ok \in BOOLEAN
  PROVE  /\ Marked(execs, r, ok) \in Seq(ToolExecutionStatus)
         /\ Len(Marked(execs, r, ok)) = Len(execs)
         /\ \A k \in 1..Len(execs) : Marked(execs, r, ok)[k].id = execs[k].id
<1> DEFINE m(k) == IF execs[k].id = r.id
                   THEN [execs[k] EXCEPT !.done = TRUE, !.ok = ok, !.round = r.round]
                   ELSE execs[k]
<1>a. \A k \in 1..Len(execs) : execs[k] \in ToolExecutionStatus
  OBVIOUS
<1>1. \A k \in 1..Len(execs) : /\ m(k) \in ToolExecutionStatus
                               /\ m(k).id = execs[k].id
  BY <1>a DEF ToolExecutionStatus
<1>2. Marked(execs, r, ok) = [k \in 1..Len(execs) |-> m(k)]
  BY DEF Marked
<1> HIDE DEF m
<1> QED
  BY <1>1, <1>2

\* The tool messages answer the executions one by one.
LEMMA ToolMessagesType ==
  ASSUME NEW execs \in Seq(ToolExecutionStatus)
  PROVE  /\ ToolMessages(execs) \in Seq(Message)
         /\ Len(ToolMessages(execs)) = Len(execs)
         /\ \A k \in 1..Len(execs) : /\ ToolMessages(execs)[k].role = "tool"
                                     /\ ToolMessages(execs)[k].id = execs[k].id
<1> DEFINE m(k) == [role |-> "tool", asked |-> <<>>, id |-> execs[k].id,
                    ok |-> execs[k].ok, round |-> execs[k].round]
<1>a. \A k \in 1..Len(execs) : execs[k] \in ToolExecutionStatus
  OBVIOUS
<1>1. \A k \in 1..Len(execs) : m(k) \in Message /\ m(k).role = "tool"
                                                /\ m(k).id = execs[k].id
  BY <1>a DEF ToolExecutionStatus, Message
<1>2. ToolMessages(execs) = [k \in 1..Len(execs) |-> m(k)]
  BY DEF ToolMessages
<1> HIDE DEF m
<1> QED
  BY <1>1, <1>2

\* What the hook is told about the executions.
LEMMA CompletedToolsType ==
  ASSUME NEW execs \in Seq(ToolExecutionStatus)
  PROVE  extract_completed_tools(execs) \in
           Seq([tool_name : Tool, succeeded : BOOLEAN])
<1> DEFINE m(k) == [tool_name |-> execs[k].tool, succeeded |-> execs[k].ok]
<1>1. \A k \in 1..Len(execs) : execs[k] \in ToolExecutionStatus
  OBVIOUS
<1>2. \A k \in 1..Len(execs) : m(k) \in [tool_name : Tool, succeeded : BOOLEAN]
  BY <1>1 DEF ToolExecutionStatus
<1>3. extract_completed_tools(execs) = [k \in 1..Len(execs) |-> m(k)]
  BY DEF extract_completed_tools
<1> HIDE DEF m
<1> QED
  BY <1>2, <1>3

\* A request that goes out.
LEMMA StreamsType ==
  ASSUME NEW open, open \subseteq [req : Seq(Message), attempt : Nat],
         NEW msgs \in Seq(Message), NEW n \in Nat
  PROVE  open \cup {[req |-> msgs, attempt |-> n]} \subseteq [req : Seq(Message), attempt : Nat]
<1>1. [req |-> msgs, attempt |-> n] \in [req : Seq(Message), attempt : Nat] OBVIOUS
<1> QED BY <1>1

------------------------------------------------------------------------------
(* Type correctness.                                                        *)

\* The steps the agent has no part in: an event it ignores, a timer armed, a
\* stream that ends without an event.
IgnoredStep ==
  LateEvent \/ ArmRetryTimer \/ \E s \in streams : StreamEndsSilently(s)

\* TypeOK is inductive: every match arm of handle_event, and everything the
\* caller does with the action it returns, keeps the types and empties the
\* payload of the variant it leaves.
LEMMA TypeStep ==
  ASSUME TypeOK, [Next]_vars
  PROVE  TypeOK'
<1> USE DEF TypeOK, States
<1>1. CASE UserInput
  <2>1. conversation' \in Seq(Message)
    BY <1>1, MessageTypes DEF UserInput
  <2>2. streams' \subseteq [req : Seq(Message), attempt : Nat]
    <3>1. streams' = streams \cup {[req |-> conversation', attempt |-> 0]}
      BY <1>1 DEF UserInput, SendLlmRequest
    <3> QED
      BY <2>1, <3>1, StreamsType
  <2>3. deserted' \in BOOLEAN
    BY <1>1, Zenon DEF UserInput, SendLlmRequest
  <2> QED
    BY <1>1, <2>1, <2>2, <2>3 DEF UserInput
<1>2. ASSUME NEW s \in streams, NEW calls \in Replies, LlmCompleted(s, calls)
      PROVE  TypeOK'
  <2>1. Len(s.req) \in Nat
    OBVIOUS
  <2>2. conversation' \in Seq(Message)
    BY <1>2, <2>1, MessageTypes DEF LlmCompleted
  <2>3. CASE calls # <<>>
    <3>1. executions' \in Seq(ToolExecutionStatus)
      BY <1>2, <2>3, PendingExecutionsType DEF LlmCompleted
    <3>2. calls \in Seq(Call)
      BY RepliesAssumption
    <3>3. \A k \in 1..Len(calls) : calls[k] \in Call
      BY <3>2
    <3>4. \A k \in 1..Len(calls) : calls[k].id \in CallId
      BY <3>3 DEF Call
    <3>5. runs' \subseteq [id : CallId, round : Nat]
      <4>1. Len(conversation') \in Nat BY <2>2
      <4>2. runs' = runs \cup {[id |-> calls[k].id, round |-> Len(conversation')] :
                                 k \in 1..Len(calls)}
        BY <1>2, <2>3 DEF LlmCompleted
      <4>3. \A k \in 1..Len(calls) :
              [id |-> calls[k].id, round |-> Len(conversation')] \in
                [id : CallId, round : Nat]
        BY <3>4, <4>1
      <4> QED BY <4>2, <4>3
    <3> QED
      BY <1>2, <2>2, <2>3, <3>1, <3>5 DEF LlmCompleted
  <2>4. CASE calls = <<>>
    BY <1>2, <2>2, <2>4 DEF LlmCompleted
  <2> QED
    BY <2>3, <2>4
<1>3. ASSUME NEW s \in streams, LlmError(s)
      PROVE  TypeOK'
  <2>1. streams' \subseteq [req : Seq(Message), attempt : Nat]
    BY <1>3 DEF LlmError, AfterError
  <2>2. UNCHANGED <<conversation, executions, pending_llm_request,
                    completed_tools, runs, hooks, timers, attempts, hooked, deserted>>
    BY <1>3 DEF LlmError, history
  <2>3. /\ retries' \in Nat /\ (retries' = 0 \/ retries' < MaxRetries)
        /\ state' \notin {"CallingLlm", "Error"} => retries' = 0
    BY <1>3, BoundsAssumption DEF LlmError, CanRetry
  <2>4. state = "CallingLlm" /\ state' \in {"Error", "WaitingForUserInput"}
    BY <1>3 DEF LlmError
  <2> QED
    BY <2>1, <2>2, <2>3, <2>4
<1>4. CASE RetryTimeoutFired
  <2>1. streams' \subseteq [req : Seq(Message), attempt : Nat]
    BY <1>4 DEF RetryTimeoutFired, SendLlmRequest
  <2>2. timers' \in BOOLEAN /\ deserted' \in BOOLEAN
    BY <1>4, BoundsAssumption, Zenon DEF RetryTimeoutFired, SendLlmRequest
  <2> QED
    BY <1>4, <2>1, <2>2 DEF RetryTimeoutFired
<1>5. ASSUME NEW r \in runs, NEW ok \in BOOLEAN, ToolCompleted(r, ok)
      PROVE  TypeOK'
  <2> DEFINE marked == Marked(executions, r, ok)
             conv   == conversation \o ToolMessages(marked)
  <2>1. marked \in Seq(ToolExecutionStatus)
    BY MarkedType
  <2>2. conv \in Seq(Message)
    BY <2>1, ToolMessagesType
  <2>3. extract_completed_tools(marked) \in
          Seq([tool_name : Tool, succeeded : BOOLEAN])
    BY <2>1, CompletedToolsType
  <2>4. runs' \subseteq [id : CallId, round : Nat]
    BY <1>5 DEF ToolCompleted
  <2> HIDE DEF marked, conv
  <2>5. CASE ~AllComplete(marked)
    <3>1. /\ executions' = marked /\ state = "ExecutingTools"
          /\ UNCHANGED <<state, conversation, retries, pending_llm_request,
                         completed_tools, streams, hooks, timers, attempts,
                         hooked, deserted>>
      BY <1>5, <2>5 DEF ToolCompleted, marked
    <3> QED
      BY <2>1, <2>4, <3>1
  <2>6. CASE AllComplete(marked) /\ has_mutating_tools(marked)
    <3>1. /\ executions' = <<>> /\ conversation' = conv /\ state = "ExecutingTools"
          /\ EnterPostToolsHook(marked, conv)
          /\ UNCHANGED <<retries, streams, timers, attempts, hooked, deserted>>
      BY <1>5, <2>6 DEF ToolCompleted, marked, conv
    <3>2. Len(conv) \in Nat
      BY <2>2
    <3>3. hooks' \subseteq Nat
      BY <3>1, <3>2 DEF EnterPostToolsHook
    <3> QED
      BY <2>2, <2>3, <2>4, <3>1, <3>3 DEF EnterPostToolsHook
  <2>7. CASE AllComplete(marked) /\ ~has_mutating_tools(marked)
    <3>1. /\ executions' = <<>> /\ conversation' = conv
          /\ state = "ExecutingTools" /\ state' = "CallingLlm"
          /\ SendLlmRequest(conv, 0) /\ attempts' = 1
          /\ UNCHANGED <<pending_llm_request, completed_tools, retries, hooks,
                         timers, hooked>>
      BY <1>5, <2>7 DEF ToolCompleted, marked, conv
    <3>2. streams' \subseteq [req : Seq(Message), attempt : Nat]
      BY <2>2, <3>1 DEF SendLlmRequest
    <3>3. deserted' \in BOOLEAN
      BY <3>1, Zenon DEF SendLlmRequest
    <3> QED
      BY <2>2, <2>4, <3>1, <3>2, <3>3
  <2> QED
    BY <2>5, <2>6, <2>7
<1>6. ASSUME NEW h \in hooks, PostToolsHookCompleted(h)
      PROVE  TypeOK'
  <2>1. deserted' \in BOOLEAN
    BY <1>6, Zenon DEF PostToolsHookCompleted, SendLlmRequest
  <2> QED
    BY <1>6, <2>1 DEF PostToolsHookCompleted, SendLlmRequest
<1>7. CASE ShutdownRequested
  BY <1>7 DEF ShutdownRequested, callerVars, history
<1>8. CASE IgnoredStep
  BY <1>8 DEF IgnoredStep, StreamEndsSilently, ArmRetryTimer,
     LateEvent, LateLlmEvent, LateToolCompleted,
     LatePostToolsHookCompleted, LateRetryTimeout, agentVars, history
<1>9. CASE UNCHANGED vars
  BY <1>9 DEF vars, agentVars, callerVars, history
<1> QED
  BY <1>1, <1>2, <1>3, <1>4, <1>5, <1>6, <1>7, <1>8, <1>9
     DEF Next, IgnoredStep, LlmEvent, ToolEvent, HookEvent

\* Every reachable state of the agent and its caller is well typed.
THEOREM TypeCorrect == Spec => []TypeOK
<1>1. Init => TypeOK
  <2> SUFFICES ASSUME Init PROVE TypeOK
    OBVIOUS
  <2>1. \A S : <<>> \in Seq(S)
    OBVIOUS
  <2>2. timers \in BOOLEAN
    BY Zenon DEF Init
  <2> QED
    BY <2>1, <2>2 DEF Init, TypeOK, States
<1> QED
  BY <1>1, TypeStep, PTL DEF Spec

------------------------------------------------------------------------------
(* The retry budget.                                                        *)

\* A retry counts its attempt before it is made, so the count never passes
\* the budget however errors, stale errors and timers interleave.
LEMMA AttemptsStep ==
  ASSUME TypeOK, AttemptsBounded, [Next]_vars
  PROVE  AttemptsBounded'
<1> USE BoundsAssumption DEF TypeOK, AttemptsBounded
<1>1. CASE UserInput
  BY <1>1 DEF UserInput
<1>2. ASSUME NEW s \in streams, NEW calls \in Replies, LlmCompleted(s, calls)
      PROVE  AttemptsBounded'
  BY <1>2 DEF LlmCompleted
<1>3. ASSUME NEW s \in streams, LlmError(s)
      PROVE  AttemptsBounded'
  BY <1>3 DEF LlmError, CanRetry, history
<1>4. CASE RetryTimeoutFired
  BY <1>4 DEF RetryTimeoutFired
<1>5. ASSUME NEW r \in runs, NEW ok \in BOOLEAN, ToolCompleted(r, ok)
      PROVE  AttemptsBounded'
  BY <1>5 DEF ToolCompleted, EnterPostToolsHook
<1>6. ASSUME NEW h \in hooks, PostToolsHookCompleted(h)
      PROVE  AttemptsBounded'
  BY <1>6 DEF PostToolsHookCompleted
<1>7. CASE ShutdownRequested
  BY <1>7 DEF ShutdownRequested, history
<1>8. CASE IgnoredStep
  BY <1>8 DEF IgnoredStep, StreamEndsSilently, ArmRetryTimer,
     LateEvent, LateLlmEvent, LateToolCompleted,
     LatePostToolsHookCompleted, LateRetryTimeout, agentVars, history
<1>9. CASE UNCHANGED vars
  BY <1>9 DEF vars, agentVars, history
<1> QED
  BY <1>1, <1>2, <1>3, <1>4, <1>5, <1>6, <1>7, <1>8, <1>9
     DEF Next, IgnoredStep, LlmEvent, ToolEvent, HookEvent

\* For every max_retries, no request is sent more often than that (once if it
\* is 0), whatever the caller repeats.
THEOREM RetryBudget == Spec => []AttemptsBounded
<1>1. Init => AttemptsBounded
  BY BoundsAssumption DEF Init, AttemptsBounded
<1> QED
  BY <1>1, TypeCorrect, AttemptsStep, PTL DEF Spec

------------------------------------------------------------------------------
(* The transcript.                                                          *)

\* The calls of a message are a sequence.
LEMMA CallsLength ==
  ASSUME NEW m \in Message
  PROVE  Len(m.asked) \in Nat
<1>1. m.asked \in Replies \cup {<<>>}
  BY DEF Message
<1>2. Replies \subseteq Seq(Call) /\ <<>> \in Seq(Call)
  BY RepliesAssumption
<1>3. m.asked \in Seq(Call)
  BY <1>1, <1>2
<1> QED
  BY <1>3

\* Whether the messages up to n are answered depends on them alone.
LEMMA AnsweredPrefix ==
  ASSUME NEW m \in Seq(Message), NEW w \in Seq(Message), NEW n \in Nat,
         n <= Len(m), n <= Len(w), \A i \in 1..n : w[i] = m[i],
         AnsweredUpTo(m, n)
  PROVE  AnsweredUpTo(w, n)
<1>1. \A i \in 1..n : Len(m[i].asked) \in Nat
  BY CallsLength
<1>2. ASSUME NEW i \in 1..n, w[i].role = "assistant",
             NEW k \in 1..Len(w[i].asked)
      PROVE  /\ i + k <= n
             /\ w[i + k].role = "tool"
             /\ w[i + k].id = w[i].asked[k].id
  <2>1. w[i] = m[i] /\ Len(m[i].asked) \in Nat
    BY <1>1
  <2>2. m[i].role = "assistant" /\ k \in 1..Len(m[i].asked)
    BY <1>2, <2>1
  <2>3. i + k <= n /\ m[i + k].role = "tool" /\ m[i + k].id = m[i].asked[k].id
    BY <2>2 DEF AnsweredUpTo
  <2>4. i + k \in 1..n
    BY <2>1, <2>3
  <2> QED
    BY <2>1, <2>3, <2>4
<1>3. ASSUME NEW j \in 1..n, w[j].role = "tool"
      PROVE  \E i \in 1..n : /\ i < j /\ w[i].role = "assistant"
                             /\ j <= i + Len(w[i].asked)
  BY <1>3 DEF AnsweredUpTo
<1> QED
  BY <1>2, <1>3 DEF AnsweredUpTo

\* A user's message, or an answer without calls, may follow an answered
\* transcript.
LEMMA AnsweredAppend ==
  ASSUME NEW m \in Seq(Message), NEW x \in Message, x.role # "tool",
         x.role = "assistant" => x.asked = <<>>, Answered(m)
  PROVE  Answered(Append(m, x))
<1> DEFINE w == Append(m, x)
           n == Len(m)
<1>1. /\ w \in Seq(Message) /\ Len(w) = n + 1 /\ n \in Nat
      /\ \A i \in 1..n : w[i] = m[i]
      /\ w[n + 1] = x
  OBVIOUS
<1>a. AnsweredUpTo(m, n)
  BY DEF Answered
<1> HIDE DEF w
<1>2. AnsweredUpTo(w, n)
  BY <1>1, <1>a, AnsweredPrefix
<1> HIDE DEF n
<1>3. \A i \in 1..n : Len(w[i].asked) \in Nat
  BY <1>1, CallsLength
<1>4. AnsweredUpTo(w, n + 1)
  BY <1>1, <1>2, <1>3 DEF AnsweredUpTo
<1> QED
  BY <1>1, <1>4 DEF Answered, w

\* The sequence two sequences make.
LEMMA Concatenation ==
  ASSUME NEW S, NEW a \in Seq(S), NEW b \in Seq(S)
  PROVE  /\ a \o b \in Seq(S) /\ Len(a \o b) = Len(a) + Len(b)
         /\ \A i \in 1..Len(a) : (a \o b)[i] = a[i]
         /\ \A k \in 1..Len(b) : (a \o b)[Len(a) + k] = b[k]
OBVIOUS

\* A complete block of results answers the message that asked for them.
LEMMA AnsweredBlock ==
  ASSUME NEW m \in Seq(Message), Len(m) > 0, AnsweredUpTo(m, Len(m) - 1),
         m[Len(m)].role = "assistant",
         NEW res \in Seq(Message), Len(res) = Len(m[Len(m)].asked),
         \A k \in 1..Len(res) : /\ res[k].role = "tool"
                                /\ res[k].id = m[Len(m)].asked[k].id
  PROVE  Answered(m \o res)
<1> DEFINE w == m \o res
           n == Len(m)
           c == Len(res)
<1>n. n \in Nat /\ c \in Nat /\ n > 0
  OBVIOUS
<1>w. w \in Seq(Message) /\ Len(w) = n + c
  BY Concatenation
<1>1. /\ w \in Seq(Message) /\ Len(w) = n + c /\ n \in Nat \ {0} /\ c \in Nat
  BY <1>n, <1>w
<1>a. \A i \in 1..n : w[i] = m[i]
  OBVIOUS
<1>b. \A k \in 1..c : w[n + k] = res[k]
  OBVIOUS
<1>c. \A i \in 1..(n - 1) : w[i] = m[i]
  BY <1>1, <1>a
<1>d. n - 1 \in Nat /\ n - 1 <= Len(m) /\ n - 1 <= Len(w) /\ AnsweredUpTo(m, n - 1)
  BY <1>1
<1> HIDE DEF w
<1>2. AnsweredUpTo(w, n - 1)
  <2> DEFINE p == n - 1
  <2> HIDE DEF p
  <2>1. /\ p \in Nat /\ p <= Len(m) /\ p <= Len(w) /\ AnsweredUpTo(m, p)
        /\ \A i \in 1..p : w[i] = m[i]
    BY <1>c, <1>d DEF p
  <2>2. AnsweredUpTo(w, p)
    BY <1>w, <2>1, AnsweredPrefix
  <2> QED
    BY <2>2 DEF p
<1>3. /\ w[n].role = "assistant" /\ Len(w[n].asked) = c
      /\ \A k \in 1..c : w[n + k].role = "tool" /\ w[n + k].id = w[n].asked[k].id
  BY <1>1, <1>a, <1>b
<1> HIDE DEF n, c
<1>4. \A i \in 1..(n + c) : Len(w[i].asked) \in Nat
  BY <1>1, CallsLength
<1>5. ASSUME NEW i \in 1..(n + c), w[i].role = "assistant",
             NEW k \in 1..Len(w[i].asked)
      PROVE  /\ i + k <= n + c
             /\ w[i + k].role = "tool"
             /\ w[i + k].id = w[i].asked[k].id
  <2>1. CASE i < n
    <3>1. i \in 1..(n - 1) /\ Len(w[i].asked) \in Nat
      BY <1>1, <1>4, <2>1
    <3>2. /\ i + k <= n - 1 /\ w[i + k].role = "tool"
          /\ w[i + k].id = w[i].asked[k].id
      BY <1>2, <1>5, <3>1 DEF AnsweredUpTo
    <3> QED
      BY <1>1, <3>1, <3>2
  <2>2. CASE i = n
    BY <1>1, <1>3, <1>5, <2>2
  <2>3. CASE i > n
    <3>1. i - n \in 1..c /\ i = n + (i - n)
      BY <1>1, <2>3
    <3>2. w[i].role = "tool"
      BY <1>3, <3>1
    <3> QED
      BY <1>5, <3>2
  <2> QED
    BY <1>1, <2>1, <2>2, <2>3
<1>6. ASSUME NEW j \in 1..(n + c), w[j].role = "tool"
      PROVE  \E i \in 1..(n + c) : /\ i < j /\ w[i].role = "assistant"
                                   /\ j <= i + Len(w[i].asked)
  <2>1. CASE j < n
    BY <1>1, <1>2, <1>6, <2>1 DEF AnsweredUpTo
  <2>2. CASE j > n
    <3>1. n \in 1..(n + c) /\ n < j /\ j <= n + Len(w[n].asked)
      BY <1>1, <1>3, <2>2
    <3> QED
      BY <1>3, <3>1
  <2>3. j # n
    BY <1>3, <1>6
  <2> QED
    BY <1>1, <2>1, <2>2, <2>3
<1>7. AnsweredUpTo(w, n + c)
  BY <1>5, <1>6 DEF AnsweredUpTo
<1> QED
  BY <1>1, <1>7 DEF Answered, w

\* While its tools run, the conversation ends with the message that asked for
\* exactly the executions, and something is still to be done.
Asking(conv, execs) ==
  /\ Len(conv) > 0 /\ AnsweredUpTo(conv, Len(conv) - 1)
  /\ conv[Len(conv)].role = "assistant"
  /\ Len(conv[Len(conv)].asked) = Len(execs)
  /\ \A k \in 1..Len(execs) : execs[k].id = conv[Len(conv)].asked[k].id
  /\ ~AllComplete(execs)

\* An answer with calls, and the executions made from them, are Asking.
LEMMA AskingStarts ==
  ASSUME NEW m \in Seq(Message), Answered(m), NEW calls \in Replies, NEW n \in Nat,
         calls # <<>>
  PROVE  Asking(Append(m, AssistantMsg(calls, n)), PendingExecutions(calls))
<1> DEFINE x == AssistantMsg(calls, n)
           w == Append(m, x)
           e == PendingExecutions(calls)
<1>1. x \in Message /\ x.role = "assistant" /\ x.asked = calls
  BY MessageTypes DEF AssistantMsg
<1> HIDE DEF x
<1>2. /\ w \in Seq(Message) /\ Len(w) = Len(m) + 1 /\ w[Len(w)] = x
      /\ \A i \in 1..Len(m) : w[i] = m[i]
  BY <1>1
<1>3. AnsweredUpTo(w, Len(m))
  <2> HIDE DEF w
  <2>1. /\ Len(m) \in Nat /\ Len(m) <= Len(w) /\ Len(m) <= Len(m)
        /\ AnsweredUpTo(m, Len(m))
    BY <1>2 DEF Answered
  <2> QED
    BY <1>2, <2>1, AnsweredPrefix
<1>4. /\ Len(e) = Len(calls)
      /\ \A k \in 1..Len(calls) : e[k].id = calls[k].id /\ ~e[k].done
      /\ e \in Seq(ToolExecutionStatus)
  BY PendingExecutionsType
<1>5. Len(calls) \in Nat /\ Len(calls) # 0
  BY RepliesAssumption
<1>6. ~AllComplete(e)
  <2> HIDE DEF e
  <2>1. 1 \in DOMAIN e /\ ~e[1].done
    BY <1>4, <1>5
  <2> QED
    BY <2>1 DEF AllComplete
<1> HIDE DEF w, e
<1>7. Len(w) > 0 /\ Len(w) - 1 = Len(m)
  BY <1>2
<1> QED
  BY <1>1, <1>2, <1>3, <1>4, <1>6, <1>7 DEF Asking, w, e, x

\* The transcript invariant is inductive.
LEMMA TranscriptStep ==
  ASSUME TypeOK, TypeOK', TranscriptWellFormed, [Next]_vars
  PROVE  TranscriptWellFormed'
<1>a. TranscriptWellFormed <=>
        /\ \A s \in streams : Answered(s.req)
        /\ Answered(pending_llm_request)
        /\ IF state # "ExecutingTools" THEN Answered(conversation)
           ELSE Asking(conversation, executions)
  BY DEF TranscriptWellFormed, Asking
<1>b. TranscriptWellFormed' <=>
        /\ \A s \in streams' : Answered(s.req)
        /\ Answered(pending_llm_request')
        /\ IF state' # "ExecutingTools" THEN Answered(conversation')
           ELSE Asking(conversation', executions')
  BY DEF TranscriptWellFormed, Asking, Answered
<1>c. Answered(<<>>)
  BY DEF Answered, AnsweredUpTo
<1>t. /\ conversation \in Seq(Message) /\ pending_llm_request \in Seq(Message)
      /\ streams \subseteq [req : Seq(Message), attempt : Nat]
      /\ executions \in Seq(ToolExecutionStatus)
      /\ runs \subseteq [id : CallId, round : Nat]
  BY DEF TypeOK
<1>1. CASE UserInput
  <2>1. Answered(conversation')
    BY <1>1, <1>a, <1>t, MessageTypes, AnsweredAppend DEF UserInput, UserMsg
  <2>2. /\ state' = "CallingLlm" /\ UNCHANGED pending_llm_request
        /\ streams' = streams \cup {[req |-> conversation', attempt |-> 0]}
    BY <1>1 DEF UserInput, SendLlmRequest
  <2> QED
    BY <1>a, <1>b, <2>1, <2>2
<1>2. ASSUME NEW s \in streams, NEW calls \in Replies, LlmCompleted(s, calls)
      PROVE  TranscriptWellFormed'
  <2>1. Answered(conversation) /\ Len(s.req) \in Nat
    BY <1>2, <1>a, <1>t DEF LlmCompleted
  <2>2. /\ conversation' = Append(conversation, AssistantMsg(calls, Len(s.req)))
        /\ streams' \subseteq streams /\ UNCHANGED pending_llm_request
    BY <1>2 DEF LlmCompleted
  <2>3. CASE calls # <<>>
    <3>1. state' = "ExecutingTools" /\ executions' = PendingExecutions(calls)
      BY <1>2, <2>3 DEF LlmCompleted
    <3>2. Asking(conversation', executions')
      BY <1>t, <2>1, <2>2, <2>3, <3>1, AskingStarts
    <3> QED
      BY <1>a, <1>b, <2>2, <3>1, <3>2
  <2>4. CASE calls = <<>>
    <3>1. state' = "WaitingForUserInput"
      BY <1>2, <2>4 DEF LlmCompleted
    <3>2. /\ AssistantMsg(calls, Len(s.req)) \in Message
          /\ AssistantMsg(calls, Len(s.req)).role # "tool"
          /\ AssistantMsg(calls, Len(s.req)).asked = <<>>
      BY <2>1, <2>4, MessageTypes DEF AssistantMsg
    <3>3. Answered(conversation')
      BY <1>t, <2>1, <2>2, <3>2, AnsweredAppend
    <3> QED
      BY <1>a, <1>b, <2>2, <3>1, <3>3
  <2> QED
    BY <2>3, <2>4
<1>3. ASSUME NEW s \in streams, LlmError(s)
      PROVE  TranscriptWellFormed'
  BY <1>3, <1>a, <1>b DEF LlmError, AfterError
<1>4. CASE RetryTimeoutFired
  BY <1>4, <1>a, <1>b DEF RetryTimeoutFired, SendLlmRequest
<1>5. ASSUME NEW r \in runs, NEW ok \in BOOLEAN, ToolCompleted(r, ok)
      PROVE  TranscriptWellFormed'
  <2> DEFINE marked == Marked(executions, r, ok)
             conv   == conversation \o ToolMessages(marked)
  <2>1. Asking(conversation, executions)
    BY <1>5, <1>a DEF ToolCompleted
  <2>2. /\ marked \in Seq(ToolExecutionStatus) /\ Len(marked) = Len(executions)
        /\ \A k \in 1..Len(executions) : marked[k].id = executions[k].id
    BY <1>t, MarkedType
  <2>3. CASE ~AllComplete(marked)
    <3>1. executions' = marked /\ UNCHANGED <<state, conversation, streams, pending_llm_request>>
      BY <1>5, <2>3 DEF ToolCompleted
    <3>2. state = "ExecutingTools"
      BY <1>5 DEF ToolCompleted
    <3> HIDE DEF marked
    <3>3. Asking(conversation, marked)
      BY <2>1, <2>2, <2>3 DEF Asking
    <3> QED
      BY <1>a, <1>b, <3>1, <3>2, <3>3
  <2>4. CASE AllComplete(marked)
    <3> HIDE DEF marked
    <3> DEFINE res == ToolMessages(marked)
    <3>1. /\ res \in Seq(Message) /\ Len(res) = Len(marked)
          /\ \A k \in 1..Len(marked) : res[k].role = "tool" /\ res[k].id = marked[k].id
      BY <2>2, ToolMessagesType
    <3> HIDE DEF res
    <3>2. Answered(conversation \o res)
      BY <1>t, <2>1, <2>2, <3>1, AnsweredBlock DEF Asking
    <3>3. Answered(conv)
      BY <3>2 DEF res
    <3> HIDE DEF conv
    <3>4. CASE has_mutating_tools(marked)
      <4>1. /\ state' = "PostToolsHook" /\ conversation' = conv
            /\ pending_llm_request' = conv /\ UNCHANGED streams
        BY <1>5, <2>4, <3>4 DEF ToolCompleted, EnterPostToolsHook, marked, conv
      <4> QED
        BY <1>a, <1>b, <3>3, <4>1
    <3>5. CASE ~has_mutating_tools(marked)
      <4>1. /\ state' = "CallingLlm" /\ conversation' = conv
            /\ UNCHANGED pending_llm_request
            /\ streams' = streams \cup {[req |-> conv, attempt |-> 0]}
        BY <1>5, <2>4, <3>5 DEF ToolCompleted, SendLlmRequest, marked, conv
      <4> QED
        BY <1>a, <1>b, <3>3, <4>1
    <3> QED
      BY <3>4, <3>5
  <2> QED
    BY <2>3, <2>4
<1>6. ASSUME NEW h \in hooks, PostToolsHookCompleted(h)
      PROVE  TranscriptWellFormed'
  BY <1>6, <1>a, <1>b, <1>c DEF PostToolsHookCompleted, SendLlmRequest
<1>7. CASE ShutdownRequested
  BY <1>7, <1>a, <1>b, <1>c DEF ShutdownRequested, callerVars
<1>8. CASE IgnoredStep
  BY <1>8, <1>a, <1>b DEF IgnoredStep, StreamEndsSilently, ArmRetryTimer,
     LateEvent, LateLlmEvent, LateToolCompleted,
     LatePostToolsHookCompleted, LateRetryTimeout, agentVars
<1>9. CASE UNCHANGED vars
  BY <1>9, <1>a, <1>b DEF vars, agentVars, callerVars
<1> QED
  BY <1>1, <1>2, <1>3, <1>4, <1>5, <1>6, <1>7, <1>8, <1>9
     DEF Next, IgnoredStep, LlmEvent, ToolEvent, HookEvent

\* Whatever the replies, and however often and late the caller repeats an
\* event, every request that goes out holds one result for each tool call of
\* every response so far, right after it and in the order asked.
THEOREM TranscriptCorrect == Spec => []TranscriptWellFormed
<1>1. Init => TranscriptWellFormed
  BY DEF Init, TranscriptWellFormed, Answered, AnsweredUpTo
<1> QED
  BY <1>1, TypeCorrect, TranscriptStep, PTL DEF Spec

------------------------------------------------------------------------------
(* The post-tools hook.                                                     *)

\* The request kept for after the hook is the conversation.
PendingRequestCurrent ==
  state = "PostToolsHook" => pending_llm_request = conversation

\* Nothing but the hook's completion leaves PostToolsHook, and no event
\* changes the conversation there: what goes out after the hook is the
\* conversation.
LEMMA HookKeepsRequest == Spec => []PendingRequestCurrent
<1>1. Init => PendingRequestCurrent
  BY DEF Init, PendingRequestCurrent
<1>2. PendingRequestCurrent /\ [Next]_vars => PendingRequestCurrent'
  <2> SUFFICES ASSUME PendingRequestCurrent, [Next]_vars
               PROVE  PendingRequestCurrent'
    OBVIOUS
  <2> USE DEF PendingRequestCurrent
  <2>1. CASE UserInput
    BY <2>1 DEF UserInput
  <2>2. ASSUME NEW s \in streams,
               LlmError(s) \/ \E calls \in Replies : LlmCompleted(s, calls)
        PROVE  PendingRequestCurrent'
    BY <2>2 DEF LlmCompleted, LlmError
  <2>3. CASE RetryTimeoutFired
    BY <2>3 DEF RetryTimeoutFired
  <2>4. ASSUME NEW r \in runs, NEW ok \in BOOLEAN, ToolCompleted(r, ok)
        PROVE  PendingRequestCurrent'
    BY <2>4 DEF ToolCompleted, EnterPostToolsHook
  <2>5. CASE HookEvent
    BY <2>5 DEF HookEvent, PostToolsHookCompleted
  <2>6. CASE ShutdownRequested
    BY <2>6 DEF ShutdownRequested
  <2>7. CASE IgnoredStep
    BY <2>7 DEF IgnoredStep, StreamEndsSilently, ArmRetryTimer,
     LateEvent, LateLlmEvent, LateToolCompleted,
       LatePostToolsHookCompleted, LateRetryTimeout, agentVars
  <2>8. CASE UNCHANGED vars
    BY <2>8 DEF vars, agentVars
  <2> QED
    BY <2>1, <2>2, <2>3, <2>4, <2>5, <2>6, <2>7, <2>8
       DEF Next, IgnoredStep, LlmEvent, ToolEvent
<1> QED
  BY <1>1, <1>2, PTL DEF Spec

------------------------------------------------------------------------------
(* The agent implements the abstract transcript.                            *)

\* The bound MaxMsgs holds for every conversation a request is or will be
\* made from, so the round of an answer is one of 0..MaxMsgs.
RequestsFit ==
  /\ \A s \in streams : Len(s.req) <= MaxMsgs
  /\ state \in {"CallingLlm", "Error", "PostToolsHook"} => Len(conversation) <= MaxMsgs
  /\ state = "PostToolsHook" => Len(pending_llm_request) <= MaxMsgs
  /\ state = "ExecutingTools" => Len(conversation) + Len(executions) <= MaxMsgs

\* RequestsFit is inductive: the bound on a conversation is kept by every
\* request made from it.
LEMMA FitStep ==
  ASSUME TypeOK, TypeOK', RequestsFit, [Next]_vars
  PROVE  RequestsFit'
<1> USE BoundsAssumption DEF RequestsFit
<1>t. /\ conversation \in Seq(Message) /\ executions \in Seq(ToolExecutionStatus)
      /\ runs \subseteq [id : CallId, round : Nat]
  BY DEF TypeOK
<1>n. Len(conversation) \in Nat
  BY <1>t
<1>1. CASE UserInput
  <2>1. Len(conversation') = Len(conversation) + 1
    BY <1>1, <1>t DEF UserInput
  <2>2. /\ state' = "CallingLlm" /\ Len(conversation) + 1 + 1 <= MaxMsgs
        /\ streams' = streams \cup {[req |-> conversation', attempt |-> 0]}
    BY <1>1 DEF UserInput, SendLlmRequest, Room
  <2> QED
    BY <1>n, <2>1, <2>2
<1>2. ASSUME NEW s \in streams, NEW calls \in Replies, LlmCompleted(s, calls)
      PROVE  RequestsFit'
  <2>1. streams' \subseteq streams
    BY <1>2 DEF LlmCompleted
  <2>2. CASE calls # <<>>
    <3>1. /\ state' = "ExecutingTools" /\ executions' = PendingExecutions(calls)
          /\ Len(conversation) + (1 + Len(calls)) + 1 <= MaxMsgs
      BY <1>2, <2>2 DEF LlmCompleted, Room
    <3>2. Len(executions') = Len(calls)
      BY <3>1, PendingExecutionsType
    <3>3. Len(conversation') = Len(conversation) + 1
      BY <1>2, <1>t DEF LlmCompleted
    <3>4. Len(calls) \in Nat
      BY RepliesAssumption
    <3> QED
      BY <1>n, <2>1, <3>1, <3>2, <3>3, <3>4
  <2>3. CASE calls = <<>>
    BY <1>2, <2>1, <2>3 DEF LlmCompleted
  <2> QED
    BY <2>2, <2>3
<1>3. ASSUME NEW s \in streams, LlmError(s)
      PROVE  RequestsFit'
  BY <1>3 DEF LlmError, AfterError
<1>4. CASE RetryTimeoutFired
  BY <1>4 DEF RetryTimeoutFired, SendLlmRequest
<1>5. ASSUME NEW r \in runs, NEW ok \in BOOLEAN, ToolCompleted(r, ok)
      PROVE  RequestsFit'
  <2> DEFINE marked == Marked(executions, r, ok)
             conv   == conversation \o ToolMessages(marked)
  <2>1. marked \in Seq(ToolExecutionStatus) /\ Len(marked) = Len(executions)
    BY <1>t, MarkedType
  <2>2. Len(conv) = Len(conversation) + Len(executions)
    <3>1. ToolMessages(marked) \in Seq(Message) /\ Len(ToolMessages(marked)) = Len(marked)
      BY <2>1, ToolMessagesType
    <3> DEFINE res == ToolMessages(marked)
    <3> HIDE DEF marked, res
    <3>2. conversation \in Seq(Message) /\ res \in Seq(Message)
      BY <1>t, <3>1 DEF res
    <3>3. Len(conversation \o res) = Len(conversation) + Len(res)
      BY <3>2, Concatenation
    <3> QED
      BY <2>1, <3>1, <3>3 DEF res
  <2>3. Len(conv) <= MaxMsgs
    BY <1>5, <2>2 DEF ToolCompleted
  <2> HIDE DEF marked, conv
  <2>4. CASE ~AllComplete(marked)
    <3>1. /\ executions' = marked /\ state = "ExecutingTools"
          /\ UNCHANGED <<state, conversation, pending_llm_request, streams>>
      BY <1>5, <2>4 DEF ToolCompleted, marked
    <3> QED
      BY <2>1, <3>1
  <2>5. CASE AllComplete(marked) /\ has_mutating_tools(marked)
    <3>1. /\ state' = "PostToolsHook" /\ conversation' = conv
          /\ pending_llm_request' = conv /\ UNCHANGED streams
      BY <1>5, <2>5 DEF ToolCompleted, EnterPostToolsHook, marked, conv
    <3> QED
      BY <2>3, <3>1
  <2>6. CASE AllComplete(marked) /\ ~has_mutating_tools(marked)
    <3>1. /\ state' = "CallingLlm" /\ conversation' = conv
          /\ streams' = streams \cup {[req |-> conv, attempt |-> 0]}
      BY <1>5, <2>6 DEF ToolCompleted, SendLlmRequest, marked, conv
    <3> QED
      BY <2>3, <3>1
  <2> QED
    BY <2>4, <2>5, <2>6
<1>6. ASSUME NEW h \in hooks, PostToolsHookCompleted(h)
      PROVE  RequestsFit'
  BY <1>6 DEF PostToolsHookCompleted, SendLlmRequest
<1>7. CASE ShutdownRequested
  BY <1>7 DEF ShutdownRequested, callerVars
<1>8. CASE IgnoredStep
  BY <1>8 DEF IgnoredStep, StreamEndsSilently, ArmRetryTimer,
     LateEvent, LateLlmEvent, LateToolCompleted,
     LatePostToolsHookCompleted, LateRetryTimeout, agentVars
<1>9. CASE UNCHANGED vars
  BY <1>9 DEF vars, agentVars, callerVars
<1> QED
  BY <1>1, <1>2, <1>3, <1>4, <1>5, <1>6, <1>7, <1>8, <1>9
     DEF Next, IgnoredStep, LlmEvent, ToolEvent, HookEvent

\* A step of handle_event is a step of the abstract transcript or leaves it
\* alone.
LEMMA TranscriptRefinement ==
  ASSUME TypeOK, TypeOK', TranscriptWellFormed, RequestsFit, [Next]_vars
  PROVE  [T!TNext]_(T!tvars)
<1>t. /\ conversation \in Seq(Message) /\ executions \in Seq(ToolExecutionStatus)
      /\ runs \subseteq [id : CallId, round : Nat]
      /\ streams \subseteq [req : Seq(Message), attempt : Nat]
      /\ state \in States
  BY DEF TypeOK
<1>1. CASE UserInput
  BY <1>1 DEF UserInput, T!TNext, T!Ask, phaseOf
<1>2. ASSUME NEW s \in streams, NEW calls \in Replies, LlmCompleted(s, calls)
      PROVE  T!Reply
  <2> DEFINE x == AssistantMsg(calls, Len(s.req))
  <2>1. Len(s.req) \in 0..MaxMsgs
    BY <1>t, BoundsAssumption DEF RequestsFit
  <2>2. x \in {AssistantMsg(c, n) : c \in Replies, n \in 0..MaxMsgs}
    BY <2>1
  <2>3. x.asked = calls
    BY DEF AssistantMsg
  <2> HIDE DEF x
  <2>4. /\ conversation' = Append(conversation, x) /\ state = "CallingLlm"
        /\ state' = IF calls = <<>> THEN "WaitingForUserInput" ELSE "ExecutingTools"
    BY <1>2 DEF LlmCompleted, x
  <2>5. phaseOf = "owing" /\ phaseOf' = IF x.asked = <<>> THEN "idle" ELSE "tools"
    BY <2>3, <2>4 DEF phaseOf
  <2> QED
    BY <2>2, <2>4, <2>5 DEF T!Reply
<1>3. ASSUME NEW s \in streams, LlmError(s)
      PROVE  [T!TNext]_(T!tvars)
  BY <1>3 DEF LlmError, T!TNext, T!GiveUp, T!tvars, phaseOf
<1>4. CASE RetryTimeoutFired
  BY <1>4 DEF RetryTimeoutFired, T!tvars, phaseOf
<1>5. ASSUME NEW r \in runs, NEW ok \in BOOLEAN, ToolCompleted(r, ok)
      PROVE  [T!TNext]_(T!tvars)
  <2> DEFINE marked == Marked(executions, r, ok)
             res    == ToolMessages(marked)
             n      == Len(conversation)
  <2>1. CASE ~AllComplete(marked)
    BY <1>5, <2>1 DEF ToolCompleted, T!tvars, phaseOf
  <2>2. CASE AllComplete(marked)
    <3>1. /\ marked \in Seq(ToolExecutionStatus) /\ Len(marked) = Len(executions)
          /\ \A k \in 1..Len(executions) : marked[k].id = executions[k].id
      BY <1>t, MarkedType
    <3>2. /\ state = "ExecutingTools" /\ state' \in {"PostToolsHook", "CallingLlm"}
          /\ conversation' = conversation \o res
      BY <1>5, <2>2 DEF ToolCompleted, EnterPostToolsHook
    <3>3. /\ Len(conversation[n].asked) = Len(executions)
          /\ \A k \in 1..Len(executions) : executions[k].id = conversation[n].asked[k].id
      BY <3>2 DEF TranscriptWellFormed
    <3> HIDE DEF marked
    <3>4. /\ res \in Seq(Message) /\ Len(res) = Len(executions)
          /\ \A k \in 1..Len(executions) : res[k].role = "tool"
                                        /\ res[k].id = executions[k].id
      BY <3>1, ToolMessagesType
    <3> HIDE DEF res
    <3>5. /\ Len(conversation') = n + Len(executions)
          /\ \A i \in 1..n : conversation'[i] = conversation[i]
          /\ \A k \in 1..Len(executions) : conversation'[n + k] = res[k]
      <4>1. conversation \in Seq(Message) /\ res \in Seq(Message)
        BY <1>t, <3>4
      <4> HIDE DEF n
      <4>2. /\ Len(conversation') = Len(conversation) + Len(res)
            /\ \A i \in 1..Len(conversation) : conversation'[i] = conversation[i]
            /\ \A k \in 1..Len(res) : conversation'[Len(conversation) + k] = res[k]
        BY <3>2, <4>1, Concatenation
      <4> QED
        BY <3>4, <4>2 DEF n
    <3>6. \A k \in 1..Len(executions) :
            /\ conversation'[n + k] \in {m \in Message : m.role = "tool"}
            /\ conversation'[n + k].id = conversation[n].asked[k].id
      <4> TAKE k \in 1..Len(executions)
      <4>1. res[k] \in Message /\ res[k].role = "tool" /\ res[k].id = executions[k].id
        BY <3>4
      <4>2. conversation'[n + k] = res[k]
        BY <3>5
      <4>3. executions[k].id = conversation[n].asked[k].id
        BY <3>3
      <4> QED
        BY <4>1, <4>2, <4>3
    <3>7. phaseOf = "tools" /\ phaseOf' = "owing"
      BY <3>2 DEF phaseOf
    <3>8. T!Results
      BY <3>3, <3>5, <3>6, <3>7 DEF T!Results
    <3> QED
      BY <3>8 DEF T!TNext
  <2> QED
    BY <2>1, <2>2
<1>6. ASSUME NEW h \in hooks, PostToolsHookCompleted(h)
      PROVE  [T!TNext]_(T!tvars)
  BY <1>6 DEF PostToolsHookCompleted, T!tvars, phaseOf
<1>7. CASE ShutdownRequested
  BY <1>7 DEF ShutdownRequested, T!TNext, T!Close, phaseOf
<1>8. CASE IgnoredStep
  BY <1>8 DEF IgnoredStep, StreamEndsSilently, ArmRetryTimer,
     LateEvent, LateLlmEvent, LateToolCompleted,
     LatePostToolsHookCompleted, LateRetryTimeout, agentVars, T!tvars, phaseOf
<1>9. CASE UNCHANGED vars
  BY <1>9 DEF vars, agentVars, T!tvars, phaseOf
<1> QED
  BY <1>1, <1>2, <1>3, <1>4, <1>5, <1>6, <1>7, <1>8, <1>9
     DEF Next, IgnoredStep, LlmEvent, ToolEvent, HookEvent, T!TNext

\* The agent implements Transcript: users, answers and complete blocks of
\* results alternate as it says, for every behaviour of the caller.
THEOREM AgentImplementsTranscript == Spec => ImplementsTranscript
<1>1. Init => T!TInit /\ RequestsFit
  BY BoundsAssumption DEF Init, T!TInit, RequestsFit, phaseOf
<1>2. Spec => []RequestsFit
  BY <1>1, TypeCorrect, FitStep, PTL DEF Spec
<1> QED
  BY <1>1, <1>2, TypeCorrect, TranscriptCorrect, TranscriptRefinement, PTL
     DEF Spec, ImplementsTranscript, T!TSpec

------------------------------------------------------------------------------
(* A careful caller: answers, results and hooks reach their own round.      *)

\* One thing is under way at a time, and it is about the conversation as it
\* stands: a stream, the runs of executions that are not complete, or a hook.
OneAtATime ==
  /\ \A s, u \in streams : s = u
  /\ state \notin {"CallingLlm", "ShuttingDown"} => streams = {}
  /\ state = "CallingLlm" => \A s \in streams : s.req = conversation
  /\ state \notin {"ExecutingTools", "ShuttingDown"} => runs = {}
  /\ state = "ExecutingTools" => \A r \in runs :
       /\ r.round = Len(conversation)
       /\ \E k \in 1..Len(executions) : executions[k].id = r.id /\ ~executions[k].done
  /\ state \notin {"PostToolsHook", "ShuttingDown"} => hooks = {}
  /\ state = "PostToolsHook" => \A h \in hooks : h = Len(conversation)

\* AnswersBelongToTheirRound for any transcript, with the round of a result
\* inside it.
Placed(msgs) ==
  \A i \in 1..Len(msgs) :
    /\ msgs[i].role = "assistant" => msgs[i].round = i - 1
    /\ msgs[i].role = "tool" =>
         /\ msgs[i].round \in 1..(i - 1)
         /\ msgs[msgs[i].round].role = "assistant"
         /\ i <= msgs[i].round + Len(msgs[msgs[i].round].asked)

\* The executions are those asked for, and their results those of this round.
Running(conv, execs) ==
  \A k \in 1..Len(execs) :
    /\ execs[k].tool = conv[Len(conv)].asked[k].tool
    /\ execs[k].done => execs[k].round = Len(conv)

\* The message asked for a mutating tool that succeeded; its hook has run.
MutatedAt(msgs, i) ==
  /\ msgs[i].role = "assistant"
  /\ \E k \in 1..Len(msgs[i].asked) :
       msgs[i].asked[k].tool \in Mutating /\ msgs[i + k].ok
HookedUpTo(msgs, n, done) ==
  \A i \in 1..n : MutatedAt(msgs, i) => i + Len(msgs[i].asked) \in done

\* The hooks have run for every request that is out and for what the next one
\* will contain, but for the round the hook is waited for.
HooksInv ==
  /\ \A s \in streams : HookedUpTo(s.req, Len(s.req), hooked)
  /\ state \in {"WaitingForUserInput", "CallingLlm", "Error"} =>
       HookedUpTo(conversation, Len(conversation), hooked)
  /\ state = "ExecutingTools" => HookedUpTo(conversation, Len(conversation) - 1, hooked)
  /\ state = "PostToolsHook" =>
       HookedUpTo(conversation, Len(conversation), hooked \cup {Len(conversation)})

RoundsInv ==
  /\ OneAtATime /\ Placed(conversation)
  /\ state = "ExecutingTools" => Running(conversation, executions)

\* What marking a result does to each execution.
LEMMA MarkedFields ==
  ASSUME NEW execs \in Seq(ToolExecutionStatus),
         NEW r \in [id : CallId, round : Nat], NEW ok \in BOOLEAN,
         NEW k \in 1..Len(execs)
  PROVE  /\ Marked(execs, r, ok)[k].tool = execs[k].tool
         /\ execs[k].id = r.id => /\ Marked(execs, r, ok)[k].done
                                  /\ Marked(execs, r, ok)[k].round = r.round
         /\ execs[k].id # r.id => Marked(execs, r, ok)[k] = execs[k]
<1>1. PICK e : e = execs[k] /\ e \in ToolExecutionStatus OBVIOUS
<1>2. PICK m : m = [e EXCEPT !.done = TRUE, !.ok = ok, !.round = r.round] OBVIOUS
<1>3. m.tool = e.tool /\ m.done /\ m.round = r.round BY <1>1, <1>2 DEF ToolExecutionStatus
<1>4. Marked(execs, r, ok)[k] = IF e.id = r.id THEN m ELSE e
  <2>1. k \in DOMAIN execs OBVIOUS
  <2>2. Marked(execs, r, ok)[k] =
          IF execs[k].id = r.id
          THEN [execs[k] EXCEPT !.done = TRUE, !.ok = ok, !.round = r.round]
          ELSE execs[k]
    BY <2>1, Zenon DEF Marked
  <2> QED BY <1>1, <1>2, <2>2
<1> QED BY <1>1, <1>3, <1>4

\* What a result says in the transcript.
LEMMA ResultFields ==
  ASSUME NEW execs \in Seq(ToolExecutionStatus), NEW k \in 1..Len(execs)
  PROVE  /\ ToolMessages(execs)[k].ok = execs[k].ok
         /\ ToolMessages(execs)[k].round = execs[k].round
BY DEF ToolMessages

LEMMA PlacedAppend ==
  ASSUME NEW m \in Seq(Message), Placed(m), NEW x \in Message, x.role # "tool",
         x.role = "assistant" => x.round = Len(m)
  PROVE  Placed(Append(m, x))
<1>1. PICK w, n : w = Append(m, x) /\ n = Len(m) OBVIOUS
<1>2. /\ w \in Seq(Message) /\ Len(w) = n + 1 /\ n \in Nat /\ w[n + 1] = x
      /\ \A i \in 1..n : w[i] = m[i]
  BY <1>1
<1>3. ASSUME NEW i \in 1..n, w[i].role = "tool"
      PROVE  /\ w[i].round \in 1..(i - 1) /\ w[w[i].round].role = "assistant"
             /\ i <= w[i].round + Len(w[w[i].round].asked)
  <2>1. w[i] = m[i] BY <1>2
  <2>2. PICK p : p = m[i].round OBVIOUS
  <2>3. p \in 1..(i - 1) /\ m[p].role = "assistant" /\ i <= p + Len(m[p].asked)
    BY <1>1, <1>3, <2>1, <2>2 DEF Placed
  <2>4. p \in 1..n BY <1>2, <2>3
  <2>5. w[p] = m[p] BY <1>2, <2>4
  <2> QED BY <2>1, <2>2, <2>3, <2>5
<1>4. \A i \in 1..n : w[i].role = "assistant" => w[i].round = i - 1
  BY <1>1, <1>2 DEF Placed
<1>5. \A i \in 1..Len(w) : i \in 1..n \/ i = n + 1 BY <1>2
<1>6. Placed(w) BY <1>1, <1>2, <1>3, <1>4, <1>5 DEF Placed
<1> QED BY <1>1, <1>6

LEMMA PlacedBlock ==
  ASSUME NEW m \in Seq(Message), Placed(m), Len(m) > 0, m[Len(m)].role = "assistant",
         NEW res \in Seq(Message), Len(res) = Len(m[Len(m)].asked),
         \A k \in 1..Len(res) : res[k].role = "tool" /\ res[k].round = Len(m)
  PROVE  Placed(m \o res)
<1>1. PICK w, n, c : w = m \o res /\ n = Len(m) /\ c = Len(res) OBVIOUS
<1>2. /\ Len(w) = n + c /\ n \in Nat /\ n > 0 /\ c \in Nat
      /\ \A i \in 1..n : w[i] = m[i]
      /\ \A k \in 1..c : w[n + k] = res[k]
  <2>1. m \o res \in Seq(Message) /\ Len(m \o res) = Len(m) + Len(res)
    BY Concatenation, Zenon
  <2>2. \A i \in 1..Len(m) : (m \o res)[i] = m[i] OBVIOUS
  <2>3. \A k \in 1..Len(res) : (m \o res)[Len(m) + k] = res[k] OBVIOUS
  <2>4. Len(m) \in Nat /\ Len(res) \in Nat OBVIOUS
  <2> QED BY <1>1, <2>1, <2>2, <2>3, <2>4, Zenon
<1>3. ASSUME NEW i \in 1..n, w[i].role = "tool"
      PROVE  /\ w[i].round \in 1..(i - 1) /\ w[w[i].round].role = "assistant"
             /\ i <= w[i].round + Len(w[w[i].round].asked)
  <2>1. w[i] = m[i] BY <1>2
  <2>2. PICK p : p = m[i].round OBVIOUS
  <2>3. p \in 1..(i - 1) /\ m[p].role = "assistant" /\ i <= p + Len(m[p].asked)
    BY <1>1, <1>3, <2>1, <2>2 DEF Placed
  <2>4. p \in 1..n BY <1>2, <2>3
  <2>5. w[p] = m[p] BY <1>2, <2>4
  <2> QED BY <2>1, <2>2, <2>3, <2>5
<1>4. \A i \in 1..n : w[i].role = "assistant" => w[i].round = i - 1
  BY <1>1, <1>2 DEF Placed
<1>5. ASSUME NEW i \in 1..(n + c), i > n
      PROVE  /\ w[i].role = "tool" /\ w[i].round = n /\ n \in 1..(i - 1)
             /\ w[n].role = "assistant" /\ i <= n + Len(w[n].asked)
  <2>1. PICK k : k = i - n /\ k \in 1..c /\ i = n + k BY <1>2, <1>5
  <2>2. w[i] = res[k] BY <1>2, <2>1
  <2>3. w[n] = m[n] BY <1>2
  <2>4. n \in 1..(i - 1) /\ i <= n + c BY <1>2, <1>5
  <2> QED BY <1>1, <2>1, <2>2, <2>3, <2>4
<1>6. Placed(w) BY <1>2, <1>3, <1>4, <1>5 DEF Placed
<1> QED BY <1>1, <1>6

\* A transcript that goes on leaves the rounds before as they were.
LEMMA HookedPrefix ==
  ASSUME NEW m \in Seq(Message), NEW w \in Seq(Message), NEW n \in Nat, n <= Len(m),
         n <= Len(w), \A i \in 1..n : w[i] = m[i], AnsweredUpTo(m, n), NEW d,
         HookedUpTo(m, n, d)
  PROVE  HookedUpTo(w, n, d)
<1> SUFFICES ASSUME NEW i \in 1..n, MutatedAt(w, i) PROVE i + Len(w[i].asked) \in d
  BY DEF HookedUpTo
<1>1. w[i] = m[i] OBVIOUS
<1>2. PICK k \in 1..Len(m[i].asked) : m[i].asked[k].tool \in Mutating /\ w[i + k].ok
  BY <1>1 DEF MutatedAt
<1>3. m[i].role = "assistant" BY <1>1 DEF MutatedAt
<1>4. i \in 1..Len(m) /\ Len(m[i].asked) \in Nat BY CallsLength
<1>5. i + k <= n BY <1>2, <1>3 DEF AnsweredUpTo
<1>6. i + k \in 1..n BY <1>2, <1>4, <1>5
<1>7. MutatedAt(m, i) BY <1>2, <1>3, <1>6 DEF MutatedAt
<1> QED BY <1>1, <1>7 DEF HookedUpTo

LEMMA HookedAppend ==
  ASSUME NEW m \in Seq(Message), NEW x \in Message, Answered(m), NEW d,
         HookedUpTo(m, Len(m), d)
  PROVE  /\ HookedUpTo(Append(m, x), Len(m), d)
         /\ x.role # "assistant" \/ x.asked = <<>> => HookedUpTo(Append(m, x), Len(m) + 1, d)
<1>1. PICK w, n : w = Append(m, x) /\ n = Len(m) OBVIOUS
<1>2. /\ w \in Seq(Message) /\ Len(w) = n + 1 /\ n \in Nat /\ w[n + 1] = x
      /\ \A i \in 1..n : w[i] = m[i]
  BY <1>1
<1>3. AnsweredUpTo(m, n) BY <1>1 DEF Answered
<1>4. n <= Len(m) /\ n <= Len(w) BY <1>1, <1>2
<1>5. HookedUpTo(w, n, d) BY <1>1, <1>2, <1>3, <1>4, HookedPrefix
<1>6. ASSUME x.role # "assistant" \/ x.asked = <<>> PROVE HookedUpTo(w, n + 1, d)
  <2>1. ~MutatedAt(w, n + 1) BY <1>2, <1>6 DEF MutatedAt
  <2>2. \A i \in 1..(n + 1) : i \in 1..n \/ i = n + 1 BY <1>2
  <2> QED BY <1>5, <2>1, <2>2 DEF HookedUpTo
<1> QED BY <1>1, <1>5, <1>6

\* A block of results: its own round is hooked next, or need not be.
LEMMA HookedBlock ==
  ASSUME NEW m \in Seq(Message), Len(m) > 0, AnsweredUpTo(m, Len(m) - 1),
         NEW res \in Seq(Message), Len(res) = Len(m[Len(m)].asked),
         \A k \in 1..Len(res) : res[k].role = "tool",
         NEW d, HookedUpTo(m, Len(m) - 1, d)
  PROVE  /\ HookedUpTo(m \o res, Len(m) + Len(res), d \cup {Len(m) + Len(res)})
         /\ (\A k \in 1..Len(res) : m[Len(m)].asked[k].tool \in Mutating => ~res[k].ok)
              => HookedUpTo(m \o res, Len(m) + Len(res), d)
<1>1. PICK w, n, c, p : w = m \o res /\ n = Len(m) /\ c = Len(res) /\ p = n - 1 OBVIOUS
<1>2. /\ w \in Seq(Message) /\ Len(w) = n + c /\ n \in Nat /\ n > 0 /\ c \in Nat
      /\ \A i \in 1..n : w[i] = m[i]
      /\ \A k \in 1..c : w[n + k] = res[k]
  <2>1. m \o res \in Seq(Message) /\ Len(m \o res) = Len(m) + Len(res)
    BY Concatenation, Zenon
  <2>2. \A i \in 1..Len(m) : (m \o res)[i] = m[i] OBVIOUS
  <2>3. \A k \in 1..Len(res) : (m \o res)[Len(m) + k] = res[k] OBVIOUS
  <2>4. Len(m) \in Nat /\ Len(res) \in Nat OBVIOUS
  <2> QED BY <1>1, <2>1, <2>2, <2>3, <2>4, Zenon
<1>3. /\ p \in Nat /\ p <= Len(m) /\ p <= Len(w) /\ \A i \in 1..p : w[i] = m[i]
  BY <1>1, <1>2
<1>4. HookedUpTo(w, p, d) BY <1>1, <1>2, <1>3, HookedPrefix
<1>5. \A i \in 1..(n + c) : i \in 1..p \/ i = n \/ \E k \in 1..c : i = n + k
  <2> TAKE i \in 1..(n + c)
  <2>1. CASE i > n
    <3>1. PICK k : k = i - n /\ k \in 1..c /\ i = n + k BY <1>2, <2>1
    <3> QED BY <3>1
  <2>2. CASE i <= n
    <3>1. i \in 1..p \/ i = n BY <1>1, <1>2, <2>2
    <3> QED BY <3>1
  <2> QED BY <1>2, <2>1, <2>2
<1>6. \A i \in 1..(n + c) : MutatedAt(w, i) => i \in 1..p \/ i = n
  <2>1. \A k \in 1..c : w[n + k].role = "tool" BY <1>1, <1>2
  <2>2. \A k \in 1..c : ~MutatedAt(w, n + k) BY <2>1 DEF MutatedAt
  <2> QED BY <1>5, <2>2
<1>7. Len(w[n].asked) = c /\ w[n] = m[n] BY <1>1, <1>2
<1>8. HookedUpTo(w, n + c, d \cup {n + c}) BY <1>4, <1>6, <1>7 DEF HookedUpTo
<1>9. ASSUME \A k \in 1..c : m[n].asked[k].tool \in Mutating => ~res[k].ok
      PROVE  HookedUpTo(w, n + c, d)
  <2>1. ~MutatedAt(w, n) BY <1>2, <1>7, <1>9 DEF MutatedAt
  <2> QED BY <1>4, <1>6, <2>1 DEF HookedUpTo
<1> QED BY <1>1, <1>8, <1>9

\* One result of a round: the runs left are those of the executions left.
RunsOf(open, execs, n) ==
  \A q \in open : /\ q.round = n
                  /\ \E k \in 1..Len(execs) : execs[k].id = q.id /\ ~execs[k].done

LEMMA RoundMarked ==
  ASSUME NEW execs \in Seq(ToolExecutionStatus), NEW n \in Nat,
         NEW open, open \subseteq [id : CallId, round : Nat], NEW r \in open,
         RunsOf(open, execs, n), NEW marked, Len(marked) = Len(execs),
         \A k \in 1..Len(execs) : execs[k].id # r.id => marked[k] = execs[k]
  PROVE  RunsOf(open \ {r}, marked, n)
<1> SUFFICES ASSUME NEW q \in open \ {r}
             PROVE  /\ q.round = n
                    /\ \E k \in 1..Len(marked) : marked[k].id = q.id /\ ~marked[k].done
  BY DEF RunsOf
<1>1. r \in [id : CallId, round : Nat] /\ r.round = n BY DEF RunsOf
<1>2. q \in [id : CallId, round : Nat] /\ q.round = n /\ q # r BY DEF RunsOf
<1>3. q.id # r.id BY <1>1, <1>2
<1>4. PICK k \in 1..Len(execs) : execs[k].id = q.id /\ ~execs[k].done BY DEF RunsOf
<1> QED BY <1>2, <1>3, <1>4

\* The invariant, in the next state.
Alone(st, conv, execs, open, going, waiting) ==
  /\ \A s, u \in open : s = u
  /\ st \notin {"CallingLlm", "ShuttingDown"} => open = {}
  /\ st = "CallingLlm" => \A s \in open : s.req = conv
  /\ st \notin {"ExecutingTools", "ShuttingDown"} => going = {}
  /\ st = "ExecutingTools" => \A r \in going :
       /\ r.round = Len(conv)
       /\ \E k \in 1..Len(execs) : execs[k].id = r.id /\ ~execs[k].done
  /\ st \notin {"PostToolsHook", "ShuttingDown"} => waiting = {}
  /\ st = "PostToolsHook" => \A h \in waiting : h = Len(conv)

LEMMA RoundsStep ==
  ASSUME Careful, TypeOK, TranscriptWellFormed, PendingRequestCurrent, RoundsInv, [Next]_vars
  PROVE  RoundsInv'
<1>a. /\ Alone(state, conversation, executions, streams, runs, hooks)
      /\ Placed(conversation)
      /\ state = "ExecutingTools" => Running(conversation, executions)
  BY DEF RoundsInv, OneAtATime, Alone
<1>b. /\ Alone(state', conversation', executions', streams', runs', hooks')
      /\ Placed(conversation')
      /\ state' = "ExecutingTools" => Running(conversation', executions')
      => RoundsInv'
  BY DEF RoundsInv, OneAtATime, Alone, Placed, Running
<1>t. /\ conversation \in Seq(Message) /\ executions \in Seq(ToolExecutionStatus)
      /\ runs \subseteq [id : CallId, round : Nat] /\ state \in States
      /\ Len(conversation) \in Nat
  BY DEF TypeOK
<1>1. CASE UserInput
  <2>1. /\ state = "WaitingForUserInput" /\ state' = "CallingLlm"
        /\ conversation' = Append(conversation, UserMsg)
        /\ streams' = streams \cup {[req |-> conversation', attempt |-> 0]}
        /\ UNCHANGED <<runs, hooks>>
    BY <1>1 DEF UserInput, SendLlmRequest
  <2>2. streams = {} /\ runs = {} /\ hooks = {} BY <1>a, <2>1 DEF Alone
  <2>3. Placed(conversation')
    <3>1. UserMsg \in Message /\ UserMsg.role = "user" BY MessageTypes DEF UserMsg
    <3> QED BY <1>a, <1>t, <2>1, <3>1, PlacedAppend
  <2>4. Alone(state', conversation', executions', streams', runs', hooks')
    BY <2>1, <2>2 DEF Alone
  <2> QED BY <1>b, <2>1, <2>3, <2>4
<1>2. ASSUME NEW s \in streams, NEW calls \in Replies, LlmCompleted(s, calls)
      PROVE  RoundsInv'
  <2>1. /\ state = "CallingLlm" /\ streams' = streams \ {s} /\ UNCHANGED hooks
        /\ conversation' = Append(conversation, AssistantMsg(calls, Len(s.req)))
    BY <1>2 DEF LlmCompleted
  <2>2. streams' = {} /\ runs = {} /\ hooks' = {} /\ s.req = conversation
    BY <1>a, <2>1 DEF Alone
  <2>3. PICK x : x = AssistantMsg(calls, Len(conversation)) OBVIOUS
  <2>4. /\ x \in Message /\ x.role = "assistant" /\ x.asked = calls
        /\ x.round = Len(conversation) /\ conversation' = Append(conversation, x)
    BY <1>t, <2>1, <2>2, <2>3, MessageTypes DEF AssistantMsg
  <2>5. Placed(conversation') BY <1>a, <1>t, <2>4, PlacedAppend
  <2>6. CASE calls = <<>>
    <3>1. state' = "WaitingForUserInput" /\ UNCHANGED runs BY <1>2, <2>6 DEF LlmCompleted
    <3>2. Alone(state', conversation', executions', streams', runs', hooks')
      BY <2>2, <3>1 DEF Alone
    <3> QED BY <1>b, <2>5, <3>1, <3>2
  <2>7. CASE calls # <<>>
    <3>1. /\ state' = "ExecutingTools" /\ executions' = PendingExecutions(calls)
          /\ runs' = runs \cup {[id |-> calls[k].id, round |-> Len(conversation')] :
                                  k \in 1..Len(calls)}
      BY <1>2, <2>7 DEF LlmCompleted
    <3>2. PICK e, n : e = executions' /\ n = Len(conversation') OBVIOUS
    <3>3. /\ Len(e) = Len(calls)
          /\ \A k \in 1..Len(calls) : e[k].id = calls[k].id /\ ~e[k].done
      BY <3>1, <3>2, PendingExecutionsType
    <3>4. \A k \in 1..Len(calls) : e[k].tool = calls[k].tool
      <4>1. Len(calls) \in Nat BY RepliesAssumption
      <4> QED BY <3>1, <3>2, <4>1 DEF PendingExecutions
    <3>5. conversation'[n] = x BY <1>t, <2>4, <3>2
    <3>6. Running(conversation', e) BY <2>4, <3>2, <3>3, <3>4, <3>5 DEF Running
    <3>7. ASSUME NEW q \in runs'
          PROVE  q.round = n /\ \E k \in 1..Len(e) : e[k].id = q.id /\ ~e[k].done
      <4>1. PICK k \in 1..Len(calls) : q = [id |-> calls[k].id, round |-> n]
        BY <2>2, <3>1, <3>2
      <4> QED BY <3>3, <4>1
    <3>8. Alone(state', conversation', executions', streams', runs', hooks')
      BY <2>2, <3>1, <3>2, <3>7 DEF Alone
    <3> QED BY <1>b, <2>5, <3>2, <3>6, <3>8
  <2> QED BY <2>6, <2>7
<1>3. ASSUME NEW s \in streams, LlmError(s) PROVE RoundsInv'
  <2>1. /\ state = "CallingLlm" /\ state' \in {"Error", "WaitingForUserInput"}
        /\ streams' = streams \ {s} /\ UNCHANGED <<conversation, executions, runs, hooks>>
    BY <1>3 DEF LlmError, AfterError
  <2>2. streams' = {} /\ runs' = {} /\ hooks' = {} BY <1>a, <2>1 DEF Alone
  <2>3. Alone(state', conversation', executions', streams', runs', hooks')
    BY <2>1, <2>2 DEF Alone
  <2> QED BY <1>a, <1>b, <2>1, <2>3
<1>4. CASE RetryTimeoutFired
  <2>1. /\ state = "Error" /\ state' = "CallingLlm"
        /\ streams' = streams \cup {[req |-> conversation, attempt |-> retries]}
        /\ UNCHANGED <<conversation, executions, runs, hooks>>
    BY <1>4 DEF RetryTimeoutFired, SendLlmRequest
  <2>2. streams = {} /\ runs = {} /\ hooks = {} BY <1>a, <2>1 DEF Alone
  <2>3. Alone(state', conversation', executions', streams', runs', hooks')
    BY <2>1, <2>2 DEF Alone
  <2> QED BY <1>a, <1>b, <2>1, <2>3
<1>5. ASSUME NEW r \in runs, NEW ok \in BOOLEAN, ToolCompleted(r, ok)
      PROVE  RoundsInv'
  <2>1. PICK marked, n : marked = Marked(executions, r, ok) /\ n = Len(conversation) OBVIOUS
  <2>2. PICK res : res = ToolMessages(marked) OBVIOUS
  <2>3. /\ state = "ExecutingTools" /\ runs' = runs \ {r}
    BY <1>5 DEF ToolCompleted
  <2>4. streams = {} /\ hooks = {} BY <1>a, <2>3 DEF Alone
  <2>5. /\ n > 0 /\ conversation[n].role = "assistant"
        /\ Len(conversation[n].asked) = Len(executions)
    BY <2>1, <2>3 DEF TranscriptWellFormed
  <2>6. /\ marked \in Seq(ToolExecutionStatus) /\ Len(marked) = Len(executions)
    BY <1>t, <2>1, MarkedType
  <2>7. /\ \A q \in runs' : /\ q.round = n
                            /\ \E k \in 1..Len(marked) : marked[k].id = q.id /\ ~marked[k].done
        /\ \A k \in 1..Len(marked) :
              /\ marked[k].tool = executions[k].tool
              /\ (executions[k].done => executions[k].round = n) =>
                   (marked[k].done => marked[k].round = n)
    <3>1. RunsOf(runs, executions, n) BY <1>a, <2>1, <2>3 DEF Alone, RunsOf
    <3>2. n \in Nat /\ r \in [id : CallId, round : Nat] /\ r.round = n
      BY <1>t, <2>1, <3>1 DEF RunsOf
    <3>3. \A k \in 1..Len(executions) :
            /\ marked[k].tool = executions[k].tool
            /\ executions[k].id = r.id => marked[k].done /\ marked[k].round = r.round
            /\ executions[k].id # r.id => marked[k] = executions[k]
      BY <1>t, <2>1, <3>2, MarkedFields
    <3>4. RunsOf(runs \ {r}, marked, n)
      BY <1>t, <2>6, <3>1, <3>2, <3>3, RoundMarked
    <3> QED BY <2>3, <2>6, <3>2, <3>3, <3>4 DEF RunsOf
  <2>8. Running(conversation, marked) BY <1>a, <2>1, <2>3, <2>6, <2>7 DEF Running
  <2>9. CASE ~AllComplete(marked)
    <3>1. executions' = marked /\ UNCHANGED <<state, conversation, streams, hooks>>
      BY <1>5, <2>1, <2>9 DEF ToolCompleted
    <3>2. Alone(state', conversation', executions', streams', runs', hooks')
      BY <2>1, <2>3, <2>4, <2>7, <3>1 DEF Alone
    <3> QED BY <1>a, <1>b, <2>8, <3>1, <3>2
  <2>10. CASE AllComplete(marked)
    <3>1. /\ conversation' = conversation \o res
          /\ \/ /\ state' = "PostToolsHook" /\ hooks' = hooks \cup {Len(conversation')}
                /\ UNCHANGED streams
             \/ /\ state' = "CallingLlm" /\ UNCHANGED hooks
                /\ streams' = streams \cup {[req |-> conversation', attempt |-> 0]}
      BY <1>5, <2>1, <2>2, <2>10 DEF ToolCompleted, EnterPostToolsHook, SendLlmRequest
    <3>2. \A k \in 1..Len(marked) : marked[k].done BY <2>6, <2>10 DEF AllComplete
    <3>3. runs' = {} BY <2>7, <3>2
    <3>4. Alone(state', conversation', executions', streams', runs', hooks')
      <4>1. CASE state' = "PostToolsHook" /\ hooks' = {Len(conversation')} /\ streams' = {}
        BY <3>3, <4>1 DEF Alone
      <4>2. CASE /\ state' = "CallingLlm" /\ hooks' = {}
                 /\ streams' = {[req |-> conversation', attempt |-> 0]}
        BY <3>3, <4>2 DEF Alone
      <4> QED BY <2>4, <3>1, <4>1, <4>2
    <3>5. /\ res \in Seq(Message) /\ Len(res) = Len(marked)
          /\ \A k \in 1..Len(marked) : res[k].role = "tool"
      BY <2>2, <2>6, ToolMessagesType
    <3>6. \A k \in 1..Len(res) : res[k].round = n
      <4>1. \A k \in 1..Len(marked) : marked[k].round = n
        BY <2>1, <2>8, <3>2 DEF Running
      <4> QED BY <2>2, <2>6, <3>5, <4>1, ResultFields
    <3>7. Placed(conversation \o res)
      BY <1>a, <1>t, <2>1, <2>5, <2>6, <3>5, <3>6, PlacedBlock
    <3> QED BY <1>b, <3>1, <3>4, <3>7
  <2> QED BY <2>9, <2>10
<1>6. ASSUME NEW h \in hooks, PostToolsHookCompleted(h) PROVE RoundsInv'
  <2>1. /\ state = "PostToolsHook" /\ state' = "CallingLlm" /\ hooks' = hooks \ {h}
        /\ streams' = streams \cup {[req |-> pending_llm_request, attempt |-> 0]}
        /\ UNCHANGED <<conversation, executions, runs>>
    BY <1>6 DEF PostToolsHookCompleted, SendLlmRequest
  <2>2. streams = {} /\ runs = {} /\ hooks' = {} BY <1>a, <2>1 DEF Alone
  <2>3. pending_llm_request = conversation BY <2>1 DEF PendingRequestCurrent
  <2>4. Alone(state', conversation', executions', streams', runs', hooks')
    BY <2>1, <2>2, <2>3 DEF Alone
  <2> QED BY <1>a, <1>b, <2>1, <2>4
<1>7. CASE ShutdownRequested
  <2>1. /\ state' = "ShuttingDown" /\ conversation' = <<>>
        /\ UNCHANGED <<streams, runs, hooks>>
    BY <1>7 DEF ShutdownRequested, callerVars
  <2>2. Alone(state', conversation', executions', streams', runs', hooks')
    BY <1>a, <2>1 DEF Alone
  <2>3. Placed(<<>>) BY DEF Placed
  <2> QED BY <1>b, <2>1, <2>2, <2>3
<1>8. CASE IgnoredStep
  <2>1. /\ UNCHANGED <<state, conversation, executions>>
        /\ streams' \subseteq streams /\ runs' \subseteq runs /\ hooks' \subseteq hooks
    BY <1>8 DEF IgnoredStep, StreamEndsSilently, ArmRetryTimer,
     LateEvent, LateLlmEvent, LateToolCompleted,
       LatePostToolsHookCompleted, LateRetryTimeout, agentVars
  <2>2. Alone(state', conversation', executions', streams', runs', hooks')
    BY <1>a, <2>1 DEF Alone
  <2> QED BY <1>a, <1>b, <2>1, <2>2
<1>9. CASE UNCHANGED vars
  BY <1>9, <1>a, <1>b DEF vars, agentVars, callerVars
<1> QED
  BY <1>1, <1>2, <1>3, <1>4, <1>5, <1>6, <1>7, <1>8, <1>9
     DEF Next, IgnoredStep, LlmEvent, ToolEvent, HookEvent

\* A careful caller drops a stream that failed and reports each run once, so
\* no answer and no result lands in a round other than its own: a retried
\* request is not answered by the stream that failed, a call id that a later
\* response reuses not by a run of the earlier one.
THEOREM AnswersKeepTheirRound ==
  ASSUME Careful
  PROVE  Spec => []AnswersBelongToTheirRound
<1>1. Init => RoundsInv
  BY DEF Init, RoundsInv, OneAtATime, Placed
<1>2. /\ TypeOK /\ TranscriptWellFormed /\ PendingRequestCurrent
      /\ RoundsInv /\ [Next]_vars
      => RoundsInv'
  BY RoundsStep
<1>3. RoundsInv => AnswersBelongToTheirRound
  BY DEF RoundsInv, Placed, AnswersBelongToTheirRound
<1> QED
  BY <1>1, <1>2, <1>3, TypeCorrect, TranscriptCorrect, HookKeepsRequest, PTL DEF Spec

\* HooksInv, in the next state.
HooksDone(st, conv, open, done) ==
  /\ \A s \in open : HookedUpTo(s.req, Len(s.req), done)
  /\ st \in {"WaitingForUserInput", "CallingLlm", "Error"} =>
       HookedUpTo(conv, Len(conv), done)
  /\ st = "ExecutingTools" => HookedUpTo(conv, Len(conv) - 1, done)
  /\ st = "PostToolsHook" => HookedUpTo(conv, Len(conv), done \cup {Len(conv)})

\* What the hooks have run for is inductive: a round with a successful
\* mutating tool is waited for before anything goes out with its results.
LEMMA HooksStep ==
  ASSUME Careful, TypeOK, TranscriptWellFormed, PendingRequestCurrent, RoundsInv,
         HooksInv, [Next]_vars
  PROVE  HooksInv'
<1>a. HooksDone(state, conversation, streams, hooked)
  BY DEF HooksInv, HooksDone
<1>b. HooksDone(state', conversation', streams', hooked') => HooksInv'
  BY DEF HooksInv, HooksDone, HookedUpTo, MutatedAt
<1>c. /\ OneAtATime
      /\ state = "ExecutingTools" => Running(conversation, executions)
  BY DEF RoundsInv
<1>d. IF state # "ExecutingTools" THEN Answered(conversation)
      ELSE Asking(conversation, executions)
  BY DEF TranscriptWellFormed, Asking
<1>t. /\ conversation \in Seq(Message) /\ executions \in Seq(ToolExecutionStatus)
      /\ runs \subseteq [id : CallId, round : Nat] /\ Len(conversation) \in Nat
  BY DEF TypeOK
<1>1. CASE UserInput
  <2>1. /\ state = "WaitingForUserInput" /\ state' = "CallingLlm"
        /\ conversation' = Append(conversation, UserMsg) /\ UNCHANGED hooked
        /\ streams' = streams \cup {[req |-> conversation', attempt |-> 0]}
    BY <1>1 DEF UserInput, SendLlmRequest
  <2>2. UserMsg \in Message /\ UserMsg.role = "user" BY MessageTypes DEF UserMsg
  <2>3. Answered(conversation) /\ HookedUpTo(conversation, Len(conversation), hooked)
    BY <1>a, <1>d, <2>1 DEF HooksDone
  <2>4. HookedUpTo(conversation', Len(conversation) + 1, hooked)
    BY <1>t, <2>1, <2>2, <2>3, HookedAppend
  <2>5. Len(conversation') = Len(conversation) + 1 BY <1>t, <2>1, <2>2
  <2>6. HooksDone(state', conversation', streams', hooked')
    <3>1. PICK w : w = conversation' OBVIOUS
    <3>2. HookedUpTo(w, Len(w), hooked') BY <2>1, <2>4, <2>5, <3>1
    <3>3. streams' = streams \cup {[req |-> w, attempt |-> 0]} BY <2>1, <3>1
    <3>4. \A s \in streams : HookedUpTo(s.req, Len(s.req), hooked')
      BY <1>a, <2>1 DEF HooksDone
    <3>5. \A s \in streams' : HookedUpTo(s.req, Len(s.req), hooked') BY <3>2, <3>3, <3>4
    <3>6. HooksDone("CallingLlm", w, streams', hooked') BY <3>2, <3>5 DEF HooksDone
    <3> QED BY <2>1, <3>1, <3>6
  <2> QED BY <1>b, <2>6
<1>2. ASSUME NEW s \in streams, NEW calls \in Replies, LlmCompleted(s, calls)
      PROVE  HooksInv'
  <2>1. /\ state = "CallingLlm" /\ streams' = streams \ {s} /\ UNCHANGED hooked
        /\ conversation' = Append(conversation, AssistantMsg(calls, Len(s.req)))
    BY <1>2 DEF LlmCompleted
  <2>2. s.req = conversation BY <1>c, <2>1 DEF OneAtATime
  <2>3. PICK x : x = AssistantMsg(calls, Len(conversation)) OBVIOUS
  <2>4. x \in Message /\ x.asked = calls /\ conversation' = Append(conversation, x)
    BY <1>t, <2>1, <2>2, <2>3, MessageTypes DEF AssistantMsg
  <2>5. Answered(conversation) /\ HookedUpTo(conversation, Len(conversation), hooked)
    BY <1>a, <1>d, <2>1 DEF HooksDone
  <2>6. /\ HookedUpTo(conversation', Len(conversation), hooked)
        /\ calls = <<>> => HookedUpTo(conversation', Len(conversation) + 1, hooked)
    BY <1>t, <2>4, <2>5, HookedAppend
  <2>7. /\ Len(conversation') = Len(conversation) + 1
        /\ Len(conversation') - 1 = Len(conversation)
    BY <1>t, <2>4
  <2>8. \/ calls = <<>> /\ state' = "WaitingForUserInput"
        \/ calls # <<>> /\ state' = "ExecutingTools"
    BY <1>2 DEF LlmCompleted
  <2>9. HooksDone(state', conversation', streams', hooked')
    BY <1>a, <2>1, <2>6, <2>7, <2>8 DEF HooksDone
  <2> QED BY <1>b, <2>9
<1>3. ASSUME NEW s \in streams, LlmError(s) PROVE HooksInv'
  <2>1. /\ state = "CallingLlm" /\ state' \in {"Error", "WaitingForUserInput"}
        /\ streams' \subseteq streams /\ UNCHANGED <<conversation, hooked>>
    BY <1>3 DEF LlmError, AfterError, history
  <2>2. HooksDone(state', conversation', streams', hooked')
    BY <1>a, <2>1 DEF HooksDone
  <2> QED BY <1>b, <2>2
<1>4. CASE RetryTimeoutFired
  <2>1. /\ state = "Error" /\ state' = "CallingLlm" /\ UNCHANGED <<conversation, hooked>>
        /\ streams' = streams \cup {[req |-> conversation, attempt |-> retries]}
    BY <1>4 DEF RetryTimeoutFired, SendLlmRequest
  <2>2. HooksDone(state', conversation', streams', hooked')
    BY <1>a, <2>1 DEF HooksDone
  <2> QED BY <1>b, <2>2
<1>5. ASSUME NEW r \in runs, NEW ok \in BOOLEAN, ToolCompleted(r, ok)
      PROVE  HooksInv'
  <2>1. PICK marked : marked = Marked(executions, r, ok) OBVIOUS
  <2>2. PICK res : res = ToolMessages(marked) OBVIOUS
  <2>3. state = "ExecutingTools" /\ UNCHANGED hooked BY <1>5 DEF ToolCompleted
  <2>4. Asking(conversation, executions) /\ Running(conversation, executions)
    BY <1>c, <1>d, <2>3
  <2>5. HookedUpTo(conversation, Len(conversation) - 1, hooked)
    BY <1>a, <2>3 DEF HooksDone
  <2>6. /\ marked \in Seq(ToolExecutionStatus) /\ Len(marked) = Len(executions)
    BY <1>t, <2>1, MarkedType
  <2>7. \A k \in 1..Len(executions) : marked[k].tool = executions[k].tool
    <3>1. r \in [id : CallId, round : Nat] BY <1>t
    <3> QED BY <1>t, <2>1, <3>1, MarkedFields
  <2>8. CASE ~AllComplete(marked)
    <3>1. UNCHANGED <<state, conversation, streams>>
      BY <1>5, <2>1, <2>8 DEF ToolCompleted
    <3>2. HooksDone(state', conversation', streams', hooked')
      BY <1>a, <2>3, <3>1 DEF HooksDone
    <3> QED BY <1>b, <3>2
  <2>9. CASE AllComplete(marked)
    <3>1. /\ conversation' = conversation \o res
          /\ \/ /\ state' = "PostToolsHook" /\ UNCHANGED streams
             \/ /\ ~has_mutating_tools(marked) /\ state' = "CallingLlm"
                /\ streams' = streams \cup {[req |-> conversation', attempt |-> 0]}
      BY <1>5, <2>1, <2>2, <2>9 DEF ToolCompleted, EnterPostToolsHook, SendLlmRequest
    <3>2. /\ res \in Seq(Message) /\ Len(res) = Len(marked)
          /\ \A k \in 1..Len(marked) : res[k].role = "tool"
      BY <2>2, <2>6, ToolMessagesType
    <3>3. \A k \in 1..Len(marked) : res[k].ok = marked[k].ok
      BY <2>2, <2>6, ResultFields
    <3>4. PICK n : n = Len(conversation) OBVIOUS
    <3>5. PICK w : w = conversation \o res OBVIOUS
    <3>6. Len(w) = n + Len(res)
      <4>1. Len(conversation \o res) = Len(conversation) + Len(res)
        BY <1>t, <3>2, Concatenation, Zenon
      <4> QED BY <3>4, <3>5, <4>1
    <3>7. /\ HookedUpTo(w, n + Len(res), hooked \cup {n + Len(res)})
          /\ (\A k \in 1..Len(res) : conversation[n].asked[k].tool \in Mutating => ~res[k].ok)
               => HookedUpTo(w, n + Len(res), hooked)
      BY <1>t, <2>4, <2>5, <2>6, <3>2, <3>4, <3>5, HookedBlock DEF Asking
    <3>8. CASE state' = "PostToolsHook" /\ UNCHANGED streams
      <4>1. HooksDone(state', w, streams', hooked')
        BY <1>a, <2>3, <3>6, <3>7, <3>8 DEF HooksDone
      <4> QED BY <1>b, <3>1, <3>5, <4>1
    <3>9. CASE /\ ~has_mutating_tools(marked) /\ state' = "CallingLlm"
               /\ streams' = streams \cup {[req |-> w, attempt |-> 0]}
      <4>1. ASSUME NEW k \in 1..Len(res), conversation[n].asked[k].tool \in Mutating
            PROVE  ~res[k].ok
        <5>1. k \in 1..Len(executions) /\ k \in 1..Len(marked) BY <2>6, <3>2
        <5>2. marked[k].tool \in Mutating
          BY <2>4, <2>7, <3>4, <4>1, <5>1 DEF Running
        <5>3. k \in DOMAIN marked /\ marked[k].done BY <2>6, <2>9, <5>1 DEF AllComplete
        <5>4. ~marked[k].ok BY <3>9, <5>2, <5>3 DEF has_mutating_tools
        <5> QED BY <3>3, <5>1, <5>4
      <4>2. HookedUpTo(w, Len(w), hooked) BY <3>6, <3>7, <4>1
      <4>3. HooksDone(state', w, streams', hooked')
        BY <1>a, <2>3, <3>9, <4>2 DEF HooksDone
      <4> QED BY <1>b, <3>1, <3>5, <4>3
    <3> QED BY <3>1, <3>5, <3>8, <3>9
  <2> QED BY <2>8, <2>9
<1>6. ASSUME NEW h \in hooks, PostToolsHookCompleted(h) PROVE HooksInv'
  <2>1. /\ state = "PostToolsHook" /\ state' = "CallingLlm" /\ hooked' = hooked \cup {h}
        /\ streams' = streams \cup {[req |-> pending_llm_request, attempt |-> 0]}
        /\ UNCHANGED conversation
    BY <1>6 DEF PostToolsHookCompleted, SendLlmRequest
  <2>2. /\ h = Len(conversation) /\ streams = {}
        /\ pending_llm_request = conversation
    BY <1>c, <2>1 DEF OneAtATime, PendingRequestCurrent
  <2>3. HookedUpTo(conversation, Len(conversation), hooked')
    BY <1>a, <2>1, <2>2 DEF HooksDone
  <2>4. HooksDone(state', conversation', streams', hooked')
    BY <2>1, <2>2, <2>3 DEF HooksDone
  <2> QED BY <1>b, <2>4
<1>7. CASE ShutdownRequested
  <2>1. state' = "ShuttingDown" /\ UNCHANGED <<streams, hooked>>
    BY <1>7 DEF ShutdownRequested, callerVars, history
  <2>2. HooksDone(state', conversation', streams', hooked')
    BY <1>a, <2>1 DEF HooksDone
  <2> QED BY <1>b, <2>2
<1>8. CASE IgnoredStep
  <2>1. UNCHANGED <<state, conversation, hooked>> /\ streams' \subseteq streams
    BY <1>8 DEF IgnoredStep, StreamEndsSilently, ArmRetryTimer,
     LateEvent, LateLlmEvent, LateToolCompleted,
       LatePostToolsHookCompleted, LateRetryTimeout, agentVars, history
  <2>2. HooksDone(state', conversation', streams', hooked')
    BY <1>a, <2>1 DEF HooksDone
  <2> QED BY <1>b, <2>2
<1>9. CASE UNCHANGED vars
  BY <1>9, <1>a, <1>b DEF vars, agentVars, callerVars, history
<1> QED
  BY <1>1, <1>2, <1>3, <1>4, <1>5, <1>6, <1>7, <1>8, <1>9
     DEF Next, IgnoredStep, LlmEvent, ToolEvent, HookEvent

\* With a careful caller no request goes out with the results of a mutating
\* tool that succeeded before the hook of that round, the auto-commit, has
\* completed: no earlier hook can complete in its place.
THEOREM HooksComeFirst ==
  ASSUME Careful
  PROVE  Spec => []HookBeforeNextRequest
<1>1. Init => RoundsInv /\ HooksInv
  BY DEF Init, RoundsInv, OneAtATime, Placed, HooksInv, HookedUpTo
<1>2. /\ TypeOK /\ TranscriptWellFormed /\ PendingRequestCurrent
      /\ RoundsInv /\ HooksInv /\ [Next]_vars
      => RoundsInv' /\ HooksInv'
  BY RoundsStep, HooksStep
<1>3. HooksInv => HookBeforeNextRequest
  BY DEF HooksInv, HookedUpTo, MutatedAt, HookBeforeNextRequest
<1> QED
  BY <1>1, <1>2, <1>3, TypeCorrect, TranscriptCorrect, HookKeepsRequest, PTL DEF Spec

------------------------------------------------------------------------------
(* Nothing is waited for in vain.                                           *)

\* WaitsAreOwed, in the next state.
Owed(st, conv, n, execs, open, going, waiting, left) ==
  /\ st = "CallingLlm" => left \/ [req |-> conv, attempt |-> n] \in open
  /\ st = "ExecutingTools" =>
       \A k \in DOMAIN execs :
         execs[k].done \/ [id |-> execs[k].id, round |-> Len(conv)] \in going
  /\ st = "PostToolsHook" => Len(conv) \in waiting

\* Every step that begins to wait starts what it waits for, and nothing the
\* agent waits for is used up by an event it ignores.
LEMMA OwedStep ==
  ASSUME TypeOK, PendingRequestCurrent, WaitsAreOwed, [Next]_vars
  PROVE  WaitsAreOwed'
<1>a. Owed(state, conversation, retries, executions, streams, runs, hooks, deserted)
  BY DEF WaitsAreOwed, Owed
<1>b. Owed(state', conversation', retries', executions', streams', runs', hooks',
           deserted') => WaitsAreOwed'
  BY DEF WaitsAreOwed, Owed
<1>t. /\ conversation \in Seq(Message) /\ executions \in Seq(ToolExecutionStatus)
      /\ runs \subseteq [id : CallId, round : Nat]
      /\ state \notin {"CallingLlm", "Error"} => retries = 0
  BY DEF TypeOK
<1>1. CASE UserInput
  <2>1. /\ state' = "CallingLlm" /\ retries' = 0
        /\ [req |-> conversation', attempt |-> 0] \in streams'
    BY <1>1 DEF UserInput, SendLlmRequest
  <2> QED BY <1>b, <2>1 DEF Owed
<1>2. ASSUME NEW s \in streams, NEW calls \in Replies, LlmCompleted(s, calls)
      PROVE  WaitsAreOwed'
  <2>1. CASE calls = <<>>
    <3>1. state' = "WaitingForUserInput" BY <1>2, <2>1 DEF LlmCompleted
    <3> QED BY <1>b, <3>1 DEF Owed
  <2>2. CASE calls # <<>>
    <3>1. PICK e, n : e = executions' /\ n = Len(conversation') OBVIOUS
    <3>2. /\ state' = "ExecutingTools" /\ e = PendingExecutions(calls)
          /\ \A k \in 1..Len(calls) : [id |-> calls[k].id, round |-> n] \in runs'
      BY <1>2, <2>2, <3>1 DEF LlmCompleted
    <3>3. /\ DOMAIN e = 1..Len(calls)
          /\ \A k \in 1..Len(calls) : e[k].id = calls[k].id
      BY <3>2, PendingExecutionsType DEF PendingExecutions
    <3> QED BY <1>b, <3>1, <3>2, <3>3 DEF Owed
  <2> QED BY <2>1, <2>2
<1>3. ASSUME NEW s \in streams, LlmError(s)
      PROVE  WaitsAreOwed'
  <2>1. state' \in {"Error", "WaitingForUserInput"} BY <1>3 DEF LlmError
  <2> QED BY <1>b, <2>1 DEF Owed
<1>4. CASE RetryTimeoutFired
  <2>1. /\ state' = "CallingLlm"
        /\ [req |-> conversation', attempt |-> retries'] \in streams'
    BY <1>4 DEF RetryTimeoutFired, SendLlmRequest
  <2> QED BY <1>b, <2>1 DEF Owed
<1>5. ASSUME NEW r \in runs, NEW ok \in BOOLEAN, ToolCompleted(r, ok)
      PROVE  WaitsAreOwed'
  <2>1. PICK marked : marked = Marked(executions, r, ok) OBVIOUS
  <2>2. state = "ExecutingTools" /\ runs \ {r} \subseteq runs' /\ UNCHANGED retries
    BY <1>5 DEF ToolCompleted
  <2>3. CASE ~AllComplete(marked)
    <3>1. executions' = marked /\ UNCHANGED <<state, conversation>>
      BY <1>5, <2>1, <2>3 DEF ToolCompleted
    <3>2. marked \in Seq(ToolExecutionStatus) /\ Len(marked) = Len(executions)
      BY <1>t, <2>1, MarkedType
    <3>3. \A k \in 1..Len(executions) :
            /\ executions[k].id = r.id => marked[k].done
            /\ executions[k].id # r.id => marked[k] = executions[k]
      BY <1>t, <2>1, MarkedFields
    <3>4. ASSUME NEW k \in 1..Len(executions), ~marked[k].done
          PROVE  [id |-> marked[k].id, round |-> Len(conversation)] \in runs'
      <4>1. executions[k].id # r.id /\ marked[k] = executions[k] BY <3>3, <3>4
      <4>2. [id |-> executions[k].id, round |-> Len(conversation)] \in runs
        <5>1. k \in DOMAIN executions /\ ~executions[k].done
          BY <1>t, <3>4, <4>1
        <5> QED BY <1>a, <2>2, <5>1 DEF Owed
      <4>3. [id |-> executions[k].id, round |-> Len(conversation)] # r
        BY <4>1
      <4> QED BY <2>2, <4>1, <4>2, <4>3
    <3>5. DOMAIN marked = 1..Len(executions) BY <3>2
    <3> QED BY <1>b, <2>2, <3>1, <3>4, <3>5 DEF Owed
  <2>4. CASE AllComplete(marked)
    <3>1. \/ /\ state' = "PostToolsHook" /\ Len(conversation') \in hooks'
          \/ /\ state' = "CallingLlm"
             /\ [req |-> conversation', attempt |-> 0] \in streams'
      BY <1>5, <2>1, <2>4 DEF ToolCompleted, EnterPostToolsHook, SendLlmRequest
    <3>2. retries' = 0 BY <1>t, <2>2
    <3> QED BY <1>b, <3>1, <3>2 DEF Owed
  <2> QED BY <2>3, <2>4
<1>6. ASSUME NEW h \in hooks, PostToolsHookCompleted(h)
      PROVE  WaitsAreOwed'
  <2>1. /\ state = "PostToolsHook" /\ state' = "CallingLlm"
        /\ [req |-> pending_llm_request, attempt |-> 0] \in streams'
        /\ UNCHANGED <<conversation, retries>>
    BY <1>6 DEF PostToolsHookCompleted, SendLlmRequest
  <2>2. pending_llm_request = conversation' /\ retries' = 0
    BY <1>t, <2>1 DEF PendingRequestCurrent
  <2> QED BY <1>b, <2>1, <2>2 DEF Owed
<1>7. CASE ShutdownRequested
  <2>1. state' = "ShuttingDown" BY <1>7 DEF ShutdownRequested
  <2> QED BY <1>b, <2>1 DEF Owed
<1>8. CASE IgnoredStep
  <2>1. UNCHANGED <<state, conversation, retries, executions>>
    BY <1>8 DEF IgnoredStep, StreamEndsSilently, ArmRetryTimer, LateEvent,
       LateLlmEvent, LateToolCompleted, LatePostToolsHookCompleted,
       LateRetryTimeout, agentVars
  <2>2. state = "CallingLlm" =>
          deserted' \/ ([req |-> conversation, attempt |-> retries] \in streams
                          => [req |-> conversation, attempt |-> retries] \in streams')
    <3>1. CASE \E s \in streams : StreamEndsSilently(s)
      BY <3>1 DEF StreamEndsSilently
    <3>2. CASE LateEvent \/ ArmRetryTimer
      BY <3>2, Zenon DEF ArmRetryTimer, LateEvent, LateLlmEvent, LateToolCompleted,
         LatePostToolsHookCompleted, LateRetryTimeout, history
    <3> QED BY <1>8, <3>1, <3>2 DEF IgnoredStep
  <2>6. state = "CallingLlm" => (deserted => deserted')
    BY <1>8, Zenon DEF IgnoredStep, StreamEndsSilently, ArmRetryTimer, LateEvent,
       LateLlmEvent, LateToolCompleted, LatePostToolsHookCompleted,
       LateRetryTimeout, history
  <2>3. state = "ExecutingTools" => runs' = runs
    BY <1>8 DEF IgnoredStep, StreamEndsSilently, ArmRetryTimer, LateEvent,
       LateLlmEvent, LateToolCompleted, LatePostToolsHookCompleted, LateRetryTimeout
  <2>4. state = "PostToolsHook" => hooks' = hooks
    BY <1>8 DEF IgnoredStep, StreamEndsSilently, ArmRetryTimer, LateEvent,
       LateLlmEvent, LateToolCompleted, LatePostToolsHookCompleted, LateRetryTimeout
  <2>5. Owed(state', conversation', retries', executions', streams', runs', hooks',
             deserted')
    BY <1>a, <2>1, <2>2, <2>3, <2>4, <2>6 DEF Owed
  <2> QED BY <1>b, <2>5
<1>9. CASE UNCHANGED vars
  BY <1>9, <1>a, <1>b DEF vars, agentVars, callerVars, history
<1> QED
  BY <1>1, <1>2, <1>3, <1>4, <1>5, <1>6, <1>7, <1>8, <1>9
     DEF Next, IgnoredStep, LlmEvent, ToolEvent, HookEvent

\* With any caller, the agent never waits for a stream, a tool run or a hook
\* that was not started or whose report it has already used up: the ways left
\* to wait for ever are a stream that ends without an event and a retry timer
\* nobody arms.
THEOREM NothingAwaitedInVain == Spec => []WaitsAreOwed
<1>1. Init => WaitsAreOwed
  BY DEF Init, WaitsAreOwed
<1> QED
  BY <1>1, TypeCorrect, HookKeepsRequest, OwedStep, PTL DEF Spec
==============================================================================
