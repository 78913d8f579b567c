-------------------------------- MODULE Agent --------------------------------
(***************************************************************************)
(* The agent state machine of loom-common-core (agent.rs, state.rs) and    *)
(* the caller that performs the actions handle_event returns.              *)
(*                                                                         *)
(* Agent::handle_event is synchronous: each of its match arms is an action *)
(* below.  What makes it hard is the caller: events carry no request id,   *)
(* so a late event of an old stream, tool run, hook or timer is accepted   *)
(* in whatever state it finds.  The streams of loom-server-llm-proxy and   *)
(* loom-server-llm-openai go on after an Error event (stream.rs), and the  *)
(* Vertex client numbers its call ids from 0 in every response.            *)
(*                                                                         *)
(* Messages keep what the properties tell apart: the role, the call a      *)
(* result answers and whether it succeeded.  Two fields are history: the   *)
(* length of the conversation a message was produced for, and the tool     *)
(* calls of the response an assistant message came with.  The message      *)
(* itself does not carry them: handle_event pushes response.message, which *)
(* every provider builds with Message::assistant(text) and no tool_calls,  *)
(* and takes the executions from response.tool_calls.                      *)
(*                                                                         *)
(* Not modelled: the public append_message, which nothing calls.           *)
(***************************************************************************)
EXTENDS Naturals, Sequences

CONSTANTS
  CallId,     \* ids an LLM gives its tool calls
  Tool,       \* tool names
  Mutating,   \* "edit_file" and "bash"
  Replies,    \* the sequences of tool calls a response may carry
  MaxRetries, \* AgentConfig.max_retries
  Careful,    \* TRUE: the caller drops a failed stream and reports each
              \* tool run, hook and timer once; FALSE: it may repeat them
  NoCall,     \* the id of a message that answers no call
  MaxMsgs     \* bound on the length of a conversation

Call == [id : CallId, tool : Tool]

ASSUME RepliesAssumption ==
  /\ Mutating \subseteq Tool
  /\ NoCall \notin CallId
  /\ Replies \subseteq Seq(Call)
  /\ \A r \in Replies : \A j, k \in 1..Len(r) : r[j].id = r[k].id => j = k

ASSUME BoundsAssumption ==
  MaxRetries \in Nat /\ MaxMsgs \in Nat /\ Careful \in BOOLEAN

VARIABLES
  state,               \* AgentState's variant
  conversation,        \* its ConversationContext.messages
  retries,             \* of CallingLlm and Error
  executions,          \* of ExecutingTools
  pending_llm_request, \* of PostToolsHook
  completed_tools      \* of PostToolsHook

\* What the caller has under way.
VARIABLES
  streams,             \* open LLM streams: the request and its attempt
  runs,                \* tool runs, with the round that started them
  hooks,               \* post-tools hooks, by the round that started them
  timers               \* whether a retry timer is armed

\* History.
VARIABLES
  attempts,            \* requests sent since the conversation last grew
  hooked,              \* rounds whose post-tools hook completed
  deserted             \* the stream of the last request ended with no event

agentVars  == <<state, conversation, retries, executions,
                pending_llm_request, completed_tools>>
callerVars == <<streams, runs, hooks, timers>>
history    == <<attempts, hooked, deserted>>
vars       == <<agentVars, callerVars, history>>

------------------------------------------------------------------------------
(* Data.  A payload field of a variant that is not current is empty.        *)

Message == [role : {"user", "assistant", "tool"}, asked : Replies \cup {<<>>},
            id : CallId \cup {NoCall}, ok : BOOLEAN, round : Nat]

UserMsg == [role |-> "user", asked |-> <<>>, id |-> NoCall, ok |-> TRUE,
            round |-> 0]

\* response.message, pushed as it is; asked (response.tool_calls) and round
\* (the length of the request it answers) are history.
AssistantMsg(calls, n) ==
  [role |-> "assistant", asked |-> calls, id |-> NoCall, ok |-> TRUE,
   round |-> n]

ToolExecutionStatus ==
  [id : CallId, tool : Tool, done : BOOLEAN, ok : BOOLEAN, round : Nat]

States == {"WaitingForUserInput", "CallingLlm", "ExecutingTools",
           "PostToolsHook", "Error", "ShuttingDown"}

\* process_llm_response: every call of the response starts Pending.
PendingExecutions(calls) ==
  [k \in 1..Len(calls) |-> [id |-> calls[k].id, tool |-> calls[k].tool,
                            done |-> FALSE, ok |-> FALSE, round |-> 0]]

\* The loop over executions: every entry with the id is (over)written.
Marked(execs, r, ok) ==
  [k \in DOMAIN execs |->
     IF execs[k].id = r.id
     THEN [execs[k] EXCEPT !.done = TRUE, !.ok = ok, !.round = r.round]
     ELSE execs[k]]

\* Mutant: any instead of all.
AllComplete_any(execs) == \E k \in DOMAIN execs : execs[k].done

AllComplete(execs) == \A k \in DOMAIN execs : execs[k].done

\* Mutant: a hook only when every tool of the round is mutating.
has_mutating_tools_all(execs) ==
  \A k \in DOMAIN execs : execs[k].tool \in Mutating /\ execs[k].ok

has_mutating_tools(execs) ==
  \E k \in DOMAIN execs :
    execs[k].done /\ execs[k].tool \in Mutating /\ execs[k].ok

extract_completed_tools(execs) ==
  [k \in DOMAIN execs |-> [tool_name |-> execs[k].tool,
                           succeeded |-> execs[k].ok]]

\* Mutant: a failed execution leaves no message.
ToolMessages_successful(execs) ==
  LET done == SelectSeq(execs, LAMBDA e : e.ok)
  IN [k \in DOMAIN done |-> [role |-> "tool", asked |-> <<>>, id |-> done[k].id,
                             ok |-> TRUE, round |-> done[k].round]]

\* The tool messages appended when all executions are complete; an execution
\* that is not would leave none, but then the code is not reached.
ToolMessages(execs) ==
  [k \in DOMAIN execs |-> [role |-> "tool", asked |-> <<>>,
                           id |-> execs[k].id, ok |-> execs[k].ok,
                           round |-> execs[k].round]]

\* Bound: room for n messages and for the answer that ends the turn.
Room(n) == Len(conversation) + n + 1 <= MaxMsgs

------------------------------------------------------------------------------
Init ==
  /\ state = "WaitingForUserInput" /\ conversation = <<>>
  /\ retries = 0 /\ executions = <<>>
  /\ pending_llm_request = <<>> /\ completed_tools = <<>>
  /\ streams = {} /\ runs = {} /\ hooks = {} /\ timers = FALSE
  /\ attempts = 0 /\ hooked = {} /\ deserted = FALSE

\* AgentAction::SendLlmRequest(request), performed by the caller.
SendLlmRequest(request, n) ==
  /\ streams' = streams \cup {[req |-> request, attempt |-> n]}
  /\ deserted' = FALSE

\* WaitingForUserInput + UserInput
UserInput ==
  /\ state = "WaitingForUserInput" /\ Room(1)
  /\ state' = "CallingLlm"
  /\ conversation' = Append(conversation, UserMsg)
  /\ retries' = 0
  /\ SendLlmRequest(conversation', 0)
  /\ attempts' = 1
  /\ UNCHANGED <<executions, pending_llm_request, completed_tools, runs,
                 hooks, timers, hooked>>

\* CallingLlm + LlmEvent::Completed, through process_llm_response: calls is
\* response.tool_calls.  No stream emits anything after Completed.
LlmCompleted(s, calls) ==
  /\ state = "CallingLlm"
  /\ IF calls = <<>> THEN TRUE ELSE Room(1 + Len(calls))
  /\ streams' = streams \ {s}
  /\ conversation' = Append(conversation, AssistantMsg(calls, Len(s.req)))
  /\ retries' = 0
  /\ \/ /\ calls # <<>>
        /\ state' = "ExecutingTools"
        /\ executions' = PendingExecutions(calls)
        /\ runs' = runs \cup {[id |-> calls[k].id, round |-> Len(conversation')] :
                                k \in 1..Len(calls)}
     \/ /\ calls = <<>>
        /\ state' = "WaitingForUserInput"
        /\ UNCHANGED <<executions, runs>>
  /\ attempts' = 0
  /\ UNCHANGED <<pending_llm_request, completed_tools, hooks, timers, hooked,
                 deserted>>

\* The caller after an Error event: a careful one drops the stream.
AfterError(s) == streams' = IF Careful THEN streams \ {s} ELSE streams

\* Mutant: the old count is compared, as if it counted this error.
CanRetry_off_by_one == retries < MaxRetries

CanRetry == retries + 1 < MaxRetries

\* CallingLlm + LlmEvent::Error.  The action returned, WaitForInput, does not
\* ask for a retry timer.
LlmError(s) ==
  /\ state = "CallingLlm"
  /\ \/ CanRetry /\ state' = "Error" /\ retries' = retries + 1
     \/ ~CanRetry /\ state' = "WaitingForUserInput" /\ retries' = 0
  /\ AfterError(s)
  /\ UNCHANGED <<conversation, executions, pending_llm_request,
                 completed_tools, runs, hooks, timers, history>>

\* A stream ends and emits neither Completed nor Error: the agent is told
\* nothing.  If it was the stream of the last request, nothing more will come.
StreamEndsSilently(s) ==
  /\ state = "CallingLlm"
  /\ streams' = streams \ {s}
  /\ deserted' = (deserted \/ s = [req |-> conversation, attempt |-> retries])
  /\ UNCHANGED <<agentVars, runs, hooks, timers, attempts, hooked>>

\* A caller that looks at the state arms the retry timer; it may not.
ArmRetryTimer ==
  /\ state = "Error" /\ ~timers
  /\ timers' = TRUE
  /\ UNCHANGED <<agentVars, streams, runs, hooks, history>>

\* Mutant: back to CallingLlm without a request.
RetryTimeoutFired_silent ==
  /\ timers /\ state = "Error"
  /\ timers' = ~Careful
  /\ state' = "CallingLlm"
  /\ attempts' = attempts + 1
  /\ UNCHANGED <<conversation, retries, executions, pending_llm_request,
                 completed_tools, streams, runs, hooks, hooked, deserted>>

\* Error (origin Llm, the only origin ever constructed) + RetryTimeoutFired
RetryTimeoutFired ==
  /\ timers /\ state = "Error"
  /\ timers' = ~Careful
  /\ state' = "CallingLlm"
  /\ SendLlmRequest(conversation, retries)
  /\ attempts' = attempts + 1
  /\ UNCHANGED <<conversation, retries, executions, pending_llm_request,
                 completed_tools, runs, hooks, hooked>>

\* AgentAction::RunPostToolsHook: the request waits for the hook.
EnterPostToolsHook(marked, conv) ==
  /\ state' = "PostToolsHook"
  /\ pending_llm_request' = conv
  /\ completed_tools' = extract_completed_tools(marked)
  /\ hooks' = hooks \cup {Len(conv)}

\* ExecutingTools + ToolCompleted { call_id, outcome }
ToolCompleted(r, ok) ==
  LET marked == Marked(executions, r, ok)
      conv   == conversation \o ToolMessages(marked)
  IN /\ state = "ExecutingTools"
     /\ runs' = IF Careful THEN runs \ {r} ELSE runs
     /\ \/ /\ ~AllComplete(marked)
           /\ executions' = marked
           /\ UNCHANGED <<state, conversation, pending_llm_request,
                          completed_tools, streams, hooks, attempts, deserted>>
        \/ /\ AllComplete(marked)
           /\ executions' = <<>> /\ conversation' = conv
           /\ \/ /\ has_mutating_tools(marked)
                 /\ EnterPostToolsHook(marked, conv)
                 /\ UNCHANGED <<streams, attempts, deserted>>
              \/ /\ ~has_mutating_tools(marked)
                 /\ state' = "CallingLlm"
                 /\ SendLlmRequest(conv, 0)
                 /\ attempts' = 1
                 /\ UNCHANGED <<pending_llm_request, completed_tools, hooks>>
     /\ UNCHANGED <<retries, timers, hooked>>

\* PostToolsHook + PostToolsHookCompleted, for the hook started at round h
PostToolsHookCompleted(h) ==
  /\ state = "PostToolsHook"
  /\ hooks' = IF Careful THEN hooks \ {h} ELSE hooks
  /\ state' = "CallingLlm"
  /\ SendLlmRequest(pending_llm_request, 0)
  /\ pending_llm_request' = <<>> /\ completed_tools' = <<>>
  /\ hooked' = hooked \cup {h}
  /\ attempts' = 1
  /\ UNCHANGED <<conversation, retries, executions, runs, timers>>

\* any state + ShutdownRequested: the conversation goes with the old state
ShutdownRequested ==
  /\ state' = "ShuttingDown"
  /\ conversation' = <<>> /\ retries' = 0 /\ executions' = <<>>
  /\ pending_llm_request' = <<>> /\ completed_tools' = <<>>
  /\ UNCHANGED <<callerVars, history>>

\* The catch-all arm: the agent ignores an event of a stream, run, hook or
\* timer that it is not waiting for, and the caller has used the event up.
\* (Ignored user input, tool progress and deltas change nothing at all.)
LateLlmEvent(s) ==
  /\ state # "CallingLlm"
  /\ streams' = streams \ {s}
  /\ UNCHANGED <<agentVars, runs, hooks, timers, history>>

LateToolCompleted(r) ==
  /\ state # "ExecutingTools"
  /\ runs' = runs \ {r}
  /\ UNCHANGED <<agentVars, streams, hooks, timers, history>>

LatePostToolsHookCompleted(h) ==
  /\ state # "PostToolsHook"
  /\ hooks' = hooks \ {h}
  /\ UNCHANGED <<agentVars, streams, runs, timers, history>>

LateRetryTimeout ==
  /\ timers /\ state # "Error"
  /\ timers' = FALSE
  /\ UNCHANGED <<agentVars, streams, runs, hooks, history>>

LlmEvent == \E s \in streams : \/ \E calls \in Replies : LlmCompleted(s, calls)
                               \/ LlmError(s)
                               \/ StreamEndsSilently(s)
ToolEvent == \E r \in runs, ok \in BOOLEAN : ToolCompleted(r, ok)
HookEvent == \E h \in hooks : PostToolsHookCompleted(h)
LateEvent == \/ \E s \in streams : LateLlmEvent(s)
             \/ \E r \in runs : LateToolCompleted(r)
             \/ \E h \in hooks : LatePostToolsHookCompleted(h)
             \/ LateRetryTimeout

Next == \/ UserInput \/ LlmEvent \/ ArmRetryTimer \/ RetryTimeoutFired
        \/ ToolEvent \/ HookEvent \/ ShutdownRequested \/ LateEvent

Spec == Init /\ [][Next]_vars

\* A stream ends, with an event or without, a tool run and a hook finish and
\* are reported, an armed timer fires.  Nothing makes the caller arm one.
Fairness == /\ WF_vars(LlmEvent) /\ WF_vars(RetryTimeoutFired)
            /\ WF_vars(ToolEvent) /\ WF_vars(HookEvent)

FairSpec == Spec /\ Fairness

------------------------------------------------------------------------------
(* Properties.                                                              *)

\* Every variable has its type, a retry count stays below max_retries, and
\* payloads of variants that are not current are empty (agent.rs, state.rs).
TypeOK ==
  /\ state \in States
  /\ conversation \in Seq(Message)
  /\ retries \in Nat /\ (retries = 0 \/ retries < MaxRetries)
  /\ executions \in Seq(ToolExecutionStatus)
  /\ pending_llm_request \in Seq(Message)
  /\ completed_tools \in Seq([tool_name : Tool, succeeded : BOOLEAN])
  /\ streams \subseteq [req : Seq(Message), attempt : Nat]
  /\ runs \subseteq [id : CallId, round : Nat]
  /\ hooks \subseteq Nat
  /\ timers \in BOOLEAN
  /\ attempts \in Nat
  /\ hooked \subseteq Nat
  /\ deserted \in BOOLEAN
  /\ state # "ExecutingTools" => executions = <<>>
  /\ state # "PostToolsHook" => pending_llm_request = <<>>
  /\ state \notin {"CallingLlm", "Error"} => retries = 0

\* Up to n, the calls of every response are answered, each once and in order,
\* right after the message it came with, and a tool message stands nowhere
\* else.
AnsweredUpTo(msgs, n) ==
  /\ \A i \in 1..n : msgs[i].role = "assistant" =>
       \A k \in 1..Len(msgs[i].asked) :
         /\ i + k <= n
         /\ msgs[i + k].role = "tool"
         /\ msgs[i + k].id = msgs[i].asked[k].id
  /\ \A j \in 1..n : msgs[j].role = "tool" =>
       \E i \in 1..n : /\ i < j /\ msgs[i].role = "assistant"
                       /\ j <= i + Len(msgs[i].asked)

Answered(msgs) == AnsweredUpTo(msgs, Len(msgs))

\* Whatever order events arrive in, and however often, every request sent or
\* kept for after the hook holds one result for each tool call of every
\* response, in the order asked, and the conversation does too unless its
\* tools are still running; then the executions are exactly the calls of the
\* last response (handle_event, ToolCompleted).  It does not say a provider
\* can match them up: the calls themselves are not in the messages.
TranscriptWellFormed ==
  /\ \A s \in streams : Answered(s.req)
  /\ Answered(pending_llm_request)
  /\ IF state # "ExecutingTools" THEN Answered(conversation)
     ELSE LET n == Len(conversation)
          IN /\ n > 0 /\ AnsweredUpTo(conversation, n - 1)
             /\ conversation[n].role = "assistant"
             /\ Len(conversation[n].asked) = Len(executions)
             /\ \A k \in 1..Len(executions) :
                  executions[k].id = conversation[n].asked[k].id
             /\ ~AllComplete(executions)

\* A request is sent at most max_retries times (once if max_retries is 0):
\* after that many errors the agent gives the turn back to the user.
AttemptsBounded ==
  /\ attempts <= IF MaxRetries = 0 THEN 1 ELSE MaxRetries
  /\ state = "CallingLlm" => attempts = retries + 1
  /\ state = "Error" => attempts = retries /\ retries < MaxRetries

\* With a careful caller no answer and no tool result lands in a round other
\* than the one it was produced for: a retried request is not answered by
\* the stream that failed, a reused call id not by the previous round.
AnswersBelongToTheirRound ==
  \A i \in 1..Len(conversation) :
    /\ conversation[i].role = "assistant" => conversation[i].round = i - 1
    /\ conversation[i].role = "tool" =>
         /\ conversation[i].round \in 1..(i - 1)
         /\ conversation[conversation[i].round].role = "assistant"
         /\ i <= conversation[i].round + Len(conversation[conversation[i].round].asked)

\* With a careful caller, when a mutating tool succeeded, no request goes out
\* with its results before that round's post-tools hook (the auto-commit)
\* has completed.
HookBeforeNextRequest ==
  \A s \in streams : \A i \in 1..Len(s.req) :
    (/\ s.req[i].role = "assistant"
     /\ \E k \in 1..Len(s.req[i].asked) :
          s.req[i].asked[k].tool \in Mutating /\ s.req[i + k].ok)
    => i + Len(s.req[i].asked) \in hooked

\* The agent never waits for what nothing under way will deliver.  Calling
\* the LLM, a stream of exactly this conversation and this attempt is open,
\* unless it ended without an event; executing tools, every execution that is
\* not complete has its run; after them, this round's hook is running.
WaitsAreOwed ==
  /\ state = "CallingLlm" =>
       deserted \/ [req |-> conversation, attempt |-> retries] \in streams
  /\ state = "ExecutingTools" =>
       \A k \in DOMAIN executions :
         executions[k].done \/ [id |-> executions[k].id,
                                round |-> Len(conversation)] \in runs
  /\ state = "PostToolsHook" => Len(conversation) \in hooks

\* A user's turn ends, whatever errors, retries, tools and hooks come between
\* (the model stops calling tools, by MaxMsgs), but for the two places where
\* the agent can be left for good: its stream ended without an event, or
\* nobody armed the retry timer.
TurnEnds ==
  \/ []<>(state \in {"WaitingForUserInput", "ShuttingDown"})
  \/ <>[](state = "CallingLlm" /\ deserted)
  \/ <>[](state = "Error" /\ ~timers)

\* The agent implements the abstract transcript: while a request is being
\* made, retried or held back by the hook, an answer is owed.
phaseOf == CASE state = "WaitingForUserInput" -> "idle"
             [] state = "ExecutingTools"      -> "tools"
             [] state = "ShuttingDown"        -> "closed"
             [] OTHER                         -> "owing"

T == INSTANCE Transcript WITH
       phase <- phaseOf, log <- conversation, User <- {UserMsg},
       Answer <- {AssistantMsg(c, n) : c \in Replies, n \in 0..MaxMsgs},
       Result <- {m \in Message : m.role = "tool"}

\* Every step of the state machine is a step of the abstract transcript.
ImplementsTranscript == T!TSpec
==============================================================================
