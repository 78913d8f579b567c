------------------------------ MODULE Transcript ------------------------------
(***************************************************************************)
(* What a Loom agent promises about a conversation, without how it gets    *)
(* there: the transcript only ever grows by a user message when the agent  *)
(* is idle, by one assistant message when it owes an answer, and by the    *)
(* complete block of results for the tool calls that came with it (asked:  *)
(* the calls of the response, which the message itself does not carry).    *)
(* Agent.tla implements this specification (AgentProofs.tla proves it).    *)
(***************************************************************************)
EXTENDS Naturals, Sequences

CONSTANTS
  User,       \* the messages a user can send
  Answer,     \* the messages the model can send, with the calls asked
  Result      \* the messages a tool can send

VARIABLES
  phase,      \* "idle", "owing", "tools" or "closed"
  log         \* the transcript

tvars == <<phase, log>>

TInit == phase = "idle" /\ log = <<>>

\* The user speaks: only to an idle agent.
Ask == /\ phase = "idle"
       /\ \E m \in User : log' = Append(log, m)
       /\ phase' = "owing"

\* The model answers; with tool calls the tools come next.
Reply == /\ phase = "owing"
         /\ \E m \in Answer :
              /\ log' = Append(log, m)
              /\ phase' = IF m.asked = <<>> THEN "idle" ELSE "tools"

\* All results of the last assistant message at once, in the order asked.
Results ==
  /\ phase = "tools"
  /\ LET asked == log[Len(log)].asked
     IN /\ Len(log') = Len(log) + Len(asked)
        /\ \A i \in 1..Len(log) : log'[i] = log[i]
        /\ \A k \in 1..Len(asked) :
             /\ log'[Len(log) + k] \in Result
             /\ log'[Len(log) + k].id = asked[k].id
  /\ phase' = "owing"

\* The model never answered: the turn ends, what was said stays.
GiveUp == phase = "owing" /\ phase' = "idle" /\ UNCHANGED log

\* Shutting down discards the transcript with the agent's state.
Close == phase' = "closed" /\ log' = <<>>

TNext == Ask \/ Reply \/ Results \/ GiveUp \/ Close

TSpec == TInit /\ [][TNext]_tvars
===============================================================================
