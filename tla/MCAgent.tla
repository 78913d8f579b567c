------------------------------- MODULE MCAgent -------------------------------
(* Instances of Agent for TLC.                                              *)
EXTENDS Agent

\* A response calls no tool, one of either kind, or one of each.  The ids
\* are those of the Vertex client, numbered from 0 in every response.
MCReplies == {<<>>,
              <<[id |-> "call_0", tool |-> "edit_file"]>>,
              <<[id |-> "call_0", tool |-> "read_file"]>>,
              <<[id |-> "call_0", tool |-> "read_file"],
                [id |-> "call_1", tool |-> "edit_file"]>>}
==============================================================================
