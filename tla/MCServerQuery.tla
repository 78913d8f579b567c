--------------------------- MODULE MCServerQuery ---------------------------
(* The instance of ServerQuery for TLC: two queries on one channel, and     *)
(* more responses than it keeps.                                            *)
EXTENDS ServerQuery
==============================================================================
