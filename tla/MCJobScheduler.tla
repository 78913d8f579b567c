--------------------------- MODULE MCJobScheduler ---------------------------
(* Instances of JobScheduler for TLC.                                       *)
EXTENDS JobScheduler
==============================================================================
