---------------------------- MODULE MCCronMonitor ----------------------------
(* Instances of CronMonitor for TLC. *)
EXTENDS CronMonitor
==============================================================================
