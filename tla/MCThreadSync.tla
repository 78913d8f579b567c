---------------------------- MODULE MCThreadSync ----------------------------
(* Instances of ThreadSync for TLC: two threads that are synced and one that *)
(* is private.  The first two are interchangeable, and the run that uses     *)
(* this checks invariants and action properties only.                        *)
EXTENDS ThreadSync, TLC

CONSTANTS t1, t2, p

MCThread == {t1, t2, p}
MCPrivate == {p}
MCSymmetry == Permutations({t1, t2})
==============================================================================
