------------------------- MODULE MCBillingScheduler -------------------------
(* Small instances of BillingScheduler for TLC. *)
EXTENDS BillingScheduler, TLC

CONSTANTS s1, s2

\* The loops run the same code.
Loops == Permutations(Sched)
=============================================================================
