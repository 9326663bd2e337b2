---------------------------- MODULE MCScheduler ----------------------------
(* Instances of ReconciliationScheduler for TLC. *)
EXTENDS ReconciliationScheduler

CONSTANTS o1

OneOrder == {o1}
=============================================================================
