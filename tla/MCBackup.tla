------------------------------ MODULE MCBackup ------------------------------
(* The instance of BackupOperations that TLC checks. *)
EXTENDS BackupOperations, TLC

CONSTANTS p1, p2

MCProcs == {p1, p2}
MCSymmetry == Permutations(MCProcs)
MCInodes == 1..6

=============================================================================
