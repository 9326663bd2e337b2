--------------------------- MODULE MCLedgerIngest ---------------------------
(***************************************************************************)
(* LedgerIngest for TLC: seconds are the unit, three events fit two pages. *)
(***************************************************************************)
EXTENDS LedgerIngest, TLC

CONSTANTS ev1, ev2, ev3

MCOccurredAt == [e \in Events |-> IF e = ev2 THEN 3 ELSE IF e = ev3 THEN 2 ELSE 1]
MCSweeps == <<[lookback |-> 4, interval |-> 3], [lookback |-> 2, interval |-> 2]>>
=============================================================================
