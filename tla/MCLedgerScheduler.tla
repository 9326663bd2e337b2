-------------------------- MODULE MCLedgerScheduler --------------------------
(***************************************************************************)
(* LedgerScheduler for TLC.  The unit of time is the minimum interval; the *)
(* wall clock can be set back by one unit.                                 *)
(***************************************************************************)
EXTENDS LedgerScheduler

MCClockSetBack == {-1}
=============================================================================
