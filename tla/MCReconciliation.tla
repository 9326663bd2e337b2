-------------------------- MODULE MCReconciliation --------------------------
(* Small instances of Reconciliation for TLC.                              *)
EXTENDS StartupCheck, TLC

CONSTANTS o1, o2, e1, e2, d1, d2, s1, a1, k1, k2

Request(k) == [site |-> s1, key |-> k, merchant |-> k, amount |-> 1, detail |-> "x"]

TwoRequests == {Request(k1), Request(k2)}

Report(amount, direction, occurred, sandbox) ==
    [account |-> a1, amount |-> amount, direction |-> direction,
     occurred |-> occurred, sandbox |-> sandbox]

(* A payment of the amount asked for, one of another amount, and a         *)
(* movement that is no payment.                                            *)
RightAndWrongAmount == {Report(2, "CREDIT", 1, FALSE), Report(3, "CREDIT", 1, FALSE),
                        Report(2, "DEBIT", 1, FALSE)}

(* Payments of the amount asked for at different times.                    *)
TwoTimes == {Report(2, "CREDIT", 0, FALSE), Report(2, "CREDIT", 1, FALSE)}

MCSymmetry == Permutations({o1, o2}) \cup Permutations({e1, e2}) \cup Permutations({d1, d2})
              \cup Permutations({k1, k2})

=============================================================================
