---------------------------- MODULE MCOrderStore ----------------------------
(* A small instance of OrderStore for TLC.                                 *)
EXTENDS OrderStore, TLC

CONSTANTS o1, o2, o3, s1, a1, a2

Request(k, m, amount, detail) ==
    [site |-> s1, key |-> k, merchant |-> m, amount |-> amount, detail |-> detail]

(* Three keys compete for the amounts of each account; the third reuses a  *)
(* merchant order number, and the first comes again with other contents,   *)
(* so that at most two orders are made.                                    *)
MixedRequests == {Request(1, 1, 1, "x"), Request(2, 2, 1, "x"),
                  Request(3, 2, 2, "x"), Request(1, 3, 1, "y")}

(* The orders are interchangeable, and so are the accounts.                *)
BothSymmetry == Permutations({o1, o2, o3}) \cup Permutations({a1, a2})

=============================================================================
