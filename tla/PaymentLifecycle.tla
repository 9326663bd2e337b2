-------------------------- MODULE PaymentLifecycle --------------------------
(***************************************************************************)
(* What a merchant may rely on: an order is opened unpaid, is confirmed at *)
(* most once, by a payment that confirms no other order at that time, and  *)
(* a confirmation may be withdrawn, after which the order stays disputed   *)
(* and the payment may confirm another order.                              *)
(***************************************************************************)
CONSTANTS Orders, Entries, NoEntry

VARIABLES status, paidBy

lvars == <<status, paidBy>>

LInit == /\ status = [o \in Orders |-> "ABSENT"]
         /\ paidBy = [o \in Orders |-> NoEntry]

Open(o) == /\ status[o] = "ABSENT"
           /\ status' = [status EXCEPT ![o] = "UNPAID"]
           /\ UNCHANGED paidBy

InUse(e) == \E o \in Orders : status[o] = "CONFIRMED" /\ paidBy[o] = e

Confirm(o, e) == /\ status[o] = "UNPAID"
                 /\ ~InUse(e)
                 /\ status' = [status EXCEPT ![o] = "CONFIRMED"]
                 /\ paidBy' = [paidBy EXCEPT ![o] = e]

Dispute(o) == /\ status[o] = "CONFIRMED"
              /\ status' = [status EXCEPT ![o] = "DISPUTED"]
              /\ UNCHANGED paidBy

LNext == \E o \in Orders : \/ Open(o)
                           \/ Dispute(o)
                           \/ \E e \in Entries : Confirm(o, e)

LSpec == LInit /\ [][LNext]_lvars

=============================================================================
