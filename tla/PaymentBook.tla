---------------------------- MODULE PaymentBook ----------------------------
(***************************************************************************)
(* What the payments of an order promise, whatever handlers and callbacks  *)
(* do at the same time: a payment that was charged stays charged, and a    *)
(* refund is paid out at most once, in full, and only from a payment that  *)
(* was charged before.                                                     *)
(***************************************************************************)
CONSTANTS
    Payments,   \* as in module Payments
    Refunds,
    None        \* not a payment

VARIABLES
    charged,    \* the payments that were charged
    paidOut     \* the payment each refund was paid out from, None if not yet

book == <<charged, paidOut>>

Init ==
    /\ charged = {}
    /\ paidOut = [f \in Refunds |-> None]

Charge(p) ==
    /\ p \notin charged
    /\ charged' = charged \cup {p}
    /\ UNCHANGED paidOut

PayOut(f, p) ==
    /\ p \in charged
    /\ paidOut[f] = None
    /\ paidOut' = [paidOut EXCEPT ![f] = p]
    /\ UNCHANGED charged

Next ==
    \/ \E p \in Payments : Charge(p)
    \/ \E f \in Refunds, p \in Payments : PayOut(f, p)

Spec == Init /\ [][Next]_book
=============================================================================
