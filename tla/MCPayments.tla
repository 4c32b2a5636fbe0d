----------------------------- MODULE MCPayments -----------------------------
(* Instances of Payments for TLC: the handlers called in each run. *)
EXTENDS Payments, TLC

\* The till: staff take payments, void the ones in progress, refund, and change
\* the bill.
Till == {"process", "cancelPayment", "confirmCod", "refund", "rebill", "orderMoves"}

\* The web shop: customers pay online, gateways call back in time, customers
\* ask for refunds that nobody approves and staff refund on their own.
Shop == {"initiate", "webhook", "refund", "requestRefund", "orderMoves"}

\* Everything at once.
Everything == {AllHandlers}

\* Till and web shop, each on its own.
Departments == {Till, Shop}

\* Customers who let a session expire before the gateway calls back.
LateCallbacks == {{"initiate", "webhook", "expire"}}

Symmetry == Permutations(Payments) \cup Permutations(Refunds)
                \cup Permutations(Requests)
=============================================================================
