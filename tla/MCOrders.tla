------------------------------ MODULE MCOrders ------------------------------
(* Instances of Orders for TLC: the traffic of each run.                   *)
EXTENDS Orders, TLC

\* Two requests race: of the orders service, the kitchen and the cron job, but for
\* the unchecked update of a single item; and of those that look at whole orders
\* with the till, the gateway and the tables, with and without cash on delivery.
Outside == PaidHandlers \cup {"confirmOnline", "forceClose"}
Inside == AllHandlers \ ({"setKitchen", "alone", "fail"} \cup Outside)
Paid == {"updateStatus", "cancel", "reject", "start", "bumpReady"}
           \cup (Outside \ {"confirmCod"})
Racing == {Inside, Paid, Paid \cup {"confirmCod"}}

\* Every handler but the gateway's, one after the other, with failures; the
\* same without payments.
OneByOne == {(AllHandlers \ {"confirmOnline"}) \ S : S \in {{}, PaidHandlers}}

\* A day with one clerk for everything, and evenings with two kitchen tablets,
\* for whole orders and at the pass.
Shifts == OneByOne \cup {KitchenHandlers, PassHandlers}

Symmetry == Permutations(Requests) \cup Permutations(Items)
=============================================================================
