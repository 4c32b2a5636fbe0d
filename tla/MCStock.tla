------------------------------ MODULE MCStock ------------------------------
(* Instances of Stock for TLC.                                             *)
EXTENDS Stock, TLC

\* Purchasing with a second browser open, and on its own.
Purchasing == {"create", "order", "receive", "cancelOrder", "fail"}
Buyer == {"create", "order", "receive", "cancelOrder", "fail", "alone"}

\* Two restaurants that ship to each other, and one clerk for both.
Shipping == {"create", "ship", "takeIn", "recall"}
Clerk == {"create", "ship", "takeIn", "recall", "waste", "fail", "alone"}

\* Sales and waste during service.
Service == {"create", "deduct", "waste", "delete"}

\* Counting after hours.
Counting == {"create", "deduct", "waste", "stockTake", "fail", "alone"}

\* A manager who corrects figures, and sends bodies that repeat a line.
Office == {"create", "edit", "order", "receive", "repeat", "alone"}

Shifts == {Purchasing, Buyer, Shipping, Clerk, Service, Counting, Office}

Symmetry == Permutations(Originals) \cup Permutations(Clones) \cup Permutations(Sites)
                \cup Permutations(Lines) \cup Permutations(Transfers) \cup Permutations(Requests)
=============================================================================
