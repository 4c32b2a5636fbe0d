------------------------------ MODULE MCDining ------------------------------
(* Instances of Dining for TLC.                                            *)
EXTENDS Dining, TLC

\* Waiters and cashiers at the POS; statements may fail.
Waiters == {"open", "staffBill", "close", "forceClose", "transfer", "markAvailable",
            "overview", "posOrder", "orderEnds", "cron", "fail"}

\* Guests order by phone; staff close and move their sessions.
Phones == {"close", "transfer", "markAvailable", "orderEnds", "scan", "cart",
           "place", "tokensExpire"}

\* Carts expire and sessions are left behind.
Leavers == {"open", "scan", "cart", "place", "cartExpires", "cron"}

\* Managers set any status and reassign orders.
Managers == {"open", "setStatus", "overview", "assign", "posOrder"}

\* Guests order and ask for the bill.
Bills == {"scan", "cart", "place", "guestBill", "close"}

Shifts == {Waiters, Phones, Leavers, Managers, Bills}

\* Guests of one table press the button at the same moment.
TogetherAtTable == {{"scan", "cart", "place"}}
=============================================================================
