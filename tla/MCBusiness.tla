----------------------------- MODULE MCBusiness -----------------------------
(* Instances of Business for TLC: each mix is the traffic of one department. *)
EXTENDS Business, TLC

\* Points: staff credit and redeem for one customer, at once or with failures.
Points == {{"customer", "earn", "redeem"}, {"alone", "fail", "customer", "earn", "redeem"}}

\* The shop: carts; points that staff credit, that orders earn, or that nobody
\* has; and one request after the other, with or without failures.
Shopping == {
    {"cart", "update", "cartExpires", "place"},
    {"customer", "cart", "place", "earn"},
    {"customer", "cart", "place", "confirm"},
    {"customer", "cart", "place", "overdraw"},
    {"alone", "fail", "customer", "cart", "update", "place", "confirm"},
    {"alone", "customer", "cart", "update", "cartExpires", "place", "confirm", "earn"}}

\* Bills: handlers that race, and one after the other, with or without failures.
Till == {{"bill", "addItem", "void", "discountBill"},
         {"alone", "fail", "bill", "rebate", "importBill", "online", "addItem", "void",
          "discountBill"},
         {"alone", "bill", "rebate", "importBill", "online", "addItem", "void",
          "discountBill"}}

\* Stamp cards, and the orders of a platform: handlers that race, or one after the
\* other, with failures.
Promotion == {{"customer", "stamp", "reward"},
              {"alone", "fail", "customer", "stamp", "reward"}}
Platform == {{"webhook", "repeat", "connection", "decide"},
             {"alone", "fail", "webhook", "repeat", "connection", "decide"}}

\* Super-admins lock a tenant while its users log in, and its owner edits staff.
Access == {
    {"fail", "request", "login", "suspend", "terminate", "activate"},
    {"request", "staff", "suspend", "activate", "unlock"}}

\* Subscriptions.
Subscriptions == {
    {"upgrade", "cancel", "reactivate", "billing", "cron", "time"},
    {"alone", "extendTrial", "updatePlan", "billing", "cron", "time"} \cup Methods}

\* Deliveries; one of the drivers may be made inactive.
Dispatch == {
    {"createDelivery", "assign", "manager", "driver"},
    {"alone", "fail", "createDelivery", "assign", "manager", "driver", "staff"}}

\* Shifts.
Rota == {
    {"schedule", "clockIn", "clockOut", "missed", "time"},
    {"alone", "fail", "schedule", "clockIn", "clockOut", "missed", "time"},
    {"alone", "schedule", "updateShift", "clockIn", "manualEntry", "missed", "time",
     "night"}}

Departments ==
    Points \cup Shopping \cup Till \cup Promotion \cup Platform \cup Access \cup Subscriptions
        \cup Dispatch \cup Rota

\* A customer fills a card again and again.
StampsAlone == {{"alone", "customer", "stamp", "reward"}}

WorkerOf == [s \in Shifts |-> CHOOSE u \in Users : TRUE]
=============================================================================
