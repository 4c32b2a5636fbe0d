------------------------------ MODULE Business ------------------------------
(***************************************************************************)
(* The business around the orders of a restaurant: its web shop and the    *)
(* points and stamps of its customers, the bills of its orders, those of   *)
(* delivery platforms, deliveries, staff, users and subscription.  WebShop *)
(* and Stamps share the customers of Loyalty, Deliveries and Staff the     *)
(* users of Tenants.                                                       *)
(***************************************************************************)
EXTENDS WebShop, Bills, Stamps, Aggregators, Deliveries, Staff

AllEvents ==
    {"alone", "fail",
     "customer", "earn", "redeem", "cart", "update", "cartExpires", "place",
     "overdraw", "confirm",
     "request", "login", "staff", "suspend", "terminate", "activate", "unlock",
     "extendTrial", "updatePlan", "billing", "cron", "time"} \cup Methods \cup
    {"createDelivery", "assign", "manager", "driver",
     "schedule", "updateShift", "night", "clockIn", "clockOut",
     "manualEntry", "missed"} \cup
    {"bill", "rebate", "importBill", "online", "addItem", "void", "discountBill"} \cup
    {"stamp", "reward", "webhook", "repeat", "connection", "decide"}

ASSUME MixesAssumption == Mixes \subseteq SUBSET AllEvents

vars == <<calls, req, loyaltyVars, shopVars, billVars, stampVars, platformVars, tenantVars,
          deliveryVars, staffVars>>

shopState == <<loyaltyVars, shopVars>>
saleState == <<billVars, stampVars, platformVars>>
crewState == <<deliveryVars, staffVars>>

Init ==
    /\ RequestsInit
    /\ ShopInit
    /\ BillsInit
    /\ StampsInit
    /\ PlatformInit
    /\ TenantsInit
    /\ DeliveriesInit
    /\ StaffInit

Shop ==
    /\ \/ \E r \in Handling : \/ ShopNext(r)
                              \/ LoyaltyNext(r) /\ UNCHANGED shopVars
       \/ \E k \in Carts : InitCart(k) \/ CartExpires(k)
    /\ UNCHANGED <<saleState, tenantVars, crewState>>

Sales ==
    /\ \/ /\ (\E r \in Handling : BillsNext(r)) \/ \E b \in Bills : Advance(b)
          /\ UNCHANGED <<stampVars, platformVars>>
       \/ /\ \E r \in Handling : StampsNext(r)
          /\ UNCHANGED <<billVars, platformVars>>
       \/ /\ PlatformMoves \/ \E r \in Handling : PlatformNext(r)
          /\ UNCHANGED <<billVars, stampVars>>
    /\ UNCHANGED <<shopState, tenantVars, crewState>>

Tenancy ==
    /\ TimePasses \/ \E r \in Handling : TenantsNext(r)
    /\ UNCHANGED <<shopState, saleState, crewState>>

Delivering ==
    /\ \E r \in Handling : DeliveriesNext(r)
    /\ UNCHANGED <<shopState, saleState, staffVars>>

Staffing ==
    /\ \/ \E r \in Handling : StaffNext(r)
       \/ ManagersAct
       \/ \E s \in Shifts : Later(s)
    /\ UNCHANGED <<shopState, saleState, deliveryVars>>

Failure ==
    /\ \E r \in Handling : Fails(r)
    /\ UNCHANGED <<calls, shopState, saleState, tenantVars, crewState>>

Next == Shop \/ Sales \/ Tenancy \/ Delivering \/ Staffing \/ Failure

Spec == Init /\ [][Next]_vars

\* Keys expire, a handler that has begun goes on, and the hourly job runs again
\* and again, even where others keep it waiting for its turn.
Fairness ==
    /\ \A u \in Users :
          WF_vars(CacheExpires(u) /\ UNCHANGED <<shopState, saleState, crewState>>)
    /\ \A r \in Handling :
          /\ WF_vars(TenantsGoOn(r) /\ UNCHANGED <<shopState, saleState, crewState>>)
          /\ SF_vars(CronRead(r) /\ UNCHANGED <<shopState, saleState, crewState>>)

FairSpec == Spec /\ Fairness

-----------------------------------------------------------------------------
Step == {"idle", "createAccount", "earn", "autoEarn", "redeem", "saveCart",
         "createOrder", "redeemRead", "redeemOrder", "discount", "clearCart",
         "confirm", "cacheUser", "staff", "lock", "flushKeys", "flush", "activate",
         "unlock", "setTenant", "createSub", "subscription", "expireTrial",
         "cancelDue", "createDelivery", "assignDriver", "setStatus", "clockIn",
         "linkShift", "clockOut", "missed", "markMissed",
         "takeOff", "addItem", "voidItem", "recount", "voidTotal", "discountBill",
         "completeCard", "reward", "import", "answer", "decide"}

TypeOK ==
    /\ calls \in Mixes
    /\ \A r \in Handling : /\ DOMAIN req[r] = DOMAIN Quiet
                           /\ req[r].at \in Step
    /\ ShopTypeOK
    /\ BillsTypeOK
    /\ StampsTypeOK
    /\ PlatformTypeOK
    /\ TenantsTypeOK
    /\ DeliveriesTypeOK
    /\ StaffTypeOK
=============================================================================
