----------------------------- MODULE Deliveries -----------------------------
(***************************************************************************)
(* Deliveries of orders (DeliveryService): managers create them, assign    *)
(* drivers and set any next status; a driver moves the own ones on.        *)
(***************************************************************************)
EXTENDS Tenants

CONSTANT Parcels    \* orders of the channels DELIVERY and ONLINE

VARIABLES
    delivery,       \* the delivery of each order: its status and its driver
    stamps          \* the times that are set: assignedAt, pickedUpAt, ...

deliveryVars == <<delivery, stamps>>

-----------------------------------------------------------------------------
Finished == {"DELIVERED", "FAILED", "CANCELLED"}
DeliveryStatus == {"PENDING", "ASSIGNED", "PICKED_UP", "IN_TRANSIT"} \cup Finished

ASSUME NoneAssumption == None \notin Users \cup DeliveryStatus

MANAGER_TRANSITIONS ==
    [s \in DeliveryStatus |->
        CASE s = "PENDING"    -> {"ASSIGNED", "FAILED", "CANCELLED"}
          [] s = "ASSIGNED"   -> {"PICKED_UP", "FAILED", "CANCELLED"}
          [] s = "PICKED_UP"  -> {"IN_TRANSIT", "FAILED", "CANCELLED"}
          [] s = "IN_TRANSIT" -> {"DELIVERED", "FAILED", "CANCELLED"}
          [] OTHER            -> {}]

\* Mutant: a driver may go from the kitchen to the door.
ShortDriverTransitions ==
    [s \in DeliveryStatus |->
        CASE s = "ASSIGNED"   -> {"PICKED_UP"}
          [] s = "PICKED_UP"  -> {"IN_TRANSIT", "DELIVERED"}
          [] s = "IN_TRANSIT" -> {"DELIVERED"}
          [] OTHER            -> {}]

DRIVER_TRANSITIONS ==
    [s \in DeliveryStatus |->
        CASE s = "ASSIGNED"   -> {"PICKED_UP"}
          [] s = "PICKED_UP"  -> {"IN_TRANSIT"}
          [] s = "IN_TRANSIT" -> {"DELIVERED"}
          [] OTHER            -> {}]

Exists(d) == delivery[d].status # None

\* A row of the table is updated, and the time of its new status is set.
Set(d, status, driver) ==
    /\ delivery' = [delivery EXCEPT ![d] = [status |-> status, driver |-> driver]]
    /\ stamps' = IF status = "PENDING" THEN stamps
                 ELSE [stamps EXCEPT ![d] = @ \cup {status}]

\* A status is set; the driver stays.
SetStatus(d, status) == Set(d, status, delivery[d].driver)

-----------------------------------------------------------------------------
\* createDelivery, with a driver, whether active or not, or without.
CreateRead(r, d, u) ==
    /\ Free(r, "createDelivery")
    /\ ~Exists(d)
    /\ Begin(r, "createDelivery", d, u, None)
    /\ UNCHANGED <<calls, tenantVars, deliveryVars>>

\* orderId is unique: the second of two creates is refused.
CreateWrite(r) ==
    LET d == req[r].on
        u == req[r].arg
    IN  /\ At(r, "createDelivery")
        /\ IF Exists(d) THEN UNCHANGED deliveryVars
           ELSE Set(d, IF u = None THEN "PENDING" ELSE "ASSIGNED", u)
        /\ Done(r)
        /\ UNCHANGED <<calls, tenantVars>>

AssignRead(r, d, u) ==
    /\ Free(r, "assign")
    /\ Exists(d) /\ delivery[d].status \notin Finished
    /\ user[u]
    /\ Begin(r, "assignDriver", d, u, None)
    /\ UNCHANGED <<calls, tenantVars, deliveryVars>>

\* A delivery on its way goes back to ASSIGNED.
AssignWrite(r) ==
    /\ At(r, "assignDriver")
    /\ Set(req[r].on, "ASSIGNED", req[r].arg)
    /\ Done(r)
    /\ UNCHANGED <<calls, tenantVars>>

ManagerRead(r, d, to) ==
    /\ Free(r, "manager")
    /\ Exists(d)
    /\ to \in MANAGER_TRANSITIONS[delivery[d].status]
    /\ to = "ASSIGNED" => delivery[d].driver # None
    /\ Begin(r, "setStatus", d, to, None)
    /\ UNCHANGED <<calls, tenantVars, deliveryVars>>

\* A driver, active or still cached, with a delivery that is the own one.
DriverRead(r, d, u, to) ==
    /\ Free(r, "driver")
    /\ Passes(u)
    /\ Exists(d) /\ delivery[d].driver = u
    /\ to \in DRIVER_TRANSITIONS[delivery[d].status]
    /\ Begin(r, "setStatus", d, to, None)
    /\ UNCHANGED <<calls, tenantVars, deliveryVars>>

StatusWrite(r) ==
    /\ At(r, "setStatus")
    /\ SetStatus(req[r].on, req[r].arg)
    /\ Done(r)
    /\ UNCHANGED <<calls, tenantVars>>

-----------------------------------------------------------------------------
DeliveriesInit ==
    /\ delivery = [d \in Parcels |-> [status |-> None, driver |-> None]]
    /\ stamps = [d \in Parcels |-> {}]

DeliveriesTypeOK ==
    /\ delivery \in [Parcels -> [status : DeliveryStatus \cup {None},
                                 driver : Users \cup {None}]]
    /\ stamps \in [Parcels -> SUBSET DeliveryStatus]

DeliveriesNext(r) ==
    \/ \E d \in Parcels :
          \/ \E u \in Users \cup {None} : CreateRead(r, d, u)
          \/ \E u \in Users : AssignRead(r, d, u)
          \/ \E to \in DeliveryStatus : \/ ManagerRead(r, d, to)
                                        \/ \E u \in Users : DriverRead(r, d, u, to)
    \/ CreateWrite(r) \/ AssignWrite(r) \/ StatusWrite(r)

\* What the customer's tracking page shows: a delivery that is delivered has a
\* driver and was assigned, picked up and on its way before, however managers and
\* drivers overtake each other and however often it was assigned again.
Milestones == {"ASSIGNED", "PICKED_UP", "IN_TRANSIT", "DELIVERED"}
DeliveredIsTracked ==
    \A d \in Parcels :
        delivery[d].status = "DELIVERED"
            => delivery[d].driver # None /\ Milestones \subseteq stamps[d]
=============================================================================
