------------------------------- MODULE Orders -------------------------------
(***************************************************************************)
(* The life of an order: every handler that writes an order's status or    *)
(* the kitchen status of its items.  Those are OrdersService's, with the   *)
(* auto-accept cron job, and KdsService's; but the till, the payment       *)
(* gateway and the tables service write the status past the state machine  *)
(* of the orders.  acceptOrder calls updateOrderStatus; an aggregator's    *)
(* order is created, accepted and rejected by the same reads and writes as *)
(* any other (createOrder, updateOrderStatus from PENDING, cancelOrder).   *)
(*                                                                         *)
(* A handler runs between two awaits without interruption, and its         *)
(* database statements are separate: a request therefore reads a row in    *)
(* one step, keeps what it saw, and writes in a later step, whatever other *)
(* requests did in between.  A Prisma transaction is one step.             *)
(***************************************************************************)
EXTENDS Naturals, FiniteSets

CONSTANTS
    Orders,         \* rows of the orders table
    Items,          \* slots for the items of an order
    Requests,       \* handlers that can be in flight at the same time
    Mixes,          \* sets of handlers; a behaviour calls those of one of them
    MaxDeductions,  \* the count of stock deductions saturates here
    None            \* "no value"

\* "alone" says that the handlers of a mix are called one after the other,
\* "fail" that a statement may throw or the server stop.
AllHandlers == {"updateStatus", "cancel", "reject", "autoAccept",
                "setKitchen", "void", "addItems",
                "acknowledge", "start", "itemReady", "bumpReady",
                "itemServed", "bumpServed",
                "pay", "confirmCod", "confirmOnline", "forceClose",
                "alone", "fail"}

OrderStatus == {"PENDING", "ACCEPTED", "PREPARING", "READY", "SERVED",
                "COMPLETED", "CANCELLED"}
KitchenStatus == {"QUEUED", "ACKNOWLEDGED", "PREPARING", "READY", "SERVED",
                  "CANCELLED"}
Stamp == {"acceptedAt", "readyAt", "completedAt", "cancelledAt"}

ASSUME MixesAssumption == Mixes \subseteq SUBSET AllHandlers
ASSUME MaxDeductionsAssumption == MaxDeductions \in Nat \ {0}
ASSUME NoneAssumption == None \notin Orders \cup Items \cup OrderStatus
                                     \cup KitchenStatus

VARIABLES
    status,      \* status of each order, None before it is created
    stamps,      \* which of the order's timestamp columns are set
    kitchen,     \* kitchenStatus of each item of each order, None if absent
    voided,      \* the items of each order with isVoid
    deductions,  \* how often stock deduction was launched for each order
    calls,       \* the handlers that are called in this behaviour
    req          \* the handlers in flight

vars == <<status, stamps, kitchen, voided, deductions, calls, req>>

-----------------------------------------------------------------------------
(* Requests in flight                                                      *)

\* The statement a request runs next.
Step == {"idle", "statusWrite", "cancelWrite", "rejectWrite", "acceptLoop",
         "voidRead", "voidWrite", "addWrite", "startItems", "startAccept",
         "readyWrite", "readyCount", "bumpItems", "bumpRead", "bumpWrite",
         "servedWrite", "payWrite", "codWrite"}

Request == [at : Step, order : Orders \cup {None}, item : Items \cup {None},
            seen : OrderStatus \cup {None}, to : OrderStatus \cup {None},
            batch : SUBSET Orders]

NoRequest == [at |-> "idle", order |-> None, item |-> None, seen |-> None,
              to |-> None, batch |-> {}]

Idle(r) == req[r].at = "idle"

\* Handler h is called: any number at a time, unless they come alone.
Called(h) == h \in calls /\ ("alone" \in calls => \A q \in Requests : Idle(q))

Go(r, new) == req' = [req EXCEPT ![r] = new] /\ UNCHANGED calls

\* Request r of a client starts: it works on item i of order o, has read the
\* order's status and runs statement `at' next.
Enter(r, at, o, i, to) ==
    Go(r, [NoRequest EXCEPT !.at = at, !.order = o, !.item = i,
                            !.seen = status[o], !.to = to])

Continue(r, at) == Go(r, [req[r] EXCEPT !.at = at])

Finish(r) == Go(r, NoRequest)

InFlight(r, at, o) == req[r].at = at /\ req[r].order = o

Exists(o) == status[o] # None

\* Items that are neither absent nor voided: the rows `isVoid: false' selects.
Live(o) == {i \in Items : kitchen[o][i] # None /\ i \notin voided[o]}

\* One UPDATE of the order row: status, timestamps and the history row.
SetStatus(o, s, newStamps) ==
    /\ status' = [status EXCEPT ![o] = s]
    /\ stamps' = [stamps EXCEPT ![o] = @ \cup newStamps]

\* One updateMany over the items of order o whose status is in `from'.
SetItems(o, from, to) ==
    kitchen' = [kitchen EXCEPT ![o] =
                  [i \in Items |-> IF i \in Live(o) /\ @[i] \in from
                                   THEN to ELSE @[i]]]

\* Some live item of o has a status in S.
Some(o, S) == \E i \in Live(o) : kitchen[o][i] \in S

orderRow == <<status, stamps, deductions>>
itemRows == <<kitchen, voided>>

-----------------------------------------------------------------------------
(* OrdersService                                                           *)

\* The state machine of the orders service.
AllowedTransitions ==
    {<<"PENDING", "ACCEPTED">>,   <<"PENDING", "CANCELLED">>,
     <<"ACCEPTED", "PREPARING">>, <<"ACCEPTED", "CANCELLED">>,
     <<"PREPARING", "READY">>,    <<"PREPARING", "CANCELLED">>,
     <<"READY", "SERVED">>,       <<"READY", "COMPLETED">>,
     <<"SERVED", "COMPLETED">>}

\* Mutant: a completed order can be cancelled and changed.
ClosedByCancelOnly == {"CANCELLED"}

Closed == {"COMPLETED", "CANCELLED"}

\* Mutant: new items get the initial status of orders.
NewItemPending == "PENDING"

NewItem == "QUEUED"

\* Restaurants with auto-accept enabled for the channel create ACCEPTED orders.
CreateOrder(o, autoAccept, S) ==
    /\ ~Exists(o)
    /\ S # {}
    /\ status' = [status EXCEPT ![o] = IF autoAccept THEN "ACCEPTED"
                                                     ELSE "PENDING"]
    /\ stamps' = [stamps EXCEPT ![o] = IF autoAccept THEN {"acceptedAt"}
                                                     ELSE {}]
    /\ kitchen' = [kitchen EXCEPT ![o] = [i \in Items |->
                                            IF i \in S THEN NewItem ELSE None]]
    /\ UNCHANGED <<voided, deductions, calls, req>>

UpdateStatusRead(r, o, to) ==
    /\ Called("updateStatus")
    /\ Idle(r) /\ Exists(o)
    /\ <<status[o], to>> \in AllowedTransitions
    /\ Enter(r, "statusWrite", o, None, to)
    /\ UNCHANGED <<orderRow, itemRows>>

\* Mutant: readyAt is left to the kitchen display.
StampOfNoReady(s) ==
    {m \in Stamp : <<m, s>> \in {<<"acceptedAt", "ACCEPTED">>,
                                 <<"completedAt", "COMPLETED">>}}

StampOf(s) ==
    {m \in Stamp : <<m, s>> \in {<<"acceptedAt", "ACCEPTED">>,
                                 <<"readyAt", "READY">>,
                                 <<"completedAt", "COMPLETED">>}}

\* COMPLETED launches inventory.deductForOrder without awaiting it.
UpdateStatusWrite(r) ==
    LET o == req[r].order
        s == req[r].to
    IN  /\ req[r].at = "statusWrite"
        /\ SetStatus(o, s, StampOf(s))
        /\ deductions' = [deductions EXCEPT ![o] =
                            IF s = "COMPLETED" /\ @ < MaxDeductions
                            THEN @ + 1 ELSE @]
        /\ Finish(r)
        /\ UNCHANGED itemRows

CancelRead(r, o) ==
    /\ Called("cancel")
    /\ Idle(r) /\ Exists(o)
    /\ status[o] \notin Closed
    /\ Enter(r, "cancelWrite", o, None, None)
    /\ UNCHANGED <<orderRow, itemRows>>

CancelWrite(r) ==
    /\ req[r].at = "cancelWrite"
    /\ SetStatus(req[r].order, "CANCELLED", {"cancelledAt"})
    /\ Finish(r)
    /\ UNCHANGED <<deductions, itemRows>>

RejectRead(r, o) ==
    /\ Called("reject")
    /\ Idle(r) /\ status[o] = "PENDING"
    /\ Enter(r, "rejectWrite", o, None, None)
    /\ UNCHANGED <<orderRow, itemRows>>

RejectWrite(r) ==
    /\ req[r].at = "rejectWrite"
    /\ SetStatus(req[r].order, "CANCELLED", {})
    /\ Finish(r)
    /\ UNCHANGED <<deductions, itemRows>>

\* The cron job reads the PENDING orders older than the cutoff ...
AutoAcceptRead(r, batch) ==
    /\ Called("autoAccept")
    /\ Idle(r)
    /\ batch # {} /\ batch \subseteq {o \in Orders : status[o] = "PENDING"}
    /\ Go(r, [NoRequest EXCEPT !.at = "acceptLoop", !.batch = batch])
    /\ UNCHANGED <<orderRow, itemRows>>

NextOfBatch(r, o) ==
    /\ req[r].at = "acceptLoop"
    /\ o \in req[r].batch
    /\ Go(r, IF req[r].batch = {o} THEN NoRequest
             ELSE [req[r] EXCEPT !.batch = @ \ {o}])

\* ... and accepts them one at a time; a failure skips that order only.
AutoAcceptWrite(r, o) ==
    /\ NextOfBatch(r, o)
    /\ SetStatus(o, "ACCEPTED", {"acceptedAt"})
    /\ UNCHANGED <<deductions, itemRows>>

AutoAcceptSkip(r, o) ==
    /\ "fail" \in calls
    /\ NextOfBatch(r, o)
    /\ UNCHANGED <<orderRow, itemRows>>

UpdateKitchenStatus(o, i, k) ==
    /\ Called("setKitchen")
    /\ kitchen[o][i] # None
    /\ kitchen' = [kitchen EXCEPT ![o][i] = k]
    /\ UNCHANGED <<orderRow, voided, calls, req>>

VoidRead(r, o, i) ==
    /\ Called("void")
    /\ Idle(r) /\ Exists(o)
    /\ status[o] \notin Closed
    /\ kitchen[o][i] # None
    /\ Enter(r, "voidRead", o, i, None)
    /\ UNCHANGED <<orderRow, itemRows>>

VoidReadItem(r) ==
    /\ req[r].at = "voidRead"
    /\ IF req[r].item \in voided[req[r].order] THEN Finish(r)
                                               ELSE Continue(r, "voidWrite")
    /\ UNCHANGED <<orderRow, itemRows>>

\* Voiding marks the row; the totals that are recomputed next are not modelled.
VoidWrite(r) ==
    LET o == req[r].order
    IN  /\ req[r].at = "voidWrite"
        /\ voided' = [voided EXCEPT ![o] = @ \cup {req[r].item}]
        /\ kitchen' = [kitchen EXCEPT ![o][req[r].item] = "CANCELLED"]
        /\ Finish(r)
        /\ UNCHANGED orderRow

\* New rows take slots nobody uses yet (the bound on an order's items).
AddItemsRead(r, o, i) ==
    /\ Called("addItems")
    /\ Idle(r) /\ status[o] \in {"PENDING", "ACCEPTED", "PREPARING"}
    /\ kitchen[o][i] = None
    /\ \A q \in Requests : ~(InFlight(q, "addWrite", o) /\ req[q].item = i)
    /\ Enter(r, "addWrite", o, i, None)
    /\ UNCHANGED <<orderRow, itemRows>>

AddItemsWrite(r) ==
    /\ req[r].at = "addWrite"
    /\ kitchen' = [kitchen EXCEPT ![req[r].order][req[r].item] = NewItem]
    /\ Finish(r)
    /\ UNCHANGED <<orderRow, voided>>

-----------------------------------------------------------------------------
(* KdsService                                                              *)

Acknowledge(o) ==
    /\ Called("acknowledge")
    /\ Some(o, {"QUEUED"})
    /\ SetItems(o, {"QUEUED"}, "ACKNOWLEDGED")
    /\ UNCHANGED <<orderRow, voided, calls, req>>

StartRead(r, o) ==
    /\ Called("start")
    /\ Idle(r) /\ Exists(o)
    /\ Enter(r, "startItems", o, None, None)
    /\ UNCHANGED <<orderRow, itemRows>>

Unstarted == {"QUEUED", "ACKNOWLEDGED"}

\* Mutant: an order whose items were acknowledged is not accepted.
BeginsQueued(o) == Some(o, {"QUEUED"})

\* startOrder found items to start.
Begins(o) == Some(o, Unstarted)

StartItems(r) ==
    LET o == req[r].order
    IN  /\ req[r].at = "startItems"
        /\ SetItems(o, Unstarted, "PREPARING")
        /\ IF Begins(o) /\ req[r].seen = "PENDING"
           THEN Continue(r, "startAccept")
           ELSE Finish(r)
        /\ UNCHANGED <<orderRow, voided>>

StartAccept(r) ==
    /\ req[r].at = "startAccept"
    /\ SetStatus(req[r].order, "ACCEPTED", {"acceptedAt"})
    /\ Finish(r)
    /\ UNCHANGED <<deductions, itemRows>>

ItemReadyRead(r, o, i) ==
    /\ Called("itemReady")
    /\ Idle(r) /\ i \in Live(o)
    /\ kitchen[o][i] \notin {"READY", "SERVED"}
    /\ Enter(r, "readyWrite", o, i, None)
    /\ UNCHANGED <<orderRow, itemRows>>

ItemReadyWrite(r) ==
    /\ req[r].at = "readyWrite"
    /\ kitchen' = [kitchen EXCEPT ![req[r].order][req[r].item] = "READY"]
    /\ Continue(r, "readyCount")
    /\ UNCHANGED <<orderRow, voided>>

\* Mutant: an item already served counts as not yet cooked.
CookedNotServed == {"READY", "CANCELLED"}

Cooked == {"READY", "SERVED", "CANCELLED"}

\* All live items done: the order is bumped.
ItemReadyCount(r) ==
    /\ req[r].at = "readyCount"
    /\ IF Some(req[r].order, KitchenStatus \ Cooked)
       THEN Finish(r) ELSE Continue(r, "bumpRead")
    /\ UNCHANGED <<orderRow, itemRows>>

BumpReadyEnter(r, o) ==
    /\ Called("bumpReady")
    /\ Idle(r) /\ Exists(o)
    /\ Enter(r, "bumpItems", o, None, None)
    /\ UNCHANGED <<orderRow, itemRows>>

BumpReadyItems(r) ==
    /\ req[r].at = "bumpItems"
    /\ SetItems(req[r].order, KitchenStatus \ Cooked, "READY")
    /\ Continue(r, "bumpRead")
    /\ UNCHANGED <<orderRow, voided>>

\* Mutant: a completed order is bumped again.
BumpedOnlyReady == {"READY"}

\* Statuses that autoBumpOrderReady leaves alone.
Bumped == {"READY", "COMPLETED"}

AutoBumpRead(r) ==
    /\ req[r].at = "bumpRead"
    /\ IF status[req[r].order] \in Bumped
       THEN Finish(r) ELSE Continue(r, "bumpWrite")
    /\ UNCHANGED <<orderRow, itemRows>>

AutoBumpWrite(r) ==
    /\ req[r].at = "bumpWrite"
    /\ SetStatus(req[r].order, "READY", {"readyAt"})
    /\ Finish(r)
    /\ UNCHANGED <<deductions, itemRows>>

ItemServedRead(r, o, i) ==
    /\ Called("itemServed")
    /\ Idle(r) /\ i \in Live(o)
    /\ kitchen[o][i] = "READY"
    /\ Enter(r, "servedWrite", o, i, None)
    /\ UNCHANGED <<orderRow, itemRows>>

ItemServedWrite(r) ==
    /\ req[r].at = "servedWrite"
    /\ kitchen' = [kitchen EXCEPT ![req[r].order][req[r].item] = "SERVED"]
    /\ Finish(r)
    /\ UNCHANGED <<orderRow, voided>>

BumpServed(o) ==
    /\ Called("bumpServed")
    /\ Some(o, {"READY"})
    /\ SetItems(o, {"READY"}, "SERVED")
    /\ UNCHANGED <<orderRow, voided, calls, req>>

-----------------------------------------------------------------------------
(* The till, the gateway and the tables                                    *)

\* processPayment takes money for any order that is not cancelled.
PayRead(r, o) ==
    /\ Called("pay")
    /\ Idle(r) /\ Exists(o) /\ status[o] # "CANCELLED"
    /\ Enter(r, "payWrite", o, None, None)
    /\ UNCHANGED <<orderRow, itemRows>>

\* The last payment completes the order whatever the kitchen is doing, and
\* without deducting stock.  (Part payments write no status: Payments.)
PayWrite(r) ==
    /\ req[r].at = "payWrite"
    /\ SetStatus(req[r].order, "COMPLETED", {"completedAt"})
    /\ Finish(r)
    /\ UNCHANGED <<deductions, itemRows>>

\* Staff confirm that cash on delivery was collected ...
ConfirmCodRead(r, o) ==
    /\ Called("confirmCod")
    /\ Idle(r) /\ status[o] \in {"ACCEPTED", "PREPARING", "READY"}
    /\ Enter(r, "codWrite", o, None, None)
    /\ UNCHANGED <<orderRow, itemRows>>

\* ... which sets no timestamp.
ConfirmCodWrite(r) ==
    /\ req[r].at = "codWrite"
    /\ SetStatus(req[r].order, "COMPLETED", {})
    /\ Finish(r)
    /\ UNCHANGED <<deductions, itemRows>>

\* The gateway confirms an online payment: the order is accepted, whatever its
\* status (the payment's own rows are those of Payments).
ConfirmOnline(o) ==
    /\ Called("confirmOnline")
    /\ Exists(o)
    /\ SetStatus(o, "ACCEPTED", {"acceptedAt"})
    /\ UNCHANGED <<deductions, itemRows, calls, req>>

\* A manager closes a table session whose orders are S.
ForceClose(S) ==
    /\ Called("forceClose")
    /\ \E o \in S : Exists(o) /\ status[o] \notin Closed
    /\ status' = [o \in Orders |->
                     IF o \in S /\ Exists(o) /\ status[o] \notin Closed
                     THEN "CANCELLED" ELSE status[o]]
    /\ UNCHANGED <<stamps, deductions, itemRows, calls, req>>

-----------------------------------------------------------------------------
\* A statement throws, or the server stops: the rest of the handler is lost.
Fail(r) ==
    /\ "fail" \in calls
    /\ ~Idle(r)
    /\ Finish(r)
    /\ UNCHANGED <<orderRow, itemRows>>

Init ==
    /\ status = [o \in Orders |-> None]
    /\ stamps = [o \in Orders |-> {}]
    /\ kitchen = [o \in Orders |-> [i \in Items |-> None]]
    /\ voided = [o \in Orders |-> {}]
    /\ deductions = [o \in Orders |-> 0]
    /\ calls \in Mixes
    /\ req = [r \in Requests |-> NoRequest]

\* A client's call arrives.
Arrive(r) ==
    \/ \E o \in Orders, to \in OrderStatus : UpdateStatusRead(r, o, to)
    \/ \E o \in Orders : CancelRead(r, o)
    \/ \E o \in Orders : RejectRead(r, o)
    \/ \E batch \in SUBSET Orders : AutoAcceptRead(r, batch)
    \/ \E o \in Orders, i \in Items : VoidRead(r, o, i)
    \/ \E o \in Orders, i \in Items : AddItemsRead(r, o, i)
    \/ \E o \in Orders : StartRead(r, o)
    \/ \E o \in Orders, i \in Items : ItemReadyRead(r, o, i)
    \/ \E o \in Orders : BumpReadyEnter(r, o)
    \/ \E o \in Orders, i \in Items : ItemServedRead(r, o, i)
    \/ \E o \in Orders : PayRead(r, o)
    \/ \E o \in Orders : ConfirmCodRead(r, o)

\* A call made of a single statement.
Immediate ==
    \/ \E o \in Orders, auto \in BOOLEAN, S \in SUBSET Items :
           CreateOrder(o, auto, S)
    \/ \E o \in Orders, i \in Items, k \in KitchenStatus :
           UpdateKitchenStatus(o, i, k)
    \/ \E o \in Orders : Acknowledge(o)
    \/ \E o \in Orders : BumpServed(o)
    \/ \E o \in Orders : ConfirmOnline(o)
    \/ \E S \in SUBSET Orders : ForceClose(S)

\* The next statement of a call in flight.
Proceed(r) ==
    \/ UpdateStatusWrite(r)
    \/ CancelWrite(r)
    \/ RejectWrite(r)
    \/ \E o \in Orders : AutoAcceptWrite(r, o)
    \/ VoidReadItem(r)
    \/ VoidWrite(r)
    \/ AddItemsWrite(r)
    \/ StartItems(r)
    \/ StartAccept(r)
    \/ ItemReadyWrite(r)
    \/ ItemReadyCount(r)
    \/ BumpReadyItems(r)
    \/ AutoBumpRead(r)
    \/ AutoBumpWrite(r)
    \/ ItemServedWrite(r)
    \/ PayWrite(r)
    \/ ConfirmCodWrite(r)

Next ==
    \/ Immediate
    \/ \E r \in Requests : Arrive(r) \/ Proceed(r) \/ Fail(r)
    \/ \E r \in Requests, o \in Orders : AutoAcceptSkip(r, o)

Spec == Init /\ [][Next]_vars

\* Node runs every handler it has started to its end.
Fairness == \A r \in Requests : WF_vars(Proceed(r))

FairSpec == Spec /\ Fairness

-----------------------------------------------------------------------------
(* Properties                                                              *)

TypeOK ==
    /\ status \in [Orders -> OrderStatus \cup {None}]
    /\ stamps \in [Orders -> SUBSET Stamp]
    /\ kitchen \in [Orders -> [Items -> KitchenStatus \cup {None}]]
    /\ voided \in [Orders -> SUBSET Items]
    /\ deductions \in [Orders -> 0..MaxDeductions]
    /\ calls \in Mixes
    /\ req \in [Requests -> Request]

\* Handlers that complete an order that has not been to the pass.
PaidHandlers == {"pay", "confirmCod"}

\* The timestamps an order's status promises when `by' are the handlers called:
\* the till completes orders the kitchen is not done with, and the confirmation
\* of cash on delivery stamps nothing.
Milestones(s, by) ==
    {m \in Stamp :
       \/ m = "acceptedAt"  /\ s \in {"ACCEPTED", "PREPARING"}
       \/ m = "readyAt"     /\ s \in {"READY", "SERVED"}
       \/ m = "readyAt"     /\ s = "COMPLETED" /\ by \cap PaidHandlers = {}
       \/ m = "completedAt" /\ s = "COMPLETED" /\ "confirmCod" \notin by}

\* Timestamps tell the truth about the way an order has gone, whatever
\* requests overtake each other: an order being worked on has an acceptedAt,
\* one on the pass or on its table has a readyAt, and a completed one has a
\* completedAt, and a readyAt too where no payment completes orders.  The
\* kitchen's preparation times are computed from these columns.  SERVED and
\* COMPLETED are written by requests that saw READY some time ago, so this
\* relates a write to a state that may be long gone.
MilestonesStamped ==
    \A o \in Orders : Milestones(status[o], calls) \subseteq stamps[o]

\* When the kitchen cooks an item of an order, the order is accepted, or the
\* request that started the cooking is about to accept it: startOrder writes
\* items and order in separate statements, between which nothing may fail.  The
\* update of a single item's kitchen status never looks at the order, so it is
\* left out.
CookingAccepted ==
    calls \cap {"setKitchen", "fail"} = {} => \A o \in Orders :
        status[o] = "PENDING" /\ Some(o, {"PREPARING"})
            => \E r \in Requests : InFlight(r, "startAccept", o)

\* Handlers come one at a time, and no gateway confirms a payment: its
\* confirmation makes an ACCEPTED order even of a completed one, which can then be
\* cancelled, or completed and deducted once more.
Undisturbed == "alone" \in calls /\ "confirmOnline" \notin calls

\* Stock is deducted at most once for an order and only for one that is
\* COMPLETED, however status updates, payments, cancellations, closed tables, the
\* kitchen display and the cron job follow each other; and for every completed
\* order, where no payment completes orders: payments do so without deducting.
DeductedOnceCompleted ==
    Undisturbed => \A o \in Orders :
        /\ deductions[o] <= 1
        /\ deductions[o] = 1 => status[o] = "COMPLETED"
        /\ status[o] = "COMPLETED" /\ calls \cap PaidHandlers = {} => deductions[o] = 1

\* No handler but the gateway's confirmation takes an order out of COMPLETED (one
\* handler at a time).
CompletedIsFinal ==
    [][Undisturbed => \A o \in Orders :
        status[o] = "COMPLETED" => status'[o] = "COMPLETED"]_vars

\* What kitchen tablets call, and those that finish an order.
KitchenHandlers == {"acknowledge", "start", "itemReady", "bumpReady",
                    "itemServed", "bumpServed"}
PassHandlers == KitchenHandlers \ {"start"}

AllCooked(o) == Live(o) # {} /\ \A i \in Live(o) : kitchen[o][i] \in {"READY", "SERVED"}

Waiting(o) == status[o] \in {"PENDING", "ACCEPTED", "PREPARING"}

\* Tablets that mark the last items of an order at the same moment never lose
\* the bump: once every item is done the order leaves the kitchen.  startOrder
\* is left out: its late ACCEPTED overwrites a bump.
CookedIsBumped ==
    \A o \in Orders :
        calls \subseteq PassHandlers /\ AllCooked(o) ~> ~Waiting(o)
=============================================================================
