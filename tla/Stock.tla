------------------------------- MODULE Stock -------------------------------
(***************************************************************************)
(* Ingredients of the restaurants of one tenant and all that moves them:   *)
(* InventoryService (sales, purchase orders, stock takes, waste) and the   *)
(* transfers between restaurants of MultiLocationService.  Every movement  *)
(* leaves a stock_movements row, the ledger the reports are computed from. *)
(*                                                                         *)
(* A handler reads in one step and writes in a later one; a Prisma         *)
(* transaction is one step.                                                *)
(***************************************************************************)
EXTENDS Integers, FiniteSets, Functions, Sequences

CONSTANTS
    Originals,   \* slots for ingredients rows that staff create
    Clones,      \* slots for rows that transfers create
    Sites,       \* restaurants of the tenant
    POs,         \* slots for purchase orders
    Lines,       \* slots for the items of a purchase order
    Transfers,   \* slots for stock transfers
    Requests,    \* handlers that can be in flight at the same time
    Mixes,       \* sets of handlers; a behaviour calls those of one of them
    Openings,    \* stock levels staff enter
    MaxQty,      \* the largest quantity in a request
    MaxMoved,    \* bound on stock levels and on sums of movements
    None         \* "no value"

\* "alone" says that the handlers of a mix are called one after the other,
\* "fail" that a statement may throw or the server stop, "repeat" that a goods
\* receipt may name a line twice.
AllHandlers == {"create", "edit", "delete", "deduct", "waste", "stockTake",
                "order", "receive", "cancelOrder", "ship", "takeIn", "recall",
                "alone", "fail", "repeat"}

POStatus == {"DRAFT", "SENT", "PARTIAL", "RECEIVED", "CANCELLED"}
TransferStatus == {"PENDING", "RECEIVED", "CANCELLED"}
MovementType == {"PURCHASE", "SALE", "WASTE", "ADJUSTMENT", "STOCKTAKE"}

ASSUME MixesAssumption == Mixes \subseteq SUBSET AllHandlers
ASSUME OpeningsAssumption == Openings \subseteq Nat
ASSUME MaxQtyAssumption == MaxQty \in Nat \ {0}
ASSUME MaxMovedAssumption == MaxMoved \in Nat
Ingredients == Originals \cup Clones

ASSUME SlotsAssumption == /\ IsFiniteSet(Ingredients) /\ IsFiniteSet(Transfers)
                          /\ IsFiniteSet(POs) /\ IsFiniteSet(Lines)
ASSUME DisjointAssumption == Originals \cap Clones = {}
ASSUME NoneAssumption == None \notin Ingredients \cup Sites \cup POs \cup Transfers
                             \cup POStatus \cup TransferStatus

VARIABLES
    row,        \* the ingredients table
    moved,      \* stock_movements: sum of quantity per ingredient and type
    po,         \* purchase orders with their items
    transfer,   \* the stock_transfers table
    calls,      \* the handlers that are called in this behaviour
    req         \* the handlers in flight

vars == <<row, moved, po, transfer, calls, req>>

-----------------------------------------------------------------------------
\* Stocks are Floats in the database; whole units are all the handlers tell
\* apart.  `opening' is no column: the stock a row was created with.
IngredientRow == [site : Sites \cup {None}, name : Ingredients \cup {None},
                  stock : Int, opening : Int, active : BOOLEAN]
NoRow == [site |-> None, name |-> None, stock |-> 0, opening |-> 0, active |-> FALSE]

\* An unused line orders nothing.
PoRow == [status : POStatus \cup {None}, ing : [Lines -> Ingredients \cup {None}],
          ordered : [Lines -> Nat], received : [Lines -> Nat]]
NoPo == [status |-> None, ing |-> [l \in Lines |-> None],
         ordered |-> [l \in Lines |-> 0], received |-> [l \in Lines |-> 0]]

TransferRow == [status : TransferStatus \cup {None}, ing : Ingredients \cup {None},
                to : Sites \cup {None}, qty : Nat]
NoTransfer == [status |-> None, ing |-> None, to |-> None, qty |-> 0]

Step == {"idle", "deduct", "receive", "statusWrite", "cancelWrite", "countWrite",
         "shipWrite", "takeInWrite", "recallWrite"}

Receipt == [line : Lines, qty : Nat]

\* `seen' is what a goods receipt read of the quantities still to come, `lines'
\* what is left of its body, `recipe' what is left to deduct for a sale.
Request == [at : Step, recipe : SUBSET Ingredients, po : POs \cup {None},
            lines : Seq(Receipt), seen : [Lines -> Int], to : POStatus \cup {None},
            ing : Ingredients \cup {None}, qty : Int, count : Int,
            site : Sites \cup {None}, transfer : Transfers \cup {None}]
NoRequest == [at |-> "idle", recipe |-> {}, po |-> None, lines |-> <<>>,
              seen |-> [l \in Lines |-> 0], to |-> None, ing |-> None, qty |-> 0,
              count |-> 0, site |-> None, transfer |-> None]

Idle(r) == req[r].at = "idle"

\* Handler h is called: any number at a time, unless they come alone.
Called(h) == h \in calls /\ ("alone" \in calls => \A q \in Requests : Idle(q))

Go(r, new) == req' = [req EXCEPT ![r] = new]
Finish(r) == req' = [req EXCEPT ![r] = NoRequest]

Exists(i) == row[i].site # None

\* requireIngredient
Active(i) == Exists(i) /\ row[i].active

Within(n) == n \in (-MaxMoved)..MaxMoved

\* The bound on rows: a request that will create one starts only while a slot is
\* left for it.
RoomForRow == Cardinality({i \in Clones : ~Exists(i)})
                > Cardinality({r \in Requests : req[r].at = "takeInWrite"})

\* The same bound for transfers.
RoomForTransfer == Cardinality({t \in Transfers : transfer[t].status = None})
                       > Cardinality({r \in Requests : req[r].at = "shipWrite"})

\* Mutant: the stock changes and nothing is recorded.
MoveUnrecorded(i, type, q) ==
    /\ Within(row[i].stock + q) /\ Within(moved[i][type] + q)
    /\ row' = [row EXCEPT ![i].stock = @ + q]
    /\ UNCHANGED moved

\* Stock and its movement in one transaction.
Move(i, type, q) ==
    /\ Within(row[i].stock + q) /\ Within(moved[i][type] + q)
    /\ row' = [row EXCEPT ![i].stock = @ + q]
    /\ moved' = [moved EXCEPT ![i][type] = @ + q]

-----------------------------------------------------------------------------
(* Ingredients                                                             *)

CreateIngredient(i, s, n) ==
    /\ Called("create")
    /\ ~Exists(i)
    /\ row' = [row EXCEPT ![i] = [site |-> s, name |-> i, stock |-> n,
                                  opening |-> n, active |-> TRUE]]
    /\ UNCHANGED <<moved, po, transfer, calls, req>>

\* updateIngredient takes a currentStock and records no movement.
UpdateIngredient(i, n) ==
    /\ Called("edit")
    /\ Active(i)
    /\ row' = [row EXCEPT ![i].stock = n]
    /\ UNCHANGED <<moved, po, transfer, calls, req>>

DeleteIngredient(i) ==
    /\ Called("delete")
    /\ Active(i)
    /\ row' = [row EXCEPT ![i].active = FALSE]
    /\ UNCHANGED <<moved, po, transfer, calls, req>>

-----------------------------------------------------------------------------
(* Sales, waste and stock takes                                            *)

\* deductForOrder: each recipe line is a transaction of its own.
DeductRead(r, recipe, s) ==
    /\ Called("deduct")
    /\ Idle(r)
    /\ recipe # {} /\ \A i \in recipe : row[i].site = s
    /\ Go(r, [NoRequest EXCEPT !.at = "deduct", !.recipe = recipe])
    /\ UNCHANGED <<row, moved, po, transfer, calls>>

DeductLine(r, i, q) ==
    /\ req[r].at = "deduct"
    /\ i \in req[r].recipe
    /\ Move(i, "SALE", -q)
    /\ IF req[r].recipe = {i} THEN Finish(r)
       ELSE Go(r, [req[r] EXCEPT !.recipe = @ \ {i}])
    /\ UNCHANGED <<po, transfer, calls>>

\* logWaste writes without looking at the stock it takes from.
LogWaste(i, q) ==
    /\ Called("waste")
    /\ Active(i)
    /\ Move(i, "WASTE", -q)
    /\ UNCHANGED <<po, transfer, calls, req>>

\* conductStockTake, one turn of its loop: the turns share nothing, so a stock
\* take of several ingredients is several of these.
StockTakeRead(r, i, n) ==
    /\ Called("stockTake")
    /\ Idle(r)
    /\ Active(i)
    /\ Go(r, [NoRequest EXCEPT !.at = "countWrite", !.ing = i, !.count = n,
                               !.qty = n - row[i].stock])
    /\ UNCHANGED <<row, moved, po, transfer, calls>>

StockTakeWrite(r) ==
    LET i == req[r].ing
    IN  /\ req[r].at = "countWrite"
        /\ Within(moved[i]["STOCKTAKE"] + req[r].qty)
        /\ row' = [row EXCEPT ![i].stock = req[r].count]
        /\ moved' = [moved EXCEPT ![i]["STOCKTAKE"] = @ + req[r].qty]
        /\ Finish(r)
        /\ UNCHANGED <<po, transfer, calls>>

-----------------------------------------------------------------------------
(* Purchase orders                                                         *)

CreatePurchaseOrder(p, ing, ordered) ==
    /\ Called("order")
    /\ po[p].status = None
    /\ \A l \in Lines : IF ing[l] = None THEN ordered[l] = 0
                        ELSE ordered[l] > 0 /\ Exists(ing[l])
    /\ po' = [po EXCEPT ![p] = [status |-> "DRAFT", ing |-> ing, ordered |-> ordered,
                                received |-> [l \in Lines |-> 0]]]
    /\ UNCHANGED <<row, moved, transfer, calls, req>>

CancelOrderRead(r, p) ==
    /\ Called("cancelOrder")
    /\ Idle(r)
    /\ po[p].status \in {"DRAFT", "SENT"}
    /\ Go(r, [NoRequest EXCEPT !.at = "cancelWrite", !.po = p])
    /\ UNCHANGED <<row, moved, po, transfer, calls>>

CancelOrderWrite(r) ==
    /\ req[r].at = "cancelWrite"
    /\ po' = [po EXCEPT ![req[r].po].status = "CANCELLED"]
    /\ Finish(r)
    /\ UNCHANGED <<row, moved, transfer, calls>>

Receivable == {"DRAFT", "SENT", "PARTIAL"}

\* The body of a goods receipt.
Receipts == {<<>>} \cup [1..1 -> [line : Lines, qty : 1..MaxQty]]
                   \cup [1..2 -> [line : Lines, qty : 1..MaxQty]]

ReceiveRead(r, p, lines) ==
    /\ Called("receive")
    /\ Idle(r)
    /\ po[p].status \in Receivable
    /\ "repeat" \notin calls =>
           \A m, n \in DOMAIN lines : m # n => lines[m].line # lines[n].line
    /\ Go(r, [NoRequest EXCEPT
                !.at = "receive", !.po = p, !.lines = lines,
                !.seen = [l \in Lines |-> po[p].ordered[l] - po[p].received[l]]])
    /\ UNCHANGED <<row, moved, po, transfer, calls>>

Fits(r, l, q) == q <= req[r].seen[l]

ReceiveLine(r) ==
    /\ req[r].at = "receive"
    /\ req[r].lines # <<>>
    /\ LET p == req[r].po
           l == Head(req[r].lines).line
           q == Head(req[r].lines).qty
       IN  /\ Fits(r, l, q)
           /\ po[p].ing[l] # None
           /\ po' = [po EXCEPT ![p].received =
                        [po[p].received EXCEPT ![l] = po[p].received[l] + q]]
           /\ Move(po[p].ing[l], "PURCHASE", q)
    /\ Go(r, [req[r] EXCEPT !.lines = Tail(req[r].lines)])
    /\ UNCHANGED <<transfer, calls>>

\* A line that is not on the order, or more than is still to come: the handler
\* throws, and the lines before it stay received.
ReceiveReject(r) ==
    /\ req[r].at = "receive"
    /\ req[r].lines # <<>>
    /\ LET l == Head(req[r].lines).line
       IN  \/ ~Fits(r, l, Head(req[r].lines).qty)
           \/ po[req[r].po].ing[l] = None
    /\ Finish(r)
    /\ UNCHANGED <<row, moved, po, transfer, calls>>

AllReceived(p) == \A l \in Lines : po[p].received[l] >= po[p].ordered[l]

\* Mutant: a status the enum does not have.
StatusAfterUntyped(p) == IF AllReceived(p) THEN "RECEIVED" ELSE "INCOMPLETE"

\* Mutant: some line is enough.
StatusAfterSome(p) ==
    IF \E l \in Lines : po[p].received[l] >= po[p].ordered[l] THEN "RECEIVED"
    ELSE "PARTIAL"

StatusAfter(p) == IF AllReceived(p) THEN "RECEIVED" ELSE "PARTIAL"

ReceiveRefresh(r) ==
    /\ req[r].at = "receive"
    /\ req[r].lines = <<>>
    /\ Go(r, [req[r] EXCEPT !.at = "statusWrite", !.to = StatusAfter(req[r].po)])
    /\ UNCHANGED <<row, moved, po, transfer, calls>>

ReceiveStatus(r) ==
    /\ req[r].at = "statusWrite"
    /\ po' = [po EXCEPT ![req[r].po].status = req[r].to]
    /\ Finish(r)
    /\ UNCHANGED <<row, moved, transfer, calls>>

-----------------------------------------------------------------------------
(* Transfers between restaurants                                           *)

ShipRead(r, i, s, q) ==
    /\ Called("ship")
    /\ Idle(r) /\ RoomForTransfer
    /\ Exists(i) /\ row[i].site # s
    /\ row[i].stock >= q
    /\ Go(r, [NoRequest EXCEPT !.at = "shipWrite", !.ing = i, !.site = s, !.qty = q])
    /\ UNCHANGED <<row, moved, po, transfer, calls>>

ShipWrite(r, t) ==
    /\ req[r].at = "shipWrite"
    /\ transfer[t].status = None
    /\ transfer' = [transfer EXCEPT ![t] = [status |-> "PENDING", ing |-> req[r].ing,
                                            to |-> req[r].site, qty |-> req[r].qty]]
    /\ Move(req[r].ing, "ADJUSTMENT", -req[r].qty)
    /\ Finish(r)
    /\ UNCHANGED <<po, calls>>

\* Mutant: what was cancelled can still be received.
AwaitsUnlessReceived(t) == transfer[t].status \in {"PENDING", "CANCELLED"}

Awaits(t) == transfer[t].status = "PENDING"

TakeInRead(r, t) ==
    /\ Called("takeIn")
    /\ Idle(r) /\ RoomForRow
    /\ Awaits(t)
    /\ Go(r, [NoRequest EXCEPT !.at = "takeInWrite", !.transfer = t])
    /\ UNCHANGED <<row, moved, po, transfer, calls>>

\* The lookup at the destination asks for the id of the source row, which is at
\* another restaurant: it never finds one, and the row is cloned every time.
\* The movement names the source row.
TakeInWrite(r, i) ==
    LET t == req[r].transfer
        from == transfer[t].ing
    IN  /\ req[r].at = "takeInWrite"
        /\ ~Exists(i)
        /\ Within(moved[from]["PURCHASE"] + transfer[t].qty)
        /\ transfer' = [transfer EXCEPT ![t].status = "RECEIVED"]
        /\ row' = [row EXCEPT ![i] = [site |-> transfer[t].to, name |-> row[from].name,
                                      stock |-> transfer[t].qty, opening |-> 0,
                                      active |-> TRUE]]
        /\ moved' = [moved EXCEPT ![from]["PURCHASE"] = @ + transfer[t].qty]
        /\ Finish(r)
        /\ UNCHANGED <<po, calls>>

RecallRead(r, t) ==
    /\ Called("recall")
    /\ Idle(r)
    /\ transfer[t].status = "PENDING"
    /\ Go(r, [NoRequest EXCEPT !.at = "recallWrite", !.transfer = t])
    /\ UNCHANGED <<row, moved, po, transfer, calls>>

RecallWrite(r) ==
    LET t == req[r].transfer
    IN  /\ req[r].at = "recallWrite"
        /\ transfer' = [transfer EXCEPT ![t].status = "CANCELLED"]
        /\ Move(transfer[t].ing, "ADJUSTMENT", transfer[t].qty)
        /\ Finish(r)
        /\ UNCHANGED <<po, calls>>

-----------------------------------------------------------------------------
\* A statement throws, or the server stops: the rest of the handler is lost.
Fail(r) ==
    /\ "fail" \in calls
    /\ ~Idle(r)
    /\ Finish(r)
    /\ UNCHANGED <<row, moved, po, transfer, calls>>

Init ==
    /\ row = [i \in Ingredients |-> NoRow]
    /\ moved = [i \in Ingredients |-> [type \in MovementType |-> 0]]
    /\ po = [p \in POs |-> NoPo]
    /\ transfer = [t \in Transfers |-> NoTransfer]
    /\ calls \in Mixes
    /\ req = [r \in Requests |-> NoRequest]

Immediate ==
    \/ \E i \in Originals, s \in Sites, n \in Openings : CreateIngredient(i, s, n)
    \/ \E i \in Ingredients, n \in {0, MaxQty} : UpdateIngredient(i, n)
    \/ \E i \in Ingredients : DeleteIngredient(i)
    \/ \E i \in Ingredients, q \in 1..MaxQty : LogWaste(i, q)
    \/ \E p \in POs, ing \in [Lines -> Ingredients \cup {None}],
          ordered \in [Lines -> 0..MaxQty] : CreatePurchaseOrder(p, ing, ordered)

Arrive(r) ==
    \/ \E recipe \in SUBSET Ingredients, s \in Sites : DeductRead(r, recipe, s)
    \/ \E i \in Ingredients, n \in {0, MaxQty} : StockTakeRead(r, i, n)
    \/ \E p \in POs : CancelOrderRead(r, p)
    \/ \E p \in POs, lines \in Receipts : ReceiveRead(r, p, lines)
    \/ \E i \in Ingredients, s \in Sites, q \in 1..MaxQty : ShipRead(r, i, s, q)
    \/ \E t \in Transfers : TakeInRead(r, t)
    \/ \E t \in Transfers : RecallRead(r, t)

Proceed(r) ==
    \/ \E i \in Ingredients, q \in 1..MaxQty : DeductLine(r, i, q)
    \/ StockTakeWrite(r)
    \/ CancelOrderWrite(r)
    \/ ReceiveLine(r)
    \/ ReceiveReject(r)
    \/ ReceiveRefresh(r)
    \/ ReceiveStatus(r)
    \/ \E t \in Transfers : ShipWrite(r, t)
    \/ \E i \in Clones : TakeInWrite(r, i)
    \/ RecallWrite(r)

Next ==
    \/ Immediate
    \/ \E r \in Requests : Arrive(r) \/ Proceed(r) \/ Fail(r)

Spec == Init /\ [][Next]_vars

-----------------------------------------------------------------------------
(* Properties                                                              *)

TypeOK ==
    /\ row \in [Ingredients -> IngredientRow]
    /\ moved \in [Ingredients -> [MovementType -> Int]]
    /\ po \in [POs -> PoRow]
    /\ transfer \in [Transfers -> TransferRow]
    /\ calls \in Mixes
    /\ req \in [Requests -> Request]

Alone == "alone" \in calls

\* The rows of an ingredient: the one staff created and its clones at other
\* restaurants.
RowsOf(n) == {i \in Ingredients : row[i].name = n}

OrderLinesOf(n) ==
    {e \in POs \X Lines : /\ po[e[1]].ing[e[2]] # None
                          /\ row[po[e[1]].ing[e[2]]].name = n}

TransfersOf(n, S) ==
    {t \in Transfers : transfer[t].status \in S /\ row[transfer[t].ing].name = n}

\* Sums over the rows of ingredient n: its stock, what the rows were created
\* with, the movements of a type, and all movements.
StockOf(n) == SumFunctionOnSet([i \in Ingredients |-> row[i].stock], RowsOf(n))

OpeningOf(n) == SumFunctionOnSet([i \in Ingredients |-> row[i].opening], RowsOf(n))

MovedOf(n, type) ==
    SumFunctionOnSet([i \in Ingredients |-> moved[i][type]], RowsOf(n))

RecordedOf(n) ==
    SumFunctionOnSet([type \in MovementType |-> MovedOf(n, type)], MovementType)

\* What purchase orders say was received of it, and what the transfers with a
\* status in S took from one restaurant to another.
ReceivedOf(n) ==
    SumFunctionOnSet([e \in POs \X Lines |-> po[e[1]].received[e[2]]], OrderLinesOf(n))

ShippedOf(n, S) ==
    SumFunctionOnSet([t \in Transfers |-> transfer[t].qty], TransfersOf(n, S))

\* The ledger explains the stock: what an ingredient's rows hold, over all the
\* restaurants, is what they were created with plus all that was recorded, with
\* handlers racing and failing half way.  The stock take writes a level and a
\* difference computed from an older one, so it has to come alone; an edit of
\* the stock is not recorded at all.
LedgerBalances ==
    "edit" \notin calls /\ ("stockTake" \in calls => Alone) =>
        \A n \in Ingredients : StockOf(n) = OpeningOf(n) + RecordedOf(n)

\* The documents explain the ledger: purchases are what purchase orders and
\* transfers say was received, adjustments what transfers say has left (one
\* handler at a time).
MovementsExplained ==
    Alone =>
        \A n \in Ingredients :
            /\ MovedOf(n, "PURCHASE") = ReceivedOf(n) + ShippedOf(n, {"RECEIVED"})
            /\ MovedOf(n, "ADJUSTMENT") = -ShippedOf(n, {"PENDING", "RECEIVED"})

\* A purchase order that counts as received is complete, whatever receipts and
\* cancellations overlap: the status is computed from a read of the lines, and
\* written later.
ReceivedIsComplete ==
    \A p \in POs : po[p].status = "RECEIVED" => AllReceived(p)
=============================================================================
