-------------------------------- MODULE Bills --------------------------------
(***************************************************************************)
(* What an order costs (OrdersService): its subtotal, discount and total   *)
(* while dishes are added and voided and managers give discounts.  Each of *)
(* these handlers computes the total from an order it read before.  The    *)
(* web shop and the delivery platforms write totals of their own.          *)
(***************************************************************************)
EXTENDS Requests, Integers

CONSTANTS
    Bills,        \* orders, with what they cost
    Dishes,       \* the items an order may have
    DishPrice,    \* totalPrice of an item
    Charge        \* tax and service charge on one unit of the subtotal

ASSUME BillsAssumption ==
    /\ DishPrice \in Nat /\ Charge \in Nat /\ IsFiniteSet(Dishes)
    /\ None \notin {"live", "void"}

VARIABLES
    bill,         \* orders: status, subtotal, discountAmount, totalAmount, and
                  \* (in no column) what the total owes to others: see BillAgrees
    dish          \* order_items of each order: None, "live" or "void" (isVoid)

billVars == <<bill, dish>>

-----------------------------------------------------------------------------
\* "open": addOrderItems is allowed.  "late": no longer, but items may be voided.
BillStatus == {"open", "late", "closed"}

NoBill == [status |-> None, subtotal |-> 0, discount |-> 0, total |-> 0, outside |-> 0]

\* Discounts a manager may give, and points a customer may pay with.
Discounts == {DishPrice, 2 * DishPrice}

\* The tip is left out: every handler adds the one of the order.
Payable(subtotal, discount) == subtotal + Charge * subtotal - discount

LiveDishes(b) == {d \in Dishes : dish[b][d] = "live"}
Costs(S) == DishPrice * Cardinality(S)

\* Order b is created with dishes S and discount off, to be paid with `total'.
Create(b, S, off, total) ==
    /\ Takes(b, {c \in Bills : bill[c].status = None})
    /\ S # {}
    /\ dish' = [dish EXCEPT ![b] = [d \in Dishes |-> IF d \in S THEN "live" ELSE None]]
    /\ bill' = [bill EXCEPT ![b] =
                   [status |-> "open", subtotal |-> Costs(S), discount |-> off,
                    total |-> total, outside |-> total - Payable(Costs(S), off)]]
    /\ UNCHANGED calls

\* createOrder, with the discount the till asks for.
OpenBill(r, b, S, off) ==
    /\ Free(r, "bill")
    /\ off > 0 => "rebate" \in calls
    /\ Create(b, S, off, Payable(Costs(S), off))
    /\ UNCHANGED req

\* receiveWebhookOrder: the platform's total, or subtotal and delivery fee; tax
\* and service charge are not in it.
ImportBill(r, b, S, fee) ==
    /\ Free(r, "importBill")
    /\ Create(b, S, 0, Costs(S) + fee)
    /\ UNCHANGED req

\* placeOnlineOrder: createOrder, and then the points the customer pays with.
OpenOnline(r, b, S, n) ==
    /\ Free(r, "online")
    /\ Create(b, S, 0, Payable(Costs(S), 0))
    /\ Begin(r, "takeOff", b, n, None)

\* The points are refused, or taken (WebShop has the detail); then the total alone
\* is decremented.
TakeOff(r) ==
    LET b == req[r].on
        n == req[r].arg
    IN  /\ At(r, "takeOff")
        /\ \/ bill' = [bill EXCEPT ![b].total = @ - n, ![b].outside = @ - n]
           \/ UNCHANGED bill
        /\ Done(r)
        /\ UNCHANGED <<calls, dish>>

Advanced(status) == IF status = "open" THEN "late" ELSE "closed"

\* The order goes on elsewhere (Orders).
Advance(b) ==
    /\ bill[b].status \in {"open", "late"}
    /\ bill' = [bill EXCEPT ![b].status = Advanced(@)]
    /\ UNCHANGED <<calls, req, dish>>

\* The total of order b is computed anew.
Retotal(b, subtotal, discount, total) ==
    bill' = [bill EXCEPT ![b] = [status |-> bill[b].status, subtotal |-> subtotal,
                                 discount |-> discount, total |-> total, outside |-> 0]]

-----------------------------------------------------------------------------
(* addOrderItems: items and total in one transaction                       *)

Adding(b, d) == \E q \in Handling : At(q, "addItem") /\ req[q].on = b /\ req[q].arg = d

\* d: the row that will be made.
AddRead(r, b, d) ==
    /\ Free(r, "addItem")
    /\ bill[b].status = "open" /\ dish[b][d] = None /\ ~Adding(b, d)
    /\ Begin(r, "addItem", b, d, bill[b])
    /\ UNCHANGED <<calls, billVars>>

AddWrite(r) ==
    LET b == req[r].on
        was == req[r].seen
        sum == was.subtotal + DishPrice
    IN  /\ At(r, "addItem")
        /\ dish' = [dish EXCEPT ![b][req[r].arg] = "live"]
        /\ Retotal(b, sum, bill[b].discount, Payable(sum, was.discount))
        /\ Done(r)
        /\ UNCHANGED calls

-----------------------------------------------------------------------------
(* voidOrderItem: the item, a count of what remains, and the total         *)

VoidItemRead(r, b, d) ==
    /\ Free(r, "void")
    /\ bill[b].status \in {"open", "late"} /\ dish[b][d] = "live"
    /\ Begin(r, "voidItem", b, d, bill[b])
    /\ UNCHANGED <<calls, billVars>>

VoidItem(r) ==
    /\ At(r, "voidItem")
    /\ dish' = [dish EXCEPT ![req[r].on][req[r].arg] = "void"]
    /\ Then(r, "recount")
    /\ UNCHANGED <<calls, bill>>

\* Mutant: void items still count.
RemainingAndVoid(b) == {d \in Dishes : dish[b][d] # None}

Remaining(b) == LiveDishes(b)

Recount(r) ==
    /\ At(r, "recount")
    /\ Sees(r, "voidTotal",
            [req[r].seen EXCEPT !.subtotal = Costs(Remaining(req[r].on))])
    /\ UNCHANGED <<calls, billVars>>

VoidTotal(r) ==
    LET b == req[r].on
        now == req[r].seen
    IN  /\ At(r, "voidTotal")
        /\ Retotal(b, now.subtotal, bill[b].discount, Payable(now.subtotal, now.discount))
        /\ Done(r)
        /\ UNCHANGED <<calls, dish>>

-----------------------------------------------------------------------------
(* applyDiscount: a flat amount, or a percentage of the subtotal           *)

DiscountRead(r, b, off) ==
    /\ Free(r, "discountBill")
    /\ bill[b].status \in {"open", "late"}
    /\ off <= bill[b].subtotal
    /\ Begin(r, "discountBill", b, off, bill[b])
    /\ UNCHANGED <<calls, billVars>>

DiscountWrite(r) ==
    LET b == req[r].on
    IN  /\ At(r, "discountBill")
        /\ Retotal(b, bill[b].subtotal, req[r].arg,
                   Payable(req[r].seen.subtotal, req[r].arg))
        /\ Done(r)
        /\ UNCHANGED <<calls, dish>>

-----------------------------------------------------------------------------
BillsInit ==
    /\ bill = [b \in Bills |-> NoBill]
    /\ dish = [b \in Bills |-> [d \in Dishes |-> None]]

BillsTypeOK ==
    /\ bill \in [Bills -> [status : BillStatus \cup {None}, subtotal : Nat,
                           discount : Nat, total : Int, outside : Int]]
    /\ dish \in [Bills -> [Dishes -> {None, "live", "void"}]]

BillsNext(r) ==
    \/ \E b \in Bills :
          \/ \E S \in SUBSET Dishes :
                \/ \E off \in {0, DishPrice} :
                      OpenBill(r, b, S, off) \/ ImportBill(r, b, S, off)
                \/ \E n \in Discounts : OpenOnline(r, b, S, n)
          \/ \E d \in Dishes : AddRead(r, b, d) \/ VoidItemRead(r, b, d)
          \/ \E off \in Discounts : DiscountRead(r, b, off)
    \/ TakeOff(r)
    \/ AddWrite(r) \/ VoidItem(r) \/ Recount(r) \/ VoidTotal(r) \/ DiscountWrite(r)

\* A bill adds up whichever of its handlers come one after the other, and those
\* that fail in the middle never make it too low: the total is that of subtotal
\* and discount, but for what the web shop took off for points or a platform set,
\* which lasts until the total is computed anew; the subtotal covers what is to be
\* paid for, and is equal to it unless an item was voided and nobody could count
\* again.  (Handlers that race compute totals from orders they read before, and lose
\* dishes or discounts; and a void may leave less than the discount, which was
\* checked against the subtotal of its time.)
BillAgrees ==
    "alone" \in calls => \A b \in Bills :
        /\ bill[b].total = Payable(bill[b].subtotal, bill[b].discount) + bill[b].outside
        /\ bill[b].subtotal >= Costs(LiveDishes(b))
        /\ "fail" \notin calls /\ (\A r \in Handling : Idle(r)) =>
              bill[b].subtotal = Costs(LiveDishes(b))
=============================================================================
