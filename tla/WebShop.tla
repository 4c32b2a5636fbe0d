------------------------------- MODULE WebShop -------------------------------
(***************************************************************************)
(* The web shop, from the cart to the points an order earns: carts live in *)
(* Redis and are replaced as a whole; placing an order takes the cart, and *)
(* points if the customer pays with some; a confirmed payment earns points *)
(* in the background.                                                      *)
(***************************************************************************)
EXTENDS Loyalty

CONSTANTS
    Carts,      \* slots for carts
    Lines,      \* slots for lines of carts
    Orders,     \* slots for orders
    Price,      \* price of a line
    Rate        \* currency units that earn a point

ASSUME PricesAssumption == Price \in Nat /\ Rate \in Nat \ {0} /\ IsFiniteSet(Lines)

VARIABLES
    cart,       \* the carts in Redis: none, open or gone, and their lines
    order       \* the online orders

shopVars == <<cart, order>>

-----------------------------------------------------------------------------
NoOrder == [placed |-> FALSE, lines |-> {}, customer |-> None, discount |-> 0,
            redeemed |-> 0, paid |-> FALSE]
Placed(lines, customer) ==
    [placed |-> TRUE, lines |-> lines, customer |-> customer, discount |-> 0,
     redeemed |-> 0, paid |-> FALSE]

\* createOrder sums the lines; the total is decremented by the discount.
Total(o) == Price * Cardinality(order[o].lines) - order[o].discount

\* A line is in a cart as long as a handler may still write it.
InUse(l) ==
    \/ \E k \in Carts : l \in cart[k].lines
    \/ \E o \in Orders : l \in order[o].lines
    \/ \E r \in Handling : At(r, "saveCart") /\ l \in req[r].seen
NewLine(l) == Takes(l, {m \in Lines : ~InUse(m)})

\* An order that nobody is about to create.
NewOrder(o) ==
    Takes(o, {p \in Orders : /\ ~order[p].placed
                             /\ \A q \in Handling :
                                   At(q, "createOrder") => req[q].arg.order # p})

-----------------------------------------------------------------------------
(* The cart                                                                *)

InitCart(k) ==
    /\ "cart" \in calls
    /\ cart[k].state = "none"
    /\ cart' = [cart EXCEPT ![k].state = "open"]
    /\ UNCHANGED <<calls, req, loyaltyVars, order>>

\* requireCart, and the cart that is to be saved: with a line more, one changed,
\* or one less.
EditCart(r, k, lines) ==
    /\ Free(r, "cart")
    /\ cart[k].state = "open"
    /\ \/ \E l \in Lines : NewLine(l) /\ lines = cart[k].lines \cup {l}
       \/ "update" \in calls /\ lines = cart[k].lines /\ lines # {}
       \/ "update" \in calls /\ \E l \in cart[k].lines : lines = cart[k].lines \ {l}
    /\ Begin(r, "saveCart", k, None, lines)
    /\ UNCHANGED <<calls, loyaltyVars, shopVars>>

\* saveCart sets the key, whether or not it is still there.
SaveCart(r) ==
    /\ At(r, "saveCart")
    /\ cart' = [cart EXCEPT ![req[r].on] = [state |-> "open", lines |-> req[r].seen]]
    /\ Done(r)
    /\ UNCHANGED <<calls, loyaltyVars, order>>

Dropped(k) == cart' = [cart EXCEPT ![k] = [state |-> "gone", lines |-> {}]]

\* The key lives for a limited time.
CartExpires(k) ==
    /\ "cartExpires" \in calls
    /\ cart[k].state = "open"
    /\ Dropped(k)
    /\ UNCHANGED <<calls, req, loyaltyVars, order>>

-----------------------------------------------------------------------------
(* OnlineOrderingService.placeOnlineOrder                                  *)

\* arg: the order to come, its customer and the points to pay with: more than
\* the account has only in a behaviour with "overdraw".
PlaceRead(r, k, o, c, n) ==
    /\ Free(r, "place")
    /\ cart[k].state = "open" /\ cart[k].lines # {}
    /\ NewOrder(o)
    /\ IF c = None THEN n = 0                \* guests pay without points
       ELSE account[c].known /\ (n > account[c].points => "overdraw" \in calls)
    /\ Begin(r, "createOrder", k, [order |-> o, customer |-> c, points |-> n],
             cart[k].lines)
    /\ UNCHANGED <<calls, loyaltyVars, shopVars>>

Redeems(a) == a.customer # None /\ a.points > 0

\* OrdersService.createOrder.  (The cart token and the address follow in a
\* statement of their own, which may fail.)
PlaceCreate(r) ==
    LET a == req[r].arg
    IN  /\ At(r, "createOrder")
        /\ order' = [order EXCEPT ![a.order] = Placed(req[r].seen, a.customer)]
        /\ Then(r, IF Redeems(a) THEN "redeemRead" ELSE "clearCart")
        /\ UNCHANGED <<calls, loyaltyVars, cart>>

\* redeemForOnlineOrder refuses when the points do not suffice: the order and the
\* cart stay.
PlaceRedeemRead(r) ==
    LET a == req[r].arg
        has == account[a.customer]
    IN  /\ At(r, "redeemRead")
        /\ IF Suffices(has, a.points)
           THEN Sees(r, "redeemOrder", has)
           ELSE Done(r)
        /\ UNCHANGED <<calls, loyaltyVars, shopVars>>

PlaceRedeemWrite(r) ==
    LET a == req[r].arg
    IN  /\ At(r, "redeemOrder")
        /\ Debit(a.customer, req[r].seen, a.points)
        /\ order' = [order EXCEPT ![a.order].redeemed = @ + a.points]
        /\ Then(r, "discount")
        /\ UNCHANGED <<calls, cart>>

\* Mutant: the discount is taken off twice.
DiscountedTwice(o, n) == [order EXCEPT ![o].discount = @ + 2 * n]

Discounted(o, n) == [order EXCEPT ![o].discount = @ + n]

PlaceDiscount(r) ==
    LET a == req[r].arg
    IN  /\ At(r, "discount")
        /\ order' = Discounted(a.order, a.points)
        /\ Then(r, "clearCart")
        /\ UNCHANGED <<calls, loyaltyVars, cart>>

\* Mutant: the cart is left to its time limit.
Kept(k) == UNCHANGED cart

\* The cart is deleted.
Cleared(k) == Dropped(k)

PlaceClear(r) ==
    /\ At(r, "clearCart")
    /\ Cleared(req[r].on)
    /\ Done(r)
    /\ UNCHANGED <<calls, loyaltyVars, order>>

-----------------------------------------------------------------------------
(* The payment is confirmed by a webhook, or by the customer's return.     *)

ConfirmRead(r, o) ==
    /\ Free(r, "confirm")
    /\ order[o].placed /\ ~order[o].paid
    /\ \A q \in Handling :                  \* the shop answers with the order's id
          req[q].at \in {"redeemRead", "redeemOrder", "discount", "clearCart"} =>
              req[q].arg.order # o
    /\ Begin(r, "confirm", o, None, None)
    /\ UNCHANGED <<calls, loyaltyVars, shopVars>>

\* One transaction; then the points are earned in the background, for what was
\* paid.
ConfirmWrite(r) ==
    LET o == req[r].on
        points == IF Total(o) > 0 THEN Total(o) \div Rate ELSE 0
    IN  /\ At(r, "confirm")
        /\ order' = [order EXCEPT ![o].paid = TRUE]
        /\ IF order[o].customer = None THEN Done(r)
           ELSE Go(r, [at |-> "autoEarn", on |-> order[o].customer, arg |-> points,
                       seen |-> None])
        /\ UNCHANGED <<calls, loyaltyVars, cart>>

-----------------------------------------------------------------------------
ShopInit ==
    /\ LoyaltyInit
    /\ cart = [k \in Carts |-> [state |-> "none", lines |-> {}]]
    /\ order = [o \in Orders |-> NoOrder]

ShopTypeOK ==
    /\ LoyaltyTypeOK
    /\ cart \in [Carts -> [state : {"none", "open", "gone"}, lines : SUBSET Lines]]
    /\ order \in [Orders -> [placed : BOOLEAN, lines : SUBSET Lines,
                             customer : Customers \cup {None}, discount : Nat,
                             redeemed : Nat, paid : BOOLEAN]]

ShopNext(r) ==
    \/ \E k \in Carts, lines \in SUBSET Lines : EditCart(r, k, lines)
    \/ SaveCart(r)
    \/ \E k \in Carts, o \in Orders, c \in Customers \cup {None},
          n \in Manual \cup {0} : PlaceRead(r, k, o, c, n)
    \/ PlaceCreate(r) \/ PlaceRedeemRead(r) \/ PlaceRedeemWrite(r)
    \/ PlaceDiscount(r) \/ PlaceClear(r)
    \/ \E o \in Orders : ConfirmRead(r, o)
    \/ ConfirmWrite(r)

\* Nobody gets a discount for points that were not taken: what an order's total
\* was lowered by stands in its REDEEM rows, wherever the placement stops and
\* whatever runs beside it.  (The other way it may fail: points taken, and no
\* discount.)
DiscountBacked == \A o \in Orders : order[o].discount <= order[o].redeemed

\* A line that was put in a cart once is ordered at most once, as long as
\* requests come one after the other, no statement fails and nobody redeems more
\* points than there are: an order is placed before its points are taken, and
\* the cart goes last.
LinesOrderedOnce ==
    calls \cap {"alone", "fail", "overdraw"} = {"alone"} =>
        \A o, p \in Orders : o # p => order[o].lines \cap order[p].lines = {}
=============================================================================
