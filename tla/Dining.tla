------------------------------- MODULE Dining -------------------------------
(***************************************************************************)
(* Tables, table sessions, and the guests who order from their phones:     *)
(* TablesService (waiters and cashiers at the POS), QrOrderingService      *)
(* (guests, with carts in Redis, and the cron job that closes sessions     *)
(* nobody orders in) and the links that OrdersService keeps from an order  *)
(* to its table and session.                                               *)
(*                                                                         *)
(* A handler reads in one step and writes in a later one; a Prisma         *)
(* transaction is one step, and so is one Redis command.                   *)
(***************************************************************************)
EXTENDS Naturals, FiniteSets

CONSTANTS
    Tables,     \* tables of the restaurant
    Sessions,   \* slots for rows of table_sessions
    Orders,     \* slots for orders
    Guests,     \* guest tokens
    Lines,      \* cart lines
    Requests,   \* handlers that can be in flight at the same time
    Mixes,      \* sets of handlers; a behaviour calls those of one of them
    None        \* "no value"

AllHandlers == {"open", "staffBill", "close", "forceClose", "transfer", "setStatus",
                "markAvailable", "overview", "posOrder", "assign", "orderEnds",
                "scan", "cart", "place", "guestBill", "cartExpires",
                "tokensExpire", "cron", "fail"}

TableStatus == {"AVAILABLE", "OCCUPIED", "RESERVED", "CLEANING", "OUT_OF_SERVICE"}
SessionStatus == {"OPEN", "BILL_REQUESTED", "CLOSED"}

\* OrderStatus as far as tables care: in progress, paid, or cancelled.
OrderState == {"open", "completed", "cancelled"}

ASSUME MixesAssumption == Mixes \subseteq SUBSET AllHandlers
ASSUME NoneAssumption == None \notin Tables \cup Sessions \cup Orders \cup Guests
                             \cup Lines \cup SessionStatus \cup OrderState

VARIABLES
    table,      \* status of each table
    session,    \* the table_sessions rows
    order,      \* the orders, with the cart lines they were made of
    cart,       \* Redis: qr:cart:<guest>
    tokens,     \* Redis: qr:table-tokens:<table>
    orderOf,    \* Redis: qr:order:<guest>
    wanted,     \* no row: the lines guests asked for and did not take back
    calls,      \* the handlers that are called in this behaviour
    req         \* the handlers in flight

vars == <<table, session, order, cart, tokens, orderOf, wanted, calls, req>>

-----------------------------------------------------------------------------
\* `old' says that openedAt is more than 30 minutes ago.
SessionRow == [status : SessionStatus \cup {None}, table : Tables \cup {None},
               old : BOOLEAN]
NoSession == [status |-> None, table |-> None, old |-> FALSE]

OrderRow == [state : OrderState \cup {None}, table : Tables \cup {None},
             session : Sessions \cup {None}, lines : SUBSET Lines]
NoOrder == [state |-> None, table |-> None, session |-> None, lines |-> {}]

CartValue == [state : {"unused", "live", "gone"}, table : Tables \cup {None},
              lines : SUBSET Lines]
NoCart == [state |-> "unused", table |-> None, lines |-> {}]

Step == {"idle", "openWrite", "billWrite", "closeWrite", "transferWrite",
         "overviewWrite", "posWrite", "register", "cartWrite", "placeSession",
         "placeOpen", "placeTokens", "placeCollect", "placeClear", "cronLoop"}

\* What a handler keeps in its local variables.
Request == [at : Step, table : Tables \cup {None}, to : Tables \cup {None},
            session : Sessions \cup {None}, order : Orders \cup {None},
            guest : Guests \cup {None}, lines : SUBSET Lines, force : BOOLEAN,
            guests : SUBSET Guests, merged : SUBSET Guests,
            batch : SUBSET (Sessions \X Tables)]

NoRequest == [at |-> "idle", table |-> None, to |-> None, session |-> None,
              order |-> None, guest |-> None, lines |-> {}, force |-> FALSE,
              guests |-> {}, merged |-> {}, batch |-> {}]

Idle(r) == req[r].at = "idle"

Go(r, new) == req' = [req EXCEPT ![r] = new]

Finish(r) == req' = [req EXCEPT ![r] = NoRequest]

floor == <<table, session>>
phones == <<cart, tokens, orderOf, wanted>>
rows == <<floor, order, phones, calls>>

Active == {"OPEN", "BILL_REQUESTED"}

ActiveAt(t) == {s \in Sessions : session[s].table = t /\ session[s].status \in Active}

OpenAt(t) == {s \in ActiveAt(t) : session[s].status = "OPEN"}

OrdersOf(s) == {o \in Orders : order[o].session = s}

Unpaid(s) == {o \in OrdersOf(s) : order[o].state = "open"}

\* The bounds on rows: a request that may create one starts only while a slot
\* is left for it.
Free(S, taken(_), at) ==
    Cardinality({x \in S : ~taken(x)})
        > Cardinality({r \in Requests : req[r].at \in at})

RoomForSession == Free(Sessions, LAMBDA s : session[s].status # None,
                       {"openWrite", "placeSession", "placeOpen"})
RoomForOrder == Free(Orders, LAMBDA o : order[o].state # None,
                     {"posWrite", "placeSession", "placeOpen", "placeTokens",
                      "placeCollect"})

-----------------------------------------------------------------------------
(* TablesService                                                           *)

\* Mutant: the session starts in a status of its own.
SeatAtSeated(s, t) ==
    /\ session[s].status = None
    /\ session' = [session EXCEPT ![s] = [status |-> "SEATED", table |-> t,
                                          old |-> FALSE]]
    /\ table' = [table EXCEPT ![t] = "OCCUPIED"]

\* The transaction that seats guests, at the POS and by QR code.
SeatAt(s, t) ==
    /\ session[s].status = None
    /\ session' = [session EXCEPT ![s] = [status |-> "OPEN", table |-> t,
                                          old |-> FALSE]]
    /\ table' = [table EXCEPT ![t] = "OCCUPIED"]

\* Mutant: only an OPEN session counts as a session of the table.
TakenIfOpen(t) == OpenAt(t) # {}

Taken(t) == ActiveAt(t) # {}

OpenRead(r, t) ==
    /\ "open" \in calls
    /\ Idle(r) /\ RoomForSession
    /\ ~Taken(t)
    /\ table[t] # "OUT_OF_SERVICE"
    /\ Go(r, [NoRequest EXCEPT !.at = "openWrite", !.table = t])
    /\ UNCHANGED rows

OpenWrite(r, s) ==
    /\ req[r].at = "openWrite"
    /\ SeatAt(s, req[r].table)
    /\ Finish(r)
    /\ UNCHANGED <<order, phones, calls>>

\* The latest OPEN session; should a table have two, either may be the latest.
StaffBillRead(r, t) ==
    /\ "staffBill" \in calls
    /\ Idle(r)
    /\ \E s \in OpenAt(t) :
          Go(r, [NoRequest EXCEPT !.at = "billWrite", !.session = s])
    /\ UNCHANGED rows

\* Both ways to ask for the bill end in the same update.
BillWrite(r) ==
    /\ req[r].at = "billWrite"
    /\ session' = [session EXCEPT ![req[r].session].status = "BILL_REQUESTED"]
    /\ Finish(r)
    /\ UNCHANGED <<table, order, phones, calls>>

\* Mutant: the check of unpaid orders is gone.
MayCloseAlways(s, force) == TRUE

MayClose(s, force) == force \/ Unpaid(s) = {}

CloseRead(r, s, force) ==
    /\ IF force THEN "forceClose" \in calls ELSE "close" \in calls
    /\ Idle(r)
    /\ session[s].status \in Active
    /\ MayClose(s, force)
    /\ Go(r, [NoRequest EXCEPT !.at = "closeWrite", !.session = s,
                !.table = session[s].table,
                !.force = force /\ Unpaid(s) # {}])
    /\ UNCHANGED rows

CloseWrite(r) ==
    LET s == req[r].session
    IN  /\ req[r].at = "closeWrite"
        /\ order' = [o \in Orders |->
                       IF req[r].force /\ o \in Unpaid(s)
                       THEN [order[o] EXCEPT !.state = "cancelled"]
                       ELSE order[o]]
        /\ session' = [session EXCEPT ![s].status = "CLOSED"]
        /\ table' = [table EXCEPT ![req[r].table] = "CLEANING"]
        /\ Finish(r)
        /\ UNCHANGED <<phones, calls>>

TransferRead(r, s, to) ==
    /\ "transfer" \in calls
    /\ Idle(r)
    /\ session[s].status \in Active
    /\ table[to] = "AVAILABLE"
    /\ Go(r, [NoRequest EXCEPT !.at = "transferWrite", !.session = s,
                               !.table = session[s].table, !.to = to])
    /\ UNCHANGED rows

\* Mutant: the orders stay at the old table.
MovedNot(s, to) == order

\* The orders of a session that moves.
Moved(s, to) ==
    [o \in Orders |-> IF o \in OrdersOf(s)
                      THEN [order[o] EXCEPT !.table = to] ELSE order[o]]

TransferWrite(r) ==
    LET s == req[r].session
        to == req[r].to
    IN  /\ req[r].at = "transferWrite"
        /\ session' = [session EXCEPT ![s].table = to]
        /\ order' = Moved(s, to)
        /\ table' = [table EXCEPT ![req[r].table] = "AVAILABLE",
                                  ![to] = "OCCUPIED"]
        /\ Finish(r)
        /\ UNCHANGED <<phones, calls>>

\* The endpoint takes any status; the POS only offers "mark available" for a
\* table that is being cleaned.
SetStatus(t, new) ==
    /\ \/ "setStatus" \in calls
       \/ "markAvailable" \in calls /\ table[t] = "CLEANING" /\ new = "AVAILABLE"
    /\ table' = [table EXCEPT ![t] = new]
    /\ UNCHANGED <<session, order, phones, calls, req>>

\* The overview of the floor repairs what it finds: on every AVAILABLE table it
\* closes one active session.
OverviewRead(r, S) ==
    /\ "overview" \in calls
    /\ Idle(r)
    /\ S # {} /\ \A s \in S : s \in ActiveAt(session[s].table)
                              /\ table[session[s].table] = "AVAILABLE"
    /\ \A t \in Tables : table[t] = "AVAILABLE" /\ ActiveAt(t) # {}
                            => \E s \in S : S \cap ActiveAt(t) = {s}
    /\ Go(r, [NoRequest EXCEPT !.at = "overviewWrite",
                               !.batch = {<<s, session[s].table>> : s \in S}])
    /\ UNCHANGED rows

OverviewWrite(r) ==
    /\ req[r].at = "overviewWrite"
    /\ session' = [s \in Sessions |->
                     IF \E t \in Tables : <<s, t>> \in req[r].batch
                     THEN [session[s] EXCEPT !.status = "CLOSED"] ELSE session[s]]
    /\ Finish(r)
    /\ UNCHANGED <<table, order, phones, calls>>

-----------------------------------------------------------------------------
(* OrdersService, as far as it knows tables                                *)

\* createOrder takes table and session from the caller without a look at the
\* session.
NewOrder(o, t, s, lines) ==
    /\ order[o].state = None
    /\ order' = [order EXCEPT ![o] = [state |-> "open", table |-> t,
                                      session |-> s, lines |-> lines]]

\* The POS orders for the session its screen shows.
PosOrderRead(r, s) ==
    /\ "posOrder" \in calls
    /\ Idle(r) /\ RoomForOrder
    /\ session[s].status \in Active
    /\ Go(r, [NoRequest EXCEPT !.at = "posWrite", !.session = s,
                               !.table = session[s].table])
    /\ UNCHANGED rows

PosOrderWrite(r, o) ==
    /\ req[r].at = "posWrite"
    /\ NewOrder(o, req[r].table, req[r].session, {})
    /\ Finish(r)
    /\ UNCHANGED <<floor, phones, calls>>

\* A manager links an order to any table and any session, or to none.
AssignTable(o, t, s) ==
    /\ "assign" \in calls
    /\ order[o].state # None
    /\ s # None => session[s].status # None
    /\ order' = [order EXCEPT ![o] = [order[o] EXCEPT !.table = t, !.session = s]]
    /\ UNCHANGED <<floor, phones, calls, req>>

\* The order is paid or cancelled (modules Orders and Payments).
OrderEnds(o, how) ==
    /\ "orderEnds" \in calls
    /\ order[o].state = "open" /\ how \in {"completed", "cancelled"}
    /\ order' = [order EXCEPT ![o].state = how]
    /\ UNCHANGED <<floor, phones, calls, req>>

-----------------------------------------------------------------------------
(* QrOrderingService: carts                                                *)

\* A scan creates a cart under a fresh token; the token is registered with the
\* table by the next command.
InitCart(r, g, t) ==
    /\ "scan" \in calls
    /\ Idle(r)
    /\ cart[g].state = "unused"
    /\ cart' = [cart EXCEPT ![g] = [state |-> "live", table |-> t, lines |-> {}]]
    /\ Go(r, [NoRequest EXCEPT !.at = "register", !.guest = g, !.table = t])
    /\ UNCHANGED <<floor, order, tokens, orderOf, wanted, calls>>

Register(r) ==
    /\ req[r].at = "register"
    /\ tokens' = [tokens EXCEPT ![req[r].table] = @ \cup {req[r].guest}]
    /\ Finish(r)
    /\ UNCHANGED <<floor, order, cart, orderOf, wanted, calls>>

Used == wanted \cup UNION ({cart[g].lines : g \in Guests}
                           \cup {order[o].lines : o \in Orders}
                           \cup {req[r].lines : r \in Requests})

\* A guest adds a line, takes one out, or changes a quantity (the set of lines
\* stays): the handler changes its copy of the cart and saves the copy.
CartRead(r, g, lines) ==
    /\ "cart" \in calls
    /\ Idle(r)
    /\ cart[g].state = "live"
    /\ \/ \E l \in Lines \ Used : lines = cart[g].lines \cup {l}
       \/ \E l \in cart[g].lines : lines \in {cart[g].lines, cart[g].lines \ {l}}
    /\ Go(r, [NoRequest EXCEPT !.at = "cartWrite", !.guest = g,
                               !.table = cart[g].table, !.lines = lines])
    /\ wanted' = (wanted \ cart[g].lines) \cup lines
    /\ UNCHANGED <<floor, order, cart, tokens, orderOf, calls>>

CartWrite(r) ==
    LET g == req[r].guest
    IN  /\ req[r].at = "cartWrite"
        /\ cart' = [cart EXCEPT ![g] = [state |-> "live", table |-> req[r].table,
                                        lines |-> req[r].lines]]
        /\ Finish(r)
        /\ UNCHANGED <<floor, order, tokens, orderOf, wanted, calls>>

\* Redis forgets the cart an hour after the last save, and the set of tokens
\* two hours after the last scan.  Lines that no handler has in hand are gone.
CartExpires(g) ==
    /\ "cartExpires" \in calls
    /\ cart[g].state = "live"
    /\ cart' = [cart EXCEPT ![g] = [NoCart EXCEPT !.state = "gone"]]
    /\ wanted' = wanted \ (cart[g].lines \ UNION {req[r].lines : r \in Requests})
    /\ UNCHANGED <<floor, order, tokens, orderOf, calls, req>>

TokensExpire(t) ==
    /\ "tokensExpire" \in calls
    /\ tokens[t] # {}
    /\ tokens' = [tokens EXCEPT ![t] = {}]
    /\ UNCHANGED <<floor, order, cart, orderOf, wanted, calls, req>>

-----------------------------------------------------------------------------
(* QrOrderingService: placing the order of a table                         *)

PlaceRead(r, g) ==
    /\ "place" \in calls
    /\ Idle(r) /\ RoomForOrder /\ RoomForSession
    /\ cart[g].state = "live" /\ cart[g].lines # {}
    /\ Go(r, [NoRequest EXCEPT !.at = "placeSession", !.guest = g,
                !.table = cart[g].table, !.lines = cart[g].lines,
                !.merged = {g}])
    /\ UNCHANGED rows

\* findOrCreateSession
PlaceSession(r) ==
    LET open == OpenAt(req[r].table)
    IN  /\ req[r].at = "placeSession"
        /\ \/ \E s \in open :
                 Go(r, [req[r] EXCEPT !.at = "placeTokens", !.session = s])
           \/ /\ open = {}
              /\ Go(r, [req[r] EXCEPT !.at = "placeOpen"])
        /\ UNCHANGED rows

PlaceOpen(r, s) ==
    /\ req[r].at = "placeOpen"
    /\ SeatAt(s, req[r].table)
    /\ Go(r, [req[r] EXCEPT !.at = "placeTokens", !.session = s])
    /\ UNCHANGED <<order, phones, calls>>

PlaceTokens(r) ==
    /\ req[r].at = "placeTokens"
    /\ Go(r, [req[r] EXCEPT !.at = "placeCollect",
                !.guests = tokens[req[r].table] \ {req[r].guest}])
    /\ UNCHANGED rows

\* The carts of the other guests of the table are read one after the other.
PlaceCollect(r, g) ==
    /\ req[r].at = "placeCollect"
    /\ g \in req[r].guests
    /\ Go(r, [req[r] EXCEPT
                !.guests = req[r].guests \ {g},
                !.merged = req[r].merged \cup
                              (IF cart[g].lines # {} THEN {g} ELSE {}),
                !.lines = req[r].lines \cup cart[g].lines])
    /\ UNCHANGED rows

PlaceOrder(r, o) ==
    /\ req[r].at = "placeCollect"
    /\ req[r].guests = {}
    /\ NewOrder(o, req[r].table, req[r].session, req[r].lines)
    /\ Go(r, [req[r] EXCEPT !.at = "placeClear", !.order = o])
    /\ UNCHANGED <<floor, phones, calls>>

\* Mutant: the carts stay after the order.
ClearedNot(g) == cart

\* The cart of a guest whose lines are ordered is deleted.
Cleared(g) == [cart EXCEPT ![g] = [NoCart EXCEPT !.state = "gone"]]

\* Every merged guest learns the order and then loses the cart; when all have,
\* the table's tokens go.
PlaceLink(r, g) ==
    /\ req[r].at = "placeClear"
    /\ req[r].guests = {} /\ g \in req[r].merged
    /\ orderOf' = [orderOf EXCEPT ![g] = req[r].order]
    /\ Go(r, [req[r] EXCEPT !.guests = {g}, !.merged = req[r].merged \ {g}])
    /\ UNCHANGED <<floor, order, cart, tokens, wanted, calls>>

PlaceClear(r, g) ==
    /\ req[r].at = "placeClear"
    /\ g \in req[r].guests
    /\ cart' = Cleared(g)
    /\ Go(r, [req[r] EXCEPT !.guests = {}])
    /\ UNCHANGED <<floor, order, tokens, orderOf, wanted, calls>>

PlaceDone(r) ==
    /\ req[r].at = "placeClear"
    /\ req[r].merged = {} /\ req[r].guests = {}
    /\ tokens' = [tokens EXCEPT ![req[r].table] = {}]
    /\ Finish(r)
    /\ UNCHANGED <<floor, order, cart, orderOf, wanted, calls>>

\* A guest asks for the bill of the session of the order.
GuestBillRead(r, g) ==
    LET s == order[orderOf[g]].session
    IN  /\ "guestBill" \in calls
        /\ Idle(r)
        /\ orderOf[g] # None
        /\ s # None
        /\ session[s].status # "BILL_REQUESTED"
        /\ Go(r, [NoRequest EXCEPT !.at = "billWrite", !.session = s])
        /\ UNCHANGED rows

-----------------------------------------------------------------------------
(* The cron job, and time                                                  *)

SessionAges(s) ==
    /\ "cron" \in calls
    /\ session[s].status # None /\ ~session[s].old
    /\ session' = [session EXCEPT ![s].old = TRUE]
    /\ UNCHANGED <<table, order, phones, calls, req>>

\* Mutant: the cutoff is compared the wrong way round.
OrphansYoung == {s \in Sessions : /\ session[s].status = "OPEN" /\ ~session[s].old
                                  /\ OrdersOf(s) = {}}

Orphans == {s \in Sessions : /\ session[s].status = "OPEN" /\ session[s].old
                             /\ OrdersOf(s) = {}}

CronRead(r) ==
    /\ "cron" \in calls
    /\ Idle(r)
    /\ Orphans # {}
    /\ Go(r, [NoRequest EXCEPT !.at = "cronLoop",
                !.batch = {<<s, session[s].table>> : s \in Orphans}])
    /\ UNCHANGED rows

\* Session and table in one transaction per orphan.
CronClose(r, s, t) ==
    /\ req[r].at = "cronLoop"
    /\ <<s, t>> \in req[r].batch
    /\ session' = [session EXCEPT ![s].status = "CLOSED"]
    /\ table' = [table EXCEPT ![t] = "AVAILABLE"]
    /\ IF req[r].batch = {<<s, t>>}
       THEN Finish(r)
       ELSE Go(r, [req[r] EXCEPT !.batch = req[r].batch \ {<<s, t>>}])
    /\ UNCHANGED <<order, phones, calls>>

\* A statement throws, or the server stops: the rest of the handler is lost.
Fail(r) ==
    /\ "fail" \in calls
    /\ ~Idle(r)
    /\ Finish(r)
    /\ UNCHANGED rows

Init ==
    /\ table = [t \in Tables |-> "AVAILABLE"]
    /\ session = [s \in Sessions |-> NoSession]
    /\ order = [o \in Orders |-> NoOrder]
    /\ cart = [g \in Guests |-> NoCart]
    /\ tokens = [t \in Tables |-> {}]
    /\ orderOf = [g \in Guests |-> None]
    /\ wanted = {}
    /\ calls \in Mixes
    /\ req = [r \in Requests |-> NoRequest]

Arrive(r) ==
    \/ \E t \in Tables : OpenRead(r, t)
    \/ \E t \in Tables : StaffBillRead(r, t)
    \/ \E s \in Sessions, force \in BOOLEAN : CloseRead(r, s, force)
    \/ \E s \in Sessions, to \in Tables : TransferRead(r, s, to)
    \/ \E S \in SUBSET Sessions : OverviewRead(r, S)
    \/ \E s \in Sessions : PosOrderRead(r, s)
    \/ \E g \in Guests, t \in Tables : InitCart(r, g, t)
    \/ \E g \in Guests, lines \in SUBSET Lines : CartRead(r, g, lines)
    \/ \E g \in Guests : PlaceRead(r, g)
    \/ \E g \in Guests : GuestBillRead(r, g)
    \/ CronRead(r)

Proceed(r) ==
    \/ \E s \in Sessions : OpenWrite(r, s)
    \/ BillWrite(r)
    \/ CloseWrite(r)
    \/ TransferWrite(r)
    \/ OverviewWrite(r)
    \/ \E o \in Orders : PosOrderWrite(r, o)
    \/ Register(r)
    \/ CartWrite(r)
    \/ PlaceSession(r)
    \/ \E s \in Sessions : PlaceOpen(r, s)
    \/ PlaceTokens(r)
    \/ \E g \in Guests : PlaceCollect(r, g)
    \/ \E o \in Orders : PlaceOrder(r, o)
    \/ \E g \in Guests : PlaceLink(r, g)
    \/ \E g \in Guests : PlaceClear(r, g)
    \/ PlaceDone(r)
    \/ \E s \in Sessions, t \in Tables : CronClose(r, s, t)

\* Calls made of a single statement, and the passing of time.
Immediate ==
    \/ \E t \in Tables, new \in TableStatus : SetStatus(t, new)
    \/ \E o \in Orders, t \in Tables \cup {None}, s \in Sessions \cup {None} :
           AssignTable(o, t, s)
    \/ \E o \in Orders, how \in OrderState : OrderEnds(o, how)
    \/ \E g \in Guests : CartExpires(g)
    \/ \E t \in Tables : TokensExpire(t)
    \/ \E s \in Sessions : SessionAges(s)

Next ==
    \/ Immediate
    \/ \E r \in Requests : Arrive(r) \/ Proceed(r) \/ Fail(r)

Spec == Init /\ [][Next]_vars

\* Node runs every handler it has started to its end, time passes, and the
\* scheduler starts the cron job every ten minutes, however often other
\* handlers are in flight when it does.
Fairness ==
    /\ \A r \in Requests : WF_vars(Proceed(r)) /\ SF_vars(CronRead(r))
    /\ \A s \in Sessions : WF_vars(SessionAges(s))

FairSpec == Spec /\ Fairness

-----------------------------------------------------------------------------
(* Properties                                                              *)

TypeOK ==
    /\ table \in [Tables -> TableStatus]
    /\ session \in [Sessions -> SessionRow]
    /\ order \in [Orders -> OrderRow]
    /\ cart \in [Guests -> CartValue]
    /\ tokens \in [Tables -> SUBSET Guests]
    /\ orderOf \in [Guests -> Orders \cup {None}]
    /\ wanted \in SUBSET Lines
    /\ calls \in Mixes
    /\ req \in [Requests -> Request]

Quiet == \A r \in Requests : Idle(r)

\* Staff use the POS as it is drawn, where only cleaned tables are made
\* available; guests do not ask for the bill from their phones; and nobody orders
\* by phone at a table whose bill was asked for: findOrCreateSession would not
\* find the session and open another.
SteadyFloor ==
    /\ calls \cap {"setStatus", "guestBill"} = {}
    /\ ~({"staffBill", "place"} \subseteq calls)

\* A table never has two active sessions, and with one it is OCCUPIED, after any
\* sequence of seatings, transfers, QR orders, closings and runs of the cron job:
\* openSession looks at the sessions of the table, a QR order looks for an OPEN
\* one, a transfer only looks at the status of the target (one handler at a time).
FloorAgrees ==
    SteadyFloor => \A t \in Tables :
        /\ Cardinality(ActiveAt(t)) <= 1
        /\ ActiveAt(t) # {} => table[t] = "OCCUPIED"

\* No session is closed over an order that is still in progress: by staff, by
\* the repair of the floor plan or by the cron job (one handler at a time, orders
\* not reassigned by hand).
ClosedIsSettled ==
    SteadyFloor /\ "assign" \notin calls =>
        \A s \in Sessions : session[s].status = "CLOSED" => Unpaid(s) = {}

\* An order is served where its session sits: transfers move both, and QR
\* orders and POS orders start out together (one handler at a time, orders not
\* reassigned by hand).
OrdersFollowSession ==
    "assign" \notin calls =>
        \A s \in Sessions : \A o \in OrdersOf(s) : order[o].table = session[s].table

\* What guests asked for and did not take back is in one cart or in one order,
\* never in two orders and never lost, through edits, merging of the carts of
\* a table, expiry and new scans (one handler at a time, and none fails).
LinesKept ==
    Quiet /\ "fail" \notin calls => \A l \in Lines :
        Cardinality({g \in Guests : l \in cart[g].lines})
            + Cardinality({o \in Orders : l \in order[o].lines})
        = IF l \in wanted THEN 1 ELSE 0

\* The carts of a table become one order: no line is cooked twice.
OrderedOnce ==
    \A l \in Lines : Cardinality({o \in Orders : l \in order[o].lines}) <= 1

\* A session in which nobody orders does not block its table for ever, as long
\* as the transactions of the cron job succeed.
EmptyOpen(s) == session[s].status = "OPEN" /\ OrdersOf(s) = {}

CronWorks == "cron" \in calls /\ "fail" \notin calls

EmptySessionsClose ==
    \A s \in Sessions : CronWorks /\ EmptyOpen(s) ~> ~EmptyOpen(s)
=============================================================================
