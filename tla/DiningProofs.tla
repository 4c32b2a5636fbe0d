---------------------------- MODULE DiningProofs ----------------------------
(***************************************************************************)
(* Proofs about Dining, for any number of tables, sessions, orders, guests *)
(* and cart lines.                                                         *)
(*                                                                         *)
(* The properties of the floor and of the carts are not inductive: a       *)
(* handler writes what followed from rows it read before.  FloorInv and    *)
(* LinesInv add what the handler in flight still knows of them, and what   *)
(* it carries.                                                             *)
(***************************************************************************)
EXTENDS Dining, TLAPS, FiniteSetTheorems

-----------------------------------------------------------------------------
(* Types, for any number of handlers in flight                             *)

\* A session that exists sits at a table, and stays a session.
Seated(s) == session[s].status # None /\ session[s].table \in Tables

AtTable == Step \ {"idle", "billWrite", "overviewWrite", "cronLoop"}
AtSession == {"billWrite", "closeWrite", "transferWrite", "posWrite",
              "placeTokens", "placeCollect"}
AtGuest == {"register", "cartWrite", "placeSession", "placeOpen", "placeTokens",
            "placeCollect", "placeClear"}

\* What a handler has in hand for its next statement.
Sound(q) ==
    /\ q.at \in AtTable => q.table \in Tables
    /\ q.at \in AtSession => q.session \in Sessions /\ Seated(q.session)
    /\ q.at \in AtGuest => q.guest \in Guests
    /\ q.at = "transferWrite" => q.to \in Tables
    /\ q.at = "placeClear" => q.order \in Orders
    /\ \A s \in Sessions, t \in Tables \cup {None} :
          <<s, t>> \in q.batch => Seated(s) /\ t \in Tables

RowsKnown ==
    /\ \A s \in Sessions : session[s].status # None => Seated(s)
    /\ \A g \in Guests : cart[g].state = "live" => cart[g].table \in Tables
    /\ \A o \in Orders : order[o].session # None => Seated(order[o].session)

TypeInv == TypeOK /\ RowsKnown /\ \A r \in Requests : Sound(req[r])

\* Sessions are never deleted.
SessionsStay == \A s \in Sessions : Seated(s) => Seated(s)'

\* Handler r moves to a sound step.
Steps(r) ==
    /\ req' = [req EXCEPT ![r] = req'[r]]
    /\ req'[r] \in Request
    /\ Sound(req[r])'

HandlersKept == req' \in [Requests -> Request] /\ \A r \in Requests : Sound(req[r])'

LEMMA StepKeeps ==
    ASSUME TypeInv, NEW r \in Requests, Steps(r), SessionsStay
    PROVE  HandlersKept
<1>1. req' \in [Requests -> Request]
  BY DEF TypeInv, TypeOK, Steps
<1>2. ASSUME NEW p \in Requests, p # r PROVE Sound(req[p])'
  <2>1. req'[p] = req[p] /\ Sound(req[p]) /\ req[p] \in Request
    BY <1>2 DEF TypeInv, TypeOK, Steps
  <2> QED  BY <2>1 DEF Sound, SessionsStay, Request
<1> QED  BY <1>1, <1>2 DEF HandlersKept, Steps

LEMMA QuietKeeps ==
    ASSUME TypeInv, UNCHANGED req, SessionsStay
    PROVE  HandlersKept
<1>1. ASSUME NEW p \in Requests PROVE Sound(req[p])'
  <2>1. req'[p] = req[p] /\ Sound(req[p]) /\ req[p] \in Request
    BY DEF TypeInv, TypeOK
  <2> QED  BY <2>1 DEF Sound, SessionsStay, Request
<1> QED  BY <1>1 DEF HandlersKept, TypeInv, TypeOK

\* The step of a handler that ends.
LEMMA FinishSteps ==
    ASSUME TypeInv, NEW r \in Requests, Finish(r)
    PROVE  Steps(r)
<1>1. req' = [req EXCEPT ![r] = NoRequest] /\ req'[r] = NoRequest
  BY DEF Finish, TypeInv, TypeOK
<1>2. NoRequest \in Request
  BY DEF NoRequest, Request, Step
<1>3. NoRequest.at = "idle" /\ NoRequest.batch = {}
  BY DEF NoRequest
<1>4. Sound(req[r])'
  BY <1>1, <1>3 DEF Sound, AtTable, AtSession, AtGuest
<1> QED  BY <1>1, <1>2, <1>4 DEF Steps

\* A step that leaves the rows alone owes nothing but its handler.
LEMMA RowsKeep ==
    ASSUME TypeInv, UNCHANGED rows, NEW r \in Requests, Steps(r)
    PROVE  TypeInv'
<1> USE DEF rows, floor, phones
<1>1. SessionsStay
  BY DEF SessionsStay, Seated
<1>2. HandlersKept
  BY <1>1, StepKeeps
<1>3. TypeOK'
  BY <1>2 DEF TypeInv, TypeOK, HandlersKept
<1>4. RowsKnown'
  BY DEF TypeInv, RowsKnown, Seated
<1> QED  BY <1>2, <1>3, <1>4 DEF TypeInv, HandlersKept

\* A handler that walks over sessions with their tables.
LEMMA BatchSteps ==
    ASSUME TypeInv, NEW r \in Requests, NEW S \in SUBSET Sessions,
           \A s \in S : Seated(s), NEW at \in {"overviewWrite", "cronLoop"},
           Go(r, [NoRequest EXCEPT !.at = at,
                                   !.batch = {<<s, session[s].table>> : s \in S}]),
           UNCHANGED session
    PROVE  Steps(r)
<1> DEFINE B == {<<s, session[s].table>> : s \in S}
<1>1. B \in SUBSET (Sessions \X Tables)
  BY DEF Seated
<1>2. \A s \in Sessions, t \in Tables \cup {None} : <<s, t>> \in B => Seated(s)' /\ t \in Tables
  BY DEF Seated
<1> HIDE DEF B
<1>3. req' = [req EXCEPT ![r] = [NoRequest EXCEPT !.at = at, !.batch = B]]
  BY DEF Go, B
<1>4. [NoRequest EXCEPT !.at = at, !.batch = B] \in Request
  BY <1>1 DEF NoRequest, Request, Step
<1>5. req'[r].at = at /\ req'[r].batch = B
  BY <1>3 DEF TypeInv, TypeOK, NoRequest
<1>6. Sound(req[r])'
  BY <1>2, <1>5 DEF Sound, AtTable, AtSession, AtGuest
<1> QED  BY <1>3, <1>4, <1>6 DEF Steps, TypeInv, TypeOK

LEMMA ArriveTypes ==
    ASSUME TypeInv, NEW r \in Requests, Arrive(r)
    PROVE  TypeInv'
<1> USE DEF Go, NoRequest
<1>0. /\ req \in [Requests -> Request] /\ session \in [Sessions -> SessionRow]
      /\ cart \in [Guests -> CartValue] /\ order \in [Orders -> OrderRow]
      /\ orderOf \in [Guests -> Orders \cup {None}]
      /\ RowsKnown
  BY DEF TypeInv, TypeOK
<1>1. ASSUME NEW t \in Tables, OpenRead(r, t) PROVE TypeInv'
  <2>1. Steps(r)
    BY <1>0, <1>1 DEF OpenRead, Steps, Request, Step, Sound, AtTable, AtSession, AtGuest
  <2> QED  BY <1>1, <2>1, RowsKeep DEF OpenRead
<1>2. ASSUME NEW t \in Tables, StaffBillRead(r, t) PROVE TypeInv'
  <2>1. PICK s \in OpenAt(t) : Go(r, [NoRequest EXCEPT !.at = "billWrite", !.session = s])
    BY <1>2 DEF StaffBillRead
  <2>2. s \in Sessions /\ Seated(s)
    BY <2>1, <1>0, NoneAssumption DEF OpenAt, ActiveAt, RowsKnown, SessionStatus
  <2>3. Steps(r)
    BY <1>0, <1>2, <2>1, <2>2
       DEF StaffBillRead, Steps, Request, Step, Sound, AtTable, AtSession, AtGuest, Seated,
           rows, floor
  <2> QED  BY <1>2, <2>3, RowsKeep DEF StaffBillRead
<1>3. ASSUME NEW s \in Sessions, NEW force \in BOOLEAN, CloseRead(r, s, force)
      PROVE  TypeInv'
  <2>1. Seated(s)
    BY <1>0, <1>3, NoneAssumption DEF CloseRead, RowsKnown, Active, SessionStatus
  <2>2. Steps(r)
    BY <1>0, <1>3, <2>1
       DEF CloseRead, Steps, Request, Step, Sound, AtTable, AtSession, AtGuest, Seated,
           rows, floor
  <2> QED  BY <1>3, <2>2, RowsKeep DEF CloseRead
<1>4. ASSUME NEW s \in Sessions, NEW to \in Tables, TransferRead(r, s, to)
      PROVE  TypeInv'
  <2>1. Seated(s)
    BY <1>0, <1>4, NoneAssumption DEF TransferRead, RowsKnown, Active, SessionStatus
  <2>2. Steps(r)
    BY <1>0, <1>4, <2>1
       DEF TransferRead, Steps, Request, Step, Sound, AtTable, AtSession, AtGuest, Seated,
           rows, floor
  <2> QED  BY <1>4, <2>2, RowsKeep DEF TransferRead
<1>5. ASSUME NEW S \in SUBSET Sessions, OverviewRead(r, S) PROVE TypeInv'
  <2>1. \A s \in S : Seated(s)
    BY <1>0, <1>5, NoneAssumption DEF OverviewRead, ActiveAt, RowsKnown, Active, SessionStatus
  <2>2. Steps(r)
    BY <1>0, <1>5, <2>1, BatchSteps DEF OverviewRead, rows, floor
  <2> QED  BY <1>5, <2>2, RowsKeep DEF OverviewRead
<1>6. ASSUME NEW s \in Sessions, PosOrderRead(r, s) PROVE TypeInv'
  <2>1. Seated(s)
    BY <1>0, <1>6, NoneAssumption DEF PosOrderRead, RowsKnown, Active, SessionStatus
  <2>2. Steps(r)
    BY <1>0, <1>6, <2>1
       DEF PosOrderRead, Steps, Request, Step, Sound, AtTable, AtSession, AtGuest, Seated,
           rows, floor
  <2> QED  BY <1>6, <2>2, RowsKeep DEF PosOrderRead
<1>7. ASSUME NEW g \in Guests, NEW t \in Tables, InitCart(r, g, t) PROVE TypeInv'
  <2>1. Steps(r)
    BY <1>0, <1>7 DEF InitCart, Steps, Request, Step, Sound, AtTable, AtSession, AtGuest
  <2>2. SessionsStay
    BY <1>7 DEF InitCart, floor, SessionsStay, Seated
  <2>3. HandlersKept
    BY <2>1, <2>2, StepKeeps
  <2>4. TypeOK'
    BY <1>7, <2>3 DEF InitCart, TypeInv, TypeOK, HandlersKept, CartValue, floor
  <2>5. RowsKnown'
    BY <1>0, <1>7 DEF InitCart, RowsKnown, Seated, CartValue, floor
  <2> QED  BY <2>3, <2>4, <2>5 DEF TypeInv, HandlersKept
<1>8. ASSUME NEW g \in Guests, NEW lines \in SUBSET Lines, CartRead(r, g, lines)
      PROVE  TypeInv'
  <2>1. Steps(r)
    BY <1>0, <1>8
       DEF CartRead, RowsKnown, Steps, Request, Step, Sound, AtTable, AtSession, AtGuest
  <2>2. SessionsStay
    BY <1>8 DEF CartRead, floor, SessionsStay, Seated
  <2>3. HandlersKept
    BY <2>1, <2>2, StepKeeps
  <2>4. TypeOK'
    BY <1>8, <2>3 DEF CartRead, TypeInv, TypeOK, HandlersKept, floor
  <2>5. RowsKnown'
    BY <1>0, <1>8 DEF CartRead, RowsKnown, Seated, floor
  <2> QED  BY <2>3, <2>4, <2>5 DEF TypeInv, HandlersKept
<1>9. ASSUME NEW g \in Guests, PlaceRead(r, g) PROVE TypeInv'
  <2>1. cart[g].table \in Tables /\ cart[g].lines \in SUBSET Lines
    BY <1>0, <1>9 DEF PlaceRead, RowsKnown, CartValue
  <2>2. Steps(r)
    BY <1>0, <1>9, <2>1
       DEF PlaceRead, Steps, Request, Step, Sound, AtTable, AtSession, AtGuest
  <2> QED  BY <1>9, <2>2, RowsKeep DEF PlaceRead
<1>10. ASSUME NEW g \in Guests, GuestBillRead(r, g) PROVE TypeInv'
  <2>1. order[orderOf[g]].session \in Sessions /\ Seated(order[orderOf[g]].session)
    BY <1>0, <1>10 DEF GuestBillRead, RowsKnown, OrderRow
  <2>2. Steps(r)
    BY <1>0, <1>10, <2>1
       DEF GuestBillRead, Steps, Request, Step, Sound, AtTable, AtSession, AtGuest, Seated,
           rows, floor
  <2> QED  BY <1>10, <2>2, RowsKeep DEF GuestBillRead
<1>11. CASE CronRead(r)
  <2>1. \A s \in Orphans : s \in Sessions /\ Seated(s)
    BY <1>0, NoneAssumption DEF Orphans, RowsKnown, SessionStatus
  <2>2. Orphans \in SUBSET Sessions
    BY DEF Orphans
  <2>3. Steps(r)
    BY <1>0, <1>11, <2>1, <2>2, BatchSteps DEF CronRead, rows, floor
  <2> QED  BY <1>11, <2>3, RowsKeep DEF CronRead
<1> QED
  BY <1>1, <1>2, <1>3, <1>4, <1>5, <1>6, <1>7, <1>8, <1>9, <1>10, <1>11 DEF Arrive

\* The rows of a step that writes.
RowTypes ==
    /\ table \in [Tables -> TableStatus]
    /\ session \in [Sessions -> SessionRow]
    /\ order \in [Orders -> OrderRow]
    /\ cart \in [Guests -> CartValue]
    /\ tokens \in [Tables -> SUBSET Guests]
    /\ orderOf \in [Guests -> Orders \cup {None}]
    /\ wanted \in SUBSET Lines
    /\ calls \in Mixes

LEMMA WriteKeeps ==
    ASSUME TypeInv, SessionsStay, RowTypes', RowsKnown',
           UNCHANGED req \/ \E r \in Requests : Steps(r)
    PROVE  TypeInv'
<1>1. HandlersKept
  BY StepKeeps, QuietKeeps
<1> QED  BY <1>1 DEF TypeInv, TypeOK, RowTypes, HandlersKept

LEMMA Facts == ASSUME TypeInv PROVE RowTypes /\ RowsKnown /\ req \in [Requests -> Request]
BY DEF TypeInv, TypeOK, RowTypes

\* Seating guests in a free row.
LEMMA SeatTypes ==
    ASSUME TypeInv, NEW s \in Sessions, NEW t \in Tables, SeatAt(s, t),
           UNCHANGED <<order, phones, calls>>
    PROVE  SessionsStay /\ RowTypes' /\ RowsKnown' /\ Seated(s)'
<1> USE Facts DEF SeatAt, phones
<1>1. SessionsStay
  BY DEF SessionsStay, Seated, RowTypes
<1>2. RowTypes'
  BY DEF RowTypes, SessionRow, SessionStatus, TableStatus
<1>3. RowsKnown' /\ Seated(s)'
  BY NoneAssumption DEF RowTypes, RowsKnown, Seated, SessionRow, SessionStatus
<1> QED  BY <1>1, <1>2, <1>3

\* A session changes its status.
LEMMA StatusTypes ==
    ASSUME TypeInv, NEW S, NEW status \in SessionStatus,
           \A s \in S : s \in Sessions => Seated(s),
           session' = [s \in Sessions |-> IF s \in S THEN [session[s] EXCEPT !.status = status]
                                                     ELSE session[s]]
    PROVE  /\ SessionsStay
           /\ session' \in [Sessions -> SessionRow]
           /\ \A s \in Sessions : session[s].status # None <=> session'[s].status # None
           /\ \A s \in Sessions : session'[s].table = session[s].table
<1> USE Facts, NoneAssumption
<1>1. \A s \in Sessions : session[s] \in SessionRow
  BY DEF RowTypes
<1>2. \A s \in Sessions : /\ session'[s].table = session[s].table
                          /\ session'[s].status = IF s \in S THEN status ELSE session[s].status
                          /\ session'[s] \in SessionRow
  BY <1>1 DEF SessionRow
<1>3. status # None
  OBVIOUS
<1>4. \A s \in Sessions : session[s].status # None <=> session'[s].status # None
  BY <1>2, <1>3 DEF Seated
<1>5. SessionsStay
  BY <1>2, <1>4 DEF SessionsStay, Seated
<1> QED  BY <1>2, <1>4, <1>5

LEMMA ProceedTypes ==
    ASSUME TypeInv, NEW r \in Requests, Proceed(r)
    PROVE  TypeInv'
<1> DEFINE q == req[r]
<1>0. RowTypes /\ RowsKnown /\ q \in Request /\ Sound(q)
  BY Facts DEF TypeInv
<1> USE DEF AtTable, AtSession, AtGuest, Step
<1>1. ASSUME NEW s \in Sessions, OpenWrite(r, s) PROVE TypeInv'
  <2>1. q.table \in Tables
    BY <1>0, <1>1 DEF OpenWrite, Sound
  <2>2. Steps(r)
    BY <1>1, FinishSteps DEF OpenWrite
  <2> QED  BY <1>1, <2>1, <2>2, SeatTypes, WriteKeeps DEF OpenWrite
<1>2. CASE BillWrite(r)
  <2>1. q.session \in Sessions /\ Seated(q.session)
    BY <1>0, <1>2 DEF BillWrite, Sound
  <2>2. Steps(r)
    BY <1>2, FinishSteps DEF BillWrite
  <2>3. session' = [s \in Sessions |-> IF s \in {q.session}
                                       THEN [session[s] EXCEPT !.status = "BILL_REQUESTED"]
                                       ELSE session[s]]
    BY <1>0, <1>2, <2>1 DEF BillWrite, RowTypes
  <2>4. /\ SessionsStay
        /\ session' \in [Sessions -> SessionRow]
        /\ \A s \in Sessions : session[s].status # None <=> session'[s].status # None
        /\ \A s \in Sessions : session'[s].table = session[s].table
    BY <2>1, <2>3, StatusTypes DEF SessionStatus
  <2>5. RowTypes' /\ RowsKnown'
    BY <1>0, <1>2, <2>4 DEF BillWrite, phones, RowTypes, RowsKnown, Seated, OrderRow
  <2> QED  BY <2>2, <2>4, <2>5, WriteKeeps
<1>3. CASE CloseWrite(r)
  <2>1. q.session \in Sessions /\ Seated(q.session) /\ q.table \in Tables
    BY <1>0, <1>3 DEF CloseWrite, Sound
  <2>2. Steps(r)
    BY <1>3, FinishSteps DEF CloseWrite
  <2>3. session' = [s \in Sessions |-> IF s \in {q.session}
                                       THEN [session[s] EXCEPT !.status = "CLOSED"]
                                       ELSE session[s]]
    BY <1>0, <1>3, <2>1 DEF CloseWrite, RowTypes
  <2>4. /\ SessionsStay
        /\ session' \in [Sessions -> SessionRow]
        /\ \A s \in Sessions : session[s].status # None <=> session'[s].status # None
        /\ \A s \in Sessions : session'[s].table = session[s].table
    BY <2>1, <2>3, StatusTypes DEF SessionStatus
  <2>5. order' \in [Orders -> OrderRow] /\ \A o \in Orders : order'[o].session = order[o].session
    <3> DEFINE F(o) == IF q.force /\ o \in Unpaid(q.session)
                       THEN [order[o] EXCEPT !.state = "cancelled"] ELSE order[o]
    <3>1. order' = [o \in Orders |-> F(o)]
      BY <1>3 DEF CloseWrite
    <3>2. \A o \in Orders : F(o) \in OrderRow /\ F(o).session = order[o].session
      BY <1>0 DEF RowTypes, OrderRow, OrderState
    <3> HIDE DEF F
    <3> QED  BY <3>1, <3>2
  <2>6. UNCHANGED <<phones, calls>> /\ table' = [table EXCEPT ![q.table] = "CLEANING"]
    BY <1>3 DEF CloseWrite
  <2>7. RowTypes' /\ RowsKnown'
    BY <1>0, <2>1, <2>4, <2>5, <2>6
       DEF phones, RowTypes, RowsKnown, Seated, OrderRow, TableStatus
  <2> QED  BY <2>2, <2>4, <2>7, WriteKeeps
<1>4. CASE TransferWrite(r)
  <2>1. q.session \in Sessions /\ Seated(q.session) /\ q.table \in Tables /\ q.to \in Tables
    BY <1>0, <1>4 DEF TransferWrite, Sound
  <2>2. Steps(r)
    BY <1>4, FinishSteps DEF TransferWrite
  <2>3. /\ session' \in [Sessions -> SessionRow]
        /\ \A s \in Sessions : /\ session'[s].status = session[s].status
                               /\ Seated(s) => Seated(s)'
    BY <1>0, <1>4, <2>1 DEF TransferWrite, RowTypes, SessionRow, Seated
  <2>4. order' \in [Orders -> OrderRow] /\ \A o \in Orders : order'[o].session = order[o].session
    BY <1>0, <1>4, <2>1 DEF TransferWrite, Moved, RowTypes, OrderRow
  <2>5. RowTypes'
    BY <1>0, <1>4, <2>1, <2>3, <2>4 DEF TransferWrite, phones, RowTypes, TableStatus
  <2>6. RowsKnown'
    BY <1>0, <1>4, <2>3, <2>4 DEF TransferWrite, phones, RowTypes, RowsKnown, Seated, OrderRow
  <2> QED  BY <2>2, <2>3, <2>5, <2>6, WriteKeeps DEF SessionsStay
<1>5. CASE OverviewWrite(r)
  <2>1. \A s \in Sessions, t \in Tables : <<s, t>> \in q.batch => Seated(s)
    BY <1>0 DEF Sound
  <2>2. Steps(r)
    BY <1>5, FinishSteps DEF OverviewWrite
  <2> DEFINE S == {s \in Sessions : \E t \in Tables : <<s, t>> \in q.batch}
  <2>3. session' = [s \in Sessions |-> IF s \in S
                                       THEN [session[s] EXCEPT !.status = "CLOSED"]
                                       ELSE session[s]]
    BY <1>5 DEF OverviewWrite
  <2>a. \A s \in S : s \in Sessions => Seated(s)
    BY <2>1
  <2> HIDE DEF S
  <2>4. /\ SessionsStay
        /\ session' \in [Sessions -> SessionRow]
        /\ \A s \in Sessions : session[s].status # None <=> session'[s].status # None
        /\ \A s \in Sessions : session'[s].table = session[s].table
    BY <2>a, <2>3, StatusTypes DEF SessionStatus
  <2>5. RowTypes' /\ RowsKnown'
    BY <1>0, <1>5, <2>4 DEF OverviewWrite, phones, RowTypes, RowsKnown, Seated, OrderRow
  <2> QED  BY <2>2, <2>4, <2>5, WriteKeeps
<1>6. ASSUME NEW o \in Orders, PosOrderWrite(r, o) PROVE TypeInv'
  <2>1. q.session \in Sessions /\ Seated(q.session) /\ q.table \in Tables
    BY <1>0, <1>6 DEF PosOrderWrite, Sound
  <2>2. Steps(r)
    BY <1>6, FinishSteps DEF PosOrderWrite
  <2>3. SessionsStay
    BY <1>6 DEF PosOrderWrite, floor, SessionsStay, Seated
  <2>4. RowTypes' /\ RowsKnown'
    BY <1>0, <1>6, <2>1
       DEF PosOrderWrite, NewOrder, floor, phones, RowTypes, RowsKnown, Seated, OrderRow,
           OrderState
  <2> QED  BY <2>2, <2>3, <2>4, WriteKeeps
<1>7. CASE Register(r)
  <2>1. q.guest \in Guests /\ q.table \in Tables
    BY <1>0, <1>7 DEF Register, Sound
  <2>2. Steps(r)
    BY <1>7, FinishSteps DEF Register
  <2>3. SessionsStay /\ RowTypes' /\ RowsKnown'
    BY <1>0, <1>7, <2>1 DEF Register, floor, SessionsStay, RowTypes, RowsKnown, Seated
  <2> QED  BY <2>2, <2>3, WriteKeeps
<1>8. CASE CartWrite(r)
  <2>1. q.guest \in Guests /\ q.table \in Tables /\ q.lines \in SUBSET Lines
    BY <1>0, <1>8 DEF CartWrite, Sound, Request
  <2>2. Steps(r)
    BY <1>8, FinishSteps DEF CartWrite
  <2>3. SessionsStay /\ RowTypes' /\ RowsKnown'
    BY <1>0, <1>8, <2>1
       DEF CartWrite, floor, SessionsStay, RowTypes, RowsKnown, Seated, CartValue
  <2> QED  BY <2>2, <2>3, WriteKeeps
<1>9. CASE PlaceSession(r)
  <2>1. q.guest \in Guests /\ q.table \in Tables
    BY <1>0, <1>9 DEF PlaceSession, Sound
  <2>2. \A s \in OpenAt(q.table) : s \in Sessions /\ Seated(s)
    BY <1>0, NoneAssumption DEF OpenAt, ActiveAt, RowsKnown, SessionStatus
  <2>3. UNCHANGED session
    BY <1>9 DEF PlaceSession, rows, floor
  <2>4. Steps(r)
    <3>1. ASSUME NEW s \in OpenAt(q.table),
                 Go(r, [q EXCEPT !.at = "placeTokens", !.session = s])
          PROVE  Steps(r)
      BY <1>0, <1>9, <2>1, <2>2, <2>3, <3>1, Facts
         DEF Go, PlaceSession, Steps, Request, Sound, Seated
    <3>2. ASSUME Go(r, [q EXCEPT !.at = "placeOpen"])  PROVE Steps(r)
      BY <1>0, <1>9, <2>1, <2>3, <3>2, Facts
         DEF Go, PlaceSession, Steps, Request, Sound, Seated
    <3> QED  BY <1>9, <3>1, <3>2 DEF PlaceSession
  <2> QED  BY <1>9, <2>4, RowsKeep DEF PlaceSession
<1>10. ASSUME NEW s \in Sessions, PlaceOpen(r, s) PROVE TypeInv'
  <2>1. q.guest \in Guests /\ q.table \in Tables
    BY <1>0, <1>10 DEF PlaceOpen, Sound
  <2>2. SessionsStay /\ RowTypes' /\ RowsKnown' /\ Seated(s)'
    BY <1>10, <2>1, SeatTypes DEF PlaceOpen
  <2>3. Steps(r)
    BY <1>0, <1>10, <2>1, <2>2, Facts
       DEF Go, PlaceOpen, Steps, Request, Sound, SessionsStay
  <2> QED  BY <2>2, <2>3, WriteKeeps
<1>11. CASE PlaceTokens(r)
  <2>1. q.guest \in Guests /\ q.table \in Tables /\ q.session \in Sessions /\ Seated(q.session)
    BY <1>0, <1>11 DEF PlaceTokens, Sound
  <2>2. Steps(r)
    BY <1>0, <1>11, <2>1, Facts
       DEF Go, PlaceTokens, Steps, Request, Sound, Seated, RowTypes, rows, floor
  <2> QED  BY <1>11, <2>2, RowsKeep DEF PlaceTokens
<1>12. ASSUME NEW g \in Guests, PlaceCollect(r, g) PROVE TypeInv'
  <2>1. q.guest \in Guests /\ q.table \in Tables /\ q.session \in Sessions /\ Seated(q.session)
    BY <1>0, <1>12 DEF PlaceCollect, Sound
  <2>2. cart[g].lines \in SUBSET Lines
    BY <1>0 DEF RowTypes, CartValue
  <2>3. Steps(r)
    BY <1>0, <1>12, <2>1, <2>2, Facts
       DEF Go, PlaceCollect, Steps, Request, Sound, Seated, rows, floor
  <2> QED  BY <1>12, <2>3, RowsKeep DEF PlaceCollect
<1>13. ASSUME NEW o \in Orders, PlaceOrder(r, o) PROVE TypeInv'
  <2>1. /\ q.guest \in Guests /\ q.table \in Tables /\ q.session \in Sessions
        /\ Seated(q.session) /\ q.lines \in SUBSET Lines
    BY <1>0, <1>13 DEF PlaceOrder, Sound, Request
  <2>2. Steps(r)
    BY <1>0, <1>13, <2>1, Facts
       DEF Go, PlaceOrder, Steps, Request, Sound, Seated, floor
  <2>3. SessionsStay /\ RowTypes' /\ RowsKnown'
    BY <1>0, <1>13, <2>1
       DEF PlaceOrder, NewOrder, floor, phones, SessionsStay, RowTypes, RowsKnown, Seated,
           OrderRow, OrderState
  <2> QED  BY <2>2, <2>3, WriteKeeps
<1>14. ASSUME NEW g \in Guests, PlaceLink(r, g) PROVE TypeInv'
  <2>1. q.guest \in Guests /\ q.table \in Tables /\ q.order \in Orders
    BY <1>0, <1>14 DEF PlaceLink, Sound
  <2>2. Steps(r)
    BY <1>0, <1>14, <2>1, Facts
       DEF Go, PlaceLink, Steps, Request, Sound, Seated, floor
  <2>3. SessionsStay /\ RowTypes' /\ RowsKnown'
    BY <1>0, <1>14, <2>1
       DEF PlaceLink, floor, SessionsStay, RowTypes, RowsKnown, Seated
  <2> QED  BY <2>2, <2>3, WriteKeeps
<1>15. ASSUME NEW g \in Guests, PlaceClear(r, g) PROVE TypeInv'
  <2>1. q.guest \in Guests /\ q.table \in Tables /\ q.order \in Orders
    BY <1>0, <1>15 DEF PlaceClear, Sound
  <2>2. Steps(r)
    BY <1>0, <1>15, <2>1, Facts
       DEF Go, PlaceClear, Steps, Request, Sound, Seated, floor
  <2>3. SessionsStay /\ RowTypes' /\ RowsKnown'
    BY <1>0, <1>15, <2>1
       DEF PlaceClear, Cleared, NoCart, floor, SessionsStay, RowTypes, RowsKnown, Seated,
           CartValue
  <2> QED  BY <2>2, <2>3, WriteKeeps
<1>16. CASE PlaceDone(r)
  <2>1. q.table \in Tables
    BY <1>0, <1>16 DEF PlaceDone, Sound
  <2>2. Steps(r)
    BY <1>16, FinishSteps DEF PlaceDone
  <2>3. SessionsStay /\ RowTypes' /\ RowsKnown'
    BY <1>0, <1>16, <2>1
       DEF PlaceDone, floor, SessionsStay, RowTypes, RowsKnown, Seated
  <2> QED  BY <2>2, <2>3, WriteKeeps
<1>17. ASSUME NEW s \in Sessions, NEW t \in Tables, CronClose(r, s, t) PROVE TypeInv'
  <2>1. Seated(s)
    BY <1>0, <1>17 DEF CronClose, Sound
  <2>2. session' = [p \in Sessions |-> IF p \in {s} THEN [session[p] EXCEPT !.status = "CLOSED"]
                                                    ELSE session[p]]
    BY <1>0, <1>17 DEF CronClose, RowTypes
  <2>3. /\ SessionsStay
        /\ session' \in [Sessions -> SessionRow]
        /\ \A p \in Sessions : session[p].status # None <=> session'[p].status # None
        /\ \A p \in Sessions : session'[p].table = session[p].table
    BY <2>1, <2>2, StatusTypes DEF SessionStatus
  <2>4. RowTypes' /\ RowsKnown'
    BY <1>0, <1>17, <2>3
       DEF CronClose, phones, RowTypes, RowsKnown, Seated, OrderRow, TableStatus
  <2>5. Steps(r)
    <3>1. CASE q.batch = {<<s, t>>}
      BY <1>17, <3>1, FinishSteps DEF CronClose
    <3>2. CASE q.batch # {<<s, t>>}
      BY <1>0, <1>17, <2>3, <3>2, Facts DEF Go, CronClose, Steps, Request, Sound, SessionsStay
    <3> QED  BY <3>1, <3>2
  <2> QED  BY <2>3, <2>4, <2>5, WriteKeeps
<1> QED
  BY <1>1, <1>2, <1>3, <1>4, <1>5, <1>6, <1>7, <1>8, <1>9, <1>10, <1>11, <1>12, <1>13, <1>14,
     <1>15, <1>16, <1>17 DEF Proceed

LEMMA ImmediateTypes ==
    ASSUME TypeInv, Immediate
    PROVE  TypeInv'
<1>0. RowTypes /\ RowsKnown
  BY Facts
<1>1. ASSUME NEW t \in Tables, NEW new \in TableStatus, SetStatus(t, new) PROVE TypeInv'
  <2>1. SessionsStay /\ RowTypes' /\ RowsKnown'
    BY <1>0, <1>1 DEF SetStatus, phones, SessionsStay, RowTypes, RowsKnown, Seated
  <2> QED  BY <1>1, <2>1, WriteKeeps DEF SetStatus
<1>2. ASSUME NEW o \in Orders, NEW t \in Tables \cup {None}, NEW s \in Sessions \cup {None},
             AssignTable(o, t, s)
      PROVE  TypeInv'
  <2>1. s # None => Seated(s)
    BY <1>0, <1>2 DEF AssignTable, RowsKnown
  <2>2. SessionsStay /\ RowTypes' /\ RowsKnown'
    BY <1>0, <1>2, <2>1
       DEF AssignTable, floor, phones, SessionsStay, RowTypes, RowsKnown, Seated, OrderRow
  <2> QED  BY <1>2, <2>2, WriteKeeps DEF AssignTable
<1>3. ASSUME NEW o \in Orders, NEW how \in OrderState, OrderEnds(o, how) PROVE TypeInv'
  <2>1. SessionsStay /\ RowTypes' /\ RowsKnown'
    BY <1>0, <1>3
       DEF OrderEnds, floor, phones, SessionsStay, RowTypes, RowsKnown, Seated, OrderRow
  <2> QED  BY <1>3, <2>1, WriteKeeps DEF OrderEnds
<1>4. ASSUME NEW g \in Guests, CartExpires(g) PROVE TypeInv'
  <2>1. SessionsStay /\ RowTypes' /\ RowsKnown'
    BY <1>0, <1>4
       DEF CartExpires, NoCart, floor, SessionsStay, RowTypes, RowsKnown, Seated, CartValue
  <2> QED  BY <1>4, <2>1, WriteKeeps DEF CartExpires
<1>5. ASSUME NEW t \in Tables, TokensExpire(t) PROVE TypeInv'
  <2>1. SessionsStay /\ RowTypes' /\ RowsKnown'
    BY <1>0, <1>5 DEF TokensExpire, floor, SessionsStay, RowTypes, RowsKnown, Seated
  <2> QED  BY <1>5, <2>1, WriteKeeps DEF TokensExpire
<1>6. ASSUME NEW s \in Sessions, SessionAges(s) PROVE TypeInv'
  <2>1. /\ session' \in [Sessions -> SessionRow]
        /\ \A p \in Sessions : /\ session'[p].status = session[p].status
                               /\ session'[p].table = session[p].table
    BY <1>0, <1>6 DEF SessionAges, RowTypes, SessionRow
  <2>2. SessionsStay /\ RowTypes' /\ RowsKnown'
    BY <1>0, <1>6, <2>1
       DEF SessionAges, phones, SessionsStay, RowTypes, RowsKnown, Seated, OrderRow
  <2> QED  BY <1>6, <2>2, WriteKeeps DEF SessionAges
<1> QED  BY <1>1, <1>2, <1>3, <1>4, <1>5, <1>6 DEF Immediate

LEMMA TypesHold == Spec => []TypeInv
<1>1. Init => TypeInv
  BY DEF Init, TypeInv, TypeOK, RowsKnown, Sound, Seated, NoSession, NoOrder, NoCart, NoRequest,
         SessionRow, OrderRow, CartValue, Request, Step, TableStatus, AtTable, AtSession, AtGuest
<1>2. TypeInv /\ [Next]_vars => TypeInv'
  <2> SUFFICES ASSUME TypeInv, [Next]_vars PROVE TypeInv'
    OBVIOUS
  <2>1. ASSUME NEW r \in Requests, Fail(r) PROVE TypeInv'
    BY <2>1, FinishSteps, RowsKeep DEF Fail
  <2>2. CASE UNCHANGED vars
    BY <2>2, Facts, WriteKeeps
       DEF vars, SessionsStay, RowTypes, RowsKnown, Seated
  <2> QED  BY <2>1, <2>2, ArriveTypes, ProceedTypes, ImmediateTypes DEF Next
<1> QED  BY <1>1, <1>2, PTL DEF Spec

\* Every row and every handler in flight keeps its type, for any number of
\* tables, guests and handlers, and with failures.
THEOREM TypeCorrect == Spec => []TypeOK
BY TypesHold, PTL DEF TypeInv

-----------------------------------------------------------------------------
(* The floor, one handler at a time: what a handler read is still so when  *)
(* it writes, whatever is paid, reassigned or expires meanwhile            *)

OneHandler == \E r : Requests = {r}

Sits(s, t) == session[s].table = t /\ session[s].status \in Active

SitsOpen(s, t) == session[s].table = t /\ session[s].status = "OPEN"

Empty(t) == \A s \in Sessions : ~Sits(s, t)

PlaceSteps == {"placeSession", "placeOpen", "placeTokens", "placeCollect"}

Knows(q) ==
    /\ q.at = "openWrite" => Empty(q.table)
    /\ q.at = "placeOpen" => \A s \in Sessions : ~SitsOpen(s, q.table)
    /\ q.at \in {"closeWrite", "transferWrite", "posWrite"} => Sits(q.session, q.table)
    /\ q.at \in {"placeTokens", "placeCollect"} => SitsOpen(q.session, q.table)
    /\ q.at = "cronLoop" => \A s \in Sessions, t \in Tables :
                                <<s, t>> \in q.batch => SitsOpen(s, t)

NotReassigned == "assign" \notin calls

\* What it knows besides on a floor that is only used as the POS is drawn.
KnowsSteady(q) ==
    /\ q.at # "overviewWrite"
    /\ q.at = "billWrite" => "staffBill" \in calls /\ session[q.session].status = "OPEN"
    /\ q.at \in PlaceSteps => "place" \in calls
    /\ q.at = "transferWrite" => Empty(q.to)
    /\ NotReassigned /\ q.at = "closeWrite" /\ ~q.force => Unpaid(q.session) = {}
    /\ NotReassigned /\ q.at = "cronLoop" =>
          \A s \in Sessions, t \in Tables : <<s, t>> \in q.batch => OrdersOf(s) = {}

OneParty ==
    \A t \in Tables, s \in Sessions :
        Sits(s, t) => /\ table[t] = "OCCUPIED"
                      /\ \A p \in Sessions : Sits(p, t) => p = s

NoBills == "place" \in calls => \A s \in Sessions : session[s].status # "BILL_REQUESTED"

Settled == NotReassigned => \A s \in Sessions : session[s].status = "CLOSED" => Unpaid(s) = {}

Steady == SteadyFloor => OneParty /\ NoBills /\ Settled

Known(r) == Knows(req[r]) /\ (SteadyFloor => KnowsSteady(req[r]))

FloorInv == OrdersFollowSession /\ Steady /\ \A r \in Requests : Known(r)

\* A step that leaves the floor and the orders alone owes what its handler knows.
LEMMA RestKeeps ==
    ASSUME FloorInv, UNCHANGED <<floor, order, calls>>,
           \A r \in Requests : Known(r)'
    PROVE  FloorInv'
BY DEF FloorInv, OrdersFollowSession, OrdersOf, Unpaid, Steady, SteadyFloor, OneParty, NoBills,
       Settled, NotReassigned, Sits, floor

\* A handler that ends knows nothing.
LEMMA FinishKnows ==
    ASSUME TypeInv, OneHandler, NEW r \in Requests, Finish(r)
    PROVE  \A p \in Requests : Known(p)'
<1>1. req'[r].at = "idle"
  BY DEF Finish, TypeInv, TypeOK, NoRequest
<1>2. Known(r)'
  BY <1>1 DEF Known, Knows, KnowsSteady, PlaceSteps
<1> QED  BY <1>2 DEF OneHandler

LEMMA ArriveFloor ==
    ASSUME TypeInv, FloorInv, OneHandler, NEW r \in Requests, Arrive(r)
    PROVE  FloorInv'
<1>0. RowTypes /\ RowsKnown /\ req \in [Requests -> Request]
  BY Facts
<1>a. ASSUME Known(r)', UNCHANGED <<floor, order, calls>> PROVE FloorInv'
  BY <1>a, RestKeeps DEF OneHandler
<1> USE DEF Go, NoRequest, PlaceSteps
<1>1. ASSUME NEW t \in Tables, OpenRead(r, t) PROVE FloorInv'
  <2>1. Known(r)'
    BY <1>0, <1>1 DEF OpenRead, Known, Knows, KnowsSteady, Taken, ActiveAt, Empty, Sits, rows, floor
  <2> QED  BY <1>1, <2>1, <1>a DEF OpenRead, rows
<1>2. ASSUME NEW t \in Tables, StaffBillRead(r, t) PROVE FloorInv'
  <2>1. Known(r)'
    BY <1>0, <1>2 DEF StaffBillRead, Known, Knows, KnowsSteady, OpenAt, rows, floor
  <2> QED  BY <1>2, <2>1, <1>a DEF StaffBillRead, rows
<1>3. ASSUME NEW s \in Sessions, NEW force \in BOOLEAN, CloseRead(r, s, force)
      PROVE  FloorInv'
  <2>1. /\ req'[r].at = "closeWrite" /\ req'[r].session = s
        /\ req'[r].table = session[s].table /\ req'[r].force = (force /\ Unpaid(s) # {})
        /\ session[s].status \in Active /\ (force \/ Unpaid(s) = {})
        /\ UNCHANGED <<floor, order, calls>>
    BY <1>0, <1>3 DEF CloseRead, MayClose, rows
  <2>2. Unpaid(s)' = Unpaid(s)
    BY <2>1 DEF Unpaid, OrdersOf
  <2>3. Known(r)'
    BY <2>1, <2>2 DEF Known, Knows, KnowsSteady, Sits, floor
  <2> QED  BY <2>1, <2>3, <1>a
<1>4. ASSUME NEW s \in Sessions, NEW to \in Tables, TransferRead(r, s, to)
      PROVE  FloorInv'
  <2>1. SteadyFloor => Empty(to)
    BY <1>4 DEF TransferRead, FloorInv, Steady, OneParty, Empty
  <2>2. Known(r)'
    BY <1>0, <1>4, <2>1
       DEF TransferRead, Known, Knows, KnowsSteady, SteadyFloor, Empty, Sits, rows, floor
  <2> QED  BY <1>4, <2>2, <1>a DEF TransferRead, rows
<1>5. ASSUME NEW S \in SUBSET Sessions, OverviewRead(r, S) PROVE FloorInv'
  <2>1. PICK s \in S : s \in ActiveAt(session[s].table) /\ table[session[s].table] = "AVAILABLE"
    BY <1>5 DEF OverviewRead
  <2>2. Sits(s, session[s].table) /\ session[s].table \in Tables
    BY <1>0, <2>1, NoneAssumption DEF ActiveAt, Sits, RowsKnown, Seated, Active, SessionStatus
  <2>3. ~SteadyFloor
    BY <2>1, <2>2 DEF FloorInv, Steady, OneParty
  <2>4. req'[r].at = "overviewWrite" /\ UNCHANGED <<floor, order, calls>>
    BY <1>0, <1>5 DEF OverviewRead, rows
  <2>5. Known(r)'
    BY <2>3, <2>4 DEF Known, Knows, SteadyFloor
  <2> QED  BY <2>4, <2>5, <1>a
<1>6. ASSUME NEW s \in Sessions, PosOrderRead(r, s) PROVE FloorInv'
  <2>1. Known(r)'
    BY <1>0, <1>6 DEF PosOrderRead, Known, Knows, KnowsSteady, Sits, rows, floor
  <2> QED  BY <1>6, <2>1, <1>a DEF PosOrderRead, rows
<1>7. ASSUME NEW g \in Guests, NEW t \in Tables, InitCart(r, g, t) PROVE FloorInv'
  <2>1. Known(r)'
    BY <1>0, <1>7 DEF InitCart, Known, Knows, KnowsSteady
  <2> QED  BY <1>7, <2>1, <1>a DEF InitCart
<1>8. ASSUME NEW g \in Guests, NEW lines \in SUBSET Lines, CartRead(r, g, lines)
      PROVE  FloorInv'
  <2>1. req'[r].at = "cartWrite" /\ UNCHANGED <<floor, order, calls>>
    BY <1>0, <1>8 DEF CartRead
  <2>2. Known(r)'
    BY <2>1 DEF Known, Knows, KnowsSteady
  <2> QED  BY <2>1, <2>2, <1>a
<1>9. ASSUME NEW g \in Guests, PlaceRead(r, g) PROVE FloorInv'
  <2>1. req'[r].at = "placeSession" /\ UNCHANGED <<floor, order, calls>> /\ "place" \in calls
    BY <1>0, <1>9 DEF PlaceRead, rows
  <2>2. Known(r)'
    BY <2>1 DEF Known, Knows, KnowsSteady
  <2> QED  BY <2>1, <2>2, <1>a
<1>10. ASSUME NEW g \in Guests, GuestBillRead(r, g) PROVE FloorInv'
  <2>1. req'[r].at = "billWrite" /\ UNCHANGED <<floor, order, calls>> /\ "guestBill" \in calls
    BY <1>0, <1>10 DEF GuestBillRead, rows
  <2>2. Known(r)'
    BY <2>1 DEF Known, Knows, KnowsSteady, SteadyFloor
  <2> QED  BY <2>1, <2>2, <1>a
<1>11. CASE CronRead(r)
  <2> DEFINE B == {<<s, session[s].table>> : s \in Orphans}
  <2>1. \A s \in Sessions, t \in Tables :
            <<s, t>> \in B => SitsOpen(s, t) /\ OrdersOf(s) = {}
    BY DEF Orphans, SitsOpen
  <2> HIDE DEF B
  <2>2. /\ req'[r].at = "cronLoop" /\ req'[r].batch = B
        /\ UNCHANGED <<floor, order, calls>>
    BY <1>0, <1>11 DEF CronRead, rows, B
  <2>3. \A s \in Sessions : OrdersOf(s)' = OrdersOf(s)
    BY <2>2 DEF OrdersOf
  <2>4. Known(r)'
    BY <2>1, <2>2, <2>3 DEF Known, Knows, KnowsSteady, SitsOpen, floor
  <2> QED  BY <2>2, <2>4, <1>a
<1> QED
  BY <1>1, <1>2, <1>3, <1>4, <1>5, <1>6, <1>7, <1>8, <1>9, <1>10, <1>11 DEF Arrive

\* Orders of a session in terms of the orders.
LEMMA UnpaidIs ==
    \A s : Unpaid(s) = {o \in Orders : order[o].session = s /\ order[o].state = "open"}
BY DEF Unpaid, OrdersOf

\* Guests sit down at a table without a session.
LEMMA SeatFloor ==
    ASSUME TypeInv, FloorInv, NEW s \in Sessions, NEW t \in Tables, SeatAt(s, t),
           UNCHANGED <<order, calls>>, SteadyFloor => Empty(t)
    PROVE  OrdersFollowSession' /\ Steady' /\ SitsOpen(s, t)'
<1>0. RowTypes /\ RowsKnown
  BY Facts
<1>1. /\ session[s].status = None
      /\ session'[s].status = "OPEN" /\ session'[s].table = t
      /\ \A p \in Sessions : p # s => session'[p] = session[p]
      /\ table' = [table EXCEPT ![t] = "OCCUPIED"]
  BY <1>0 DEF SeatAt, RowTypes
<1>2. \A o \in Orders : order[o].session # s
  BY <1>0, <1>1, NoneAssumption DEF RowsKnown, Seated
<1>3. OrdersFollowSession'
  BY <1>1, <1>2 DEF FloorInv, OrdersFollowSession, OrdersOf
<1>4. SitsOpen(s, t)'
  BY <1>1 DEF SitsOpen
<1>5. ASSUME SteadyFloor PROVE (OneParty /\ NoBills /\ Settled)'
  <2>1. OneParty'
    BY <1>0, <1>1, <1>5 DEF FloorInv, Steady, OneParty, Sits, Empty, RowTypes
  <2>2. NoBills'
    BY <1>1, <1>5 DEF FloorInv, Steady, NoBills
  <2>3. Settled'
    BY <1>1, <1>5 DEF FloorInv, Steady, Settled, NotReassigned, Unpaid, OrdersOf
  <2> QED  BY <2>1, <2>2, <2>3
<1> QED  BY <1>3, <1>4, <1>5 DEF Steady, SteadyFloor

\* An order of a session that sits where the order goes.
LEMMA OrderFloor ==
    ASSUME TypeInv, FloorInv, NEW o \in Orders, NEW s \in Sessions, NEW t \in Tables,
           NEW lines, NewOrder(o, t, s, lines), Sits(s, t), UNCHANGED <<floor, calls>>
    PROVE  OrdersFollowSession' /\ Steady'
<1>0. RowTypes
  BY Facts
<1>1. /\ order'[o].session = s /\ order'[o].table = t
      /\ \A p \in Orders : p # o => order'[p] = order[p]
      /\ session[s].table = t /\ session[s].status # "CLOSED"
      /\ session' = session /\ table' = table
  BY <1>0 DEF NewOrder, RowTypes, Sits, Active, floor
<1>2. OrdersFollowSession'
  BY <1>1 DEF FloorInv, OrdersFollowSession, OrdersOf
<1>3. Steady'
  BY <1>1 DEF FloorInv, Steady, SteadyFloor, OneParty, NoBills, Settled, NotReassigned, Sits,
              Unpaid, OrdersOf
<1> QED  BY <1>2, <1>3

\* A session of a table is closed and the table is free.
LEMMA CloseFloor ==
    ASSUME TypeInv, FloorInv, NEW s \in Sessions, NEW t \in Tables, Sits(s, t),
           NEW new \in {"CLEANING", "AVAILABLE"},
           session' = [session EXCEPT ![s].status = "CLOSED"],
           table' = [table EXCEPT ![t] = new], UNCHANGED calls,
           \A o \in Orders : /\ order'[o].session = order[o].session
                             /\ order'[o].table = order[o].table
                             /\ order'[o].state = "open" => order[o].state = "open",
           SteadyFloor /\ NotReassigned => Unpaid(s)' = {}
    PROVE  OrdersFollowSession' /\ Steady'
<1>0. RowTypes
  BY Facts
<1>1. /\ \A p \in Sessions : /\ session'[p].table = session[p].table
                             /\ p # s => session'[p] = session[p]
      /\ session'[s].status = "CLOSED"
  BY <1>0 DEF RowTypes, SessionRow
<1>2. OrdersFollowSession'
  BY <1>1 DEF FloorInv, OrdersFollowSession, OrdersOf
<1>3. ASSUME SteadyFloor PROVE (OneParty /\ NoBills /\ Settled)'
  <2>1. OneParty'
    BY <1>0, <1>1, <1>3 DEF FloorInv, Steady, OneParty, Sits, Active, RowTypes
  <2>2. NoBills'
    BY <1>1, <1>3 DEF FloorInv, Steady, NoBills
  <2>3. Settled'
    <3>1. ASSUME NotReassigned, NEW p \in Sessions, session'[p].status = "CLOSED"
          PROVE  Unpaid(p)' = {}
      BY <1>1, <1>3, <3>1 DEF FloorInv, Steady, Settled, Unpaid, OrdersOf
    <3> QED  BY <3>1 DEF Settled, NotReassigned
  <2> QED  BY <2>1, <2>2, <2>3
<1> QED  BY <1>2, <1>3 DEF Steady, SteadyFloor

LEMMA ProceedFloor ==
    ASSUME TypeInv, FloorInv, OneHandler, NEW r \in Requests, Proceed(r)
    PROVE  FloorInv'
<1> DEFINE q == req[r]
<1>0. /\ RowTypes /\ RowsKnown /\ req \in [Requests -> Request] /\ q \in Request /\ Sound(q)
      /\ Knows(q) /\ (SteadyFloor => KnowsSteady(q))
  BY Facts DEF TypeInv, FloorInv, Known
<1>a. ASSUME Known(r)', OrdersFollowSession', Steady' PROVE FloorInv'
  BY <1>a DEF OneHandler, FloorInv
<1>b. ASSUME Finish(r), OrdersFollowSession', Steady' PROVE FloorInv'
  BY <1>b, FinishKnows DEF FloorInv
<1>c. ASSUME Finish(r) \/ Known(r)', UNCHANGED <<floor, order, calls>> PROVE FloorInv'
  BY <1>c, FinishKnows, RestKeeps DEF OneHandler
<1> USE DEF AtTable, AtSession, AtGuest, Step, PlaceSteps
<1>1. ASSUME NEW s \in Sessions, OpenWrite(r, s) PROVE FloorInv'
  <2>1. q.table \in Tables /\ Empty(q.table)
    BY <1>0, <1>1 DEF OpenWrite, Sound, Knows
  <2> QED  BY <1>1, <2>1, <1>b, SeatFloor DEF OpenWrite
<1>2. CASE BillWrite(r)
  <2>1. /\ q.session \in Sessions /\ Seated(q.session)
        /\ SteadyFloor => "staffBill" \in calls /\ session[q.session].status = "OPEN"
    BY <1>0, <1>2 DEF BillWrite, Sound, KnowsSteady
  <2>2. /\ \A p \in Sessions : /\ session'[p].table = session[p].table
                               /\ p # q.session => session'[p] = session[p]
        /\ session'[q.session].status = "BILL_REQUESTED"
        /\ UNCHANGED <<table, order, calls>>
    BY <1>0, <1>2, <2>1 DEF BillWrite, RowTypes, SessionRow
  <2>3. OrdersFollowSession'
    BY <2>2 DEF FloorInv, OrdersFollowSession, OrdersOf
  <2>4. ASSUME SteadyFloor PROVE (OneParty /\ NoBills /\ Settled)'
    <3>1. OneParty'
      BY <1>0, <2>1, <2>2, <2>4 DEF FloorInv, Steady, OneParty, Sits, Active, RowTypes
    <3>2. NoBills'
      BY <2>1, <2>2, <2>4 DEF SteadyFloor, NoBills
    <3>3. Settled'
      BY <2>2, <2>4 DEF FloorInv, Steady, Settled, NotReassigned, Unpaid, OrdersOf
    <3> QED  BY <3>1, <3>2, <3>3
  <2>5. Steady'
    BY <2>2, <2>4 DEF Steady, SteadyFloor
  <2> QED  BY <1>2, <2>3, <2>5, <1>b DEF BillWrite
<1>3. CASE CloseWrite(r)
  <2>1. PICK s \in Sessions : s = q.session
    BY <1>0, <1>3 DEF CloseWrite, Sound
  <2>2. /\ q.table \in Tables /\ Sits(s, q.table)
        /\ SteadyFloor /\ NotReassigned /\ ~q.force => Unpaid(s) = {}
    BY <1>0, <1>3, <2>1 DEF CloseWrite, Sound, Knows, KnowsSteady
  <2> DEFINE F(o) == IF q.force /\ o \in Unpaid(s)
                     THEN [order[o] EXCEPT !.state = "cancelled"] ELSE order[o]
  <2>3. /\ session' = [session EXCEPT ![s].status = "CLOSED"]
        /\ table' = [table EXCEPT ![q.table] = "CLEANING"]
        /\ Finish(r) /\ UNCHANGED calls
        /\ \A o \in Orders : order'[o] = F(o)
    BY <1>3, <2>1 DEF CloseWrite
  <2>4. \A o \in Orders : /\ F(o).session = order[o].session
                          /\ F(o).table = order[o].table
                          /\ F(o).state = "open" => /\ order[o].state = "open"
                                                    /\ ~(q.force /\ o \in Unpaid(s))
    BY <1>0 DEF RowTypes, OrderRow
  <2> HIDE DEF F
  <2>5. ASSUME SteadyFloor, NotReassigned, NEW o \in Orders,
               order'[o].session = s, order'[o].state = "open"
        PROVE  FALSE
    <3>1. o \in Unpaid(s)
      BY <2>3, <2>4, <2>5 DEF Unpaid, OrdersOf
    <3> QED  BY <2>2, <2>3, <2>4, <2>5, <3>1
  <2>6. SteadyFloor /\ NotReassigned => Unpaid(s)' = {}
    BY <2>5 DEF Unpaid, OrdersOf
  <2>7. OrdersFollowSession' /\ Steady'
    BY <2>2, <2>3, <2>4, <2>6, CloseFloor
  <2> QED  BY <2>3, <2>7, <1>b
<1>4. CASE TransferWrite(r)
  <2>1. PICK s \in Sessions, t \in Tables, to \in Tables :
            s = q.session /\ t = q.table /\ to = q.to
    BY <1>0, <1>4 DEF TransferWrite, Sound
  <2>2. Sits(s, t) /\ (SteadyFloor => Empty(to))
    BY <1>0, <1>4, <2>1 DEF TransferWrite, Knows, KnowsSteady
  <2>3. /\ \A p \in Sessions : p # s => session'[p] = session[p]
        /\ session'[s].table = to /\ session'[s].status = session[s].status
        /\ table' = [table EXCEPT ![t] = "AVAILABLE", ![to] = "OCCUPIED"]
        /\ UNCHANGED calls
    BY <1>0, <1>4, <2>1 DEF TransferWrite, RowTypes, SessionRow
  <2>4. \A o \in Orders : /\ order'[o].session = order[o].session
                          /\ order'[o].state = order[o].state
                          /\ order'[o].table = IF order[o].session = s THEN to
                                               ELSE order[o].table
    BY <1>0, <1>4, <2>1 DEF TransferWrite, Moved, OrdersOf, RowTypes, OrderRow
  <2>5. OrdersFollowSession'
    BY <2>3, <2>4 DEF FloorInv, OrdersFollowSession, OrdersOf
  <2>6. ASSUME SteadyFloor PROVE (OneParty /\ NoBills /\ Settled)'
    <3>1. OneParty'
      BY <1>0, <2>2, <2>3, <2>6 DEF FloorInv, Steady, OneParty, Sits, Empty, RowTypes
    <3>2. NoBills'
      BY <2>3, <2>6 DEF FloorInv, Steady, NoBills
    <3>3. Settled'
      BY <2>3, <2>4, <2>6 DEF FloorInv, Steady, Settled, NotReassigned, Unpaid, OrdersOf
    <3> QED  BY <3>1, <3>2, <3>3
  <2>7. Steady'
    BY <2>3, <2>6 DEF Steady, SteadyFloor
  <2> QED  BY <1>4, <2>5, <2>7, <1>b DEF TransferWrite
<1>5. CASE OverviewWrite(r)
  <2>1. /\ \A p \in Sessions : session'[p].table = session[p].table
        /\ UNCHANGED <<order, calls>>
    BY <1>0, <1>5 DEF OverviewWrite, RowTypes, SessionRow
  <2>2. OrdersFollowSession'
    BY <2>1 DEF FloorInv, OrdersFollowSession, OrdersOf
  <2>3. ~SteadyFloor
    BY <1>0, <1>5 DEF OverviewWrite, KnowsSteady
  <2>4. Steady'
    BY <2>1, <2>3 DEF Steady, SteadyFloor
  <2> QED  BY <1>5, <2>2, <2>4, <1>b DEF OverviewWrite
<1>6. ASSUME NEW o \in Orders, PosOrderWrite(r, o) PROVE FloorInv'
  <2>1. q.session \in Sessions /\ q.table \in Tables /\ Sits(q.session, q.table)
    BY <1>0, <1>6 DEF PosOrderWrite, Sound, Knows
  <2>2. OrdersFollowSession' /\ Steady'
    BY <1>6, <2>1, OrderFloor DEF PosOrderWrite
  <2> QED  BY <1>6, <2>2, <1>b DEF PosOrderWrite
<1>7. CASE Register(r) \/ CartWrite(r) \/ PlaceDone(r)
  BY <1>7, <1>c DEF Register, CartWrite, PlaceDone
<1>8. CASE PlaceSession(r)
  <2>1. UNCHANGED <<floor, order, calls>> /\ (SteadyFloor => "place" \in calls)
    BY <1>0, <1>8 DEF PlaceSession, rows, KnowsSteady
  <2>2. ASSUME NEW s \in OpenAt(q.table),
               Go(r, [q EXCEPT !.at = "placeTokens", !.session = s])
        PROVE  Known(r)'
    <3>1. req'[r].at = "placeTokens" /\ req'[r].session = s /\ req'[r].table = q.table
      BY <1>0, <2>2 DEF Go, Request
    <3>2. SitsOpen(s, q.table)
      BY DEF OpenAt, ActiveAt, SitsOpen
    <3> QED  BY <2>1, <3>1, <3>2 DEF Known, Knows, KnowsSteady, SitsOpen, SteadyFloor, floor
  <2>3. ASSUME OpenAt(q.table) = {}, Go(r, [q EXCEPT !.at = "placeOpen"])  PROVE Known(r)'
    <3>1. req'[r].at = "placeOpen" /\ req'[r].table = q.table
      BY <1>0, <2>3 DEF Go, Request
    <3>2. \A s \in Sessions : ~SitsOpen(s, q.table)
      BY <2>3 DEF OpenAt, ActiveAt, SitsOpen, Active
    <3> QED  BY <2>1, <3>1, <3>2 DEF Known, Knows, KnowsSteady, SitsOpen, SteadyFloor, floor
  <2> QED  BY <1>8, <2>1, <2>2, <2>3, <1>c DEF PlaceSession
<1>9. ASSUME NEW s \in Sessions, PlaceOpen(r, s) PROVE FloorInv'
  <2>1. PICK t \in Tables : t = q.table
    BY <1>0, <1>9 DEF PlaceOpen, Sound
  <2>2. SteadyFloor => Empty(t) /\ "place" \in calls
    BY <1>0, <1>9, <2>1
       DEF PlaceOpen, Knows, KnowsSteady, FloorInv, Steady, NoBills, Empty, Sits, SitsOpen, Active
  <2>3. OrdersFollowSession' /\ Steady' /\ SitsOpen(s, t)'
    BY <1>9, <2>1, <2>2, SeatFloor DEF PlaceOpen
  <2>4. req'[r].at = "placeTokens" /\ req'[r].session = s /\ req'[r].table = t /\ UNCHANGED calls
    BY <1>0, <1>9, <2>1 DEF PlaceOpen, Go, Request
  <2>5. Known(r)'
    BY <2>2, <2>3, <2>4 DEF Known, Knows, KnowsSteady, SteadyFloor, SitsOpen
  <2> QED  BY <2>3, <2>5, <1>a
<1>10. ASSUME PlaceTokens(r) \/ \E g \in Guests : PlaceCollect(r, g) PROVE FloorInv'
  <2>1. /\ req'[r].at = "placeCollect" /\ req'[r].session = q.session
        /\ req'[r].table = q.table /\ UNCHANGED <<floor, order, calls>>
    <3>1. CASE PlaceTokens(r)
      BY <1>0, <3>1 DEF PlaceTokens, Go, Request, rows
    <3>2. ASSUME NEW g \in Guests, PlaceCollect(r, g)
          PROVE  /\ req'[r].at = "placeCollect" /\ req'[r].session = q.session
                 /\ req'[r].table = q.table /\ UNCHANGED <<floor, order, calls>>
      BY <1>0, <3>2 DEF PlaceCollect, Go, Request, rows
    <3> QED  BY <1>10, <3>1, <3>2
  <2>2. SitsOpen(q.session, q.table) /\ (SteadyFloor => "place" \in calls)
    BY <1>0, <1>10 DEF PlaceTokens, PlaceCollect, Knows, KnowsSteady
  <2>3. Known(r)'
    BY <2>1, <2>2 DEF Known, Knows, KnowsSteady, SteadyFloor, SitsOpen, floor
  <2> QED  BY <2>1, <2>3, <1>c
<1>11. ASSUME NEW o \in Orders, PlaceOrder(r, o) PROVE FloorInv'
  <2>1. q.session \in Sessions /\ q.table \in Tables /\ Sits(q.session, q.table)
    BY <1>0, <1>11 DEF PlaceOrder, Sound, Knows, Sits, SitsOpen, Active
  <2>2. OrdersFollowSession' /\ Steady'
    BY <1>11, <2>1, OrderFloor DEF PlaceOrder
  <2>3. req'[r].at = "placeClear"
    BY <1>0, <1>11 DEF PlaceOrder, Go, Request
  <2>4. Known(r)'
    BY <2>3 DEF Known, Knows, KnowsSteady
  <2> QED  BY <2>2, <2>4, <1>a
<1>12. ASSUME NEW g \in Guests, PlaceLink(r, g) \/ PlaceClear(r, g) PROVE FloorInv'
  <2>1. req'[r].at = "placeClear" /\ UNCHANGED <<floor, order, calls>>
    <3>1. CASE PlaceLink(r, g)
      BY <1>0, <3>1 DEF PlaceLink, Go, Request
    <3>2. CASE PlaceClear(r, g)
      BY <1>0, <3>2 DEF PlaceClear, Go, Request
    <3> QED  BY <1>12, <3>1, <3>2
  <2>2. Known(r)'
    BY <2>1 DEF Known, Knows, KnowsSteady
  <2> QED  BY <2>1, <2>2, <1>c
<1>13. ASSUME NEW s \in Sessions, NEW t \in Tables, CronClose(r, s, t) PROVE FloorInv'
  <2>1. /\ SitsOpen(s, t) /\ Sits(s, t)
        /\ \A p \in Sessions, u \in Tables : <<p, u>> \in q.batch => SitsOpen(p, u)
        /\ SteadyFloor /\ NotReassigned =>
              \A p \in Sessions, u \in Tables : <<p, u>> \in q.batch => OrdersOf(p) = {}
    BY <1>0, <1>13 DEF CronClose, Knows, KnowsSteady, SitsOpen, Sits, Active
  <2>2. /\ session' = [session EXCEPT ![s].status = "CLOSED"]
        /\ table' = [table EXCEPT ![t] = "AVAILABLE"]
        /\ UNCHANGED <<order, calls>> /\ <<s, t>> \in q.batch /\ q.at = "cronLoop"
    BY <1>13 DEF CronClose
  <2>3. SteadyFloor /\ NotReassigned => Unpaid(s)' = {}
    BY <2>1, <2>2 DEF Unpaid, OrdersOf
  <2>4. OrdersFollowSession' /\ Steady'
    BY <2>1, <2>2, <2>3, CloseFloor
  <2>5. CASE Finish(r)
    BY <2>4, <2>5, <1>b
  <2>6. CASE Go(r, [q EXCEPT !.batch = q.batch \ {<<s, t>>}])
    <3>1. req'[r].at = "cronLoop" /\ req'[r].batch = q.batch \ {<<s, t>>}
      BY <1>0, <2>2, <2>6 DEF Go, Request
    <3>2. \A p \in Sessions, u \in Tables :
              <<p, u>> \in req'[r].batch =>
                  /\ SitsOpen(p, u)'
                  /\ SteadyFloor /\ NotReassigned => OrdersOf(p)' = {}
      <4> SUFFICES ASSUME NEW p \in Sessions, NEW u \in Tables, <<p, u>> \in req'[r].batch
                   PROVE  /\ SitsOpen(p, u)'
                          /\ SteadyFloor /\ NotReassigned => OrdersOf(p)' = {}
        OBVIOUS
      <4>1. <<p, u>> \in q.batch /\ <<p, u>> # <<s, t>> /\ SitsOpen(p, u)
        BY <2>1, <3>1
      <4>2. p # s
        BY <2>1, <4>1 DEF SitsOpen
      <4>3. SitsOpen(p, u)'
        BY <1>0, <2>2, <4>1, <4>2 DEF SitsOpen, RowTypes
      <4>4. SteadyFloor /\ NotReassigned => OrdersOf(p)' = {}
        BY <2>1, <2>2, <4>1 DEF OrdersOf
      <4> QED  BY <4>3, <4>4
    <3>3. Known(r)'
      BY <2>2, <3>1, <3>2 DEF Known, Knows, KnowsSteady, SteadyFloor, NotReassigned
    <3> QED  BY <2>4, <3>3, <1>a
  <2> QED  BY <1>13, <2>5, <2>6 DEF CronClose
<1> QED
  BY <1>1, <1>2, <1>3, <1>4, <1>5, <1>6, <1>7, <1>8, <1>9, <1>10, <1>11, <1>12, <1>13
     DEF Proceed

\* What a handler knows survives an order being paid and other small changes.
LEMMA KnownStays ==
    ASSUME TypeInv, FloorInv, UNCHANGED <<req, calls>>,
           \A s \in Sessions : /\ session'[s].status = session[s].status
                               /\ session'[s].table = session[s].table,
           NotReassigned =>
              \A o \in Orders : /\ order'[o].session = order[o].session
                                /\ order'[o].state = "open" => order[o].state = "open"
    PROVE  \A r \in Requests : Known(r)'
<1> SUFFICES ASSUME NEW r \in Requests PROVE Known(r)'
  OBVIOUS
<1>1. PICK q \in Request : q = req[r] /\ q = req'[r]
  BY Facts
<1>2. Sound(q) /\ Knows(q) /\ (SteadyFloor => KnowsSteady(q))
  BY <1>1 DEF TypeInv, FloorInv, Known
<1> USE DEF AtTable, AtSession, Step, PlaceSteps
<1>3. \A s \in Sessions, t \in Tables : /\ Sits(s, t)' <=> Sits(s, t)
                                        /\ SitsOpen(s, t)' <=> SitsOpen(s, t)
  BY DEF Sits, SitsOpen
<1>4. Knows(req[r])'
  BY <1>1, <1>2, <1>3 DEF Knows, Sound, Empty
<1>5. NotReassigned => \A s : /\ Unpaid(s) = {} => Unpaid(s)' = {}
                              /\ OrdersOf(s) = {} => OrdersOf(s)' = {}
  BY DEF Unpaid, OrdersOf
<1>6. ASSUME SteadyFloor PROVE KnowsSteady(req[r])'
  <2>1. KnowsSteady(q) /\ UNCHANGED calls
    BY <1>2, <1>6
  <2>2. q.at = "billWrite" => session'[q.session].status = "OPEN"
    BY <1>2, <2>1 DEF Sound, KnowsSteady
  <2>3. q.at = "transferWrite" => Empty(q.to)'
    <3>1. q.at = "transferWrite" => \A s \in Sessions : ~Sits(s, q.to)'
      BY <1>2, <1>3, <2>1 DEF Sound, KnowsSteady, Empty
    <3> QED  BY <3>1 DEF Empty
  <2>4. NotReassigned /\ q.at = "closeWrite" /\ ~q.force => Unpaid(q.session)' = {}
    BY <1>5, <2>1 DEF KnowsSteady
  <2>5. NotReassigned /\ q.at = "cronLoop" =>
          \A s \in Sessions, t \in Tables : <<s, t>> \in q.batch => OrdersOf(s)' = {}
    BY <1>5, <2>1 DEF KnowsSteady
  <2> QED  BY <1>1, <2>1, <2>2, <2>3, <2>4, <2>5 DEF KnowsSteady, NotReassigned
<1> QED  BY <1>4, <1>6 DEF Known, SteadyFloor

LEMMA ImmediateFloor ==
    ASSUME TypeInv, FloorInv, Immediate
    PROVE  FloorInv'
<1>0. RowTypes /\ RowsKnown
  BY Facts
<1>1. ASSUME NEW t \in Tables, NEW new \in TableStatus, SetStatus(t, new) PROVE FloorInv'
  <2>1. /\ UNCHANGED <<session, order, calls, req>>
        /\ SteadyFloor => table[t] = "CLEANING"
        /\ table' = [table EXCEPT ![t] = new]
    BY <1>1 DEF SetStatus, SteadyFloor
  <2>2. \A r \in Requests : Known(r)'
    BY <2>1, KnownStays
  <2>3. OrdersFollowSession'
    BY <2>1 DEF FloorInv, OrdersFollowSession, OrdersOf
  <2>4. ASSUME SteadyFloor PROVE (OneParty /\ NoBills /\ Settled)'
    <3>1. OneParty'
      BY <1>0, <2>1, <2>4 DEF FloorInv, Steady, OneParty, Sits, RowTypes
    <3>2. (NoBills /\ Settled)'
      BY <2>1, <2>4 DEF FloorInv, Steady, NoBills, Settled, NotReassigned, Unpaid, OrdersOf
    <3> QED  BY <3>1, <3>2
  <2> QED  BY <2>1, <2>2, <2>3, <2>4 DEF FloorInv, Steady, SteadyFloor
<1>2. ASSUME NEW o \in Orders, NEW t \in Tables \cup {None}, NEW s \in Sessions \cup {None},
             AssignTable(o, t, s)
      PROVE  FloorInv'
  <2>1. UNCHANGED <<table, session, calls, req>> /\ ~NotReassigned
    BY <1>2 DEF AssignTable, NotReassigned, floor
  <2>2. \A r \in Requests : Known(r)'
    BY <2>1, KnownStays
  <2>3. OrdersFollowSession'
    BY <2>1 DEF OrdersFollowSession, NotReassigned
  <2>4. Steady'
    BY <2>1 DEF FloorInv, Steady, SteadyFloor, OneParty, NoBills, Settled, NotReassigned, Sits
  <2> QED  BY <2>2, <2>3, <2>4 DEF FloorInv
<1>3. ASSUME NEW o \in Orders, NEW how \in OrderState, OrderEnds(o, how) PROVE FloorInv'
  <2>1. /\ UNCHANGED <<table, session, calls, req>>
        /\ \A p \in Orders : /\ order'[p].session = order[p].session
                             /\ order'[p].table = order[p].table
                             /\ order'[p].state = "open" => order[p].state = "open"
    BY <1>0, <1>3 DEF OrderEnds, floor, RowTypes, OrderRow
  <2>2. \A r \in Requests : Known(r)'
    BY <2>1, KnownStays
  <2>3. OrdersFollowSession'
    BY <2>1 DEF FloorInv, OrdersFollowSession, OrdersOf
  <2>4. Steady'
    BY <2>1 DEF FloorInv, Steady, SteadyFloor, OneParty, NoBills, Settled, NotReassigned, Sits,
                Unpaid, OrdersOf
  <2> QED  BY <2>2, <2>3, <2>4 DEF FloorInv
<1>4. ASSUME (\E g \in Guests : CartExpires(g)) \/ (\E t \in Tables : TokensExpire(t))
      PROVE  FloorInv'
  <2>1. UNCHANGED <<floor, order, calls, req>>
    BY <1>4 DEF CartExpires, TokensExpire
  <2>2. \A r \in Requests : Known(r)'
    BY <2>1, KnownStays DEF floor
  <2> QED  BY <2>1, <2>2, RestKeeps
<1>5. ASSUME NEW s \in Sessions, SessionAges(s) PROVE FloorInv'
  <2>1. /\ UNCHANGED <<table, order, calls, req>>
        /\ \A p \in Sessions : /\ session'[p].status = session[p].status
                               /\ session'[p].table = session[p].table
    BY <1>0, <1>5 DEF SessionAges, RowTypes, SessionRow
  <2>2. \A r \in Requests : Known(r)'
    BY <2>1, KnownStays
  <2>3. OrdersFollowSession'
    BY <2>1 DEF FloorInv, OrdersFollowSession, OrdersOf
  <2>4. Steady'
    BY <2>1 DEF FloorInv, Steady, SteadyFloor, OneParty, NoBills, Settled, NotReassigned, Sits,
                Unpaid, OrdersOf
  <2> QED  BY <2>2, <2>3, <2>4 DEF FloorInv
<1> QED  BY <1>1, <1>2, <1>3, <1>4, <1>5 DEF Immediate

LEMMA FloorHolds == OneHandler => (Spec => []FloorInv)
<1> SUFFICES ASSUME OneHandler PROVE Spec => []FloorInv
  OBVIOUS
<1>1. Init => FloorInv
  BY NoneAssumption
     DEF Init, FloorInv, OrdersFollowSession, OrdersOf, Steady, OneParty, NoBills, Settled,
         Unpaid, Known, Knows, KnowsSteady, Sits, Active, PlaceSteps, NoSession, NoOrder,
         NoRequest, SessionStatus
<1>2. TypeInv /\ FloorInv /\ [Next]_vars => FloorInv'
  <2> SUFFICES ASSUME TypeInv, FloorInv, [Next]_vars PROVE FloorInv'
    OBVIOUS
  <2>1. ASSUME NEW r \in Requests, Fail(r) PROVE FloorInv'
    BY <2>1, FinishKnows, RestKeeps DEF Fail, rows
  <2>2. CASE UNCHANGED vars
    BY <2>2, KnownStays, RestKeeps DEF vars, floor
  <2> QED  BY <2>1, <2>2, ArriveFloor, ProceedFloor, ImmediateFloor DEF Next
<1> QED  BY <1>1, <1>2, TypesHold, PTL DEF Spec

\* As long as nobody sets table statuses by hand or bills a table that orders by
\* phone, a table never has two active sessions, and with one it is OCCUPIED: for
\* any number of tables and sessions, after any sequence of seatings, transfers,
\* QR orders, closings and runs of the cron job, wherever one of them fails.
THEOREM FloorPlanIsTrue == OneHandler => (Spec => []FloorAgrees)
<1> SUFFICES ASSUME OneHandler PROVE Spec => []FloorAgrees
  OBVIOUS
<1>1. FloorInv => FloorAgrees
  <2> SUFFICES ASSUME FloorInv, SteadyFloor, NEW t \in Tables
               PROVE  /\ Cardinality(ActiveAt(t)) <= 1
                      /\ ActiveAt(t) # {} => table[t] = "OCCUPIED"
    BY DEF FloorAgrees
  <2>1. \A s \in ActiveAt(t) : table[t] = "OCCUPIED" /\ ActiveAt(t) = {s}
    BY DEF FloorInv, Steady, OneParty, ActiveAt, Sits
  <2>2. \A s : Cardinality({s}) = 1
    BY FS_Singleton
  <2>3. Cardinality({}) = 0
    BY FS_EmptySet
  <2> QED  BY <2>1, <2>2, <2>3
<1> QED  BY <1>1, FloorHolds, PTL

\* Nor is a session closed over an order in progress, by staff or by the cron
\* job, as long as orders are not reassigned by hand.
THEOREM ClosedSessionsAreSettled == OneHandler => (Spec => []ClosedIsSettled)
<1>1. FloorInv => ClosedIsSettled
  BY DEF FloorInv, Steady, Settled, NotReassigned, ClosedIsSettled
<1> QED  BY <1>1, FloorHolds, PTL

\* Orders are served where their session sits, also on a floor where statuses are
\* set by hand and guests ask for bills by phone.
THEOREM OrdersMoveAlong == OneHandler => (Spec => []OrdersFollowSession)
<1>1. FloorInv => OrdersFollowSession
  BY DEF FloorInv
<1> QED  BY <1>1, FloorHolds, PTL

-----------------------------------------------------------------------------
(* The floor implements Seating                                            *)

SeatOf == [s \in Sessions |-> IF session[s].status \in Active THEN session[s].table ELSE None]

Gone == {s \in Sessions : session[s].status = "CLOSED"}

Seats == INSTANCE Seating WITH Parties <- Sessions, seat <- SeatOf, left <- Gone

SeatStep == [Seats!Next]_(Seats!seating)

\* Every behaviour is one on a steady floor.
SteadyMixes ==
    \A m \in Mixes : /\ m \cap {"setStatus", "guestBill"} = {}
                     /\ ~({"staffBill", "place"} \subseteq m)

\* Sessions that stay at their tables, active or not, take no step of the floor.
LEMMA NobodyMoves ==
    ASSUME \A s \in Sessions : /\ session'[s].table = session[s].table
                               /\ session'[s].status \in Active <=> session[s].status \in Active
                               /\ session'[s].status = "CLOSED" <=> session[s].status = "CLOSED"
    PROVE  SeatStep
<1>1. SeatOf' = SeatOf /\ Gone' = Gone  BY DEF SeatOf, Gone
<1> QED  BY <1>1 DEF SeatStep, Seats!seating

\* The bill is asked for: the party stays.
LEMMA BillSits ==
    ASSUME TypeInv, NEW s \in Sessions, session[s].status = "OPEN",
           session' = [session EXCEPT ![s].status = "BILL_REQUESTED"]
    PROVE  SeatStep
<1>1. /\ session'[s].status = "BILL_REQUESTED" /\ session'[s].table = session[s].table
      /\ \A p \in Sessions : p # s => session'[p] = session[p]
  BY Facts DEF RowTypes, SessionRow
<1>2. ASSUME NEW p \in Sessions
      PROVE  /\ session'[p].table = session[p].table
             /\ session'[p].status \in Active <=> session[p].status \in Active
             /\ session'[p].status = "CLOSED" <=> session[p].status = "CLOSED"
  <2>1. CASE p = s
    <3>1. /\ session'[p].status \in Active /\ session[p].status \in Active
          /\ session'[p].status # "CLOSED" /\ session[p].status # "CLOSED"
      BY <1>1, <2>1 DEF Active
    <3> QED  BY <1>1, <2>1, <3>1
  <2>2. CASE p # s
    <3>1. session'[p] = session[p]  BY <1>1, <2>2
    <3> QED  BY ONLY <3>1
  <2> QED  BY <2>1, <2>2
<1> QED  BY <1>2, NobodyMoves

LEMMA OneSeat ==
    ASSUME NEW s \in Sessions, \A p \in Sessions : p # s => session'[p] = session[p],
           NEW t, t = IF session'[s].status \in Active THEN session'[s].table ELSE None
    PROVE  SeatOf' = [SeatOf EXCEPT ![s] = t]
BY DEF SeatOf

\* A session is opened at an empty table: a party sits down.
LEMMA SeatSits ==
    ASSUME TypeInv, NEW s \in Sessions, NEW t \in Tables, SeatAt(s, t), Empty(t)
    PROVE  SeatStep
<1>1. session[s].status = None /\ None \notin SessionStatus /\ t # None
  BY NoneAssumption DEF SeatAt
<1>2. /\ session'[s].status = "OPEN" /\ session'[s].table = t
      /\ \A p \in Sessions : p # s => session'[p] = session[p]
  BY Facts DEF SeatAt, RowTypes
<1>3. SeatOf[s] = None /\ s \notin Gone
  BY <1>1 DEF SeatOf, Gone, Active, SessionStatus
<1>4. \A p \in Sessions : SeatOf[p] # t  BY <1>1 DEF SeatOf, Empty, Sits
<1>5. SeatOf' = [SeatOf EXCEPT ![s] = t]  BY <1>2 DEF SeatOf, Active
<1>6. Gone' = Gone  BY <1>1, <1>2 DEF Gone, SessionStatus
<1>7. Seats!Sit(s, t)  BY <1>3, <1>4, <1>5, <1>6 DEF Seats!Sit, Seats!Empty
<1> QED  BY <1>7 DEF SeatStep, Seats!Next

\* An active session is closed: a party leaves.
LEMMA CloseLeaves ==
    ASSUME TypeInv, NEW s \in Sessions, NEW t \in Tables, Sits(s, t),
           session' = [session EXCEPT ![s].status = "CLOSED"]
    PROVE  SeatStep
<1>1. /\ session'[s].status = "CLOSED"
      /\ \A p \in Sessions : p # s => session'[p] = session[p]
  BY Facts DEF RowTypes, SessionRow
<1>2. SeatOf[s] = t /\ t # None  BY NoneAssumption DEF SeatOf, Sits
<1>3. SeatOf' = [SeatOf EXCEPT ![s] = None]  BY <1>1, OneSeat DEF Active
<1>4. Gone' = Gone \cup {s}  BY <1>1 DEF Gone
<1>5. Seats!Leave(s)  BY <1>2, <1>3, <1>4 DEF Seats!Leave
<1> QED  BY <1>5 DEF SeatStep, Seats!Next

\* A transfer to an empty table: a party moves.
LEMMA TransferMoves ==
    ASSUME TypeInv, NEW s \in Sessions, NEW t \in Tables, NEW to \in Tables,
           Sits(s, t), Empty(to), session' = [session EXCEPT ![s].table = to]
    PROVE  SeatStep
<1>1. /\ session'[s].status = session[s].status /\ session'[s].table = to
      /\ \A p \in Sessions : p # s => session'[p] = session[p]
  BY Facts DEF RowTypes, SessionRow
<1>2. SeatOf[s] = t /\ t # None /\ to # None  BY NoneAssumption DEF SeatOf, Sits
<1>3. \A p \in Sessions : SeatOf[p] # to  BY <1>2 DEF SeatOf, Empty, Sits
<1>4. SeatOf' = [SeatOf EXCEPT ![s] = to]  BY <1>1, OneSeat DEF Sits
<1>5. Gone' = Gone  BY <1>1 DEF Gone
<1>6. Seats!Move(s, to)  BY <1>2, <1>3, <1>4, <1>5 DEF Seats!Move, Seats!Empty
<1> QED  BY <1>6 DEF SeatStep, Seats!Next

LEMMA FloorSeats ==
    ASSUME TypeInv, FloorInv, SteadyFloor, [Next]_vars
    PROVE  SeatStep
<1>0. RowTypes /\ RowsKnown  BY Facts
<1>1. ASSUME UNCHANGED session PROVE SeatStep  BY <1>1, NobodyMoves
<1>2. CASE Immediate
  <2>1. ASSUME NEW s \in Sessions, SessionAges(s) PROVE SeatStep
    <3>1. \A p \in Sessions : /\ session'[p].status = session[p].status
                              /\ session'[p].table = session[p].table
      BY <1>0, <2>1 DEF SessionAges, RowTypes, SessionRow
    <3> QED  BY <3>1, NobodyMoves
  <2>2. CASE \/ \E t \in Tables, new \in TableStatus : SetStatus(t, new)
             \/ \E o \in Orders, t \in Tables \cup {None}, s \in Sessions \cup {None} :
                    AssignTable(o, t, s)
             \/ \E o \in Orders, how \in OrderState : OrderEnds(o, how)
             \/ \E g \in Guests : CartExpires(g)
             \/ \E t \in Tables : TokensExpire(t)
    BY <1>1, <2>2 DEF SetStatus, AssignTable, OrderEnds, CartExpires, TokensExpire, floor
  <2> QED  BY <1>2, <2>1, <2>2 DEF Immediate
<1>3. ASSUME NEW r \in Requests, Arrive(r) \/ Fail(r) PROVE SeatStep
  <2>1. UNCHANGED session
    BY <1>3 DEF Arrive, Fail, OpenRead, StaffBillRead, CloseRead, TransferRead, OverviewRead,
                PosOrderRead, InitCart, CartRead, PlaceRead, GuestBillRead, CronRead,
                rows, floor
  <2> QED  BY <1>1, <2>1
<1>4. ASSUME NEW r \in Requests, Proceed(r) PROVE SeatStep
  <2> DEFINE q == req[r]
  <2>0. Sound(q) /\ Knows(q) /\ KnowsSteady(q)  BY DEF TypeInv, FloorInv, Known
  <2> USE DEF AtTable, AtSession, AtGuest, Step, PlaceSteps
  <2>1. ASSUME NEW s \in Sessions, OpenWrite(r, s) PROVE SeatStep
    <3>1. q.table \in Tables /\ Empty(q.table)
      BY <2>0, <2>1 DEF OpenWrite, Sound, Knows
    <3> QED  BY <2>1, <3>1, SeatSits DEF OpenWrite
  <2>2. CASE BillWrite(r)
    <3>1. PICK s \in Sessions : s = q.session /\ session[s].status = "OPEN"
      BY <2>0, <2>2 DEF BillWrite, Sound, KnowsSteady
    <3>2. session' = [session EXCEPT ![s].status = "BILL_REQUESTED"]
      BY <2>2, <3>1 DEF BillWrite
    <3> QED  BY <3>1, <3>2, BillSits
  <2>3. CASE CloseWrite(r)
    <3>1. PICK s \in Sessions, t \in Tables : s = q.session /\ Sits(s, t)
      BY <2>0, <2>3 DEF CloseWrite, Sound, Knows
    <3> QED  BY <2>3, <3>1, CloseLeaves DEF CloseWrite
  <2>4. CASE TransferWrite(r)
    <3>1. PICK s \in Sessions, t \in Tables, to \in Tables :
             s = q.session /\ to = q.to /\ Sits(s, t) /\ Empty(to)
      BY <2>0, <2>4 DEF TransferWrite, Sound, Knows, KnowsSteady
    <3> QED  BY <2>4, <3>1, TransferMoves DEF TransferWrite
  <2>5. ~OverviewWrite(r)  BY <2>0 DEF OverviewWrite, KnowsSteady
  <2>6. ASSUME NEW s \in Sessions, PlaceOpen(r, s) PROVE SeatStep
    <3>1. PICK t \in Tables : t = q.table  BY <2>0, <2>6 DEF PlaceOpen, Sound
    <3>2. Empty(t)
      BY <2>0, <2>6, <3>1
         DEF PlaceOpen, Knows, KnowsSteady, FloorInv, Steady, NoBills, Empty, Sits, SitsOpen,
             Active
    <3> QED  BY <2>6, <3>1, <3>2, SeatSits DEF PlaceOpen
  <2>7. ASSUME NEW s \in Sessions, NEW t \in Tables, CronClose(r, s, t) PROVE SeatStep
    <3>1. Sits(s, t)  BY <2>0, <2>7 DEF CronClose, Knows, SitsOpen, Sits, Active
    <3> QED  BY <2>7, <3>1, CloseLeaves DEF CronClose
  <2>8. CASE \/ \E o \in Orders : PosOrderWrite(r, o)
             \/ Register(r) \/ CartWrite(r) \/ PlaceSession(r) \/ PlaceTokens(r)
             \/ \E g \in Guests : PlaceCollect(r, g)
             \/ \E o \in Orders : PlaceOrder(r, o)
             \/ \E g \in Guests : PlaceLink(r, g)
             \/ \E g \in Guests : PlaceClear(r, g)
             \/ PlaceDone(r)
    <3>1. UNCHANGED session
      BY <2>8 DEF PosOrderWrite, Register, CartWrite, PlaceSession, PlaceTokens, PlaceCollect,
                  PlaceOrder, PlaceLink, PlaceClear, PlaceDone, rows, floor
    <3> QED  BY <1>1, <3>1
  <2> QED  BY <1>4, <2>1, <2>2, <2>3, <2>4, <2>5, <2>6, <2>7, <2>8 DEF Proceed
<1>5. CASE UNCHANGED vars  BY <1>1, <1>5 DEF vars
<1> QED  BY <1>2, <1>3, <1>4, <1>5 DEF Next

\* The sessions of a floor used as the POS is drawn keep what Seating promises:
\* openSession, QR orders and transfers seat nobody where somebody sits, and no
\* handler, the cron job included, reopens or moves a session that was closed.
THEOREM SeatingIsKept == OneHandler /\ SteadyMixes => (Spec => Seats!Spec)
<1> SUFFICES ASSUME OneHandler, SteadyMixes PROVE Spec => Seats!Spec
  OBVIOUS
<1>1. Init => Seats!Init
  <2> SUFFICES ASSUME Init PROVE Seats!Init  OBVIOUS
  <2>1. \A s \in Sessions : session[s].status = None  BY DEF Init, NoSession
  <2>2. SeatOf = [s \in Sessions |-> None]
    BY <2>1, NoneAssumption DEF SeatOf, Active, SessionStatus
  <2>3. Gone = {}  BY <2>1, NoneAssumption DEF Gone, SessionStatus
  <2> QED  BY <2>2, <2>3 DEF Seats!Init
<1>2. TypeInv => SteadyFloor
  BY DEF TypeInv, TypeOK, SteadyMixes, SteadyFloor
<1>3. TypeInv /\ FloorInv /\ [Next]_vars => [Seats!Next]_(Seats!seating)
  BY <1>2, FloorSeats DEF SeatStep
<1>4. Spec => []FloorInv  BY FloorHolds
<1> QED  BY <1>1, <1>3, <1>4, TypesHold, PTL DEF Spec, Seats!Spec

-----------------------------------------------------------------------------
(* Cart lines, one handler at a time: a line is in hand between the read   *)
(* and the save of a cart, and in a cart and an order only while the       *)
(* placement that clears the cart is under way                             *)

NoFailure == "fail" \notin calls

InCart(l) == \E g \in Guests : l \in cart[g].lines

Ordered(l) == \E o \in Orders : l \in order[o].lines

\* The handler carries no lines.
Plain(q) == q.at \notin PlaceSteps \cup {"cartWrite", "placeClear"}

\* What was wanted is in the cart of another guest, ordered, or about to be saved.
Editing(q) ==
    \A l \in Lines :
        /\ l \in wanted <=> \/ \E g \in Guests \ {q.guest} : l \in cart[g].lines
                            \/ Ordered(l) \/ l \in q.lines
        /\ l \in q.lines => ~Ordered(l) /\ \A g \in Guests \ {q.guest} : l \notin cart[g].lines

\* The lines to order are those of the merged guests, or were.
Merging(q) ==
    \A l \in Lines :
        /\ l \in wanted <=> InCart(l) \/ Ordered(l) \/ l \in q.lines
        /\ l \in q.lines => ~Ordered(l)
        /\ \A g \in Guests : l \in cart[g].lines => (l \in q.lines <=> g \in q.merged)

\* The carts still to be cleared hold what the new order holds.
Clearing(q) ==
    /\ order[q.order].lines = q.lines
    /\ \A g, h \in q.guests : g = h
    /\ \A l \in Lines, g \in Guests :
          l \in cart[g].lines => IF g \in q.merged \cup q.guests THEN l \in q.lines
                                 ELSE ~Ordered(l)

InStep(q) ==
    /\ Plain(q) => q.lines = {}
    /\ q.at \notin PlaceSteps \cup {"cartWrite"} =>
          \A l \in Lines : l \in wanted <=> InCart(l) \/ Ordered(l)
    /\ q.at # "placeClear" => \A l \in Lines : ~(InCart(l) /\ Ordered(l))
    /\ q.at = "cartWrite" => Editing(q)
    /\ q.at \in PlaceSteps => Merging(q)
    /\ q.at = "placeClear" => Clearing(q)

Apart ==
    /\ \A l \in Lines, g, h \in Guests : l \in cart[g].lines /\ l \in cart[h].lines => g = h
    /\ \A l \in Lines, o, p \in Orders : l \in order[o].lines /\ l \in order[p].lines => o = p

Blank ==
    /\ \A g \in Guests : cart[g].state # "live" => cart[g].lines = {}
    /\ \A o \in Orders : order[o].state = None => order[o].lines = {}

LinesInv == Blank /\ (NoFailure => Apart /\ \A r \in Requests : InStep(req[r]))

SameLines ==
    /\ UNCHANGED <<wanted, calls>>
    /\ \A g \in Guests : cart'[g].lines = cart[g].lines
    /\ \A o \in Orders : order'[o].lines = order[o].lines

\* A handler that carries no lines leaves them where they are.
LEMMA PlainKeeps ==
    ASSUME TypeInv, LinesInv, OneHandler, NEW r \in Requests, SameLines, Blank',
           Plain(req[r]), Plain(req[r])', req'[r].lines = {}
    PROVE  LinesInv'
<1>1. \A l \in Lines : (InCart(l)' <=> InCart(l)) /\ (Ordered(l)' <=> Ordered(l))
  BY DEF SameLines, InCart, Ordered
<1>2. Apart => Apart'
  BY DEF SameLines, Apart
<1>3. InStep(req[r]) => InStep(req[r])'
  BY <1>1 DEF InStep, Plain, SameLines
<1> QED  BY <1>2, <1>3 DEF LinesInv, NoFailure, OneHandler, SameLines

\* A call that finds no handler's lines to touch.
LEMMA QuietLines ==
    ASSUME TypeInv, LinesInv, SameLines, Blank', UNCHANGED req
    PROVE  LinesInv'
<1>1. \A l \in Lines : (InCart(l)' <=> InCart(l)) /\ (Ordered(l)' <=> Ordered(l))
  BY DEF SameLines, InCart, Ordered
<1>2. Apart => Apart'
  BY DEF SameLines, Apart
<1>3. ASSUME NEW r \in Requests, InStep(req[r]) PROVE InStep(req[r])'
  <2>1. PICK q \in Request : q = req[r] /\ q = req'[r] /\ InStep(q) /\ Sound(q)
    BY <1>3, Facts DEF TypeInv
  <2>2. q.at = "placeClear" => order'[q.order].lines = order[q.order].lines
    BY <2>1 DEF Sound, SameLines
  <2>3. Editing(q) => Editing(q)'
    BY <1>1 DEF Editing, SameLines
  <2>4. Merging(q) => Merging(q)'
    BY <1>1 DEF Merging, SameLines
  <2>5. q.at = "placeClear" /\ Clearing(q) => Clearing(q)'
    BY <1>1, <2>2 DEF Clearing, SameLines
  <2> QED  BY <1>1, <2>1, <2>3, <2>4, <2>5 DEF InStep, Plain, SameLines, Editing, Merging, Clearing
<1> QED  BY <1>2, <1>3 DEF LinesInv, NoFailure, SameLines

LEMMA ArriveLines ==
    ASSUME TypeInv, LinesInv, OneHandler, NEW r \in Requests, Arrive(r)
    PROVE  LinesInv'
<1>0. RowTypes /\ req \in [Requests -> Request] /\ Idle(r)
  BY Facts DEF Arrive, OpenRead, StaffBillRead, CloseRead, TransferRead, OverviewRead,
     PosOrderRead, InitCart, CartRead, PlaceRead, GuestBillRead, CronRead
<1>a. Plain(req[r]) /\ req[r].at = "idle"
  BY <1>0 DEF Idle, Plain, PlaceSteps
<1>b. ASSUME UNCHANGED rows, Plain(req[r])', req'[r].lines = {} PROVE LinesInv'
  <2>1. SameLines /\ Blank'
    BY <1>b DEF SameLines, LinesInv, Blank, rows, phones
  <2> QED  BY <1>a, <1>b, <2>1, PlainKeeps
<1> USE DEF Go, NoRequest
<1>1. ASSUME \/ \E t \in Tables : OpenRead(r, t)
             \/ \E t \in Tables : StaffBillRead(r, t)
             \/ \E s \in Sessions, force \in BOOLEAN : CloseRead(r, s, force)
      PROVE  LinesInv'
  <2>1. UNCHANGED rows
    BY <1>1 DEF OpenRead, StaffBillRead, CloseRead
  <2>2. Plain(req[r])' /\ req'[r].lines = {}
    <3>1. CASE \E t \in Tables : OpenRead(r, t)
      BY <1>0, <3>1 DEF OpenRead, Plain, PlaceSteps
    <3>2. CASE \E t \in Tables : StaffBillRead(r, t)
      BY <1>0, <3>2 DEF StaffBillRead, Plain, PlaceSteps
    <3>3. CASE \E s \in Sessions, force \in BOOLEAN : CloseRead(r, s, force)
      BY <1>0, <3>3 DEF CloseRead, Plain, PlaceSteps
    <3> QED  BY <1>1, <3>1, <3>2, <3>3
  <2> QED  BY <2>1, <2>2, <1>b
<1>2. ASSUME \/ \E s \in Sessions, to \in Tables : TransferRead(r, s, to)
             \/ \E S \in SUBSET Sessions : OverviewRead(r, S)
             \/ \E s \in Sessions : PosOrderRead(r, s)
      PROVE  LinesInv'
  <2>1. UNCHANGED rows
    BY <1>2 DEF TransferRead, OverviewRead, PosOrderRead
  <2>2. Plain(req[r])' /\ req'[r].lines = {}
    <3>1. CASE \E s \in Sessions, to \in Tables : TransferRead(r, s, to)
      BY <1>0, <3>1 DEF TransferRead, Plain, PlaceSteps
    <3>2. ASSUME NEW S \in SUBSET Sessions, OverviewRead(r, S)
          PROVE  Plain(req[r])' /\ req'[r].lines = {}
      BY <1>0, <3>2 DEF OverviewRead, Plain, PlaceSteps
    <3>3. CASE \E s \in Sessions : PosOrderRead(r, s)
      BY <1>0, <3>3 DEF PosOrderRead, Plain, PlaceSteps
    <3> QED  BY <1>2, <3>1, <3>2, <3>3
  <2> QED  BY <2>1, <2>2, <1>b
<1>3. ASSUME (\E g \in Guests : GuestBillRead(r, g)) \/ CronRead(r) PROVE LinesInv'
  <2>1. UNCHANGED rows
    BY <1>3 DEF GuestBillRead, CronRead
  <2>2. Plain(req[r])' /\ req'[r].lines = {}
    <3>1. CASE \E g \in Guests : GuestBillRead(r, g)
      BY <1>0, <3>1 DEF GuestBillRead, Plain, PlaceSteps
    <3>2. CASE CronRead(r)
      BY <1>0, <3>2 DEF CronRead, Plain, PlaceSteps
    <3> QED  BY <1>3, <3>1, <3>2
  <2> QED  BY <2>1, <2>2, <1>b
<1>4. ASSUME NEW g \in Guests, NEW t \in Tables, InitCart(r, g, t) PROVE LinesInv'
  <2>1. cart[g].lines = {}
    BY <1>4 DEF InitCart, LinesInv, Blank
  <2>2. SameLines
    BY <1>0, <1>4, <2>1 DEF InitCart, SameLines, RowTypes
  <2>3. Blank'
    BY <1>0, <1>4 DEF InitCart, LinesInv, Blank, RowTypes
  <2>4. Plain(req[r])' /\ req'[r].lines = {}
    BY <1>0, <1>4 DEF InitCart, Plain, PlaceSteps
  <2> QED  BY <1>a, <2>2, <2>3, <2>4, PlainKeeps
<1>5. ASSUME NEW g \in Guests, NEW lines \in SUBSET Lines, CartRead(r, g, lines)
      PROVE  LinesInv'
  <2>1. /\ req'[r].at = "cartWrite" /\ req'[r].guest = g /\ req'[r].lines = lines
        /\ wanted' = (wanted \ cart[g].lines) \cup lines
        /\ UNCHANGED <<cart, order, calls>>
    BY <1>0, <1>5 DEF CartRead
  <2>2. \A l \in lines : \/ l \in cart[g].lines
                         \/ l \notin Used
    BY <1>5 DEF CartRead
  <2>3. \A l \in Lines : l \notin Used => ~InCart(l) /\ ~Ordered(l)
    BY DEF Used, InCart, Ordered
  <2>4. Blank'
    BY <2>1 DEF LinesInv, Blank
  <2>5. ASSUME NoFailure PROVE Apart' /\ InStep(req[r])'
    <3>1. Apart /\ InStep(req[r])
      BY <2>5 DEF LinesInv
    <3>2. /\ \A l \in Lines : l \in wanted <=> InCart(l) \/ Ordered(l)
          /\ \A l \in Lines : ~(InCart(l) /\ Ordered(l))
      BY <3>1, <1>a DEF InStep, PlaceSteps
    <3>3. Editing(req[r])'
      <4> SUFFICES ASSUME NEW l \in Lines
                   PROVE  /\ l \in wanted' <=> \/ \E h \in Guests \ {g} : l \in cart[h].lines
                                               \/ Ordered(l) \/ l \in lines
                          /\ l \in lines => /\ ~Ordered(l)
                                            /\ \A h \in Guests \ {g} : l \notin cart[h].lines
        BY <2>1 DEF Editing, Ordered
      <4>1. \A h \in Guests : l \in cart[g].lines /\ l \in cart[h].lines => g = h
        BY <3>1 DEF Apart
      <4>2. l \in lines => /\ ~Ordered(l)
                           /\ \A h \in Guests \ {g} : l \notin cart[h].lines
        BY <2>2, <2>3, <3>2, <4>1 DEF InCart
      <4>3. l \in wanted /\ l \notin cart[g].lines <=>
                \/ \E h \in Guests \ {g} : l \in cart[h].lines
                \/ Ordered(l)
        BY <3>2, <4>1 DEF InCart
      <4> QED  BY <2>1, <4>2, <4>3
    <3>4. \A l \in Lines : ~(InCart(l)' /\ Ordered(l)')
      BY <2>1, <3>2 DEF InCart, Ordered
    <3> QED  BY <2>1, <3>1, <3>3, <3>4 DEF InStep, Plain, PlaceSteps, Apart
  <2> QED  BY <2>1, <2>4, <2>5 DEF LinesInv, NoFailure, OneHandler
<1>6. ASSUME NEW g \in Guests, PlaceRead(r, g) PROVE LinesInv'
  <2>1. /\ req'[r].at = "placeSession" /\ req'[r].merged = {g}
        /\ req'[r].lines = cart[g].lines
        /\ UNCHANGED <<cart, order, wanted, calls>>
    BY <1>0, <1>6 DEF PlaceRead, rows, phones
  <2>2. Blank'
    BY <2>1 DEF LinesInv, Blank
  <2>3. ASSUME NoFailure PROVE Apart' /\ InStep(req[r])'
    <3>1. Apart /\ InStep(req[r])
      BY <2>3 DEF LinesInv
    <3>2. /\ \A l \in Lines : l \in wanted <=> InCart(l) \/ Ordered(l)
          /\ \A l \in Lines : ~(InCart(l) /\ Ordered(l))
      BY <3>1, <1>a DEF InStep, PlaceSteps
    <3>3. Merging(req[r])'
      BY <2>1, <3>1, <3>2 DEF Merging, InCart, Ordered, Apart
    <3>4. \A l \in Lines : ~(InCart(l)' /\ Ordered(l)')
      BY <2>1, <3>2 DEF InCart, Ordered
    <3> QED  BY <2>1, <3>1, <3>3, <3>4 DEF InStep, Plain, PlaceSteps, Apart
  <2> QED  BY <2>1, <2>2, <2>3 DEF LinesInv, NoFailure, OneHandler
<1> QED  BY <1>1, <1>2, <1>3, <1>4, <1>5, <1>6 DEF Arrive

\* A new order takes a free row, which has no lines.
LEMMA OrderLines ==
    ASSUME TypeInv, LinesInv, NEW o \in Orders, NEW t \in Tables, NEW s \in Sessions,
           NEW lines \in SUBSET Lines, NewOrder(o, t, s, lines), UNCHANGED cart
    PROVE  /\ order[o].lines = {} /\ order'[o].lines = lines
           /\ \A p \in Orders : p # o => order'[p] = order[p]
           /\ \A l \in Lines : Ordered(l)' <=> Ordered(l) \/ l \in lines
           /\ Blank'
<1>0. RowTypes
  BY Facts
<1>1. /\ order[o].lines = {} /\ order'[o].lines = lines /\ order'[o].state = "open"
      /\ \A p \in Orders : p # o => order'[p] = order[p]
  BY <1>0 DEF NewOrder, LinesInv, Blank, RowTypes
<1>2. Blank'
  BY <1>1, NoneAssumption DEF LinesInv, Blank, OrderState
<1> QED  BY <1>1, <1>2 DEF Ordered

\* A handler without lines that ends, with rows whose lines stay.
LEMMA FinishLines ==
    ASSUME TypeInv, LinesInv, OneHandler, NEW r \in Requests, Plain(req[r]), Finish(r),
           SameLines, Blank'
    PROVE  LinesInv'
<1>1. req'[r].at = "idle" /\ req'[r].lines = {}
  BY DEF Finish, TypeInv, TypeOK, NoRequest
<1>2. Plain(req[r])'
  BY <1>1 DEF Plain, PlaceSteps
<1> QED  BY <1>1, <1>2, PlainKeeps

LEMMA ProceedLines ==
    ASSUME TypeInv, LinesInv, OneHandler, NEW r \in Requests, Proceed(r)
    PROVE  LinesInv'
<1> DEFINE q == req[r]
<1>0. RowTypes /\ req \in [Requests -> Request] /\ q \in Request /\ Sound(q)
  BY Facts DEF TypeInv
<1>a. \A o \in Orders : order[o] \in OrderRow
  BY <1>0 DEF RowTypes
<1>b. ASSUME Blank', UNCHANGED calls, NoFailure => Apart' /\ InStep(req[r])' PROVE LinesInv'
  BY <1>b DEF LinesInv, NoFailure, OneHandler
<1>c. NoFailure => Apart /\ InStep(q)
  BY DEF LinesInv
<1> USE DEF PlaceSteps
<1>1. ASSUME \/ \E s \in Sessions : OpenWrite(r, s)
             \/ BillWrite(r) \/ OverviewWrite(r) \/ Register(r)
      PROVE  LinesInv'
  <2>1. /\ q.at \in {"openWrite", "billWrite", "overviewWrite", "register"} /\ Finish(r)
        /\ UNCHANGED <<order, cart, wanted, calls>>
    BY <1>1 DEF OpenWrite, BillWrite, OverviewWrite, Register, phones
  <2>2. Plain(q) /\ SameLines /\ Blank'
    BY <2>1 DEF Plain, SameLines, LinesInv, Blank
  <2> QED  BY <2>1, <2>2, FinishLines
<1>2. CASE CloseWrite(r)
  <2> DEFINE F(o) == IF q.force /\ o \in Unpaid(q.session)
                     THEN [order[o] EXCEPT !.state = "cancelled"] ELSE order[o]
  <2>1. /\ q.at = "closeWrite" /\ Finish(r) /\ UNCHANGED <<cart, wanted, calls>>
        /\ \A o \in Orders : order'[o] = F(o)
    BY <1>2 DEF CloseWrite, phones
  <2>2. \A o \in Orders : F(o).lines = order[o].lines /\ (F(o).state = None => order[o].state = None)
    BY <1>a, NoneAssumption DEF OrderRow, OrderState
  <2> HIDE DEF F
  <2>3. Plain(q) /\ SameLines /\ Blank'
    BY <2>1, <2>2 DEF Plain, SameLines, LinesInv, Blank
  <2> QED  BY <2>1, <2>3, FinishLines
<1>3. CASE TransferWrite(r)
  <2>1. /\ q.at = "transferWrite" /\ Finish(r) /\ UNCHANGED <<cart, wanted, calls>>
        /\ order' = Moved(q.session, q.to)
    BY <1>3 DEF TransferWrite, phones
  <2>2. \A o \in Orders : /\ order'[o].lines = order[o].lines
                          /\ order'[o].state = order[o].state
    BY <1>a, <2>1 DEF Moved, OrderRow
  <2>3. Plain(q) /\ SameLines /\ Blank'
    BY <2>1, <2>2 DEF Plain, SameLines, LinesInv, Blank
  <2> QED  BY <2>1, <2>3, FinishLines
<1>4. ASSUME NEW o \in Orders, PosOrderWrite(r, o) PROVE LinesInv'
  <2>1. /\ q.at = "posWrite" /\ Finish(r) /\ UNCHANGED <<cart, wanted, calls>>
        /\ q.session \in Sessions /\ q.table \in Tables
        /\ NewOrder(o, q.table, q.session, {})
    BY <1>0, <1>4 DEF PosOrderWrite, phones, Sound, AtTable, AtSession, Step
  <2>2. /\ order[o].lines = {} /\ order'[o].lines = {}
        /\ \A p \in Orders : p # o => order'[p] = order[p]
        /\ Blank'
    BY <2>1, OrderLines
  <2>3. Plain(q) /\ SameLines
    BY <2>1, <2>2 DEF Plain, SameLines
  <2> QED  BY <2>1, <2>2, <2>3, FinishLines
<1>5. CASE CartWrite(r)
  <2>1. PICK g \in Guests : g = q.guest
    BY <1>0, <1>5 DEF CartWrite, Sound, AtGuest
  <2>2. /\ q.at = "cartWrite" /\ UNCHANGED <<order, wanted, calls>>
        /\ cart'[g].lines = q.lines /\ cart'[g].state = "live"
        /\ \A h \in Guests : h # g => cart'[h] = cart[h]
        /\ req'[r].at = "idle" /\ req'[r].lines = {}
    BY <1>0, <1>5, <2>1 DEF CartWrite, Finish, NoRequest, RowTypes
  <2>3. Blank'
    BY <2>2 DEF LinesInv, Blank
  <2>4. ASSUME NoFailure PROVE Apart' /\ InStep(req[r])'
    <3>1. Apart /\ Editing(q) /\ \A l \in Lines : ~(InCart(l) /\ Ordered(l))
      BY <1>c, <2>2, <2>4 DEF InStep
    <3>2. Apart'
      BY <2>1, <2>2, <3>1 DEF Apart, Editing
    <3>3. \A l \in Lines : /\ l \in wanted' <=> InCart(l)' \/ Ordered(l)'
                           /\ ~(InCart(l)' /\ Ordered(l)')
      <4> SUFFICES ASSUME NEW l \in Lines
                   PROVE  /\ l \in wanted <=> InCart(l)' \/ Ordered(l)
                          /\ ~(InCart(l)' /\ Ordered(l))
        BY <2>2 DEF Ordered
      <4>1. InCart(l)' <=> l \in q.lines \/ \E h \in Guests \ {g} : l \in cart[h].lines
        BY <2>2 DEF InCart
      <4> QED  BY <2>1, <3>1, <4>1 DEF Editing, InCart
    <3> QED  BY <2>2, <3>2, <3>3 DEF InStep, Plain
  <2> QED  BY <2>2, <2>3, <2>4, <1>b
<1>6. ASSUME PlaceSession(r) \/ PlaceTokens(r) \/ \E s \in Sessions : PlaceOpen(r, s)
      PROVE  LinesInv'
  <2>1. /\ q.at \in PlaceSteps /\ UNCHANGED <<order, cart, wanted, calls>>
        /\ req'[r].at \in PlaceSteps
        /\ req'[r].lines = q.lines /\ req'[r].merged = q.merged
    <3>1. CASE PlaceSession(r)
      <4>1. q.at \in PlaceSteps /\ UNCHANGED <<order, cart, wanted, calls>>
        BY <3>1 DEF PlaceSession, rows, phones
      <4>2. PICK at \in PlaceSteps, s \in Sessions \cup {None} :
                req'[r] = [q EXCEPT !.at = at, !.session = s]
        <5>1. CASE Go(r, [q EXCEPT !.at = "placeOpen"])
          <6>1. [q EXCEPT !.at = "placeOpen"]
                    = [q EXCEPT !.at = "placeOpen", !.session = q.session]
            BY <1>0 DEF Request
          <6> QED  BY <1>0, <5>1, <6>1 DEF Go, Request
        <5>2. CASE \E s \in Sessions : Go(r, [q EXCEPT !.at = "placeTokens", !.session = s])
          BY <1>0, <5>2 DEF Go
        <5> QED  BY <3>1, <5>1, <5>2 DEF PlaceSession, OpenAt, ActiveAt
      <4> QED  BY <1>0, <4>1, <4>2 DEF Request
    <3>2. CASE PlaceTokens(r)
      BY <1>0, <3>2 DEF PlaceTokens, Go, Request, rows, phones
    <3>3. CASE \E s \in Sessions : PlaceOpen(r, s)
      BY <1>0, <3>3 DEF PlaceOpen, Go, Request, phones
    <3> QED  BY <1>6, <3>1, <3>2, <3>3
  <2>2. Blank'
    BY <2>1 DEF LinesInv, Blank
  <2>3. ASSUME NoFailure PROVE Apart' /\ InStep(req[r])'
    <3>1. Apart /\ Merging(q) /\ \A l \in Lines : ~(InCart(l) /\ Ordered(l))
      BY <1>c, <2>1, <2>3 DEF InStep
    <3>2. Apart' /\ Merging(req[r])' /\ \A l \in Lines : ~(InCart(l)' /\ Ordered(l)')
      BY <2>1, <3>1 DEF Apart, Merging, InCart, Ordered
    <3> QED  BY <2>1, <3>2 DEF InStep, Plain
  <2> QED  BY <2>1, <2>2, <2>3, <1>b
<1>7. ASSUME NEW g \in Guests, PlaceCollect(r, g) PROVE LinesInv'
  <2>1. /\ q.at = "placeCollect" /\ UNCHANGED <<order, cart, wanted, calls>>
        /\ req'[r].at = "placeCollect"
        /\ req'[r].lines = q.lines \cup cart[g].lines
        /\ req'[r].merged = q.merged \cup (IF cart[g].lines # {} THEN {g} ELSE {})
    BY <1>0, <1>7 DEF PlaceCollect, Go, Request, rows, phones
  <2>2. Blank'
    BY <2>1 DEF LinesInv, Blank
  <2>3. ASSUME NoFailure PROVE Apart' /\ InStep(req[r])'
    <3>1. Apart /\ Merging(q) /\ \A l \in Lines : ~(InCart(l) /\ Ordered(l))
      BY <1>c, <2>1, <2>3 DEF InStep
    <3>2. Apart' /\ \A l \in Lines : ~(InCart(l)' /\ Ordered(l)')
      BY <2>1, <3>1 DEF Apart, InCart, Ordered
    <3>3. Merging(req[r])'
      <4> SUFFICES ASSUME NEW l \in Lines
                   PROVE  /\ l \in wanted <=> InCart(l) \/ Ordered(l) \/ l \in req'[r].lines
                          /\ l \in req'[r].lines => ~Ordered(l)
                          /\ \A h \in Guests : l \in cart[h].lines =>
                                (l \in req'[r].lines <=> h \in req'[r].merged)
        BY <2>1 DEF Merging, InCart, Ordered
      <4>1. \A h \in Guests : l \in cart[g].lines /\ l \in cart[h].lines => g = h
        BY <3>1 DEF Apart
      <4>2. l \in cart[g].lines => InCart(l)
        BY DEF InCart
      <4> QED  BY <2>1, <3>1, <4>1, <4>2 DEF Merging
    <3> QED  BY <2>1, <3>2, <3>3 DEF InStep, Plain
  <2> QED  BY <2>1, <2>2, <2>3, <1>b
<1>8. ASSUME NEW o \in Orders, PlaceOrder(r, o) PROVE LinesInv'
  <2>1. /\ q.at = "placeCollect" /\ q.guests = {} /\ UNCHANGED <<cart, wanted, calls>>
        /\ q.session \in Sessions /\ q.table \in Tables /\ q.lines \in SUBSET Lines
        /\ NewOrder(o, q.table, q.session, q.lines)
        /\ req'[r].at = "placeClear" /\ req'[r].order = o
        /\ req'[r].lines = q.lines /\ req'[r].merged = q.merged /\ req'[r].guests = {}
    BY <1>0, <1>8 DEF PlaceOrder, phones, Sound, AtTable, AtSession, Step, Go, Request
  <2>2. /\ order[o].lines = {} /\ order'[o].lines = q.lines
        /\ \A p \in Orders : p # o => order'[p] = order[p]
        /\ \A l \in Lines : Ordered(l)' <=> Ordered(l) \/ l \in q.lines
        /\ Blank'
    BY <2>1, OrderLines
  <2>3. ASSUME NoFailure PROVE Apart' /\ InStep(req[r])'
    <3>1. Apart /\ Merging(q) /\ \A l \in Lines : ~(InCart(l) /\ Ordered(l))
      BY <1>c, <2>1, <2>3 DEF InStep
    <3>2. Apart'
      BY <2>1, <2>2, <3>1 DEF Apart, Merging, Ordered
    <3>3. \A l \in Lines : l \in wanted' <=> InCart(l)' \/ Ordered(l)'
      BY <2>1, <2>2, <3>1 DEF Merging, InCart
    <3>4. Clearing(req[r])'
      <4> SUFFICES ASSUME NEW l \in Lines, NEW g \in Guests, l \in cart[g].lines
                   PROVE  IF g \in q.merged THEN l \in q.lines ELSE ~Ordered(l)'
        BY <2>1, <2>2 DEF Clearing, Ordered
      <4> QED  BY <2>2, <3>1 DEF Merging, InCart
    <3> QED  BY <2>1, <3>2, <3>3, <3>4 DEF InStep, Plain
  <2> QED  BY <2>1, <2>2, <2>3, <1>b
<1>9. ASSUME NEW g \in Guests, PlaceLink(r, g) PROVE LinesInv'
  <2>1. /\ q.at = "placeClear" /\ q.guests = {} /\ UNCHANGED <<order, cart, wanted, calls>>
        /\ g \in q.merged
        /\ req'[r].at = "placeClear" /\ req'[r].order = q.order
        /\ req'[r].lines = q.lines /\ req'[r].merged = q.merged \ {g}
        /\ req'[r].guests = {g}
    BY <1>0, <1>9 DEF PlaceLink, Go, Request
  <2>2. Blank'
    BY <2>1 DEF LinesInv, Blank
  <2>3. ASSUME NoFailure PROVE Apart' /\ InStep(req[r])'
    <3>1. /\ Apart /\ Clearing(q)
          /\ \A l \in Lines : l \in wanted <=> InCart(l) \/ Ordered(l)
      BY <1>c, <2>1, <2>3 DEF InStep
    <3>2. Apart' /\ \A l \in Lines : l \in wanted' <=> InCart(l)' \/ Ordered(l)'
      BY <2>1, <3>1 DEF Apart, InCart, Ordered
    <3>3. Clearing(req[r])'
      BY <2>1, <3>1 DEF Clearing, Ordered
    <3> QED  BY <2>1, <3>2, <3>3 DEF InStep, Plain
  <2> QED  BY <2>1, <2>2, <2>3, <1>b
<1>10. ASSUME NEW g \in Guests, PlaceClear(r, g) PROVE LinesInv'
  <2>1. /\ q.at = "placeClear" /\ g \in q.guests /\ UNCHANGED <<order, wanted, calls>>
        /\ cart'[g].lines = {} /\ \A h \in Guests : h # g => cart'[h] = cart[h]
        /\ req'[r].at = "placeClear" /\ req'[r].order = q.order
        /\ req'[r].lines = q.lines /\ req'[r].merged = q.merged
        /\ req'[r].guests = {} /\ q.order \in Orders
    BY <1>0, <1>10 DEF PlaceClear, Cleared, NoCart, Go, Request, RowTypes, Sound
  <2>2. Blank'
    BY <2>1 DEF LinesInv, Blank
  <2>3. ASSUME NoFailure PROVE Apart' /\ InStep(req[r])'
    <3>1. /\ Apart /\ Clearing(q)
          /\ \A l \in Lines : l \in wanted <=> InCart(l) \/ Ordered(l)
      BY <1>c, <2>1, <2>3 DEF InStep
    <3>2. Apart'
      BY <2>1, <3>1 DEF Apart
    <3>3. \A l \in Lines : l \in cart[g].lines => Ordered(l)
      BY <2>1, <3>1 DEF Clearing, Ordered
    <3>4. \A l \in Lines : l \in wanted' <=> InCart(l)' \/ Ordered(l)'
      BY <2>1, <3>1, <3>3 DEF InCart, Ordered
    <3>5. Clearing(req[r])'
      BY <2>1, <3>1 DEF Clearing, Ordered
    <3> QED  BY <2>1, <3>2, <3>4, <3>5 DEF InStep, Plain
  <2> QED  BY <2>1, <2>2, <2>3, <1>b
<1>11. CASE PlaceDone(r)
  <2>1. /\ q.at = "placeClear" /\ q.merged = {} /\ q.guests = {}
        /\ UNCHANGED <<order, cart, wanted, calls>>
        /\ req'[r].at = "idle" /\ req'[r].lines = {}
    BY <1>0, <1>11 DEF PlaceDone, Finish, NoRequest
  <2>2. Blank'
    BY <2>1 DEF LinesInv, Blank
  <2>3. ASSUME NoFailure PROVE Apart' /\ InStep(req[r])'
    <3>1. /\ Apart /\ Clearing(q)
          /\ \A l \in Lines : l \in wanted <=> InCart(l) \/ Ordered(l)
      BY <1>c, <2>1, <2>3 DEF InStep
    <3>2. Apart' /\ \A l \in Lines : l \in wanted' <=> InCart(l)' \/ Ordered(l)'
      BY <2>1, <3>1 DEF Apart, InCart, Ordered
    <3>3. \A l \in Lines : ~(InCart(l)' /\ Ordered(l)')
      BY <2>1, <3>1 DEF Clearing, InCart, Ordered
    <3> QED  BY <2>1, <3>2, <3>3 DEF InStep, Plain
  <2> QED  BY <2>1, <2>2, <2>3, <1>b
<1>12. ASSUME NEW s \in Sessions, NEW t \in Tables, CronClose(r, s, t) PROVE LinesInv'
  <2>1. q.at = "cronLoop" /\ UNCHANGED <<order, cart, wanted, calls>>
    BY <1>12 DEF CronClose, phones
  <2>2. Plain(q) /\ SameLines /\ Blank'
    BY <2>1 DEF Plain, SameLines, LinesInv, Blank
  <2>3. CASE Finish(r)
    BY <2>2, <2>3, FinishLines
  <2>4. CASE Go(r, [q EXCEPT !.batch = q.batch \ {<<s, t>>}])
    <3>1. req'[r].at = "cronLoop" /\ req'[r].lines = q.lines
      BY <1>0, <2>1, <2>4 DEF Go, Request
    <3>2. Plain(req[r])' /\ UNCHANGED calls
      BY <2>1, <3>1 DEF Plain
    <3>3. CASE q.lines = {}
      BY <2>2, <3>1, <3>2, <3>3, PlainKeeps
    <3>4. CASE q.lines # {}
      <4>1. ~NoFailure
        BY <1>c, <2>2, <3>4 DEF InStep
      <4> QED  BY <2>2, <3>2, <4>1, <1>b
    <3> QED  BY <3>3, <3>4
  <2> QED  BY <1>12, <2>3, <2>4 DEF CronClose
<1> QED
  BY <1>1, <1>2, <1>3, <1>4, <1>5, <1>6, <1>7, <1>8, <1>9, <1>10, <1>11, <1>12 DEF Proceed

\* A cart that expires takes along what is wanted and in no handler's hands.
LEMMA ExpiryLines ==
    ASSUME TypeInv, LinesInv, OneHandler, NEW g \in Guests, CartExpires(g)
    PROVE  LinesInv'
<1>0. RowTypes
  BY Facts
<1>1. PICK r : Requests = {r}
  BY DEF OneHandler
<1>2. PICK q \in Request : q = req[r] /\ q = req'[r] /\ Sound(q)
  BY <1>1, Facts DEF TypeInv, CartExpires
<1>3. /\ UNCHANGED <<order, calls>>
      /\ cart'[g].lines = {} /\ cart'[g].state = "gone"
      /\ \A h \in Guests : h # g => cart'[h] = cart[h]
      /\ \A l \in Lines : l \in wanted' <=> l \in wanted /\ (l \in q.lines \/ l \notin cart[g].lines)
  <2>1. UNION {req[p].lines : p \in Requests} = q.lines
    BY <1>1, <1>2
  <2>2. wanted' = wanted \ (cart[g].lines \ UNION {req[p].lines : p \in Requests})
    BY DEF CartExpires
  <2>3. /\ UNCHANGED <<order, calls>>
        /\ cart'[g].lines = {} /\ cart'[g].state = "gone"
        /\ \A h \in Guests : h # g => cart'[h] = cart[h]
    BY <1>0 DEF CartExpires, NoCart, RowTypes
  <2> QED  BY <2>1, <2>2, <2>3
<1>4. Blank'
  BY <1>3 DEF LinesInv, Blank
<1>5. ASSUME NoFailure PROVE Apart' /\ InStep(q)'
  <2>1. Apart /\ InStep(q)
    BY <1>1, <1>2, <1>5 DEF LinesInv
  <2>2. Apart'
    BY <1>3, <2>1 DEF Apart
  <2>3. \A l \in Lines : /\ Ordered(l)' <=> Ordered(l)
                         /\ InCart(l)' <=> InCart(l) /\ l \notin cart[g].lines
    BY <1>3, <2>1 DEF InCart, Ordered, Apart
  <2>4. q.at \notin PlaceSteps \cup {"cartWrite"} =>
            \A l \in Lines : l \in wanted' <=> InCart(l)' \/ Ordered(l)'
    <3> SUFFICES ASSUME q.at \notin PlaceSteps \cup {"cartWrite"}, NEW l \in Lines
                 PROVE  l \in wanted' <=> InCart(l)' \/ Ordered(l)'
      OBVIOUS
    <3>1. l \in wanted <=> InCart(l) \/ Ordered(l)
      BY <2>1 DEF InStep
    <3>2. CASE q.at # "placeClear"
      BY <1>3, <2>1, <2>3, <3>1, <3>2 DEF InStep, Plain, InCart
    <3>3. CASE q.at = "placeClear"
      <4>1. l \in q.lines => Ordered(l)
        BY <1>2, <2>1, <3>3 DEF InStep, Clearing, Ordered, Sound
      <4>2. l \in cart[g].lines => l \in q.lines \/ ~Ordered(l)
        BY <2>1, <3>3 DEF InStep, Clearing
      <4> QED  BY <1>3, <2>3, <3>1, <4>1, <4>2
    <3> QED  BY <3>2, <3>3
  <2>5. q.at # "placeClear" => \A l \in Lines : ~(InCart(l)' /\ Ordered(l)')
    BY <2>1, <2>3 DEF InStep
  <2>6. q.at = "cartWrite" => Editing(q)'
    <3> SUFFICES ASSUME q.at = "cartWrite", NEW l \in Lines
                 PROVE  /\ l \in wanted' <=> \/ \E h \in Guests \ {q.guest} : l \in cart'[h].lines
                                             \/ Ordered(l)' \/ l \in q.lines
                        /\ l \in q.lines => /\ ~Ordered(l)'
                                            /\ \A h \in Guests \ {q.guest} : l \notin cart'[h].lines
      BY DEF Editing
    <3>1. /\ Editing(q) /\ ~(InCart(l) /\ Ordered(l))
      BY <2>1 DEF InStep
    <3>2. \A h \in Guests : l \in cart'[h].lines <=> h # g /\ l \in cart[h].lines
      BY <1>3
    <3>3. l \in cart[g].lines => /\ \A h \in Guests : l \in cart[h].lines => h = g
                                 /\ ~Ordered(l)
      BY <2>1, <3>1 DEF Apart, InCart
    <3> QED  BY <1>3, <2>3, <3>1, <3>2, <3>3 DEF Editing
  <2>7. q.at \in PlaceSteps => Merging(q)'
    <3> SUFFICES ASSUME q.at \in PlaceSteps PROVE Merging(q)'
      OBVIOUS
    <3>1. Merging(q) /\ \A l \in Lines : ~(InCart(l) /\ Ordered(l))
      BY <2>1 DEF InStep, PlaceSteps
    <3> QED  BY <1>3, <2>3, <3>1 DEF Merging, InCart
  <2>8. q.at = "placeClear" => Clearing(q)'
    BY <1>3, <2>1, <2>3 DEF InStep, Clearing
  <2> QED  BY <2>1, <2>2, <2>4, <2>5, <2>6, <2>7, <2>8 DEF InStep, Plain
<1> QED  BY <1>1, <1>2, <1>3, <1>4, <1>5 DEF LinesInv, NoFailure, InStep

LEMMA ImmediateLines ==
    ASSUME TypeInv, LinesInv, OneHandler, Immediate
    PROVE  LinesInv'
<1>0. \A o \in Orders : order[o] \in OrderRow
  BY Facts DEF RowTypes
<1>1. ASSUME \/ \E t \in Tables, new \in TableStatus : SetStatus(t, new)
             \/ \E t \in Tables : TokensExpire(t)
             \/ \E s \in Sessions : SessionAges(s)
      PROVE  LinesInv'
  <2>1. UNCHANGED <<order, cart, wanted, calls, req>>
    BY <1>1 DEF SetStatus, TokensExpire, SessionAges, phones
  <2>2. SameLines /\ Blank'
    BY <2>1 DEF SameLines, LinesInv, Blank
  <2> QED  BY <2>1, <2>2, QuietLines
<1>2. ASSUME NEW o \in Orders, NEW t \in Tables \cup {None}, NEW s \in Sessions \cup {None},
             AssignTable(o, t, s)
      PROVE  LinesInv'
  <2>1. /\ UNCHANGED <<cart, wanted, calls, req>>
        /\ \A p \in Orders : order'[p].lines = order[p].lines /\ order'[p].state = order[p].state
    BY <1>0, <1>2, Facts DEF AssignTable, phones, OrderRow, RowTypes
  <2>2. SameLines /\ Blank'
    BY <2>1 DEF SameLines, LinesInv, Blank
  <2> QED  BY <2>1, <2>2, QuietLines
<1>3. ASSUME NEW o \in Orders, NEW how \in OrderState, OrderEnds(o, how) PROVE LinesInv'
  <2>1. /\ UNCHANGED <<cart, wanted, calls, req>>
        /\ \A p \in Orders : /\ order'[p].lines = order[p].lines
                             /\ order'[p].state = None => order[p].state = None
    BY <1>0, <1>3, Facts, NoneAssumption DEF OrderEnds, phones, OrderRow, RowTypes, OrderState
  <2>2. SameLines /\ Blank'
    BY <2>1 DEF SameLines, LinesInv, Blank
  <2> QED  BY <2>1, <2>2, QuietLines
<1> QED  BY <1>1, <1>2, <1>3, ExpiryLines DEF Immediate

LEMMA LinesHold == OneHandler => (Spec => []LinesInv)
<1> SUFFICES ASSUME OneHandler PROVE Spec => []LinesInv
  OBVIOUS
<1>1. Init => LinesInv
  BY NoneAssumption
     DEF Init, LinesInv, Blank, Apart, InStep, Plain, PlaceSteps, InCart, Ordered, NoOrder, NoCart,
         NoRequest
<1>2. TypeInv /\ LinesInv /\ [Next]_vars => LinesInv'
  <2> SUFFICES ASSUME TypeInv, LinesInv, [Next]_vars PROVE LinesInv'
    OBVIOUS
  <2>1. ASSUME NEW r \in Requests, Fail(r) PROVE LinesInv'
    BY <2>1 DEF Fail, rows, phones, LinesInv, NoFailure, Blank
  <2>2. CASE UNCHANGED vars
    <3>1. SameLines /\ Blank'
      BY <2>2 DEF vars, SameLines, LinesInv, Blank
    <3> QED  BY <2>2, <3>1, QuietLines DEF vars
  <2> QED  BY <2>1, <2>2, ArriveLines, ProceedLines, ImmediateLines DEF Next
<1> QED  BY <1>1, <1>2, TypesHold, PTL DEF Spec

\* A set without two different elements.
LEMMA AtMostOne ==
    ASSUME NEW S, \A x, y \in S : x = y
    PROVE  Cardinality(S) = IF S = {} THEN 0 ELSE 1
<1>1. CASE S = {}
  BY <1>1, FS_EmptySet
<1>2. CASE S # {}
  <2>1. PICK x : S = {x}
    BY <1>2
  <2> QED  BY <1>2, <2>1, FS_Singleton
<1> QED  BY <1>1, <1>2

\* Between two handlers, what guests asked for and did not take back is in one cart
\* or in one order: for any number of guests and lines, through edits, merging of
\* the carts of a table, expiry and new scans, as long as no handler fails.
THEOREM GuestsGetTheirLines == OneHandler => (Spec => []LinesKept)
<1> SUFFICES ASSUME OneHandler PROVE Spec => []LinesKept
  OBVIOUS
<1>1. LinesInv => LinesKept
  <2> SUFFICES ASSUME LinesInv, Quiet, NoFailure, NEW l \in Lines
               PROVE  Cardinality({g \in Guests : l \in cart[g].lines})
                        + Cardinality({o \in Orders : l \in order[o].lines})
                      = IF l \in wanted THEN 1 ELSE 0
    BY DEF LinesKept, NoFailure
  <2>1. /\ Apart
        /\ l \in wanted <=> InCart(l) \/ Ordered(l)
        /\ ~(InCart(l) /\ Ordered(l))
    BY DEF LinesInv, InStep, Quiet, Idle, OneHandler, PlaceSteps
  <2>2. Cardinality({g \in Guests : l \in cart[g].lines}) = IF InCart(l) THEN 1 ELSE 0
    <3>1. \A g, h \in {g \in Guests : l \in cart[g].lines} : g = h
      BY <2>1 DEF Apart
    <3>2. {g \in Guests : l \in cart[g].lines} = {} <=> ~InCart(l)
      BY DEF InCart
    <3> QED  BY <3>1, <3>2, AtMostOne
  <2>3. Cardinality({o \in Orders : l \in order[o].lines}) = IF Ordered(l) THEN 1 ELSE 0
    <3>1. \A o, p \in {o \in Orders : l \in order[o].lines} : o = p
      BY <2>1 DEF Apart
    <3>2. {o \in Orders : l \in order[o].lines} = {} <=> ~Ordered(l)
      BY DEF Ordered
    <3> QED  BY <3>1, <3>2, AtMostOne
  <2> QED  BY <2>1, <2>2, <2>3
<1> QED  BY <1>1, LinesHold, PTL
=============================================================================
