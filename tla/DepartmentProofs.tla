-------------------------- MODULE DepartmentProofs --------------------------
(***************************************************************************)
(* Proofs about the departments of Business other than the web shop, for   *)
(* any number of their records and handlers, and any failures.             *)
(*                                                                         *)
(* Bills, stamp cards and the orders of delivery platforms promise         *)
(* something for handlers that come one after the other, and rest on what  *)
(* "alone" means for the handlers of all departments.  Subscriptions,      *)
(* deliveries and shifts keep what they promise however handlers race.     *)
(* At the end, the types of all of Business.                               *)
(***************************************************************************)
EXTENDS BusinessProofs

-----------------------------------------------------------------------------
(* Where the handlers of bills and of the other sales are                  *)

BillsMove == (\E r \in Handling : BillsNext(r)) \/ \E b \in Bills : Advance(b)

\* What the steps of bills are to the rest of sales.
LEMMA BillsElsewhere ==
    ASSUME Records, BillsMove
    PROVE  /\ calls' = calls
           /\ \A q \in Handling : req'[q] = req[q] \/ req'[q].at \in BillSteps
<1>1. CASE \E b \in Bills : Advance(b)
  BY <1>1 DEF Advance
<1>2. CASE \E r \in Handling : BillsNext(r)
  BY <1>2, BillsMoves DEF Moves
<1> QED  BY <1>1, <1>2 DEF BillsMove

-----------------------------------------------------------------------------
(* Bills                                                                   *)

BillRow == [status : BillStatus \cup {None}, subtotal : Nat, discount : Nat, total : Int,
            outside : Int]

\* What a handler knows of its bill; while it is alone, that is how the bill is.
BillsHandler(r) ==
    LET q == req[r]
    IN  q.at \in BillSteps \ {"idle"} =>
          /\ q.on \in Bills
          /\ q.at # "takeOff" => q.seen \in BillRow
          /\ q.at \in {"addItem", "voidItem"} => q.arg \in Dishes
          /\ q.at \in {"takeOff", "discountBill"} => q.arg \in Nat
          /\ Alone /\ q.at # "takeOff" =>
               /\ q.seen.discount = bill[q.on].discount
               /\ q.at # "voidTotal" => q.seen.subtotal = bill[q.on].subtotal
               /\ q.at = "voidTotal" => q.seen.subtotal = Costs(LiveDishes(q.on))
               /\ q.at = "addItem" => dish[q.on][q.arg] = None

AddsUp(b) ==
    /\ bill[b].total = Payable(bill[b].subtotal, bill[b].discount) + bill[b].outside
    /\ bill[b].subtotal >= Costs(LiveDishes(b))
    /\ \/ "fail" \in calls
       \/ bill[b].subtotal = Costs(LiveDishes(b))
       \/ \E r \in Handling : Counts(r) /\ req[r].on = b

BillsInv ==
    /\ BillsTypeOK
    /\ \A r \in Handling : BillsHandler(r)
    /\ Alone => \A b \in Bills : AddsUp(b)

LEMMA CostsType ==
    ASSUME NEW S \in SUBSET Dishes  PROVE Costs(S) \in Nat
<1>1. IsFiniteSet(S)
  BY BillsAssumption, FS_Subset DEF BillsAssumption
<1>2. Cardinality(S) \in Nat
  BY <1>1, FS_CardinalityType
<1> QED  BY <1>2, BillsAssumption DEF Costs, BillsAssumption

LEMMA CostsOfMore ==
    ASSUME NEW S \in SUBSET Dishes, NEW d \in Dishes, d \notin S
    PROVE  Costs(S \cup {d}) = Costs(S) + DishPrice
<1>1. IsFiniteSet(S)
  BY BillsAssumption, FS_Subset DEF BillsAssumption
<1>2. Cardinality(S) \in Nat
  BY <1>1, FS_CardinalityType
<1>3. Cardinality(S \cup {d}) = Cardinality(S) + 1
  BY <1>1, FS_AddElement
<1>4. DishPrice \in Nat
  BY BillsAssumption DEF BillsAssumption
<1> DEFINE n == Cardinality(S)
<1> HIDE DEF n
<1>5. DishPrice * (n + 1) = DishPrice * n + DishPrice
  BY <1>2, <1>4 DEF n
<1> QED  BY <1>3, <1>5 DEF Costs, n

LEMMA CostsOfLess ==
    ASSUME NEW S \in SUBSET Dishes, NEW d \in S
    PROVE  Costs(S \ {d}) <= Costs(S)
<1>1. Costs((S \ {d}) \cup {d}) = Costs(S \ {d}) + DishPrice
  BY CostsOfMore
<1>2. (S \ {d}) \cup {d} = S
  OBVIOUS
<1>3. Costs(S \ {d}) \in Nat /\ DishPrice \in Nat
  BY CostsType, BillsAssumption DEF BillsAssumption
<1>4. Costs(S) = Costs(S \ {d}) + DishPrice
  BY <1>1, <1>2, Zenon
<1> QED  BY <1>3, <1>4

LEMMA PayableType ==
    ASSUME NEW n \in Nat, NEW m \in Nat  PROVE Payable(n, m) \in Int
BY BillsAssumption DEF BillsAssumption, Payable

\* The total of a bill is computed anew.
LEMMA RetotalIs ==
    ASSUME BillsTypeOK, NEW b \in Bills, NEW n \in Nat, NEW m \in Nat, NEW t \in Int,
           Retotal(b, n, m, t)
    PROVE  /\ bill' \in [Bills -> BillRow]
           /\ bill'[b].subtotal = n /\ bill'[b].discount = m
           /\ bill'[b].total = t /\ bill'[b].outside = 0
           /\ \A c \in Bills \ {b} : bill'[c] = bill[c]
<1> DEFINE row == [status |-> bill[b].status, subtotal |-> n, discount |-> m, total |-> t,
                   outside |-> 0]
<1>1. bill \in [Bills -> BillRow]
  BY DEF BillsTypeOK, BillRow
<1>2. bill[b] \in BillRow
  BY <1>1
<1>3. /\ row \in BillRow
      /\ row.subtotal = n /\ row.discount = m /\ row.total = t /\ row.outside = 0
  BY <1>2 DEF BillRow
<1>4. bill' = [bill EXCEPT ![b] = row]
  BY Zenon DEF Retotal
<1> HIDE DEF row
<1> QED  BY <1>1, <1>3, <1>4

\* A total computed anew is that of its subtotal and discount.
LEMMA AddsUpAnew ==
    ASSUME NEW n \in Nat, NEW m \in Nat
    PROVE  Payable(n, m) = Payable(n, m) + 0
<1>1. PICK t \in Int : t = Payable(n, m)  BY PayableType
<1> QED  BY <1>1

\* A handler takes a step: its own knowledge and the bills have to be looked at.
LEMMA BillsStep ==
    ASSUME OneAtATime, NEW r \in Handling, Turn(r), NEW S, Moves(r, S), BillsInv,
           BillsTypeOK', BillsHandler(r)', Alone => \A b \in Bills : AddsUp(b)'
    PROVE  BillsInv'
<1>1. ASSUME NEW q \in Handling \ {r} PROVE BillsHandler(q)'
  <2>1. req'[q] = req[q] /\ BillsHandler(q)
    BY DEF Moves, BillsInv
  <2>2. Alone => req[q].at = "idle"
    BY TurnIsAlone DEF Idle
  <2> QED  BY <2>1, <2>2 DEF BillsHandler, Moves, Alone
<1> QED  BY <1>1 DEF BillsInv, Moves, Alone

\* Bills that no handler touched add up as they did.
LEMMA OthersAddUp ==
    ASSUME NEW r \in Handling, NEW b \in Bills, NEW c \in Bills \ {b}, req[r].on = b,
           AddsUp(c), bill'[c] = bill[c], dish'[c] = dish[c], calls' = calls,
           \A q \in Handling \ {r} : req'[q] = req[q]
    PROVE  AddsUp(c)'
BY DEF AddsUp, LiveDishes, Counts

\* An order is created; the handler ends, or goes on to what is taken off.
LEMMA CreateKeeps ==
    ASSUME Records, OneAtATime, BillsInv, NEW r \in Handling, NEW b \in Bills,
           NEW S \in SUBSET Dishes, NEW off \in Nat, NEW t \in Int, Create(b, S, off, t),
           Moves(r, BillSteps), Turn(r), ~Counts(r),
           \/ req'[r].at = "idle"
           \/ req'[r].at = "takeOff" /\ req'[r].on = b /\ req'[r].arg \in Nat
    PROVE  BillsInv'
<1> DEFINE new == [status |-> "open", subtotal |-> Costs(S), discount |-> off,
                   total |-> t, outside |-> t - Payable(Costs(S), off)]
<1>2. /\ bill' = [bill EXCEPT ![b] = new]
      /\ dish' = [dish EXCEPT ![b] = [d \in Dishes |-> IF d \in S THEN "live" ELSE None]]
      /\ calls' = calls
  BY DEF Create
<1>3. /\ bill \in [Bills -> BillRow] /\ dish \in [Bills -> [Dishes -> {None, "live", "void"}]]
      /\ Costs(S) \in Nat /\ Payable(Costs(S), off) \in Int
  BY CostsType, PayableType DEF BillsInv, BillsTypeOK, BillRow
<1>4. new \in BillRow /\ new.total = Payable(new.subtotal, new.discount) + new.outside
  <2>1. PICK p \in Int : p = Payable(Costs(S), off)  BY <1>3
  <2>2. t = p + (t - p) /\ t - p \in Int  BY <2>1
  <2> QED  BY <1>3, <2>1, <2>2 DEF BillRow, BillStatus
<1>5. /\ bill'[b] = new /\ \A c \in Bills \ {b} : bill'[c] = bill[c] /\ dish'[c] = dish[c]
      /\ bill' \in [Bills -> BillRow]
  BY <1>2, <1>3, <1>4
<1>6. BillsTypeOK' /\ dish'[b] = [d \in Dishes |-> IF d \in S THEN "live" ELSE None]
  BY <1>2, <1>3, <1>5 DEF BillsTypeOK, BillRow
<1>7. BillsHandler(r)'
  BY DEF BillsHandler
<1>8. ASSUME Alone, NEW c \in Bills PROVE AddsUp(c)'
  <2>1. CASE c = b
    <3>1. LiveDishes(b)' = S
      BY <1>6, BillsAssumption DEF LiveDishes, BillsAssumption
    <3>2. bill'[b].subtotal = Costs(S)  BY <1>5
    <3>3. bill'[b].total = Payable(bill'[b].subtotal, bill'[b].discount) + bill'[b].outside
      BY <1>4, <1>5
    <3> QED  BY <1>3, <2>1, <3>1, <3>2, <3>3 DEF AddsUp, Costs
  <2>2. CASE c # b
    <3>1. \A q \in Handling : Counts(q) => req'[q] = req[q]
      BY DEF Moves, Counts
    <3> QED  BY <1>2, <1>5, <1>8, <2>2, <3>1 DEF BillsInv, AddsUp, LiveDishes, Counts
  <2> QED  BY <2>1, <2>2
<1> QED  BY <1>6, <1>7, <1>8, BillsStep

LEMMA OpenKeeps ==
    ASSUME Records, OneAtATime, BillsInv, NEW r \in Handling, NEW b \in Bills,
           NEW S \in SUBSET Dishes,
           \/ \E off \in {0, DishPrice} : OpenBill(r, b, S, off) \/ ImportBill(r, b, S, off)
           \/ \E n \in Discounts : OpenOnline(r, b, S, n)
    PROVE  BillsInv'
<1>1. Moves(r, BillSteps) /\ Turn(r)
  BY BillsMoves, BillsTurns DEF BillsNext
<1>2. ~Counts(r)
  BY DEF OpenBill, ImportBill, OpenOnline, Free, Takes, Idle, Counts
<1>3. /\ 0 \in Nat /\ DishPrice \in Nat /\ \A n \in Discounts : n \in Nat
      /\ Costs(S) \in Nat
  BY CostsType, BillsAssumption DEF BillsAssumption, Discounts
<1>4. CASE \E off \in {0, DishPrice} : OpenBill(r, b, S, off) \/ ImportBill(r, b, S, off)
  <2>1. PICK off \in Nat : OpenBill(r, b, S, off) \/ ImportBill(r, b, S, off)
    BY <1>3, <1>4
  <2>2. req'[r].at = "idle"
    BY <2>1 DEF OpenBill, ImportBill, Free, Takes, Idle
  <2>3. Payable(Costs(S), off) \in Int /\ Costs(S) + off \in Int
    BY <1>3, PayableType
  <2> QED  BY <1>1, <1>2, <1>3, <2>1, <2>2, <2>3, CreateKeeps DEF OpenBill, ImportBill
<1>5. CASE \E n \in Discounts : OpenOnline(r, b, S, n)
  <2>1. PICK n \in Discounts : OpenOnline(r, b, S, n)  BY <1>5
  <2>2. req'[r].at = "takeOff" /\ req'[r].on = b /\ req'[r].arg \in Nat
    BY <1>3, <2>1, BeginIs DEF OpenOnline
  <2>3. Payable(Costs(S), 0) \in Int
    BY <1>3, PayableType
  <2> QED  BY <1>1, <1>2, <1>3, <2>1, <2>2, <2>3, CreateKeeps DEF OpenOnline
<1> QED  BY <1>4, <1>5

LEMMA TakeOffKeeps ==
    ASSUME Records, OneAtATime, BillsInv, NEW r \in Handling, TakeOff(r)
    PROVE  BillsInv'
<1>0. PICK b, n : b = req[r].on /\ n = req[r].arg
  OBVIOUS
<1>1. Moves(r, BillSteps) /\ Turn(r)
  BY BillsMoves, BillsTurns DEF BillsNext
<1>2. b \in Bills /\ n \in Nat
  BY <1>0 DEF TakeOff, At, BillsInv, BillsHandler, BillSteps
<1>3. /\ \/ bill' = [bill EXCEPT ![b].total = bill[b].total - n,
                              ![b].outside = bill[b].outside - n]
         \/ UNCHANGED bill
      /\ UNCHANGED <<calls, dish>> /\ req'[r].at = "idle"
  BY <1>0, DoneIs DEF TakeOff
<1>4. bill \in [Bills -> BillRow]
  BY DEF BillsInv, BillsTypeOK, BillRow
<1>5. /\ bill' \in [Bills -> BillRow]
      /\ bill'[b].subtotal = bill[b].subtotal /\ bill'[b].discount = bill[b].discount
      /\ bill'[b].total - bill'[b].outside = bill[b].total - bill[b].outside
      /\ \A c \in Bills \ {b} : bill'[c] = bill[c]
  BY <1>2, <1>3, <1>4 DEF BillRow
<1>6. BillsTypeOK' /\ BillsHandler(r)'
  BY <1>3, <1>5 DEF BillsInv, BillsTypeOK, BillRow, BillsHandler
<1>7. ASSUME Alone, NEW c \in Bills PROVE AddsUp(c)'
  <2>0. AddsUp(c)
    BY <1>7 DEF BillsInv
  <2>1. \A q \in Handling : Counts(q) => Counts(q)' /\ req'[q].on = req[q].on
    BY <1>1 DEF TakeOff, At, Counts, Moves
  <2>2. Costs(LiveDishes(c))' = Costs(LiveDishes(c))
    BY <1>3 DEF LiveDishes, Costs
  <2>3. bill'[c].total = Payable(bill'[c].subtotal, bill'[c].discount) + bill'[c].outside
    <3>1. CASE c = b
      <4>1. PICK p \in Int : p = Payable(bill[b].subtotal, bill[b].discount)
        BY <1>2, <1>4, PayableType DEF BillRow
      <4>2. bill[b].total = p + bill[b].outside
        BY <2>0, <3>1, <4>1 DEF AddsUp
      <4>3. /\ bill[b].total \in Int /\ bill[b].outside \in Int
            /\ bill'[b].total \in Int /\ bill'[b].outside \in Int
        BY <1>2, <1>4, <1>5 DEF BillRow
      <4>4. bill'[b].total = p + bill'[b].outside
        BY <1>5, <4>2, <4>3
      <4> QED  BY <1>5, <3>1, <4>1, <4>4
    <3>2. CASE c # b
      BY <1>5, <2>0, <3>2 DEF AddsUp
    <3> QED  BY <3>1, <3>2
  <2>4. bill'[c].subtotal = bill[c].subtotal
    BY <1>5
  <2> QED  BY <1>3, <2>0, <2>1, <2>2, <2>3, <2>4 DEF AddsUp
<1> QED  BY <1>1, <1>6, <1>7, BillsStep

LEMMA AdvanceKeeps ==
    ASSUME BillsInv, NEW b \in Bills, Advance(b)  PROVE BillsInv'
<1>1. /\ bill \in [Bills -> BillRow] /\ Advanced(bill[b].status) \in BillStatus
      /\ bill' = [bill EXCEPT ![b].status = Advanced(bill[b].status)]
      /\ UNCHANGED <<calls, req, dish>>
  BY DEF Advance, BillsInv, BillsTypeOK, BillRow, Advanced, BillStatus
<1>2. /\ bill' \in [Bills -> BillRow]
      /\ \A c \in Bills : /\ bill'[c].subtotal = bill[c].subtotal
                          /\ bill'[c].discount = bill[c].discount
                          /\ bill'[c].total = bill[c].total
                          /\ bill'[c].outside = bill[c].outside
  BY <1>1 DEF BillRow
<1>3. BillsTypeOK'
  BY <1>1, <1>2 DEF BillsInv, BillsTypeOK, BillRow
<1>4. ASSUME NEW r \in Handling PROVE BillsHandler(r)'
  <2>1. BillsHandler(r)
    BY DEF BillsInv
  <2>2. \A c \in Bills : Costs(LiveDishes(c))' = Costs(LiveDishes(c))
    BY <1>1 DEF LiveDishes, Costs
  <2> QED  BY <1>1, <1>2, <2>1, <2>2 DEF BillsHandler, Alone
<1>5. ASSUME Alone, NEW c \in Bills PROVE AddsUp(c)'
  BY <1>1, <1>2, <1>5 DEF BillsInv, AddsUp, LiveDishes, Counts
<1> QED  BY <1>1, <1>3, <1>4, <1>5 DEF BillsInv, Alone

\* A handler begins with what it has read of its bill.
LEMMA ReadKeeps ==
    ASSUME Records, OneAtATime, BillsInv, NEW r \in Handling, NEW b \in Bills,
           UNCHANGED <<calls, billVars>>,
           \/ \E d \in Dishes : AddRead(r, b, d) \/ VoidItemRead(r, b, d)
           \/ \E off \in Discounts : DiscountRead(r, b, off)
    PROVE  BillsInv'
<1>1. Moves(r, BillSteps) /\ Turn(r)
  BY BillsMoves, BillsTurns DEF BillsNext
<1>2. bill[b] \in BillRow
  BY DEF BillsInv, BillsTypeOK, BillRow
<1>3. \A off \in Discounts : off \in Nat
  BY BillsAssumption DEF BillsAssumption, Discounts
<1>4. PICK at, arg :
         /\ at \in {"addItem", "voidItem", "discountBill"}
         /\ Begin(r, at, b, arg, bill[b])
         /\ at \in {"addItem", "voidItem"} => arg \in Dishes
         /\ at = "discountBill" => arg \in Nat
         /\ at = "addItem" => dish[b][arg] = None
  BY <1>3 DEF AddRead, VoidItemRead, DiscountRead
<1>5. req'[r].at = at /\ req'[r].on = b /\ req'[r].arg = arg /\ req'[r].seen = bill[b]
  BY <1>4, BeginIs
<1>6. BillsHandler(r)'
  BY <1>2, <1>4, <1>5 DEF BillsHandler, billVars
<1>7. ASSUME Alone, NEW c \in Bills PROVE AddsUp(c)'
  <2>1. ~Counts(r)
    BY DEF AddRead, VoidItemRead, DiscountRead, Free, Takes, Idle, Counts
  <2>2. \A q \in Handling : Counts(q) => req'[q] = req[q]
    BY <1>1, <2>1 DEF Moves, Counts
  <2> QED  BY <1>7, <2>2 DEF BillsInv, AddsUp, LiveDishes, Counts, billVars
<1> QED  BY <1>1, <1>6, <1>7, BillsStep DEF BillsInv, BillsTypeOK, billVars

LEMMA AddWriteKeeps ==
    ASSUME Records, OneAtATime, BillsInv, NEW r \in Handling, AddWrite(r)
    PROVE  BillsInv'
<1>0. PICK b, d, n : b = req[r].on /\ d = req[r].arg /\ n = req[r].seen.subtotal + DishPrice
  OBVIOUS
<1> DEFINE t == Payable(n, req[r].seen.discount)
<1>1. Moves(r, BillSteps) /\ Turn(r)
  BY BillsMoves, BillsTurns DEF BillsNext
<1>2. /\ b \in Bills /\ d \in Dishes /\ n \in Nat /\ req[r].seen.discount \in Nat
      /\ Alone => /\ req[r].seen.discount = bill[b].discount
                  /\ n = bill[b].subtotal + DishPrice
                  /\ dish[b][d] = None
  BY <1>0, BillsAssumption
     DEF AddWrite, At, BillsInv, BillsHandler, BillSteps, BillRow, BillsAssumption
<1>3. /\ dish' = [dish EXCEPT ![b][d] = "live"]
      /\ Retotal(b, n, bill[b].discount, t)
      /\ req'[r].at = "idle" /\ calls' = calls
  BY <1>0, DoneIs DEF AddWrite
<1>4. t \in Int
  BY <1>2, PayableType
<1> HIDE DEF t
<1>5. /\ bill' \in [Bills -> BillRow]
      /\ bill'[b].subtotal = n /\ bill'[b].discount = bill[b].discount
      /\ bill'[b].total = t /\ bill'[b].outside = 0
      /\ \A c \in Bills \ {b} : bill'[c] = bill[c]
  <2>1. bill[b].discount \in Nat
    BY <1>2 DEF BillsInv, BillsTypeOK
  <2> QED  BY <1>2, <1>3, <1>4, <2>1, RetotalIs DEF BillsInv
<1>6. dish \in [Bills -> [Dishes -> {None, "live", "void"}]]
  BY DEF BillsInv, BillsTypeOK
<1>7. /\ dish' \in [Bills -> [Dishes -> {None, "live", "void"}]]
      /\ \A c \in Bills \ {b} : dish'[c] = dish[c]
      /\ dish'[b] = [dish[b] EXCEPT ![d] = "live"]
  BY <1>2, <1>3, <1>6
<1>8. BillsTypeOK' /\ BillsHandler(r)'
  BY <1>3, <1>5, <1>7 DEF BillsTypeOK, BillRow, BillsHandler
<1>9. ASSUME Alone, NEW c \in Bills PROVE AddsUp(c)'
  <2>0. AddsUp(c)
    BY <1>9 DEF BillsInv
  <2>1. CASE c = b
    <3>1. LiveDishes(b)' = LiveDishes(b) \cup {d} /\ d \notin LiveDishes(b)
      BY <1>2, <1>6, <1>7, <1>9, BillsAssumption DEF LiveDishes, BillsAssumption
    <3>2. LiveDishes(b) \in SUBSET Dishes
      BY DEF LiveDishes
    <3>3. Costs(LiveDishes(b)') = Costs(LiveDishes(b)) + DishPrice
      BY <1>2, <3>1, <3>2, CostsOfMore
    <3>4. Costs(LiveDishes(b)) \in Nat /\ DishPrice \in Nat /\ bill[b].subtotal \in Nat
      BY <1>2, <3>2, CostsType, BillsAssumption DEF BillsAssumption, BillsInv, BillsTypeOK
    <3>5. ~Counts(r) /\ \A q \in Handling \ {r} : req'[q] = req[q]
      BY <1>1 DEF AddWrite, At, Counts, Moves
    <3>6. /\ n >= Costs(LiveDishes(b)')
          /\ \/ "fail" \in calls \/ n = Costs(LiveDishes(b)')
             \/ \E q \in Handling : Counts(q) /\ req[q].on = b
      BY <1>2, <1>9, <2>0, <2>1, <3>3, <3>4 DEF AddsUp
    <3>7. bill'[b].total = Payable(bill'[b].subtotal, bill'[b].discount) + bill'[b].outside
      BY <1>2, <1>5, <1>9, AddsUpAnew DEF t
    <3> QED  BY <1>3, <1>5, <2>1, <3>5, <3>6, <3>7 DEF AddsUp, Counts, Costs
  <2>2. CASE c # b
    BY <1>0, <1>1, <1>2, <1>3, <1>5, <1>7, <2>0, <2>2, OthersAddUp DEF Moves
  <2> QED  BY <2>1, <2>2
<1> QED  BY <1>1, <1>8, <1>9, BillsStep

LEMMA VoidItemKeeps ==
    ASSUME Records, OneAtATime, BillsInv, NEW r \in Handling, VoidItem(r)
    PROVE  BillsInv'
<1>0. PICK b, d : b = req[r].on /\ d = req[r].arg
  OBVIOUS
<1>1. Moves(r, BillSteps) /\ Turn(r)
  BY BillsMoves, BillsTurns DEF BillsNext
<1>2. /\ b \in Bills /\ d \in Dishes /\ BillsHandler(r) /\ req[r].at = "voidItem"
  BY <1>0 DEF VoidItem, At, BillsInv, BillsHandler, BillSteps
<1>3. /\ dish' = [dish EXCEPT ![b][d] = "void"] /\ UNCHANGED <<calls, bill>>
      /\ req'[r].at = "recount" /\ req'[r].on = b /\ req'[r].seen = req[r].seen
      /\ \A q \in Handling \ {r} : req'[q] = req[q]
  BY <1>0, BeginIs DEF VoidItem, Then, Sees
<1>4. dish \in [Bills -> [Dishes -> {None, "live", "void"}]]
  BY DEF BillsInv, BillsTypeOK
<1>5. /\ dish' \in [Bills -> [Dishes -> {None, "live", "void"}]]
      /\ \A c \in Bills \ {b} : dish'[c] = dish[c]
      /\ dish'[b] = [dish[b] EXCEPT ![d] = "void"]
  BY <1>2, <1>3, <1>4
<1>6. BillsTypeOK' /\ BillsHandler(r)'
  BY <1>0, <1>2, <1>3, <1>5 DEF BillsInv, BillsTypeOK, BillsHandler, BillSteps, Alone
<1>7. ASSUME Alone, NEW c \in Bills PROVE AddsUp(c)'
  <2>0. AddsUp(c)
    BY <1>7 DEF BillsInv
  <2>1. CASE c = b
    <3>1. LiveDishes(b)' = LiveDishes(b) \ {d}
      BY <1>2, <1>4, <1>5 DEF LiveDishes
    <3>2. LiveDishes(b) \in SUBSET Dishes
      BY DEF LiveDishes
    <3>3. Costs(LiveDishes(b)') <= Costs(LiveDishes(b))
      <4>1. CASE d \in LiveDishes(b)
        <5>1. Costs(LiveDishes(b) \ {d}) <= Costs(LiveDishes(b))
          BY <3>2, <4>1, CostsOfLess
        <5> QED  BY <3>1, <5>1, Zenon
      <4>2. CASE d \notin LiveDishes(b)
        <5>1. LiveDishes(b)' = LiveDishes(b)
          BY <3>1, <4>2
        <5>2. Costs(LiveDishes(b)') = Costs(LiveDishes(b))
          BY <5>1, Zenon
        <5> QED  BY <3>2, <5>2, CostsType
      <4> QED  BY <4>1, <4>2
    <3>4. /\ Costs(LiveDishes(b)) \in Nat /\ Costs(LiveDishes(b)') \in Nat
          /\ bill[b].subtotal \in Nat
      BY <1>2, <3>2, <3>1, CostsType DEF BillsInv, BillsTypeOK
    <3>5. Counts(r)' /\ req'[r].on = b
      BY <1>3 DEF Counts
    <3>6. bill[b].subtotal >= Costs(LiveDishes(b)')
      BY <2>0, <2>1, <3>3, <3>4 DEF AddsUp
    <3> QED  BY <1>3, <2>0, <2>1, <3>5, <3>6 DEF AddsUp, Costs
  <2>2. CASE c # b
    BY <1>0, <1>2, <1>3, <1>5, <2>0, <2>2, OthersAddUp
  <2> QED  BY <2>1, <2>2
<1> QED  BY <1>1, <1>6, <1>7, BillsStep

LEMMA RecountKeeps ==
    ASSUME Records, OneAtATime, BillsInv, NEW r \in Handling, Recount(r)
    PROVE  BillsInv'
<1>0. PICK b, s : b = req[r].on /\ s = req[r].seen
  OBVIOUS
<1>1. Moves(r, BillSteps) /\ Turn(r)
  BY BillsMoves, BillsTurns DEF BillsNext
<1>2. /\ b \in Bills /\ s \in BillRow /\ req[r].at = "recount"
      /\ Alone => s.discount = bill[b].discount
  BY <1>0 DEF Recount, At, BillsInv, BillsHandler, BillSteps
<1>3. /\ UNCHANGED <<calls, bill, dish>>
      /\ req'[r].at = "voidTotal" /\ req'[r].on = b
      /\ req'[r].seen = [s EXCEPT !.subtotal = Costs(LiveDishes(b))]
      /\ \A q \in Handling \ {r} : req'[q] = req[q]
  BY <1>0, BeginIs DEF Recount, Sees, Remaining, billVars
<1>4. Costs(LiveDishes(b)) \in Nat /\ Costs(LiveDishes(b))' = Costs(LiveDishes(b))
  BY <1>3, CostsType DEF LiveDishes, Costs
<1>5. /\ req'[r].seen \in BillRow /\ req'[r].seen.discount = s.discount
      /\ req'[r].seen.subtotal = Costs(LiveDishes(b))
  BY <1>2, <1>3, <1>4 DEF BillRow
<1>6. BillsHandler(r)'
  BY <1>2, <1>3, <1>4, <1>5 DEF BillsHandler, Alone
<1>7. ASSUME Alone, NEW c \in Bills PROVE AddsUp(c)'
  <2>1. \A q \in Handling : Counts(q) => Counts(q)' /\ req'[q].on = req[q].on
    BY <1>0, <1>3 DEF Counts
  <2> QED  BY <1>3, <1>7, <2>1 DEF BillsInv, AddsUp, LiveDishes
<1> QED  BY <1>1, <1>3, <1>6, <1>7, BillsStep DEF BillsInv, BillsTypeOK

LEMMA VoidTotalKeeps ==
    ASSUME Records, OneAtATime, BillsInv, NEW r \in Handling, VoidTotal(r)
    PROVE  BillsInv'
<1>0. PICK b, n, m : b = req[r].on /\ n = req[r].seen.subtotal /\ m = req[r].seen.discount
  OBVIOUS
<1>1. Moves(r, BillSteps) /\ Turn(r)
  BY BillsMoves, BillsTurns DEF BillsNext
<1>2. /\ b \in Bills /\ n \in Nat /\ m \in Nat
      /\ Alone => m = bill[b].discount /\ n = Costs(LiveDishes(b))
  BY <1>0 DEF VoidTotal, At, BillsInv, BillsHandler, BillSteps, BillRow
<1>3. /\ Retotal(b, n, bill[b].discount, Payable(n, m))
      /\ UNCHANGED <<calls, dish>> /\ req'[r].at = "idle"
  BY <1>0, DoneIs DEF VoidTotal
<1>4. Payable(n, m) \in Int
  BY <1>2, PayableType
<1>5. /\ bill' \in [Bills -> BillRow]
      /\ bill'[b].subtotal = n /\ bill'[b].discount = bill[b].discount
      /\ bill'[b].total = Payable(n, m) /\ bill'[b].outside = 0
      /\ \A c \in Bills \ {b} : bill'[c] = bill[c]
  <2>1. bill[b].discount \in Nat
    BY <1>2 DEF BillsInv, BillsTypeOK
  <2> QED  BY <1>2, <1>3, <1>4, <2>1, RetotalIs DEF BillsInv
<1>6. BillsTypeOK' /\ BillsHandler(r)'
  BY <1>3, <1>5 DEF BillsInv, BillsTypeOK, BillRow, BillsHandler
<1>7. ASSUME Alone, NEW c \in Bills PROVE AddsUp(c)'
  <2>1. CASE c = b
    <3>1. Costs(LiveDishes(b))' = n
      BY <1>2, <1>3, <1>7 DEF LiveDishes, Costs
    <3>2. bill'[b].total = Payable(bill'[b].subtotal, bill'[b].discount) + bill'[b].outside
      BY <1>2, <1>5, <1>7, AddsUpAnew
    <3> QED  BY <1>2, <1>5, <2>1, <3>1, <3>2 DEF AddsUp
  <2>2. CASE c # b
    BY <1>0, <1>1, <1>2, <1>3, <1>5, <1>7, <2>2, OthersAddUp DEF Moves, BillsInv
  <2> QED  BY <2>1, <2>2
<1> QED  BY <1>1, <1>6, <1>7, BillsStep

LEMMA DiscountWriteKeeps ==
    ASSUME Records, OneAtATime, BillsInv, NEW r \in Handling, DiscountWrite(r)
    PROVE  BillsInv'
<1>0. PICK b, n, m : b = req[r].on /\ n = req[r].seen.subtotal /\ m = req[r].arg
  OBVIOUS
<1>1. Moves(r, BillSteps) /\ Turn(r)
  BY BillsMoves, BillsTurns DEF BillsNext
<1>2. b \in Bills /\ n \in Nat /\ m \in Nat /\ (Alone => n = bill[b].subtotal)
  BY <1>0 DEF DiscountWrite, At, BillsInv, BillsHandler, BillSteps, BillRow
<1>3. /\ Retotal(b, bill[b].subtotal, m, Payable(n, m))
      /\ UNCHANGED <<calls, dish>> /\ req'[r].at = "idle"
  BY <1>0, DoneIs DEF DiscountWrite
<1>4. Payable(n, m) \in Int
  BY <1>2, PayableType
<1>5. /\ bill' \in [Bills -> BillRow]
      /\ bill'[b].subtotal = bill[b].subtotal /\ bill'[b].discount = m
      /\ bill'[b].total = Payable(n, m) /\ bill'[b].outside = 0
      /\ \A c \in Bills \ {b} : bill'[c] = bill[c]
  <2>1. bill[b].subtotal \in Nat
    BY <1>2 DEF BillsInv, BillsTypeOK
  <2> QED  BY <1>2, <1>3, <1>4, <2>1, RetotalIs DEF BillsInv
<1>6. BillsTypeOK' /\ BillsHandler(r)'
  BY <1>3, <1>5 DEF BillsInv, BillsTypeOK, BillRow, BillsHandler
<1>7. ASSUME Alone, NEW c \in Bills PROVE AddsUp(c)'
  <2>0. AddsUp(c)
    BY <1>7 DEF BillsInv
  <2>1. CASE c = b
    <3>1. Costs(LiveDishes(b))' = Costs(LiveDishes(b))
      BY <1>3 DEF LiveDishes, Costs
    <3>2. bill'[b].total = Payable(bill'[b].subtotal, bill'[b].discount) + bill'[b].outside
      BY <1>2, <1>5, <1>7, AddsUpAnew
    <3>3. \A q \in Handling : Counts(q) => Counts(q)' /\ req'[q].on = req[q].on
      BY <1>1 DEF DiscountWrite, At, Counts, Moves
    <3> QED  BY <1>3, <1>5, <2>0, <2>1, <3>1, <3>2, <3>3 DEF AddsUp
  <2>2. CASE c # b
    BY <1>0, <1>1, <1>2, <1>3, <1>5, <2>0, <2>2, OthersAddUp DEF Moves
  <2> QED  BY <2>1, <2>2
<1> QED  BY <1>1, <1>6, <1>7, BillsStep

\* The others leave bills alone, and also who counts what remains of one.
LEMMA BillsStay ==
    ASSUME BillsInv, UNCHANGED <<calls, billVars>>,
           \A q \in Handling : /\ req'[q] = req[q] \/ req'[q].at \notin BillSteps \ {"idle"}
                               /\ Counts(q) /\ "fail" \notin calls => req'[q] = req[q]
    PROVE  BillsInv'
<1>1. BillsTypeOK' /\ \A c \in Bills : Costs(LiveDishes(c))' = Costs(LiveDishes(c))
  BY DEF BillsInv, BillsTypeOK, billVars, LiveDishes, Costs
<1>2. ASSUME NEW q \in Handling PROVE BillsHandler(q)'
  <2>1. BillsHandler(q)
    BY DEF BillsInv
  <2> QED  BY <1>1, <2>1 DEF BillsHandler, billVars, Alone
<1>3. ASSUME Alone, NEW c \in Bills PROVE AddsUp(c)'
  <2>1. AddsUp(c)
    BY <1>3 DEF BillsInv
  <2> QED  BY <1>1, <2>1 DEF AddsUp, Counts, billVars
<1> QED  BY <1>1, <1>2, <1>3 DEF BillsInv, Alone

LEMMA OthersMove ==
    ASSUME NEW r \in Handling, NEW S, S \cap BillSteps \subseteq {"idle"}, Moves(r, S),
           ~Counts(r)
    PROVE  \A q \in Handling : /\ req'[q] = req[q] \/ req'[q].at \notin BillSteps \ {"idle"}
                               /\ Counts(q) /\ "fail" \notin calls => req'[q] = req[q]
BY DEF Moves

LEMMA BillsInvNext ==
    Handlers /\ OneAtATime /\ BillsInv /\ [Next]_vars => BillsInv'
<1> SUFFICES ASSUME Records, OneAtATime, BillsInv, [Next]_vars PROVE BillsInv'
  BY DEF Handlers
<1>1. CASE BillsMove
  BY <1>1, OpenKeeps, TakeOffKeeps, AdvanceKeeps, ReadKeeps, AddWriteKeeps, VoidItemKeeps,
     RecountKeeps, VoidTotalKeeps, DiscountWriteKeeps
     DEF BillsMove, BillsNext, AddRead, VoidItemRead, DiscountRead
<1>2. CASE ~BillsMove
  <2>1. UNCHANGED <<calls, billVars>>
    <3>1. CASE Sales
      BY <1>2, <3>1, StampsMoves, PlatformHandlerMoves
         DEF Sales, BillsMove, PlatformMoves, SetAutoAccept, PushEnds, Moves
    <3>2. CASE ~Sales
      BY <3>2, NotSales DEF saleState, Elsewhere
    <3> QED  BY <3>1, <3>2
  <2> DEFINE Goes(q) == /\ req'[q] = req[q] \/ req'[q].at \notin BillSteps \ {"idle"}
                        /\ Counts(q) /\ "fail" \notin calls => req'[q] = req[q]
  <2>2. \A q \in Handling : Goes(q)
    <3> USE DEF ShopSteps, StampSteps, PlatformSteps, BillSteps, TenantSteps, DeliverySteps,
                StaffSteps
    <3>1. CASE UNCHANGED req
      BY <3>1
    <3>2. CASE Failure
      BY <3>2, DoneIs DEF Failure, Fails
    <3>3. CASE \E r \in Handling : LoyaltyNext(r) \/ ShopNext(r)
      BY <3>3, ShopMoves, ShopTurns, OthersMove
    <3>4. CASE \E r \in Handling : StampsNext(r)
      BY <3>4, StampsMoves, SalesTurns, OthersMove
    <3>5. CASE \E r \in Handling : PlatformNext(r)
      BY <3>5, PlatformHandlerMoves, SalesTurns, OthersMove
    <3>6. CASE \E r \in Handling : TenantsNext(r)
      BY <3>6, TenantMoves, OtherTurns, OthersMove
    <3>7. CASE \E r \in Handling : DeliveriesNext(r)
      BY <3>7, DeliveryMoves, OtherTurns, OthersMove
    <3>8. CASE \E r \in Handling : StaffNext(r)
      BY <3>8, StaffMoves, OtherTurns, OthersMove
    <3>9. \/ UNCHANGED req
          \/ Failure
          \/ \E r \in Handling : LoyaltyNext(r) \/ ShopNext(r)
          \/ \E r \in Handling : StampsNext(r) \/ PlatformNext(r)
          \/ \E r \in Handling : TenantsNext(r) \/ DeliveriesNext(r) \/ StaffNext(r)
      BY <1>2 DEF Next, vars, Shop, Sales, BillsMove, Tenancy, Delivering, Staffing,
                  InitCart, CartExpires, PlatformMoves, SetAutoAccept, PushEnds, TimePasses,
                  PeriodEnds, TrialEnds, CacheExpires, ManagersAct, Later, CreateShift,
                  UpdateShift, AddManualEntry
    <3> QED  BY <3>1, <3>2, <3>3, <3>4, <3>5, <3>6, <3>7, <3>8, <3>9
  <2> QED  BY <2>1, <2>2, BillsStay
<1> QED  BY <1>1, <1>2

LEMMA BillsInvHolds == Spec => []BillsInv
<1>1. Init => BillsInv
  <2> SUFFICES ASSUME Init PROVE BillsInv
    OBVIOUS
  <2>1. /\ bill = [b \in Bills |-> NoBill] /\ dish = [b \in Bills |-> [d \in Dishes |-> None]]
        /\ \A r \in Handling : req[r].at = "idle"
    BY DEF Init, RequestsInit, Quiet, BillsInit
  <2>2. BillsTypeOK
    BY <2>1 DEF BillsTypeOK, NoBill
  <2>3. ASSUME NEW b \in Bills PROVE AddsUp(b)
    <3>1. LiveDishes(b) = {}
      BY <2>1, BillsAssumption DEF LiveDishes, BillsAssumption
    <3>2. Cardinality({}) = 0
      BY FS_EmptySet, Zenon
    <3>3. Cardinality(LiveDishes(b)) = 0
      BY <3>1, <3>2, Zenon
    <3>4. Costs(LiveDishes(b)) = 0
      BY <3>3, BillsAssumption DEF Costs, BillsAssumption
    <3>5. /\ bill[b].subtotal = 0 /\ bill[b].discount = 0
          /\ bill[b].total = 0 /\ bill[b].outside = 0
      BY <2>1 DEF NoBill
    <3>6. Payable(0, 0) = 0
      BY BillsAssumption DEF Payable, BillsAssumption
    <3> QED  BY <3>4, <3>5, <3>6 DEF AddsUp
  <2> QED  BY <2>1, <2>2, <2>3 DEF BillsInv, BillsHandler
<1> QED  BY <1>1, BillsInvNext, HandlersHold, OneHolds, PTL DEF Spec

\* Bills add up, for any items, prices, charges and discounts: while handlers come
\* one after the other, the total is that of subtotal and discount, but for what the
\* web shop took off for points or a platform set before it was last computed; the
\* subtotal covers every item that is not void, also when a handler fails between its
\* statements, and is exactly their sum once nobody is at work and nothing failed.
THEOREM BillsAgree == Spec => []BillAgrees
<1>1. BillsInv => BillAgrees
  <2> SUFFICES ASSUME BillsInv, Alone, NEW b \in Bills
      PROVE  /\ bill[b].total =
                   Payable(bill[b].subtotal, bill[b].discount) + bill[b].outside
             /\ bill[b].subtotal >= Costs(LiveDishes(b))
             /\ "fail" \notin calls /\ (\A r \in Handling : Idle(r)) =>
                   bill[b].subtotal = Costs(LiveDishes(b))
    BY DEF BillAgrees, Alone
  <2>1. AddsUp(b)
    BY DEF BillsInv
  <2>2. (\A r \in Handling : Idle(r)) => \A r \in Handling : ~Counts(r)
    BY DEF Idle, Counts
  <2> QED  BY <2>1, <2>2 DEF AddsUp
<1> QED  BY <1>1, BillsInvHolds, PTL

-----------------------------------------------------------------------------
(* Stamps                                                                  *)

StampsHandler(r) ==
    LET q == req[r]
    IN  /\ q.at \in {"completeCard", "reward"} => q.on \in Customers
        /\ Alone => /\ q.at = "completeCard" => Required <= card[q.on].stamps
                    /\ q.at = "reward" => card[q.on].completed

\* A card is complete with enough stamps on it, and stamps pay once.
Backed(c) ==
    /\ card[c].completed => Required <= card[c].stamps
    /\ Required * rewards[c] + card[c].stamps <= given[c]

StampsInv ==
    /\ StampsTypeOK
    /\ \A r \in Handling : StampsHandler(r)
    /\ Alone => \A c \in Customers : Backed(c)

\* A handler takes a step: its own knowledge and the cards have to be looked at.
LEMMA StampsStep ==
    ASSUME OneAtATime, NEW r \in Handling, Turn(r), NEW S, Moves(r, S), StampsInv,
           StampsTypeOK', StampsHandler(r)',
           Alone => \A c \in Customers : Backed(c)'
    PROVE  StampsInv'
<1>1. ASSUME NEW q \in Handling \ {r} PROVE StampsHandler(q)'
  <2>1. req'[q] = req[q] /\ StampsHandler(q)
    BY DEF Moves, StampsInv
  <2>2. Alone => req[q].at = "idle"
    BY TurnIsAlone DEF Idle
  <2> QED  BY <2>1, <2>2 DEF StampsHandler, Moves, Alone
<1> QED  BY <1>1 DEF StampsInv, Moves, Alone

LEMMA StampsStay ==
    ASSUME StampsInv, UNCHANGED stampVars, calls' = calls,
           \A q \in Handling : req'[q] = req[q]
                                 \/ req'[q].at \notin {"completeCard", "reward"}
    PROVE  StampsInv'
BY DEF StampsInv, StampsTypeOK, StampsHandler, Backed, stampVars, Alone

LEMMA AddStampKeeps ==
    ASSUME Records, OneAtATime, StampsInv, NEW r \in Handling, NEW c \in Customers,
           NEW n \in 1..Required, AddStamp(r, c, n)
    PROVE  StampsInv'
<1> USE StampsAssumption
<1>1. Moves(r, StampSteps) /\ Turn(r)
  BY StampsMoves, SalesTurns DEF StampsNext
<1> DEFINE new == Stamped(card[c], n)
<1>2. /\ card' = [card EXCEPT ![c] = new] /\ given' = [given EXCEPT ![c] = @ + n]
      /\ UNCHANGED <<calls, rewards>>
  BY DEF AddStamp
<1>3. /\ card \in [Customers -> [exists : BOOLEAN, stamps : Nat, completed : BOOLEAN,
                                 redeemed : BOOLEAN]]
      /\ given \in [Customers -> Nat] /\ rewards \in [Customers -> Nat]
  BY DEF StampsInv, StampsTypeOK
<1>4. /\ new.stamps = card[c].stamps + n
      /\ new.completed = (card[c].completed \/ (~card[c].exists /\ n >= Required))
      /\ new \in [exists : BOOLEAN, stamps : Nat, completed : BOOLEAN, redeemed : BOOLEAN]
  <2>1. card[c] \in [exists : BOOLEAN, stamps : Nat, completed : BOOLEAN,
                     redeemed : BOOLEAN]
    BY <1>3
  <2>2. n \in Nat
    BY DEF StampsAssumption
  <2> DEFINE full == card[c].completed \/ (~card[c].exists /\ n >= Required)
  <2>3. full \in BOOLEAN
    OBVIOUS
  <2>4. new = [card[c] EXCEPT !.exists = TRUE, !.stamps = @ + n, !.completed = full]
    BY DEF Stamped
  <2> HIDE DEF new, full
  <2>5. new.completed = full
    BY <2>1, <2>4
  <2>6. full = (card[c].completed \/ (~card[c].exists /\ n >= Required))
    BY DEF full
  <2>7. new.stamps = card[c].stamps + n
    BY <2>1, <2>4
  <2>8. new \in [exists : BOOLEAN, stamps : Nat, completed : BOOLEAN, redeemed : BOOLEAN]
    <3> DEFINE m == card[c].stamps + n
               k == [card[c] EXCEPT !.exists = TRUE, !.stamps = m]
    <3>0. m \in Nat
      BY <2>1, <2>2
    <3> HIDE DEF m
    <3>1. k \in [exists : BOOLEAN, stamps : Nat, completed : BOOLEAN, redeemed : BOOLEAN]
      BY <2>1, <3>0
    <3> USE DEF m
    <3>2. new = [k EXCEPT !.completed = full]
      BY <2>1, <2>4
    <3> HIDE DEF k
    <3> QED  BY <2>3, <3>1, <3>2
  <2>9. new.completed = (card[c].completed \/ (~card[c].exists /\ n >= Required))
    BY <2>5, <2>6, Zenon
  <2> QED  BY <2>7, <2>8, <2>9
<1> HIDE DEF new
<1>5. StampsTypeOK'
  BY <1>2, <1>3, <1>4 DEF StampsTypeOK
<1>6. StampsHandler(r)'
  <2>1. CASE UNCHANGED req
    BY <2>1, <1>2, <1>3, <1>4 DEF AddStamp, Free, Takes, Idle, StampsHandler
  <2>2. CASE new.stamps >= Required /\ Begin(r, "completeCard", c, None, None)
    <3>1. req'[r].at = "completeCard" /\ req'[r].on = c
      BY <2>2, BeginIs
    <3>2. card'[c].stamps = new.stamps
      BY <1>2, <1>3
    <3> QED  BY <1>3, <1>4, <2>2, <3>1, <3>2 DEF StampsHandler
  <2> QED  BY <2>1, <2>2 DEF AddStamp, new
<1>7. ASSUME Alone, NEW d \in Customers PROVE Backed(d)'
  <2>1. Backed(d)
    BY <1>7 DEF StampsInv
  <2>2. CASE d # c
    BY <2>1, <2>2, <1>2, <1>3 DEF Backed
  <2>3. CASE d = c
    <3>1. card'[c] = new /\ given'[c] = given[c] + n /\ rewards'[c] = rewards[c]
      BY <1>2, <1>3
    <3>2. Required * rewards[c] \in Nat
      BY <1>3
    <3> QED  BY <2>1, <2>3, <3>1, <3>2, <1>3, <1>4 DEF Backed
  <2> QED  BY <2>2, <2>3
<1> QED  BY <1>1, <1>5, <1>6, <1>7, StampsStep

LEMMA CompleteCardKeeps ==
    ASSUME Records, OneAtATime, StampsInv, NEW r \in Handling, CompleteCard(r)
    PROVE  StampsInv'
<1>1. Moves(r, StampSteps) /\ Turn(r)
  BY StampsMoves, SalesTurns DEF StampsNext
<1> DEFINE c == req[r].on
<1>2. /\ card' = [card EXCEPT ![c].completed = TRUE] /\ UNCHANGED <<calls, given, rewards>>
      /\ c \in Customers /\ Alone => Required <= card[c].stamps
      /\ req'[r].at = "idle"
  BY DoneIs DEF CompleteCard, At, StampsInv, StampsHandler
<1>3. c \in Customers
  BY DEF CompleteCard, At, StampsInv, StampsHandler
<1> HIDE DEF c
<1>4. StampsTypeOK'
  BY <1>2, <1>3 DEF StampsInv, StampsTypeOK
<1>5. \A d \in Customers :
        /\ card'[d].stamps = card[d].stamps
        /\ card'[d].completed => card[d].completed \/ d = c
  BY <1>2 DEF StampsInv, StampsTypeOK
<1>6. Alone => \A d \in Customers : Backed(d)'
  BY <1>2, <1>3, <1>5 DEF StampsInv, Backed
<1>7. StampsHandler(r)'
  BY <1>2 DEF StampsHandler
<1> QED  BY <1>1, <1>4, <1>6, <1>7, StampsStep

LEMMA RewardWriteKeeps ==
    ASSUME Records, OneAtATime, StampsInv, NEW r \in Handling, RewardWrite(r)
    PROVE  StampsInv'
<1> USE StampsAssumption
<1>1. Moves(r, StampSteps) /\ Turn(r)
  BY StampsMoves, SalesTurns DEF StampsNext
<1> DEFINE c == req[r].on
<1>2. /\ card' = [card EXCEPT ![c] = Redeemed(@)] /\ rewards' = [rewards EXCEPT ![c] = @ + 1]
      /\ UNCHANGED <<calls, given>>
      /\ req'[r].at = "idle"
  BY DoneIs DEF RewardWrite, At
<1>3. c \in Customers /\ (Alone => card[c].completed)
  BY DEF RewardWrite, At, StampsInv, StampsHandler
<1> HIDE DEF c
<1>4. /\ card \in [Customers -> [exists : BOOLEAN, stamps : Nat, completed : BOOLEAN,
                                 redeemed : BOOLEAN]]
      /\ given \in [Customers -> Nat] /\ rewards \in [Customers -> Nat]
  BY DEF StampsInv, StampsTypeOK
<1>5. /\ card'[c].stamps = 0 /\ card'[c].completed = FALSE
      /\ rewards'[c] = rewards[c] + 1
      /\ \A d \in Customers \ {c} : card'[d] = card[d] /\ rewards'[d] = rewards[d]
  BY <1>2, <1>3, <1>4 DEF Redeemed
<1>6. StampsTypeOK'
  <2>1. card[c] \in [exists : BOOLEAN, stamps : Nat, completed : BOOLEAN,
                     redeemed : BOOLEAN]
    BY <1>3, <1>4
  <2>2. Redeemed(card[c]) \in [exists : BOOLEAN, stamps : Nat, completed : BOOLEAN,
                               redeemed : BOOLEAN]
    BY <2>1 DEF Redeemed
  <2>3. rewards[c] + 1 \in Nat
    BY <1>3, <1>4
  <2> QED  BY <1>2, <1>4, <2>2, <2>3 DEF StampsTypeOK
<1>7. ASSUME Alone, NEW d \in Customers PROVE Backed(d)'
  <2>1. Backed(d)
    BY <1>7 DEF StampsInv
  <2>2. CASE d # c
    BY <2>1, <2>2, <1>2, <1>5 DEF Backed
  <2>3. CASE d = c
    <3>1. Required <= card[c].stamps /\ Required * rewards[c] + card[c].stamps <= given[c]
      BY <1>3, <1>7, <2>1, <2>3 DEF Backed
    <3>2. Required * (rewards[c] + 1) = Required * rewards[c] + Required
      BY <1>3, <1>4
    <3>3. Required * rewards[c] \in Nat
      BY <1>3, <1>4
    <3>4. Required * (rewards[c] + 1) + 0 <= given[c]
      BY <1>3, <1>4, <3>1, <3>2, <3>3
    <3> QED  BY <1>2, <1>5, <2>3, <3>4 DEF Backed
  <2> QED  BY <2>2, <2>3
<1>8. StampsHandler(r)'
  BY <1>2 DEF StampsHandler
<1> QED  BY <1>1, <1>6, <1>7, <1>8, StampsStep

LEMMA RewardReadKeeps ==
    ASSUME Records, OneAtATime, StampsInv, NEW r \in Handling, NEW c \in Customers,
           RewardRead(r, c)
    PROVE  StampsInv'
<1>1. Moves(r, StampSteps) /\ Turn(r)
  BY StampsMoves, SalesTurns DEF StampsNext
<1>2. UNCHANGED stampVars /\ req'[r].at = "reward" /\ req'[r].on = c /\ card[c].completed
  BY BeginIs DEF RewardRead, Redeemable
<1>3. StampsTypeOK' /\ (Alone => \A d \in Customers : Backed(d)')
  BY <1>2 DEF StampsInv, StampsTypeOK, Backed, stampVars
<1>4. StampsHandler(r)'
  BY <1>2 DEF StampsHandler, stampVars
<1> QED  BY <1>1, <1>3, <1>4, StampsStep

LEMMA StampsInvNext ==
    Handlers /\ OneAtATime /\ StampsInv /\ [Next]_vars => StampsInv'
<1> SUFFICES ASSUME Records, OneAtATime, StampsInv, [Next]_vars PROVE StampsInv'
  BY DEF Handlers
<1>1. ASSUME NEW r \in Handling, StampsNext(r) PROVE StampsInv'
  BY <1>1, AddStampKeeps, CompleteCardKeeps, RewardWriteKeeps, RewardReadKeeps
     DEF StampsNext
<1>2. ASSUME UNCHANGED stampVars, NEW r \in Handling, PlatformNext(r) PROVE StampsInv'
  <2>1. /\ \A q \in Handling \ {r} : req'[q] = req[q]
        /\ req'[r] = req[r] \/ req'[r].at \notin {"completeCard", "reward"}
        /\ calls' = calls
    BY <1>2, BeginIs, DoneIs
       DEF PlatformNext, WebhookRead, ImportOrder, DecideRead, AnswerWebhook, DecideWrite,
           Then, Sees
  <2> QED  BY <1>2, <2>1, StampsStay
<1>3. CASE PlatformMoves /\ UNCHANGED stampVars
  BY <1>3, StampsStay DEF PlatformMoves, SetAutoAccept, PushEnds
<1>4. CASE ~Sales
  <2>1. /\ UNCHANGED stampVars /\ calls' = calls
        /\ Elsewhere(ShopSteps \cup TenantSteps \cup DeliverySteps \cup StaffSteps)
    BY <1>4, NotSales DEF saleState, Elsewhere
  <2> QED
    BY <2>1, StampsStay DEF Elsewhere, ShopSteps, TenantSteps, DeliverySteps, StaffSteps
<1>5. CASE UNCHANGED stampVars /\ BillsMove
  BY <1>5, BillsElsewhere, StampsStay DEF BillSteps
<1> QED  BY <1>1, <1>2, <1>3, <1>4, <1>5 DEF Sales, BillsMove

LEMMA StampsInvHolds == Spec => []StampsInv
<1>1. Init => StampsInv
  <2> SUFFICES ASSUME Init PROVE StampsInv
    OBVIOUS
  <2>1. /\ card = [c \in Customers |-> NoCard]
        /\ given = [c \in Customers |-> 0] /\ rewards = [c \in Customers |-> 0]
        /\ \A r \in Handling : req[r].at = "idle"
    BY DEF Init, RequestsInit, Quiet, StampsInit
  <2> QED
    BY <2>1, StampsAssumption DEF StampsInv, StampsTypeOK, StampsHandler, Backed, NoCard
<1> QED  BY <1>1, StampsInvNext, HandlersHold, OneHolds, PTL DEF Spec

\* Stamps pay for one thing only, however many statements fail: while handlers
\* come one after the other, the stamps on a card and those its rewards took were
\* all given.
THEOREM RewardsArePaidFor == Spec => []RewardsEarned
<1>1. StampsInv => RewardsEarned
  BY DEF StampsInv, RewardsEarned, Backed, Alone
<1> QED  BY <1>1, StampsInvHolds, PTL
-----------------------------------------------------------------------------
(* Delivery platforms                                                      *)

PlatformHandler(r) ==
    LET q == req[r]
    IN  /\ q.at = "import" => /\ q.on \in External /\ q.arg \in {"ACCEPTED", "PENDING"}
                              /\ Alone => ImportsOf(q.on) = {}
        /\ q.at = "answer" => q.on \in External /\ ImportsOf(q.on) # {}
        /\ q.at = "decide" => /\ q.on \in Imports /\ q.arg \in Answer
                              /\ import[q.on].ext \in External
                              /\ Alone => import[q.on].status = "PENDING"

\* Order x was imported, and answer a is what staff decided about it.
Decided(x, a) ==
    /\ ImportsOf(x) # {}
    /\ Alone => \A s \in ImportsOf(x) :
                   /\ import[s].status # "PENDING"
                   /\ (import[s].status = "ACCEPTED") <=> (a = "ACCEPTED")

ImportedOnce ==
    Alone => \A s, t \in Imports :
                import[s].ext # None /\ import[s].ext = import[t].ext => s = t

Told(x) ==
    /\ platform[x].answered => ImportsOf(x) # {}
    /\ platform[x].told # None => Decided(x, platform[x].told)

PlatformInv ==
    /\ PlatformTypeOK
    /\ \A r \in Handling : PlatformHandler(r)
    /\ \A x \in External : Told(x)
    /\ \A p \in pushes : Decided(p.ext, p.answer)
    /\ ImportedOnce

\* An order is imported for good.
ImportsKept == \A s \in Imports : import[s].ext # None => import'[s].ext = import[s].ext

LEMMA ImportsStay ==
    ASSUME ImportsKept, NEW x \in External, ImportsOf(x) # {}  PROVE ImportsOf(x)' # {}
BY ExternalAssumption DEF ImportsKept, ImportsOf

\* A handler takes a step: the others know what they knew.
LEMMA PlatformStep ==
    ASSUME OneAtATime, NEW r \in Handling, Turn(r), NEW S, Moves(r, S), PlatformInv, ImportsKept,
           PlatformTypeOK', PlatformHandler(r)', \A x \in External : Told(x)',
           \A p \in pushes' : Decided(p.ext, p.answer)', ImportedOnce'
    PROVE  PlatformInv'
<1>1. ASSUME NEW q \in Handling \ {r} PROVE PlatformHandler(q)'
  <2>1. req'[q] = req[q] /\ PlatformHandler(q)
    BY DEF Moves, PlatformInv
  <2>2. Alone' <=> Alone
    BY DEF Moves, Alone
  <2>3. Alone => req[q].at = "idle"
    BY TurnIsAlone DEF Idle
  <2>4. CASE req[q].at = "import"
    BY <2>1, <2>2, <2>3, <2>4 DEF PlatformHandler
  <2>5. CASE req[q].at = "answer"
    <3>1. req[q].on \in External /\ ImportsOf(req[q].on) # {}
      BY <2>1, <2>5 DEF PlatformHandler
    <3>2. ImportsOf(req[q].on)' # {}
      <4>1. \E s \in Imports : import[s].ext = req[q].on
        BY <3>1 DEF ImportsOf
      <4>2. \E s \in Imports : import'[s].ext = req'[q].on
        BY <2>1, <3>1, <4>1, ExternalAssumption DEF ImportsKept
      <4> QED  BY <4>2 DEF ImportsOf
    <3> QED  BY <2>1, <2>5, <3>1, <3>2 DEF PlatformHandler
  <2>6. CASE req[q].at = "decide"
    BY <2>1, <2>2, <2>3, <2>6, ExternalAssumption DEF PlatformHandler, ImportsKept
  <2> QED  BY <2>1, <2>4, <2>5, <2>6 DEF PlatformHandler
<1> QED  BY <1>1 DEF PlatformInv

\* Nothing of the platform's orders changes.
LEMMA PlatformStays ==
    ASSUME PlatformInv, UNCHANGED <<import, platform, pushes>>, autoAccept' \in BOOLEAN,
           calls' = calls,
           \A q \in Handling : req'[q] = req[q]
                                 \/ req'[q].at \notin {"import", "answer", "decide"}
    PROVE  PlatformInv'
<1>1. PlatformTypeOK' /\ ImportedOnce'
  BY DEF PlatformInv, PlatformTypeOK, ImportedOnce, Alone
<1>2. ASSUME NEW q \in Handling PROVE PlatformHandler(q)'
  <2>1. PlatformHandler(q)
    BY DEF PlatformInv
  <2> QED  BY <2>1 DEF PlatformHandler, ImportsOf, Alone
<1>3. \A x \in External : Told(x)'
  BY DEF PlatformInv, Told, Decided, ImportsOf, Alone
<1>4. \A p \in pushes' : Decided(p.ext, p.answer)'
  BY DEF PlatformInv, Decided, ImportsOf, Alone
<1> QED  BY <1>1, <1>2, <1>3, <1>4 DEF PlatformInv

\* A webhook that is answered tells no more than what is imported.
LEMMA AnsweredKeeps ==
    ASSUME PlatformInv, NEW x \in External, ImportsOf(x) # {}, Answered(x),
           UNCHANGED <<import, calls>>
    PROVE  /\ platform' \in [External -> [answered : BOOLEAN, told : Answer \cup {None}]]
           /\ \A y \in External : Told(y)'
<1>1. platform \in [External -> [answered : BOOLEAN, told : Answer \cup {None}]]
  BY DEF PlatformInv, PlatformTypeOK
<1>2. platform' \in [External -> [answered : BOOLEAN, told : Answer \cup {None}]]
  BY <1>1 DEF Answered
<1>3. \A y \in External : /\ platform'[y].told = platform[y].told
                          /\ y # x => platform'[y].answered = platform[y].answered
  BY <1>1 DEF Answered
<1>4. ASSUME NEW y \in External PROVE Told(y)'
  BY <1>3 DEF PlatformInv, Told, Decided, ImportsOf, Alone
<1> QED  BY <1>2, <1>4

LEMMA WebhookReadKeeps ==
    ASSUME Records, OneAtATime, PlatformInv, NEW r \in Handling, NEW x \in External,
           WebhookRead(r, x)
    PROVE  PlatformInv'
<1>1. Moves(r, PlatformSteps) /\ Turn(r)
  BY PlatformHandlerMoves, SalesTurns DEF PlatformNext
<1>2. UNCHANGED <<calls, autoAccept, import, pushes>> /\ ImportsKept /\ ImportedOnce'
  BY DEF WebhookRead, ImportsKept, ImportedOnce, PlatformInv, Alone
<1>3. \A p \in pushes' : Decided(p.ext, p.answer)'
  BY <1>2 DEF PlatformInv, Decided, ImportsOf, Alone
<1>4. CASE Duplicate(x)
  <2>1. Answered(x) /\ ImportsOf(x) # {} /\ req' = req
    BY <1>4 DEF WebhookRead, Duplicate
  <2>2. PlatformTypeOK' /\ \A y \in External : Told(y)'
    BY <1>2, <2>1, AnsweredKeeps DEF PlatformInv, PlatformTypeOK
  <2>3. PlatformHandler(r)'
    BY <1>2, <2>1 DEF PlatformInv, PlatformHandler, ImportsOf, Alone
  <2> QED  BY <1>1, <1>2, <1>3, <2>2, <2>3, PlatformStep
<1>5. CASE ~Duplicate(x)
  <2>1. /\ Begin(r, "import", x, IF autoAccept THEN "ACCEPTED" ELSE "PENDING", None)
        /\ platform' = platform /\ ImportsOf(x) = {}
    BY <1>5 DEF WebhookRead, Duplicate
  <2>2. /\ req'[r].at = "import" /\ req'[r].on = x
        /\ req'[r].arg = IF autoAccept THEN "ACCEPTED" ELSE "PENDING"
    BY <2>1, BeginIs
  <2>3. PlatformHandler(r)'
    BY <1>2, <2>1, <2>2 DEF PlatformHandler, ImportsOf
  <2>4. PlatformTypeOK' /\ \A y \in External : Told(y)'
    BY <1>2, <2>1 DEF PlatformInv, PlatformTypeOK, Told, Decided, ImportsOf, Alone
  <2> QED  BY <1>1, <1>2, <1>3, <2>3, <2>4, PlatformStep
<1> QED  BY <1>4, <1>5

LEMMA ImportOrderKeeps ==
    ASSUME Records, OneAtATime, PlatformInv, NEW r \in Handling, NEW s \in Imports,
           ImportOrder(r, s)
    PROVE  PlatformInv'
<1> DEFINE x == req[r].on
           a == req[r].arg
<1>1. Moves(r, PlatformSteps) /\ Turn(r)
  BY PlatformHandlerMoves, SalesTurns DEF PlatformNext
<1>2. /\ import[s].ext = None /\ import' = [import EXCEPT ![s] = [ext |-> x, status |-> a]]
      /\ UNCHANGED <<calls, autoAccept, platform, pushes>>
      /\ req'[r].at = "answer" /\ req'[r].on = x
  BY BeginIs DEF ImportOrder, NewImport, Takes, ImportsOf, Then, Sees
<1>3. x \in External /\ a \in {"ACCEPTED", "PENDING"} /\ (Alone => ImportsOf(x) = {})
  BY DEF ImportOrder, At, PlatformInv, PlatformHandler
<1> HIDE DEF x, a
<1>4. import \in [Imports -> [ext : External \cup {None}, status : ImportStatus]]
  BY DEF PlatformInv, PlatformTypeOK
<1>5. /\ import'[s].ext = x /\ \A t \in Imports \ {s} : import'[t] = import[t]
      /\ import' \in [Imports -> [ext : External \cup {None}, status : ImportStatus]]
  BY <1>2, <1>3, <1>4 DEF ImportStatus
<1>6. ImportsKept /\ PlatformTypeOK'
  BY <1>2, <1>5 DEF ImportsKept, PlatformInv, PlatformTypeOK
<1>7. PlatformHandler(r)'
  BY <1>2, <1>3, <1>5 DEF PlatformHandler, ImportsOf
<1>8. ImportedOnce'
  BY <1>2, <1>3, <1>5 DEF ImportedOnce, PlatformInv, ImportsOf, Alone
<1>9. ASSUME NEW y \in External, NEW b, Decided(y, b) PROVE Decided(y, b)'
  <2>1. ImportsOf(y)' # {}
    BY <1>6, <1>9, ImportsStay DEF Decided
  <2>2. Alone => y # x
    BY <1>3, <1>9 DEF Decided
  <2> QED  BY <1>2, <1>5, <1>9, <2>1, <2>2 DEF Decided, ImportsOf, Alone
<1>10. \A y \in External : Told(y)'
  BY <1>2, <1>6, <1>9, ImportsStay DEF PlatformInv, Told
<1>11. \A p \in pushes' : Decided(p.ext, p.answer)'
  BY <1>2, <1>9 DEF PlatformInv, PlatformTypeOK
<1> QED  BY <1>1, <1>6, <1>7, <1>8, <1>10, <1>11, PlatformStep

LEMMA AnswerWebhookKeeps ==
    ASSUME Records, OneAtATime, PlatformInv, NEW r \in Handling, AnswerWebhook(r)
    PROVE  PlatformInv'
<1>1. Moves(r, PlatformSteps) /\ Turn(r)
  BY PlatformHandlerMoves, SalesTurns DEF PlatformNext
<1>2. UNCHANGED <<calls, autoAccept, import, pushes>> /\ ImportsKept /\ ImportedOnce'
  BY DEF AnswerWebhook, ImportsKept, ImportedOnce, PlatformInv, Alone
<1>3. req[r].on \in External /\ ImportsOf(req[r].on) # {} /\ Answered(req[r].on)
  BY DEF AnswerWebhook, At, PlatformInv, PlatformHandler
<1>4. PlatformTypeOK' /\ \A y \in External : Told(y)'
  BY <1>2, <1>3, AnsweredKeeps DEF PlatformInv, PlatformTypeOK
<1>5. PlatformHandler(r)'
  BY DoneIs DEF AnswerWebhook, PlatformHandler
<1>6. \A p \in pushes' : Decided(p.ext, p.answer)'
  BY <1>2 DEF PlatformInv, Decided, ImportsOf, Alone
<1> QED  BY <1>1, <1>2, <1>4, <1>5, <1>6, PlatformStep

LEMMA DecideReadKeeps ==
    ASSUME Records, OneAtATime, PlatformInv, NEW r \in Handling, NEW s \in Imports,
           NEW a \in Answer, DecideRead(r, s, a)
    PROVE  PlatformInv'
<1>1. Moves(r, PlatformSteps) /\ Turn(r)
  BY PlatformHandlerMoves, SalesTurns DEF PlatformNext
<1>2. UNCHANGED <<calls, platformVars>>
  BY DEF DecideRead
<1>3. /\ req'[r].at = "decide" /\ req'[r].on = s /\ req'[r].arg = a
      /\ import[s].ext # None /\ import[s].status = "PENDING"
  BY BeginIs DEF DecideRead
<1>4. PlatformHandler(r)'
  BY <1>2, <1>3 DEF PlatformHandler, PlatformInv, PlatformTypeOK, platformVars
<1>5. ImportsKept /\ ImportedOnce' /\ PlatformTypeOK'
  BY <1>2 DEF PlatformInv, PlatformTypeOK, ImportedOnce, ImportsKept, Alone, platformVars
<1>6. /\ \A x \in External : Told(x)'
      /\ \A p \in pushes' : Decided(p.ext, p.answer)'
  BY <1>2 DEF PlatformInv, Told, Decided, ImportsOf, Alone, platformVars
<1> QED  BY <1>1, <1>4, <1>5, <1>6, PlatformStep

LEMMA DecideWriteKeeps ==
    ASSUME Records, OneAtATime, PlatformInv, NEW r \in Handling, DecideWrite(r)
    PROVE  PlatformInv'
<1>0. PICK s, a, x : s = req[r].on /\ a = req[r].arg /\ x = import[s].ext
  OBVIOUS
<1> DEFINE new == IF a = "ACCEPTED" THEN "ACCEPTED" ELSE "CANCELLED"
<1>1. Moves(r, PlatformSteps) /\ Turn(r)
  BY PlatformHandlerMoves, SalesTurns DEF PlatformNext
<1>2. /\ import' = [import EXCEPT ![s].status = new]
      /\ UNCHANGED <<calls, autoAccept, platform>>
      /\ pushes' \subseteq pushes \cup {[ext |-> x, answer |-> a]}
      /\ req'[r].at = "idle"
  BY <1>0, DoneIs DEF DecideWrite
<1>3. /\ s \in Imports /\ a \in Answer /\ x \in External
      /\ Alone => import[s].status = "PENDING"
  BY <1>0 DEF DecideWrite, At, PlatformInv, PlatformHandler
<1>4. new \in ImportStatus
  BY DEF ImportStatus
<1>5. import \in [Imports -> [ext : External \cup {None}, status : ImportStatus]]
  BY DEF PlatformInv, PlatformTypeOK
<1>6. /\ \A t \in Imports : import'[t].ext = import[t].ext
      /\ \A t \in Imports \ {s} : import'[t].status = import[t].status
      /\ import'[s].status = new
      /\ import' \in [Imports -> [ext : External \cup {None}, status : ImportStatus]]
  BY <1>2, <1>3, <1>4, <1>5
<1>7. ImportsKept /\ ImportedOnce' /\ \A z \in External : ImportsOf(z)' = ImportsOf(z)
  BY <1>2, <1>6 DEF ImportsKept, ImportedOnce, PlatformInv, ImportsOf, Alone
<1>8. \A p \in pushes' : p \in pushes \/ (p.ext = x /\ p.answer = a)
  BY <1>2
<1>9. PlatformTypeOK'
  BY <1>2, <1>3, <1>6 DEF PlatformInv, PlatformTypeOK
<1>10. new # "PENDING" /\ ((new = "ACCEPTED") <=> (a = "ACCEPTED"))
  OBVIOUS
<1> HIDE DEF new
<1>11. ASSUME NEW z \in External, NEW b, Decided(z, b) PROVE Decided(z, b)'
  <2>1. Alone => s \notin ImportsOf(z)
    BY <1>3, <1>11 DEF Decided
  <2> QED  BY <1>2, <1>6, <1>7, <1>11, <2>1 DEF Decided, ImportsOf, Alone
<1>12. Decided(x, a)'
  <2>1. s \in ImportsOf(x)
    BY <1>0, <1>3 DEF ImportsOf
  <2>2. Alone => \A t \in ImportsOf(x) : t = s
    BY <1>0, <1>3, ExternalAssumption DEF PlatformInv, ImportedOnce, ImportsOf
  <2>3. ImportsOf(x)' = ImportsOf(x)
    BY <1>6 DEF ImportsOf
  <2> QED  BY <1>2, <1>6, <1>10, <2>1, <2>2, <2>3 DEF Decided, Alone
<1>13. \A z \in External : Told(z)'
  BY <1>2, <1>7, <1>11 DEF PlatformInv, Told
<1>14. \A p \in pushes' : Decided(p.ext, p.answer)'
  BY <1>8, <1>11, <1>12 DEF PlatformInv, PlatformTypeOK
<1>15. PlatformHandler(r)'
  BY <1>2 DEF PlatformHandler
<1> QED  BY <1>1, <1>7, <1>9, <1>13, <1>14, <1>15, PlatformStep

LEMMA PushEndsKeeps ==
    ASSUME PlatformInv, NEW p \in [ext : External, answer : Answer], PushEnds(p)
    PROVE  PlatformInv'
<1>1. /\ platform' = [platform EXCEPT ![p.ext].told = p.answer] \/ platform' = platform
      /\ pushes' \subseteq pushes /\ p \in pushes
      /\ UNCHANGED <<calls, req, autoAccept, import>>
  BY DEF PushEnds
<1>2. platform \in [External -> [answered : BOOLEAN, told : Answer \cup {None}]]
  BY DEF PlatformInv, PlatformTypeOK
<1>3. PlatformTypeOK'
  BY <1>1, <1>2 DEF PlatformInv, PlatformTypeOK
<1>4. ASSUME NEW x, NEW a, Decided(x, a) PROVE Decided(x, a)'
  BY <1>1, <1>4 DEF Decided, ImportsOf, Alone
<1>5. ASSUME NEW x \in External PROVE Told(x)'
  <2>1. /\ platform'[x].answered = platform[x].answered
        /\ \/ platform'[x].told = platform[x].told
           \/ x = p.ext /\ platform'[x].told = p.answer
    BY <1>1, <1>2
  <2>2. Told(x) /\ Decided(p.ext, p.answer)
    BY <1>1 DEF PlatformInv
  <2>3. ImportsOf(x)' = ImportsOf(x)
    BY <1>1 DEF ImportsOf
  <2> QED  BY <1>4, <2>1, <2>2, <2>3 DEF Told
<1>6. \A q \in pushes' : Decided(q.ext, q.answer)'
  BY <1>1, <1>4 DEF PlatformInv
<1>7. (\A r \in Handling : PlatformHandler(r)') /\ ImportedOnce'
  BY <1>1 DEF PlatformInv, PlatformHandler, ImportedOnce, ImportsOf, Alone
<1> QED  BY <1>3, <1>5, <1>6, <1>7 DEF PlatformInv

LEMMA PlatformInvNext ==
    Handlers /\ OneAtATime /\ PlatformInv /\ [Next]_vars => PlatformInv'
<1> SUFFICES ASSUME Records, OneAtATime, PlatformInv, [Next]_vars PROVE PlatformInv'
  BY DEF Handlers
<1>1. CASE \E r \in Handling : PlatformNext(r)
  BY <1>1, WebhookReadKeeps, ImportOrderKeeps, AnswerWebhookKeeps, DecideReadKeeps,
     DecideWriteKeeps DEF PlatformNext
<1>2. CASE PlatformMoves
  <2>1. CASE SetAutoAccept
    BY <2>1, PlatformStays DEF SetAutoAccept, PlatformInv, PlatformTypeOK
  <2> QED  BY <1>2, <2>1, PushEndsKeeps DEF PlatformMoves
<1>3. ASSUME UNCHANGED platformVars, NEW r \in Handling, StampsNext(r) PROVE PlatformInv'
  <2>1. /\ \A q \in Handling \ {r} : req'[q] = req[q]
        /\ req'[r] = req[r] \/ req'[r].at \notin {"import", "answer", "decide"}
        /\ calls' = calls
    BY <1>3, BeginIs, DoneIs
       DEF StampsNext, RewardRead, AddStamp, CompleteCard, RewardWrite
  <2> QED
    BY <1>3, <2>1, PlatformStays DEF PlatformInv, PlatformTypeOK, platformVars
<1>4. CASE ~Sales
  <2>1. /\ UNCHANGED platformVars /\ calls' = calls
        /\ Elsewhere(ShopSteps \cup TenantSteps \cup DeliverySteps \cup StaffSteps)
    BY <1>4, NotSales DEF saleState, Elsewhere
  <2> QED
    BY <2>1, PlatformStays DEF Elsewhere, ShopSteps, TenantSteps, DeliverySteps, StaffSteps,
       platformVars, PlatformInv, PlatformTypeOK
<1>5. CASE UNCHANGED platformVars /\ BillsMove
  BY <1>5, BillsElsewhere, PlatformStays DEF BillSteps, platformVars, PlatformInv, PlatformTypeOK
<1> QED  BY <1>1, <1>2, <1>3, <1>4, <1>5 DEF Sales, BillsMove

LEMMA PlatformInvHolds == Spec => []PlatformInv
<1>1. Init => PlatformInv
  <2> SUFFICES ASSUME Init PROVE PlatformInv
    OBVIOUS
  <2>1. /\ autoAccept = FALSE /\ pushes = {}
        /\ import = [s \in Imports |-> [ext |-> None, status |-> "PENDING"]]
        /\ platform = [x \in External |-> [answered |-> FALSE, told |-> None]]
        /\ \A r \in Handling : req[r].at = "idle"
    BY DEF Init, RequestsInit, Quiet, PlatformInit
  <2>2. PlatformTypeOK
    BY <2>1 DEF PlatformTypeOK, ImportStatus
  <2> QED
    BY <2>1, <2>2 DEF PlatformInv, PlatformHandler, Told, ImportedOnce
<1> QED  BY <1>1, PlatformInvNext, HandlersHold, OneHolds, PTL DEF Spec

\* What a delivery platform was answered is in the kitchen's list, after a crash
\* and after webhooks that were repeated too; and while handlers come one after
\* the other it is there once, and the platform was told what staff decided,
\* however late.
THEOREM PlatformsAgree == Spec => []PlatformAgrees
<1>1. PlatformInv => PlatformAgrees
  <2> SUFFICES ASSUME PlatformInv, NEW x \in External
      PROVE  /\ platform[x].answered => ImportsOf(x) # {}
             /\ Alone => /\ Cardinality(ImportsOf(x)) <= 1
                         /\ \A s \in ImportsOf(x) : platform[x].told # None =>
                              (import[s].status = "ACCEPTED") = (platform[x].told = "ACCEPTED")
    BY DEF PlatformAgrees, Alone
  <2>1. Told(x)
    BY DEF PlatformInv
  <2>2. Alone => Cardinality(ImportsOf(x)) <= 1
    <3> SUFFICES ASSUME Alone PROVE Cardinality(ImportsOf(x)) <= 1
      OBVIOUS
    <3>1. CASE ImportsOf(x) = {}
      <4>1. Cardinality(ImportsOf(x)) = 0
        BY <3>1, FS_EmptySet, Zenon
      <4> QED  BY <4>1
    <3>2. CASE ImportsOf(x) # {}
      <4>1. PICK s \in Imports : import[s].ext = x
        BY <3>2 DEF ImportsOf
      <4>2. ImportsOf(x) = {s}
        BY <4>1, ExternalAssumption DEF PlatformInv, ImportedOnce, ImportsOf
      <4>3. Cardinality(ImportsOf(x)) = 1
        BY <4>2, FS_Singleton, Zenon
      <4> QED  BY <4>3
    <3> QED  BY <3>1, <3>2
  <2> QED  BY <2>1, <2>2 DEF Told, Decided
<1> QED  BY <1>1, PlatformInvHolds, PTL

-----------------------------------------------------------------------------
(* The users and the subscription of a tenant                              *)

TenantRow == [active : BOOLEAN, terminated : BOOLEAN, plan : Plans, trial : Trial]

\* No subscription is ever paused.
Unpaused == "pause" \notin calls

TenantHandler(r) ==
    LET q == req[r]
    IN  /\ q.at \in {"cacheUser", "staff", "unlock"} => q.on \in Users
        /\ q.at = "staff" => q.arg \in BOOLEAN
        /\ q.at = "setTenant" => \/ q.on = "trial" /\ q.arg = "extended"
                                 \/ q.on = "plan" /\ q.arg \in Plans
        /\ q.at = "createSub" => q.seen \in TenantRow
        /\ q.at = "subscription" => /\ q.on \in Methods
                                    /\ q.arg \in Plans
                                    /\ Unpaused => q.on \notin {"pause", "resume"}

Paid == sub.exists /\ sub.status = "ACTIVE" => sub.paid \/ sub.plan # "STARTER"

TenantInv ==
    /\ TenantsTypeOK
    /\ \A r \in Handling : TenantHandler(r)
    /\ Unpaused => sub.status # "PAUSED" /\ Paid

\* What another handler knows stays true.
LEMMA TenantHandlerStays ==
    ASSUME TenantInv, calls' = calls, NEW q \in Handling,
           req'[q] = req[q] \/ req'[q].at \notin TenantSteps \ {"idle"}
    PROVE  TenantHandler(q)'
<1>1. CASE req'[q] = req[q]
  <2>1. TenantHandler(q)
    BY DEF TenantInv
  <2> QED  BY <1>1, <2>1 DEF TenantHandler, Unpaused
<1>2. CASE req'[q].at \notin TenantSteps \ {"idle"}
  BY <1>2 DEF TenantHandler, TenantSteps
<1> QED  BY <1>1, <1>2

LEMMA TenantStep ==
    ASSUME TenantInv, calls' = calls, TenantsTypeOK',
           \A q \in Handling : req'[q] = req[q] \/ TenantHandler(q)',
           Unpaused => sub'.status # "PAUSED" /\ Paid'
    PROVE  TenantInv'
<1>1. \A q \in Handling : TenantHandler(q)'
  BY TenantHandlerStays
<1>2. Unpaused' = Unpaused
  BY DEF Unpaused
<1> QED  BY <1>1, <1>2 DEF TenantInv

\* A step that leaves the subscription.
LEMMA SubscriptionStays ==
    ASSUME TenantInv, calls' = calls, sub' = sub, TenantsTypeOK',
           \A q \in Handling : req'[q] = req[q] \/ TenantHandler(q)'
    PROVE  TenantInv'
<1>1. Unpaused => sub'.status # "PAUSED" /\ Paid'
  BY DEF TenantInv, Paid
<1> QED  BY <1>1, TenantStep

\* A handler that only reads.
LEMMA TenantReads ==
    ASSUME TenantInv, calls' = calls, UNCHANGED tenantVars, NEW r \in Handling,
           \A q \in Handling \ {r} : req'[q] = req[q], TenantHandler(r)'
    PROVE  TenantInv'
<1>1. TenantsTypeOK' /\ sub' = sub
  BY DEF TenantInv, TenantsTypeOK, tenantVars, accountVars
<1>2. \A q \in Handling : req'[q] = req[q] \/ TenantHandler(q)'
  OBVIOUS
<1> QED  BY <1>1, <1>2, SubscriptionStays

\* The steps that a handler takes without knowing anything.
Plainly == {"lock", "flushKeys", "flush", "expireTrial", "cancelDue", "activate"}

\* A handler ends, or goes on with a step that needs no knowledge.
LEMMA TenantDone ==
    ASSUME Records, NEW r \in Handling,
           \/ Done(r)
           \/ \E a \in Plainly : \E o, g, s : Begin(r, a, o, g, s)
    PROVE  \A q \in Handling : req'[q] = req[q] \/ TenantHandler(q)'
<1>1. CASE Done(r)
  BY <1>1, DoneIs DEF TenantHandler
<1>2. CASE \E a \in Plainly : \E o, g, s : Begin(r, a, o, g, s)
  BY <1>2, BeginIs DEF TenantHandler, Plainly
<1> QED  BY <1>1, <1>2

-----------------------------------------------------------------------------
(* The actions                                                             *)

LEMMA UserReadKeeps ==
    ASSUME Records, TenantInv, NEW r \in Handling, NEW u \in Users,
           \/ ValidateRead(r, u) \/ UnlockRead(r, u)
           \/ \E active \in BOOLEAN : StaffRead(r, u, active)
    PROVE  TenantInv'
<1>1. UNCHANGED <<calls, tenantVars>>
  BY DEF ValidateRead, UnlockRead, StaffRead
<1>2. PICK a \in {"cacheUser", "unlock", "staff"}, g \in BOOLEAN \cup {None} :
          Begin(r, a, u, g, None) /\ (a = "staff" => g \in BOOLEAN)
  BY DEF ValidateRead, UnlockRead, StaffRead
<1>3. TenantHandler(r)' /\ \A q \in Handling \ {r} : req'[q] = req[q]
  BY <1>2, BeginIs DEF TenantHandler
<1> QED  BY <1>1, <1>3, TenantReads

LEMMA AdminReadKeeps ==
    ASSUME Records, TenantInv, NEW r \in Handling,
           \/ \E how \in {"suspend", "terminate"} : LockRead(r, how)
           \/ ActivateRead(r) \/ CronRead(r) \/ FlushKeys(r)
    PROVE  TenantInv'
<1>1. UNCHANGED <<calls, tenantVars>>
  BY DEF LockRead, ActivateRead, CronRead, FlushKeys
<1>2. \E a \in Plainly : \E o, g, s : Begin(r, a, o, g, s)
  BY DEF LockRead, ActivateRead, CronRead, FlushKeys, Sees, Plainly
<1>3. \A q \in Handling : req'[q] = req[q] \/ TenantHandler(q)'
  BY <1>2, TenantDone
<1>4. TenantsTypeOK' /\ sub' = sub
  BY <1>1 DEF TenantInv, TenantsTypeOK, tenantVars, accountVars
<1> QED  BY <1>1, <1>3, <1>4, SubscriptionStays

LEMMA PlanReadKeeps ==
    ASSUME Records, TenantInv, NEW r \in Handling,
           ExtendTrial(r) \/ \E plan \in Plans : UpdatePlan(r, plan)
    PROVE  TenantInv'
<1>1. UNCHANGED <<calls, tenantVars>>
  BY DEF ExtendTrial, UpdatePlan
<1>2. CASE ExtendTrial(r)
  <2>1. Begin(r, "setTenant", "trial", "extended", None)
    BY <1>2 DEF ExtendTrial
  <2>2. TenantHandler(r)' /\ \A q \in Handling \ {r} : req'[q] = req[q]
    BY <2>1, BeginIs DEF TenantHandler
  <2> QED  BY <1>1, <2>2, TenantReads
<1>3. ASSUME NEW plan \in Plans, UpdatePlan(r, plan)
      PROVE  TenantInv'
  <2>1. Begin(r, "setTenant", "plan", plan, None)
    BY <1>3 DEF UpdatePlan
  <2>2. TenantHandler(r)' /\ \A q \in Handling \ {r} : req'[q] = req[q]
    BY <2>1, BeginIs DEF TenantHandler
  <2> QED  BY <1>1, <2>2, TenantReads
<1> QED  BY <1>2, <1>3

LEMMA EnsureReadKeeps ==
    ASSUME Records, TenantInv, NEW r \in Handling, EnsureRead(r)
    PROVE  TenantInv'
<1>1. UNCHANGED <<calls, tenantVars>> /\ Begin(r, "createSub", None, None, tenant)
  BY DEF EnsureRead
<1>2. tenant \in TenantRow
  BY DEF TenantInv, TenantsTypeOK, TenantRow
<1>3. TenantHandler(r)' /\ \A q \in Handling \ {r} : req'[q] = req[q]
  BY <1>1, <1>2, BeginIs DEF TenantHandler
<1> QED  BY <1>1, <1>3, TenantReads

\* Without a pause there is nothing to resume.
LEMMA BillingReadKeeps ==
    ASSUME Records, TenantInv, NEW r \in Handling, NEW method \in Methods, NEW plan \in Plans,
           BillingRead(r, method, plan)
    PROVE  TenantInv'
<1>1. /\ UNCHANGED <<calls, tenantVars>>
      /\ Begin(r, "subscription", method, plan, None)
      /\ method \in calls /\ Allowed(method)
  BY DEF BillingRead, Free
<1>2. Unpaused => method \notin {"pause", "resume"}
  BY <1>1 DEF TenantInv, Unpaused, Allowed
<1>3. TenantHandler(r)' /\ \A q \in Handling \ {r} : req'[q] = req[q]
  BY <1>1, <1>2, BeginIs DEF TenantHandler, Unpaused
<1> QED  BY <1>1, <1>3, TenantReads

\* The table of users, the keys in Redis and the tenant are written.
LEMMA AccountWriteKeeps ==
    ASSUME Records, TenantInv, NEW r \in Handling,
           \/ CacheUser(r) \/ StaffWrite(r) \/ Flush(r) \/ ActivateWrite(r)
           \/ SetTenant(r) \/ LockWrite(r) \/ UnlockWrite(r)
    PROVE  TenantInv'
<1>1. calls' = calls /\ sub' = sub
  BY DEF CacheUser, StaffWrite, Flush, ActivateWrite, SetTenant, LockWrite, UnlockWrite,
         accountVars
<1>2. TenantsTypeOK'
  <2> USE DEF TenantInv, TenantsTypeOK, TenantHandler, At, accountVars
  <2>1. CASE CacheUser(r) \/ StaffWrite(r) \/ Flush(r)
    BY <2>1 DEF CacheUser, StaffWrite, Flush
  <2>2. CASE ActivateWrite(r) \/ UnlockWrite(r)
    BY <2>2 DEF ActivateWrite, UnlockWrite
  <2>3. CASE SetTenant(r)
    BY <2>3 DEF SetTenant, Trial
  <2>4. CASE LockWrite(r)
    BY <2>4 DEF LockWrite
  <2> QED  BY <2>1, <2>2, <2>3, <2>4
<1>3. \/ Done(r)
      \/ \E a \in Plainly : \E o, g, s : Begin(r, a, o, g, s)
  BY DEF CacheUser, StaffWrite, Flush, ActivateWrite, SetTenant, LockWrite, UnlockWrite,
         Then, Sees, Plainly
<1> QED  BY <1>1, <1>2, <1>3, TenantDone, SubscriptionStays

LEMMA EnsureWriteKeeps ==
    ASSUME Records, TenantInv, NEW r \in Handling, EnsureWrite(r)
    PROVE  TenantInv'
<1>1. UNCHANGED <<calls, tenant, accountVars>> /\ Done(r)
  BY DEF EnsureWrite
<1>2. req[r].seen \in TenantRow
  BY DEF EnsureWrite, TenantInv, TenantHandler, At
<1>3. \/ sub' = sub
      \/ /\ sub' \in [exists : {TRUE}, status : {"TRIAL", "ACTIVE"}, plan : Plans,
                     over : BOOLEAN, cancel : {FALSE}, paid : {FALSE}]
         /\ sub'.status = "ACTIVE" => sub'.plan # "STARTER"
  BY <1>2 DEF EnsureWrite, NoSub, TenantRow
<1>4. TenantsTypeOK' /\ (Unpaused => sub'.status # "PAUSED" /\ Paid')
  BY <1>1, <1>3 DEF TenantInv, TenantsTypeOK, SubStatus, Paid, accountVars
<1> QED  BY <1>1, <1>4, TenantDone, TenantStep

LEMMA BillingWriteKeeps ==
    ASSUME Records, TenantInv, NEW r \in Handling, BillingWrite(r)
    PROVE  TenantInv'
<1>1. PICK method \in Methods, plan \in Plans :
          /\ Unpaused => method \notin {"pause", "resume"}
          /\ sub' = After(method, plan)
          /\ tenant' = IF method = "upgrade" THEN [tenant EXCEPT !.plan = plan] ELSE tenant
  BY DEF BillingWrite, TenantInv, TenantHandler, At
<1>2. UNCHANGED <<calls, accountVars>> /\ Done(r)
  BY DEF BillingWrite
<1>3. /\ sub' \in [exists : BOOLEAN, status : SubStatus, plan : Plans, over : BOOLEAN,
                   cancel : BOOLEAN, paid : BOOLEAN]
      /\ Unpaused => sub'.status # "PAUSED" /\ Paid'
  <2> USE <1>1 DEF After, TenantInv, TenantsTypeOK, SubStatus, Paid
  <2>1. CASE method = "upgrade"  BY <2>1
  <2>2. CASE method = "cancel"  BY <2>2
  <2>3. CASE method = "reactivate"  BY <2>3
  <2>4. CASE method = "pause"  BY <2>4
  <2>5. CASE method = "resume"  BY <2>5
  <2> QED  BY <2>1, <2>2, <2>3, <2>4, <2>5 DEF Methods
<1>4. TenantsTypeOK'
  BY <1>1, <1>2, <1>3 DEF TenantInv, TenantsTypeOK, accountVars
<1> QED  BY <1>2, <1>3, <1>4, TenantDone, TenantStep

LEMMA CronWriteKeeps ==
    ASSUME Records, TenantInv, NEW r \in Handling, ExpireTrial(r) \/ CancelDue(r)
    PROVE  TenantInv'
<1>1. UNCHANGED <<calls, tenant, accountVars>>
  BY DEF ExpireTrial, CancelDue
<1>2. sub' = sub \/ \E s \in {"PAST_DUE", "CANCELLED"} : sub' = [sub EXCEPT !.status = s]
  BY DEF ExpireTrial, CancelDue
<1>3. TenantsTypeOK' /\ (Unpaused => sub'.status # "PAUSED" /\ Paid')
  BY <1>1, <1>2 DEF TenantInv, TenantsTypeOK, SubStatus, Paid, accountVars
<1>4. \A q \in Handling : req'[q] = req[q] \/ TenantHandler(q)'
  BY TenantDone DEF ExpireTrial, CancelDue, Then, Sees, Plainly
<1> QED  BY <1>1, <1>3, <1>4, TenantStep

LEMMA TimeKeeps ==
    ASSUME TenantInv, TimePasses
    PROVE  TenantInv'
<1>1. UNCHANGED <<calls, req>>
  BY DEF TimePasses, PeriodEnds, TrialEnds, CacheExpires
<1>2. TenantsTypeOK'
  BY DEF TimePasses, PeriodEnds, TrialEnds, CacheExpires, TenantInv, TenantsTypeOK, Trial,
         accountVars
<1>3. sub' = sub \/ sub' = [sub EXCEPT !.over = TRUE]
  BY DEF TimePasses, PeriodEnds, TrialEnds, CacheExpires
<1>4. Unpaused => sub'.status # "PAUSED" /\ Paid'
  BY <1>3 DEF TenantInv, TenantsTypeOK, Paid
<1> QED  BY <1>1, <1>2, <1>4, TenantStep

LEMMA TenantInvInit == Init => TenantInv
<1> SUFFICES ASSUME Init PROVE TenantInv
  OBVIOUS
<1>1. TenantsInit /\ \A r \in Handling : req[r].at = "idle"
  BY DEF Init, RequestsInit, Quiet
<1>2. TenantsTypeOK /\ sub.status # "PAUSED" /\ Paid
  BY <1>1 DEF TenantsInit, TenantsTypeOK, NoSub, Trial, SubStatus, Plans, Paid
<1>3. \A r \in Handling : TenantHandler(r)
  BY <1>1 DEF TenantHandler
<1> QED  BY <1>2, <1>3 DEF TenantInv

LEMMA TenantInvNext == Records /\ TenantInv /\ [Next]_vars => TenantInv'
<1> SUFFICES ASSUME Records, TenantInv, [Next]_vars PROVE TenantInv'
  OBVIOUS
<1>1. ASSUME NEW r \in Handling, TenantsNext(r)
      PROVE  TenantInv'
  BY <1>1, UserReadKeeps, AdminReadKeeps, PlanReadKeeps, EnsureReadKeeps, BillingReadKeeps,
     AccountWriteKeeps, EnsureWriteKeeps, BillingWriteKeeps, CronWriteKeeps
     DEF TenantsNext, TenantsGoOn
<1>2. CASE Tenancy
  BY <1>1, <1>2, TimeKeeps DEF Tenancy
<1>3. CASE ~Tenancy
  <2> DEFINE S == ShopSteps \cup SalesSteps \cup DeliverySteps \cup StaffSteps
  <2>1. UNCHANGED tenantVars /\ Elsewhere(S)
    BY <1>3, NotTenancy
  <2>2. S \cap (TenantSteps \ {"idle"}) = {}
    BY DEF ShopSteps, SalesSteps, BillSteps, StampSteps, PlatformSteps, TenantSteps, StaffSteps, DeliverySteps
  <2> HIDE DEF S
  <2>3. \A q \in Handling : TenantHandler(q)'
    BY <2>1, <2>2, TenantHandlerStays DEF Elsewhere
  <2>4. TenantsTypeOK' /\ sub' = sub /\ calls' = calls
    BY <2>1 DEF TenantInv, TenantsTypeOK, tenantVars, accountVars, Elsewhere
  <2> QED  BY <2>3, <2>4, SubscriptionStays
<1> QED  BY <1>2, <1>3

LEMMA TenantInvHolds == Spec => []TenantInv
<1>1. Handlers => Records
  BY DEF Handlers
<1> QED  BY <1>1, HandlersHold, TenantInvInit, TenantInvNext, PTL DEF Spec

\* A trial ends in an invoice or not at all: unless it was paused, a subscription
\* that is ACTIVE is paid or began on a paid plan, however the owner's requests,
\* the super-admin's and the hourly job interleave and fail.
THEOREM SubscriptionsArePaid == Spec => []ActiveIsPaid
<1>1. TenantInv => ActiveIsPaid
  BY DEF TenantInv, ActiveIsPaid, Unpaused, Paid
<1> QED  BY <1>1, TenantInvHolds, PTL

-----------------------------------------------------------------------------
(* Deliveries                                                              *)

\* What has to have happened before a delivery is in a status.
Before(status) ==
    CASE status = "PICKED_UP"  -> {"ASSIGNED"}
      [] status = "IN_TRANSIT" -> {"ASSIGNED", "PICKED_UP"}
      [] status = "DELIVERED"  -> {"ASSIGNED", "PICKED_UP", "IN_TRANSIT"}
      [] OTHER                 -> {}

\* A delivery may be set to a status.
Reachable(d, status) ==
    /\ status \in Milestones => delivery[d].driver # None
    /\ Before(status) \subseteq stamps[d]

DeliveryHandler(r) ==
    LET q == req[r]
    IN  /\ q.at = "createDelivery" => q.on \in Parcels /\ q.arg \in Users \cup {None}
        /\ q.at = "assignDriver" => q.on \in Parcels /\ q.arg \in Users
        /\ q.at = "setStatus" => /\ q.on \in Parcels /\ Exists(q.on)
                                 /\ q.arg \in DeliveryStatus \ {"PENDING"}
                                 /\ Reachable(q.on, q.arg)

Delivery == [status : DeliveryStatus \cup {None}, driver : Users \cup {None}]

DeliveryInv ==
    /\ delivery \in [Parcels -> Delivery]
    /\ stamps \in [Parcels -> SUBSET DeliveryStatus]
    /\ \A d \in Parcels : /\ Exists(d) \/ delivery[d].driver = None
                          /\ Reachable(d, delivery[d].status)
                          /\ delivery[d].status \in Milestones =>
                                delivery[d].status \in stamps[d]
    /\ \A r \in Handling : DeliveryHandler(r)

\* Deliveries get on: a driver may be replaced, and stamps are added.
GetsOn(d) ==
    /\ Exists(d) => Exists(d)'
    /\ delivery[d].driver # None => delivery'[d].driver # None
    /\ stamps[d] \subseteq stamps'[d]

LEMMA SetGetsOn ==
    ASSUME DeliveryInv, NEW d \in Parcels, NEW status \in DeliveryStatus,
           NEW driver \in Users \cup {None}, Set(d, status, driver),
           status \in Milestones => driver # None,
           delivery[d].driver # None => driver # None,
           Before(status) \subseteq stamps[d]
    PROVE  /\ delivery' \in [Parcels -> Delivery]
           /\ stamps' \in [Parcels -> SUBSET DeliveryStatus]
           /\ \A p \in Parcels : /\ Exists(p)' \/ delivery'[p].driver = None
                                 /\ Reachable(p, delivery[p].status)'
                                 /\ delivery'[p].status \in Milestones =>
                                       delivery'[p].status \in stamps'[p]
                                 /\ GetsOn(p)
<1>1. /\ delivery' = [delivery EXCEPT ![d] = [status |-> status, driver |-> driver]]
      /\ stamps' = IF status = "PENDING" THEN stamps
                   ELSE [stamps EXCEPT ![d] = @ \cup {status}]
  BY DEF Set
<1>2. /\ delivery' \in [Parcels -> Delivery]
      /\ stamps' \in [Parcels -> SUBSET DeliveryStatus]
  BY <1>1 DEF DeliveryInv, Delivery
<1>3. /\ delivery'[d].status = status /\ delivery'[d].driver = driver
      /\ stamps[d] \subseteq stamps'[d]
      /\ status \in Milestones => status \in stamps'[d]
      /\ \A p \in Parcels \ {d} : delivery'[p] = delivery[p] /\ stamps'[p] = stamps[p]
  BY <1>1 DEF DeliveryInv, Milestones
<1>4. Exists(d)'
  BY <1>3, NoneAssumption DEF Exists
<1>5. ASSUME NEW p \in Parcels \ {d}
      PROVE  /\ Exists(p)' \/ delivery'[p].driver = None
             /\ Reachable(p, delivery[p].status)' /\ GetsOn(p)
             /\ delivery'[p].status \in Milestones => delivery'[p].status \in stamps'[p]
  BY <1>3 DEF DeliveryInv, Reachable, GetsOn, Exists
<1>6. /\ Reachable(d, delivery[d].status)' /\ GetsOn(d)
      /\ delivery'[d].status \in Milestones => delivery'[d].status \in stamps'[d]
  BY <1>3, <1>4 DEF Reachable, GetsOn
<1> QED  BY <1>2, <1>4, <1>5, <1>6

\* What a handler of deliveries knows stays true as deliveries get on.
LEMMA DeliveryHandlerStays ==
    ASSUME DeliveryInv, \A d \in Parcels : GetsOn(d), NEW q \in Handling,
           req'[q] = req[q] \/ req'[q].at \notin DeliverySteps \ {"idle"}
    PROVE  DeliveryHandler(q)'
<1>1. CASE req'[q] = req[q]
  <2>1. DeliveryHandler(q)
    BY DEF DeliveryInv
  <2> QED  BY <1>1, <2>1 DEF DeliveryHandler, Reachable, GetsOn
<1>2. CASE req'[q].at \notin DeliverySteps \ {"idle"}
  BY <1>2 DEF DeliveryHandler, DeliverySteps
<1> QED  BY <1>1, <1>2

LEMMA NothingDelivered ==
    ASSUME DeliveryInv, UNCHANGED deliveryVars
    PROVE  \A d \in Parcels : GetsOn(d)
BY DEF GetsOn, Exists, deliveryVars

\* A handler of deliveries that begins.
LEMMA DeliveryBegins ==
    ASSUME DeliveryInv, UNCHANGED deliveryVars, NEW r \in Handling,
           \A q \in Handling \ {r} : req'[q] = req[q], DeliveryHandler(r)'
    PROVE  DeliveryInv'
<1>1. \A q \in Handling : DeliveryHandler(q)'
  BY NothingDelivered, DeliveryHandlerStays
<1> QED  BY <1>1 DEF DeliveryInv, deliveryVars, Reachable, Exists

\* A handler of deliveries that writes.
LEMMA DeliveryWrites ==
    ASSUME Records, DeliveryInv, NEW r \in Handling, Done(r),
           NEW d \in Parcels, NEW status \in DeliveryStatus, NEW driver \in Users \cup {None},
           Set(d, status, driver),
           status \in Milestones => driver # None,
           delivery[d].driver # None => driver # None,
           Before(status) \subseteq stamps[d]
    PROVE  DeliveryInv'
<1>1. \A q \in Handling : req'[q] = req[q] \/ req'[q].at = "idle"
  BY DoneIs
<1>2. \A p \in Parcels : GetsOn(p)
  BY SetGetsOn
<1>3. \A q \in Handling : DeliveryHandler(q)'
  BY <1>1, <1>2, DeliveryHandlerStays
<1> QED  BY <1>3, SetGetsOn DEF DeliveryInv

LEMMA CreateReadKeeps ==
    ASSUME Records, DeliveryInv, NEW r \in Handling, NEW d \in Parcels,
           NEW u \in Users \cup {None}, CreateRead(r, d, u)
    PROVE  DeliveryInv'
<1>1. /\ UNCHANGED deliveryVars
      /\ Begin(r, "createDelivery", d, u, None)
  BY DEF CreateRead
<1>2. /\ req'[r].at = "createDelivery" /\ req'[r].on = d /\ req'[r].arg = u
      /\ \A q \in Handling \ {r} : req'[q] = req[q]
  BY <1>1, BeginIs
<1>3. DeliveryHandler(r)'
  BY <1>2 DEF DeliveryHandler
<1> QED  BY <1>1, <1>2, <1>3, DeliveryBegins

LEMMA AssignReadKeeps ==
    ASSUME Records, DeliveryInv, NEW r \in Handling, NEW d \in Parcels, NEW u \in Users,
           AssignRead(r, d, u)
    PROVE  DeliveryInv'
<1>1. /\ UNCHANGED deliveryVars
      /\ Begin(r, "assignDriver", d, u, None)
  BY DEF AssignRead
<1>2. /\ req'[r].at = "assignDriver" /\ req'[r].on = d /\ req'[r].arg = u
      /\ \A q \in Handling \ {r} : req'[q] = req[q]
  BY <1>1, BeginIs
<1>3. DeliveryHandler(r)'
  BY <1>2 DEF DeliveryHandler
<1> QED  BY <1>1, <1>2, <1>3, DeliveryBegins

\* A status that follows the one of the delivery may be set to it.
LEMMA NextReachable ==
    ASSUME DeliveryInv, NEW d \in Parcels, NEW to \in DeliveryStatus, Exists(d),
           \/ /\ to \in MANAGER_TRANSITIONS[delivery[d].status]
              /\ to = "ASSIGNED" => delivery[d].driver # None
           \/ to \in DRIVER_TRANSITIONS[delivery[d].status]
    PROVE  to # "PENDING" /\ Reachable(d, to)
<1>1. delivery[d].status \in DeliveryStatus
  BY DEF DeliveryInv, Delivery, Exists
<1>2. /\ Reachable(d, delivery[d].status)
      /\ delivery[d].status \in Milestones => delivery[d].status \in stamps[d]
  BY DEF DeliveryInv
<1>3. \/ delivery[d].status = "PENDING" /\ to \in {"ASSIGNED", "FAILED", "CANCELLED"}
      \/ delivery[d].status = "ASSIGNED" /\ to \in {"PICKED_UP", "FAILED", "CANCELLED"}
      \/ delivery[d].status = "PICKED_UP" /\ to \in {"IN_TRANSIT", "FAILED", "CANCELLED"}
      \/ delivery[d].status = "IN_TRANSIT" /\ to \in {"DELIVERED", "FAILED", "CANCELLED"}
  BY <1>1 DEF MANAGER_TRANSITIONS, DRIVER_TRANSITIONS, DeliveryStatus, Finished
<1>4. CASE to \in {"FAILED", "CANCELLED"}
  BY <1>4 DEF Reachable, Before, Milestones
<1>5. CASE delivery[d].status = "PENDING" /\ to = "ASSIGNED"
  BY <1>5 DEF Reachable, Before, Milestones, DRIVER_TRANSITIONS, DeliveryStatus
<1>6. CASE delivery[d].status = "ASSIGNED" /\ to = "PICKED_UP"
  BY <1>2, <1>6 DEF Reachable, Before, Milestones
<1>7. CASE delivery[d].status = "PICKED_UP" /\ to = "IN_TRANSIT"
  BY <1>2, <1>7 DEF Reachable, Before, Milestones
<1>8. CASE delivery[d].status = "IN_TRANSIT" /\ to = "DELIVERED"
  BY <1>2, <1>8 DEF Reachable, Before, Milestones
<1> QED  BY <1>3, <1>4, <1>5, <1>6, <1>7, <1>8

LEMMA StatusReadKeeps ==
    ASSUME Records, DeliveryInv, NEW r \in Handling, NEW d \in Parcels,
           NEW to \in DeliveryStatus,
           ManagerRead(r, d, to) \/ \E u \in Users : DriverRead(r, d, u, to)
    PROVE  DeliveryInv'
<1>1. /\ UNCHANGED deliveryVars
      /\ Begin(r, "setStatus", d, to, None)
      /\ Exists(d)
  BY DEF ManagerRead, DriverRead
<1>2. /\ req'[r].at = "setStatus" /\ req'[r].on = d /\ req'[r].arg = to
      /\ \A q \in Handling \ {r} : req'[q] = req[q]
  BY <1>1, BeginIs
<1>3. to # "PENDING" /\ Reachable(d, to)
  BY <1>1, NextReachable DEF ManagerRead, DriverRead
<1>4. DeliveryHandler(r)'
  BY <1>1, <1>2, <1>3 DEF DeliveryHandler, Reachable, Exists, deliveryVars
<1> QED  BY <1>1, <1>2, <1>4, DeliveryBegins

LEMMA CreateWriteKeeps ==
    ASSUME Records, DeliveryInv, NEW r \in Handling, CreateWrite(r)
    PROVE  DeliveryInv'
<1> DEFINE d == req[r].on
           u == req[r].arg
<1>1. d \in Parcels /\ u \in Users \cup {None} /\ Done(r)
  BY DEF CreateWrite, DeliveryInv, DeliveryHandler, At
<1>2. CASE Exists(d)
  <2>1. UNCHANGED deliveryVars
    BY <1>2 DEF CreateWrite
  <2>2. req'[r].at = "idle" /\ \A q \in Handling \ {r} : req'[q] = req[q]
    BY <1>1, DoneIs
  <2>3. DeliveryHandler(r)'
    BY <2>2 DEF DeliveryHandler
  <2> QED  BY <2>1, <2>2, <2>3, DeliveryBegins
<1>3. CASE ~Exists(d)
  <2> DEFINE status == IF u = None THEN "PENDING" ELSE "ASSIGNED"
  <2>1. Set(d, status, u)
    BY <1>3 DEF CreateWrite
  <2>2. /\ status \in DeliveryStatus
        /\ status \in Milestones => u # None
        /\ Before(status) = {}
    BY DEF DeliveryStatus, Milestones, Before
  <2>3. delivery[d].driver # None => u # None
    BY <1>1, <1>3 DEF DeliveryInv
  <2> HIDE DEF status
  <2> QED  BY <1>1, <2>1, <2>2, <2>3, DeliveryWrites
<1> QED  BY <1>2, <1>3

LEMMA AssignWriteKeeps ==
    ASSUME Records, DeliveryInv, NEW r \in Handling, AssignWrite(r)
    PROVE  DeliveryInv'
<1>1. /\ req[r].on \in Parcels /\ req[r].arg \in Users /\ Done(r)
      /\ Set(req[r].on, "ASSIGNED", req[r].arg)
  BY DEF AssignWrite, DeliveryInv, DeliveryHandler, At
<1>2. "ASSIGNED" \in DeliveryStatus /\ Before("ASSIGNED") = {}
  BY DEF DeliveryStatus, Before
<1>3. req[r].arg # None
  BY <1>1, NoneAssumption
<1> QED  BY <1>1, <1>2, <1>3, DeliveryWrites

LEMMA StatusWriteKeeps ==
    ASSUME Records, DeliveryInv, NEW r \in Handling, StatusWrite(r)
    PROVE  DeliveryInv'
<1>1. PICK d \in Parcels, to \in DeliveryStatus, driver \in Users \cup {None} :
          Reachable(d, to) /\ Set(d, to, driver) /\ driver = delivery[d].driver
  BY DEF StatusWrite, SetStatus, DeliveryInv, DeliveryHandler, Delivery, At
<1>2. /\ to \in Milestones => driver # None
      /\ Before(to) \subseteq stamps[d]
      /\ delivery[d].driver # None => driver # None
  BY <1>1 DEF Reachable
<1>3. Done(r)
  BY DEF StatusWrite
<1>4. Set(d, to, driver)
  BY <1>1
<1> QED  BY <1>2, <1>3, <1>4, DeliveryWrites

LEMMA DeliveryInvInit == Init => DeliveryInv
<1> SUFFICES ASSUME Init PROVE DeliveryInv
  OBVIOUS
<1>1. /\ delivery = [d \in Parcels |-> [status |-> None, driver |-> None]]
      /\ stamps = [d \in Parcels |-> {}]
      /\ \A r \in Handling : req[r].at = "idle"
  BY DEF Init, RequestsInit, DeliveriesInit, Quiet
<1>2. /\ None \notin Milestones /\ Before(None) = {}
  BY NoneAssumption DEF Milestones, DeliveryStatus, Finished, Before
<1>3. \A r \in Handling : DeliveryHandler(r)
  BY <1>1 DEF DeliveryHandler
<1>4. \A d \in Parcels : Reachable(d, delivery[d].status)
  BY <1>1, <1>2 DEF Reachable
<1> QED  BY <1>1, <1>2, <1>3, <1>4 DEF DeliveryInv, Delivery, Exists

LEMMA DeliveryInvNext == Records /\ DeliveryInv /\ [Next]_vars => DeliveryInv'
<1> SUFFICES ASSUME Records, DeliveryInv, [Next]_vars PROVE DeliveryInv'
  OBVIOUS
<1>1. CASE Delivering
  BY <1>1, CreateReadKeeps, AssignReadKeeps, StatusReadKeeps, CreateWriteKeeps,
     AssignWriteKeeps, StatusWriteKeeps DEF Delivering, DeliveriesNext
<1>2. CASE ~Delivering
  <2> DEFINE S == ShopSteps \cup SalesSteps \cup TenantSteps \cup StaffSteps
  <2>1. UNCHANGED deliveryVars /\ Elsewhere(S)
    BY <1>2, NotDelivering
  <2>2. S \cap (DeliverySteps \ {"idle"}) = {}
    BY DEF ShopSteps, SalesSteps, BillSteps, StampSteps, PlatformSteps, TenantSteps, StaffSteps, DeliverySteps
  <2> HIDE DEF S
  <2>3. \A q \in Handling : DeliveryHandler(q)'
    BY <2>1, <2>2, NothingDelivered, DeliveryHandlerStays DEF Elsewhere
  <2> QED  BY <2>1, <2>3 DEF DeliveryInv, deliveryVars, Reachable, Exists
<1> QED  BY <1>1, <1>2

LEMMA DeliveryInvHolds == Spec => []DeliveryInv
<1>1. Spec => []Records
  <2>1. Handlers => Records
    BY DEF Handlers
  <2> QED  BY <2>1, HandlersHold, PTL
<1> QED  BY <1>1, DeliveryInvInit, DeliveryInvNext, PTL DEF Spec

\* What the tracking page shows is so: whoever sets the statuses of a delivery,
\* and however their handlers overtake each other, it is not delivered without a
\* driver or before it was assigned, picked up and on its way.
THEOREM DeliveriesAreTracked == Spec => []DeliveredIsTracked
<1>1. DeliveryInv => DeliveredIsTracked
  BY DEF DeliveryInv, DeliveredIsTracked, Reachable, Before, Milestones
<1> QED  BY <1>1, DeliveryInvHolds, PTL

-----------------------------------------------------------------------------
(* Shifts                                                                  *)

\* Nobody edits shifts or entries by hand, and no shift goes on after midnight.
Plain == calls \cap {"updateShift", "manualEntry", "night"} = {}

Over(s) == day[s] = "over"
Missable(s) == Over(s) /\ ~Worked(s)

StaffHandler(r) ==
    LET q == req[r]
    IN  /\ q.at = "clockIn" => /\ q.on \in Users
                               /\ q.arg \in Shifts \cup {None}
                               /\ q.seen \in Entries
        /\ q.at = "clockOut" => q.seen \in Entries
        /\ q.at = "linkShift" => q.on \in Shifts /\ q.arg \in {"IN_PROGRESS", "COMPLETED"}
        /\ q.at \in {"missed", "markMissed"} => /\ q.seen \subseteq Shifts
                                                /\ Plain => \A s \in q.seen : Over(s)
        /\ q.at = "markMissed" => q.on \in Shifts /\ (Plain => Missable(q.on))

StaffInv ==
    /\ StaffTypeOK
    /\ \A r \in Handling : StaffHandler(r)
    /\ Plain => \A s \in Shifts : /\ day[s] # "night"
                                  /\ shift[s] = "MISSED" => Missable(s)

\* What a step may do to the shifts: one that is over stays over, and nobody
\* clocks in for it any more.
Passing ==
    /\ calls' = calls
    /\ Plain => \A s \in Shifts : /\ Over(s) => Over(s)'
                                  /\ Missable(s) => Missable(s)'

LEMMA StaffHandlerStays ==
    ASSUME StaffInv, Passing, NEW q \in Handling,
           req'[q] = req[q] \/ req'[q].at \notin StaffSteps \ {"idle"}
    PROVE  StaffHandler(q)'
<1>1. CASE req'[q] = req[q]
  <2>1. StaffHandler(q)
    BY DEF StaffInv
  <2>2. Plain' = Plain
    BY DEF Passing, Plain
  <2> QED  BY <1>1, <2>1, <2>2 DEF StaffHandler, Passing
<1>2. CASE req'[q].at \notin StaffSteps \ {"idle"}
  BY <1>2 DEF StaffHandler, StaffSteps
<1> QED  BY <1>1, <1>2

\* A step of the staff's, of a handler or without one.
LEMMA StaffStep ==
    ASSUME StaffInv, StaffTypeOK', Passing,
           \A q \in Handling : req'[q] = req[q] \/ StaffHandler(q)',
           Plain => \A s \in Shifts : /\ day'[s] # "night"
                                      /\ shift'[s] = "MISSED" =>
                                            shift[s] = "MISSED" \/ Missable(s)
    PROVE  StaffInv'
<1>1. \A q \in Handling : StaffHandler(q)'
  BY StaffHandlerStays
<1>2. Plain' = Plain
  BY DEF Passing, Plain
<1>3. Plain => \A s \in Shifts : /\ day'[s] # "night"
                                 /\ shift'[s] = "MISSED" => Missable(s)'
  BY DEF StaffInv, Passing
<1> QED  BY <1>1, <1>2, <1>3 DEF StaffInv

LEMMA NothingPasses ==
    ASSUME calls' = calls, UNCHANGED <<day, entry>>
    PROVE  Passing
BY DEF Passing, Over, Missable, Worked

\* A handler that only reads, and knows what it should afterwards.
LEMMA StaffReads ==
    ASSUME StaffInv, calls' = calls, UNCHANGED staffVars, NEW r \in Handling,
           \A q \in Handling \ {r} : req'[q] = req[q], StaffHandler(r)'
    PROVE  StaffInv'
<1>1. Passing
  BY NothingPasses DEF staffVars
<1>2. StaffTypeOK'
  BY DEF StaffInv, StaffTypeOK, staffVars
<1>3. \A q \in Handling : req'[q] = req[q] \/ StaffHandler(q)'
  OBVIOUS
<1>4. Plain => \A s \in Shifts : day'[s] # "night" /\ shift'[s] = shift[s]
  BY DEF StaffInv, staffVars
<1> QED  BY <1>1, <1>2, <1>3, <1>4, StaffStep

\* A handler that goes on to link the shift, or ends.
LEMMA LinkKnows ==
    ASSUME Records, NEW r \in Handling, NEW s \in Shifts,
           NEW g \in {"IN_PROGRESS", "COMPLETED"},
           Done(r) \/ Begin(r, "linkShift", s, g, None)
    PROVE  \A q \in Handling : req'[q] = req[q] \/ StaffHandler(q)'
<1>1. CASE Done(r)
  BY <1>1, DoneIs DEF StaffHandler
<1>2. CASE Begin(r, "linkShift", s, g, None)
  BY <1>2, BeginIs DEF StaffHandler
<1> QED  BY <1>1, <1>2

LEMMA DoneKnows ==
    ASSUME Records, NEW r \in Handling, Done(r)
    PROVE  \A q \in Handling : req'[q] = req[q] \/ StaffHandler(q)'
BY DoneIs DEF StaffHandler

LEMMA ClockReadKeeps ==
    ASSUME Records, StaffInv, NEW r \in Handling, NEW u \in Users, NEW e \in Entries,
           \/ \E s \in Shifts \cup {None} : ClockInRead(r, u, s, e)
           \/ ClockOutRead(r, u, e)
    PROVE  StaffInv'
<1>1. CASE \E s \in Shifts \cup {None} : ClockInRead(r, u, s, e)
  <2>1. PICK s \in Shifts \cup {None} : ClockInRead(r, u, s, e)
    BY <1>1
  <2>2. UNCHANGED staffVars /\ calls' = calls /\ Begin(r, "clockIn", u, s, e)
    BY <2>1 DEF ClockInRead
  <2>3. /\ req'[r].at = "clockIn" /\ req'[r].on = u /\ req'[r].arg = s /\ req'[r].seen = e
        /\ \A q \in Handling \ {r} : req'[q] = req[q]
    BY <2>2, BeginIs
  <2>4. StaffHandler(r)'
    BY <2>3 DEF StaffHandler
  <2> QED  BY <2>2, <2>3, <2>4, StaffReads
<1>2. CASE ClockOutRead(r, u, e)
  <2>1. UNCHANGED staffVars /\ calls' = calls /\ Begin(r, "clockOut", None, None, e)
    BY <1>2 DEF ClockOutRead
  <2>2. /\ req'[r].at = "clockOut" /\ req'[r].seen = e
        /\ \A q \in Handling \ {r} : req'[q] = req[q]
    BY <2>1, BeginIs
  <2>3. StaffHandler(r)'
    BY <2>2 DEF StaffHandler
  <2> QED  BY <2>1, <2>2, <2>3, StaffReads
<1> QED  BY <1>1, <1>2

\* The entry counts for shifts that are on, none of which is over.
LEMMA ClockInKeeps ==
    ASSUME Records, StaffInv, NEW r \in Handling, ClockInWrite(r)
    PROVE  StaffInv'
<1>1. PICK u \in Users, g \in Shifts \cup {None}, e \in Entries :
          /\ entry' = [entry EXCEPT ![e] = [user |-> u, shift |-> g,
                                            inTime |-> Running(u), open |-> TRUE]]
          /\ IF g = None THEN Done(r) ELSE Begin(r, "linkShift", g, "IN_PROGRESS", None)
  BY DEF ClockInWrite, StaffInv, StaffHandler, At
<1>2. UNCHANGED <<calls, day, shift>>
  BY DEF ClockInWrite
<1>3. Running(u) \subseteq Shifts /\ \A s \in Running(u) : ~Over(s)
  BY DEF Running, Over
<1>4. StaffTypeOK'
  BY <1>1, <1>2, <1>3 DEF StaffInv, StaffTypeOK
<1>5. Passing
  <2>1. /\ entry'[e].inTime = Running(u)
        /\ \A f \in Entries \ {e} : entry'[f] = entry[f]
    BY <1>1 DEF StaffInv, StaffTypeOK
  <2> QED  BY <1>2, <1>3, <2>1 DEF Passing, Over, Missable, Worked
<1>6. \A q \in Handling : req'[q] = req[q] \/ StaffHandler(q)'
  BY <1>1, DoneKnows, LinkKnows
<1> QED  BY <1>2, <1>4, <1>5, <1>6, StaffStep DEF StaffInv

LEMMA ClockOutKeeps ==
    ASSUME Records, StaffInv, NEW r \in Handling, ClockOutWrite(r)
    PROVE  StaffInv'
<1>1. PICK e \in Entries :
          /\ entry' = [entry EXCEPT ![e].open = FALSE]
          /\ IF entry[e].shift = None THEN Done(r)
             ELSE Begin(r, "linkShift", entry[e].shift, "COMPLETED", None)
  BY DEF ClockOutWrite, StaffInv, StaffHandler, At
<1>2. UNCHANGED <<calls, day, shift>>
  BY DEF ClockOutWrite
<1>3. StaffTypeOK'
  BY <1>1, <1>2 DEF StaffInv, StaffTypeOK
<1>4. Passing
  <2>1. \A f \in Entries : entry'[f].inTime = entry[f].inTime
    BY <1>1 DEF StaffInv, StaffTypeOK
  <2> QED  BY <1>2, <2>1 DEF Passing, Over, Missable, Worked
<1>5. entry[e].shift \in Shifts \cup {None}
  BY DEF StaffInv, StaffTypeOK
<1>6. \A q \in Handling : req'[q] = req[q] \/ StaffHandler(q)'
  BY <1>1, <1>5, DoneKnows, LinkKnows
<1> QED  BY <1>2, <1>3, <1>4, <1>6, StaffStep DEF StaffInv

LEMMA LinkShiftKeeps ==
    ASSUME Records, StaffInv, NEW r \in Handling, LinkShift(r)
    PROVE  StaffInv'
<1>1. PICK s \in Shifts, g \in {"IN_PROGRESS", "COMPLETED"} :
          shift' = IF shift[s] = None THEN shift ELSE [shift EXCEPT ![s] = g]
  BY DEF LinkShift, StaffInv, StaffHandler, At
<1>2. UNCHANGED <<calls, day, entry>> /\ Done(r)
  BY DEF LinkShift
<1>3. StaffTypeOK'
  BY <1>1, <1>2 DEF StaffInv, StaffTypeOK, ShiftStatus
<1>4. \A t \in Shifts : shift'[t] = "MISSED" => shift[t] = "MISSED"
  BY <1>1 DEF StaffInv, StaffTypeOK
<1>5. Passing
  BY <1>2, NothingPasses
<1> QED  BY <1>2, <1>3, <1>4, <1>5, DoneKnows, StaffStep DEF StaffInv

\* Without a night shift, those that began yesterday are over.
LEMMA MissedReadKeeps ==
    ASSUME Records, StaffInv, NEW r \in Handling, MissedRead(r)
    PROVE  StaffInv'
<1> DEFINE S == {s \in Shifts : shift[s] = "SCHEDULED" /\ day[s] \in {"night", "over"}}
<1>1. UNCHANGED staffVars /\ calls' = calls /\ Begin(r, "missed", None, None, S)
  BY DEF MissedRead
<1>2. S \subseteq Shifts /\ (Plain => \A s \in S : Over(s))
  BY DEF StaffInv, Over
<1> HIDE DEF S
<1>3. /\ req'[r].at = "missed" /\ req'[r].seen = S
      /\ \A q \in Handling \ {r} : req'[q] = req[q]
  BY <1>1, BeginIs
<1>4. Plain' = Plain /\ \A s \in Shifts : Over(s)' = Over(s)
  BY <1>1 DEF Plain, Over, staffVars
<1>5. StaffHandler(r)'
  BY <1>2, <1>3, <1>4 DEF StaffHandler
<1> QED  BY <1>1, <1>3, <1>5, StaffReads

LEMMA MissedCheckKeeps ==
    ASSUME Records, StaffInv, NEW r \in Handling, NEW s \in Shifts, MissedCheck(r, s)
    PROVE  StaffInv'
<1> DEFINE step == IF Worked(s) THEN "missed" ELSE "markMissed"
<1>1. /\ UNCHANGED staffVars /\ calls' = calls
      /\ Begin(r, step, s, None, req[r].seen \ {s})
  BY DEF MissedCheck
<1>2. /\ s \in req[r].seen /\ req[r].seen \subseteq Shifts
      /\ Plain => \A t \in req[r].seen : Over(t)
  BY DEF MissedCheck, StaffInv, StaffHandler, At
<1>3. /\ req'[r].at = step /\ req'[r].on = s /\ req'[r].seen = req[r].seen \ {s}
      /\ \A q \in Handling \ {r} : req'[q] = req[q]
  BY <1>1, BeginIs
<1>4. /\ Plain' = Plain
      /\ \A t \in Shifts : Over(t)' = Over(t) /\ Missable(t)' = Missable(t)
  BY <1>1 DEF Plain, Over, Missable, Worked, staffVars
<1>5. step = "missed" \/ (step = "markMissed" /\ ~Worked(s))
  OBVIOUS
<1> HIDE DEF step
<1>6. StaffHandler(r)'
  BY <1>2, <1>3, <1>4, <1>5 DEF StaffHandler, Missable
<1> QED  BY <1>1, <1>3, <1>6, StaffReads

LEMMA MissedWriteKeeps ==
    ASSUME Records, StaffInv, NEW r \in Handling, MissedWrite(r)
    PROVE  StaffInv'
<1>1. PICK s \in Shifts :
          /\ shift' = IF shift[s] = None THEN shift ELSE [shift EXCEPT ![s] = "MISSED"]
          /\ Plain => Missable(s)
  BY DEF MissedWrite, StaffInv, StaffHandler, At
<1>2. /\ UNCHANGED <<calls, day, entry>>
      /\ Begin(r, "missed", req[r].on, req[r].arg, req[r].seen)
      /\ req[r].seen \subseteq Shifts
      /\ Plain => \A t \in req[r].seen : Over(t)
  BY DEF MissedWrite, Then, Sees, StaffInv, StaffHandler, At
<1>3. StaffTypeOK'
  BY <1>1, <1>2 DEF StaffInv, StaffTypeOK, ShiftStatus
<1>4. Plain => \A t \in Shifts : shift'[t] = "MISSED" => shift[t] = "MISSED" \/ Missable(t)
  BY <1>1 DEF StaffInv, StaffTypeOK
<1>5. Passing
  BY <1>2, NothingPasses
<1>6. Plain' = Plain /\ \A t \in Shifts : Over(t)' = Over(t)
  BY <1>2 DEF Plain, Over
<1>7. \A q \in Handling : req'[q] = req[q] \/ StaffHandler(q)'
  BY <1>2, <1>6, BeginIs DEF StaffHandler
<1> QED  BY <1>2, <1>3, <1>4, <1>5, <1>7, StaffStep DEF StaffInv

LEMMA MissedEndKeeps ==
    ASSUME Records, StaffInv, NEW r \in Handling, MissedEnd(r)
    PROVE  StaffInv'
<1>1. UNCHANGED <<calls, staffVars>> /\ Done(r)
  BY DEF MissedEnd
<1>2. StaffHandler(r)' /\ \A q \in Handling \ {r} : req'[q] = req[q]
  BY <1>1, DoneIs DEF StaffHandler
<1> QED  BY <1>1, <1>2, StaffReads

LEMMA LaterKeeps ==
    ASSUME StaffInv, NEW s \in Shifts, Later(s)
    PROVE  StaffInv'
<1>1. UNCHANGED <<calls, req, shift, entry>>
  BY DEF Later
<1>2. PICK d \in {"on", "night", "over"} :
          /\ day' = [day EXCEPT ![s] = d]
          /\ day[s] # "over"
          /\ d = "night" => ~Plain
  BY DEF Later, Plain
<1>3. StaffTypeOK'
  BY <1>1, <1>2 DEF StaffInv, StaffTypeOK
<1>4. Passing
  BY <1>1, <1>2 DEF StaffInv, StaffTypeOK, Passing, Over, Missable, Worked
<1>5. Plain => \A t \in Shifts : day'[t] # "night" /\ shift'[t] = shift[t]
  BY <1>1, <1>2 DEF StaffInv, StaffTypeOK
<1> QED  BY <1>1, <1>3, <1>4, <1>5, StaffStep

LEMMA ManagersKeep ==
    ASSUME StaffInv, ManagersAct
    PROVE  StaffInv'
<1>1. ASSUME NEW s \in Shifts, CreateShift(s)
      PROVE  StaffInv'
  <2>1. UNCHANGED <<calls, req, day, entry>> /\ shift' = [shift EXCEPT ![s] = "SCHEDULED"]
    BY <1>1 DEF CreateShift
  <2>2. StaffTypeOK' /\ \A t \in Shifts : shift'[t] = "MISSED" => shift[t] = "MISSED"
    BY <2>1 DEF StaffInv, StaffTypeOK, ShiftStatus
  <2> QED  BY <2>1, <2>2, NothingPasses, StaffStep DEF StaffInv
<1>2. ASSUME NEW s \in Shifts, NEW status \in ShiftStatus \cup {None}, UpdateShift(s, status)
      PROVE  StaffInv'
  <2>1. /\ UNCHANGED <<calls, req, day, entry>> /\ shift' = [shift EXCEPT ![s] = status]
        /\ ~Plain
    BY <1>2 DEF UpdateShift, Plain
  <2>2. StaffTypeOK'
    BY <2>1 DEF StaffInv, StaffTypeOK
  <2> QED  BY <2>1, <2>2, NothingPasses, StaffStep
<1>3. ASSUME NEW u \in Users, NEW e \in Entries, NEW inTime \in SUBSET Shifts,
             AddManualEntry(u, e, inTime)
      PROVE  StaffInv'
  <2>1. UNCHANGED <<calls, req, day, shift>> /\ ~Plain
    BY <1>3 DEF AddManualEntry, Plain
  <2>2. StaffTypeOK'
    BY <1>3, <2>1 DEF AddManualEntry, NoEntry, StaffInv, StaffTypeOK
  <2>3. Passing
    BY <2>1 DEF Passing
  <2> QED  BY <2>1, <2>2, <2>3, StaffStep
<1> QED  BY <1>1, <1>2, <1>3 DEF ManagersAct

LEMMA StaffInvInit == Init => StaffInv
<1> SUFFICES ASSUME Init PROVE StaffInv
  OBVIOUS
<1>1. /\ day = [s \in Shifts |-> "ahead"]
      /\ shift = [s \in Shifts |-> None]
      /\ entry = [e \in Entries |-> NoEntry]
      /\ \A r \in Handling : req[r].at = "idle"
  BY DEF Init, RequestsInit, StaffInit, Quiet
<1>2. StaffTypeOK
  BY <1>1 DEF StaffTypeOK, NoEntry
<1>3. \A s \in Shifts : day[s] = "ahead" /\ ~Worked(s)
  BY <1>1 DEF Worked, NoEntry
<1>4. \A s \in Shifts : shift[s] # "MISSED" \/ None = "MISSED"
  BY <1>1
<1>5. \A r \in Handling : StaffHandler(r)
  BY <1>1 DEF StaffHandler
<1> QED  BY <1>2, <1>3, <1>4, <1>5, ShiftAssumption DEF StaffInv, ShiftStatus

LEMMA StaffInvNext == Records /\ StaffInv /\ [Next]_vars => StaffInv'
<1> SUFFICES ASSUME Records, StaffInv, [Next]_vars PROVE StaffInv'
  OBVIOUS
<1>1. CASE Staffing
  BY <1>1, ClockReadKeeps, ClockInKeeps, ClockOutKeeps, LinkShiftKeeps, MissedReadKeeps,
     MissedCheckKeeps, MissedWriteKeeps, MissedEndKeeps, LaterKeeps, ManagersKeep
     DEF Staffing, StaffNext
<1>2. CASE ~Staffing
  <2> DEFINE S == ShopSteps \cup SalesSteps \cup TenantSteps \cup DeliverySteps
  <2>1. UNCHANGED staffVars /\ Elsewhere(S)
    BY <1>2, NotStaffing
  <2>2. S \cap (StaffSteps \ {"idle"}) = {}
    BY DEF ShopSteps, SalesSteps, BillSteps, StampSteps, PlatformSteps, TenantSteps, StaffSteps, DeliverySteps
  <2> HIDE DEF S
  <2>3. Passing
    BY <2>1, NothingPasses DEF Elsewhere, staffVars
  <2>4. \A q \in Handling : StaffHandler(q)'
    BY <2>1, <2>2, <2>3, StaffHandlerStays DEF Elsewhere
  <2>5. StaffTypeOK'
    BY <2>1 DEF StaffInv, StaffTypeOK, staffVars
  <2>6. Plain => \A s \in Shifts : day'[s] # "night" /\ shift'[s] = shift[s]
    BY <2>1 DEF StaffInv, staffVars
  <2> QED  BY <2>3, <2>4, <2>5, <2>6, StaffStep
<1> QED  BY <1>1, <1>2

LEMMA StaffInvHolds == Spec => []StaffInv
<1>1. Handlers => Records
  BY DEF Handlers
<1> QED  BY <1>1, HandlersHold, StaffInvInit, StaffInvNext, PTL DEF Spec

\* The midnight job spares who has worked: it marks no shift as missed for which
\* an entry of its worker was begun, unless someone edits shifts or entries by
\* hand or a shift runs on after midnight.  The job decides on what is over, and
\* an entry that is written later counts for what is on.
THEOREM WorkersAreSpared == Spec => []WorkedIsNotMissed
<1>1. StaffInv => WorkedIsNotMissed
  BY DEF StaffInv, WorkedIsNotMissed, Plain, Missable, Worked
<1> QED  BY <1>1, StaffInvHolds, PTL

-----------------------------------------------------------------------------
\* Every column and every handler of the business around the orders keeps its
\* type, whoever writes it.
THEOREM TypesHold == Spec => []TypeOK
<1>1. Handlers => /\ calls \in Mixes
                  /\ \A r \in Handling : /\ DOMAIN req[r] = DOMAIN Quiet
                                         /\ req[r].at \in Step
  BY DEF Handlers, Records, Quiet
<1>2. ShopInv /\ LoyaltyInv => ShopTypeOK
  BY DEF ShopInv, LoyaltyInv, CartsTyped, OrdersTyped, ShopTypeOK
<1>3. DeliveryInv => DeliveriesTypeOK
  BY DEF DeliveryInv, Delivery, DeliveriesTypeOK
<1>4. /\ Handlers /\ ShopInv /\ LoyaltyInv /\ BillsInv /\ StampsInv /\ PlatformInv
      /\ TenantInv /\ DeliveryInv /\ StaffInv
      => TypeOK
  BY <1>1, <1>2, <1>3 DEF BillsInv, StampsInv, PlatformInv, TenantInv, StaffInv, TypeOK
<1> QED
  BY <1>4, HandlersHold, ShopInvHolds, LoyaltyInvHolds, BillsInvHolds, StampsInvHolds,
     PlatformInvHolds, TenantInvHolds, DeliveryInvHolds, StaffInvHolds, PTL
=============================================================================
