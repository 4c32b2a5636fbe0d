---------------------------- MODULE StockProofs ----------------------------
(***************************************************************************)
(* Proofs about Stock, for any number of ingredients, restaurants, orders, *)
(* lines, transfers and requests in flight, and any mix of handlers.       *)
(*                                                                         *)
(* ReceivedIsComplete is not inductive: receivePurchaseOrder computes the  *)
(* status from one read and writes it later.  The strengthening carries    *)
(* what the read saw to the write: quantities ordered never change and     *)
(* quantities received never fall, so an order seen complete stays so.     *)
(*                                                                         *)
(* The ledger is a claim about sums over all the rows of an ingredient.    *)
(* Every handler changes one row, one movement, one order line or one      *)
(* transfer, so each sum changes by one term (module Sums).  That the rows *)
(* summed over stay the same needs more: rows keep their names, a row that *)
(* is created brings no movements, orders and transfers name rows that     *)
(* exist, and, for handlers that come alone, what was read is still so.    *)
(***************************************************************************)
EXTENDS Stock, TLAPS, Sums

OnOrder == {"receive", "statusWrite", "cancelWrite"}

\* What a request q keeps knowing from its read to its write.
Sound(q) ==
    /\ q.at \in OnOrder => q.po \in POs /\ po[q.po].status # None
    /\ q.at = "statusWrite" => /\ q.to \in POStatus
                               /\ q.to = "RECEIVED" => AllReceived(q.po)
    /\ q.at \in {"countWrite", "shipWrite"} => q.ing \in Ingredients
    /\ q.at = "shipWrite" => q.qty \in Nat
    /\ q.at \in {"takeInWrite", "recallWrite"} =>
          q.transfer \in Transfers /\ transfer[q.transfer].status # None

InFlightSound == \A r \in Requests : Sound(req[r])

\* A transfer that exists names an ingredient.
TransfersKnown ==
    \A t \in Transfers : transfer[t].status # None => transfer[t].ing \in Ingredients

IInv == TypeOK /\ InFlightSound /\ TransfersKnown /\ ReceivedIsComplete

\* A step takes no order, no received goods and no transfer back.
OrdersGrow ==
    \A p \in POs : po[p].status # None =>
        /\ po'[p].status # None
        /\ po'[p].ordered = po[p].ordered
        /\ \A l \in Lines : po'[p].received[l] >= po[p].received[l]

TransfersGrow ==
    \A t \in Transfers : transfer[t].status # None => transfer'[t].status # None

-----------------------------------------------------------------------------
\* A complete order stays complete.
LEMMA CompleteStays ==
    ASSUME TypeOK, po' \in [POs -> PoRow], OrdersGrow,
           NEW p \in POs, po[p].status # None, AllReceived(p)
    PROVE  AllReceived(p)'
<1>1. po[p] \in PoRow /\ po'[p] \in PoRow  BY DEF TypeOK
<1>2. \A l \in Lines : po[p].received[l] \in Nat /\ po'[p].received[l] \in Nat
                       /\ po[p].ordered[l] \in Nat
  BY <1>1 DEF PoRow
<1> QED  BY <1>2 DEF AllReceived, OrdersGrow

\* A sound request stays sound while orders and transfers only grow.
LEMMA SoundStays ==
    ASSUME TypeOK, po' \in [POs -> PoRow], OrdersGrow, TransfersGrow,
           NEW q \in Request, Sound(q)
    PROVE  Sound(q)'
<1>1. q.at \in OnOrder => q.po \in POs /\ po[q.po].status # None /\ po'[q.po].status # None
  BY DEF Sound, OrdersGrow
<1>2. q.at = "statusWrite" => q.at \in OnOrder  BY DEF OnOrder
<1>3. q.at = "statusWrite" /\ q.to = "RECEIVED" => AllReceived(q.po)'
  BY <1>1, <1>2, CompleteStays DEF Sound
<1>4. q.at \in {"takeInWrite", "recallWrite"} => transfer'[q.transfer].status # None
  BY DEF Sound, TransfersGrow
<1> QED  BY <1>1, <1>3, <1>4 DEF Sound

\* One request gets a sound value, and the others stay sound.
LEMMA SoundStep ==
    ASSUME IInv, po' \in [POs -> PoRow], OrdersGrow, TransfersGrow,
           NEW r \in Requests, NEW q \in Request, Sound(q)',
           req' = [req EXCEPT ![r] = q]
    PROVE  req' \in [Requests -> Request] /\ InFlightSound'
<1>1. req' \in [Requests -> Request]  BY DEF IInv, TypeOK
<1>2. ASSUME NEW s \in Requests PROVE Sound(req[s])'
  <2>1. Sound(req[s]) /\ req[s] \in Request  BY DEF IInv, InFlightSound, TypeOK
  <2>2. CASE s = r
    <3>1. req'[s] = q  BY <2>2 DEF IInv, TypeOK
    <3> QED  BY <3>1 DEF Sound
  <2>3. CASE s # r
    <3>1. PICK x \in Request : x = req[s]  BY <2>1
    <3>2. req'[s] = x  BY <2>3, <3>1 DEF IInv, TypeOK
    <3>3. Sound(x)'  BY <2>1, <3>1, SoundStays DEF IInv
    <3> QED  BY <3>2, <3>3 DEF Sound
  <2> QED  BY <2>2, <2>3
<1> QED  BY <1>1, <1>2 DEF InFlightSound

LEMMA Unchanged ==
    ASSUME TypeOK, UNCHANGED <<po, transfer>>
    PROVE  po' \in [POs -> PoRow] /\ OrdersGrow /\ TransfersGrow
<1>1. \A p \in POs : po[p] \in PoRow  BY DEF TypeOK
<1>2. \A p \in POs, l \in Lines : po[p].received[l] \in Nat  BY <1>1 DEF PoRow
<1> QED  BY <1>2 DEF TypeOK, OrdersGrow, TransfersGrow

LEMMA NoRequestTyped == NoRequest \in Request
<1>1. <<>> \in Seq(Receipt)  OBVIOUS
<1> QED  BY <1>1 DEF NoRequest, Request, Step

LEMMA NoRequestSound == Sound(NoRequest)
BY DEF Sound, NoRequest, OnOrder

LEMMA NoRequestSoundNext == Sound(NoRequest)'
BY DEF Sound, NoRequest, OnOrder

\* A step that changes a request only.
LEMMA ReadStep ==
    ASSUME IInv, NEW r \in Requests, NEW q \in Request, Sound(q),
           req' = [req EXCEPT ![r] = q],
           UNCHANGED <<row, moved, po, transfer, calls>>
    PROVE  IInv' /\ OrdersGrow
<1>1. po' \in [POs -> PoRow] /\ OrdersGrow /\ TransfersGrow  BY Unchanged DEF IInv
<1>2. Sound(q)'  BY <1>1, SoundStays DEF IInv
<1>3. req' \in [Requests -> Request] /\ InFlightSound'  BY <1>1, <1>2, SoundStep
<1> QED  BY <1>1, <1>3 DEF IInv, TypeOK, TransfersKnown, ReceivedIsComplete, AllReceived

\* A step that ends a request, after writing rows, movements or transfers.
LEMMA FinishStep ==
    ASSUME IInv, NEW r \in Requests, Finish(r),
           row' \in [Ingredients -> IngredientRow],
           moved' \in [Ingredients -> [MovementType -> Int]],
           transfer' \in [Transfers -> TransferRow],
           TransfersGrow, TransfersKnown', UNCHANGED <<po, calls>>
    PROVE  IInv' /\ OrdersGrow
<1>1. po' \in [POs -> PoRow] /\ OrdersGrow
  <2>1. \A p \in POs : po[p] \in PoRow  BY DEF IInv, TypeOK
  <2>2. \A p \in POs, l \in Lines : po[p].received[l] \in Nat  BY <2>1 DEF PoRow
  <2> QED  BY <2>2 DEF IInv, TypeOK, OrdersGrow
<1>2. req' \in [Requests -> Request] /\ InFlightSound'
  BY <1>1, NoRequestTyped, NoRequestSoundNext, SoundStep DEF Finish
<1> QED  BY <1>1, <1>2 DEF IInv, TypeOK, ReceivedIsComplete, AllReceived

\* A step that ends a request after writing the status of an order.
LEMMA OrderStep ==
    ASSUME IInv, NEW r \in Requests, Finish(r), NEW p \in POs, NEW s \in POStatus,
           po[p].status # None, po' = [po EXCEPT ![p].status = s],
           s = "RECEIVED" => AllReceived(p),
           UNCHANGED <<row, moved, transfer, calls>>
    PROVE  IInv' /\ OrdersGrow
<1>1. \A x \in POs : po[x] \in PoRow  BY DEF IInv, TypeOK
<1>2. po'[p] = [po[p] EXCEPT !.status = s] /\ \A x \in POs \ {p} : po'[x] = po[x]
  BY DEF IInv, TypeOK
<1>3. \A x \in POs : po'[x] \in PoRow /\ po'[x].ordered = po[x].ordered
                     /\ po'[x].received = po[x].received
  BY <1>1, <1>2 DEF PoRow
<1>4. po' \in [POs -> PoRow]  BY <1>3 DEF IInv, TypeOK
<1>5. \A x \in POs, l \in Lines : po[x].received[l] \in Nat  BY <1>1 DEF PoRow
<1>6. po'[p].status = s /\ s # None  BY <1>1, <1>2, NoneAssumption DEF PoRow
<1>7. OrdersGrow  BY <1>2, <1>3, <1>5, <1>6 DEF OrdersGrow
<1>8. TransfersGrow  BY DEF TransfersGrow
<1>9. req' \in [Requests -> Request] /\ InFlightSound'
  BY <1>4, <1>7, <1>8, NoRequestTyped, NoRequestSoundNext, SoundStep DEF Finish
<1>10. ReceivedIsComplete'
  BY <1>2, <1>3, <1>6 DEF IInv, ReceivedIsComplete, AllReceived
<1> QED  BY <1>4, <1>7, <1>9, <1>10 DEF IInv, TypeOK, TransfersKnown

\* What Move does to the types.
LEMMA MoveTyped ==
    ASSUME TypeOK, NEW i \in Ingredients, NEW type \in MovementType, NEW q \in Int,
           Move(i, type, q)
    PROVE  row' \in [Ingredients -> IngredientRow]
           /\ moved' \in [Ingredients -> [MovementType -> Int]]
<1>1. row[i] \in IngredientRow  BY DEF TypeOK
<1>2. [row[i] EXCEPT !.stock = row[i].stock + q] \in IngredientRow
  BY <1>1 DEF IngredientRow
<1>3. row' \in [Ingredients -> IngredientRow]  BY <1>2 DEF Move, TypeOK
<1>4. moved[i] \in [MovementType -> Int]  BY DEF TypeOK
<1>5. [moved[i] EXCEPT ![type] = moved[i][type] + q] \in [MovementType -> Int]
  BY <1>4
<1> QED  BY <1>3, <1>5 DEF Move, TypeOK

-----------------------------------------------------------------------------
LEMMA InitIInv == Init => IInv
<1> SUFFICES ASSUME Init PROVE IInv  OBVIOUS
<1>1. NoRow \in IngredientRow  BY DEF NoRow, IngredientRow
<1>2. NoPo \in PoRow  BY DEF NoPo, PoRow
<1>3. NoTransfer \in TransferRow  BY DEF NoTransfer, TransferRow
<1>4. TypeOK  BY <1>1, <1>2, <1>3, NoRequestTyped DEF Init, TypeOK
<1>5. InFlightSound  BY NoRequestSound DEF Init, InFlightSound
<1>6. \A p \in POs : po[p].status = None  BY DEF Init, NoPo
<1>7. \A t \in Transfers : transfer[t].status = None  BY DEF Init, NoTransfer
<1> QED  BY <1>4, <1>5, <1>6, <1>7, NoneAssumption
         DEF IInv, ReceivedIsComplete, TransfersKnown, POStatus

\* Handlers of one step that write ingredients only.
LEMMA RowsStep ==
    ASSUME IInv, row' \in [Ingredients -> IngredientRow],
           moved' \in [Ingredients -> [MovementType -> Int]],
           UNCHANGED <<po, transfer, calls, req>>
    PROVE  IInv' /\ OrdersGrow
<1>1. po' \in [POs -> PoRow] /\ OrdersGrow /\ TransfersGrow  BY Unchanged DEF IInv
<1>2. ASSUME NEW r \in Requests PROVE Sound(req[r])'
  <2>1. PICK x \in Request : x = req[r]  BY DEF IInv, TypeOK
  <2>2. Sound(x)'  BY <1>1, <2>1, SoundStays DEF IInv, InFlightSound
  <2> QED  BY <2>1, <2>2 DEF Sound
<1> QED  BY <1>1, <1>2
         DEF IInv, TypeOK, InFlightSound, TransfersKnown, ReceivedIsComplete, AllReceived

LEMMA ImmediateKeeps == IInv /\ Immediate => IInv' /\ OrdersGrow
<1> SUFFICES ASSUME IInv, Immediate PROVE IInv' /\ OrdersGrow  OBVIOUS
<1> USE OpeningsAssumption, MaxQtyAssumption
<1>0. row \in [Ingredients -> IngredientRow]
      /\ moved \in [Ingredients -> [MovementType -> Int]]
  BY DEF IInv, TypeOK
<1>1. CASE \E i \in Originals, s \in Sites, n \in Openings : CreateIngredient(i, s, n)
  <2>1. PICK i \in Originals, s \in Sites, n \in Openings : CreateIngredient(i, s, n)
    BY <1>1
  <2>2. i \in Ingredients /\ n \in Int  BY DEF Ingredients
  <2>3. [site |-> s, name |-> i, stock |-> n, opening |-> n, active |-> TRUE]
           \in IngredientRow
    BY <2>2 DEF IngredientRow
  <2>4. row' \in [Ingredients -> IngredientRow]
    BY <1>0, <2>1, <2>2, <2>3 DEF CreateIngredient
  <2> QED  BY <1>0, <2>1, <2>4, RowsStep DEF CreateIngredient
<1>2. CASE \E i \in Ingredients, n \in {0, MaxQty} : UpdateIngredient(i, n)
  <2>1. PICK i \in Ingredients, n \in {0, MaxQty} : UpdateIngredient(i, n)  BY <1>2
  <2>2. [row[i] EXCEPT !.stock = n] \in IngredientRow  BY <1>0 DEF IngredientRow
  <2>3. row' \in [Ingredients -> IngredientRow]
    BY <1>0, <2>1, <2>2 DEF UpdateIngredient
  <2> QED  BY <1>0, <2>1, <2>3, RowsStep DEF UpdateIngredient
<1>3. CASE \E i \in Ingredients : DeleteIngredient(i)
  <2>1. PICK i \in Ingredients : DeleteIngredient(i)  BY <1>3
  <2>2. [row[i] EXCEPT !.active = FALSE] \in IngredientRow  BY <1>0 DEF IngredientRow
  <2>3. row' \in [Ingredients -> IngredientRow]
    BY <1>0, <2>1, <2>2 DEF DeleteIngredient
  <2> QED  BY <1>0, <2>1, <2>3, RowsStep DEF DeleteIngredient
<1>4. CASE \E i \in Ingredients, q \in 1..MaxQty : LogWaste(i, q)
  <2>1. PICK i \in Ingredients, q \in 1..MaxQty : LogWaste(i, q)  BY <1>4
  <2>2. "WASTE" \in MovementType /\ -q \in Int  BY DEF MovementType
  <2>3. row' \in [Ingredients -> IngredientRow]
        /\ moved' \in [Ingredients -> [MovementType -> Int]]
    BY <2>1, <2>2, MoveTyped DEF LogWaste, IInv
  <2> QED  BY <2>1, <2>3, RowsStep DEF LogWaste
<1>5. CASE \E p \in POs, ing \in [Lines -> Ingredients \cup {None}],
             ordered \in [Lines -> 0..MaxQty] : CreatePurchaseOrder(p, ing, ordered)
  <2>1. PICK p \in POs, ing \in [Lines -> Ingredients \cup {None}],
             ordered \in [Lines -> 0..MaxQty] : CreatePurchaseOrder(p, ing, ordered)
    BY <1>5
  <2> DEFINE new == [status |-> "DRAFT", ing |-> ing, ordered |-> ordered,
                     received |-> [l \in Lines |-> 0]]
  <2>2. new \in PoRow  BY DEF PoRow, POStatus
  <2>3. po' \in [POs -> PoRow]  BY <2>1, <2>2 DEF CreatePurchaseOrder, IInv, TypeOK
  <2>4. po'[p] = new /\ po[p].status = None /\ \A x \in POs \ {p} : po'[x] = po[x]
    BY <2>1 DEF CreatePurchaseOrder, IInv, TypeOK
  <2> HIDE DEF new
  <2>5. \A x \in POs, l \in Lines : po[x].received[l] \in Nat
    <3>1. \A x \in POs : po[x] \in PoRow  BY DEF IInv, TypeOK
    <3> QED  BY <3>1 DEF PoRow
  <2>6. OrdersGrow  BY <2>4, <2>5 DEF OrdersGrow
  <2>7. TransfersGrow  BY <2>1 DEF TransfersGrow, CreatePurchaseOrder
  <2>8. ASSUME NEW r \in Requests PROVE Sound(req[r])'
    <3>1. PICK x \in Request : x = req[r]  BY DEF IInv, TypeOK
    <3>2. Sound(x)'  BY <2>3, <2>6, <2>7, <3>1, SoundStays DEF IInv, InFlightSound
    <3>3. req' = req  BY <2>1 DEF CreatePurchaseOrder
    <3> QED  BY <3>1, <3>2, <3>3 DEF Sound
  <2>9. ReceivedIsComplete'
    <3>1. new.status # "RECEIVED"  BY DEF new
    <3> QED  BY <2>4, <3>1 DEF IInv, ReceivedIsComplete, AllReceived
  <2> QED  BY <2>1, <2>3, <2>6, <2>8, <2>9
           DEF CreatePurchaseOrder, IInv, TypeOK, InFlightSound, TransfersKnown
<1> QED  BY <1>1, <1>2, <1>3, <1>4, <1>5 DEF Immediate

LEMMA ArriveKeeps ==
    ASSUME IInv, NEW r \in Requests, Arrive(r) PROVE IInv' /\ OrdersGrow
<1> USE MaxQtyAssumption
<1>0. row \in [Ingredients -> IngredientRow] /\ po \in [POs -> PoRow]
  BY DEF IInv, TypeOK
<1>1. CASE \E recipe \in SUBSET Ingredients, s \in Sites : DeductRead(r, recipe, s)
  <2>1. PICK recipe \in SUBSET Ingredients, s \in Sites : DeductRead(r, recipe, s)
    BY <1>1
  <2> DEFINE q == [NoRequest EXCEPT !.at = "deduct", !.recipe = recipe]
  <2>2. q \in Request  BY NoRequestTyped DEF Request, Step
  <2>3. Sound(q)  BY DEF Sound, NoRequest, OnOrder
  <2>4. req' = [req EXCEPT ![r] = q]  BY <2>1 DEF DeductRead, Go
  <2> HIDE DEF q
  <2> QED  BY <2>1, <2>2, <2>3, <2>4, ReadStep DEF DeductRead
<1>2. CASE \E i \in Ingredients, n \in {0, MaxQty} : StockTakeRead(r, i, n)
  <2>1. PICK i \in Ingredients, n \in {0, MaxQty} : StockTakeRead(r, i, n)  BY <1>2
  <2> DEFINE q == [NoRequest EXCEPT !.at = "countWrite", !.ing = i, !.count = n,
                                    !.qty = n - row[i].stock]
  <2> DEFINE variance == n - row[i].stock
  <2>2. n \in Int /\ variance \in Int
    <3>1. row[i].stock \in Int  BY <1>0 DEF IngredientRow
    <3> QED  BY <3>1
  <2> HIDE DEF variance
  <2>3. [NoRequest EXCEPT !.at = "countWrite", !.ing = i, !.count = n, !.qty = variance]
           \in Request
    BY <2>2, NoRequestTyped DEF Request, Step
  <2>4. q \in Request  BY <2>3 DEF variance
  <2>5. Sound(q)  BY DEF Sound, NoRequest, OnOrder
  <2>6. req' = [req EXCEPT ![r] = q]  BY <2>1 DEF StockTakeRead, Go
  <2> HIDE DEF q
  <2> QED  BY <2>1, <2>4, <2>5, <2>6, ReadStep DEF StockTakeRead
<1>3. CASE \E p \in POs : CancelOrderRead(r, p)
  <2>1. PICK p \in POs : CancelOrderRead(r, p)  BY <1>3
  <2> DEFINE q == [NoRequest EXCEPT !.at = "cancelWrite", !.po = p]
  <2>2. q \in Request  BY NoRequestTyped DEF Request, Step
  <2>3. po[p].status # None  BY <2>1, NoneAssumption DEF CancelOrderRead, POStatus
  <2>4. Sound(q)  BY <2>3 DEF Sound, NoRequest, OnOrder
  <2>5. req' = [req EXCEPT ![r] = q]  BY <2>1 DEF CancelOrderRead, Go
  <2> HIDE DEF q
  <2> QED  BY <2>1, <2>2, <2>4, <2>5, ReadStep DEF CancelOrderRead
<1>4. CASE \E p \in POs, lines \in Receipts : ReceiveRead(r, p, lines)
  <2>1. PICK p \in POs, lines \in Receipts : ReceiveRead(r, p, lines)  BY <1>4
  <2> DEFINE seen == [l \in Lines |-> po[p].ordered[l] - po[p].received[l]]
  <2> DEFINE q == [NoRequest EXCEPT !.at = "receive", !.po = p, !.lines = lines,
                                    !.seen = seen]
  <2>2. lines \in Seq(Receipt)
    <3>1. [line : Lines, qty : 1..MaxQty] \subseteq Receipt  BY DEF Receipt
    <3>2. <<>> \in Seq(Receipt)  OBVIOUS
    <3>3. \A n \in {1, 2} : [1..n -> [line : Lines, qty : 1..MaxQty]] \subseteq Seq(Receipt)
      BY <3>1
    <3> QED  BY <2>1, <3>2, <3>3 DEF Receipts
  <2>3. seen \in [Lines -> Int]
    <3>1. po[p] \in PoRow  BY <1>0
    <3>2. \A l \in Lines : po[p].ordered[l] \in Nat /\ po[p].received[l] \in Nat
      BY <3>1 DEF PoRow
    <3> QED  BY <3>2
  <2> HIDE DEF seen
  <2>4. q \in Request  BY <2>2, <2>3, NoRequestTyped DEF Request, Step
  <2>5. po[p].status # None
    BY <2>1, NoneAssumption DEF ReceiveRead, Receivable, POStatus
  <2>6. Sound(q)  BY <2>5 DEF Sound, NoRequest, OnOrder
  <2>7. req' = [req EXCEPT ![r] = q]  BY <2>1 DEF ReceiveRead, Go, seen
  <2> HIDE DEF q
  <2> QED  BY <2>1, <2>4, <2>6, <2>7, ReadStep DEF ReceiveRead
<1>5. CASE \E i \in Ingredients, s \in Sites, n \in 1..MaxQty : ShipRead(r, i, s, n)
  <2>1. PICK i \in Ingredients, s \in Sites, n \in 1..MaxQty : ShipRead(r, i, s, n)
    BY <1>5
  <2> DEFINE q == [NoRequest EXCEPT !.at = "shipWrite", !.ing = i, !.site = s, !.qty = n]
  <2>2. n \in Int /\ n \in Nat  OBVIOUS
  <2>3. q \in Request  BY <2>2, NoRequestTyped DEF Request, Step
  <2>4. Sound(q)  BY <2>2 DEF Sound, NoRequest, OnOrder
  <2>5. req' = [req EXCEPT ![r] = q]  BY <2>1 DEF ShipRead, Go
  <2> HIDE DEF q
  <2> QED  BY <2>1, <2>3, <2>4, <2>5, ReadStep DEF ShipRead
<1>6. CASE \E t \in Transfers : TakeInRead(r, t) \/ RecallRead(r, t)
  <2>1. PICK t \in Transfers : TakeInRead(r, t) \/ RecallRead(r, t)  BY <1>6
  <2>2. PICK s \in {"takeInWrite", "recallWrite"} :
           req' = [req EXCEPT ![r] = [NoRequest EXCEPT !.at = s, !.transfer = t]]
    BY <2>1 DEF TakeInRead, RecallRead, Go
  <2> DEFINE q == [NoRequest EXCEPT !.at = s, !.transfer = t]
  <2>3. q \in Request  BY NoRequestTyped DEF Request, Step
  <2>4. transfer[t].status # None
    BY <2>1, NoneAssumption DEF TakeInRead, RecallRead, Awaits, TransferStatus
  <2>5. Sound(q)  BY <2>4 DEF Sound, NoRequest, OnOrder
  <2>6. req' = [req EXCEPT ![r] = q]  BY <2>2
  <2> HIDE DEF q
  <2> QED  BY <2>1, <2>3, <2>5, <2>6, ReadStep DEF TakeInRead, RecallRead
<1> QED  BY <1>1, <1>2, <1>3, <1>4, <1>5, <1>6 DEF Arrive

\* Steps that write ingredients, movements and transfers, and end a request.
LEMMA StockWritesKeep ==
    ASSUME IInv, NEW r \in Requests,
           \/ StockTakeWrite(r)
           \/ \E t \in Transfers : ShipWrite(r, t)
           \/ \E i \in Clones : TakeInWrite(r, i)
           \/ RecallWrite(r)
    PROVE  IInv' /\ OrdersGrow
<1>0. /\ row \in [Ingredients -> IngredientRow]
      /\ moved \in [Ingredients -> [MovementType -> Int]]
      /\ transfer \in [Transfers -> TransferRow]
      /\ req[r] \in Request /\ Sound(req[r])
  BY DEF IInv, TypeOK, InFlightSound
<1>1. CASE StockTakeWrite(r)
  <2> DEFINE i == req[r].ing
  <2>1. i \in Ingredients  BY <1>0, <1>1 DEF StockTakeWrite, Sound
  <2>2. req[r].count \in Int /\ req[r].qty \in Int  BY <1>0 DEF Request
  <2>3. [row[i] EXCEPT !.stock = req[r].count] \in IngredientRow
    BY <1>0, <2>1, <2>2 DEF IngredientRow
  <2>4. row' \in [Ingredients -> IngredientRow]
    BY <1>0, <1>1, <2>1, <2>3 DEF StockTakeWrite
  <2>5. "STOCKTAKE" \in MovementType  BY DEF MovementType
  <2>6. moved' \in [Ingredients -> [MovementType -> Int]]
    BY <1>0, <1>1, <2>1, <2>2, <2>5 DEF StockTakeWrite
  <2>7. TransfersGrow /\ TransfersKnown'
    BY <1>1 DEF StockTakeWrite, IInv, TransfersKnown, TransfersGrow
  <2> QED  BY <1>0, <1>1, <2>4, <2>6, <2>7, FinishStep DEF StockTakeWrite
<1>2. CASE \E t \in Transfers : ShipWrite(r, t)
  <2>1. PICK t \in Transfers : ShipWrite(r, t)  BY <1>2
  <2> DEFINE new == [status |-> "PENDING", ing |-> req[r].ing, to |-> req[r].site,
                     qty |-> req[r].qty]
  <2>2. req[r].ing \in Ingredients /\ req[r].qty \in Nat /\ -req[r].qty \in Int
    BY <1>0, <2>1 DEF ShipWrite, Sound
  <2>3. new \in TransferRow
    <3>1. req[r].site \in Sites \cup {None}  BY <1>0 DEF Request
    <3> QED  BY <2>2, <3>1 DEF TransferRow, TransferStatus
  <2>4. new.ing = req[r].ing /\ new.status # None
    BY NoneAssumption DEF TransferStatus
  <2> HIDE DEF new
  <2>5. transfer' = [transfer EXCEPT ![t] = new]  BY <2>1 DEF ShipWrite, new
  <2>6. transfer' \in [Transfers -> TransferRow] /\ TransfersGrow /\ TransfersKnown'
    BY <1>0, <2>2, <2>3, <2>4, <2>5 DEF TransfersGrow, TransfersKnown, IInv
  <2>7. "ADJUSTMENT" \in MovementType  BY DEF MovementType
  <2>8. row' \in [Ingredients -> IngredientRow]
        /\ moved' \in [Ingredients -> [MovementType -> Int]]
    BY <2>1, <2>2, <2>7, MoveTyped DEF ShipWrite, IInv
  <2> QED  BY <2>1, <2>6, <2>8, FinishStep DEF ShipWrite
<1>3. CASE \E i \in Clones : TakeInWrite(r, i)
  <2>1. PICK i \in Clones : TakeInWrite(r, i)  BY <1>3
  <2> DEFINE t == req[r].transfer
             from == transfer[t].ing
             new == [site |-> transfer[t].to, name |-> row[from].name,
                     stock |-> transfer[t].qty, opening |-> 0, active |-> TRUE]
  <2>2. t \in Transfers /\ transfer[t].status # None
    BY <1>0, <2>1 DEF TakeInWrite, Sound
  <2>3. from \in Ingredients /\ i \in Ingredients
    BY <2>2 DEF IInv, TransfersKnown, Ingredients
  <2>4. transfer[t].to \in Sites \cup {None} /\ transfer[t].qty \in Nat
    BY <1>0, <2>2 DEF TransferRow
  <2>5. row[from].name \in Ingredients \cup {None}  BY <1>0, <2>3 DEF IngredientRow
  <2>6. transfer[t].qty \in Int /\ 0 \in Int  BY <2>4
  <2>7. new \in IngredientRow  BY <2>4, <2>5, <2>6 DEF IngredientRow
  <2> HIDE DEF new
  <2>8. row' \in [Ingredients -> IngredientRow]
    BY <1>0, <2>1, <2>3, <2>7 DEF TakeInWrite, new
  <2>9. "PURCHASE" \in MovementType  BY DEF MovementType
  <2>10. moved' \in [Ingredients -> [MovementType -> Int]]
    <3> DEFINE sum == moved[from]["PURCHASE"] + transfer[t].qty
    <3>1. moved' = [moved EXCEPT ![from]["PURCHASE"] = sum]  BY <2>1 DEF TakeInWrite
    <3>2. moved[from]["PURCHASE"] \in Int  BY <1>0, <2>3, <2>9
    <3>3. sum \in Int  BY <2>6, <3>2
    <3> HIDE DEF sum
    <3> QED  BY <1>0, <2>3, <2>9, <3>1, <3>3
  <2>11. [transfer[t] EXCEPT !.status = "RECEIVED"] \in TransferRow
    BY <1>0, <2>2 DEF TransferRow, TransferStatus
  <2>12. transfer' = [transfer EXCEPT ![t].status = "RECEIVED"]
    BY <2>1 DEF TakeInWrite
  <2>13. \A x \in Transfers :
           transfer'[x] = IF x = t THEN [transfer[t] EXCEPT !.status = "RECEIVED"]
                          ELSE transfer[x]
    BY <1>0, <2>12
  <2>14. transfer' \in [Transfers -> TransferRow]  BY <1>0, <2>2, <2>11, <2>12
  <2>15. transfer'[t].status # None /\ transfer'[t].ing = from
    BY <1>0, <2>2, <2>13, NoneAssumption DEF TransferStatus, TransferRow
  <2>16. TransfersGrow /\ TransfersKnown'
    BY <2>3, <2>13, <2>15 DEF TransfersGrow, TransfersKnown, IInv
  <2> QED  BY <2>1, <2>8, <2>10, <2>14, <2>16, FinishStep DEF TakeInWrite
<1>4. CASE RecallWrite(r)
  <2> DEFINE t == req[r].transfer
  <2>1. t \in Transfers /\ transfer[t].status # None
    BY <1>0, <1>4 DEF RecallWrite, Sound
  <2>2. transfer[t].ing \in Ingredients  BY <2>1 DEF IInv, TransfersKnown
  <2>3. transfer[t].qty \in Int  BY <1>0, <2>1 DEF TransferRow
  <2>4. "ADJUSTMENT" \in MovementType  BY DEF MovementType
  <2>5. row' \in [Ingredients -> IngredientRow]
        /\ moved' \in [Ingredients -> [MovementType -> Int]]
    BY <1>4, <2>2, <2>3, <2>4, MoveTyped DEF RecallWrite, IInv
  <2>6. [transfer[t] EXCEPT !.status = "CANCELLED"] \in TransferRow
    BY <1>0, <2>1 DEF TransferRow, TransferStatus
  <2>7. transfer' = [transfer EXCEPT ![t].status = "CANCELLED"]
    BY <1>4 DEF RecallWrite
  <2>8. transfer' \in [Transfers -> TransferRow] /\ TransfersGrow /\ TransfersKnown'
    BY <1>0, <2>1, <2>2, <2>6, <2>7, NoneAssumption
       DEF TransfersGrow, TransfersKnown, IInv, TransferStatus, TransferRow
  <2> QED  BY <1>4, <2>5, <2>8, FinishStep DEF RecallWrite
<1> QED  BY <1>1, <1>2, <1>3, <1>4

\* A line of a recipe leaves the stock; the request ends with the last one.
LEMMA DeductLineKeeps ==
    ASSUME IInv, NEW r \in Requests, NEW i \in Ingredients, NEW n \in 1..MaxQty,
           DeductLine(r, i, n)
    PROVE  IInv' /\ OrdersGrow
<1>1. "SALE" \in MovementType /\ -n \in Int  BY DEF MovementType
<1>2. row' \in [Ingredients -> IngredientRow]
      /\ moved' \in [Ingredients -> [MovementType -> Int]]
  BY <1>1, MoveTyped DEF DeductLine, IInv
<1>3. CASE req[r].recipe = {i}
  <2>1. Finish(r)  BY <1>3 DEF DeductLine
  <2>2. TransfersGrow /\ TransfersKnown' /\ transfer' \in [Transfers -> TransferRow]
    BY DEF DeductLine, IInv, TypeOK, TransfersKnown, TransfersGrow
  <2> QED  BY <1>2, <2>1, <2>2, FinishStep DEF DeductLine
<1>4. CASE req[r].recipe # {i}
  <2> DEFINE q == [req[r] EXCEPT !.recipe = req[r].recipe \ {i}]
  <2>1. req[r] \in Request /\ req[r].at = "deduct"  BY DEF IInv, TypeOK, DeductLine
  <2>2. req[r].recipe \ {i} \in SUBSET Ingredients  BY <2>1 DEF Request
  <2>3. q \in Request  BY <2>1, <2>2 DEF Request
  <2>4. q.at = "deduct"  BY <2>1 DEF Request
  <2>5. req' = [req EXCEPT ![r] = q]  BY <1>4 DEF DeductLine, Go
  <2> HIDE DEF q
  <2>6. po' \in [POs -> PoRow] /\ OrdersGrow /\ TransfersGrow
    BY Unchanged DEF IInv, DeductLine
  <2>7. PICK x \in Request : x = q  BY <2>3
  <2>8. Sound(x)'  BY <2>4, <2>7 DEF Sound, OnOrder
  <2>9. req' \in [Requests -> Request] /\ InFlightSound'
    BY <2>5, <2>6, <2>7, <2>8, SoundStep
  <2> QED  BY <1>2, <2>6, <2>9
           DEF DeductLine, IInv, TypeOK, TransfersKnown, ReceivedIsComplete, AllReceived
<1> QED  BY <1>3, <1>4

\* A line of a goods receipt: what was received only grows.
LEMMA ReceiveLineKeeps ==
    ASSUME IInv, NEW r \in Requests, ReceiveLine(r)
    PROVE  IInv' /\ OrdersGrow
<1> DEFINE p == req[r].po
           l == Head(req[r].lines).line
           n == Head(req[r].lines).qty
           i == po[p].ing[l]
           got == [po[p].received EXCEPT ![l] = po[p].received[l] + n]
           q == [req[r] EXCEPT !.lines = Tail(req[r].lines)]
<1>1. req[r] \in Request /\ Sound(req[r]) /\ req[r].at = "receive"
  BY DEF IInv, TypeOK, InFlightSound, ReceiveLine
<1>2. p \in POs /\ po[p].status # None  BY <1>1 DEF Sound, OnOrder
<1>3. req[r].lines \in Seq(Receipt) /\ req[r].lines # <<>>
  BY <1>1 DEF Request, ReceiveLine
<1>4. Head(req[r].lines) \in Receipt /\ Tail(req[r].lines) \in Seq(Receipt)
  BY <1>3
<1>5. l \in Lines /\ n \in Nat  BY <1>4 DEF Receipt
<1>6. \A x \in POs : po[x] \in PoRow  BY DEF IInv, TypeOK
<1>7. po[p].received \in [Lines -> Nat] /\ po[p].ing[l] \in Ingredients \cup {None}
  BY <1>2, <1>5, <1>6 DEF PoRow
<1>8. i \in Ingredients  BY <1>7 DEF ReceiveLine
<1>9. got \in [Lines -> Nat] /\ \A k \in Lines : got[k] >= po[p].received[k]
  BY <1>5, <1>7
<1>10. po' = [po EXCEPT ![p].received = got]  BY DEF ReceiveLine
<1>11. Move(i, "PURCHASE", n)  BY DEF ReceiveLine
<1>12. req' = [req EXCEPT ![r] = q]  BY DEF ReceiveLine, Go
<1>13. q \in Request /\ q.at = "receive" /\ q.po = p
  BY <1>1, <1>4 DEF Request
<1>14. UNCHANGED <<transfer, calls>>  BY DEF ReceiveLine
<1> HIDE DEF got, q, i, n, l
<1>15. \A x \in POs : po'[x] = IF x = p THEN [po[p] EXCEPT !.received = got] ELSE po[x]
  BY <1>2, <1>10 DEF IInv, TypeOK
<1> HIDE DEF p
<1>16. [po[p] EXCEPT !.received = got] \in PoRow  BY <1>2, <1>6, <1>9 DEF PoRow
<1>17. po' \in [POs -> PoRow]  BY <1>2, <1>10, <1>16 DEF IInv, TypeOK
<1>18. \A x \in POs : /\ po'[x].status = po[x].status
                      /\ po'[x].ordered = po[x].ordered
                      /\ po'[x].received = IF x = p THEN got ELSE po[x].received
  BY <1>6, <1>15 DEF PoRow
<1>19. \A x \in POs, k \in Lines : po[x].received[k] \in Nat  BY <1>6 DEF PoRow
<1>20. OrdersGrow  BY <1>9, <1>18, <1>19 DEF OrdersGrow
<1>21. TransfersGrow  BY <1>14 DEF TransfersGrow
<1>22. PICK x \in Request : x = q  BY <1>13
<1>23. po'[p].status # None  BY <1>2, <1>18
<1>24. Sound(x)'  BY <1>2, <1>13, <1>22, <1>23 DEF Sound, OnOrder
<1>25. req' \in [Requests -> Request] /\ InFlightSound'
  BY <1>12, <1>17, <1>20, <1>21, <1>22, <1>24, SoundStep
<1>26. row' \in [Ingredients -> IngredientRow]
       /\ moved' \in [Ingredients -> [MovementType -> Int]]
  BY <1>5, <1>8, <1>11, MoveTyped DEF MovementType, IInv
<1>27. ReceivedIsComplete'
  <2> SUFFICES ASSUME NEW y \in POs, po'[y].status = "RECEIVED" PROVE AllReceived(y)'
    BY DEF ReceivedIsComplete
  <2>1. po[y].status = "RECEIVED" /\ po[y].status # None
    BY <1>18, NoneAssumption DEF POStatus
  <2> QED  BY <1>17, <1>20, <2>1, CompleteStays DEF IInv, ReceivedIsComplete
<1> QED  BY <1>14, <1>17, <1>20, <1>25, <1>26, <1>27 DEF IInv, TypeOK, TransfersKnown

\* The status a receipt will write is the one its read of the lines allows.
LEMMA ReceiveRefreshKeeps ==
    ASSUME IInv, NEW r \in Requests, ReceiveRefresh(r)
    PROVE  IInv' /\ OrdersGrow
<1> DEFINE s == StatusAfter(req[r].po)
           q == [req[r] EXCEPT !.at = "statusWrite", !.to = s]
<1>1. req[r] \in Request /\ Sound(req[r]) /\ req[r].at = "receive"
  BY DEF IInv, TypeOK, InFlightSound, ReceiveRefresh
<1>2. s \in POStatus /\ (s = "RECEIVED" => AllReceived(req[r].po))
  BY DEF StatusAfter, POStatus
<1>3. req' = [req EXCEPT ![r] = q]  BY DEF ReceiveRefresh, Go
<1> HIDE DEF s
<1>4. q \in Request  BY <1>1, <1>2 DEF Request, Step
<1>5. Sound(q)  BY <1>1, <1>2 DEF Sound, OnOrder, Request
<1> HIDE DEF q
<1> QED  BY <1>3, <1>4, <1>5, ReadStep DEF ReceiveRefresh

LEMMA EndKeeps ==
    ASSUME IInv, NEW r \in Requests, ReceiveReject(r) \/ Fail(r)
    PROVE  IInv' /\ OrdersGrow
<1>1. req' = [req EXCEPT ![r] = NoRequest]  BY DEF ReceiveReject, Fail, Finish
<1>2. UNCHANGED <<row, moved, po, transfer, calls>>  BY DEF ReceiveReject, Fail
<1> QED  BY <1>1, <1>2, NoRequestTyped, NoRequestSound, ReadStep

LEMMA OrderWritesKeep ==
    ASSUME IInv, NEW r \in Requests, CancelOrderWrite(r) \/ ReceiveStatus(r)
    PROVE  IInv' /\ OrdersGrow
<1>1. Sound(req[r])  BY DEF IInv, InFlightSound
<1>2. req[r].po \in POs /\ po[req[r].po].status # None
  BY <1>1 DEF Sound, OnOrder, CancelOrderWrite, ReceiveStatus
<1>3. CASE CancelOrderWrite(r)
  <2>1. "CANCELLED" \in POStatus  BY DEF POStatus
  <2> QED  BY <1>2, <1>3, <2>1, OrderStep DEF CancelOrderWrite
<1>4. CASE ReceiveStatus(r)
  <2>1. req[r].to \in POStatus /\ (req[r].to = "RECEIVED" => AllReceived(req[r].po))
    BY <1>1, <1>4 DEF Sound, ReceiveStatus
  <2> QED  BY <1>2, <1>4, <2>1, OrderStep DEF ReceiveStatus
<1> QED  BY <1>3, <1>4

LEMMA NextKeeps == IInv /\ [Next]_vars => IInv' /\ [OrdersGrow]_vars
<1> SUFFICES ASSUME IInv, [Next]_vars PROVE IInv' /\ [OrdersGrow]_vars  OBVIOUS
<1>1. CASE Immediate  BY <1>1, ImmediateKeeps
<1>2. ASSUME NEW r \in Requests, Arrive(r) \/ Proceed(r) \/ Fail(r)
      PROVE IInv' /\ OrdersGrow
  <2>1. CASE Arrive(r)  BY <2>1, ArriveKeeps
  <2>2. CASE Fail(r)  BY <2>2, EndKeeps
  <2>3. CASE \E i \in Ingredients, n \in 1..MaxQty : DeductLine(r, i, n)
    BY <2>3, DeductLineKeeps
  <2>4. CASE \/ StockTakeWrite(r)
             \/ \E t \in Transfers : ShipWrite(r, t)
             \/ \E i \in Clones : TakeInWrite(r, i)
             \/ RecallWrite(r)
    BY <2>4, StockWritesKeep
  <2>5. CASE CancelOrderWrite(r) \/ ReceiveStatus(r)  BY <2>5, OrderWritesKeep
  <2>6. CASE ReceiveLine(r)  BY <2>6, ReceiveLineKeeps
  <2>7. CASE ReceiveReject(r)  BY <2>7, EndKeeps
  <2>8. CASE ReceiveRefresh(r)  BY <2>8, ReceiveRefreshKeeps
  <2> QED  BY <1>2, <2>1, <2>2, <2>3, <2>4, <2>5, <2>6, <2>7, <2>8 DEF Proceed
<1>3. CASE UNCHANGED vars
  <2>1. \A r \in Requests : Sound(req[r])'
    BY <1>3 DEF IInv, InFlightSound, Sound, AllReceived, vars
  <2> QED  BY <1>3, <2>1
           DEF vars, IInv, TypeOK, InFlightSound, TransfersKnown, ReceivedIsComplete,
               AllReceived
<1> QED  BY <1>1, <1>2, <1>3 DEF Next

-----------------------------------------------------------------------------
\* The strengthened invariant holds in every reachable state.
THEOREM Invariance == Spec => []IInv
<1>1. IInv /\ [Next]_vars => IInv'  BY NextKeeps
<1> QED  BY InitIInv, <1>1, PTL DEF Spec

\* The rows of the stock tables and the requests keep their types.
THEOREM TypeCorrect == Spec => []TypeOK
<1>1. IInv => TypeOK  BY DEF IInv
<1> QED  BY Invariance, <1>1, PTL

\* A purchase order that counts as received has received all its lines, however
\* goods receipts, cancellations and failures overlap (receivePurchaseOrder).
THEOREM ReceivedOrdersAreComplete == Spec => []ReceivedIsComplete
<1>1. IInv => ReceivedIsComplete  BY DEF IInv
<1> QED  BY Invariance, <1>1, PTL

\* No step takes back goods that were received, or changes what was ordered.
THEOREM ReceiptsAreKept == Spec => [][OrdersGrow]_vars
<1>1. IInv /\ [Next]_vars => [OrdersGrow]_vars  BY NextKeeps
<1> QED  BY Invariance, <1>1, PTL DEF Spec

-----------------------------------------------------------------------------
(* The ledger: sums over the rows of an ingredient                         *)

\* What a request q knows of the rows it will write.
Known(q) ==
    /\ q.at = "deduct" => \A i \in q.recipe : Exists(i)
    /\ q.at \in {"countWrite", "shipWrite"} => Exists(q.ing)
    /\ q.at = "shipWrite" => q.site \in Sites
    /\ q.at = "countWrite" =>
          /\ "stockTake" \in calls
          /\ Alone => q.qty = q.count - row[q.ing].stock
    /\ q.at \in {"takeInWrite", "recallWrite"} /\ Alone =>
          transfer[q.transfer].status = "PENDING"

KnowsStock == \A r \in Requests : Known(req[r])

OneAtATime == Alone => \A r, s \in Requests : ~Idle(r) /\ ~Idle(s) => r = s

\* A row that exists has a name; nothing was recorded of one that does not.
RowsBorn ==
    \A i \in Ingredients :
        IF Exists(i) THEN row[i].name \in Ingredients
        ELSE row[i].name = None /\ \A type \in MovementType : moved[i][type] = 0

\* Orders and transfers name rows that exist.
OrdersBorn ==
    \A p \in POs, l \in Lines :
        po[p].ing[l] # None => po[p].status # None /\ Exists(po[p].ing[l])

TransfersBorn ==
    \A t \in Transfers : transfer[t].status # None =>
        Exists(transfer[t].ing) /\ transfer[t].to \in Sites

RInv == IInv /\ KnowsStock /\ OneAtATime /\ RowsBorn /\ OrdersBorn /\ TransfersBorn

LInv == RInv /\ LedgerBalances /\ MovementsExplained

\* A step keeps the names of the rows there are.
NamesKept ==
    \A i \in Ingredients : Exists(i) => Exists(i)' /\ row'[i].name = row[i].name

\* A row that comes to be has no movements yet.
RowsFresh ==
    \A i \in Ingredients :
        row'[i].name # row[i].name =>
            ~Exists(i) /\ \A type \in MovementType : moved'[i][type] = 0

-----------------------------------------------------------------------------
LEMMA StockTypes ==
    ASSUME TypeOK
    PROVE  /\ \A i \in Ingredients : /\ row[i] \in IngredientRow /\ row[i].stock \in Int
                                     /\ row[i].opening \in Int
           /\ \A i \in Ingredients, type \in MovementType : moved[i][type] \in Int
           /\ \A p \in POs, l \in Lines : po[p].received[l] \in Nat
                                          /\ po[p].ing[l] \in Ingredients \cup {None}
           /\ \A t \in Transfers : transfer[t] \in TransferRow /\ transfer[t].qty \in Nat
<1>1. \A i \in Ingredients : row[i] \in IngredientRow  BY DEF TypeOK
<1>2. \A p \in POs : po[p] \in PoRow  BY DEF TypeOK
<1>3. \A t \in Transfers : transfer[t] \in TransferRow  BY DEF TypeOK
<1>4. \A i \in Ingredients : row[i].stock \in Int /\ row[i].opening \in Int
  BY <1>1 DEF IngredientRow
<1>5. \A p \in POs, l \in Lines : po[p].received[l] \in Nat
                                  /\ po[p].ing[l] \in Ingredients \cup {None}
  BY <1>2 DEF PoRow
<1>6. \A t \in Transfers : transfer[t].qty \in Nat  BY <1>3 DEF TransferRow
<1>7. \A i \in Ingredients, type \in MovementType : moved[i][type] \in Int
  BY DEF TypeOK
<1> QED  BY <1>1, <1>3, <1>4, <1>5, <1>6, <1>7

LEMMA Finite ==
    /\ \A S \in SUBSET Ingredients : IsFiniteSet(S)
    /\ \A S \in SUBSET Transfers : IsFiniteSet(S)
    /\ \A S \in SUBSET (POs \X Lines) : IsFiniteSet(S)
    /\ IsFiniteSet(MovementType)
<1>1. IsFiniteSet(POs \X Lines)  BY SlotsAssumption, FS_Product
<1>2. IsFiniteSet(MovementType)
  <2>1. IsFiniteSet({})  BY FS_EmptySet
  <2>2. IsFiniteSet({"PURCHASE"})  BY <2>1, FS_AddElement
  <2>3. IsFiniteSet({"PURCHASE", "SALE"})  BY <2>2, FS_AddElement
  <2>4. IsFiniteSet({"PURCHASE", "SALE", "WASTE"})  BY <2>3, FS_AddElement
  <2>5. IsFiniteSet({"PURCHASE", "SALE", "WASTE", "ADJUSTMENT"})
    BY <2>4, FS_AddElement
  <2> QED  BY <2>5, FS_AddElement DEF MovementType
<1> QED  BY <1>1, <1>2, SlotsAssumption, FS_Subset

\* What a change of one row does to the stock and the openings of its ingredient.
LEMMA RowChange ==
    ASSUME TypeOK, TypeOK', NEW i \in Ingredients, NEW n,
           \A x \in Ingredients : x # i => row'[x] = row[x]
    PROVE  /\ StockOf(n) \in Int /\ StockOf(n)' \in Int
           /\ OpeningOf(n) \in Int /\ OpeningOf(n)' \in Int
           /\ StockOf(n)' + (IF row[i].name = n THEN row[i].stock ELSE 0)
                = StockOf(n) + (IF row'[i].name = n THEN row'[i].stock ELSE 0)
           /\ OpeningOf(n)' + (IF row[i].name = n THEN row[i].opening ELSE 0)
                = OpeningOf(n) + (IF row'[i].name = n THEN row'[i].opening ELSE 0)
<1> DEFINE A == RowsOf(n)
           B == {x \in Ingredients : row'[x].name = n}
           f == [x \in Ingredients |-> row[x].stock]
           g == [x \in Ingredients |-> row'[x].stock]
           h == [x \in Ingredients |-> row[x].opening]
           k == [x \in Ingredients |-> row'[x].opening]
<1>1. /\ A \in SUBSET Ingredients /\ B \in SUBSET Ingredients /\ A \ {i} = B \ {i}
      /\ (i \in A <=> row[i].name = n) /\ (i \in B <=> row'[i].name = n)
  BY DEF RowsOf
<1>2. IsFiniteSet(A)  BY <1>1, Finite
<1>3. /\ \A x \in Ingredients : f[x] \in Int /\ h[x] \in Int
      /\ \A x \in Ingredients : g[x] \in Int /\ k[x] \in Int
      /\ \A x \in Ingredients : x # i => g[x] = f[x] /\ k[x] = h[x]
      /\ f[i] = row[i].stock /\ g[i] = row'[i].stock
      /\ h[i] = row[i].opening /\ k[i] = row'[i].opening
  <2>1. \A x \in Ingredients : row'[x].stock \in Int /\ row'[x].opening \in Int
    BY DEF TypeOK, IngredientRow
  <2> QED  BY <2>1, StockTypes
<1>4. /\ StockOf(n) = SumFunctionOnSet(f, A) /\ StockOf(n)' = SumFunctionOnSet(g, B)
      /\ OpeningOf(n) = SumFunctionOnSet(h, A) /\ OpeningOf(n)' = SumFunctionOnSet(k, B)
  BY DEF StockOf, OpeningOf, RowsOf
<1> HIDE DEF A, B, f, g, h, k
<1>5. /\ SumFunctionOnSet(f, A) \in Int /\ SumFunctionOnSet(g, B) \in Int
      /\ SumFunctionOnSet(g, B) + (IF i \in A THEN f[i] ELSE 0)
           = SumFunctionOnSet(f, A) + (IF i \in B THEN g[i] ELSE 0)
  <2>1. /\ \A x \in A : f[x] \in Int
        /\ \A x \in B : g[x] \in Int
        /\ \A x \in A : x # i => g[x] = f[x]
    BY <1>1, <1>3
  <2> QED  BY <1>1, <1>2, <2>1, SumPoint
<1>6. /\ SumFunctionOnSet(h, A) \in Int /\ SumFunctionOnSet(k, B) \in Int
      /\ SumFunctionOnSet(k, B) + (IF i \in A THEN h[i] ELSE 0)
           = SumFunctionOnSet(h, A) + (IF i \in B THEN k[i] ELSE 0)
  <2>1. /\ \A x \in A : h[x] \in Int
        /\ \A x \in B : k[x] \in Int
        /\ \A x \in A : x # i => k[x] = h[x]
    BY <1>1, <1>3
  <2> QED  BY <1>1, <1>2, <2>1, SumPoint
<1> QED  BY <1>1, <1>3, <1>4, <1>5, <1>6

\* The movements of an ingredient are those of the rows it had before.
LEMMA MovedBefore ==
    ASSUME TypeOK, TypeOK', RowsBorn, NamesKept, RowsFresh,
           NEW n \in Ingredients, NEW type \in MovementType
    PROVE  MovedOf(n, type)'
             = SumFunctionOnSet([i \in Ingredients |-> moved'[i][type]], RowsOf(n))
<1> DEFINE g == [i \in Ingredients |-> moved'[i][type]]
           A == RowsOf(n)
           B == {i \in Ingredients : row'[i].name = n}
<1>1. A \in SUBSET B
  <2>1. ASSUME NEW i \in Ingredients, row[i].name = n PROVE row'[i].name = n
    BY <2>1, NoneAssumption DEF RowsBorn, NamesKept
  <2> QED  BY <2>1 DEF RowsOf
<1>2. \A i \in B \ A : g[i] = 0  BY DEF RowsFresh, RowsOf
<1>3. \A i \in B : g[i] \in Int  BY DEF TypeOK
<1>4. B \in SUBSET Ingredients  OBVIOUS
<1>5. MovedOf(n, type)' = SumFunctionOnSet(g, B)  BY DEF MovedOf, RowsOf
<1> HIDE DEF g, A, B
<1>6. IsFiniteSet(B)  BY <1>4, Finite
<1>7. SumFunctionOnSet(g, B) = SumFunctionOnSet(g, A)  BY <1>1, <1>2, <1>3, <1>6, SumZeros
<1> QED  BY <1>5, <1>7 DEF g, A

LEMMA MovedTyped ==
    ASSUME TypeOK, NEW n
    PROVE  /\ \A type \in MovementType : MovedOf(n, type) \in Int
           /\ RecordedOf(n) \in Int
<1>1. ASSUME NEW type \in MovementType PROVE MovedOf(n, type) \in Int
  <2> DEFINE f == [i \in Ingredients |-> moved[i][type]]
             A == RowsOf(n)
  <2>1. A \in SUBSET Ingredients /\ (\A i \in Ingredients : f[i] \in Int)
    BY DEF RowsOf, TypeOK
  <2>2. MovedOf(n, type) = SumFunctionOnSet(f, A)  BY DEF MovedOf
  <2> HIDE DEF f, A
  <2>3. IsFiniteSet(A) /\ Int \in {Nat, Int}  BY <2>1, Finite
  <2> QED  BY <2>1, <2>2, <2>3, SumType
<1>2. RecordedOf(n) \in Int
  <2> DEFINE f == [type \in MovementType |-> MovedOf(n, type)]
  <2>1. \A type \in MovementType : f[type] \in Int  BY <1>1
  <2>2. RecordedOf(n) = SumFunctionOnSet(f, MovementType)  BY DEF RecordedOf
  <2> HIDE DEF f
  <2>3. IsFiniteSet(MovementType) /\ Int \in {Nat, Int}  BY Finite
  <2> QED  BY <2>1, <2>2, <2>3, SumType
<1> QED  BY <1>1, <1>2

\* Nothing is recorded.
LEMMA MovedStays ==
    ASSUME TypeOK, TypeOK', RowsBorn, NamesKept, RowsFresh, moved' = moved,
           NEW n \in Ingredients
    PROVE  /\ \A type \in MovementType : MovedOf(n, type)' = MovedOf(n, type)
           /\ RecordedOf(n)' = RecordedOf(n)
<1>1. \A type \in MovementType : MovedOf(n, type)' = MovedOf(n, type)
  <2> TAKE type \in MovementType
  <2>1. MovedOf(n, type)'
          = SumFunctionOnSet([i \in Ingredients |-> moved'[i][type]], RowsOf(n))
    BY MovedBefore
  <2> QED  BY <2>1 DEF MovedOf
<1>2. [type \in MovementType |-> MovedOf(n, type)]' = [type \in MovementType |-> MovedOf(n, type)]
  BY <1>1
<1> QED  BY <1>1, <1>2 DEF RecordedOf

\* One movement is recorded.
LEMMA MovedChange ==
    ASSUME TypeOK, TypeOK', RowsBorn, NamesKept, RowsFresh,
           NEW i \in Ingredients, Exists(i), NEW kind \in MovementType, NEW q \in Int,
           moved' = [moved EXCEPT ![i][kind] = moved[i][kind] + q],
           NEW n \in Ingredients
    PROVE  /\ \A type \in MovementType :
                 MovedOf(n, type)' = MovedOf(n, type)
                                     + (IF row[i].name = n /\ type = kind THEN q ELSE 0)
           /\ RecordedOf(n)' = RecordedOf(n) + (IF row[i].name = n THEN q ELSE 0)
<1>1. \A x \in Ingredients, type \in MovementType :
         /\ moved[x][type] \in Int /\ moved'[x][type] \in Int
         /\ moved'[x][type] = moved[x][type] + (IF x = i /\ type = kind THEN q ELSE 0)
  BY DEF TypeOK
<1>2. ASSUME NEW type \in MovementType
      PROVE  /\ MovedOf(n, type)' = MovedOf(n, type)
                                    + (IF row[i].name = n /\ type = kind THEN q ELSE 0)
             /\ MovedOf(n, type) \in Int /\ MovedOf(n, type)' \in Int
  <2> DEFINE A == RowsOf(n)
             f == [x \in Ingredients |-> moved[x][type]]
             g == [x \in Ingredients |-> moved'[x][type]]
  <2>1. MovedOf(n, type)' = SumFunctionOnSet(g, A)  BY MovedBefore
  <2>2. MovedOf(n, type) = SumFunctionOnSet(f, A)  BY DEF MovedOf
  <2>3. A \in SUBSET Ingredients /\ (i \in A <=> row[i].name = n)  BY DEF RowsOf
  <2>4. /\ \A x \in Ingredients : f[x] \in Int /\ g[x] \in Int
        /\ \A x \in Ingredients : x # i => g[x] = f[x]
        /\ g[i] = f[i] + (IF type = kind THEN q ELSE 0)
    BY <1>1
  <2> HIDE DEF A, f, g
  <2>5. IsFiniteSet(A)  BY <2>3, Finite
  <2>6. /\ \A x \in A : f[x] \in Int
        /\ \A x \in A : g[x] \in Int
        /\ \A x \in A : x # i => g[x] = f[x]
    BY <2>3, <2>4
  <2>7. /\ SumFunctionOnSet(f, A) \in Int /\ SumFunctionOnSet(g, A) \in Int
        /\ SumFunctionOnSet(g, A) + (IF i \in A THEN f[i] ELSE 0)
             = SumFunctionOnSet(f, A) + (IF i \in A THEN g[i] ELSE 0)
    BY <2>5, <2>6, SumPoint
  <2>8. SumFunctionOnSet(g, A)
          = SumFunctionOnSet(f, A) + (IF i \in A /\ type = kind THEN q ELSE 0)
    <3>1. f[i] \in Int /\ g[i] \in Int  BY <2>4
    <3>2. CASE i \in A /\ type = kind
      <4>1. g[i] = f[i] + q  BY <2>4, <3>2
      <4>2. SumFunctionOnSet(g, A) + f[i] = SumFunctionOnSet(f, A) + g[i]
        BY <2>7, <3>2
      <4> QED  BY <2>7, <3>1, <3>2, <4>1, <4>2
    <3>3. CASE ~(i \in A /\ type = kind)
      <4>1. i \in A => g[i] = f[i]  BY <2>4, <3>1, <3>3
      <4> QED  BY <2>7, <3>1, <3>3, <4>1
    <3> QED  BY <3>2, <3>3
  <2> QED  BY <2>1, <2>2, <2>3, <2>7, <2>8
<1>3. RecordedOf(n)' = RecordedOf(n) + (IF row[i].name = n THEN q ELSE 0)
  <2> DEFINE f == [type \in MovementType |-> MovedOf(n, type)]
             g == [type \in MovementType |-> MovedOf(n, type)']
  <2>1. RecordedOf(n) = SumFunctionOnSet(f, MovementType)  BY DEF RecordedOf
  <2>2. RecordedOf(n)' = SumFunctionOnSet(g, MovementType)  BY DEF RecordedOf
  <2>3. /\ \A type \in MovementType : f[type] \in Int
        /\ \A type \in MovementType : g[type] \in Int
        /\ \A type \in MovementType : type # kind => g[type] = f[type]
        /\ g[kind] = f[kind] + (IF row[i].name = n THEN q ELSE 0)
    BY <1>2
  <2> HIDE DEF f, g
  <2>4. IsFiniteSet(MovementType)  BY Finite
  <2>5. /\ SumFunctionOnSet(f, MovementType) \in Int
        /\ SumFunctionOnSet(g, MovementType) \in Int
        /\ SumFunctionOnSet(g, MovementType) + (IF kind \in MovementType THEN f[kind] ELSE 0)
             = SumFunctionOnSet(f, MovementType) + (IF kind \in MovementType THEN g[kind] ELSE 0)
    BY <2>3, <2>4, SumPoint
  <2>6. f[kind] \in Int /\ g[kind] \in Int  BY <2>3
  <2>7. SumFunctionOnSet(g, MovementType)
          = SumFunctionOnSet(f, MovementType) + (IF row[i].name = n THEN q ELSE 0)
    <3>1. SumFunctionOnSet(g, MovementType) + f[kind]
            = SumFunctionOnSet(f, MovementType) + g[kind]
      BY <2>5
    <3>2. CASE row[i].name = n
      <4>1. g[kind] = f[kind] + q  BY <2>3, <3>2
      <4>2. SumFunctionOnSet(g, MovementType) = SumFunctionOnSet(f, MovementType) + q
        BY <2>5, <2>6, <3>1, <4>1
      <4> QED  BY <3>2, <4>2
    <3>3. CASE row[i].name # n
      <4>1. g[kind] = f[kind]  BY <2>3, <2>6, <3>3
      <4> QED  BY <2>5, <2>6, <3>1, <3>3, <4>1
    <3> QED  BY <3>2, <3>3
  <2> QED  BY <2>1, <2>2, <2>7
<1> QED  BY <1>2, <1>3
-----------------------------------------------------------------------------
(* What the documents say of an ingredient                                 *)

LEMMA LinesKept ==
    ASSUME TypeOK, OrdersBorn, NamesKept, NEW n, NEW e \in POs \X Lines,
           po'[e[1]].ing[e[2]] = po[e[1]].ing[e[2]]
    PROVE  e \in OrderLinesOf(n)' <=> e \in OrderLinesOf(n)
<1>1. e[1] \in POs /\ e[2] \in Lines  OBVIOUS
<1>2. po[e[1]].ing[e[2]] \in Ingredients \cup {None}  BY <1>1, StockTypes
<1>3. po[e[1]].ing[e[2]] # None => row'[po[e[1]].ing[e[2]]].name = row[po[e[1]].ing[e[2]]].name
  BY <1>1, <1>2 DEF OrdersBorn, NamesKept
<1> QED  BY <1>3 DEF OrderLinesOf

LEMMA ReceivedTyped ==
    ASSUME TypeOK, NEW n
    PROVE  ReceivedOf(n) \in Int
<1> DEFINE f == [e \in POs \X Lines |-> po[e[1]].received[e[2]]]
           A == OrderLinesOf(n)
<1>1. A \in SUBSET (POs \X Lines)  BY DEF OrderLinesOf
<1>2. \A e \in POs \X Lines : f[e] \in Int  BY StockTypes
<1>3. ReceivedOf(n) = SumFunctionOnSet(f, A)  BY DEF ReceivedOf
<1> HIDE DEF f, A
<1>4. IsFiniteSet(A) /\ Int \in {Nat, Int}  BY <1>1, Finite
<1>5. \A e \in A : f[e] \in Int  BY <1>1, <1>2
<1> QED  BY <1>3, <1>4, <1>5, SumType

LEMMA ReceivedStays ==
    ASSUME TypeOK, OrdersBorn, NamesKept, NEW n,
           \A p \in POs : po'[p].ing = po[p].ing /\ po'[p].received = po[p].received
    PROVE  ReceivedOf(n)' = ReceivedOf(n)
<1>1. OrderLinesOf(n)' = OrderLinesOf(n)
  <2>1. \A e \in POs \X Lines : e \in OrderLinesOf(n)' <=> e \in OrderLinesOf(n)
    <3> TAKE e \in POs \X Lines
    <3>1. po'[e[1]].ing[e[2]] = po[e[1]].ing[e[2]]  OBVIOUS
    <3> QED  BY <3>1, LinesKept
  <2>2. OrderLinesOf(n) \subseteq POs \X Lines /\ OrderLinesOf(n)' \subseteq POs \X Lines
    BY DEF OrderLinesOf
  <2> QED  BY <2>1, <2>2
<1>2. [e \in POs \X Lines |-> po'[e[1]].received[e[2]]]
      = [e \in POs \X Lines |-> po[e[1]].received[e[2]]]
  OBVIOUS
<1> QED  BY <1>1, <1>2 DEF ReceivedOf

\* A line is received.
LEMMA ReceivedChange ==
    ASSUME TypeOK, TypeOK', OrdersBorn, NamesKept,
           NEW p \in POs, NEW l \in Lines, NEW q \in Nat, po[p].ing[l] # None,
           \A x \in POs : po'[x].ing = po[x].ing,
           \A x \in POs, k \in Lines :
              po'[x].received[k] = IF x = p /\ k = l THEN po[x].received[k] + q
                                   ELSE po[x].received[k],
           NEW n
    PROVE  ReceivedOf(n)' = ReceivedOf(n) + (IF row[po[p].ing[l]].name = n THEN q ELSE 0)
<1> DEFINE f == [e \in POs \X Lines |-> po[e[1]].received[e[2]]]
           g == [e \in POs \X Lines |-> po'[e[1]].received[e[2]]]
           A == OrderLinesOf(n)
           a == <<p, l>>
<1>1. OrderLinesOf(n)' = A
  <2>1. \A e \in POs \X Lines : e \in OrderLinesOf(n)' <=> e \in OrderLinesOf(n)
    <3> TAKE e \in POs \X Lines
    <3>1. po'[e[1]].ing[e[2]] = po[e[1]].ing[e[2]]  OBVIOUS
    <3> QED  BY <3>1, LinesKept
  <2>2. OrderLinesOf(n) \subseteq POs \X Lines /\ OrderLinesOf(n)' \subseteq POs \X Lines
    BY DEF OrderLinesOf
  <2> QED  BY <2>1, <2>2
<1>2. /\ ReceivedOf(n) = SumFunctionOnSet(f, A)
      /\ ReceivedOf(n)' = SumFunctionOnSet(g, A)
  BY <1>1 DEF ReceivedOf
<1>3. A \in SUBSET (POs \X Lines) /\ a \in POs \X Lines
      /\ (a \in A <=> row[po[p].ing[l]].name = n)
  BY DEF OrderLinesOf
<1>4. /\ \A e \in POs \X Lines : f[e] \in Int /\ g[e] \in Int
      /\ \A e \in POs \X Lines : e # a => g[e] = f[e]
      /\ g[a] = f[a] + q
  <2>1. \A x \in POs, k \in Lines : po[x].received[k] \in Nat  BY StockTypes
  <2>2. \A x \in POs, k \in Lines : po'[x].received[k] \in Nat  BY <2>1
  <2>3. ASSUME NEW e \in POs \X Lines
        PROVE  /\ f[e] = po[e[1]].received[e[2]] /\ g[e] = po'[e[1]].received[e[2]]
               /\ e[1] \in POs /\ e[2] \in Lines
               /\ e # a => ~(e[1] = p /\ e[2] = l)
    OBVIOUS
  <2>4. f[a] = po[p].received[l] /\ g[a] = po'[p].received[l]  OBVIOUS
  <2> HIDE DEF f, g, a
  <2> QED  BY <2>1, <2>2, <2>3, <2>4
<1> HIDE DEF f, g, A, a
<1>5. IsFiniteSet(A)  BY <1>3, Finite
<1>6. /\ \A e \in A : f[e] \in Int
      /\ \A e \in A : g[e] \in Int
      /\ \A e \in A : e # a => g[e] = f[e]
  BY <1>3, <1>4
<1>7. /\ SumFunctionOnSet(f, A) \in Int /\ SumFunctionOnSet(g, A) \in Int
      /\ SumFunctionOnSet(g, A) + (IF a \in A THEN f[a] ELSE 0)
           = SumFunctionOnSet(f, A) + (IF a \in A THEN g[a] ELSE 0)
  BY <1>5, <1>6, SumPoint
<1>8. f[a] \in Int /\ g[a] \in Int /\ g[a] = f[a] + q  BY <1>3, <1>4
<1>9. CASE a \in A
  <2>1. SumFunctionOnSet(g, A) + f[a] = SumFunctionOnSet(f, A) + g[a]  BY <1>7, <1>9
  <2>2. SumFunctionOnSet(g, A) = SumFunctionOnSet(f, A) + q  BY <1>7, <1>8, <2>1
  <2> QED  BY <1>2, <1>3, <1>9, <2>2
<1>10. CASE a \notin A
  <2>1. SumFunctionOnSet(g, A) = SumFunctionOnSet(f, A)  BY <1>7, <1>10
  <2> QED  BY <1>2, <1>3, <1>7, <1>10, <2>1
<1> QED  BY <1>9, <1>10

\* A new order has received nothing.
LEMMA ReceivedNew ==
    ASSUME TypeOK, TypeOK', OrdersBorn, NamesKept, NEW p \in POs, po[p].status = None,
           \A x \in POs \ {p} : po'[x] = po[x],
           \A l \in Lines : po'[p].received[l] = 0,
           NEW n
    PROVE  ReceivedOf(n)' = ReceivedOf(n)
<1> DEFINE f == [e \in POs \X Lines |-> po[e[1]].received[e[2]]]
           g == [e \in POs \X Lines |-> po'[e[1]].received[e[2]]]
           A == OrderLinesOf(n)
           B == {e \in POs \X Lines : /\ po'[e[1]].ing[e[2]] # None
                                      /\ row'[po'[e[1]].ing[e[2]]].name = n}
<1>1. ReceivedOf(n) = SumFunctionOnSet(f, A) /\ ReceivedOf(n)' = SumFunctionOnSet(g, B)
  BY DEF ReceivedOf, OrderLinesOf
<1>2. /\ A \in SUBSET (POs \X Lines) /\ B \in SUBSET (POs \X Lines)
      /\ B = OrderLinesOf(n)'
  BY DEF OrderLinesOf
<1>3. \A e \in A : e[1] \in POs \ {p}
  BY DEF OrderLinesOf, OrdersBorn
<1>4. ASSUME NEW e \in POs \X Lines, e[1] # p
      PROVE  (e \in B <=> e \in A) /\ g[e] = f[e]
  <2>1. po'[e[1]].ing[e[2]] = po[e[1]].ing[e[2]]  BY <1>4
  <2>2. e \in B <=> e \in A  BY <1>2, <2>1, LinesKept
  <2> QED  BY <1>4, <2>2
<1>5. ASSUME NEW e \in POs \X Lines, e[1] = p
      PROVE  g[e] = 0
  BY <1>5
<1>6. \A e \in POs \X Lines : f[e] \in Int
  <2>1. \A x \in POs, k \in Lines : po[x].received[k] \in Nat  BY StockTypes
  <2> QED  BY <2>1
<1> HIDE DEF f, g, A, B
<1>7. A \in SUBSET B /\ IsFiniteSet(B) /\ IsFiniteSet(A)
  BY <1>2, <1>3, <1>4, Finite
<1>8. \A e \in B : g[e] \in Int /\ (e \notin A => g[e] = 0)
  BY <1>2, <1>4, <1>5, <1>6
<1>9. SumFunctionOnSet(g, B) = SumFunctionOnSet(g, A)
  <2>1. (\A e \in B : g[e] \in Int) /\ (\A e \in B \ A : g[e] = 0)  BY <1>8
  <2> QED  BY <1>7, <2>1, SumZeros
<1>10. \A e \in A : f[e] = g[e]  BY <1>2, <1>3, <1>4
<1>11. SumFunctionOnSet(f, A) = SumFunctionOnSet(g, A)  BY <1>7, <1>10, SumAgree
<1> QED  BY <1>1, <1>9, <1>11

LEMMA TransferKept ==
    ASSUME TypeOK, TransfersKnown, TransfersBorn, NamesKept, NEW n,
           NEW S \in SUBSET TransferStatus, NEW t \in Transfers, transfer'[t] = transfer[t]
    PROVE  t \in TransfersOf(n, S)' <=> t \in TransfersOf(n, S)
<1>1. transfer[t].status \in S => transfer[t].status # None  BY NoneAssumption
<1>2. transfer[t].status \in S => row'[transfer[t].ing].name = row[transfer[t].ing].name
  BY <1>1 DEF TransfersKnown, TransfersBorn, NamesKept
<1> QED  BY <1>2 DEF TransfersOf

LEMMA ShippedTyped ==
    ASSUME TypeOK, NEW n, NEW S
    PROVE  ShippedOf(n, S) \in Nat
<1> DEFINE f == [t \in Transfers |-> transfer[t].qty]
           A == TransfersOf(n, S)
<1>1. A \in SUBSET Transfers  BY DEF TransfersOf
<1>2. \A t \in Transfers : f[t] \in Nat  BY StockTypes
<1>3. ShippedOf(n, S) = SumFunctionOnSet(f, A)  BY DEF ShippedOf
<1> HIDE DEF f, A
<1>4. IsFiniteSet(A) /\ Nat \in {Nat, Int}  BY <1>1, Finite
<1>5. \A t \in A : f[t] \in Nat  BY <1>1, <1>2
<1> QED  BY <1>3, <1>4, <1>5, SumType

LEMMA ShippedStays ==
    ASSUME TypeOK, TransfersKnown, TransfersBorn, NamesKept, transfer' = transfer,
           NEW n, NEW S \in SUBSET TransferStatus
    PROVE  ShippedOf(n, S)' = ShippedOf(n, S)
<1>1. TransfersOf(n, S)' = TransfersOf(n, S)
  <2>1. \A t \in Transfers : t \in TransfersOf(n, S)' <=> t \in TransfersOf(n, S)
    BY TransferKept
  <2>2. TransfersOf(n, S) \subseteq Transfers /\ TransfersOf(n, S)' \subseteq Transfers
    BY DEF TransfersOf
  <2> QED  BY <2>1, <2>2
<1> QED  BY <1>1 DEF ShippedOf

\* A transfer is written.
LEMMA ShippedChange ==
    ASSUME TypeOK, TypeOK', TransfersKnown, TransfersBorn, NamesKept,
           NEW t \in Transfers, \A x \in Transfers : x # t => transfer'[x] = transfer[x],
           NEW i \in Ingredients, Exists(i), transfer'[t].ing = i,
           NEW n, NEW S \in SUBSET TransferStatus
    PROVE  ShippedOf(n, S)'
             + (IF t \in TransfersOf(n, S) THEN transfer[t].qty ELSE 0)
             = ShippedOf(n, S)
                 + (IF transfer'[t].status \in S /\ row[i].name = n
                    THEN transfer'[t].qty ELSE 0)
<1> DEFINE f == [x \in Transfers |-> transfer[x].qty]
           g == [x \in Transfers |-> transfer'[x].qty]
           A == TransfersOf(n, S)
           B == {x \in Transfers : /\ transfer'[x].status \in S
                                   /\ row'[transfer'[x].ing].name = n}
<1>1. ShippedOf(n, S) = SumFunctionOnSet(f, A) /\ ShippedOf(n, S)' = SumFunctionOnSet(g, B)
  BY DEF ShippedOf, TransfersOf
<1>2. /\ A \in SUBSET Transfers /\ B \in SUBSET Transfers
      /\ B = TransfersOf(n, S)'
  BY DEF TransfersOf
<1>3. A \ {t} = B \ {t}
  <2>1. \A x \in Transfers : x # t => (x \in B <=> x \in A)
    BY <1>2, TransferKept
  <2> QED  BY <1>2, <2>1
<1>4. t \in B <=> transfer'[t].status \in S /\ row[i].name = n
  BY DEF NamesKept
<1>5. /\ \A x \in Transfers : f[x] \in Int /\ g[x] \in Int
      /\ \A x \in Transfers : x # t => g[x] = f[x]
      /\ f[t] = transfer[t].qty /\ g[t] = transfer'[t].qty
  <2>1. \A x \in Transfers : transfer[x].qty \in Nat  BY StockTypes
  <2>2. \A x \in Transfers : transfer'[x].qty \in Nat  BY DEF TypeOK, TransferRow
  <2> QED  BY <2>1, <2>2
<1> HIDE DEF f, g, A, B
<1>6. IsFiniteSet(A)  BY <1>2, Finite
<1>7. /\ \A x \in A : f[x] \in Int
      /\ \A x \in B : g[x] \in Int
      /\ \A x \in A : x # t => g[x] = f[x]
  BY <1>2, <1>5
<1>8. SumFunctionOnSet(g, B) + (IF t \in A THEN f[t] ELSE 0)
        = SumFunctionOnSet(f, A) + (IF t \in B THEN g[t] ELSE 0)
  BY <1>3, <1>6, <1>7, SumPoint
<1> QED  BY <1>1, <1>4, <1>5, <1>8 DEF A
-----------------------------------------------------------------------------
\* A handler that is not at a write knows nothing it could lose.
LEMMA KnownStays ==
    ASSUME RInv, NamesKept, calls' = calls, NEW s \in Requests, req'[s] = req[s],
           Alone => Idle(s)
    PROVE  Known(req[s])'
<1>1. Known(req[s]) /\ Sound(req[s]) /\ req[s] \in Request
  BY DEF RInv, KnowsStock, IInv, InFlightSound, TypeOK
<1>2. Alone' <=> Alone  BY DEF Alone
<1>3. CASE Idle(s)  BY <1>3 DEF Known, Idle
<1>4. CASE ~Alone
  <2>1. req[s].recipe \subseteq Ingredients  BY <1>1 DEF Request
  <2>2. req[s].at \in {"countWrite", "shipWrite"} => req[s].ing \in Ingredients
    BY <1>1 DEF Sound
  <2> QED  BY <1>1, <1>2, <1>4, <2>1, <2>2 DEF Known, NamesKept
<1> QED  BY <1>3, <1>4

\* One handler goes on; if handlers come alone, it is the only one.
LEMMA HandlerStep ==
    ASSUME RInv, NamesKept, calls' = calls, NEW r \in Requests, NEW q \in Request,
           req' = [req EXCEPT ![r] = q], Known(q)',
           Alone => \A s \in Requests : s # r => Idle(s)
    PROVE  KnowsStock' /\ OneAtATime'
<1>1. \A s \in Requests : req'[s] = IF s = r THEN q ELSE req[s]
  BY DEF RInv, IInv, TypeOK
<1>2. KnowsStock'
  <2> SUFFICES ASSUME NEW s \in Requests PROVE Known(req[s])'  BY DEF KnowsStock
  <2>1. CASE s = r
    <3>1. req'[s] = q  BY <1>1, <2>1
    <3> QED  BY <3>1 DEF Known
  <2>2. CASE s # r  BY <1>1, <2>2, KnownStays
  <2> QED  BY <2>1, <2>2
<1>3. OneAtATime'
  <2>1. \A s \in Requests : s # r => (Idle(s)' <=> Idle(s))  BY <1>1 DEF Idle
  <2> QED  BY <2>1 DEF OneAtATime, Alone
<1> QED  BY <1>2, <1>3

LEMMA EndStep ==
    ASSUME RInv, NamesKept, calls' = calls, NEW r \in Requests, ~Idle(r), Finish(r)
    PROVE  KnowsStock' /\ OneAtATime'
<1>1. Known(NoRequest)'  BY DEF Known, NoRequest
<1>2. Alone => \A s \in Requests : s # r => Idle(s)  BY DEF RInv, OneAtATime
<1> QED  BY <1>1, <1>2, NoRequestTyped, HandlerStep DEF Finish

\* Handlers of one step; if handlers come alone, nothing else is in flight.
LEMMA ImmediateStep ==
    ASSUME RInv, NamesKept, UNCHANGED <<calls, req>>,
           Alone => \A s \in Requests : Idle(s)
    PROVE  KnowsStock' /\ OneAtATime'
<1>1. KnowsStock'
  <2> SUFFICES ASSUME NEW s \in Requests PROVE Known(req[s])'  BY DEF KnowsStock
  <2> QED  BY KnownStays
<1>2. OneAtATime'  BY DEF RInv, OneAtATime, Idle, Alone
<1> QED  BY <1>1, <1>2

LEMMA OrdersBornStay ==
    ASSUME RInv, NamesKept,
           \A p \in POs : /\ po'[p].ing = po[p].ing
                          /\ po[p].status # None => po'[p].status # None
    PROVE  OrdersBorn'
<1>1. TypeOK /\ OrdersBorn  BY DEF RInv, IInv
<1>2. \A p \in POs, l \in Lines : po[p].ing[l] \in Ingredients \cup {None}
  BY <1>1, StockTypes
<1> QED  BY <1>1, <1>2 DEF OrdersBorn, NamesKept

LEMMA TransfersBornStay ==
    ASSUME RInv, NamesKept, transfer' = transfer
    PROVE  TransfersBorn'
BY DEF RInv, IInv, TransfersKnown, TransfersBorn, NamesKept

\* A step that writes one row that exists, and records movements of it.
LEMMA WriteStep ==
    ASSUME RInv, NEW i \in Ingredients, Exists(i),
           \A x \in Ingredients : x # i => row'[x] = row[x] /\ moved'[x] = moved[x],
           row'[i].site = row[i].site, row'[i].name = row[i].name
    PROVE  NamesKept /\ RowsFresh /\ RowsBorn'
<1>1. \A x \in Ingredients : (Exists(x)' <=> Exists(x)) /\ row'[x].name = row[x].name
  BY DEF Exists
<1>2. NamesKept /\ RowsFresh  BY <1>1 DEF NamesKept, RowsFresh
<1>3. \A x \in Ingredients : ~Exists(x) => moved'[x] = moved[x]  OBVIOUS
<1> QED  BY <1>1, <1>2, <1>3 DEF RInv, RowsBorn

\* A step that changes no row and no movement, and of the orders at most a status.
LEMMA QuietStep ==
    ASSUME LInv, IInv', UNCHANGED <<row, moved, transfer, calls>>,
           \A p \in POs : /\ po'[p].ing = po[p].ing /\ po'[p].received = po[p].received
                          /\ po[p].status # None => po'[p].status # None,
           KnowsStock' /\ OneAtATime'
    PROVE  LInv'
<1>1. NamesKept  BY DEF NamesKept, Exists
<1>2. RInv'
  <2>1. RowsBorn'  BY DEF LInv, RInv, RowsBorn, Exists
  <2>2. OrdersBorn' /\ TransfersBorn'
    BY <1>1, OrdersBornStay, TransfersBornStay DEF LInv
  <2> QED  BY <2>1, <2>2 DEF RInv
<1>3. LedgerBalances'
  BY DEF LInv, LedgerBalances, StockOf, OpeningOf, RecordedOf, MovedOf, RowsOf, Alone
<1>4. MovementsExplained'
  <2> SUFFICES ASSUME Alone, NEW n \in Ingredients
               PROVE  /\ MovedOf(n, "PURCHASE")' = ReceivedOf(n)' + ShippedOf(n, {"RECEIVED"})'
                      /\ MovedOf(n, "ADJUSTMENT")' = -(ShippedOf(n, {"PENDING", "RECEIVED"})')
    BY DEF MovementsExplained, Alone
  <2>1. TypeOK /\ OrdersBorn  BY DEF LInv, RInv, IInv
  <2>2. ReceivedOf(n)' = ReceivedOf(n)  BY <1>1, <2>1, ReceivedStays
  <2>3. /\ ShippedOf(n, {"RECEIVED"})' = ShippedOf(n, {"RECEIVED"})
        /\ ShippedOf(n, {"PENDING", "RECEIVED"})' = ShippedOf(n, {"PENDING", "RECEIVED"})
    BY DEF ShippedOf, TransfersOf
  <2>4. /\ MovedOf(n, "PURCHASE")' = MovedOf(n, "PURCHASE")
        /\ MovedOf(n, "ADJUSTMENT")' = MovedOf(n, "ADJUSTMENT")
    BY DEF MovedOf, RowsOf
  <2> QED  BY <2>2, <2>3, <2>4 DEF LInv, MovementsExplained
<1> QED  BY <1>2, <1>3, <1>4 DEF LInv

-----------------------------------------------------------------------------
\* Stock and its movement, within the bound on both or not.
Moves(i, type, q) ==
    /\ row' = [row EXCEPT ![i].stock = row[i].stock + q]
    /\ moved' = [moved EXCEPT ![i][type] = moved[i][type] + q]

LEMMA MoveMoves ==
    ASSUME NEW i, NEW type, NEW q, Move(i, type, q)
    PROVE  Moves(i, type, q)
BY DEF Move, Moves

\* One movement, with the stock it explains.
LEMMA MoveBalances ==
    ASSUME LInv, TypeOK', calls' = calls, NEW i \in Ingredients, Exists(i),
           NEW kind \in MovementType, NEW q \in Int,
           Moves(i, kind, q)
    PROVE  /\ NamesKept /\ RowsFresh /\ RowsBorn' /\ LedgerBalances'
           /\ \A n \in Ingredients, type \in MovementType :
                 MovedOf(n, type)' = MovedOf(n, type)
                                     + (IF row[i].name = n /\ type = kind THEN q ELSE 0)
<1>1. TypeOK /\ RInv /\ RowsBorn  BY DEF LInv, RInv, IInv
<1>2. row[i] \in IngredientRow  BY <1>1, StockTypes
<1>3. /\ \A x \in Ingredients : x # i => row'[x] = row[x] /\ moved'[x] = moved[x]
      /\ row'[i].site = row[i].site /\ row'[i].name = row[i].name
      /\ row'[i].stock = row[i].stock + q /\ row'[i].opening = row[i].opening
  BY <1>1, <1>2 DEF Moves, TypeOK, IngredientRow
<1>4. NamesKept /\ RowsFresh /\ RowsBorn'  BY <1>1, <1>3, WriteStep
<1>5. \A n \in Ingredients :
        /\ \A type \in MovementType :
              MovedOf(n, type)' = MovedOf(n, type)
                                  + (IF row[i].name = n /\ type = kind THEN q ELSE 0)
        /\ RecordedOf(n)' = RecordedOf(n) + (IF row[i].name = n THEN q ELSE 0)
  BY <1>1, <1>4, MovedChange DEF Moves
<1>6. LedgerBalances'
  <2> SUFFICES ASSUME "edit" \notin calls, "stockTake" \in calls => Alone,
                      NEW n \in Ingredients
               PROVE  StockOf(n)' = OpeningOf(n)' + RecordedOf(n)'
    BY DEF LedgerBalances, Alone
  <2>1. StockOf(n) = OpeningOf(n) + RecordedOf(n)  BY DEF LInv, LedgerBalances
  <2>2. /\ StockOf(n) \in Int /\ StockOf(n)' \in Int
        /\ OpeningOf(n) \in Int /\ OpeningOf(n)' \in Int
        /\ StockOf(n)' + (IF row[i].name = n THEN row[i].stock ELSE 0)
             = StockOf(n) + (IF row'[i].name = n THEN row'[i].stock ELSE 0)
        /\ OpeningOf(n)' + (IF row[i].name = n THEN row[i].opening ELSE 0)
             = OpeningOf(n) + (IF row'[i].name = n THEN row'[i].opening ELSE 0)
    BY <1>1, <1>3, RowChange
  <2>3. RecordedOf(n) \in Int /\ row[i].stock \in Int /\ row[i].opening \in Int
    BY <1>1, MovedTyped, StockTypes
  <2>4. CASE row[i].name = n
    <3>1. StockOf(n)' = StockOf(n) + q /\ OpeningOf(n)' = OpeningOf(n)
      <4>1. StockOf(n)' + row[i].stock = StockOf(n) + row'[i].stock
        BY <1>3, <2>2, <2>4
      <4>2. OpeningOf(n)' + row[i].opening = OpeningOf(n) + row'[i].opening
        BY <1>3, <2>2, <2>4
      <4> QED  BY <1>3, <2>2, <2>3, <4>1, <4>2
    <3>2. RecordedOf(n)' = RecordedOf(n) + q  BY <1>5, <2>4
    <3> QED  BY <2>1, <2>2, <2>3, <3>1, <3>2
  <2>5. CASE row[i].name # n
    <3>1. StockOf(n)' = StockOf(n) /\ OpeningOf(n)' = OpeningOf(n)
      BY <1>3, <2>2, <2>5
    <3>2. RecordedOf(n)' = RecordedOf(n)  BY <1>5, <2>3, <2>5
    <3> QED  BY <2>1, <3>1, <3>2
  <2> QED  BY <2>4, <2>5
<1> QED  BY <1>4, <1>5, <1>6

\* A movement that no document is about.
LEMMA OwnMovement ==
    ASSUME LInv, IInv', UNCHANGED <<po, transfer, calls>>,
           NEW i \in Ingredients, Exists(i), NEW q \in Int,
           NEW kind \in MovementType, kind \notin {"PURCHASE", "ADJUSTMENT"},
           Moves(i, kind, q),
           NamesKept => KnowsStock' /\ OneAtATime'
    PROVE  LInv'
<1>1. /\ TypeOK /\ TypeOK' /\ RInv /\ OrdersBorn /\ TransfersKnown /\ TransfersBorn
      /\ calls' = calls
  BY DEF LInv, RInv, IInv
<1>2. /\ NamesKept /\ RowsBorn' /\ LedgerBalances'
      /\ \A n \in Ingredients, type \in MovementType :
           MovedOf(n, type)' = MovedOf(n, type)
                               + (IF row[i].name = n /\ type = kind THEN q ELSE 0)
  BY <1>1, MoveBalances
<1>3. RInv'
  <2>1. OrdersBorn' /\ TransfersBorn'
    BY <1>1, <1>2, OrdersBornStay, TransfersBornStay
  <2> QED  BY <1>2, <2>1 DEF RInv
<1>4. MovementsExplained'
  <2> SUFFICES ASSUME Alone, NEW n \in Ingredients
               PROVE  /\ MovedOf(n, "PURCHASE")' = ReceivedOf(n)' + ShippedOf(n, {"RECEIVED"})'
                      /\ MovedOf(n, "ADJUSTMENT")' = -(ShippedOf(n, {"PENDING", "RECEIVED"})')
    BY DEF MovementsExplained, Alone
  <2>1. ReceivedOf(n)' = ReceivedOf(n)  BY <1>1, <1>2, ReceivedStays
  <2>2. /\ ShippedOf(n, {"RECEIVED"})' = ShippedOf(n, {"RECEIVED"})
        /\ ShippedOf(n, {"PENDING", "RECEIVED"})' = ShippedOf(n, {"PENDING", "RECEIVED"})
    BY <1>1, <1>2, ShippedStays DEF TransferStatus
  <2>3. "PURCHASE" \in MovementType /\ "ADJUSTMENT" \in MovementType
    BY DEF MovementType
  <2>4. /\ MovedOf(n, "PURCHASE")' = MovedOf(n, "PURCHASE")
        /\ MovedOf(n, "ADJUSTMENT")' = MovedOf(n, "ADJUSTMENT")
    <3>1. \A type \in MovementType : MovedOf(n, type) \in Int  BY <1>1, MovedTyped
    <3>2. \A type \in MovementType : type # kind => MovedOf(n, type)' = MovedOf(n, type)
      BY <1>2, <3>1
    <3> QED  BY <2>3, <3>2
  <2> QED  BY <2>1, <2>2, <2>4 DEF LInv, MovementsExplained
<1> QED  BY <1>2, <1>3, <1>4 DEF LInv

\* A step that writes ingredients only, and records nothing.
LEMMA RowsOnly ==
    ASSUME LInv, IInv', UNCHANGED <<moved, po, transfer, calls>>,
           NamesKept, RowsFresh, RowsBorn', KnowsStock', OneAtATime',
           "edit" \notin calls => \A n \in Ingredients : StockOf(n)' - OpeningOf(n)'
                                                          = StockOf(n) - OpeningOf(n),
           \A n \in Ingredients : /\ StockOf(n) \in Int /\ StockOf(n)' \in Int
                                  /\ OpeningOf(n) \in Int /\ OpeningOf(n)' \in Int
    PROVE  LInv'
<1>1. TypeOK /\ TypeOK' /\ RInv /\ RowsBorn /\ OrdersBorn /\ TransfersKnown /\ TransfersBorn
  BY DEF LInv, RInv, IInv
<1>2. \A n \in Ingredients :
        /\ \A type \in MovementType : MovedOf(n, type)' = MovedOf(n, type)
        /\ RecordedOf(n)' = RecordedOf(n)
  BY <1>1, MovedStays
<1>3. RInv'
  <2>1. OrdersBorn' /\ TransfersBorn'  BY <1>1, OrdersBornStay, TransfersBornStay
  <2> QED  BY <2>1 DEF RInv
<1>4. LedgerBalances'
  <2> SUFFICES ASSUME "edit" \notin calls, "stockTake" \in calls => Alone,
                      NEW n \in Ingredients
               PROVE  StockOf(n)' = OpeningOf(n)' + RecordedOf(n)'
    BY DEF LedgerBalances, Alone
  <2>1. StockOf(n) = OpeningOf(n) + RecordedOf(n)  BY DEF LInv, LedgerBalances
  <2>2. RecordedOf(n)' = RecordedOf(n) /\ RecordedOf(n) \in Int
    BY <1>1, <1>2, MovedTyped
  <2>3. StockOf(n)' - OpeningOf(n)' = StockOf(n) - OpeningOf(n)  OBVIOUS
  <2> QED  BY <2>1, <2>2, <2>3
<1>5. MovementsExplained'
  <2> SUFFICES ASSUME Alone, NEW n \in Ingredients
               PROVE  /\ MovedOf(n, "PURCHASE")' = ReceivedOf(n)' + ShippedOf(n, {"RECEIVED"})'
                      /\ MovedOf(n, "ADJUSTMENT")' = -(ShippedOf(n, {"PENDING", "RECEIVED"})')
    BY DEF MovementsExplained, Alone
  <2>1. ReceivedOf(n)' = ReceivedOf(n)  BY <1>1, ReceivedStays
  <2>2. /\ ShippedOf(n, {"RECEIVED"})' = ShippedOf(n, {"RECEIVED"})
        /\ ShippedOf(n, {"PENDING", "RECEIVED"})' = ShippedOf(n, {"PENDING", "RECEIVED"})
    BY <1>1, ShippedStays DEF TransferStatus
  <2>3. /\ MovedOf(n, "PURCHASE")' = MovedOf(n, "PURCHASE")
        /\ MovedOf(n, "ADJUSTMENT")' = MovedOf(n, "ADJUSTMENT")
    BY <1>2 DEF MovementType
  <2> QED  BY <2>1, <2>2, <2>3 DEF LInv, MovementsExplained
<1> QED  BY <1>3, <1>4, <1>5 DEF LInv

LEMMA CreateKeepsLedger ==
    ASSUME LInv, IInv', NEW i \in Originals, NEW s \in Sites, NEW v \in Openings,
           CreateIngredient(i, s, v)
    PROVE  LInv'
<1> DEFINE new == [site |-> s, name |-> i, stock |-> v, opening |-> v, active |-> TRUE]
<1>1. TypeOK /\ TypeOK' /\ RInv /\ RowsBorn  BY DEF LInv, RInv, IInv
<1>2. i \in Ingredients /\ ~Exists(i) /\ row[i].name = None
      /\ \A type \in MovementType : moved[i][type] = 0
  BY <1>1 DEF Ingredients, CreateIngredient, RowsBorn
<1>3. row' = [row EXCEPT ![i] = new] /\ UNCHANGED <<moved, po, transfer, calls, req>>
  BY DEF CreateIngredient
<1>4. /\ \A x \in Ingredients : x # i => row'[x] = row[x]
      /\ row'[i].site = s /\ row'[i].name = i /\ row'[i].stock = v /\ row'[i].opening = v
  BY <1>1, <1>2, <1>3 DEF TypeOK
<1>5. NamesKept /\ RowsFresh  BY <1>2, <1>3, <1>4 DEF NamesKept, RowsFresh, Exists
<1>6. RowsBorn'
  <2>1. s # None /\ i \in Ingredients  BY <1>2, NoneAssumption
  <2> QED  BY <1>1, <1>3, <1>4, <2>1 DEF RowsBorn, Exists
<1>7. Alone => \A q \in Requests : Idle(q)  BY DEF CreateIngredient, Called, Alone
<1>8. KnowsStock' /\ OneAtATime'  BY <1>1, <1>3, <1>5, <1>7, ImmediateStep
<1>9. ASSUME NEW n \in Ingredients
      PROVE  /\ StockOf(n) \in Int /\ StockOf(n)' \in Int
             /\ OpeningOf(n) \in Int /\ OpeningOf(n)' \in Int
             /\ StockOf(n)' - OpeningOf(n)' = StockOf(n) - OpeningOf(n)
  <2>1. row[i].name # n /\ v \in Int  BY <1>2, NoneAssumption, OpeningsAssumption
  <2>2. /\ StockOf(n) \in Int /\ StockOf(n)' \in Int
        /\ OpeningOf(n) \in Int /\ OpeningOf(n)' \in Int
        /\ StockOf(n)' + (IF row[i].name = n THEN row[i].stock ELSE 0)
             = StockOf(n) + (IF row'[i].name = n THEN row'[i].stock ELSE 0)
        /\ OpeningOf(n)' + (IF row[i].name = n THEN row[i].opening ELSE 0)
             = OpeningOf(n) + (IF row'[i].name = n THEN row'[i].opening ELSE 0)
    BY <1>1, <1>2, <1>4, RowChange
  <2>3. CASE row'[i].name = n
    <3>1. StockOf(n)' = StockOf(n) + v /\ OpeningOf(n)' = OpeningOf(n) + v
      BY <1>4, <2>1, <2>2, <2>3
    <3> QED  BY <2>1, <2>2, <3>1
  <2>4. CASE row'[i].name # n
    <3>1. StockOf(n)' = StockOf(n) /\ OpeningOf(n)' = OpeningOf(n)
      BY <2>1, <2>2, <2>4
    <3> QED  BY <2>2, <3>1
  <2> QED  BY <2>3, <2>4
<1> QED  BY <1>3, <1>5, <1>6, <1>8, <1>9, RowsOnly

\* The stock or the flag of a row is written; an edited stock is not explained.
LEMMA EditKeepsLedger ==
    ASSUME LInv, IInv', NEW i \in Ingredients,
           (\E v \in {0, MaxQty} : UpdateIngredient(i, v)) \/ DeleteIngredient(i)
    PROVE  LInv'
<1>1. TypeOK /\ TypeOK' /\ RInv /\ RowsBorn  BY DEF LInv, RInv, IInv
<1>2. Exists(i) /\ UNCHANGED <<moved, po, transfer, calls, req>>
      /\ (Alone => \A q \in Requests : Idle(q))
  BY DEF UpdateIngredient, DeleteIngredient, Active, Called, Alone
<1>3. row[i] \in IngredientRow  BY <1>1, StockTypes
<1>4. /\ \A x \in Ingredients : x # i => row'[x] = row[x]
      /\ row'[i].site = row[i].site /\ row'[i].name = row[i].name
      /\ row'[i].opening = row[i].opening
      /\ "edit" \notin calls => row'[i].stock = row[i].stock
  <2>1. CASE \E v \in {0, MaxQty} : UpdateIngredient(i, v)
    <3>1. PICK v \in {0, MaxQty} : UpdateIngredient(i, v)  BY <2>1
    <3>2. row' = [row EXCEPT ![i].stock = v] /\ "edit" \in calls
      BY <3>1 DEF UpdateIngredient, Called
    <3> QED  BY <1>1, <1>3, <3>2 DEF TypeOK, IngredientRow
  <2>2. CASE DeleteIngredient(i)
    <3>1. row' = [row EXCEPT ![i].active = FALSE]  BY <2>2 DEF DeleteIngredient
    <3> QED  BY <1>1, <1>3, <3>1 DEF TypeOK, IngredientRow
  <2> QED  BY <2>1, <2>2
<1>5. NamesKept /\ RowsFresh /\ RowsBorn'  BY <1>1, <1>2, <1>4, WriteStep
<1>6. KnowsStock' /\ OneAtATime'  BY <1>1, <1>2, <1>5, ImmediateStep
<1>7. ASSUME NEW n \in Ingredients
      PROVE  /\ StockOf(n) \in Int /\ StockOf(n)' \in Int
             /\ OpeningOf(n) \in Int /\ OpeningOf(n)' \in Int
             /\ "edit" \notin calls => StockOf(n)' - OpeningOf(n)' = StockOf(n) - OpeningOf(n)
  <2>1. /\ StockOf(n) \in Int /\ StockOf(n)' \in Int
        /\ OpeningOf(n) \in Int /\ OpeningOf(n)' \in Int
        /\ StockOf(n)' + (IF row[i].name = n THEN row[i].stock ELSE 0)
             = StockOf(n) + (IF row'[i].name = n THEN row'[i].stock ELSE 0)
        /\ OpeningOf(n)' + (IF row[i].name = n THEN row[i].opening ELSE 0)
             = OpeningOf(n) + (IF row'[i].name = n THEN row'[i].opening ELSE 0)
    BY <1>1, <1>4, RowChange
  <2>2. row[i].stock \in Int /\ row[i].opening \in Int  BY <1>1, StockTypes
  <2>3. OpeningOf(n)' = OpeningOf(n)
    <3>1. CASE row[i].name = n
      <4>1. OpeningOf(n)' + row[i].opening = OpeningOf(n) + row[i].opening
        BY <1>4, <2>1, <3>1
      <4> QED  BY <2>1, <2>2, <4>1
    <3>2. CASE row[i].name # n  BY <1>4, <2>1, <3>2
    <3> QED  BY <3>1, <3>2
  <2>4. "edit" \notin calls => StockOf(n)' = StockOf(n)
    <3> SUFFICES ASSUME "edit" \notin calls PROVE StockOf(n)' = StockOf(n)  OBVIOUS
    <3>1. CASE row[i].name = n
      <4>1. StockOf(n)' + row[i].stock = StockOf(n) + row[i].stock
        BY <1>4, <2>1, <3>1
      <4> QED  BY <2>1, <2>2, <4>1
    <3>2. CASE row[i].name # n  BY <1>4, <2>1, <3>2
    <3> QED  BY <3>1, <3>2
  <2> QED  BY <2>1, <2>3, <2>4
<1> QED  BY <1>2, <1>5, <1>6, <1>7, RowsOnly

LEMMA WasteKeepsLedger ==
    ASSUME LInv, IInv', NEW i \in Ingredients, NEW q \in 1..MaxQty, LogWaste(i, q)
    PROVE  LInv'
<1>1. /\ Exists(i) /\ UNCHANGED <<po, transfer, calls, req>>
      /\ Alone => \A s \in Requests : Idle(s)
      /\ Move(i, "WASTE", -q)
  BY DEF LogWaste, Active, Called, Alone
<1>2. Moves(i, "WASTE", -q)  BY <1>1, MoveMoves
<1>3. NamesKept => KnowsStock' /\ OneAtATime'  BY <1>1, ImmediateStep DEF LInv
<1>4. /\ "WASTE" \in MovementType /\ "WASTE" \notin {"PURCHASE", "ADJUSTMENT"}
      /\ -q \in Int
  BY MaxQtyAssumption DEF MovementType
<1> QED  BY <1>1, <1>2, <1>3, <1>4, OwnMovement

LEMMA NewOrderKeepsLedger ==
    ASSUME LInv, IInv', NEW p \in POs, NEW ing, NEW ordered,
           CreatePurchaseOrder(p, ing, ordered)
    PROVE  LInv'
<1> DEFINE new == [status |-> "DRAFT", ing |-> ing, ordered |-> ordered,
                   received |-> [l \in Lines |-> 0]]
<1>1. TypeOK /\ TypeOK' /\ RInv /\ OrdersBorn  BY DEF LInv, RInv, IInv
<1>2. /\ po[p].status = None /\ UNCHANGED <<row, moved, transfer, calls, req>>
      /\ Alone => \A s \in Requests : Idle(s)
      /\ \A l \in Lines : ing[l] # None => Exists(ing[l])
      /\ po' = [po EXCEPT ![p] = new]
  BY DEF CreatePurchaseOrder, Called, Alone
<1>3. /\ \A x \in POs : po'[x] = IF x = p THEN new ELSE po[x]
      /\ new.status = "DRAFT" /\ new.ing = ing /\ \A l \in Lines : new.received[l] = 0
  BY <1>1, <1>2 DEF TypeOK
<1> HIDE DEF new
<1>4. NamesKept  BY <1>2 DEF NamesKept, Exists
<1>5. KnowsStock' /\ OneAtATime'  BY <1>1, <1>2, <1>4, ImmediateStep
<1>6. RInv'
  <2>1. OrdersBorn'
    <3>1. "DRAFT" # None  BY NoneAssumption DEF POStatus
    <3> QED  BY <1>1, <1>2, <1>3, <3>1 DEF OrdersBorn, Exists
  <2>2. RowsBorn'  BY <1>1, <1>2 DEF RInv, RowsBorn, Exists
  <2>3. TransfersBorn'  BY <1>1, <1>2, <1>4, TransfersBornStay
  <2> QED  BY <1>5, <2>1, <2>2, <2>3 DEF RInv
<1>7. LedgerBalances'
  BY <1>2 DEF LInv, LedgerBalances, StockOf, OpeningOf, RecordedOf, MovedOf, RowsOf, Alone
<1>8. MovementsExplained'
  <2> SUFFICES ASSUME Alone, NEW n \in Ingredients
               PROVE  /\ MovedOf(n, "PURCHASE")' = ReceivedOf(n)' + ShippedOf(n, {"RECEIVED"})'
                      /\ MovedOf(n, "ADJUSTMENT")' = -(ShippedOf(n, {"PENDING", "RECEIVED"})')
    BY <1>2 DEF MovementsExplained, Alone
  <2>1. ReceivedOf(n)' = ReceivedOf(n)
    <3>1. /\ \A x \in POs \ {p} : po'[x] = po[x]
          /\ \A l \in Lines : po'[p].received[l] = 0
      BY <1>3
    <3> QED  BY <1>1, <1>2, <1>4, <3>1, ReceivedNew
  <2>2. /\ ShippedOf(n, {"RECEIVED"})' = ShippedOf(n, {"RECEIVED"})
        /\ ShippedOf(n, {"PENDING", "RECEIVED"})' = ShippedOf(n, {"PENDING", "RECEIVED"})
    BY <1>2 DEF ShippedOf, TransfersOf
  <2>3. /\ MovedOf(n, "PURCHASE")' = MovedOf(n, "PURCHASE")
        /\ MovedOf(n, "ADJUSTMENT")' = MovedOf(n, "ADJUSTMENT")
    BY <1>2 DEF MovedOf, RowsOf
  <2> QED  BY <2>1, <2>2, <2>3 DEF LInv, MovementsExplained
<1> QED  BY <1>6, <1>7, <1>8 DEF LInv

LEMMA DeductKeepsLedger ==
    ASSUME LInv, IInv', NEW r \in Requests, NEW i \in Ingredients, NEW q \in 1..MaxQty,
           DeductLine(r, i, q)
    PROVE  LInv'
<1>1. /\ req[r] \in Request /\ Known(req[r]) /\ RInv /\ TypeOK
      /\ req[r].at = "deduct" /\ ~Idle(r)
  BY DEF LInv, RInv, IInv, TypeOK, KnowsStock, DeductLine, Idle
<1>2. /\ Exists(i) /\ UNCHANGED <<po, transfer, calls>> /\ Move(i, "SALE", -q)
  BY <1>1 DEF DeductLine, Known
<1>3. Moves(i, "SALE", -q)  BY <1>2, MoveMoves
<1>4. NamesKept => KnowsStock' /\ OneAtATime'
  <2> SUFFICES ASSUME NamesKept PROVE KnowsStock' /\ OneAtATime'  OBVIOUS
  <2>1. CASE req[r].recipe = {i}
    <3>1. Finish(r)  BY <2>1 DEF DeductLine
    <3> QED  BY <1>1, <1>2, <3>1, EndStep
  <2>2. CASE req[r].recipe # {i}
    <3> DEFINE next == [req[r] EXCEPT !.recipe = req[r].recipe \ {i}]
    <3>1. /\ next \in Request /\ next.at = "deduct" /\ next.recipe \subseteq req[r].recipe
          /\ req[r].recipe \subseteq Ingredients
          /\ req' = [req EXCEPT ![r] = next]
      BY <1>1, <2>2 DEF DeductLine, Go, Request
    <3> HIDE DEF next
    <3>2. PICK x \in Request : x = next  BY <3>1
    <3>3. Known(x)'  BY <1>1, <3>1, <3>2 DEF Known, NamesKept
    <3>4. Alone => \A s \in Requests : s # r => Idle(s)
      BY <1>1 DEF RInv, OneAtATime
    <3> QED  BY <1>1, <1>2, <3>1, <3>2, <3>3, <3>4, HandlerStep
  <2> QED  BY <2>1, <2>2
<1>5. /\ "SALE" \in MovementType /\ "SALE" \notin {"PURCHASE", "ADJUSTMENT"}
      /\ -q \in Int
  BY MaxQtyAssumption DEF MovementType
<1> QED  BY <1>2, <1>3, <1>4, <1>5, OwnMovement

\* The difference that a stock take records is the one it makes, if it comes alone.
LEMMA CountKeepsLedger ==
    ASSUME LInv, IInv', NEW r \in Requests, StockTakeWrite(r)
    PROVE  LInv'
<1> DEFINE i == req[r].ing
           q == req[r].qty
<1>1. /\ req[r] \in Request /\ Known(req[r]) /\ Sound(req[r]) /\ RInv
      /\ TypeOK /\ TypeOK'
      /\ req[r].at = "countWrite" /\ ~Idle(r)
  BY DEF LInv, RInv, IInv, TypeOK, KnowsStock, InFlightSound, StockTakeWrite, Idle
<1>2. /\ i \in Ingredients /\ Exists(i) /\ q \in Int /\ req[r].count \in Int
      /\ "stockTake" \in calls /\ (Alone => q = req[r].count - row[i].stock)
  BY <1>1 DEF Known, Sound, Request
<1>3. /\ row' = [row EXCEPT ![i].stock = req[r].count]
      /\ moved' = [moved EXCEPT ![i]["STOCKTAKE"] = moved[i]["STOCKTAKE"] + q]
      /\ UNCHANGED <<po, transfer, calls>> /\ Finish(r)
  BY DEF StockTakeWrite
<1>4. NamesKept => KnowsStock' /\ OneAtATime'  BY <1>1, <1>3, EndStep
<1>5. /\ "STOCKTAKE" \in MovementType /\ "STOCKTAKE" \notin {"PURCHASE", "ADJUSTMENT"}
  BY DEF MovementType
<1> HIDE DEF i, q
<1>6. CASE Alone
  <2>1. row[i].stock \in Int  BY <1>1, <1>2, StockTypes
  <2>2. req[r].count = row[i].stock + q  BY <1>2, <1>6, <2>1
  <2>3. Moves(i, "STOCKTAKE", q)  BY <1>3, <2>2 DEF Moves
  <2> QED  BY <1>2, <1>3, <1>4, <1>5, <2>3, OwnMovement
<1>7. CASE ~Alone
  <2>1. row[i] \in IngredientRow  BY <1>1, <1>2, StockTypes
  <2>2. /\ \A x \in Ingredients : x # i => row'[x] = row[x] /\ moved'[x] = moved[x]
        /\ row'[i].site = row[i].site /\ row'[i].name = row[i].name
    BY <1>1, <1>2, <1>3, <2>1 DEF TypeOK, IngredientRow
  <2>3. NamesKept /\ RowsBorn'  BY <1>1, <1>2, <2>2, WriteStep
  <2>4. OrdersBorn' /\ TransfersBorn'
    BY <1>1, <1>3, <2>3, OrdersBornStay, TransfersBornStay
  <2>5. ~Alone' /\ "stockTake" \in calls'  BY <1>2, <1>3, <1>7 DEF Alone
  <2> QED  BY <1>4, <2>3, <2>4, <2>5 DEF LInv, RInv, LedgerBalances, MovementsExplained
<1> QED  BY <1>6, <1>7

\* Handlers that only read, or only write the status of an order.
LEMMA QuietKeepsLedger ==
    ASSUME LInv, IInv', NEW r \in Requests,
           \/ CancelOrderWrite(r) \/ ReceiveStatus(r)
           \/ ReceiveReject(r) \/ Fail(r) \/ ReceiveRefresh(r)
    PROVE  LInv'
<1>1. /\ req[r] \in Request /\ Sound(req[r]) /\ RInv /\ TypeOK /\ ~Idle(r)
  BY DEF LInv, RInv, IInv, TypeOK, InFlightSound, Idle, CancelOrderWrite, ReceiveStatus,
         ReceiveReject, Fail, ReceiveRefresh
<1>2. UNCHANGED <<row, moved, transfer, calls>>
  BY DEF CancelOrderWrite, ReceiveStatus, ReceiveReject, Fail, ReceiveRefresh
<1>3. NamesKept  BY <1>2 DEF NamesKept, Exists
<1>4. \A p \in POs : /\ po'[p].ing = po[p].ing /\ po'[p].received = po[p].received
                     /\ po[p].status # None => po'[p].status # None
  <2>1. \A p \in POs : po[p] \in PoRow  BY <1>1 DEF TypeOK
  <2>2. CASE CancelOrderWrite(r)
    <3>1. "CANCELLED" # None  BY NoneAssumption DEF POStatus
    <3> QED  BY <1>1, <2>1, <2>2, <3>1 DEF CancelOrderWrite, TypeOK, PoRow
  <2>3. CASE ReceiveStatus(r)
    <3>1. req[r].to # None
      BY <1>1, <2>3, NoneAssumption DEF ReceiveStatus, Sound
    <3> QED  BY <1>1, <2>1, <2>3, <3>1 DEF ReceiveStatus, TypeOK, PoRow
  <2>4. CASE ReceiveReject(r) \/ Fail(r) \/ ReceiveRefresh(r)
    BY <2>4 DEF ReceiveReject, Fail, ReceiveRefresh
  <2> QED  BY <2>2, <2>3, <2>4
<1>5. KnowsStock' /\ OneAtATime'
  <2>1. CASE ReceiveRefresh(r)
    <3> DEFINE s == StatusAfter(req[r].po)
               next == [req[r] EXCEPT !.at = "statusWrite", !.to = s]
    <3>1. s \in POStatus  BY DEF StatusAfter, POStatus
    <3> HIDE DEF s
    <3>2. /\ next \in Request /\ next.at = "statusWrite"
          /\ req' = [req EXCEPT ![r] = next]
      BY <1>1, <2>1, <3>1 DEF ReceiveRefresh, Go, Request, Step, s
    <3> HIDE DEF next
    <3>3. PICK x \in Request : x = next  BY <3>2
    <3>4. Known(x)'  BY <3>2, <3>3 DEF Known
    <3>5. Alone => \A y \in Requests : y # r => Idle(y)
      BY <1>1 DEF RInv, OneAtATime
    <3> QED  BY <1>1, <1>2, <1>3, <3>2, <3>3, <3>4, <3>5, HandlerStep
  <2>2. CASE ~ReceiveRefresh(r)
    <3>1. Finish(r)
      BY <2>2 DEF CancelOrderWrite, ReceiveStatus, ReceiveReject, Fail
    <3> QED  BY <1>1, <1>2, <1>3, <3>1, EndStep
  <2> QED  BY <2>1, <2>2
<1> QED  BY <1>2, <1>4, <1>5, QuietStep

\* Handlers that arrive name rows and transfers there are.
LEMMA ArriveKeepsLedger ==
    ASSUME LInv, IInv', NEW r \in Requests, Arrive(r)
    PROVE  LInv'
<1>1. RInv /\ TypeOK /\ UNCHANGED <<row, moved, po, transfer, calls>>
      /\ (Alone => \A s \in Requests : Idle(s))
  BY DEF LInv, RInv, IInv, Arrive, Called, Alone, DeductRead, StockTakeRead,
         CancelOrderRead, ReceiveRead, ShipRead, TakeInRead, RecallRead
<1>2. NamesKept  BY <1>1 DEF NamesKept, Exists
<1>3. \E q : Known(q) /\ req' = [req EXCEPT ![r] = q]
  <2> USE DEF NoRequest, Known, Go, Called
  <2>1. CASE \E recipe \in SUBSET Ingredients, s \in Sites : DeductRead(r, recipe, s)
    <3>1. PICK recipe \in SUBSET Ingredients, s \in Sites : DeductRead(r, recipe, s)
      BY <2>1
    <3>2. \A i \in recipe : Exists(i)
      BY <3>1, NoneAssumption DEF DeductRead, Exists
    <3> QED  BY <3>1, <3>2 DEF DeductRead
  <2>2. CASE \E i \in Ingredients, n \in {0, MaxQty} : StockTakeRead(r, i, n)
    BY <2>2 DEF StockTakeRead, Active
  <2>3. CASE \E p \in POs : CancelOrderRead(r, p)  BY <2>3 DEF CancelOrderRead
  <2>4. CASE \E p \in POs, lines \in Receipts : ReceiveRead(r, p, lines)
    BY <2>4 DEF ReceiveRead
  <2>5. CASE \E i \in Ingredients, s \in Sites, q \in 1..MaxQty : ShipRead(r, i, s, q)
    BY <2>5 DEF ShipRead
  <2>6. CASE \E t \in Transfers : TakeInRead(r, t)  BY <2>6 DEF TakeInRead, Awaits
  <2>7. CASE \E t \in Transfers : RecallRead(r, t)  BY <2>7 DEF RecallRead
  <2> QED  BY <2>1, <2>2, <2>3, <2>4, <2>5, <2>6, <2>7 DEF Arrive
<1>4. PICK q : Known(q) /\ req' = [req EXCEPT ![r] = q]  BY <1>3
<1>5. q \in Request
  <2>1. req'[r] \in Request /\ req'[r] = q  BY <1>1, <1>4 DEF IInv, TypeOK
  <2> QED  BY <2>1
<1>6. PICK x \in Request : x = q  BY <1>5
<1>7. Known(x)'  BY <1>1, <1>4, <1>6 DEF Known, Exists, Alone
<1>8. KnowsStock' /\ OneAtATime'  BY <1>1, <1>2, <1>4, <1>6, <1>7, HandlerStep
<1>9. \A p \in POs : /\ po'[p].ing = po[p].ing /\ po'[p].received = po[p].received
                     /\ po[p].status # None => po'[p].status # None
  BY <1>1
<1> QED  BY <1>1, <1>8, <1>9, QuietStep

\* A line is received: the purchase is what the order says.
LEMMA ReceiveLineKeepsLedger ==
    ASSUME LInv, IInv', NEW r \in Requests, ReceiveLine(r)
    PROVE  LInv'
<1> DEFINE p == req[r].po
           l == Head(req[r].lines).line
           q == Head(req[r].lines).qty
           i == po[p].ing[l]
           got == [po[p].received EXCEPT ![l] = po[p].received[l] + q]
           next == [req[r] EXCEPT !.lines = Tail(req[r].lines)]
<1>1. /\ req[r] \in Request /\ Sound(req[r]) /\ RInv /\ OrdersBorn
      /\ TypeOK /\ TypeOK' /\ TransfersKnown /\ TransfersBorn
      /\ req[r].at = "receive" /\ ~Idle(r) /\ req[r].lines # <<>>
  BY DEF LInv, RInv, IInv, TypeOK, InFlightSound, ReceiveLine, Idle
<1>2. p \in POs  BY <1>1 DEF Sound, OnOrder
<1>3. req[r].lines \in Seq(Receipt)  BY <1>1 DEF Request
<1>4. Head(req[r].lines) \in Receipt /\ Tail(req[r].lines) \in Seq(Receipt)
  BY <1>1, <1>3
<1>5. l \in Lines /\ q \in Nat  BY <1>4 DEF Receipt
<1>6. /\ i # None /\ Move(i, "PURCHASE", q)
      /\ po' = [po EXCEPT ![p].received = got]
      /\ UNCHANGED <<transfer, calls>>
      /\ req' = [req EXCEPT ![r] = next]
  BY DEF ReceiveLine, Go
<1>7. i \in Ingredients /\ Exists(i)
  BY <1>1, <1>2, <1>5, <1>6, StockTypes DEF OrdersBorn
<1>8. /\ \A x \in POs : po'[x].ing = po[x].ing /\ po'[x].status = po[x].status
      /\ \A x \in POs, k \in Lines :
           po'[x].received[k] = IF x = p /\ k = l THEN po[x].received[k] + q
                                ELSE po[x].received[k]
  <2>1. po[p] \in PoRow  BY <1>1, <1>2 DEF TypeOK
  <2>2. po'[p] = [po[p] EXCEPT !.received = got] /\ \A x \in POs : x # p => po'[x] = po[x]
    BY <1>1, <1>2, <1>6 DEF TypeOK
  <2>3. po[p].received \in [Lines -> Nat]  BY <2>1 DEF PoRow
  <2>4. po'[p].received = got /\ po'[p].ing = po[p].ing /\ po'[p].status = po[p].status
    BY <2>1, <2>2 DEF PoRow
  <2>5. \A k \in Lines : got[k] = IF k = l THEN po[p].received[k] + q ELSE po[p].received[k]
    BY <1>5, <2>3
  <2> HIDE DEF got, p, l, q
  <2> QED  BY <2>2, <2>4, <2>5
<1>9. next \in Request /\ next.at = "receive"  BY <1>1, <1>4 DEF Request
<1> HIDE DEF p, l, q, i, got, next
<1>10. Moves(i, "PURCHASE", q)  BY <1>6, MoveMoves
<1>11. q \in Int /\ "PURCHASE" \in MovementType /\ calls' = calls
  BY <1>5, <1>6 DEF MovementType
<1>12. /\ NamesKept /\ RowsBorn' /\ LedgerBalances'
       /\ \A n \in Ingredients, type \in MovementType :
            MovedOf(n, type)' = MovedOf(n, type)
                                + (IF row[i].name = n /\ type = "PURCHASE" THEN q ELSE 0)
  BY <1>1, <1>7, <1>10, <1>11, MoveBalances
<1>13. RInv'
  <2>1. OrdersBorn' /\ TransfersBorn'
    BY <1>1, <1>6, <1>8, <1>12, OrdersBornStay, TransfersBornStay
  <2>2. KnowsStock' /\ OneAtATime'
    <3>1. PICK x \in Request : x = next  BY <1>9
    <3>2. Known(x)'  BY <1>9, <3>1 DEF Known
    <3>3. Alone => \A s \in Requests : s # r => Idle(s)
      BY <1>1 DEF RInv, OneAtATime
    <3> QED  BY <1>1, <1>6, <1>12, <3>1, <3>2, <3>3, HandlerStep
  <2> QED  BY <1>12, <2>1, <2>2 DEF RInv
<1>14. MovementsExplained'
  <2> SUFFICES ASSUME Alone, NEW n \in Ingredients
               PROVE  /\ MovedOf(n, "PURCHASE")' = ReceivedOf(n)' + ShippedOf(n, {"RECEIVED"})'
                      /\ MovedOf(n, "ADJUSTMENT")' = -(ShippedOf(n, {"PENDING", "RECEIVED"})')
    BY <1>11 DEF MovementsExplained, Alone
  <2>1. ReceivedOf(n)' = ReceivedOf(n) + (IF row[i].name = n THEN q ELSE 0)
    <3>1. PICK x \in POs, k \in Lines, v \in Nat : x = p /\ k = l /\ v = q
      BY <1>2, <1>5
    <3>2. po[x].ing[k] = i /\ i # None  BY <1>6, <3>1 DEF i
    <3>3. ReceivedOf(n)' = ReceivedOf(n) + (IF row[po[x].ing[k]].name = n THEN v ELSE 0)
      BY <1>1, <1>8, <1>12, <3>1, <3>2, ReceivedChange
    <3> QED  BY <3>1, <3>2, <3>3
  <2>2. /\ ShippedOf(n, {"RECEIVED"})' = ShippedOf(n, {"RECEIVED"})
        /\ ShippedOf(n, {"PENDING", "RECEIVED"})' = ShippedOf(n, {"PENDING", "RECEIVED"})
    BY <1>1, <1>6, <1>12, ShippedStays DEF TransferStatus
  <2>3. \A type \in MovementType : MovedOf(n, type) \in Int  BY <1>1, MovedTyped
  <2>4. /\ MovedOf(n, "PURCHASE")' = MovedOf(n, "PURCHASE")
                                     + (IF row[i].name = n THEN q ELSE 0)
        /\ MovedOf(n, "ADJUSTMENT")' = MovedOf(n, "ADJUSTMENT")
    BY <1>12, <2>3 DEF MovementType
  <2>5. /\ MovedOf(n, "PURCHASE") = ReceivedOf(n) + ShippedOf(n, {"RECEIVED"})
        /\ MovedOf(n, "ADJUSTMENT") = -ShippedOf(n, {"PENDING", "RECEIVED"})
    BY DEF LInv, MovementsExplained
  <2>6. ReceivedOf(n) \in Int /\ ShippedOf(n, {"RECEIVED"}) \in Nat
    BY <1>1, ReceivedTyped, ShippedTyped
  <2>7. MovedOf(n, "PURCHASE")' = ReceivedOf(n)' + ShippedOf(n, {"RECEIVED"})'
    <3>1. CASE row[i].name = n
      <4>1. /\ MovedOf(n, "PURCHASE")' = MovedOf(n, "PURCHASE") + q
            /\ ReceivedOf(n)' = ReceivedOf(n) + q
        BY <2>1, <2>4, <3>1
      <4> QED  BY <1>11, <2>2, <2>5, <2>6, <4>1
    <3>2. CASE row[i].name # n
      <4>1. /\ MovedOf(n, "PURCHASE")' = MovedOf(n, "PURCHASE") + 0
            /\ ReceivedOf(n)' = ReceivedOf(n) + 0
        BY <2>1, <2>4, <3>2
      <4> QED  BY <2>2, <2>5, <2>6, <4>1
    <3> QED  BY <3>1, <3>2
  <2> QED  BY <2>2, <2>4, <2>5, <2>7
<1> QED  BY <1>12, <1>13, <1>14 DEF LInv

LEMMA ShippedTypedNext ==
    ASSUME TypeOK', NEW n, NEW S \in SUBSET TransferStatus
    PROVE  ShippedOf(n, S)' \in Nat
<1> DEFINE g == [x \in Transfers |-> transfer'[x].qty]
           B == {x \in Transfers : /\ transfer'[x].status \in S
                                   /\ row'[transfer'[x].ing].name = n}
<1>1. \A x \in Transfers : transfer'[x].qty \in Nat  BY DEF TypeOK, TransferRow
<1>2. ShippedOf(n, S)' = SumFunctionOnSet(g, B)  BY DEF ShippedOf, TransfersOf
<1>3. B \in SUBSET Transfers /\ \A x \in B : g[x] \in Nat  BY <1>1
<1> HIDE DEF g, B
<1>4. IsFiniteSet(B) /\ Nat \in {Nat, Int}  BY <1>3, Finite
<1> QED  BY <1>2, <1>3, <1>4, SumType

\* What a transfer writes: the sums for the received and for the shipped ones.
LEMMA ShippedWrite ==
    ASSUME TypeOK, TypeOK', TransfersKnown, TransfersBorn, NamesKept,
           NEW t \in Transfers, \A x \in Transfers : x # t => transfer'[x] = transfer[x],
           NEW i \in Ingredients, Exists(i), transfer'[t].ing = i,
           transfer[t].status # None => transfer[t].ing = i,
           NEW n, NEW S \in SUBSET TransferStatus
    PROVE  /\ row[i].name # n => ShippedOf(n, S)' = ShippedOf(n, S)
           /\ row[i].name = n =>
                ShippedOf(n, S)' + (IF transfer[t].status \in S THEN transfer[t].qty ELSE 0)
                  = ShippedOf(n, S)
                      + (IF transfer'[t].status \in S THEN transfer'[t].qty ELSE 0)
<1>1. ShippedOf(n, S)' + (IF t \in TransfersOf(n, S) THEN transfer[t].qty ELSE 0)
        = ShippedOf(n, S) + (IF transfer'[t].status \in S /\ row[i].name = n
                             THEN transfer'[t].qty ELSE 0)
  BY ShippedChange
<1>2. t \in TransfersOf(n, S) <=> transfer[t].status \in S /\ row[i].name = n
  <2>1. transfer[t].status \in S => transfer[t].status # None  BY NoneAssumption
  <2> QED  BY <2>1 DEF TransfersOf
<1>3. ShippedOf(n, S) \in Nat /\ ShippedOf(n, S)' \in Nat
  BY ShippedTyped, ShippedTypedNext
<1>4. CASE row[i].name # n
  <2>1. ShippedOf(n, S)' + 0 = ShippedOf(n, S) + 0  BY <1>1, <1>2, <1>4
  <2> QED  BY <1>3, <1>4, <2>1
<1>5. CASE row[i].name = n  BY <1>1, <1>2, <1>5
<1> QED  BY <1>4, <1>5

\* A transfer leaves: the adjustment is what is under way.
LEMMA ShipKeepsLedger ==
    ASSUME LInv, IInv', NEW r \in Requests, NEW t \in Transfers, ShipWrite(r, t)
    PROVE  LInv'
<1> DEFINE i == req[r].ing
           q == req[r].qty
           new == [status |-> "PENDING", ing |-> i, to |-> req[r].site, qty |-> q]
<1>1. /\ req[r] \in Request /\ Sound(req[r]) /\ Known(req[r]) /\ RInv
      /\ TypeOK /\ TypeOK' /\ OrdersBorn /\ TransfersKnown /\ TransfersBorn
      /\ req[r].at = "shipWrite" /\ ~Idle(r)
  BY DEF LInv, RInv, IInv, TypeOK, InFlightSound, KnowsStock, ShipWrite, Idle
<1>2. i \in Ingredients /\ q \in Nat /\ Exists(i) /\ req[r].site \in Sites
  BY <1>1 DEF Sound, Known
<1>3. /\ transfer[t].status = None /\ transfer' = [transfer EXCEPT ![t] = new]
      /\ Move(i, "ADJUSTMENT", -q) /\ Finish(r) /\ UNCHANGED <<po, calls>>
  BY DEF ShipWrite
<1>4. /\ new.status = "PENDING" /\ new.ing = i /\ new.to = req[r].site /\ new.qty = q
      /\ \A x \in Transfers : transfer'[x] = IF x = t THEN new ELSE transfer[x]
  BY <1>1, <1>3 DEF TypeOK
<1> HIDE DEF i, q, new
<1>5. Moves(i, "ADJUSTMENT", -q)  BY <1>3, MoveMoves
<1>6. -q \in Int /\ "ADJUSTMENT" \in MovementType /\ calls' = calls
  BY <1>2, <1>3 DEF MovementType
<1>7. /\ NamesKept /\ RowsBorn' /\ LedgerBalances'
      /\ \A n \in Ingredients, type \in MovementType :
           MovedOf(n, type)' = MovedOf(n, type)
                               + (IF row[i].name = n /\ type = "ADJUSTMENT" THEN -q ELSE 0)
  BY <1>1, <1>2, <1>5, <1>6, MoveBalances
<1>8. RInv'
  <2>1. OrdersBorn'  BY <1>1, <1>3, <1>7, OrdersBornStay
  <2>2. TransfersBorn'
    BY <1>1, <1>2, <1>4, <1>7 DEF TransfersBorn, TransfersKnown, NamesKept
  <2>3. KnowsStock' /\ OneAtATime'  BY <1>1, <1>3, <1>7, EndStep
  <2> QED  BY <1>7, <2>1, <2>2, <2>3 DEF RInv
<1>9. MovementsExplained'
  <2> SUFFICES ASSUME Alone, NEW n \in Ingredients
               PROVE  /\ MovedOf(n, "PURCHASE")' = ReceivedOf(n)' + ShippedOf(n, {"RECEIVED"})'
                      /\ MovedOf(n, "ADJUSTMENT")' = -(ShippedOf(n, {"PENDING", "RECEIVED"})')
    BY <1>6 DEF MovementsExplained, Alone
  <2>1. ReceivedOf(n)' = ReceivedOf(n)  BY <1>1, <1>3, <1>7, ReceivedStays
  <2>2. ASSUME NEW S \in SUBSET TransferStatus
        PROVE  /\ row[i].name # n => ShippedOf(n, S)' = ShippedOf(n, S)
               /\ row[i].name = n =>
                    ShippedOf(n, S)' + (IF transfer[t].status \in S THEN transfer[t].qty ELSE 0)
                      = ShippedOf(n, S)
                          + (IF transfer'[t].status \in S THEN transfer'[t].qty ELSE 0)
    <3>1. /\ \A x \in Transfers : x # t => transfer'[x] = transfer[x]
          /\ transfer'[t].ing = i
      BY <1>4
    <3> QED  BY <1>1, <1>2, <1>3, <1>7, <3>1, ShippedWrite
  <2>3. transfer[t].status \notin TransferStatus /\ transfer'[t].status = "PENDING"
        /\ transfer'[t].qty = q
    BY <1>3, <1>4, NoneAssumption
  <2>4. \A type \in MovementType : MovedOf(n, type) \in Int  BY <1>1, MovedTyped
  <2>5. /\ ShippedOf(n, {"RECEIVED"}) \in Nat
        /\ ShippedOf(n, {"PENDING", "RECEIVED"}) \in Nat
    BY <1>1, ShippedTyped
  <2>6. /\ MovedOf(n, "PURCHASE") = ReceivedOf(n) + ShippedOf(n, {"RECEIVED"})
        /\ MovedOf(n, "ADJUSTMENT") = -ShippedOf(n, {"PENDING", "RECEIVED"})
    BY DEF LInv, MovementsExplained
  <2>7. /\ MovedOf(n, "PURCHASE")' = MovedOf(n, "PURCHASE")
        /\ MovedOf(n, "ADJUSTMENT")' = MovedOf(n, "ADJUSTMENT")
                                         + (IF row[i].name = n THEN -q ELSE 0)
    BY <1>7, <2>4 DEF MovementType
  <2>8. {"RECEIVED"} \in SUBSET TransferStatus /\ {"PENDING", "RECEIVED"} \in SUBSET TransferStatus
    BY DEF TransferStatus
  <2>9. \A S \in SUBSET TransferStatus : ShippedOf(n, S)' \in Nat
    BY <1>1, ShippedTypedNext
  <2>10. CASE row[i].name = n
    <3>1. /\ ShippedOf(n, {"RECEIVED"})' + 0 = ShippedOf(n, {"RECEIVED"}) + 0
          /\ ShippedOf(n, {"PENDING", "RECEIVED"})' + 0
               = ShippedOf(n, {"PENDING", "RECEIVED"}) + q
      BY <2>2, <2>3, <2>8, <2>10
    <3>2. MovedOf(n, "ADJUSTMENT")' = MovedOf(n, "ADJUSTMENT") + (-q)  BY <2>7, <2>10
    <3>3. /\ ShippedOf(n, {"RECEIVED"})' \in Nat
          /\ ShippedOf(n, {"PENDING", "RECEIVED"})' \in Nat
      BY <2>8, <2>9
    <3> QED  BY <1>2, <2>1, <2>5, <2>6, <2>7, <3>1, <3>2, <3>3
  <2>11. CASE row[i].name # n
    <3>1. /\ ShippedOf(n, {"RECEIVED"})' = ShippedOf(n, {"RECEIVED"})
          /\ ShippedOf(n, {"PENDING", "RECEIVED"})' = ShippedOf(n, {"PENDING", "RECEIVED"})
      BY <2>2, <2>8, <2>11
    <3>2. MovedOf(n, "ADJUSTMENT")' = MovedOf(n, "ADJUSTMENT") + 0  BY <2>7, <2>11
    <3> QED  BY <2>1, <2>5, <2>6, <2>7, <3>1, <3>2
  <2> QED  BY <2>10, <2>11
<1> QED  BY <1>7, <1>8, <1>9 DEF LInv

\* A transfer is taken in: a row of the same ingredient is created with what was
\* under way, and the purchase is recorded for the row it came from.
LEMMA TakeInKeepsLedger ==
    ASSUME LInv, IInv', NEW r \in Requests, NEW i \in Clones, TakeInWrite(r, i)
    PROVE  LInv'
<1> DEFINE t == req[r].transfer
           from == transfer[t].ing
           q == transfer[t].qty
           new == [site |-> transfer[t].to, name |-> row[from].name,
                   stock |-> q, opening |-> 0, active |-> TRUE]
           done == [transfer[t] EXCEPT !.status = "RECEIVED"]
<1>1. /\ req[r] \in Request /\ Sound(req[r]) /\ Known(req[r]) /\ RInv /\ RowsBorn
      /\ TypeOK /\ TypeOK' /\ OrdersBorn /\ TransfersKnown /\ TransfersBorn
      /\ req[r].at = "takeInWrite" /\ ~Idle(r)
  BY DEF LInv, RInv, IInv, TypeOK, InFlightSound, KnowsStock, TakeInWrite, Idle
<1>2. /\ t \in Transfers /\ transfer[t].status # None
      /\ Alone => transfer[t].status = "PENDING"
  BY <1>1 DEF Sound, Known
<1>3. /\ from \in Ingredients /\ Exists(from) /\ transfer[t].to \in Sites
      /\ q \in Nat /\ transfer[t] \in TransferRow
  BY <1>1, <1>2, StockTypes DEF TransfersBorn, TransfersKnown
<1>4. /\ i \in Ingredients /\ ~Exists(i) /\ i # from
      /\ transfer' = [transfer EXCEPT ![t] = done]
      /\ row' = [row EXCEPT ![i] = new]
      /\ moved' = [moved EXCEPT ![from]["PURCHASE"] = moved[from]["PURCHASE"] + q]
      /\ Finish(r) /\ UNCHANGED <<po, calls>>
  BY <1>3 DEF TakeInWrite, Ingredients
<1>5. /\ done.status = "RECEIVED" /\ done.ing = from /\ done.qty = q
      /\ done.to = transfer[t].to
      /\ \A x \in Transfers : transfer'[x] = IF x = t THEN done ELSE transfer[x]
  <2>1. /\ done.status = "RECEIVED" /\ done.ing = from /\ done.qty = q
        /\ done.to = transfer[t].to
    BY <1>3 DEF TransferRow
  <2> HIDE DEF done
  <2> QED  BY <1>1, <1>2, <1>4, <2>1 DEF TypeOK
<1>6. /\ \A x \in Ingredients : x # i => row'[x] = row[x]
      /\ row'[i].site = transfer[t].to /\ row'[i].name = row[from].name
      /\ row'[i].stock = q /\ row'[i].opening = 0
  BY <1>1, <1>4 DEF TypeOK
<1>7. row[i].name = None /\ row[from].name \in Ingredients
      /\ \A type \in MovementType : moved[i][type] = 0
  BY <1>1, <1>3, <1>4 DEF RowsBorn
<1>8. \A x \in Ingredients : x # from => moved'[x] = moved[x]
  BY <1>1, <1>4 DEF TypeOK
<1> HIDE DEF t, from, q, new, done
<1>9. NamesKept  BY <1>4, <1>6 DEF NamesKept, Exists
<1>10. RowsFresh  BY <1>4, <1>6, <1>7, <1>8 DEF RowsFresh
<1>11. RowsBorn'
  <2>1. transfer[t].to # None  BY <1>3, NoneAssumption
  <2>2. ASSUME NEW x \in Ingredients
        PROVE  IF Exists(x)' THEN row'[x].name \in Ingredients
               ELSE row'[x].name = None /\ \A type \in MovementType : moved'[x][type] = 0
    <3>1. CASE x = i  BY <1>6, <1>7, <2>1, <3>1 DEF Exists
    <3>2. CASE x # i
      <4>1. row'[x] = row[x] /\ (x # from => moved'[x] = moved[x])  BY <1>6, <1>8, <3>2
      <4> QED  BY <1>1, <1>3, <4>1 DEF RowsBorn, Exists
    <3> QED  BY <3>1, <3>2
  <2> QED  BY <2>2 DEF RowsBorn
<1>12. RInv'
  <2>1. OrdersBorn'  BY <1>1, <1>4, <1>9, OrdersBornStay
  <2>2. TransfersBorn'
    <3>1. \A x \in Ingredients : Exists(x) => Exists(x)'  BY <1>9 DEF NamesKept
    <3> QED  BY <1>1, <1>3, <1>5, <3>1 DEF TransfersBorn, TransfersKnown
  <2>3. KnowsStock' /\ OneAtATime'  BY <1>1, <1>4, <1>9, EndStep
  <2> QED  BY <1>11, <2>1, <2>2, <2>3 DEF RInv
<1>13. "PURCHASE" \in MovementType /\ q \in Int /\ calls' = calls
  BY <1>3, <1>4 DEF MovementType
<1>14. ASSUME NEW n \in Ingredients
       PROVE  /\ \A type \in MovementType :
                    MovedOf(n, type)' = MovedOf(n, type)
                        + (IF row[from].name = n /\ type = "PURCHASE" THEN q ELSE 0)
              /\ RecordedOf(n)' = RecordedOf(n) + (IF row[from].name = n THEN q ELSE 0)
  BY <1>1, <1>3, <1>4, <1>9, <1>10, <1>13, MovedChange
<1>15. LedgerBalances'
  <2> SUFFICES ASSUME "edit" \notin calls, "stockTake" \in calls => Alone,
                      NEW n \in Ingredients
               PROVE  StockOf(n)' = OpeningOf(n)' + RecordedOf(n)'
    BY <1>13 DEF LedgerBalances, Alone
  <2>1. StockOf(n) = OpeningOf(n) + RecordedOf(n)  BY DEF LInv, LedgerBalances
  <2>2. RecordedOf(n) \in Int  BY <1>1, MovedTyped
  <2>3. row[i].name # n  BY <1>7, NoneAssumption
  <2>4. /\ StockOf(n) \in Int /\ StockOf(n)' \in Int
        /\ OpeningOf(n) \in Int /\ OpeningOf(n)' \in Int
        /\ StockOf(n)' + (IF row[i].name = n THEN row[i].stock ELSE 0)
             = StockOf(n) + (IF row'[i].name = n THEN row'[i].stock ELSE 0)
        /\ OpeningOf(n)' + (IF row[i].name = n THEN row[i].opening ELSE 0)
             = OpeningOf(n) + (IF row'[i].name = n THEN row'[i].opening ELSE 0)
    BY <1>1, <1>4, <1>6, RowChange
  <2>5. CASE row[from].name = n
    <3>1. StockOf(n)' + 0 = StockOf(n) + q /\ OpeningOf(n)' + 0 = OpeningOf(n) + 0
      BY <1>6, <2>3, <2>4, <2>5
    <3>2. RecordedOf(n)' = RecordedOf(n) + q  BY <1>14, <2>5
    <3> QED  BY <1>13, <2>1, <2>2, <2>4, <3>1, <3>2
  <2>6. CASE row[from].name # n
    <3>1. StockOf(n)' + 0 = StockOf(n) + 0 /\ OpeningOf(n)' + 0 = OpeningOf(n) + 0
      BY <1>6, <2>3, <2>4, <2>6
    <3>2. RecordedOf(n)' = RecordedOf(n) + 0  BY <1>14, <2>6
    <3> QED  BY <2>1, <2>2, <2>4, <3>1, <3>2
  <2> QED  BY <2>5, <2>6
<1>16. MovementsExplained'
  <2> SUFFICES ASSUME Alone, NEW n \in Ingredients
               PROVE  /\ MovedOf(n, "PURCHASE")' = ReceivedOf(n)' + ShippedOf(n, {"RECEIVED"})'
                      /\ MovedOf(n, "ADJUSTMENT")' = -(ShippedOf(n, {"PENDING", "RECEIVED"})')
    BY <1>13 DEF MovementsExplained, Alone
  <2>1. ReceivedOf(n)' = ReceivedOf(n)  BY <1>1, <1>4, <1>9, ReceivedStays
  <2>2. ASSUME NEW S \in SUBSET TransferStatus
        PROVE  /\ row[from].name # n => ShippedOf(n, S)' = ShippedOf(n, S)
               /\ row[from].name = n =>
                    ShippedOf(n, S)' + (IF transfer[t].status \in S THEN transfer[t].qty ELSE 0)
                      = ShippedOf(n, S)
                          + (IF transfer'[t].status \in S THEN transfer'[t].qty ELSE 0)
    <3>1. /\ \A x \in Transfers : x # t => transfer'[x] = transfer[x]
          /\ transfer'[t].ing = from /\ transfer[t].ing = from
      BY <1>2, <1>5 DEF from
    <3> QED  BY <1>1, <1>2, <1>3, <1>9, <3>1, ShippedWrite
  <2>3. /\ transfer[t].status = "PENDING" /\ transfer[t].qty = q
        /\ transfer'[t].status = "RECEIVED" /\ transfer'[t].qty = q
    BY <1>2, <1>5 DEF q
  <2>4. \A type \in MovementType : MovedOf(n, type) \in Int  BY <1>1, MovedTyped
  <2>5. ReceivedOf(n) \in Int /\ \A S \in SUBSET TransferStatus : ShippedOf(n, S)' \in Nat
    BY <1>1, ReceivedTyped, ShippedTypedNext
  <2>6. \A S \in SUBSET TransferStatus : ShippedOf(n, S) \in Nat  BY <1>1, ShippedTyped
  <2>7. /\ MovedOf(n, "PURCHASE") = ReceivedOf(n) + ShippedOf(n, {"RECEIVED"})
        /\ MovedOf(n, "ADJUSTMENT") = -ShippedOf(n, {"PENDING", "RECEIVED"})
    BY DEF LInv, MovementsExplained
  <2>8. /\ MovedOf(n, "PURCHASE")' = MovedOf(n, "PURCHASE")
                                       + (IF row[from].name = n THEN q ELSE 0)
        /\ MovedOf(n, "ADJUSTMENT")' = MovedOf(n, "ADJUSTMENT")
    BY <1>14, <2>4 DEF MovementType
  <2>9. {"RECEIVED"} \in SUBSET TransferStatus /\ {"PENDING", "RECEIVED"} \in SUBSET TransferStatus
    BY DEF TransferStatus
  <2>10. /\ ShippedOf(n, {"RECEIVED"}) \in Nat /\ ShippedOf(n, {"RECEIVED"})' \in Nat
         /\ ShippedOf(n, {"PENDING", "RECEIVED"}) \in Nat
         /\ ShippedOf(n, {"PENDING", "RECEIVED"})' \in Nat
    BY <2>5, <2>6, <2>9
  <2>11. CASE row[from].name = n
    <3>1. /\ ShippedOf(n, {"RECEIVED"})' + 0 = ShippedOf(n, {"RECEIVED"}) + q
          /\ ShippedOf(n, {"PENDING", "RECEIVED"})' + q
               = ShippedOf(n, {"PENDING", "RECEIVED"}) + q
      BY <2>2, <2>3, <2>9, <2>11
    <3>2. MovedOf(n, "PURCHASE")' = MovedOf(n, "PURCHASE") + q  BY <2>8, <2>11
    <3>3. /\ ShippedOf(n, {"RECEIVED"})' = ShippedOf(n, {"RECEIVED"}) + q
          /\ ShippedOf(n, {"PENDING", "RECEIVED"})' = ShippedOf(n, {"PENDING", "RECEIVED"})
      BY <1>13, <2>10, <3>1
    <3> QED  BY <1>13, <2>1, <2>5, <2>7, <2>8, <2>10, <3>2, <3>3
  <2>12. CASE row[from].name # n
    <3>1. /\ ShippedOf(n, {"RECEIVED"})' = ShippedOf(n, {"RECEIVED"})
          /\ ShippedOf(n, {"PENDING", "RECEIVED"})' = ShippedOf(n, {"PENDING", "RECEIVED"})
      BY <2>2, <2>9, <2>12
    <3>2. MovedOf(n, "PURCHASE")' = MovedOf(n, "PURCHASE") + 0  BY <2>8, <2>12
    <3> QED  BY <2>1, <2>5, <2>7, <2>8, <2>10, <3>1, <3>2
  <2> QED  BY <2>11, <2>12
<1> QED  BY <1>12, <1>15, <1>16 DEF LInv

\* A transfer is recalled: the adjustment that took it out is undone.
LEMMA RecallKeepsLedger ==
    ASSUME LInv, IInv', NEW r \in Requests, RecallWrite(r)
    PROVE  LInv'
<1> DEFINE t == req[r].transfer
           i == transfer[t].ing
           q == transfer[t].qty
           done == [transfer[t] EXCEPT !.status = "CANCELLED"]
<1>1. /\ req[r] \in Request /\ Sound(req[r]) /\ Known(req[r]) /\ RInv
      /\ TypeOK /\ TypeOK' /\ OrdersBorn /\ TransfersKnown /\ TransfersBorn
      /\ req[r].at = "recallWrite" /\ ~Idle(r)
  BY DEF LInv, RInv, IInv, TypeOK, InFlightSound, KnowsStock, RecallWrite, Idle
<1>2. /\ t \in Transfers /\ transfer[t].status # None
      /\ Alone => transfer[t].status = "PENDING"
  BY <1>1 DEF Sound, Known
<1>3. /\ i \in Ingredients /\ Exists(i) /\ transfer[t].to \in Sites
      /\ q \in Nat /\ transfer[t] \in TransferRow
  BY <1>1, <1>2, StockTypes DEF TransfersBorn, TransfersKnown
<1>4. /\ transfer' = [transfer EXCEPT ![t] = done]
      /\ Move(i, "ADJUSTMENT", q) /\ Finish(r) /\ UNCHANGED <<po, calls>>
  BY DEF RecallWrite
<1>5. /\ done.status = "CANCELLED" /\ done.ing = i /\ done.qty = q
      /\ done.to = transfer[t].to
      /\ \A x \in Transfers : transfer'[x] = IF x = t THEN done ELSE transfer[x]
  <2>1. /\ done.status = "CANCELLED" /\ done.ing = i /\ done.qty = q
        /\ done.to = transfer[t].to
    BY <1>3 DEF TransferRow
  <2> HIDE DEF done
  <2> QED  BY <1>1, <1>2, <1>4, <2>1 DEF TypeOK
<1> HIDE DEF t, i, q, done
<1>6. Moves(i, "ADJUSTMENT", q)  BY <1>4, MoveMoves
<1>7. q \in Int /\ "ADJUSTMENT" \in MovementType /\ calls' = calls
  BY <1>3, <1>4 DEF MovementType
<1>8. /\ NamesKept /\ RowsBorn' /\ LedgerBalances'
      /\ \A n \in Ingredients, type \in MovementType :
           MovedOf(n, type)' = MovedOf(n, type)
                               + (IF row[i].name = n /\ type = "ADJUSTMENT" THEN q ELSE 0)
  BY <1>1, <1>3, <1>6, <1>7, MoveBalances
<1>9. RInv'
  <2>1. OrdersBorn'  BY <1>1, <1>4, <1>8, OrdersBornStay
  <2>2. TransfersBorn'
    <3>1. \A x \in Ingredients : Exists(x) => Exists(x)'  BY <1>8 DEF NamesKept
    <3> QED  BY <1>1, <1>3, <1>5, <3>1 DEF TransfersBorn, TransfersKnown
  <2>3. KnowsStock' /\ OneAtATime'  BY <1>1, <1>4, <1>8, EndStep
  <2> QED  BY <1>8, <2>1, <2>2, <2>3 DEF RInv
<1>10. MovementsExplained'
  <2> SUFFICES ASSUME Alone, NEW n \in Ingredients
               PROVE  /\ MovedOf(n, "PURCHASE")' = ReceivedOf(n)' + ShippedOf(n, {"RECEIVED"})'
                      /\ MovedOf(n, "ADJUSTMENT")' = -(ShippedOf(n, {"PENDING", "RECEIVED"})')
    BY <1>7 DEF MovementsExplained, Alone
  <2>1. ReceivedOf(n)' = ReceivedOf(n)  BY <1>1, <1>4, <1>8, ReceivedStays
  <2>2. ASSUME NEW S \in SUBSET TransferStatus
        PROVE  /\ row[i].name # n => ShippedOf(n, S)' = ShippedOf(n, S)
               /\ row[i].name = n =>
                    ShippedOf(n, S)' + (IF transfer[t].status \in S THEN transfer[t].qty ELSE 0)
                      = ShippedOf(n, S)
                          + (IF transfer'[t].status \in S THEN transfer'[t].qty ELSE 0)
    <3>1. /\ \A x \in Transfers : x # t => transfer'[x] = transfer[x]
          /\ transfer'[t].ing = i /\ transfer[t].ing = i
      BY <1>2, <1>5 DEF i
    <3> QED  BY <1>1, <1>2, <1>3, <1>8, <3>1, ShippedWrite
  <2>3. /\ transfer[t].status = "PENDING" /\ transfer[t].qty = q
        /\ transfer'[t].status = "CANCELLED"
    BY <1>2, <1>5 DEF q
  <2>4. \A type \in MovementType : MovedOf(n, type) \in Int  BY <1>1, MovedTyped
  <2>5. ReceivedOf(n) \in Int /\ \A S \in SUBSET TransferStatus : ShippedOf(n, S)' \in Nat
    BY <1>1, ReceivedTyped, ShippedTypedNext
  <2>6. \A S \in SUBSET TransferStatus : ShippedOf(n, S) \in Nat  BY <1>1, ShippedTyped
  <2>7. /\ MovedOf(n, "PURCHASE") = ReceivedOf(n) + ShippedOf(n, {"RECEIVED"})
        /\ MovedOf(n, "ADJUSTMENT") = -ShippedOf(n, {"PENDING", "RECEIVED"})
    BY DEF LInv, MovementsExplained
  <2>8. /\ MovedOf(n, "PURCHASE")' = MovedOf(n, "PURCHASE")
        /\ MovedOf(n, "ADJUSTMENT")' = MovedOf(n, "ADJUSTMENT")
                                         + (IF row[i].name = n THEN q ELSE 0)
    BY <1>8, <2>4 DEF MovementType
  <2>9. {"RECEIVED"} \in SUBSET TransferStatus /\ {"PENDING", "RECEIVED"} \in SUBSET TransferStatus
    BY DEF TransferStatus
  <2>10. /\ ShippedOf(n, {"RECEIVED"}) \in Nat /\ ShippedOf(n, {"RECEIVED"})' \in Nat
         /\ ShippedOf(n, {"PENDING", "RECEIVED"}) \in Nat
         /\ ShippedOf(n, {"PENDING", "RECEIVED"})' \in Nat
    BY <2>5, <2>6, <2>9
  <2>11. CASE row[i].name = n
    <3>1. /\ ShippedOf(n, {"RECEIVED"})' + 0 = ShippedOf(n, {"RECEIVED"}) + 0
          /\ ShippedOf(n, {"PENDING", "RECEIVED"})' + q
               = ShippedOf(n, {"PENDING", "RECEIVED"}) + 0
      BY <2>2, <2>3, <2>9, <2>11
    <3>2. MovedOf(n, "ADJUSTMENT")' = MovedOf(n, "ADJUSTMENT") + q  BY <2>8, <2>11
    <3>3. ShippedOf(n, {"RECEIVED"})' = ShippedOf(n, {"RECEIVED"})  BY <2>10, <3>1
    <3> QED  BY <1>7, <2>1, <2>5, <2>7, <2>8, <2>10, <3>1, <3>2, <3>3
  <2>12. CASE row[i].name # n
    <3>1. /\ ShippedOf(n, {"RECEIVED"})' = ShippedOf(n, {"RECEIVED"})
          /\ ShippedOf(n, {"PENDING", "RECEIVED"})' = ShippedOf(n, {"PENDING", "RECEIVED"})
      BY <2>2, <2>9, <2>12
    <3>2. MovedOf(n, "ADJUSTMENT")' = MovedOf(n, "ADJUSTMENT") + 0  BY <2>8, <2>12
    <3> QED  BY <2>1, <2>5, <2>7, <2>8, <2>10, <3>1, <3>2
  <2> QED  BY <2>11, <2>12
<1> QED  BY <1>8, <1>9, <1>10 DEF LInv

-----------------------------------------------------------------------------
\* The tables start empty, so every sum is zero.
LEMMA InitLedger == Init => LInv
<1> SUFFICES ASSUME Init PROVE LInv  OBVIOUS
<1>1. IInv /\ TypeOK  BY InitIInv DEF IInv
<1>2. \A i \in Ingredients : row[i].name = None /\ ~Exists(i)
  BY DEF Init, NoRow, Exists
<1>3. \A i \in Ingredients, type \in MovementType : moved[i][type] = 0  BY DEF Init
<1>4. \A p \in POs, l \in Lines : po[p].ing[l] = None  BY DEF Init, NoPo
<1>5. \A t \in Transfers : transfer[t].status = None  BY DEF Init, NoTransfer
<1>6. \A r \in Requests : req[r].at = "idle"  BY DEF Init, NoRequest
<1>7. KnowsStock /\ OneAtATime
  BY <1>6 DEF KnowsStock, Known, OneAtATime, Idle
<1>8. RowsBorn /\ OrdersBorn /\ TransfersBorn
  BY <1>2, <1>3, <1>4, <1>5 DEF RowsBorn, OrdersBorn, TransfersBorn
<1>9. ASSUME NEW n \in Ingredients
      PROVE  /\ StockOf(n) = 0 /\ OpeningOf(n) = 0 /\ ReceivedOf(n) = 0
             /\ \A type \in MovementType : MovedOf(n, type) = 0
             /\ \A S \in SUBSET TransferStatus : ShippedOf(n, S) = 0
  <2>1. n # None  BY NoneAssumption
  <2>2. RowsOf(n) = {}  BY <1>2, <2>1 DEF RowsOf
  <2>3. OrderLinesOf(n) = {}  BY <1>4 DEF OrderLinesOf
  <2>4. \A S \in SUBSET TransferStatus : TransfersOf(n, S) = {}
    BY <1>5, NoneAssumption DEF TransfersOf
  <2>5. StockOf(n) = 0 /\ OpeningOf(n) = 0 /\ ReceivedOf(n) = 0
    BY <2>2, <2>3, SumEmpty DEF StockOf, OpeningOf, ReceivedOf
  <2>6. \A type \in MovementType : MovedOf(n, type) = 0
    BY <2>2, SumEmpty DEF MovedOf
  <2>7. \A S \in SUBSET TransferStatus : ShippedOf(n, S) = 0
    BY <2>4, SumEmpty DEF ShippedOf
  <2> QED  BY <2>5, <2>6, <2>7
<1>10. ASSUME NEW n \in Ingredients PROVE RecordedOf(n) = 0
  <2> DEFINE f == [type \in MovementType |-> MovedOf(n, type)]
  <2>1. \A type \in MovementType : f[type] = 0  BY <1>9
  <2>2. RecordedOf(n) = SumFunctionOnSet(f, MovementType)  BY DEF RecordedOf
  <2> HIDE DEF f
  <2>3. \A type \in MovementType : f[type] \in Int  BY <2>1
  <2>4. IsFiniteSet(MovementType) /\ {} \in SUBSET MovementType  BY Finite
  <2>5. SumFunctionOnSet(f, MovementType) = SumFunctionOnSet(f, {})
    BY <2>1, <2>3, <2>4, SumZeros
  <2> QED  BY <2>2, <2>5, SumEmpty
<1>11. LedgerBalances
  <2>1. \A n \in Ingredients : StockOf(n) = 0 /\ OpeningOf(n) = 0 /\ RecordedOf(n) = 0
    BY <1>9, <1>10
  <2> QED  BY <2>1 DEF LedgerBalances
<1>12. MovementsExplained
  <2>1. /\ "PURCHASE" \in MovementType /\ "ADJUSTMENT" \in MovementType
        /\ {"RECEIVED"} \in SUBSET TransferStatus
        /\ {"PENDING", "RECEIVED"} \in SUBSET TransferStatus
    BY DEF MovementType, TransferStatus
  <2>2. \A n \in Ingredients :
          /\ MovedOf(n, "PURCHASE") = 0 /\ MovedOf(n, "ADJUSTMENT") = 0
          /\ ReceivedOf(n) = 0 /\ ShippedOf(n, {"RECEIVED"}) = 0
          /\ ShippedOf(n, {"PENDING", "RECEIVED"}) = 0
    BY <1>9, <2>1
  <2> QED  BY <2>2 DEF MovementsExplained
<1> QED  BY <1>1, <1>7, <1>8, <1>11, <1>12 DEF LInv, RInv

LEMMA StutterLedger == LInv /\ IInv' /\ UNCHANGED vars => LInv'
<1> SUFFICES ASSUME LInv, IInv', UNCHANGED vars PROVE LInv'  OBVIOUS
<1>1. UNCHANGED <<row, moved, po, transfer, calls, req>>  BY DEF vars
<1>2. KnowsStock' /\ OneAtATime'
  BY <1>1 DEF LInv, RInv, KnowsStock, Known, OneAtATime, Idle, Exists, Alone
<1> QED  BY <1>1, <1>2, QuietStep

LEMMA NextLedger == LInv /\ [Next]_vars => LInv'
<1> SUFFICES ASSUME LInv, [Next]_vars PROVE LInv'  OBVIOUS
<1>1. IInv'  BY NextKeeps DEF LInv, RInv
<1>2. CASE Immediate
  <2>1. CASE \E i \in Originals, s \in Sites, n \in Openings : CreateIngredient(i, s, n)
    BY <1>1, <2>1, CreateKeepsLedger
  <2>2. CASE \E i \in Ingredients, n \in {0, MaxQty} : UpdateIngredient(i, n)
    BY <1>1, <2>2, EditKeepsLedger
  <2>3. CASE \E i \in Ingredients : DeleteIngredient(i)
    BY <1>1, <2>3, EditKeepsLedger
  <2>4. CASE \E i \in Ingredients, q \in 1..MaxQty : LogWaste(i, q)
    BY <1>1, <2>4, WasteKeepsLedger
  <2>5. CASE \E p \in POs, ing \in [Lines -> Ingredients \cup {None}],
                ordered \in [Lines -> 0..MaxQty] : CreatePurchaseOrder(p, ing, ordered)
    BY <1>1, <2>5, NewOrderKeepsLedger
  <2> QED  BY <1>2, <2>1, <2>2, <2>3, <2>4, <2>5 DEF Immediate
<1>3. ASSUME NEW r \in Requests, Arrive(r) \/ Proceed(r) \/ Fail(r) PROVE LInv'
  <2>1. CASE Arrive(r)  BY <1>1, <2>1, ArriveKeepsLedger
  <2>2. CASE \E i \in Ingredients, q \in 1..MaxQty : DeductLine(r, i, q)
    BY <1>1, <2>2, DeductKeepsLedger
  <2>3. CASE StockTakeWrite(r)  BY <1>1, <2>3, CountKeepsLedger
  <2>4. CASE ReceiveLine(r)  BY <1>1, <2>4, ReceiveLineKeepsLedger
  <2>5. CASE \/ CancelOrderWrite(r) \/ ReceiveStatus(r)
             \/ ReceiveReject(r) \/ Fail(r) \/ ReceiveRefresh(r)
    BY <1>1, <2>5, QuietKeepsLedger
  <2>6. CASE \E t \in Transfers : ShipWrite(r, t)  BY <1>1, <2>6, ShipKeepsLedger
  <2>7. CASE \E i \in Clones : TakeInWrite(r, i)  BY <1>1, <2>7, TakeInKeepsLedger
  <2>8. CASE RecallWrite(r)  BY <1>1, <2>8, RecallKeepsLedger
  <2> QED  BY <1>3, <2>1, <2>2, <2>3, <2>4, <2>5, <2>6, <2>7, <2>8 DEF Proceed
<1>4. CASE UNCHANGED vars  BY <1>1, <1>4, StutterLedger
<1> QED  BY <1>2, <1>3, <1>4 DEF Next

\* The ledger and what it rests on hold in every reachable state.
THEOREM LedgerInvariance == Spec => []LInv
<1>1. LInv /\ [Next]_vars => LInv'  BY NextLedger
<1> QED  BY InitLedger, <1>1, PTL DEF Spec

\* What the rows of an ingredient hold is what they were created with plus all
\* that stock_movements records, with sales, waste, goods receipts and transfers
\* racing and failing half way; unless staff edit the stock (updateIngredient
\* records nothing) or a stock take races with anything (conductStockTake writes
\* a level and a difference it computed from an older one).
THEOREM StockIsExplained == Spec => []LedgerBalances
<1>1. LInv => LedgerBalances  BY DEF LInv
<1> QED  BY LedgerInvariance, <1>1, PTL

\* Where handlers run one at a time, failing ones included, every purchase in the
\* ledger is goods an order or a transfer says were received, and every
\* adjustment is goods a transfer says have left.
THEOREM MovementsAreDocumented == Spec => []MovementsExplained
<1>1. LInv => MovementsExplained  BY DEF LInv
<1> QED  BY LedgerInvariance, <1>1, PTL
=============================================================================
