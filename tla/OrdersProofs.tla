---------------------------- MODULE OrdersProofs ----------------------------
(***************************************************************************)
(* Proofs about Orders, for any number of orders, items and requests, any  *)
(* traffic, with or without failures.                                      *)
(*                                                                         *)
(* MilestonesStamped is not inductive: a status update writes what was a   *)
(* legal step from a status it saw earlier.  The strengthening says what   *)
(* every request in flight still knows: its order exists as a row, and the *)
(* timestamps promised by the status it saw are set, since no handler ever *)
(* clears one.  What a status promises depends on the handlers a behaviour *)
(* calls: payments complete orders that have not been to the pass.         *)
(***************************************************************************)
EXTENDS Orders, TLAPS

ItemSteps == {"voidRead", "voidWrite", "addWrite", "readyWrite", "servedWrite"}

\* What a request q keeps knowing from its read to its write.
Sound(q) ==
    /\ q.at \notin {"idle", "acceptLoop"} => q.order \in Orders
    /\ q.at \in ItemSteps => q.item \in Items
    /\ q.at = "statusWrite" =>
          /\ <<q.seen, q.to>> \in AllowedTransitions
          /\ Milestones(q.seen, calls) \subseteq stamps[q.order]
    /\ q.at = "payWrite" => "pay" \in calls
    /\ q.at = "codWrite" => "confirmCod" \in calls

InFlightSound == \A r \in Requests : Sound(req[r])

\* A row that does not exist yet has no timestamps.
FreshUnstamped == \A o \in Orders : status[o] = None => stamps[o] = {}

IInv == TypeOK /\ InFlightSound /\ FreshUnstamped /\ MilestonesStamped

-----------------------------------------------------------------------------
\* The state machine never skips a milestone: what a status promises was
\* promised by the status before it or is stamped when it is written.
LEMMA TransitionStamps ==
    ASSUME NEW s, NEW t, NEW by, <<s, t>> \in AllowedTransitions
    PROVE  /\ s \in OrderStatus
           /\ t \in OrderStatus
           /\ Milestones(t, by) \subseteq Milestones(s, by) \cup StampOf(t)
  BY DEF AllowedTransitions, OrderStatus, Milestones, StampOf, Stamp

\* What one step owes the requests in flight.
InFlightKept == /\ req' \in [Requests -> Request]
                /\ calls' = calls
                /\ InFlightSound'

\* A step that gives one request a sound value and clears no timestamp keeps
\* every request sound.
LEMMA SoundStep ==
    ASSUME TypeOK, InFlightSound,
           NEW r \in Requests, NEW q \in Request, Sound(q),
           Go(r, q),
           \A o \in Orders : stamps[o] \subseteq stamps'[o]
    PROVE  InFlightKept
<1>1. req' \in [Requests -> Request] /\ calls' = calls  BY DEF TypeOK, Go
<1>2. ASSUME NEW p \in Requests PROVE Sound(req[p])'
  <2>1. Sound(req[p])  BY DEF InFlightSound
  <2>2. req'[p] = IF p = r THEN q ELSE req[p]  BY DEF TypeOK, Go
  <2> QED  BY <1>1, <2>1, <2>2 DEF Sound
<1> QED  BY <1>1, <1>2 DEF InFlightKept, InFlightSound

\* A new request is sound.
LEMMA EnterSound ==
    ASSUME IInv, NEW r \in Requests, NEW at \in Step \ {"acceptLoop"},
           NEW o \in Orders, NEW i \in Items \cup {None},
           NEW to \in OrderStatus \cup {None},
           at \in ItemSteps => i \in Items,
           at = "statusWrite" => <<status[o], to>> \in AllowedTransitions,
           at = "payWrite" => "pay" \in calls,
           at = "codWrite" => "confirmCod" \in calls,
           Enter(r, at, o, i, to),
           UNCHANGED stamps
    PROVE  InFlightKept
<1> DEFINE q == [NoRequest EXCEPT !.at = at, !.order = o, !.item = i,
                                  !.seen = status[o], !.to = to]
<1>1. /\ q \in Request
      /\ q.at = at /\ q.order = o /\ q.item = i /\ q.seen = status[o] /\ q.to = to
  BY DEF NoRequest, Request, IInv, TypeOK, Step
<1>2. Milestones(status[o], calls) \subseteq stamps[o]  BY DEF IInv, MilestonesStamped
<1>3. Sound(q)  BY <1>1, <1>2 DEF Sound
<1> HIDE DEF q
<1> QED  BY <1>1, <1>3, SoundStep DEF IInv, Enter, q

\* A request that goes on with another statement is sound.
LEMMA ContinueSound ==
    ASSUME IInv, NEW r \in Requests, NEW at \in Step,
           at \notin {"idle", "acceptLoop", "statusWrite", "payWrite", "codWrite"},
           at \in ItemSteps => req[r].item \in Items,
           req[r].order \in Orders,
           Continue(r, at),
           UNCHANGED stamps
    PROVE  InFlightKept
<1> DEFINE q == [req[r] EXCEPT !.at = at]
<1>1. /\ q \in Request
      /\ q.at = at /\ q.order = req[r].order /\ q.item = req[r].item
  BY DEF Request, IInv, TypeOK
<1>2. Sound(q)  BY <1>1 DEF Sound
<1> HIDE DEF q
<1> QED  BY <1>1, <1>2, SoundStep DEF IInv, Continue, q

\* A request that ends is sound.
LEMMA FinishSound ==
    ASSUME IInv, NEW r \in Requests, Finish(r),
           \A o \in Orders : stamps[o] \subseteq stamps'[o]
    PROVE  InFlightKept
<1>1. NoRequest \in Request /\ Sound(NoRequest)
  BY DEF NoRequest, Request, Step, Sound, ItemSteps
<1> QED  BY <1>1, SoundStep DEF IInv, Finish

\* One update of an order row that stamps what its new status promises.
LEMMA SetStatusStamped ==
    ASSUME IInv, NEW o \in Orders, NEW s \in OrderStatus, NEW T \in SUBSET Stamp,
           SetStatus(o, s, T), calls' = calls,
           Milestones(s, calls) \subseteq stamps[o] \cup T
    PROVE  /\ status' \in [Orders -> OrderStatus \cup {None}]
           /\ stamps' \in [Orders -> SUBSET Stamp]
           /\ \A p \in Orders : stamps[p] \subseteq stamps'[p]
           /\ FreshUnstamped'
           /\ MilestonesStamped'
<1>1. /\ status' = [status EXCEPT ![o] = s]
      /\ stamps' = [stamps EXCEPT ![o] = stamps[o] \cup T]
  BY DEF SetStatus
<1>2. /\ status \in [Orders -> OrderStatus \cup {None}]
      /\ stamps \in [Orders -> SUBSET Stamp]
  BY DEF IInv, TypeOK
<1>3. ASSUME NEW p \in Orders PROVE Milestones(status'[p], calls) \subseteq stamps'[p]
  <2>1. Milestones(status[p], calls) \subseteq stamps[p]  BY DEF IInv, MilestonesStamped
  <2> QED  BY <1>1, <1>2, <2>1
<1>4. FreshUnstamped'
  <2>1. s # None  BY NoneAssumption
  <2> QED  BY <1>1, <1>2, <2>1 DEF IInv, FreshUnstamped
<1> QED  BY <1>1, <1>2, <1>3, <1>4 DEF MilestonesStamped

\* One update of the items of an order.
LEMMA SetItemsType ==
    ASSUME IInv, NEW o \in Orders, NEW from, NEW to \in KitchenStatus,
           SetItems(o, from, to)
    PROVE  kitchen' \in [Orders -> [Items -> KitchenStatus \cup {None}]]
  BY DEF IInv, TypeOK, SetItems

\* A step that touches no status, timestamp and deduction.
LEMMA KeepsOrderRow ==
    ASSUME IInv, UNCHANGED orderRow, calls' = calls
    PROVE  /\ status' \in [Orders -> OrderStatus \cup {None}]
           /\ stamps' \in [Orders -> SUBSET Stamp]
           /\ deductions' \in [Orders -> 0..MaxDeductions]
           /\ \A p \in Orders : stamps[p] \subseteq stamps'[p]
           /\ FreshUnstamped'
           /\ MilestonesStamped'
  BY DEF IInv, TypeOK, FreshUnstamped, MilestonesStamped, orderRow

LEMMA KeepsItemRows ==
    ASSUME IInv, UNCHANGED itemRows
    PROVE  /\ kitchen' \in [Orders -> [Items -> KitchenStatus \cup {None}]]
           /\ voided' \in [Orders -> SUBSET Items]
  BY DEF IInv, TypeOK, itemRows

-----------------------------------------------------------------------------
\* What one step owes the invariant.
Kept == /\ status' \in [Orders -> OrderStatus \cup {None}]
        /\ stamps' \in [Orders -> SUBSET Stamp]
        /\ kitchen' \in [Orders -> [Items -> KitchenStatus \cup {None}]]
        /\ voided' \in [Orders -> SUBSET Items]
        /\ deductions' \in [Orders -> 0..MaxDeductions]
        /\ InFlightKept
        /\ FreshUnstamped'
        /\ MilestonesStamped'

\* Every call that arrives keeps the invariant: it reads and is sound.
LEMMA ArriveKeeps ==
    ASSUME IInv, NEW r \in Requests, Arrive(r)
    PROVE  Kept
<1>1. ASSUME NEW o \in Orders, NEW to \in OrderStatus, UpdateStatusRead(r, o, to)
      PROVE  Kept
  <2>1. UNCHANGED orderRow /\ UNCHANGED itemRows  BY <1>1 DEF UpdateStatusRead
  <2>2. InFlightKept
    BY <1>1, EnterSound DEF UpdateStatusRead, Step, ItemSteps, orderRow
  <2> QED  BY <2>1, <2>2, KeepsOrderRow, KeepsItemRows DEF Kept, InFlightKept
<1>2. ASSUME NEW o \in Orders, CancelRead(r, o) \/ RejectRead(r, o)
      PROVE  Kept
  <2>1. UNCHANGED orderRow /\ UNCHANGED itemRows
    BY <1>2 DEF CancelRead, RejectRead
  <2>2. InFlightKept
    BY <1>2, EnterSound DEF CancelRead, RejectRead, Step, ItemSteps, orderRow
  <2> QED  BY <2>1, <2>2, KeepsOrderRow, KeepsItemRows DEF Kept, InFlightKept
<1>3. ASSUME NEW batch \in SUBSET Orders, AutoAcceptRead(r, batch)
      PROVE  Kept
  <2> DEFINE q == [NoRequest EXCEPT !.at = "acceptLoop", !.batch = batch]
  <2>1. UNCHANGED orderRow /\ UNCHANGED itemRows /\ Go(r, q)
    BY <1>3 DEF AutoAcceptRead
  <2>2. q \in Request /\ Sound(q)
    BY DEF NoRequest, Request, Step, Sound, ItemSteps
  <2> HIDE DEF q
  <2>3. InFlightKept
    BY <2>1, <2>2, SoundStep DEF IInv, orderRow
  <2> QED  BY <2>1, <2>3, KeepsOrderRow, KeepsItemRows DEF Kept, InFlightKept
<1>4. ASSUME NEW o \in Orders, NEW i \in Items,
             \/ VoidRead(r, o, i) \/ AddItemsRead(r, o, i)
             \/ ItemReadyRead(r, o, i) \/ ItemServedRead(r, o, i)
      PROVE  Kept
  <2>1. UNCHANGED orderRow /\ UNCHANGED itemRows
    BY <1>4 DEF VoidRead, AddItemsRead, ItemReadyRead, ItemServedRead
  <2>2. InFlightKept
    BY <1>4, EnterSound DEF VoidRead, AddItemsRead, ItemReadyRead,
       ItemServedRead, Step, ItemSteps, orderRow
  <2> QED  BY <2>1, <2>2, KeepsOrderRow, KeepsItemRows DEF Kept, InFlightKept
<1>5. ASSUME NEW o \in Orders, StartRead(r, o) \/ BumpReadyEnter(r, o)
      PROVE  Kept
  <2>1. UNCHANGED orderRow /\ UNCHANGED itemRows
    BY <1>5 DEF StartRead, BumpReadyEnter
  <2>2. InFlightKept
    BY <1>5, EnterSound DEF StartRead, BumpReadyEnter, Step, ItemSteps, orderRow
  <2> QED  BY <2>1, <2>2, KeepsOrderRow, KeepsItemRows DEF Kept, InFlightKept
<1>6. ASSUME NEW o \in Orders, PayRead(r, o) \/ ConfirmCodRead(r, o)
      PROVE  Kept
  <2>1. UNCHANGED orderRow /\ UNCHANGED itemRows
    BY <1>6 DEF PayRead, ConfirmCodRead
  <2>2. InFlightKept
    BY <1>6, EnterSound DEF PayRead, ConfirmCodRead, Called, Step, ItemSteps, orderRow
  <2> QED  BY <2>1, <2>2, KeepsOrderRow, KeepsItemRows DEF Kept, InFlightKept
<1> QED  BY <1>1, <1>2, <1>3, <1>4, <1>5, <1>6 DEF Arrive

\* Calls of a single statement keep the invariant.
LEMMA ImmediateKeeps ==
    ASSUME IInv, Immediate
    PROVE  Kept
<1>1. ASSUME UNCHANGED <<calls, req>>, \A o \in Orders : stamps[o] \subseteq stamps'[o]
      PROVE  InFlightKept
  BY <1>1 DEF IInv, TypeOK, InFlightKept, InFlightSound, Sound
<1>2. ASSUME NEW o \in Orders, NEW auto \in BOOLEAN, NEW S \in SUBSET Items,
             CreateOrder(o, auto, S)
      PROVE  Kept
  <2>1. /\ stamps[o] = {}
        /\ UNCHANGED <<voided, deductions, calls, req>>
    BY <1>2 DEF CreateOrder, Exists, IInv, FreshUnstamped
  <2>2. kitchen' \in [Orders -> [Items -> KitchenStatus \cup {None}]]
    BY <1>2 DEF CreateOrder, IInv, TypeOK, NewItem, KitchenStatus
  <2>3. PICK s \in OrderStatus, T \in SUBSET Stamp :
              SetStatus(o, s, T) /\ Milestones(s, calls) \subseteq T
    <3>1. CASE auto
      <4>1. SetStatus(o, "ACCEPTED", {"acceptedAt"})
        BY <1>2, <2>1, <3>1 DEF CreateOrder, SetStatus
      <4> QED  BY <4>1 DEF Milestones, OrderStatus, Stamp
    <3>2. CASE ~auto
      <4>1. SetStatus(o, "PENDING", {})
        BY <1>2, <2>1, <3>2 DEF CreateOrder, SetStatus
      <4> QED  BY <4>1 DEF Milestones, OrderStatus, Stamp
    <3> QED  BY <3>1, <3>2
  <2>4. /\ status' \in [Orders -> OrderStatus \cup {None}]
        /\ stamps' \in [Orders -> SUBSET Stamp]
        /\ \A p \in Orders : stamps[p] \subseteq stamps'[p]
        /\ FreshUnstamped'
        /\ MilestonesStamped'
    BY <2>1, <2>3, SetStatusStamped
  <2> QED  BY <1>1, <2>1, <2>2, <2>4 DEF Kept, IInv, TypeOK
<1>3. ASSUME NEW o \in Orders, NEW i \in Items, NEW k \in KitchenStatus,
             UpdateKitchenStatus(o, i, k)
      PROVE  Kept
  <2>1. /\ UNCHANGED <<orderRow, voided, calls, req>>
        /\ kitchen' \in [Orders -> [Items -> KitchenStatus \cup {None}]]
    BY <1>3 DEF UpdateKitchenStatus, IInv, TypeOK
  <2> QED  BY <1>1, <2>1, KeepsOrderRow DEF Kept, IInv, TypeOK
<1>4. ASSUME NEW o \in Orders, Acknowledge(o) \/ BumpServed(o)
      PROVE  Kept
  <2>1. UNCHANGED <<orderRow, voided, calls, req>>
    BY <1>4 DEF Acknowledge, BumpServed
  <2>2. kitchen' \in [Orders -> [Items -> KitchenStatus \cup {None}]]
    BY <1>4, SetItemsType DEF Acknowledge, BumpServed, KitchenStatus
  <2> QED  BY <1>1, <2>1, <2>2, KeepsOrderRow DEF Kept, IInv, TypeOK
<1>5. ASSUME NEW o \in Orders, ConfirmOnline(o)
      PROVE  Kept
  <2>1. /\ SetStatus(o, "ACCEPTED", {"acceptedAt"})
        /\ UNCHANGED <<deductions, itemRows, calls, req>>
    BY <1>5 DEF ConfirmOnline
  <2>2. /\ Milestones("ACCEPTED", calls) \subseteq {"acceptedAt"}
        /\ "ACCEPTED" \in OrderStatus /\ {"acceptedAt"} \subseteq Stamp
    BY DEF Milestones, OrderStatus, Stamp
  <2>3. /\ status' \in [Orders -> OrderStatus \cup {None}]
        /\ stamps' \in [Orders -> SUBSET Stamp]
        /\ \A p \in Orders : stamps[p] \subseteq stamps'[p]
        /\ FreshUnstamped'
        /\ MilestonesStamped'
    BY <2>1, <2>2, SetStatusStamped
  <2> QED  BY <1>1, <2>1, <2>3, KeepsItemRows DEF Kept, IInv, TypeOK
<1>6. ASSUME NEW S \in SUBSET Orders, ForceClose(S)
      PROVE  Kept
  <2>1. /\ UNCHANGED <<stamps, deductions, itemRows, calls, req>>
        /\ \A o \in Orders : status'[o] = IF o \in S /\ Exists(o) /\ status[o] \notin Closed
                                         THEN "CANCELLED" ELSE status[o]
        /\ status' \in [Orders -> OrderStatus \cup {None}]
    BY <1>6 DEF ForceClose, IInv, TypeOK, OrderStatus
  <2>2. Milestones("CANCELLED", calls) = {}
    BY DEF Milestones
  <2>3. MilestonesStamped'
    BY <2>1, <2>2 DEF MilestonesStamped, IInv
  <2>4. FreshUnstamped'
    BY <2>1, NoneAssumption DEF FreshUnstamped, IInv, OrderStatus
  <2> QED  BY <1>1, <2>1, <2>3, <2>4, KeepsItemRows DEF Kept, IInv, TypeOK
<1> QED  BY <1>2, <1>3, <1>4, <1>5, <1>6 DEF Immediate

\* Every further statement of a call in flight keeps the invariant.
LEMMA ProceedKeeps ==
    ASSUME IInv, NEW r \in Requests, Proceed(r)
    PROVE  Kept
<1> DEFINE at == req[r].at
           o == req[r].order
<1>1. /\ req[r] \in Request
      /\ at \notin {"idle", "acceptLoop"} => o \in Orders
      /\ at \in ItemSteps => req[r].item \in Items
  BY DEF IInv, TypeOK, InFlightSound, Sound
\* The statements that write the order row.
<1>2. ASSUME NEW p \in Orders, NEW s \in OrderStatus, NEW T \in SUBSET Stamp,
             SetStatus(p, s, T), Milestones(s, calls) \subseteq stamps[p] \cup T,
             UNCHANGED itemRows, deductions' \in [Orders -> 0..MaxDeductions],
             \/ Finish(r)
             \/ \E q \in Request : Sound(q) /\ Go(r, q)
      PROVE  Kept
  <2>1. /\ status' \in [Orders -> OrderStatus \cup {None}]
        /\ stamps' \in [Orders -> SUBSET Stamp]
        /\ \A x \in Orders : stamps[x] \subseteq stamps'[x]
        /\ FreshUnstamped'
        /\ MilestonesStamped'
    BY <1>2, SetStatusStamped DEF Finish, Go
  <2>2. InFlightKept
    BY <1>2, <2>1, SoundStep, FinishSound DEF IInv
  <2> QED  BY <1>2, <2>1, <2>2, KeepsItemRows DEF Kept
<1>3. CASE UpdateStatusWrite(r)
  <2> DEFINE s == req[r].to
  <2>1. /\ o \in Orders
        /\ <<req[r].seen, s>> \in AllowedTransitions
        /\ Milestones(req[r].seen, calls) \subseteq stamps[o]
    BY <1>1, <1>3 DEF UpdateStatusWrite, IInv, InFlightSound, Sound
  <2>2. s \in OrderStatus /\ Milestones(s, calls) \subseteq stamps[o] \cup StampOf(s)
    BY <2>1, TransitionStamps
  <2>3. StampOf(s) \subseteq Stamp  BY DEF StampOf
  <2>4. SetStatus(o, s, StampOf(s)) /\ UNCHANGED itemRows /\ Finish(r)
    BY <1>3 DEF UpdateStatusWrite
  <2>5. deductions' \in [Orders -> 0..MaxDeductions]
    <3>1. deductions' = [deductions EXCEPT ![o] =
                           IF s = "COMPLETED" /\ deductions[o] < MaxDeductions
                           THEN deductions[o] + 1 ELSE deductions[o]]
      BY <1>3 DEF UpdateStatusWrite
    <3>2. deductions[o] \in 0..MaxDeductions  BY <2>1 DEF IInv, TypeOK
    <3>3. (IF s = "COMPLETED" /\ deductions[o] < MaxDeductions
           THEN deductions[o] + 1 ELSE deductions[o]) \in 0..MaxDeductions
      BY <3>2, MaxDeductionsAssumption
    <3> QED  BY <3>1, <3>3 DEF IInv, TypeOK
  <2> HIDE DEF o, s
  <2> QED  BY <1>2, <2>1, <2>2, <2>3, <2>4, <2>5
<1>4. CASE \/ CancelWrite(r) \/ RejectWrite(r) \/ StartAccept(r) \/ AutoBumpWrite(r)
           \/ PayWrite(r) \/ ConfirmCodWrite(r)
  <2>1. /\ o \in Orders
        /\ Finish(r) /\ UNCHANGED <<deductions, itemRows>>
    BY <1>1, <1>4 DEF CancelWrite, RejectWrite, StartAccept, AutoBumpWrite, PayWrite,
       ConfirmCodWrite
  <2>2. PICK s \in OrderStatus, T \in SUBSET Stamp :
              SetStatus(o, s, T) /\ Milestones(s, calls) \subseteq T
    <3>0. /\ PayWrite(r) => Milestones("COMPLETED", calls) \subseteq {"completedAt"}
          /\ ConfirmCodWrite(r) => Milestones("COMPLETED", calls) = {}
      <4>1. PayWrite(r) => "pay" \in calls
        BY <1>1 DEF PayWrite, IInv, InFlightSound, Sound
      <4>2. ConfirmCodWrite(r) => "confirmCod" \in calls
        BY <1>1 DEF ConfirmCodWrite, IInv, InFlightSound, Sound
      <4> QED  BY <4>1, <4>2 DEF Milestones, PaidHandlers, Stamp
    <3>1. /\ Milestones("CANCELLED", calls) = {}
          /\ Milestones("ACCEPTED", calls) \subseteq {"acceptedAt"}
          /\ Milestones("READY", calls) \subseteq {"readyAt"}
      BY DEF Milestones
    <3>2. /\ {"CANCELLED", "ACCEPTED", "READY", "COMPLETED"} \subseteq OrderStatus
          /\ {"cancelledAt", "acceptedAt", "readyAt", "completedAt"} \subseteq Stamp
      BY DEF OrderStatus, Stamp
    <3>3. \/ SetStatus(o, "CANCELLED", {"cancelledAt"})
          \/ SetStatus(o, "CANCELLED", {})
          \/ SetStatus(o, "ACCEPTED", {"acceptedAt"})
          \/ SetStatus(o, "READY", {"readyAt"})
          \/ SetStatus(o, "COMPLETED", {"completedAt"}) /\ PayWrite(r)
          \/ SetStatus(o, "COMPLETED", {}) /\ ConfirmCodWrite(r)
      BY <1>4 DEF CancelWrite, RejectWrite, StartAccept, AutoBumpWrite, PayWrite,
         ConfirmCodWrite
    <3> HIDE DEF o
    <3> QED  BY <3>0, <3>1, <3>2, <3>3
  <2>3. deductions' \in [Orders -> 0..MaxDeductions] /\ UNCHANGED itemRows
    BY <2>1 DEF IInv, TypeOK
  <2> HIDE DEF o
  <2> QED  BY <1>2, <2>1, <2>2, <2>3
<1>5. CASE \E p \in Orders : AutoAcceptWrite(r, p)
  <2>1. PICK p \in Orders : AutoAcceptWrite(r, p)  BY <1>5
  <2>2. /\ SetStatus(p, "ACCEPTED", {"acceptedAt"})
        /\ UNCHANGED <<deductions, itemRows>>
        /\ NextOfBatch(r, p)
    BY <2>1 DEF AutoAcceptWrite
  <2>3. \/ Finish(r)
        \/ \E q \in Request : Sound(q) /\ Go(r, q)
    <3> DEFINE q == [req[r] EXCEPT !.batch = req[r].batch \ {p}]
    <3>1. q \in Request /\ q.at = "acceptLoop"
      BY <1>1, <2>2 DEF Request, NextOfBatch
    <3>2. Sound(q)  BY <3>1 DEF Sound, ItemSteps
    <3> QED  BY <2>2, <3>1, <3>2 DEF NextOfBatch, Finish
  <2>4. /\ Milestones("ACCEPTED", calls) \subseteq {"acceptedAt"}
        /\ "ACCEPTED" \in OrderStatus /\ {"acceptedAt"} \subseteq Stamp
    BY DEF Milestones, OrderStatus, Stamp
  <2>5. deductions' \in [Orders -> 0..MaxDeductions] /\ UNCHANGED itemRows
    BY <2>2 DEF IInv, TypeOK
  <2> QED  BY <1>2, <2>2, <2>3, <2>4, <2>5
\* The statements that only read.
<1>6. CASE VoidReadItem(r) \/ ItemReadyCount(r) \/ AutoBumpRead(r)
  <2>1. UNCHANGED orderRow /\ UNCHANGED itemRows /\ o \in Orders
    BY <1>1, <1>6 DEF VoidReadItem, ItemReadyCount, AutoBumpRead
  <2>2. \/ Finish(r) \/ Continue(r, "bumpRead") \/ Continue(r, "bumpWrite")
        \/ Continue(r, "voidWrite") /\ req[r].item \in Items
    BY <1>1, <1>6 DEF VoidReadItem, ItemReadyCount, AutoBumpRead, ItemSteps
  <2>3. UNCHANGED stamps  BY <2>1 DEF orderRow
  <2>4. InFlightKept
    BY <2>1, <2>2, <2>3, ContinueSound, FinishSound DEF Step, ItemSteps
  <2> QED  BY <2>1, <2>4, KeepsOrderRow, KeepsItemRows DEF Kept, InFlightKept
\* The statements that write items.
<1>7. CASE \/ VoidWrite(r) \/ AddItemsWrite(r) \/ ItemServedWrite(r)
           \/ StartItems(r) \/ ItemReadyWrite(r) \/ BumpReadyItems(r)
  <2>1. UNCHANGED orderRow /\ o \in Orders
    BY <1>1, <1>7 DEF VoidWrite, AddItemsWrite, ItemServedWrite, StartItems,
       ItemReadyWrite, BumpReadyItems
  <2>2. kitchen' \in [Orders -> [Items -> KitchenStatus \cup {None}]]
    <3>1. CASE StartItems(r) \/ BumpReadyItems(r)
      BY <2>1, <3>1, SetItemsType DEF StartItems, BumpReadyItems, KitchenStatus
    <3>2. CASE \/ VoidWrite(r) \/ AddItemsWrite(r)
               \/ ItemServedWrite(r) \/ ItemReadyWrite(r)
      <4>1. PICK k \in KitchenStatus :
                  kitchen' = [kitchen EXCEPT ![o][req[r].item] = k]
        BY <3>2 DEF VoidWrite, AddItemsWrite, ItemServedWrite, ItemReadyWrite,
           NewItem, KitchenStatus
      <4> QED  BY <2>1, <4>1 DEF IInv, TypeOK
    <3> QED  BY <1>7, <3>1, <3>2
  <2>3. voided' \in [Orders -> SUBSET Items]
    BY <1>1, <1>7 DEF VoidWrite, AddItemsWrite, ItemServedWrite, StartItems,
       ItemReadyWrite, BumpReadyItems, ItemSteps, IInv, TypeOK
  <2>4. \/ Finish(r) \/ Continue(r, "startAccept")
        \/ Continue(r, "readyCount") \/ Continue(r, "bumpRead")
    BY <1>7 DEF VoidWrite, AddItemsWrite, ItemServedWrite, StartItems,
       ItemReadyWrite, BumpReadyItems
  <2>5. UNCHANGED stamps  BY <2>1 DEF orderRow
  <2>6. InFlightKept
    BY <2>1, <2>4, <2>5, ContinueSound, FinishSound DEF Step, ItemSteps
  <2> QED  BY <2>1, <2>2, <2>3, <2>6, KeepsOrderRow DEF Kept, InFlightKept
<1> QED  BY <1>3, <1>4, <1>5, <1>6, <1>7 DEF Proceed

\* A failure, or an order the cron job skips, only ends a request's work on it.
LEMMA FailKeeps ==
    ASSUME IInv, NEW r \in Requests,
           Fail(r) \/ \E o \in Orders : AutoAcceptSkip(r, o)
    PROVE  Kept
<1>1. UNCHANGED orderRow /\ UNCHANGED itemRows
  BY DEF Fail, AutoAcceptSkip
<1>2. UNCHANGED stamps  BY <1>1 DEF orderRow
<1>3. CASE Fail(r)
  BY <1>1, <1>2, <1>3, FinishSound, KeepsOrderRow, KeepsItemRows DEF Fail, Kept, InFlightKept
<1>4. CASE \E o \in Orders : AutoAcceptSkip(r, o)
  <2>1. PICK o \in Orders : NextOfBatch(r, o)  BY <1>4 DEF AutoAcceptSkip
  <2> DEFINE q == [req[r] EXCEPT !.batch = req[r].batch \ {o}]
  <2>2. req[r] \in Request /\ req[r].at = "acceptLoop"
    BY <2>1 DEF IInv, TypeOK, NextOfBatch
  <2>3. q \in Request /\ q.at = "acceptLoop"
    BY <2>2 DEF Request
  <2>4. Sound(q)  BY <2>3 DEF Sound, ItemSteps
  <2>5. Finish(r) \/ Go(r, q)
    BY <2>1 DEF NextOfBatch, Finish
  <2> HIDE DEF q
  <2>6. InFlightKept
    BY <1>2, <2>3, <2>4, <2>5, FinishSound, SoundStep DEF IInv
  <2> QED  BY <1>1, <2>6, KeepsOrderRow, KeepsItemRows DEF Kept, InFlightKept
<1> QED  BY <1>3, <1>4

LEMMA InitIInv == Init => IInv
<1> SUFFICES ASSUME Init PROVE IInv  OBVIOUS
<1>1. NoRequest \in Request /\ Sound(NoRequest)
  BY DEF NoRequest, Request, Step, Sound, ItemSteps
<1>2. TypeOK  BY <1>1, MaxDeductionsAssumption DEF Init, TypeOK
<1>3. InFlightSound  BY <1>1 DEF Init, InFlightSound
<1>4. FreshUnstamped  BY DEF Init, FreshUnstamped
<1>5. MilestonesStamped
  <2>1. Milestones(None, calls) = {}  BY NoneAssumption DEF Milestones, OrderStatus
  <2> QED  BY <2>1 DEF Init, MilestonesStamped
<1> QED  BY <1>2, <1>3, <1>4, <1>5 DEF IInv

LEMMA NextIInv == IInv /\ [Next]_vars => IInv'
<1> SUFFICES ASSUME IInv, [Next]_vars PROVE IInv'  OBVIOUS
<1>1. ASSUME Kept PROVE IInv'
  BY <1>1 DEF Kept, InFlightKept, IInv, TypeOK
<1>2. CASE Immediate  BY <1>1, <1>2, ImmediateKeeps
<1>3. ASSUME NEW r \in Requests, Arrive(r) \/ Proceed(r) \/ Fail(r)
      PROVE  IInv'
  BY <1>1, <1>3, ArriveKeeps, ProceedKeeps, FailKeeps
<1>4. ASSUME NEW r \in Requests, NEW o \in Orders, AutoAcceptSkip(r, o)
      PROVE  IInv'
  BY <1>1, <1>4, FailKeeps
<1>5. CASE UNCHANGED vars
  BY <1>5 DEF vars, IInv, TypeOK, InFlightSound, Sound, FreshUnstamped,
     MilestonesStamped
<1> QED  BY <1>2, <1>3, <1>4, <1>5 DEF Next

\* The strengthening is an invariant of the order lifecycle.
THEOREM Invariance == Spec => []IInv
<1> QED  BY InitIInv, NextIInv, PTL DEF Spec

\* Type correctness of the order lifecycle.
THEOREM TypeCorrect == Spec => []TypeOK
<1>1. IInv => TypeOK  BY DEF IInv
<1> QED  BY <1>1, Invariance, PTL

\* The timestamps of every order explain its status, for any number of
\* concurrent requests of any kind and any failures.
THEOREM StampsExplainStatus == Spec => []MilestonesStamped
<1>1. IInv => MilestonesStamped  BY DEF IInv
<1> QED  BY <1>1, Invariance, PTL

-----------------------------------------------------------------------------
(* Cooking                                                                 *)

\* Neither single items are updated nor does anything fail.
Steady == calls \cap {"setKitchen", "fail"} = {}

\* No order becomes PENDING again, so that a request that saw an order which was
\* not PENDING need not accept it.
SeesPending(r) ==
    req[r].at = "startItems" =>
        /\ Exists(req[r].order)
        /\ status[req[r].order] = "PENDING" => req[r].seen = "PENDING"

CookInv == CookingAccepted /\ (Steady => \A r \in Requests : SeesPending(r))

\* What a step does to the orders: none goes away or becomes PENDING, but for new
\* ones, of which nothing cooks.
StatusPasses ==
    \A o \in Orders :
        /\ Exists(o) => Exists(o)'
        /\ status'[o] = "PENDING" /\ status[o] # "PENDING"
              => ~Exists(o) /\ ~Some(o, {"PREPARING"})'

\* What a step does to the kitchen: nothing starts to cook.
NothingStarts ==
    \A o \in Orders : Some(o, {"PREPARING"})' => Some(o, {"PREPARING"})

LEMMA CallsStay ==
    ASSUME Next PROVE calls' = calls
<1>1. ASSUME NEW r \in Requests, NEW new, Go(r, new) PROVE calls' = calls
  BY <1>1 DEF Go
<1>2. CASE Immediate
  BY <1>2 DEF Immediate, CreateOrder, UpdateKitchenStatus, Acknowledge, BumpServed,
     ConfirmOnline, ForceClose
<1>3. ASSUME NEW r \in Requests, Arrive(r) PROVE calls' = calls
  BY <1>1, <1>3 DEF Arrive, UpdateStatusRead, CancelRead, RejectRead, AutoAcceptRead,
     VoidRead, AddItemsRead, StartRead, ItemReadyRead, BumpReadyEnter, ItemServedRead,
     PayRead, ConfirmCodRead,
     Enter
<1>4. ASSUME NEW r \in Requests, Proceed(r) \/ Fail(r) \/ \E o \in Orders : AutoAcceptSkip(r, o)
      PROVE  calls' = calls
  BY <1>1, <1>4 DEF Proceed, Fail, AutoAcceptSkip, UpdateStatusWrite, CancelWrite,
     RejectWrite, AutoAcceptWrite, NextOfBatch, VoidReadItem, VoidWrite, AddItemsWrite,
     StartItems, StartAccept, ItemReadyWrite, ItemReadyCount, BumpReadyItems, AutoBumpRead,
     AutoBumpWrite, ItemServedWrite, PayWrite, ConfirmCodWrite, Finish, Continue
<1> QED  BY <1>2, <1>3, <1>4 DEF Next

LEMMA SomePreparing ==
    ASSUME NEW o \in Orders
    PROVE  Some(o, {"PREPARING"}) <=>
              \E i \in Items : kitchen[o][i] = "PREPARING" /\ i \notin voided[o]
BY NoneAssumption DEF Some, Live, KitchenStatus

LEMMA PlainWrite ==
    ASSUME TypeOK, NEW o \in Orders, NEW i \in Items, NEW k, k # "PREPARING",
           kitchen' = [kitchen EXCEPT ![o][i] = k],
           \A p \in Orders : voided[p] \subseteq voided'[p]
    PROVE  NothingStarts
<1> SUFFICES ASSUME NEW p \in Orders, Some(p, {"PREPARING"})' PROVE Some(p, {"PREPARING"})
  BY DEF NothingStarts
<1>1. PICK j \in Items : kitchen'[p][j] = "PREPARING" /\ j \notin voided'[p]
  BY NoneAssumption DEF Some, Live, KitchenStatus
<1>2. kitchen[p][j] = "PREPARING" /\ j \notin voided[p]
  BY <1>1 DEF TypeOK
<1> QED  BY <1>2, SomePreparing

LEMMA ItemsWrite ==
    ASSUME TypeOK, NEW o \in Orders, NEW from, NEW to, to # "PREPARING",
           SetItems(o, from, to), UNCHANGED voided
    PROVE  NothingStarts
<1> SUFFICES ASSUME NEW p \in Orders, Some(p, {"PREPARING"})' PROVE Some(p, {"PREPARING"})
  BY DEF NothingStarts
<1>1. PICK j \in Items : kitchen'[p][j] = "PREPARING" /\ j \notin voided'[p]
  BY NoneAssumption DEF Some, Live, KitchenStatus
<1>2. kitchen[p][j] = "PREPARING" /\ j \notin voided[p]
  BY <1>1 DEF TypeOK, SetItems
<1> QED  BY <1>2, SomePreparing

\* No step but startOrder's makes an item cook.
LEMMA OnlyStartCooks ==
    ASSUME IInv, Steady, Next, NEW o \in Orders,
           Some(o, {"PREPARING"})', ~Some(o, {"PREPARING"})
    PROVE  \E r \in Requests : StartItems(r) /\ o = req[r].order
<1>1. UNCHANGED itemRows => FALSE
  BY DEF itemRows, Some, Live
<1>2. NothingStarts => FALSE
  BY DEF NothingStarts
<1>3. CASE Immediate
  <2>1. ASSUME NEW p \in Orders, NEW auto \in BOOLEAN, NEW S \in SUBSET Items,
               CreateOrder(p, auto, S)
        PROVE  FALSE
    <3>1. PICK i \in Items : kitchen'[o][i] = "PREPARING" /\ i \notin voided'[o]
      BY NoneAssumption DEF Some, Live, KitchenStatus
    <3>2. kitchen[o][i] = "PREPARING" /\ i \notin voided[o]
      BY <2>1, <3>1, NoneAssumption DEF CreateOrder, NewItem, IInv, TypeOK, KitchenStatus
    <3> QED  BY <3>2, SomePreparing
  <2>2. ASSUME NEW p \in Orders, Acknowledge(p) \/ BumpServed(p)
        PROVE  FALSE
    BY <1>2, <2>2, ItemsWrite DEF Acknowledge, BumpServed, IInv
  <2>3. ~Called("setKitchen")
    BY DEF Called, Steady
  <2> QED
    BY <1>1, <1>3, <2>1, <2>2, <2>3 DEF Immediate, UpdateKitchenStatus, ConfirmOnline,
       ForceClose
<1>4. ASSUME NEW r \in Requests, Arrive(r) \/ Fail(r)
      PROVE  FALSE
  BY <1>1, <1>4 DEF Arrive, Fail, UpdateStatusRead, CancelRead, RejectRead,
     AutoAcceptRead, VoidRead, AddItemsRead, StartRead, ItemReadyRead, BumpReadyEnter,
     ItemServedRead, PayRead, ConfirmCodRead
<1>5. ASSUME NEW r \in Requests, Proceed(r)
      PROVE  StartItems(r) /\ o = req[r].order
  <2>1. /\ req[r].at \notin {"idle", "acceptLoop"} => req[r].order \in Orders
        /\ req[r].at \in ItemSteps => req[r].item \in Items
    BY DEF IInv, InFlightSound, Sound
  <2>2. CASE VoidWrite(r)
    BY <1>2, <2>1, <2>2, PlainWrite DEF VoidWrite, ItemSteps, IInv, TypeOK
  <2>3. CASE AddItemsWrite(r) \/ ItemServedWrite(r)
    BY <1>2, <2>1, <2>3, PlainWrite DEF AddItemsWrite, ItemServedWrite, NewItem,
       ItemSteps, IInv
  <2>4. CASE ItemReadyWrite(r)
    BY <1>2, <2>1, <2>4, PlainWrite DEF ItemReadyWrite, ItemSteps, IInv
  <2>5. CASE BumpReadyItems(r)
    BY <1>2, <2>1, <2>5, ItemsWrite DEF BumpReadyItems, IInv
  <2>6. CASE StartItems(r)
    <3>1. PICK i \in Items : kitchen'[o][i] = "PREPARING" /\ i \notin voided'[o]
      BY NoneAssumption DEF Some, Live, KitchenStatus
    <3>2. o # req[r].order => kitchen'[o] = kitchen[o] /\ UNCHANGED voided
      BY <2>6 DEF StartItems, SetItems, IInv, TypeOK
    <3> QED  BY <2>6, <3>1, <3>2, SomePreparing
  <2> QED
    BY <1>1, <1>5, <2>2, <2>3, <2>4, <2>5, <2>6 DEF Proceed, UpdateStatusWrite,
       CancelWrite, RejectWrite, AutoAcceptWrite, VoidReadItem, StartAccept,
       ItemReadyCount, AutoBumpRead, AutoBumpWrite, PayWrite, ConfirmCodWrite
<1>6. ASSUME NEW r \in Requests, NEW p \in Orders, AutoAcceptSkip(r, p)
      PROVE  FALSE
  BY <1>1, <1>6 DEF AutoAcceptSkip
<1> QED  BY <1>3, <1>4, <1>5, <1>6 DEF Next

LEMMA SetStatusPasses ==
    ASSUME TypeOK, NEW o \in Orders, NEW s \in OrderStatus \ {"PENDING"}, NEW T,
           SetStatus(o, s, T)
    PROVE  StatusPasses
BY NoneAssumption DEF TypeOK, SetStatus, StatusPasses, Exists

LEMMA NextPasses ==
    ASSUME IInv, Next
    PROVE  StatusPasses
<1>1. ASSUME UNCHANGED status PROVE StatusPasses
  BY <1>1 DEF StatusPasses, Exists
<1>2. CASE Immediate
  <2>1. ASSUME NEW o \in Orders, NEW auto \in BOOLEAN, NEW S \in SUBSET Items,
               CreateOrder(o, auto, S)
        PROVE  StatusPasses
    <3>1. \A p \in Orders : p # o => status'[p] = status[p]
      BY <2>1 DEF CreateOrder, IInv, TypeOK
    <3>2. /\ ~Exists(o) /\ Exists(o)'
      BY <2>1, NoneAssumption DEF CreateOrder, Exists, IInv, TypeOK, OrderStatus
    <3>3. ~Some(o, {"PREPARING"})'
      BY <2>1, NoneAssumption DEF CreateOrder, NewItem, Some, Live, KitchenStatus, IInv, TypeOK
    <3> QED  BY <3>1, <3>2, <3>3 DEF StatusPasses, Exists
  <2>2. ASSUME NEW o \in Orders, ConfirmOnline(o)
        PROVE  StatusPasses
    BY <2>2, SetStatusPasses DEF ConfirmOnline, OrderStatus, IInv
  <2>3. ASSUME NEW S \in SUBSET Orders, ForceClose(S)
        PROVE  StatusPasses
    BY <2>3, NoneAssumption DEF ForceClose, StatusPasses, Exists, OrderStatus
  <2> QED  BY <1>1, <1>2, <2>1, <2>2, <2>3 DEF Immediate, UpdateKitchenStatus, Acknowledge,
              BumpServed, orderRow
<1>3. ASSUME NEW r \in Requests, Arrive(r) \/ Fail(r)
      PROVE  StatusPasses
  BY <1>1, <1>3 DEF Arrive, Fail, UpdateStatusRead, CancelRead, RejectRead,
     AutoAcceptRead, VoidRead, AddItemsRead, StartRead, ItemReadyRead, BumpReadyEnter,
     ItemServedRead, PayRead, ConfirmCodRead, orderRow
<1>4. ASSUME NEW r \in Requests, Proceed(r)
      PROVE  StatusPasses
  <2>1. req[r].at \notin {"idle", "acceptLoop"} => req[r].order \in Orders
    BY DEF IInv, InFlightSound, Sound
  <2>2. CASE UpdateStatusWrite(r)
    <3>1. <<req[r].seen, req[r].to>> \in AllowedTransitions
      BY <2>2 DEF UpdateStatusWrite, IInv, InFlightSound, Sound
    <3>2. req[r].to \in OrderStatus \ {"PENDING"}
      BY <3>1 DEF AllowedTransitions, OrderStatus
    <3> QED  BY <2>1, <2>2, <3>2, SetStatusPasses DEF UpdateStatusWrite, IInv
  <2>3. CASE \/ CancelWrite(r) \/ RejectWrite(r) \/ StartAccept(r) \/ AutoBumpWrite(r)
             \/ PayWrite(r) \/ ConfirmCodWrite(r)
    BY <2>1, <2>3, SetStatusPasses DEF CancelWrite, RejectWrite, StartAccept,
       AutoBumpWrite, PayWrite, ConfirmCodWrite, OrderStatus, IInv
  <2>4. ASSUME NEW o \in Orders, AutoAcceptWrite(r, o)
        PROVE  StatusPasses
    BY <2>4, SetStatusPasses DEF AutoAcceptWrite, OrderStatus, IInv
  <2> QED
    BY <1>1, <1>4, <2>2, <2>3, <2>4 DEF Proceed, VoidReadItem, VoidWrite, AddItemsWrite,
       StartItems, ItemReadyWrite, ItemReadyCount, BumpReadyItems, AutoBumpRead,
       ItemServedWrite, orderRow
<1>5. ASSUME NEW r \in Requests, NEW o \in Orders, AutoAcceptSkip(r, o)
      PROVE  StatusPasses
  BY <1>1, <1>5 DEF AutoAcceptSkip, orderRow
<1> QED  BY <1>2, <1>3, <1>4, <1>5 DEF Next

\* A request that is about to accept an order does so.
LEMMA AcceptsStay ==
    ASSUME IInv, Steady, Next, NEW q \in Requests, NEW o \in Orders,
           InFlight(q, "startAccept", o), status'[o] = "PENDING"
    PROVE  InFlight(q, "startAccept", o)'
<1>1. UNCHANGED req => InFlight(q, "startAccept", o)'
  BY DEF InFlight
<1>2. ASSUME NEW r \in Requests, NEW new, Go(r, new), r # q
      PROVE  InFlight(q, "startAccept", o)'
  BY <1>2 DEF Go, InFlight, IInv, TypeOK
<1>3. CASE Immediate
  BY <1>1, <1>3 DEF Immediate, CreateOrder, UpdateKitchenStatus, Acknowledge, BumpServed,
     ConfirmOnline, ForceClose
<1>4. ASSUME NEW r \in Requests, Arrive(r)
      PROVE  InFlight(q, "startAccept", o)'
  <2>1. Idle(r)
    BY <1>4 DEF Arrive, UpdateStatusRead, CancelRead, RejectRead, AutoAcceptRead,
       VoidRead, AddItemsRead, StartRead, ItemReadyRead, BumpReadyEnter, ItemServedRead,
     PayRead, ConfirmCodRead
  <2>2. r # q
    BY <2>1 DEF Idle, InFlight
  <2>3. \E new : Go(r, new)
    BY <1>4 DEF Arrive, UpdateStatusRead, CancelRead, RejectRead, AutoAcceptRead,
       VoidRead, AddItemsRead, StartRead, ItemReadyRead, BumpReadyEnter, ItemServedRead,
     PayRead, ConfirmCodRead,
       Enter
  <2> QED  BY <1>2, <2>2, <2>3
<1>5. ASSUME NEW r \in Requests, Proceed(r)
      PROVE  InFlight(q, "startAccept", o)'
  <2>1. CASE StartAccept(r)
    <3>1. r # q
      BY <2>1 DEF StartAccept, SetStatus, InFlight, IInv, TypeOK
    <3> QED  BY <1>2, <2>1, <3>1 DEF StartAccept, Finish
  <2>2. CASE ~StartAccept(r)
    <3>1. req[r].at # "startAccept" /\ \E new : Go(r, new)
      BY <1>5, <2>2 DEF Proceed, UpdateStatusWrite, CancelWrite, RejectWrite,
         AutoAcceptWrite, NextOfBatch, VoidReadItem, VoidWrite, AddItemsWrite, StartItems,
         ItemReadyWrite, ItemReadyCount, BumpReadyItems, AutoBumpRead, AutoBumpWrite,
         ItemServedWrite, PayWrite, ConfirmCodWrite, Finish, Continue
    <3>2. r # q
      BY <3>1 DEF InFlight
    <3> QED  BY <1>2, <3>1, <3>2
  <2> QED  BY <2>1, <2>2
<1>6. ASSUME NEW r \in Requests, NEW p \in Orders, Fail(r) \/ AutoAcceptSkip(r, p)
      PROVE  FALSE
  BY <1>6 DEF Fail, AutoAcceptSkip, Steady
<1> QED  BY <1>3, <1>4, <1>5, <1>6 DEF Next

\* A request is on its way to startOrder's first write with what it saw.
LEMMA StartersSee ==
    ASSUME IInv, Next, \A r \in Requests : SeesPending(r), NEW q \in Requests
    PROVE  SeesPending(q)'
<1>1. StatusPasses
  BY NextPasses
<1>2. ASSUME req'[q] = req[q] PROVE SeesPending(q)'
  BY <1>1, <1>2 DEF SeesPending, StatusPasses, IInv, InFlightSound, Sound
<1>3. ASSUME NEW r \in Requests, NEW new, Go(r, new), new.at # "startItems"
      PROVE  SeesPending(q)'
  <2>1. req'[q] = IF q = r THEN new ELSE req[q]
    BY <1>3 DEF Go, IInv, TypeOK
  <2> QED  BY <1>2, <1>3, <2>1 DEF SeesPending
<1>4. CASE Immediate
  BY <1>2, <1>4 DEF Immediate, CreateOrder, UpdateKitchenStatus, Acknowledge, BumpServed,
     ConfirmOnline, ForceClose
<1>5. ASSUME NEW r \in Requests, NEW o \in Orders, StartRead(r, o)
      PROVE  SeesPending(q)'
  <2>1. req'[q] = IF q = r THEN [NoRequest EXCEPT !.at = "startItems", !.order = o,
                                   !.item = None, !.seen = status[o], !.to = None]
                  ELSE req[q]
    BY <1>5 DEF StartRead, Enter, Go, IInv, TypeOK
  <2>2. Exists(o) /\ UNCHANGED status
    BY <1>5 DEF StartRead, orderRow
  <2> QED  BY <1>2, <2>1, <2>2 DEF SeesPending, NoRequest, Exists
<1>6. ASSUME NEW r \in Requests, Arrive(r), \A o \in Orders : ~StartRead(r, o)
      PROVE  SeesPending(q)'
  BY <1>3, <1>6 DEF Arrive, UpdateStatusRead, CancelRead, RejectRead, AutoAcceptRead,
     VoidRead, AddItemsRead, ItemReadyRead, BumpReadyEnter, ItemServedRead,
     PayRead, ConfirmCodRead, Enter, NoRequest
<1>7. ASSUME NEW r \in Requests, Proceed(r) \/ Fail(r) \/ \E o \in Orders : AutoAcceptSkip(r, o)
      PROVE  SeesPending(q)'
  <2>1. ASSUME NEW at, at # "startItems", Continue(r, at) PROVE SeesPending(q)'
    BY <1>3, <2>1 DEF Continue, IInv, TypeOK, Request
  <2>2. ASSUME Finish(r) PROVE SeesPending(q)'
    BY <1>3, <2>2 DEF Finish, NoRequest
  <2>3. ASSUME NEW o \in Orders, NextOfBatch(r, o) PROVE SeesPending(q)'
    <3> DEFINE new == IF req[r].batch = {o} THEN NoRequest
                      ELSE [req[r] EXCEPT !.batch = req[r].batch \ {o}]
    <3>1. new.at # "startItems" /\ Go(r, new)
      BY <2>3 DEF NextOfBatch, NoRequest, IInv, TypeOK, Request
    <3> HIDE DEF new
    <3> QED  BY <1>3, <3>1
  <2> QED
    BY <1>7, <2>1, <2>2, <2>3 DEF Proceed, Fail, AutoAcceptSkip, UpdateStatusWrite,
       CancelWrite, RejectWrite, AutoAcceptWrite, VoidReadItem, VoidWrite, AddItemsWrite,
       StartItems, StartAccept, ItemReadyWrite, ItemReadyCount, BumpReadyItems,
       AutoBumpRead, AutoBumpWrite, ItemServedWrite, PayWrite, ConfirmCodWrite
<1> QED  BY <1>4, <1>5, <1>6, <1>7 DEF Next

LEMMA InitCookInv == Init => CookInv
BY NoneAssumption DEF Init, CookInv, CookingAccepted, SeesPending, NoRequest, OrderStatus

LEMMA NextCookInv == IInv /\ CookInv /\ [Next]_vars => CookInv'
<1> SUFFICES ASSUME IInv, CookInv, [Next]_vars PROVE CookInv'  OBVIOUS
<1>1. CASE UNCHANGED vars
  BY <1>1 DEF vars, CookInv, CookingAccepted, SeesPending, Steady, Some, Live, InFlight, Exists
<1>2. CASE Next
  <2>1. calls' = calls
    BY <1>2, CallsStay
  <2> SUFFICES ASSUME Steady
               PROVE  /\ \A r \in Requests : SeesPending(r)'
                      /\ \A o \in Orders :
                            status'[o] = "PENDING" /\ Some(o, {"PREPARING"})' =>
                                \E r \in Requests : InFlight(r, "startAccept", o)'
    BY <2>1 DEF CookInv, CookingAccepted, Steady
  <2>2. \A r \in Requests : SeesPending(r)'
    BY <1>2, StartersSee DEF CookInv
  <2>3. ASSUME NEW o \in Orders, status'[o] = "PENDING", Some(o, {"PREPARING"})'
        PROVE  \E r \in Requests : InFlight(r, "startAccept", o)'
    <3>1. CASE ~Some(o, {"PREPARING"})
      <4>1. PICK r \in Requests : StartItems(r) /\ o = req[r].order
        BY <1>2, <2>3, <3>1, OnlyStartCooks
      <4>2. status[o] = "PENDING" /\ req[r].seen = "PENDING"
        BY <2>3, <4>1 DEF StartItems, orderRow, CookInv, SeesPending
      <4>3. Begins(o)
        <5>1. ~Begins(o) => kitchen'[o] = kitchen[o] /\ UNCHANGED voided
          BY <4>1 DEF StartItems, SetItems, Begins, Some, IInv, TypeOK
        <5> QED  BY <2>3, <3>1, <5>1 DEF Some, Live
      <4>4. Continue(r, "startAccept")
        BY <4>1, <4>2, <4>3 DEF StartItems
      <4>5. InFlight(r, "startAccept", o)'
        BY <4>1, <4>4 DEF Continue, Go, InFlight, IInv, TypeOK, Request
      <4> QED  BY <4>5
    <3>2. CASE Some(o, {"PREPARING"})
      <4>1. CASE status[o] = "PENDING"
        <5>1. PICK r \in Requests : InFlight(r, "startAccept", o)
          BY <3>2, <4>1 DEF CookInv, CookingAccepted, Steady
        <5> QED  BY <1>2, <2>3, <5>1, AcceptsStay
      <4>2. CASE status[o] # "PENDING"
        BY <1>2, <2>3, <4>2, NextPasses DEF StatusPasses
      <4> QED  BY <4>1, <4>2
    <3> QED  BY <3>1, <3>2
  <2> QED  BY <2>2, <2>3
<1> QED  BY <1>1, <1>2

\* However tablets and clerks overtake each other, nothing cooks on an order that
\* is left PENDING.
THEOREM CookedOrdersAreAccepted == Spec => []CookingAccepted
<1>1. IInv /\ CookInv => CookingAccepted  BY DEF CookInv
<1> QED  BY <1>1, InitIInv, NextIInv, InitCookInv, NextCookInv, PTL DEF Spec

-----------------------------------------------------------------------------
(* One handler at a time                                                   *)

Alone == Undisturbed

\* What a handler knows that nothing overtakes: the status it read is the one the
\* order has, and where it did not look for the status, the order is not completed.
KnowsOrder(st, q) ==
    /\ q.at = "statusWrite" => st[q.order] = q.seen
    /\ q.at = "startItems" /\ q.seen = "PENDING" => st[q.order] # "COMPLETED"
    /\ q.at \in {"cancelWrite", "rejectWrite", "startAccept", "bumpWrite"} =>
          st[q.order] # "COMPLETED"
    /\ q.at = "acceptLoop" => \A o \in q.batch : st[o] # "COMPLETED"

AloneInv ==
    Alone => /\ DeductedOnceCompleted
             /\ \A r \in Requests : KnowsOrder(status, req[r])
             /\ \A r, q \in Requests : ~Idle(r) /\ ~Idle(q) => r = q

CompletedStay ==
    Alone => \A o \in Orders : status[o] = "COMPLETED" => status'[o] = "COMPLETED"

\* A step of one handler, which gives it a new value that it knows to be true.
LEMMA TurnTaken ==
    ASSUME TypeOK, AloneInv, Alone, NEW r \in Requests, NEW q, Go(r, q), KnowsOrder(status', q),
           ~Idle(r) \/ \A p \in Requests : Idle(p),
           DeductedOnceCompleted'
    PROVE  AloneInv'
<1>1. calls' = calls /\ \A p \in Requests : req'[p] = IF p = r THEN q ELSE req[p]
  BY DEF TypeOK, Go
<1>2. \A p \in Requests : p # r => req[p].at = "idle"
  BY DEF AloneInv, Idle
<1>3. ASSUME NEW p \in Requests PROVE KnowsOrder(status', req'[p])
  <2>1. CASE p = r
    BY <1>1, <2>1 DEF KnowsOrder
  <2>2. CASE p # r
    BY <1>1, <1>2, <2>2 DEF KnowsOrder
  <2> QED  BY <2>1, <2>2
<1>4. \A p, x \in Requests : ~Idle(p)' /\ ~Idle(x)' => p = x
  BY <1>1, <1>2 DEF Idle
<1> QED  BY <1>3, <1>4 DEF AloneInv

\* A handler that writes a status to an order that is not completed.
LEMMA OtherStatus ==
    ASSUME IInv, AloneInv, Alone, NEW o \in Orders, NEW s, s # "COMPLETED", NEW T,
           SetStatus(o, s, T), status[o] # "COMPLETED", UNCHANGED <<deductions, calls>>
    PROVE  DeductedOnceCompleted' /\ CompletedStay
BY DEF SetStatus, IInv, TypeOK, AloneInv, DeductedOnceCompleted, Undisturbed, CompletedStay

LEMMA SameStatus ==
    ASSUME AloneInv, Alone, UNCHANGED <<status, deductions, calls>>
    PROVE  DeductedOnceCompleted' /\ CompletedStay
BY DEF AloneInv, DeductedOnceCompleted, Undisturbed, CompletedStay

LEMMA ArriveAlone ==
    ASSUME IInv, AloneInv, Alone, NEW r \in Requests, Arrive(r)
    PROVE  AloneInv' /\ CompletedStay
<1>1. UNCHANGED <<status, deductions, calls>> /\ \A p \in Requests : Idle(p)
  BY DEF Alone, Undisturbed, Arrive, UpdateStatusRead, CancelRead, RejectRead, AutoAcceptRead,
     VoidRead, AddItemsRead, StartRead, ItemReadyRead, BumpReadyEnter, ItemServedRead,
     PayRead, ConfirmCodRead, Enter, Go,
     Called, orderRow
<1>2. DeductedOnceCompleted' /\ CompletedStay
  BY <1>1, SameStatus
<1>3. ASSUME NEW at, NEW o \in Orders, NEW i, NEW to, Enter(r, at, o, i, to),
             at # "acceptLoop",
             at \in {"cancelWrite", "rejectWrite", "startAccept", "bumpWrite"} =>
                status[o] # "COMPLETED"
      PROVE  AloneInv'
  <2> DEFINE q == [NoRequest EXCEPT !.at = at, !.order = o, !.item = i,
                                    !.seen = status[o], !.to = to]
  <2>1. q.at = at /\ q.order = o /\ q.seen = status[o]
    BY DEF NoRequest
  <2>2. Go(r, q)
    BY <1>3 DEF Enter
  <2> HIDE DEF q
  <2>3. KnowsOrder(status', q)
    BY <1>1, <1>3, <2>1 DEF KnowsOrder
  <2> QED  BY <1>1, <1>2, <2>2, <2>3, TurnTaken DEF IInv
<1>4. ASSUME NEW batch \in SUBSET Orders, AutoAcceptRead(r, batch)
      PROVE  AloneInv'
  <2> DEFINE q == [NoRequest EXCEPT !.at = "acceptLoop", !.batch = batch]
  <2>1. q.at = "acceptLoop" /\ q.batch = batch
    BY DEF NoRequest
  <2>2. Go(r, q) /\ \A o \in batch : status[o] # "COMPLETED"
    BY <1>4 DEF AutoAcceptRead
  <2> HIDE DEF q
  <2>3. KnowsOrder(status', q)
    BY <1>1, <2>1, <2>2 DEF KnowsOrder
  <2> QED  BY <1>1, <1>2, <2>2, <2>3, TurnTaken DEF IInv
<1> QED
  BY <1>2, <1>3, <1>4 DEF Arrive, UpdateStatusRead, CancelRead, RejectRead, VoidRead,
     AddItemsRead, StartRead, ItemReadyRead, BumpReadyEnter, ItemServedRead,
     PayRead, ConfirmCodRead, Closed

LEMMA ImmediateAlone ==
    ASSUME IInv, AloneInv, Alone, Immediate
    PROVE  AloneInv' /\ CompletedStay
<1>1. ASSUME UNCHANGED <<status, deductions, calls, req>>
      PROVE  AloneInv' /\ CompletedStay
  <2>1. DeductedOnceCompleted' /\ CompletedStay
    BY <1>1, SameStatus
  <2> QED  BY <1>1, <2>1 DEF AloneInv, KnowsOrder, Idle, Alone
<1>2. ASSUME NEW o \in Orders, ConfirmOnline(o)
      PROVE  FALSE
  BY <1>2 DEF ConfirmOnline, Called, Alone, Undisturbed
<1>3. ASSUME NEW S \in SUBSET Orders, ForceClose(S)
      PROVE  AloneInv' /\ CompletedStay
  <2>1. /\ UNCHANGED <<deductions, calls, req>>
        /\ \A r \in Requests : Idle(r)
        /\ \A o \in Orders : status'[o] = IF o \in S /\ Exists(o) /\ status[o] \notin Closed
                                         THEN "CANCELLED" ELSE status[o]
    BY <1>3 DEF ForceClose, Called, Alone, Undisturbed
  <2>2. DeductedOnceCompleted' /\ CompletedStay
    BY <2>1 DEF Closed, AloneInv, DeductedOnceCompleted, Undisturbed, CompletedStay
  <2> QED  BY <2>1, <2>2 DEF AloneInv, KnowsOrder, Idle
<1>4. ASSUME NEW o \in Orders, NEW auto \in BOOLEAN, NEW S \in SUBSET Items,
             CreateOrder(o, auto, S)
      PROVE  AloneInv' /\ CompletedStay
  <2>1. /\ UNCHANGED <<deductions, calls, req>>
        /\ status[o] = None /\ status'[o] \in {"PENDING", "ACCEPTED"}
        /\ \A p \in Orders : p # o => status'[p] = status[p]
    BY <1>4 DEF CreateOrder, Exists, IInv, TypeOK
  <2>2. None \notin OrderStatus
    BY NoneAssumption
  <2>3. DeductedOnceCompleted' /\ CompletedStay
    BY <2>1, <2>2 DEF AloneInv, DeductedOnceCompleted, Undisturbed, CompletedStay, OrderStatus
  <2>4. ASSUME NEW r \in Requests PROVE KnowsOrder(status', req'[r])
    <3>1. KnowsOrder(status, req[r]) /\ Sound(req[r]) /\ req[r] \in Request
      BY DEF AloneInv, IInv, InFlightSound, TypeOK
    <3>2. req[r].at = "statusWrite" => req[r].seen # None
      BY <2>2, <3>1 DEF Sound, AllowedTransitions, OrderStatus
    <3>3. req[r].batch \subseteq Orders
      BY <3>1 DEF Request
    <3> QED  BY <2>1, <3>1, <3>2, <3>3 DEF KnowsOrder, Sound
  <2> QED  BY <2>1, <2>3, <2>4 DEF AloneInv, Idle
<1> QED
  BY <1>1, <1>2, <1>3, <1>4 DEF Immediate, UpdateKitchenStatus, Acknowledge, BumpServed,
     orderRow

LEMMA ProceedAlone ==
    ASSUME IInv, AloneInv, Alone, NEW r \in Requests,
           Proceed(r) \/ Fail(r) \/ \E o \in Orders : AutoAcceptSkip(r, o)
    PROVE  AloneInv' /\ CompletedStay
<1> DEFINE o == req[r].order
<1>1. /\ req[r] \in Request
      /\ Sound(req[r]) /\ KnowsOrder(status, req[r])
      /\ req[r].at \notin {"idle", "acceptLoop"} => o \in Orders
  BY DEF IInv, TypeOK, InFlightSound, AloneInv, Sound
<1>2. ASSUME Finish(r), ~Idle(r), DeductedOnceCompleted'
      PROVE  AloneInv'
  <2>1. KnowsOrder(status', NoRequest)
    BY DEF KnowsOrder, NoRequest
  <2> QED  BY <1>2, <2>1, TurnTaken DEF IInv, Finish
<1>3. ASSUME NEW at, Continue(r, at), ~Idle(r), UNCHANGED status,
             at \notin {"acceptLoop", "statusWrite", "startItems"},
             at \in {"cancelWrite", "rejectWrite", "startAccept", "bumpWrite"} =>
                status[o] # "COMPLETED",
             DeductedOnceCompleted'
      PROVE  AloneInv'
  <2> DEFINE q == [req[r] EXCEPT !.at = at]
  <2>1. q.at = at /\ q.order = o
    BY <1>1 DEF Request
  <2>2. Go(r, q)
    BY <1>3 DEF Continue
  <2> HIDE DEF q
  <2>3. KnowsOrder(status', q)
    BY <1>3, <2>1 DEF KnowsOrder
  <2> QED  BY <1>3, <2>2, <2>3, TurnTaken DEF IInv
<1>4. ASSUME NEW p \in Orders, NextOfBatch(r, p), DeductedOnceCompleted',
             \A x \in Orders : status[x] # "COMPLETED" => status'[x] # "COMPLETED"
      PROVE  AloneInv'
  <2> DEFINE q == [req[r] EXCEPT !.batch = req[r].batch \ {p}]
  <2>1. ~Idle(r) /\ (Finish(r) \/ Go(r, q))
    BY <1>4 DEF NextOfBatch, Finish, Idle
  <2>2. q.at = "acceptLoop" /\ q.batch \subseteq req[r].batch /\ req[r].batch \subseteq Orders
    BY <1>1, <1>4 DEF NextOfBatch, Request
  <2>3. req[r].at = "acceptLoop"
    BY <1>4 DEF NextOfBatch
  <2> HIDE DEF q
  <2>4. KnowsOrder(status', q)
    BY <1>1, <1>4, <2>2, <2>3 DEF KnowsOrder
  <2> QED  BY <1>2, <1>4, <2>1, <2>4, TurnTaken DEF IInv
<1>5. CASE UpdateStatusWrite(r)
  <2> DEFINE s == req[r].to
  <2>1. /\ o \in Orders /\ status[o] = req[r].seen
        /\ <<req[r].seen, s>> \in AllowedTransitions
        /\ Finish(r) /\ ~Idle(r) /\ UNCHANGED calls
    BY <1>1, <1>5 DEF UpdateStatusWrite, KnowsOrder, Sound, Idle, Finish, Go
  <2>2. status[o] # "COMPLETED"
    BY <2>1 DEF AllowedTransitions
  <2>3. \A p \in Orders : status'[p] = IF p = o THEN s ELSE status[p]
    BY <1>5, <2>1 DEF UpdateStatusWrite, SetStatus, IInv, TypeOK
  <2>4. \A p \in Orders : deductions'[p] =
            IF p = o /\ s = "COMPLETED" /\ deductions[o] < MaxDeductions
            THEN deductions[o] + 1 ELSE deductions[p]
    BY <1>5, <2>1 DEF UpdateStatusWrite, IInv, TypeOK
  <2>5. /\ deductions[o] \in Nat /\ deductions[o] <= 1 /\ deductions[o] # 1
        /\ \A p \in Orders : status[p] = "COMPLETED" /\ calls \cap PaidHandlers = {}
                               => deductions[p] = 1
        /\ \A p \in Orders : deductions[p] <= 1
        /\ \A p \in Orders : deductions[p] = 1 => status[p] = "COMPLETED"
    BY <2>1, <2>2 DEF AloneInv, DeductedOnceCompleted, Alone, IInv, TypeOK
  <2>6. deductions[o] = 0 /\ 0 < MaxDeductions
    BY <2>5, MaxDeductionsAssumption
  <2>7. \A p \in Orders : deductions'[p] = IF p = o /\ s = "COMPLETED" THEN 1 ELSE deductions[p]
    BY <2>4, <2>6
  <2>8. DeductedOnceCompleted' /\ CompletedStay
    <3> HIDE DEF o, s
    <3> QED  BY <2>1, <2>2, <2>3, <2>5, <2>6, <2>7 DEF DeductedOnceCompleted, CompletedStay, Alone
  <2> QED  BY <1>2, <2>1, <2>8
<1>6. CASE CancelWrite(r) \/ RejectWrite(r) \/ StartAccept(r) \/ AutoBumpWrite(r)
  <2>1. /\ o \in Orders /\ status[o] # "COMPLETED"
        /\ Finish(r) /\ ~Idle(r) /\ UNCHANGED <<deductions, calls>>
    BY <1>1, <1>6 DEF CancelWrite, RejectWrite, StartAccept, AutoBumpWrite, KnowsOrder,
       Idle, Finish, Go
  <2>2. \E s, T : s # "COMPLETED" /\ SetStatus(o, s, T)
    <3>1. \/ SetStatus(o, "CANCELLED", {"cancelledAt"})
          \/ SetStatus(o, "CANCELLED", {})
          \/ SetStatus(o, "ACCEPTED", {"acceptedAt"})
          \/ SetStatus(o, "READY", {"readyAt"})
      BY <1>6 DEF CancelWrite, RejectWrite, StartAccept, AutoBumpWrite
    <3> HIDE DEF o
    <3>2. "CANCELLED" # "COMPLETED" /\ "ACCEPTED" # "COMPLETED" /\ "READY" # "COMPLETED"
      OBVIOUS
    <3> QED  BY <3>1, <3>2
  <2>3. DeductedOnceCompleted' /\ CompletedStay
    BY <2>1, <2>2, OtherStatus
  <2> QED  BY <1>2, <2>1, <2>3
<1>7. ASSUME NEW p \in Orders, AutoAcceptWrite(r, p)
      PROVE  AloneInv' /\ CompletedStay
  <2>1. /\ SetStatus(p, "ACCEPTED", {"acceptedAt"}) /\ NextOfBatch(r, p)
        /\ UNCHANGED <<deductions, calls>>
    BY <1>7 DEF AutoAcceptWrite, NextOfBatch, Go
  <2>2. status[p] # "COMPLETED"
    BY <1>1, <2>1 DEF NextOfBatch, KnowsOrder
  <2>3. DeductedOnceCompleted' /\ CompletedStay
    BY <2>1, <2>2, OtherStatus
  <2>4. \A x \in Orders : status[x] # "COMPLETED" => status'[x] # "COMPLETED"
    BY <2>1 DEF SetStatus, IInv, TypeOK
  <2> QED  BY <1>4, <2>1, <2>3, <2>4
<1>8. ASSUME UNCHANGED orderRow, UNCHANGED calls
      PROVE  DeductedOnceCompleted' /\ CompletedStay
  BY <1>8, SameStatus DEF orderRow
<1>9. CASE StartItems(r)
  <2>1. /\ UNCHANGED orderRow /\ UNCHANGED calls /\ ~Idle(r)
        /\ Finish(r) \/ (Continue(r, "startAccept") /\ req[r].seen = "PENDING")
    BY <1>9 DEF StartItems, Finish, Continue, Go, Idle
  <2>2. req[r].seen = "PENDING" => status[o] # "COMPLETED"
    BY <1>1, <1>9 DEF StartItems, KnowsOrder
  <2> QED  BY <1>2, <1>3, <1>8, <2>1, <2>2 DEF orderRow
<1>10. CASE AutoBumpRead(r)
  <2>1. /\ UNCHANGED orderRow /\ UNCHANGED calls /\ ~Idle(r)
        /\ Finish(r) \/ (Continue(r, "bumpWrite") /\ status[o] # "COMPLETED")
    BY <1>10 DEF AutoBumpRead, Finish, Continue, Go, Idle, Bumped
  <2> QED  BY <1>2, <1>3, <1>8, <2>1 DEF orderRow
<1>11. CASE \/ VoidReadItem(r) \/ VoidWrite(r) \/ AddItemsWrite(r) \/ ItemReadyWrite(r)
            \/ ItemReadyCount(r) \/ BumpReadyItems(r) \/ ItemServedWrite(r) \/ Fail(r)
  <2>1. /\ UNCHANGED orderRow /\ UNCHANGED calls /\ ~Idle(r)
        /\ \/ Finish(r) \/ Continue(r, "voidWrite") \/ Continue(r, "readyCount")
           \/ Continue(r, "bumpRead")
    BY <1>11 DEF VoidReadItem, VoidWrite, AddItemsWrite, ItemReadyWrite, ItemReadyCount,
       BumpReadyItems, ItemServedWrite, Fail, Finish, Continue, Go, Idle
  <2> QED  BY <1>2, <1>3, <1>8, <2>1 DEF orderRow
<1>12. ASSUME NEW p \in Orders, AutoAcceptSkip(r, p)
      PROVE  AloneInv' /\ CompletedStay
  <2>1. UNCHANGED orderRow /\ UNCHANGED calls /\ NextOfBatch(r, p)
    BY <1>12 DEF AutoAcceptSkip, NextOfBatch, Go
  <2> QED  BY <1>4, <1>8, <2>1 DEF orderRow
\* Payments complete orders, and that without deducting.
<1>13. CASE PayWrite(r) \/ ConfirmCodWrite(r)
  <2>1. /\ o \in Orders /\ calls \cap PaidHandlers # {}
        /\ Finish(r) /\ ~Idle(r) /\ UNCHANGED <<deductions, calls>>
    BY <1>1, <1>13 DEF PayWrite, ConfirmCodWrite, Sound, PaidHandlers, Idle, Finish, Go
  <2>2. \A p \in Orders : status'[p] = IF p = o THEN "COMPLETED" ELSE status[p]
    BY <1>13, <2>1 DEF PayWrite, ConfirmCodWrite, SetStatus, IInv, TypeOK
  <2>3. DeductedOnceCompleted' /\ CompletedStay
    BY <2>1, <2>2 DEF AloneInv, DeductedOnceCompleted, CompletedStay, Alone, Undisturbed
  <2> QED  BY <1>2, <2>1, <2>3
<1> QED
  BY <1>5, <1>6, <1>7, <1>9, <1>10, <1>11, <1>12, <1>13 DEF Proceed

LEMMA InitAloneInv == Init => AloneInv
BY NoneAssumption DEF Init, AloneInv, DeductedOnceCompleted, Undisturbed, KnowsOrder, Idle,
   NoRequest, OrderStatus

LEMMA NextAloneInv == IInv /\ AloneInv /\ [Next]_vars => AloneInv' /\ CompletedStay
<1> SUFFICES ASSUME IInv, AloneInv, [Next]_vars PROVE AloneInv' /\ CompletedStay  OBVIOUS
<1>1. CASE UNCHANGED vars
  BY <1>1 DEF vars, AloneInv, CompletedStay, DeductedOnceCompleted, KnowsOrder, Idle, Alone,
     Undisturbed
<1>2. CASE Next /\ ~Alone
  <2>1. ~Alone'
    BY <1>2, CallsStay DEF Alone, Undisturbed
  <2> QED  BY <1>2, <2>1 DEF AloneInv, CompletedStay
<1>3. CASE Next /\ Alone
  BY <1>3, ArriveAlone, ImmediateAlone, ProceedAlone DEF Next
<1> QED  BY <1>1, <1>2, <1>3

\* Stock is deducted at most once for an order, only for completed ones, and for
\* each of those that no payment completed, whatever fails (one handler at a time
\* and no confirmation by the gateway).
THEOREM DeductionsFollowCompletion == Spec => []DeductedOnceCompleted
<1>1. AloneInv => DeductedOnceCompleted  BY DEF AloneInv, Alone, DeductedOnceCompleted
<1> QED  BY <1>1, InitIInv, NextIInv, InitAloneInv, NextAloneInv, PTL DEF Spec

\* No handler but the gateway's confirmation takes an order out of COMPLETED (one
\* handler at a time).
THEOREM CompletedOrdersStay == Spec => CompletedIsFinal
<1>1. CompletedStay => [Undisturbed => \A o \in Orders :
                          status[o] = "COMPLETED" => status'[o] = "COMPLETED"]_vars
  BY DEF CompletedStay, Alone
<1> QED
  BY <1>1, InitIInv, NextIInv, InitAloneInv, NextAloneInv, PTL DEF Spec, CompletedIsFinal
=============================================================================
