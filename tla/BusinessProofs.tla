--------------------------- MODULE BusinessProofs ---------------------------
(***************************************************************************)
(* What every proof about Business rests on, and the web shop.             *)
(*                                                                         *)
(* Which handlers a step of one department touches: each department has    *)
(* its own steps; its actions move one handler, and that one is in a step  *)
(* of theirs afterwards, so that what holds of the handlers of another     *)
(* department goes on to hold.  And what "alone" means: the handler that   *)
(* moves is the only one.                                                  *)
(*                                                                         *)
(* The web shop and the points, for any number of customers, carts, orders *)
(* and handlers: discounts are backed by redemptions, and tiers by         *)
(* earnings, however handlers race and fail; accounts add up, and lines    *)
(* are ordered once, while handlers come one after the other.              *)
(***************************************************************************)
EXTENDS Business, TLAPS, FiniteSetTheorems

\* Handlers are records of four fields.
Records ==
    /\ req = [r \in Handling |-> req[r]]
    /\ \A r \in Handling :
          req[r] = [at |-> req[r].at, on |-> req[r].on, arg |-> req[r].arg,
                    seen |-> req[r].seen]

\* The step moves handler r, to one of the steps in S.
Moves(r, S) ==
    /\ \A q \in Handling \ {r} : req'[q] = req[q]
    /\ req'[r].at \in S
    /\ Records'
    /\ calls' = calls

\* A handler is as it was, or in one of the steps in S.
Elsewhere(S) ==
    /\ \A q \in Handling : req'[q] = req[q] \/ req'[q].at \in S
    /\ Records'
    /\ calls' = calls

ShopSteps == {"idle", "createAccount", "earn", "autoEarn", "redeem", "saveCart",
              "createOrder", "redeemRead", "redeemOrder", "discount", "clearCart",
              "confirm"}
BillSteps ==
    {"idle", "takeOff", "addItem", "voidItem", "recount", "voidTotal", "discountBill"}
StampSteps == {"idle", "completeCard", "reward"}
PlatformSteps == {"idle", "import", "answer", "decide"}
SalesSteps == BillSteps \cup StampSteps \cup PlatformSteps
TenantSteps == {"idle", "cacheUser", "staff", "lock", "flushKeys", "flush", "activate",
                "unlock", "setTenant", "createSub", "subscription", "expireTrial",
                "cancelDue"}
DeliverySteps == {"idle", "createDelivery", "assignDriver", "setStatus"}
StaffSteps == {"idle", "clockIn", "linkShift", "clockOut", "missed", "markMissed"}

-----------------------------------------------------------------------------
\* A handler that begins, goes on or ends is the only one that changes.
LEMMA BeginMoves ==
    ASSUME Records, NEW r \in Handling, NEW S, NEW a \in S, NEW o, NEW g, NEW s,
           Begin(r, a, o, g, s), calls' = calls
    PROVE  Moves(r, S)
BY DEF Begin, Go, Moves, Records

LEMMA GoMoves ==
    ASSUME Records, NEW r \in Handling, NEW S, NEW a \in S, NEW o, NEW g, NEW s,
           Go(r, [at |-> a, on |-> o, arg |-> g, seen |-> s]), calls' = calls
    PROVE  Moves(r, S)
BY DEF Go, Moves, Records

LEMMA SeesMoves ==
    ASSUME Records, NEW r \in Handling, NEW S, NEW a \in S, NEW s, Sees(r, a, s),
           calls' = calls
    PROVE  Moves(r, S)
BY BeginMoves DEF Sees

LEMMA ThenMoves ==
    ASSUME Records, NEW r \in Handling, NEW S, NEW a \in S, Then(r, a), calls' = calls
    PROVE  Moves(r, S)
BY SeesMoves DEF Then

LEMMA DoneMoves ==
    ASSUME Records, NEW r \in Handling, NEW S, "idle" \in S, Done(r), calls' = calls
    PROVE  Moves(r, S)
BY DEF Done, Quiet, Go, Moves, Records

\* What becomes of a handler.
LEMMA BeginIs ==
    ASSUME Records, NEW r \in Handling, NEW a, NEW o, NEW g, NEW s, Begin(r, a, o, g, s)
    PROVE  /\ req'[r].at = a /\ req'[r].on = o /\ req'[r].arg = g /\ req'[r].seen = s
           /\ \A q \in Handling \ {r} : req'[q] = req[q]
BY DEF Begin, Go, Records

LEMMA DoneIs ==
    ASSUME Records, NEW r \in Handling, Done(r)
    PROVE  req'[r].at = "idle" /\ \A q \in Handling \ {r} : req'[q] = req[q]
BY DEF Done, Go, Quiet, Records

-----------------------------------------------------------------------------
(* The departments                                                         *)

LEMMA ShopMoves ==
    ASSUME Records, NEW r \in Handling, LoyaltyNext(r) \/ ShopNext(r)
    PROVE  Moves(r, ShopSteps)
<1> USE DEF ShopSteps
<1>1. CASE \E c \in Customers : CreateCustomer(r, c)
  BY <1>1, BeginMoves DEF CreateCustomer
<1>2. CASE \E c \in Customers, n \in Manual : EarnRead(r, c, n) \/ RedeemRead(r, c, n)
  BY <1>2, BeginMoves DEF EarnRead, RedeemRead
<1>3. CASE CreateAccount(r) \/ EarnWrite(r) \/ RedeemWrite(r)
  BY <1>3, DoneMoves DEF CreateAccount, EarnWrite, RedeemWrite
<1>4. CASE AutoEarnRead(r)
  BY <1>4, SeesMoves, DoneMoves DEF AutoEarnRead
<1>5. CASE \E k \in Carts, lines \in SUBSET Lines : EditCart(r, k, lines)
  BY <1>5, BeginMoves DEF EditCart
<1>6. CASE SaveCart(r) \/ PlaceClear(r)
  BY <1>6, DoneMoves DEF SaveCart, PlaceClear
<1>7. CASE \E k \in Carts, o \in Orders, c \in Customers \cup {None}, n \in Manual \cup {0} :
               PlaceRead(r, k, o, c, n)
  BY <1>7, BeginMoves DEF PlaceRead
<1>8. CASE PlaceCreate(r) \/ PlaceRedeemWrite(r) \/ PlaceDiscount(r)
  BY <1>8, ThenMoves DEF PlaceCreate, PlaceRedeemWrite, PlaceDiscount
<1>9. CASE PlaceRedeemRead(r)
  BY <1>9, SeesMoves, DoneMoves DEF PlaceRedeemRead
<1>10. CASE \E o \in Orders : ConfirmRead(r, o)
  BY <1>10, BeginMoves DEF ConfirmRead
<1>11. CASE ConfirmWrite(r)
  BY <1>11, GoMoves, DoneMoves DEF ConfirmWrite
<1> QED  BY <1>1, <1>2, <1>3, <1>4, <1>5, <1>6, <1>7, <1>8, <1>9, <1>10, <1>11 DEF LoyaltyNext, ShopNext

LEMMA BillsMoves ==
    ASSUME Records, NEW r \in Handling, BillsNext(r)
    PROVE  Moves(r, BillSteps)
<1> USE DEF BillSteps
<1>1. CASE \E b \in Bills, off \in {0, DishPrice}, S \in SUBSET Dishes :
               OpenBill(r, b, S, off) \/ ImportBill(r, b, S, off)
  BY <1>1 DEF OpenBill, ImportBill, Create, Free, Takes, Idle, Moves, Records
<1>2. CASE \E b \in Bills, d \in Dishes : AddRead(r, b, d) \/ VoidItemRead(r, b, d)
  BY <1>2, BeginMoves DEF AddRead, VoidItemRead
<1>3. CASE \E b \in Bills, off \in Discounts : DiscountRead(r, b, off)
  BY <1>3, BeginMoves DEF DiscountRead
<1>4. CASE TakeOff(r) \/ AddWrite(r) \/ VoidTotal(r) \/ DiscountWrite(r)
  BY <1>4, DoneMoves DEF TakeOff, AddWrite, VoidTotal, DiscountWrite
<1>5. CASE VoidItem(r) \/ Recount(r)
  BY <1>5, ThenMoves, SeesMoves DEF VoidItem, Recount
<1>6. CASE \E b \in Bills, S \in SUBSET Dishes, n \in Discounts : OpenOnline(r, b, S, n)
  BY <1>6, BeginMoves DEF OpenOnline, Create
<1> QED  BY <1>1, <1>2, <1>3, <1>4, <1>5, <1>6 DEF BillsNext

LEMMA StampsMoves ==
    ASSUME Records, NEW r \in Handling, StampsNext(r)
    PROVE  Moves(r, StampSteps)
<1> USE DEF StampSteps
<1>1. CASE \E c \in Customers : RewardRead(r, c)
  BY <1>1, BeginMoves DEF RewardRead
<1>2. CASE \E c \in Customers, n \in 1..Required : AddStamp(r, c, n)
  <2>1. PICK c \in Customers, n \in 1..Required : AddStamp(r, c, n)
    BY <1>2
  <2>2. CASE Begin(r, "completeCard", c, None, None)
    BY <2>1, <2>2, BeginMoves DEF AddStamp
  <2>3. CASE UNCHANGED req
    BY <2>1, <2>3 DEF AddStamp, Free, Takes, Idle, Moves, Records
  <2> QED  BY <2>1, <2>2, <2>3 DEF AddStamp
<1>3. CASE CompleteCard(r) \/ RewardWrite(r)
  BY <1>3, DoneMoves DEF CompleteCard, RewardWrite
<1> QED  BY <1>1, <1>2, <1>3 DEF StampsNext

LEMMA PlatformHandlerMoves ==
    ASSUME Records, NEW r \in Handling, PlatformNext(r)
    PROVE  Moves(r, PlatformSteps)
<1> USE DEF PlatformSteps
<1>1. CASE \E x \in External : WebhookRead(r, x)
  <2>1. PICK x \in External : WebhookRead(r, x)
    BY <1>1
  <2>2. CASE Duplicate(x)
    BY <2>1, <2>2 DEF WebhookRead, Free, Takes, Idle, Moves, Records
  <2>3. CASE ~Duplicate(x)
    BY <2>1, <2>3, BeginMoves DEF WebhookRead
  <2> QED  BY <2>2, <2>3
<1>2. CASE \E s \in Imports : ImportOrder(r, s)
  BY <1>2, ThenMoves DEF ImportOrder
<1>3. CASE \E s \in Imports, answer \in Answer : DecideRead(r, s, answer)
  BY <1>3, BeginMoves DEF DecideRead
<1>4. CASE AnswerWebhook(r) \/ DecideWrite(r)
  BY <1>4, DoneMoves DEF AnswerWebhook, DecideWrite
<1> QED  BY <1>1, <1>2, <1>3, <1>4 DEF PlatformNext

LEMMA TenantMoves ==
    ASSUME Records, NEW r \in Handling, TenantsNext(r)
    PROVE  Moves(r, TenantSteps)
<1> USE DEF TenantSteps
<1>1. CASE \E u \in Users : ValidateRead(r, u) \/ UnlockRead(r, u)
  BY <1>1, BeginMoves DEF ValidateRead, UnlockRead
<1>2. CASE \E u \in Users, active \in BOOLEAN : StaffRead(r, u, active)
  BY <1>2, BeginMoves DEF StaffRead
<1>3. CASE \E how \in {"suspend", "terminate"} : LockRead(r, how)
  BY <1>3, BeginMoves DEF LockRead
<1>4. CASE ActivateRead(r) \/ ExtendTrial(r) \/ EnsureRead(r) \/ CronRead(r)
  BY <1>4, BeginMoves DEF ActivateRead, ExtendTrial, EnsureRead, CronRead
<1>5. CASE \E plan \in Plans : UpdatePlan(r, plan)
  BY <1>5, BeginMoves DEF UpdatePlan
<1>6. CASE \E method \in Methods, plan \in Plans : BillingRead(r, method, plan)
  BY <1>6, BeginMoves DEF BillingRead
<1>7. CASE CacheUser(r) \/ StaffWrite(r) \/ Flush(r) \/ ActivateWrite(r) \/ SetTenant(r)
  BY <1>7, DoneMoves DEF CacheUser, StaffWrite, Flush, ActivateWrite, SetTenant
<1>8. CASE EnsureWrite(r) \/ BillingWrite(r) \/ CancelDue(r)
  BY <1>8, DoneMoves DEF EnsureWrite, BillingWrite, CancelDue
<1>9. CASE LockWrite(r) \/ ExpireTrial(r)
  BY <1>9, ThenMoves DEF LockWrite, ExpireTrial
<1>10. CASE FlushKeys(r) \/ UnlockWrite(r)
  BY <1>10, SeesMoves DEF FlushKeys, UnlockWrite
<1> QED  BY <1>1, <1>2, <1>3, <1>4, <1>5, <1>6, <1>7, <1>8, <1>9, <1>10 DEF TenantsNext, TenantsGoOn

LEMMA DeliveryMoves ==
    ASSUME Records, NEW r \in Handling, DeliveriesNext(r)
    PROVE  Moves(r, DeliverySteps)
<1> USE DEF DeliverySteps
<1>1. CASE \E d \in Parcels, u \in Users \cup {None} : CreateRead(r, d, u)
  BY <1>1, BeginMoves DEF CreateRead
<1>2. CASE \E d \in Parcels, u \in Users : AssignRead(r, d, u)
  BY <1>2, BeginMoves DEF AssignRead
<1>3. CASE \E d \in Parcels, to \in DeliveryStatus :
               ManagerRead(r, d, to) \/ \E u \in Users : DriverRead(r, d, u, to)
  BY <1>3, BeginMoves DEF ManagerRead, DriverRead
<1>4. CASE CreateWrite(r) \/ AssignWrite(r) \/ StatusWrite(r)
  BY <1>4, DoneMoves DEF CreateWrite, AssignWrite, StatusWrite
<1> QED  BY <1>1, <1>2, <1>3, <1>4 DEF DeliveriesNext

LEMMA StaffMoves ==
    ASSUME Records, NEW r \in Handling, StaffNext(r)
    PROVE  Moves(r, StaffSteps)
<1> USE DEF StaffSteps
<1>1. CASE \E u \in Users, s \in Shifts \cup {None}, e \in Entries : ClockInRead(r, u, s, e)
  BY <1>1, BeginMoves DEF ClockInRead
<1>2. CASE \E u \in Users, e \in Entries : ClockOutRead(r, u, e)
  BY <1>2, BeginMoves DEF ClockOutRead
<1>3. CASE ClockInWrite(r) \/ ClockOutWrite(r)
  BY <1>3, BeginMoves, DoneMoves DEF ClockInWrite, ClockOutWrite
<1>4. CASE LinkShift(r) \/ MissedEnd(r)
  BY <1>4, DoneMoves DEF LinkShift, MissedEnd
<1>5. CASE MissedRead(r)
  BY <1>5, BeginMoves DEF MissedRead
<1>6. CASE MissedWrite(r)
  BY <1>6, ThenMoves DEF MissedWrite
<1>7. CASE \E s \in Shifts : MissedCheck(r, s)
  BY <1>7, BeginMoves DEF MissedCheck
<1> QED  BY <1>1, <1>2, <1>3, <1>4, <1>5, <1>6, <1>7 DEF StaffNext

-----------------------------------------------------------------------------
(* The whole of Business                                                   *)

LEMMA MovesElsewhere ==
    ASSUME Records, NEW r \in Handling, NEW S, NEW T, S \subseteq T, Moves(r, S)
    PROVE  Elsewhere(T)
BY DEF Moves, Elsewhere

LEMMA StillElsewhere ==
    ASSUME Records, NEW S, UNCHANGED <<calls, req>>
    PROVE  Elsewhere(S)
BY DEF Elsewhere, Records

LEMMA ShopElsewhere ==
    ASSUME Records, Shop, NEW T, ShopSteps \subseteq T  PROVE  Elsewhere(T)
<1>1. CASE \E r \in Handling : ShopNext(r) \/ LoyaltyNext(r)
  BY <1>1, ShopMoves, MovesElsewhere
<1>2. CASE \E k \in Carts : InitCart(k) \/ CartExpires(k)
  BY <1>2, StillElsewhere DEF InitCart, CartExpires
<1> QED  BY <1>1, <1>2 DEF Shop

LEMMA SalesElsewhere ==
    ASSUME Records, Sales, NEW T, SalesSteps \subseteq T  PROVE  Elsewhere(T)
<1>1. CASE \E r \in Handling : StampsNext(r)
  BY <1>1, StampsMoves, MovesElsewhere DEF SalesSteps
<1>2. CASE \E r \in Handling : PlatformNext(r)
  BY <1>2, PlatformHandlerMoves, MovesElsewhere DEF SalesSteps
<1>3. CASE PlatformMoves
  BY <1>3, StillElsewhere DEF PlatformMoves, SetAutoAccept, PushEnds
<1>4. CASE \E r \in Handling : BillsNext(r)
  BY <1>4, BillsMoves, MovesElsewhere DEF SalesSteps
<1>5. CASE \E b \in Bills : Advance(b)
  BY <1>5, StillElsewhere DEF Advance
<1> QED  BY <1>1, <1>2, <1>3, <1>4, <1>5 DEF Sales

LEMMA TenancyElsewhere ==
    ASSUME Records, Tenancy, NEW T, TenantSteps \subseteq T  PROVE  Elsewhere(T)
<1>1. CASE \E r \in Handling : TenantsNext(r)
  BY <1>1, TenantMoves, MovesElsewhere
<1>2. CASE TimePasses
  BY <1>2, StillElsewhere DEF TimePasses, PeriodEnds, TrialEnds, CacheExpires
<1> QED  BY <1>1, <1>2 DEF Tenancy

LEMMA DeliveringElsewhere ==
    ASSUME Records, Delivering, NEW T, DeliverySteps \subseteq T  PROVE  Elsewhere(T)
BY DeliveryMoves, MovesElsewhere DEF Delivering

LEMMA StaffingElsewhere ==
    ASSUME Records, Staffing, NEW T, StaffSteps \subseteq T  PROVE  Elsewhere(T)
<1>1. CASE \E r \in Handling : StaffNext(r)
  BY <1>1, StaffMoves, MovesElsewhere
<1>2. CASE ManagersAct \/ \E s \in Shifts : Later(s)
  BY <1>2, StillElsewhere DEF ManagersAct, Later, CreateShift, UpdateShift, AddManualEntry
<1> QED  BY <1>1, <1>2 DEF Staffing

LEMMA FailureElsewhere ==
    ASSUME Records, Failure, NEW T, "idle" \in T  PROVE  Elsewhere(T)
<1>1. \E r \in Handling : Moves(r, {"idle"})
  BY DoneMoves DEF Failure, Fails
<1> QED  BY <1>1, MovesElsewhere

\* What the steps of the others are to a department.
LEMMA NotSales ==
    ASSUME Records, [Next]_vars, ~Sales
    PROVE  /\ UNCHANGED saleState
           /\ Elsewhere(ShopSteps \cup TenantSteps \cup DeliverySteps \cup StaffSteps)
<1> DEFINE T == ShopSteps \cup TenantSteps \cup DeliverySteps \cup StaffSteps
<1>1. /\ "idle" \in T /\ ShopSteps \subseteq T /\ TenantSteps \subseteq T
      /\ DeliverySteps \subseteq T /\ StaffSteps \subseteq T
  BY DEF ShopSteps
<1> HIDE DEF T
<1>2. CASE Shop  BY <1>1, <1>2, ShopElsewhere DEF Shop, T
<1>3. CASE Tenancy  BY <1>1, <1>3, TenancyElsewhere DEF Tenancy, T
<1>4. CASE Delivering  BY <1>1, <1>4, DeliveringElsewhere DEF Delivering, T
<1>5. CASE Staffing  BY <1>1, <1>5, StaffingElsewhere DEF Staffing, T
<1>6. CASE Failure  BY <1>1, <1>6, FailureElsewhere DEF Failure, T
<1>7. CASE UNCHANGED vars  BY <1>7, StillElsewhere DEF vars, saleState
<1> QED  BY <1>2, <1>3, <1>4, <1>5, <1>6, <1>7 DEF Next

LEMMA NotShop ==
    ASSUME Records, [Next]_vars, ~Shop
    PROVE  /\ UNCHANGED shopState
           /\ Elsewhere(SalesSteps \cup TenantSteps \cup DeliverySteps \cup StaffSteps)
<1> DEFINE T == SalesSteps \cup TenantSteps \cup DeliverySteps \cup StaffSteps
<1>1. /\ "idle" \in T /\ SalesSteps \subseteq T /\ TenantSteps \subseteq T
      /\ DeliverySteps \subseteq T /\ StaffSteps \subseteq T
  BY DEF TenantSteps
<1> HIDE DEF T
<1>7. CASE Sales  BY <1>1, <1>7, SalesElsewhere DEF Sales, T
<1>2. CASE Tenancy  BY <1>1, <1>2, TenancyElsewhere DEF Tenancy, T
<1>3. CASE Delivering  BY <1>1, <1>3, DeliveringElsewhere DEF Delivering, T
<1>4. CASE Staffing  BY <1>1, <1>4, StaffingElsewhere DEF Staffing, T
<1>5. CASE Failure  BY <1>1, <1>5, FailureElsewhere DEF Failure, T
<1>6. CASE UNCHANGED vars  BY <1>6, StillElsewhere DEF vars, shopState
<1> QED  BY <1>2, <1>3, <1>4, <1>5, <1>6, <1>7 DEF Next

LEMMA NotTenancy ==
    ASSUME Records, [Next]_vars, ~Tenancy
    PROVE  /\ Elsewhere(ShopSteps \cup SalesSteps \cup DeliverySteps \cup StaffSteps)
           /\ UNCHANGED tenantVars
<1> DEFINE T == ShopSteps \cup SalesSteps \cup DeliverySteps \cup StaffSteps
<1>1. /\ "idle" \in T /\ ShopSteps \subseteq T /\ SalesSteps \subseteq T
      /\ DeliverySteps \subseteq T /\ StaffSteps \subseteq T
  BY DEF ShopSteps
<1>2. Elsewhere(T)
  <2> HIDE DEF T
  <2>1. CASE Shop  BY <1>1, <2>1, ShopElsewhere
  <2>2. CASE Delivering  BY <1>1, <2>2, DeliveringElsewhere
  <2>3. CASE Staffing  BY <1>1, <2>3, StaffingElsewhere
  <2>4. CASE Failure  BY <1>1, <2>4, FailureElsewhere
  <2>5. CASE UNCHANGED vars  BY <2>5, StillElsewhere DEF vars
  <2>6. CASE Sales  BY <1>1, <2>6, SalesElsewhere
  <2> QED  BY <2>1, <2>2, <2>3, <2>4, <2>5, <2>6 DEF Next
<1>3. UNCHANGED tenantVars
  <2>1. CASE Shop  BY <2>1 DEF Shop
  <2>2. CASE Delivering
    BY <2>2 DEF Delivering, DeliveriesNext, CreateRead, AssignRead, ManagerRead, DriverRead,
                CreateWrite, AssignWrite, StatusWrite
  <2>3. CASE Staffing
    BY <2>3 DEF Staffing, StaffNext, ManagersAct, Later, CreateShift, UpdateShift,
                AddManualEntry, ClockInRead, ClockOutRead, ClockInWrite, ClockOutWrite,
                LinkShift, MissedRead, MissedCheck, MissedWrite, MissedEnd
  <2>4. CASE Failure  BY <2>4 DEF Failure
  <2>5. CASE UNCHANGED vars  BY <2>5 DEF vars
  <2>6. CASE Sales  BY <2>6 DEF Sales
  <2> QED  BY <2>1, <2>2, <2>3, <2>4, <2>5, <2>6 DEF Next
<1> QED  BY <1>2, <1>3

LEMMA NotDelivering ==
    ASSUME Records, [Next]_vars, ~Delivering
    PROVE  /\ UNCHANGED deliveryVars
           /\ Elsewhere(ShopSteps \cup SalesSteps \cup TenantSteps \cup StaffSteps)
<1> DEFINE T == ShopSteps \cup SalesSteps \cup TenantSteps \cup StaffSteps
<1>1. /\ "idle" \in T /\ ShopSteps \subseteq T /\ SalesSteps \subseteq T
      /\ TenantSteps \subseteq T /\ StaffSteps \subseteq T
  BY DEF ShopSteps
<1> HIDE DEF T
<1>2. CASE Shop  BY <1>1, <1>2, ShopElsewhere DEF Shop, crewState, T
<1>3. CASE Tenancy  BY <1>1, <1>3, TenancyElsewhere DEF Tenancy, crewState, T
<1>4. CASE Staffing  BY <1>1, <1>4, StaffingElsewhere DEF Staffing, T
<1>5. CASE Failure  BY <1>1, <1>5, FailureElsewhere DEF Failure, crewState, T
<1>6. CASE UNCHANGED vars  BY <1>6, StillElsewhere DEF vars
<1>7. CASE Sales  BY <1>1, <1>7, SalesElsewhere DEF Sales, crewState, T
<1> QED  BY <1>2, <1>3, <1>4, <1>5, <1>6, <1>7 DEF Next

LEMMA NotStaffing ==
    ASSUME Records, [Next]_vars, ~Staffing
    PROVE  /\ UNCHANGED staffVars
           /\ Elsewhere(ShopSteps \cup SalesSteps \cup TenantSteps \cup DeliverySteps)
<1> DEFINE T == ShopSteps \cup SalesSteps \cup TenantSteps \cup DeliverySteps
<1>1. /\ "idle" \in T /\ ShopSteps \subseteq T /\ SalesSteps \subseteq T
      /\ TenantSteps \subseteq T /\ DeliverySteps \subseteq T
  BY DEF ShopSteps
<1> HIDE DEF T
<1>2. CASE Shop  BY <1>1, <1>2, ShopElsewhere DEF Shop, crewState, T
<1>3. CASE Tenancy  BY <1>1, <1>3, TenancyElsewhere DEF Tenancy, crewState, T
<1>4. CASE Delivering  BY <1>1, <1>4, DeliveringElsewhere DEF Delivering, T
<1>5. CASE Failure  BY <1>1, <1>5, FailureElsewhere DEF Failure, crewState, T
<1>6. CASE UNCHANGED vars  BY <1>6, StillElsewhere DEF vars
<1>7. CASE Sales  BY <1>1, <1>7, SalesElsewhere DEF Sales, crewState, T
<1> QED  BY <1>2, <1>3, <1>4, <1>5, <1>6, <1>7 DEF Next

-----------------------------------------------------------------------------
\* Handlers are records, in one of the steps, for ever; and the events are chosen
\* once.
Handlers ==
    /\ Records
    /\ \A r \in Handling : req[r].at \in Step
    /\ calls \in Mixes

LEMMA StepsAreSteps ==
    ShopSteps \cup SalesSteps \cup TenantSteps \cup DeliverySteps \cup StaffSteps \subseteq Step
BY DEF ShopSteps, SalesSteps, BillSteps, StampSteps, PlatformSteps, TenantSteps,
       DeliverySteps, StaffSteps, Step

LEMMA HandlersInit == Init => Handlers
BY DEF Init, RequestsInit, Handlers, Records, Quiet, Step

LEMMA HandlersNext == Handlers /\ [Next]_vars => Handlers'
<1> SUFFICES ASSUME Handlers, [Next]_vars PROVE Handlers'
  OBVIOUS
<1>1. Records
  BY DEF Handlers
<1>2. Elsewhere(Step)
  <2> USE <1>1, StepsAreSteps
  <2>1. CASE Shop  BY <2>1, ShopElsewhere
  <2>2. CASE Tenancy  BY <2>2, TenancyElsewhere
  <2>3. CASE Delivering  BY <2>3, DeliveringElsewhere
  <2>4. CASE Staffing  BY <2>4, StaffingElsewhere
  <2>5. CASE Failure  BY <2>5, FailureElsewhere DEF ShopSteps
  <2>6. CASE UNCHANGED vars  BY <2>6, StillElsewhere DEF vars
  <2>7. CASE Sales  BY <2>7, SalesElsewhere
  <2> QED  BY <2>1, <2>2, <2>3, <2>4, <2>5, <2>6, <2>7 DEF Next
<1> QED  BY <1>2 DEF Handlers, Elsewhere

LEMMA HandlersHold == Spec => []Handlers
BY HandlersInit, HandlersNext, PTL DEF Spec

-----------------------------------------------------------------------------
(* One handler at a time                                                   *)

Alone == "alone" \in calls

OneAtATime == Alone => \A q, r \in Handling : q # r => Idle(q) \/ Idle(r)

\* It is handler r's turn: it has begun, or may begin.
Turn(r) == ~Idle(r) \/ (Alone => \A q \in Handling : Idle(q))

\* Handler r voids an item and has not written the new total yet.
Counts(r) == req[r].at \in {"recount", "voidTotal"}

LEMMA ShopTurns ==
    ASSUME NEW r \in Handling, LoyaltyNext(r) \/ ShopNext(r)
    PROVE  Turn(r) /\ ~Counts(r)
<1> USE DEF Turn, Counts, Alone, Idle
<1>1. CASE LoyaltyNext(r)
  BY <1>1 DEF LoyaltyNext, CreateCustomer, EarnRead, RedeemRead, CreateAccount,
              AutoEarnRead, EarnWrite, RedeemWrite, Free, Takes, At
<1>2. CASE ShopNext(r)
  BY <1>2 DEF ShopNext, EditCart, SaveCart, PlaceRead, PlaceCreate, PlaceRedeemRead,
              PlaceRedeemWrite, PlaceDiscount, PlaceClear, ConfirmRead, ConfirmWrite,
              Free, Takes, At
<1> QED  BY <1>1, <1>2

LEMMA BillsTurns ==
    ASSUME NEW r \in Handling, BillsNext(r)  PROVE Turn(r)
BY DEF BillsNext, OpenBill, ImportBill, OpenOnline, TakeOff, AddRead, AddWrite, VoidItemRead, VoidItem, Recount, VoidTotal,
       DiscountRead, DiscountWrite, Free, At, Turn, Alone, Idle

LEMMA SalesTurns ==
    ASSUME NEW r \in Handling, StampsNext(r) \/ PlatformNext(r)
    PROVE  Turn(r) /\ ~Counts(r)
<1> USE DEF Turn, Counts, Alone, Idle
<1>1. CASE StampsNext(r)
  BY <1>1 DEF StampsNext, RewardRead, AddStamp, CompleteCard, RewardWrite, Free, Takes, At
<1>2. CASE PlatformNext(r)
  BY <1>2 DEF PlatformNext, WebhookRead, ImportOrder, DecideRead, AnswerWebhook,
              DecideWrite, Free, Takes, At
<1> QED  BY <1>1, <1>2

LEMMA OtherTurns ==
    ASSUME NEW r \in Handling, TenantsNext(r) \/ DeliveriesNext(r) \/ StaffNext(r)
    PROVE  Turn(r) /\ ~Counts(r)
<1> USE DEF Turn, Counts, Alone, Idle
<1>1. CASE TenantsNext(r)
  BY <1>1 DEF TenantsNext, TenantsGoOn, ValidateRead, UnlockRead, StaffRead, LockRead,
              ActivateRead, ExtendTrial, EnsureRead, CronRead, UpdatePlan, BillingRead,
              CacheUser, StaffWrite, Flush, ActivateWrite, SetTenant, EnsureWrite,
              BillingWrite, CancelDue, LockWrite, ExpireTrial, FlushKeys, UnlockWrite,
              Free, Takes, At
<1>2. CASE DeliveriesNext(r)
  BY <1>2 DEF DeliveriesNext, CreateRead, AssignRead, ManagerRead, DriverRead,
              CreateWrite, AssignWrite, StatusWrite, Free, Takes, At
<1>3. CASE StaffNext(r)
  BY <1>3 DEF StaffNext, ClockInRead, ClockOutRead, ClockInWrite, ClockOutWrite,
              LinkShift, MissedEnd, MissedRead, MissedWrite, MissedCheck, Free, Takes, At
<1> QED  BY <1>1, <1>2, <1>3

LEMMA TurnKeepsOne ==
    ASSUME OneAtATime, NEW r \in Handling, Turn(r), NEW S, Moves(r, S)
    PROVE  OneAtATime'
BY DEF OneAtATime, Turn, Moves, Alone, Idle

\* Where it is r's turn, nobody else is at work.
LEMMA TurnIsAlone ==
    ASSUME OneAtATime, Alone, NEW r \in Handling, Turn(r)
    PROVE  \A q \in Handling \ {r} : Idle(q)
BY DEF OneAtATime, Turn

LEMMA StillOne ==
    ASSUME OneAtATime, UNCHANGED <<calls, req>>  PROVE OneAtATime'
BY DEF OneAtATime, Alone, Idle

LEMMA OneNext == Records /\ OneAtATime /\ [Next]_vars => OneAtATime'
<1> SUFFICES ASSUME Records, OneAtATime, [Next]_vars PROVE OneAtATime'
  OBVIOUS
<1>1. CASE Shop
  <2>1. CASE \E r \in Handling : ShopNext(r) \/ LoyaltyNext(r)
    BY <2>1, ShopTurns, ShopMoves, TurnKeepsOne
  <2>2. CASE \E k \in Carts : InitCart(k) \/ CartExpires(k)
    BY <2>2, StillOne DEF InitCart, CartExpires
  <2> QED  BY <1>1, <2>1, <2>2 DEF Shop
<1>2. CASE Sales
  <2>1. CASE \E r \in Handling : BillsNext(r) \/ StampsNext(r) \/ PlatformNext(r)
    BY <2>1, BillsTurns, SalesTurns, BillsMoves, StampsMoves, PlatformHandlerMoves, TurnKeepsOne
  <2>2. CASE PlatformMoves \/ \E b \in Bills : Advance(b)
    BY <2>2, StillOne DEF PlatformMoves, SetAutoAccept, PushEnds, Advance
  <2> QED  BY <1>2, <2>1, <2>2 DEF Sales
<1>3. CASE Tenancy
  <2>1. CASE \E r \in Handling : TenantsNext(r)
    BY <2>1, OtherTurns, TenantMoves, TurnKeepsOne
  <2>2. CASE TimePasses
    BY <2>2, StillOne DEF TimePasses, PeriodEnds, TrialEnds, CacheExpires
  <2> QED  BY <1>3, <2>1, <2>2 DEF Tenancy
<1>4. CASE Delivering
  BY <1>4, OtherTurns, DeliveryMoves, TurnKeepsOne DEF Delivering
<1>5. CASE Staffing
  <2>1. CASE \E r \in Handling : StaffNext(r)
    BY <2>1, OtherTurns, StaffMoves, TurnKeepsOne
  <2>2. CASE ManagersAct \/ \E s \in Shifts : Later(s)
    BY <2>2, StillOne DEF ManagersAct, Later, CreateShift, UpdateShift, AddManualEntry
  <2> QED  BY <1>5, <2>1, <2>2 DEF Staffing
<1>6. CASE Failure
  <2>1. PICK r \in Handling : Fails(r)
    BY <1>6 DEF Failure
  <2>2. Turn(r) /\ Moves(r, {"idle"})
    BY <1>6, <2>1, DoneMoves DEF Failure, Fails, Turn
  <2> QED  BY <2>2, TurnKeepsOne
<1>7. CASE UNCHANGED vars
  BY <1>7, StillOne DEF vars
<1> QED  BY <1>1, <1>2, <1>3, <1>4, <1>5, <1>6, <1>7 DEF Next

LEMMA OneHolds == Spec => []OneAtATime
<1>1. Init => OneAtATime
  BY DEF Init, RequestsInit, OneAtATime, Quiet, Idle
<1> QED  BY <1>1, OneNext, HandlersHold, PTL DEF Spec, Handlers

-----------------------------------------------------------------------------
(* The web shop and the points                                             *)

\* The steps of a placement in which it still owes the order something.
Placing == {"createOrder", "redeemRead", "redeemOrder", "discount"}

Placement == [order : Orders, customer : Customers \cup {None}, points : Nat]

\* What a handler of the shop knows.  At "discount" its points are taken, and not
\* yet in the discount.
ShopHandler(r) ==
    LET q == req[r]
        o == order[q.arg.order]
    IN  /\ q.at = "saveCart" => q.seen \subseteq Lines
        /\ q.at = "confirm" => q.on \in Orders
        /\ q.at \in Placing => q.arg \in Placement
        /\ q.at = "createOrder" => q.seen \subseteq Lines /\ ~o.placed
        /\ q.at \in Placing \ {"createOrder"} => o.placed /\ q.arg.customer \in Customers
        /\ q.at = "discount" => o.discount + q.arg.points <= o.redeemed

\* No two handlers place the same order.
OneEach ==
    \A r, q \in Handling :
        /\ r # q
        /\ req[r].at \in Placing /\ req[q].at \in Placing
        => req[r].arg.order # req[q].arg.order

CartsTyped ==
    cart \in [Carts -> [state : {"none", "open", "gone"}, lines : SUBSET Lines]]
OrdersTyped ==
    order \in [Orders -> [placed : BOOLEAN, lines : SUBSET Lines,
                          customer : Customers \cup {None}, discount : Nat,
                          redeemed : Nat, paid : BOOLEAN]]

ShopInv ==
    /\ CartsTyped
    /\ OrdersTyped
    /\ \A r \in Handling : ShopHandler(r)
    /\ OneEach
    /\ DiscountBacked

-----------------------------------------------------------------------------
\* Steps that leave carts and orders alone, and no handler in a step of the shop
\* that was not in it.
LEMMA ShopStays ==
    ASSUME ShopInv, UNCHANGED shopVars,
           \A q \in Handling :
              req'[q] = req[q] \/ req'[q].at \notin Placing \cup {"saveCart", "confirm"}
    PROVE  ShopInv'
BY DEF ShopInv, CartsTyped, OrdersTyped, ShopHandler, OneEach, DiscountBacked, shopVars,
       Placing

LEMMA EditCartKeeps ==
    ASSUME Records, ShopInv, NEW r \in Handling, NEW k \in Carts, NEW lines \in SUBSET Lines,
           EditCart(r, k, lines)
    PROVE  ShopInv'
<1>1. Begin(r, "saveCart", k, None, lines) /\ UNCHANGED <<cart, order>>
  BY DEF EditCart, shopVars
<1>2. /\ req'[r].at = "saveCart" /\ req'[r].seen = lines
      /\ \A q \in Handling \ {r} : req'[q] = req[q]
  BY <1>1, BeginIs
<1> QED
  BY <1>1, <1>2 DEF ShopInv, CartsTyped, OrdersTyped, ShopHandler, OneEach, DiscountBacked,
     Placing

LEMMA SaveCartKeeps ==
    ASSUME Records, ShopInv, NEW r \in Handling, SaveCart(r) \/ PlaceClear(r)
    PROVE  ShopInv'
<1>1. CartsTyped'
  BY DEF SaveCart, PlaceClear, Cleared, Dropped, ShopInv, CartsTyped, ShopHandler, At
<1>2. UNCHANGED order /\ Done(r)
  BY DEF SaveCart, PlaceClear
<1>3. req'[r].at = "idle" /\ \A q \in Handling \ {r} : req'[q] = req[q]
  BY <1>2, DoneIs
<1> QED
  BY <1>1, <1>2, <1>3 DEF ShopInv, OrdersTyped, ShopHandler, OneEach, DiscountBacked, Placing

LEMMA PlaceReadKeeps ==
    ASSUME Records, ShopInv, NEW r \in Handling, NEW k \in Carts, NEW o \in Orders,
           NEW c \in Customers \cup {None}, NEW n \in Nat, PlaceRead(r, k, o, c, n)
    PROVE  ShopInv'
<1> DEFINE a == [order |-> o, customer |-> c, points |-> n]
<1>1. /\ Begin(r, "createOrder", k, a, cart[k].lines) /\ UNCHANGED <<cart, order>>
      /\ ~order[o].placed
      /\ \A q \in Handling : At(q, "createOrder") => req[q].arg.order # o
  BY DEF PlaceRead, shopVars, NewOrder, Takes
<1>2. /\ req'[r].at = "createOrder" /\ req'[r].arg = a /\ req'[r].seen = cart[k].lines
      /\ \A q \in Handling \ {r} : req'[q] = req[q]
  BY <1>1, BeginIs
<1>3. a \in Placement /\ a.order = o /\ cart[k].lines \subseteq Lines
  BY DEF Placement, ShopInv, CartsTyped
<1>4. \A q \in Handling \ {r} : req[q].at \in Placing => req[q].arg.order # o
  BY <1>1 DEF At, ShopInv, ShopHandler, Placing
<1> HIDE DEF a
<1>5. OneEach'
  BY <1>2, <1>3, <1>4 DEF ShopInv, OneEach
<1>6. \A q \in Handling : ShopHandler(q)'
  BY <1>1, <1>2, <1>3 DEF ShopInv, ShopHandler, Placing
<1> QED
  BY <1>1, <1>5, <1>6 DEF ShopInv, CartsTyped, OrdersTyped, DiscountBacked

\* The other handlers are about other orders.
LEMMA OthersKeep ==
    ASSUME ShopInv, NEW q \in Handling, req'[q] = req[q], NEW o,
           req[q].at \in Placing => req[q].arg.order # o,
           \A p \in Orders \ {o} : order'[p] = order[p]
    PROVE  ShopHandler(q)'
<1>1. ShopHandler(q)
  BY DEF ShopInv
<1>2. req[q].at \in Placing =>
         req[q].arg.order \in Orders /\ order'[req[q].arg.order] = order[req[q].arg.order]
  BY <1>1 DEF ShopHandler, Placement
<1> QED  BY <1>1, <1>2 DEF ShopHandler, Placing

LEMMA PlaceCreateKeeps ==
    ASSUME Records, ShopInv, NEW r \in Handling, PlaceCreate(r)
    PROVE  ShopInv'
<1> DEFINE a == req[r].arg
           next == IF Redeems(a) THEN "redeemRead" ELSE "clearCart"
           new == Placed(req[r].seen, a.customer)
<1>1. /\ req[r].at = "createOrder" /\ UNCHANGED cart
      /\ order' = [order EXCEPT ![a.order] = new]
      /\ Begin(r, next, req[r].on, a, req[r].seen)
  BY DEF PlaceCreate, At, Then, Sees
<1>2. /\ req'[r].at = next /\ req'[r].arg = a
      /\ \A q \in Handling \ {r} : req'[q] = req[q]
  BY <1>1, BeginIs
<1>3. a \in Placement /\ req[r].seen \subseteq Lines
  BY <1>1 DEF ShopInv, ShopHandler, Placing
<1>4. new = [placed |-> TRUE, lines |-> req[r].seen, customer |-> a.customer,
             discount |-> 0, redeemed |-> 0, paid |-> FALSE]
  BY DEF Placed
<1>5. Redeems(a) => a.customer \in Customers
  BY <1>3 DEF Redeems, Placement
<1>6. \A q \in Handling \ {r} : req[q].at \in Placing => req[q].arg.order # a.order
  BY <1>1 DEF ShopInv, OneEach, Placing
<1> HIDE DEF a, new
<1>7. /\ order'[a.order] = new
      /\ \A o \in Orders \ {a.order} : order'[o] = order[o]
  BY <1>1, <1>3 DEF ShopInv, OrdersTyped, Placement
<1>8. OrdersTyped'
  BY <1>1, <1>3, <1>4 DEF ShopInv, OrdersTyped, Placement
<1>9. OneEach'
  BY <1>1, <1>2, <1>6 DEF ShopInv, OneEach, Placing
<1>10. ShopHandler(r)'
  BY <1>2, <1>3, <1>4, <1>5, <1>7 DEF ShopHandler, Placing
<1>11. ASSUME NEW q \in Handling \ {r} PROVE ShopHandler(q)'
  BY OthersKeep, <1>2, <1>6, <1>7
<1>12. DiscountBacked'
  BY <1>4, <1>7 DEF ShopInv, DiscountBacked
<1> QED
  BY <1>1, <1>8, <1>9, <1>10, <1>11, <1>12 DEF ShopInv, CartsTyped

\* The points are found not to suffice, or taken.
LEMMA PlaceRedeemReadKeeps ==
    ASSUME Records, ShopInv, NEW r \in Handling, PlaceRedeemRead(r)
    PROVE  ShopInv'
<1>1. UNCHANGED <<cart, order>> /\ req[r].at = "redeemRead"
  BY DEF PlaceRedeemRead, shopVars, At
<1>2. CASE Done(r)
  BY <1>1, <1>2, DoneIs, ShopStays DEF shopVars, Placing
<1>3. CASE Begin(r, "redeemOrder", req[r].on, req[r].arg, account[req[r].arg.customer])
  <2>1. /\ req'[r].at = "redeemOrder" /\ req'[r].arg = req[r].arg
        /\ \A q \in Handling \ {r} : req'[q] = req[q]
    BY <1>3, BeginIs
  <2>2. ShopHandler(r)'
    BY <1>1, <2>1 DEF ShopInv, ShopHandler, Placing
  <2>3. OneEach'
    BY <1>1, <2>1 DEF ShopInv, OneEach, Placing
  <2> QED
    BY <1>1, <2>1, <2>2, <2>3 DEF ShopInv, CartsTyped, OrdersTyped, ShopHandler, DiscountBacked
<1> QED  BY <1>2, <1>3 DEF PlaceRedeemRead, Sees

LEMMA PlaceRedeemWriteKeeps ==
    ASSUME Records, ShopInv, NEW r \in Handling, PlaceRedeemWrite(r)
    PROVE  ShopInv'
<1> DEFINE a == req[r].arg
<1>1. /\ req[r].at = "redeemOrder" /\ UNCHANGED cart
      /\ order' = [order EXCEPT ![a.order].redeemed = @ + a.points]
      /\ Begin(r, "discount", req[r].on, a, req[r].seen)
  BY DEF PlaceRedeemWrite, At, Then, Sees
<1>2. /\ req'[r].at = "discount" /\ req'[r].arg = a
      /\ \A q \in Handling \ {r} : req'[q] = req[q]
  BY <1>1, BeginIs
<1>3. a \in Placement /\ order[a.order].placed /\ a.customer \in Customers
  BY <1>1 DEF ShopInv, ShopHandler, Placing
<1>4. \A q \in Handling \ {r} : req[q].at \in Placing => req[q].arg.order # a.order
  BY <1>1 DEF ShopInv, OneEach, Placing
<1> HIDE DEF a
<1>5. /\ order'[a.order].redeemed = order[a.order].redeemed + a.points
      /\ order'[a.order].discount = order[a.order].discount
      /\ order'[a.order].placed = order[a.order].placed
      /\ \A o \in Orders \ {a.order} : order'[o] = order[o]
  BY <1>1, <1>3 DEF ShopInv, OrdersTyped, Placement
<1>6. OrdersTyped'
  BY <1>1, <1>3 DEF ShopInv, OrdersTyped, Placement
<1>7. OneEach'
  BY <1>2, <1>4 DEF ShopInv, OneEach, Placing
<1>8. order[a.order].discount <= order[a.order].redeemed /\ order[a.order].discount \in Nat
         /\ order[a.order].redeemed \in Nat /\ a.points \in Nat
  BY <1>3 DEF ShopInv, DiscountBacked, OrdersTyped, Placement
<1>9. ShopHandler(r)'
  BY <1>2, <1>3, <1>5, <1>8 DEF ShopHandler, Placing
<1>10. ASSUME NEW q \in Handling \ {r} PROVE ShopHandler(q)'
  BY OthersKeep, <1>2, <1>4, <1>5
<1>11. DiscountBacked'
  BY <1>3, <1>5, <1>8 DEF ShopInv, DiscountBacked
<1> QED
  BY <1>1, <1>6, <1>7, <1>9, <1>10, <1>11 DEF ShopInv, CartsTyped

LEMMA PlaceDiscountKeeps ==
    ASSUME Records, ShopInv, NEW r \in Handling, PlaceDiscount(r)
    PROVE  ShopInv'
<1> DEFINE a == req[r].arg
<1>1. /\ req[r].at = "discount" /\ UNCHANGED cart
      /\ order' = [order EXCEPT ![a.order].discount = @ + a.points]
      /\ Begin(r, "clearCart", req[r].on, a, req[r].seen)
  BY DEF PlaceDiscount, Discounted, At, Then, Sees
<1>2. /\ req'[r].at = "clearCart"
      /\ \A q \in Handling \ {r} : req'[q] = req[q]
  BY <1>1, BeginIs
<1>3. /\ a \in Placement
      /\ order[a.order].discount + a.points <= order[a.order].redeemed
  BY <1>1 DEF ShopInv, ShopHandler, Placing
<1>4. \A q \in Handling \ {r} : req[q].at \in Placing => req[q].arg.order # a.order
  BY <1>1 DEF ShopInv, OneEach, Placing
<1> HIDE DEF a
<1>5. /\ order'[a.order].discount = order[a.order].discount + a.points
      /\ order'[a.order].redeemed = order[a.order].redeemed
      /\ \A o \in Orders \ {a.order} : order'[o] = order[o]
  BY <1>1, <1>3 DEF ShopInv, OrdersTyped, Placement
<1>6. OrdersTyped'
  <2>1. order[a.order].discount + a.points \in Nat
    BY <1>3 DEF ShopInv, OrdersTyped, Placement
  <2> QED  BY <1>1, <2>1 DEF ShopInv, OrdersTyped
<1>7. OneEach'
  BY <1>1, <1>2 DEF ShopInv, OneEach, Placing
<1>8. ShopHandler(r)'
  BY <1>2 DEF ShopHandler, Placing
<1>9. ASSUME NEW q \in Handling \ {r} PROVE ShopHandler(q)'
  BY OthersKeep, <1>2, <1>4, <1>5
<1>10. DiscountBacked'
  BY <1>3, <1>5 DEF ShopInv, DiscountBacked
<1> QED
  BY <1>1, <1>6, <1>7, <1>8, <1>9, <1>10 DEF ShopInv, CartsTyped

LEMMA ConfirmKeeps ==
    ASSUME Records, ShopInv, NEW r \in Handling,
           ConfirmWrite(r) \/ \E o \in Orders : ConfirmRead(r, o)
    PROVE  ShopInv'
<1>1. CASE \E o \in Orders : ConfirmRead(r, o)
  <2>1. PICK o \in Orders : Begin(r, "confirm", o, None, None) /\ UNCHANGED <<cart, order>>
    BY <1>1 DEF ConfirmRead, shopVars
  <2>2. /\ req'[r].at = "confirm" /\ req'[r].on = o
        /\ \A q \in Handling \ {r} : req'[q] = req[q]
    BY <2>1, BeginIs
  <2> QED
    BY <2>1, <2>2 DEF ShopInv, CartsTyped, OrdersTyped, ShopHandler, OneEach, DiscountBacked,
       Placing
<1>2. CASE ConfirmWrite(r)
  <2>1. /\ UNCHANGED cart /\ order' = [order EXCEPT ![req[r].on].paid = TRUE]
        /\ req[r].on \in Orders
    BY <1>2 DEF ConfirmWrite, At, ShopInv, ShopHandler
  <2>2. Moves(r, {"idle", "autoEarn"})
    BY <1>2, GoMoves, DoneMoves DEF ConfirmWrite
  <2>3. OrdersTyped'
    BY <2>1 DEF ShopInv, OrdersTyped
  <2>4. \A o \in Orders : /\ order'[o].placed = order[o].placed
                          /\ order'[o].discount = order[o].discount
                          /\ order'[o].redeemed = order[o].redeemed
    BY <2>1 DEF ShopInv, OrdersTyped
  <2>5. ASSUME NEW q \in Handling PROVE ShopHandler(q)'
    <3>1. CASE q = r  BY <2>2, <3>1 DEF Moves, ShopHandler, Placing
    <3>2. CASE q # r
      <4>1. ShopHandler(q) /\ req'[q] = req[q]
        BY <2>2, <3>2 DEF Moves, ShopInv
      <4>2. req[q].at \in Placing => req[q].arg.order \in Orders
        BY <4>1 DEF ShopHandler, Placement
      <4> QED  BY <2>4, <4>1, <4>2 DEF ShopHandler, Placing
    <3> QED  BY <3>1, <3>2
  <2>6. OneEach' /\ DiscountBacked'
    BY <2>2, <2>4 DEF Moves, ShopInv, OneEach, DiscountBacked, Placing
  <2> QED
    BY <2>1, <2>3, <2>5, <2>6 DEF ShopInv, CartsTyped
<1> QED  BY <1>1, <1>2

\* The points leave orders and carts alone.
LEMMA LoyaltyMoves ==
    ASSUME Records, NEW r \in Handling, LoyaltyNext(r)
    PROVE  Moves(r, {"idle", "createAccount", "earn", "redeem"})
<1>1. CASE \E c \in Customers : CreateCustomer(r, c)
  BY <1>1, BeginMoves DEF CreateCustomer
<1>2. CASE \E c \in Customers, n \in Manual : EarnRead(r, c, n) \/ RedeemRead(r, c, n)
  BY <1>2, BeginMoves DEF EarnRead, RedeemRead
<1>3. CASE CreateAccount(r) \/ EarnWrite(r) \/ RedeemWrite(r)
  BY <1>3, DoneMoves DEF CreateAccount, EarnWrite, RedeemWrite
<1>4. CASE AutoEarnRead(r)
  BY <1>4, SeesMoves, DoneMoves DEF AutoEarnRead
<1> QED  BY <1>1, <1>2, <1>3, <1>4 DEF LoyaltyNext

LEMMA ShopInvInit == Init => ShopInv
BY DEF Init, RequestsInit, ShopInit, ShopInv, CartsTyped, OrdersTyped, NoOrder, Quiet,
       ShopHandler, OneEach, DiscountBacked, Placing

LEMMA ShopInvNext == Handlers /\ ShopInv /\ [Next]_vars => ShopInv'
<1> SUFFICES ASSUME Records, ShopInv, [Next]_vars PROVE ShopInv'
  BY DEF Handlers
<1>1. CASE ~Shop
  <2>1. UNCHANGED shopVars /\ Elsewhere(SalesSteps \cup TenantSteps \cup DeliverySteps \cup StaffSteps)
    BY <1>1, NotShop DEF shopState
  <2> QED
    BY <2>1, ShopStays DEF Elsewhere, Placing, SalesSteps, BillSteps, StampSteps,
       PlatformSteps, TenantSteps,
                               DeliverySteps, StaffSteps
<1>2. ASSUME NEW r \in Handling, LoyaltyNext(r), UNCHANGED shopVars PROVE ShopInv'
  BY <1>2, LoyaltyMoves, ShopStays DEF Moves, Placing
<1>3. ASSUME NEW k \in Carts, InitCart(k) \/ CartExpires(k) PROVE ShopInv'
  <2>1. CartsTyped'
    BY <1>3 DEF InitCart, CartExpires, Dropped, ShopInv, CartsTyped
  <2>2. UNCHANGED <<req, order>>
    BY <1>3 DEF InitCart, CartExpires
  <2> QED
    BY <2>1, <2>2 DEF ShopInv, OrdersTyped, ShopHandler, OneEach, DiscountBacked
<1>4. ASSUME NEW r \in Handling, ShopNext(r) PROVE ShopInv'
  BY <1>4, EditCartKeeps, SaveCartKeeps, PlaceReadKeeps, PlaceCreateKeeps,
     PlaceRedeemReadKeeps, PlaceRedeemWriteKeeps, PlaceDiscountKeeps, ConfirmKeeps,
     PointsAssumption DEF ShopNext
<1> QED  BY <1>1, <1>2, <1>3, <1>4 DEF Shop

LEMMA ShopInvHolds == Spec => []ShopInv
<1>1. Spec => []Handlers
  BY HandlersHold
<1> QED  BY <1>1, ShopInvInit, ShopInvNext, PTL DEF Spec

\* Nobody gets a discount for points that were not taken, whatever runs beside the
\* placement and wherever it stops.
THEOREM DiscountsAreBacked == Spec => []DiscountBacked
BY ShopInvHolds, PTL DEF ShopInv

-----------------------------------------------------------------------------
(* Points and tiers                                                        *)

Account == [known : BOOLEAN, exists : BOOLEAN, points : Nat, earned : Nat,
            redeemed : Nat, tier : {"BRONZE", "SILVER"}]

\* What a handler read was no more than the rows said then, and they only grow.
LoyaltyHandler(r) ==
    LET q == req[r]
    IN  /\ q.at = "createAccount" => q.on \in Customers
        /\ q.at = "autoEarn" => q.on \in Customers /\ q.arg \in Nat
        /\ q.at = "earn" => /\ q.on \in Customers /\ q.arg \in Nat /\ q.seen \in Account
                            /\ q.seen.earned <= rows[q.on].earn
        /\ q.at = "redeem" => /\ q.on \in Customers /\ q.arg \in Nat /\ q.seen \in Account
                              /\ q.arg <= q.seen.points
                              /\ q.seen.redeemed <= rows[q.on].redeem
        /\ q.at = "redeemOrder" => /\ q.arg.customer \in Customers /\ q.arg.points \in Nat
                                   /\ q.seen \in Account
                                   /\ q.arg.points <= q.seen.points
                                   /\ q.seen.redeemed <= rows[q.arg.customer].redeem

LoyaltyInv ==
    /\ LoyaltyTypeOK
    /\ TierEarned
    /\ \A r \in Handling : LoyaltyHandler(r)

RowsGrow ==
    \A c \in Customers : /\ rows[c].earn \in Nat /\ rows'[c].earn \in Nat
                         /\ rows[c].redeem \in Nat /\ rows'[c].redeem \in Nat
                         /\ rows[c].earn <= rows'[c].earn
                         /\ rows[c].redeem <= rows'[c].redeem

LEMMA CreditKeeps ==
    ASSUME LoyaltyTypeOK, TierEarned, NEW c \in Customers, NEW seen \in Account,
           NEW n \in Nat, seen.earned <= rows[c].earn, Credit(c, seen, n)
    PROVE  LoyaltyTypeOK' /\ TierEarned' /\ RowsGrow
<1>1. /\ account' = [account EXCEPT ![c].points = seen.points + n,
                                    ![c].earned = seen.earned + n,
                                    ![c].tier = Tier(seen.earned + n)]
      /\ rows' = [rows EXCEPT ![c].earn = @ + n]
  BY DEF Credit, Credited, Account
<1>2. /\ seen.points + n \in Nat /\ seen.earned + n \in Nat
      /\ Tier(seen.earned + n) \in {"BRONZE", "SILVER"}
  BY DEF Account, Tier
<1>3. LoyaltyTypeOK'
  <2>1. account' \in [Customers -> Account]
    BY <1>1, <1>2 DEF LoyaltyTypeOK, Account
  <2>2. rows' \in [Customers -> [earn : Nat, redeem : Nat]]
    BY <1>1 DEF LoyaltyTypeOK
  <2> QED  BY <2>1, <2>2 DEF LoyaltyTypeOK, Account
<1>4. /\ account'[c].earned = seen.earned + n /\ account'[c].tier = Tier(seen.earned + n)
      /\ account'[c].redeemed = account[c].redeemed
      /\ \A d \in Customers \ {c} : account'[d] = account[d] /\ rows'[d] = rows[d]
      /\ rows'[c].earn = rows[c].earn + n /\ rows'[c].redeem = rows[c].redeem
  BY <1>1 DEF LoyaltyTypeOK
<1>5. /\ \A d \in Customers : rows[d].earn \in Nat /\ rows[d].redeem \in Nat
      /\ seen.earned \in Nat
  BY DEF LoyaltyTypeOK, Account
<1>6. RowsGrow
  BY <1>4, <1>5 DEF RowsGrow
<1>7. TierEarned'
  BY <1>4, <1>5 DEF TierEarned, Tier
<1> QED  BY <1>3, <1>6, <1>7

LEMMA DebitKeeps ==
    ASSUME LoyaltyTypeOK, TierEarned, NEW c \in Customers, NEW seen \in Account,
           NEW n \in Nat, n <= seen.points, seen.redeemed <= rows[c].redeem,
           Debit(c, seen, n)
    PROVE  LoyaltyTypeOK' /\ TierEarned' /\ RowsGrow
<1>1. /\ account' = [account EXCEPT ![c].points = seen.points - n,
                                    ![c].redeemed = seen.redeemed + n]
      /\ rows' = [rows EXCEPT ![c].redeem = @ + n]
  BY DEF Debit, Debited, Account
<1>2. seen.points - n \in Nat /\ seen.redeemed + n \in Nat
  BY DEF Account
<1>3. LoyaltyTypeOK'
  <2>1. account' \in [Customers -> Account]
    BY <1>1, <1>2 DEF LoyaltyTypeOK, Account
  <2>2. rows' \in [Customers -> [earn : Nat, redeem : Nat]]
    BY <1>1 DEF LoyaltyTypeOK
  <2> QED  BY <2>1, <2>2 DEF LoyaltyTypeOK, Account
<1>4. /\ account'[c].earned = account[c].earned /\ account'[c].tier = account[c].tier
      /\ account'[c].redeemed = seen.redeemed + n
      /\ \A d \in Customers \ {c} : account'[d] = account[d] /\ rows'[d] = rows[d]
      /\ rows'[c].earn = rows[c].earn /\ rows'[c].redeem = rows[c].redeem + n
  BY <1>1 DEF LoyaltyTypeOK
<1>5. /\ \A d \in Customers : rows[d].earn \in Nat /\ rows[d].redeem \in Nat
      /\ seen.redeemed \in Nat
  BY DEF LoyaltyTypeOK, Account
<1>6. RowsGrow
  BY <1>4, <1>5 DEF RowsGrow
<1>7. TierEarned'
  BY <1>4, <1>5 DEF TierEarned, Tier
<1> QED  BY <1>3, <1>6, <1>7

\* A handler that is as it was, or in no step that knows of an account.
Knowing == {"createAccount", "autoEarn", "earn", "redeem", "redeemOrder"}

LEMMA KnowledgeStays ==
    ASSUME LoyaltyInv, RowsGrow, NEW q \in Handling,
           req'[q] = req[q] \/ req'[q].at \notin Knowing
    PROVE  LoyaltyHandler(q)'
<1>1. LoyaltyHandler(q)
  BY DEF LoyaltyInv
<1>2. CASE req'[q].at \notin Knowing
  BY <1>2 DEF LoyaltyHandler, Knowing
<1>3. CASE req'[q] = req[q]
  <2>1. req[q].at = "earn" =>
           req[q].seen.earned \in Nat /\ req[q].seen.earned <= rows'[req[q].on].earn
    BY <1>1 DEF LoyaltyHandler, RowsGrow, Account
  <2>2. req[q].at = "redeem" =>
           req[q].seen.redeemed \in Nat /\ req[q].seen.redeemed <= rows'[req[q].on].redeem
    BY <1>1 DEF LoyaltyHandler, RowsGrow, Account
  <2>3. req[q].at = "redeemOrder" =>
           req[q].seen.redeemed <= rows'[req[q].arg.customer].redeem
    BY <1>1 DEF LoyaltyHandler, RowsGrow, Account
  <2> QED  BY <1>1, <1>3, <2>1, <2>2, <2>3 DEF LoyaltyHandler
<1> QED  BY <1>2, <1>3

LEMMA AccountsStay ==
    ASSUME LoyaltyInv, UNCHANGED loyaltyVars
    PROVE  LoyaltyTypeOK' /\ TierEarned' /\ RowsGrow
BY DEF LoyaltyInv, LoyaltyTypeOK, TierEarned, RowsGrow, loyaltyVars

LEMMA OneLearns ==
    ASSUME LoyaltyInv, LoyaltyTypeOK', TierEarned', RowsGrow, NEW r \in Handling,
           \A q \in Handling \ {r} : req'[q] = req[q], LoyaltyHandler(r)'
    PROVE  LoyaltyInv'
<1>1. \A q \in Handling : LoyaltyHandler(q)'
  BY KnowledgeStays
<1> QED  BY <1>1 DEF LoyaltyInv

LEMMA CreateKeepsPoints ==
    ASSUME Records, LoyaltyInv, NEW r \in Handling,
           CreateAccount(r) \/ \E c \in Customers : CreateCustomer(r, c)
    PROVE  LoyaltyInv'
<1>1. PICK c \in Customers :
         /\ \/ account' = [account EXCEPT ![c].known = TRUE]
            \/ account' = [account EXCEPT ![c].exists = TRUE]
         /\ UNCHANGED rows
  BY DEF CreateCustomer, CreateAccount, At, LoyaltyInv, LoyaltyHandler
<1>2. /\ account' \in [Customers -> Account]
      /\ \A d \in Customers : /\ account'[d].earned = account[d].earned
                              /\ account'[d].redeemed = account[d].redeemed
                              /\ account'[d].tier = account[d].tier
  <2>1. account \in [Customers -> Account]
    BY DEF LoyaltyInv, LoyaltyTypeOK, Account
  <2>2. CASE account' = [account EXCEPT ![c].known = TRUE]
    BY <2>1, <2>2 DEF Account
  <2>3. CASE account' = [account EXCEPT ![c].exists = TRUE]
    BY <2>1, <2>3 DEF Account
  <2> QED  BY <1>1, <2>2, <2>3
<1>3. LoyaltyTypeOK' /\ TierEarned' /\ RowsGrow
  BY <1>1, <1>2 DEF LoyaltyInv, LoyaltyTypeOK, TierEarned, RowsGrow, Account
<1>4. CASE CreateAccount(r)
  BY <1>3, <1>4, DoneIs, OneLearns DEF CreateAccount, LoyaltyHandler
<1>5. ASSUME NEW d \in Customers, CreateCustomer(r, d) PROVE LoyaltyInv'
  <2>1. Begin(r, "createAccount", d, None, None)
    BY <1>5 DEF CreateCustomer
  <2>2. LoyaltyHandler(r)' /\ \A q \in Handling \ {r} : req'[q] = req[q]
    BY <2>1, BeginIs DEF LoyaltyHandler
  <2> QED  BY <1>3, <2>2, OneLearns
<1> QED  BY <1>4, <1>5

LEMMA ReadsKeepPoints ==
    ASSUME Records, LoyaltyInv, NEW r \in Handling,
           \/ \E c \in Customers, n \in Manual : EarnRead(r, c, n) \/ RedeemRead(r, c, n)
           \/ AutoEarnRead(r)
    PROVE  LoyaltyInv'
<1>1. UNCHANGED loyaltyVars
  BY DEF EarnRead, RedeemRead, AutoEarnRead
<1>2. \A c \in Customers : account[c] \in Account /\ account[c].earned <= rows[c].earn
                           /\ account[c].redeemed <= rows[c].redeem
  BY DEF LoyaltyInv, LoyaltyTypeOK, TierEarned, Account
<1>3. UNCHANGED rows
  BY <1>1 DEF loyaltyVars
<1>4. LoyaltyHandler(r)' /\ \A q \in Handling \ {r} : req'[q] = req[q]
  <2>1. ASSUME NEW c \in Customers, NEW n \in Manual, EarnRead(r, c, n)
        PROVE  LoyaltyHandler(r)' /\ \A q \in Handling \ {r} : req'[q] = req[q]
    <3>1. Begin(r, "earn", c, n, account[c]) /\ n \in Nat
      BY <2>1, PointsAssumption DEF EarnRead
    <3> QED  BY <3>1, <1>2, <1>3, BeginIs DEF LoyaltyHandler
  <2>2. ASSUME NEW c \in Customers, NEW n \in Manual, RedeemRead(r, c, n)
        PROVE  LoyaltyHandler(r)' /\ \A q \in Handling \ {r} : req'[q] = req[q]
    <3>1. Begin(r, "redeem", c, n, account[c]) /\ n \in Nat /\ account[c].points >= n
      BY <2>2, PointsAssumption DEF RedeemRead, Suffices
    <3>2. n <= account[c].points
      BY <3>1, <1>2 DEF Account
    <3> QED  BY <3>1, <3>2, <1>2, <1>3, BeginIs DEF LoyaltyHandler
  <2>3. CASE AutoEarnRead(r)
    <3>1. req[r].on \in Customers /\ req[r].arg \in Nat
      BY <2>3 DEF AutoEarnRead, At, LoyaltyInv, LoyaltyHandler
    <3>2. CASE Done(r)
      BY <3>2, DoneIs DEF LoyaltyHandler
    <3>3. CASE Begin(r, "earn", req[r].on, req[r].arg, account[req[r].on])
      BY <3>1, <3>3, <1>2, <1>3, BeginIs DEF LoyaltyHandler
    <3> QED  BY <2>3, <3>2, <3>3 DEF AutoEarnRead, Sees
  <2> QED  BY <2>1, <2>2, <2>3
<1> QED  BY <1>1, <1>4, AccountsStay, OneLearns

LEMMA EarnKeepsPoints ==
    ASSUME Records, LoyaltyInv, NEW r \in Handling, EarnWrite(r)
    PROVE  LoyaltyInv'
<1>1. /\ Credit(req[r].on, req[r].seen, req[r].arg) /\ Done(r)
      /\ req[r].on \in Customers /\ req[r].arg \in Nat /\ req[r].seen \in Account
      /\ req[r].seen.earned <= rows[req[r].on].earn
  BY DEF EarnWrite, At, LoyaltyInv, LoyaltyHandler
<1>2. LoyaltyTypeOK' /\ TierEarned' /\ RowsGrow
  BY <1>1, CreditKeeps DEF LoyaltyInv
<1>3. LoyaltyHandler(r)' /\ \A q \in Handling \ {r} : req'[q] = req[q]
  BY <1>1, DoneIs DEF LoyaltyHandler
<1> QED  BY <1>2, <1>3, OneLearns

LEMMA RedeemKeepsPoints ==
    ASSUME Records, LoyaltyInv, NEW r \in Handling, RedeemWrite(r) \/ PlaceRedeemWrite(r)
    PROVE  LoyaltyInv'
<1>1. CASE RedeemWrite(r)
  <2>1. /\ Debit(req[r].on, req[r].seen, req[r].arg) /\ Done(r)
        /\ req[r].on \in Customers /\ req[r].arg \in Nat /\ req[r].seen \in Account
        /\ req[r].arg <= req[r].seen.points /\ req[r].seen.redeemed <= rows[req[r].on].redeem
    BY <1>1 DEF RedeemWrite, At, LoyaltyInv, LoyaltyHandler
  <2>2. LoyaltyTypeOK' /\ TierEarned' /\ RowsGrow
    BY <2>1, DebitKeeps DEF LoyaltyInv
  <2>3. LoyaltyHandler(r)' /\ \A q \in Handling \ {r} : req'[q] = req[q]
    BY <2>1, DoneIs DEF LoyaltyHandler
  <2> QED  BY <2>2, <2>3, OneLearns
<1>2. CASE PlaceRedeemWrite(r)
  <2> DEFINE c == req[r].arg.customer
             n == req[r].arg.points
  <2>1. /\ Debit(c, req[r].seen, n) /\ Then(r, "discount")
        /\ c \in Customers /\ n \in Nat /\ req[r].seen \in Account
        /\ n <= req[r].seen.points /\ req[r].seen.redeemed <= rows[c].redeem
    BY <1>2 DEF PlaceRedeemWrite, At, LoyaltyInv, LoyaltyHandler
  <2>2. LoyaltyTypeOK' /\ TierEarned' /\ RowsGrow
    BY <2>1, DebitKeeps DEF LoyaltyInv
  <2>3. LoyaltyHandler(r)' /\ \A q \in Handling \ {r} : req'[q] = req[q]
    BY <2>1, BeginIs DEF LoyaltyHandler, Then, Sees
  <2> QED  BY <2>2, <2>3, OneLearns
<1> QED  BY <1>1, <1>2

LEMMA PlaceRedeemReadKeepsPoints ==
    ASSUME Records, ShopInv, LoyaltyInv, NEW r \in Handling, PlaceRedeemRead(r)
    PROVE  LoyaltyInv'
<1> DEFINE a == req[r].arg
           has == account[a.customer]
<1>1. a.customer \in Customers /\ a.points \in Nat
  BY DEF PlaceRedeemRead, At, ShopInv, ShopHandler, Placing, Placement
<1>2. has \in Account /\ has.redeemed <= rows[a.customer].redeem
  BY <1>1 DEF LoyaltyInv, LoyaltyTypeOK, TierEarned, Account
<1>3. UNCHANGED loyaltyVars /\ UNCHANGED rows
  BY DEF PlaceRedeemRead, loyaltyVars
<1>4. CASE Done(r)
  BY <1>3, <1>4, DoneIs, AccountsStay, OneLearns DEF LoyaltyHandler
<1>5. CASE Begin(r, "redeemOrder", req[r].on, a, has) /\ has.points >= a.points
  <2>1. a.points <= has.points
    BY <1>1, <1>2, <1>5 DEF Account
  <2>2. LoyaltyHandler(r)' /\ \A q \in Handling \ {r} : req'[q] = req[q]
    BY <1>1, <1>2, <1>3, <1>5, <2>1, BeginIs DEF LoyaltyHandler
  <2> QED  BY <1>3, <2>2, AccountsStay, OneLearns
<1> QED  BY <1>4, <1>5 DEF PlaceRedeemRead, Sees, Suffices

\* The points of an order are a number.
LEMMA TotalsAreNumbers ==
    ASSUME ShopInv, NEW o \in Orders  PROVE  Total(o) \in Int
<1>1. order[o].lines \subseteq Lines /\ order[o].discount \in Nat
  BY DEF ShopInv, OrdersTyped
<1>2. Cardinality(order[o].lines) \in Nat
  BY <1>1, PricesAssumption, FS_Subset, FS_CardinalityType
<1>3. Price * Cardinality(order[o].lines) \in Nat
  BY <1>2, PricesAssumption
<1> QED  BY <1>1, <1>3 DEF Total

LEMMA ConfirmKeepsPoints ==
    ASSUME Records, ShopInv, LoyaltyInv, NEW r \in Handling, ConfirmWrite(r)
    PROVE  LoyaltyInv'
<1> DEFINE o == req[r].on
           points == IF Total(o) > 0 THEN Total(o) \div Rate ELSE 0
<1>1. o \in Orders /\ UNCHANGED loyaltyVars
  BY DEF ConfirmWrite, At, ShopInv, ShopHandler
<1>2. points \in Nat
  <2>1. Total(o) \in Int /\ Rate \in Nat \ {0}
    BY <1>1, TotalsAreNumbers, PricesAssumption
  <2> QED  BY <2>1
<1>3. CASE Done(r)
  BY <1>1, <1>3, DoneIs, AccountsStay, OneLearns DEF LoyaltyHandler
<1>4. CASE Begin(r, "autoEarn", order[o].customer, points, None) /\ order[o].customer # None
  <2>1. order[o].customer \in Customers
    BY <1>1, <1>4 DEF ShopInv, OrdersTyped
  <2> HIDE DEF points
  <2>2. LoyaltyHandler(r)' /\ \A q \in Handling \ {r} : req'[q] = req[q]
    BY <1>2, <1>4, <2>1, BeginIs DEF LoyaltyHandler
  <2> QED  BY <1>1, <2>2, AccountsStay, OneLearns
<1> QED  BY <1>3, <1>4 DEF ConfirmWrite, Begin

\* The steps of the shop that are not about points.
LEMMA ShopKeepsPoints ==
    ASSUME Records, ShopInv, LoyaltyInv, NEW r \in Handling, ShopNext(r)
    PROVE  LoyaltyInv'
<1> DEFINE Rest == {"saveCart", "createOrder", "redeemRead", "clearCart", "confirm", "idle"}
<1>1. CASE UNCHANGED loyaltyVars /\ Moves(r, Rest)
  <2>1. \A q \in Handling : req'[q] = req[q] \/ req'[q].at \notin Knowing
    BY <1>1 DEF Moves, Knowing
  <2> QED  BY <1>1, <2>1, AccountsStay, KnowledgeStays DEF LoyaltyInv
<1>2. ASSUME NEW k \in Carts, NEW lines \in SUBSET Lines, EditCart(r, k, lines)
      PROVE  LoyaltyInv'
  BY <1>1, <1>2, BeginMoves DEF EditCart
<1>3. ASSUME NEW k \in Carts, NEW o \in Orders, NEW c \in Customers \cup {None},
             NEW n \in Manual \cup {0}, PlaceRead(r, k, o, c, n)
      PROVE  LoyaltyInv'
  BY <1>1, <1>3, BeginMoves DEF PlaceRead
<1>4. ASSUME NEW o \in Orders, ConfirmRead(r, o) PROVE LoyaltyInv'
  BY <1>1, <1>4, BeginMoves DEF ConfirmRead
<1>5. CASE SaveCart(r) \/ PlaceClear(r)
  BY <1>1, <1>5, DoneMoves DEF SaveCart, PlaceClear
<1>6. CASE PlaceCreate(r) \/ PlaceDiscount(r)
  BY <1>1, <1>6, ThenMoves DEF PlaceCreate, PlaceDiscount
<1> QED
  BY <1>2, <1>3, <1>4, <1>5, <1>6, PlaceRedeemReadKeepsPoints, RedeemKeepsPoints,
     ConfirmKeepsPoints DEF ShopNext

LEMMA LoyaltyInvInit == Init => LoyaltyInv
<1> SUFFICES ASSUME Init PROVE LoyaltyInv
  OBVIOUS
<1>1. /\ account = [c \in Customers |-> NoAccount]
      /\ rows = [c \in Customers |-> [earn |-> 0, redeem |-> 0]]
      /\ \A r \in Handling : req[r].at = "idle"
  BY DEF Init, RequestsInit, Quiet, ShopInit, LoyaltyInit
<1>2. LoyaltyTypeOK
  BY <1>1 DEF LoyaltyTypeOK, NoAccount
<1>3. TierEarned
  BY <1>1, PointsAssumption DEF TierEarned, NoAccount, Tier
<1> QED  BY <1>1, <1>2, <1>3 DEF LoyaltyInv, LoyaltyHandler

LEMMA LoyaltyInvNext == Handlers /\ ShopInv /\ LoyaltyInv /\ [Next]_vars => LoyaltyInv'
<1> SUFFICES ASSUME Records, ShopInv, LoyaltyInv, [Next]_vars PROVE LoyaltyInv'
  BY DEF Handlers
<1>1. CASE ~Shop
  <2>1. /\ UNCHANGED loyaltyVars
        /\ \A q \in Handling : req'[q] = req[q] \/ req'[q].at \notin Knowing
    BY <1>1, NotShop DEF shopState, Elsewhere, Knowing, SalesSteps, BillSteps, StampSteps,
       PlatformSteps, TenantSteps,
                            DeliverySteps, StaffSteps
  <2> QED  BY <2>1, AccountsStay, KnowledgeStays DEF LoyaltyInv
<1>2. ASSUME NEW k \in Carts, InitCart(k) \/ CartExpires(k) PROVE LoyaltyInv'
  <2>1. UNCHANGED loyaltyVars /\ UNCHANGED req
    BY <1>2 DEF InitCart, CartExpires
  <2> QED  BY <2>1, AccountsStay, KnowledgeStays DEF LoyaltyInv
<1>3. ASSUME NEW r \in Handling, LoyaltyNext(r) PROVE LoyaltyInv'
  BY <1>3, CreateKeepsPoints, ReadsKeepPoints, EarnKeepsPoints, RedeemKeepsPoints
     DEF LoyaltyNext
<1> QED  BY <1>1, <1>2, <1>3, ShopKeepsPoints DEF Shop

LEMMA LoyaltyInvHolds == Spec => []LoyaltyInv
<1>1. Spec => []Handlers /\ []ShopInv
  BY HandlersHold, ShopInvHolds, PTL
<1> QED  BY <1>1, LoyaltyInvInit, LoyaltyInvNext, PTL DEF Spec

\* However earnings and redemptions race, an account is never credited with more
\* than was earned, and its tier is the one of what it was credited with.
THEOREM TiersAreEarned == Spec => []TierEarned
BY LoyaltyInvHolds, PTL DEF LoyaltyInv

-----------------------------------------------------------------------------
(* Points, one handler at a time                                           *)

\* The account is what its rows say, and there are no points without one.
Explained(c) ==
    LET a == account[c]
    IN  /\ a.points + rows[c].redeem = rows[c].earn
        /\ a.earned = rows[c].earn
        /\ a.redeemed = rows[c].redeem
        /\ a.points > 0 => a.exists

\* What a handler has read is the account still.
PointsKnown(r) ==
    LET q == req[r]
    IN  /\ q.at = "earn" => q.seen = account[q.on] /\ q.seen.exists
        /\ q.at = "redeem" => q.seen = account[q.on] /\ q.seen.exists
        /\ q.at = "redeemOrder" => /\ q.seen = account[q.arg.customer]
                                   /\ q.seen.exists

PointsInv ==
    Alone => /\ \A c \in Customers : Explained(c)
             /\ \A r \in Handling : PointsKnown(r)

\* A step of the handler whose turn it is: the others know nothing.
LEMMA PointsStep ==
    ASSUME OneAtATime, NEW r \in Handling, Turn(r), \A q \in Handling \ {r} : req'[q] = req[q],
           calls' = calls, Alone => (\A c \in Customers : Explained(c)') /\ PointsKnown(r)'
    PROVE  PointsInv'
<1> SUFFICES ASSUME Alone PROVE (\A q \in Handling : PointsKnown(q)')
  BY DEF PointsInv, Alone
<1>1. \A q \in Handling \ {r} : req'[q].at = "idle"
  BY TurnIsAlone DEF Idle
<1> QED  BY <1>1 DEF PointsKnown

\* A step that leaves the points alone.
LEMMA PointsStay ==
    ASSUME PointsInv, UNCHANGED loyaltyVars, calls' = calls,
           \A q \in Handling :
              req'[q] = req[q] \/ req'[q].at \notin {"earn", "redeem", "redeemOrder"}
    PROVE  PointsInv'
BY DEF PointsInv, Alone, Explained, PointsKnown, loyaltyVars

LEMMA CreditExplained ==
    ASSUME LoyaltyTypeOK, \A d \in Customers : Explained(d), NEW c \in Customers, NEW n \in Nat,
           account[c].exists, Credit(c, account[c], n)
    PROVE  \A d \in Customers : Explained(d)'
<1>1. account[c] \in Account /\ rows[c].earn \in Nat /\ rows[c].redeem \in Nat
  BY DEF LoyaltyTypeOK, Account
<1>2. /\ account' = [account EXCEPT ![c].points = account[c].points + n,
                                    ![c].earned = account[c].earned + n,
                                    ![c].tier = Tier(account[c].earned + n)]
      /\ rows' = [rows EXCEPT ![c].earn = @ + n]
  BY <1>1 DEF Credit, Credited, Account
<1>3. /\ account'[c].points = account[c].points + n
      /\ account'[c].earned = account[c].earned + n
      /\ account'[c].redeemed = account[c].redeemed
      /\ account'[c].exists = account[c].exists
      /\ rows'[c].earn = rows[c].earn + n /\ rows'[c].redeem = rows[c].redeem
      /\ \A d \in Customers \ {c} : account'[d] = account[d] /\ rows'[d] = rows[d]
  BY <1>2 DEF LoyaltyTypeOK
<1>4. Explained(c)'
  BY <1>1, <1>3 DEF Explained, Account
<1>5. \A d \in Customers \ {c} : Explained(d)'
  BY <1>3 DEF Explained
<1> QED  BY <1>4, <1>5

LEMMA DebitExplained ==
    ASSUME LoyaltyTypeOK, \A d \in Customers : Explained(d), NEW c \in Customers, NEW n \in Nat,
           account[c].exists, n <= account[c].points, Debit(c, account[c], n)
    PROVE  \A d \in Customers : Explained(d)'
<1>1. account[c] \in Account /\ rows[c].earn \in Nat /\ rows[c].redeem \in Nat
  BY DEF LoyaltyTypeOK, Account
<1>2. /\ account' = [account EXCEPT ![c].points = account[c].points - n,
                                    ![c].redeemed = account[c].redeemed + n]
      /\ rows' = [rows EXCEPT ![c].redeem = @ + n]
  BY <1>1 DEF Debit, Debited, Account
<1>3. /\ account'[c].points = account[c].points - n
      /\ account'[c].redeemed = account[c].redeemed + n
      /\ account'[c].earned = account[c].earned
      /\ account'[c].exists = account[c].exists
      /\ rows'[c].redeem = rows[c].redeem + n /\ rows'[c].earn = rows[c].earn
      /\ \A d \in Customers \ {c} : account'[d] = account[d] /\ rows'[d] = rows[d]
  BY <1>2 DEF LoyaltyTypeOK
<1>4. Explained(c)'
  BY <1>1, <1>3 DEF Explained, Account
<1>5. \A d \in Customers \ {c} : Explained(d)'
  BY <1>3 DEF Explained
<1> QED  BY <1>4, <1>5

\* The writes of accounts.
LEMMA CreateKeepsExplained ==
    ASSUME Records, OneAtATime, LoyaltyInv, PointsInv, NEW r \in Handling, Turn(r),
           CreateAccount(r) \/ \E c \in Customers : CreateCustomer(r, c)
    PROVE  PointsInv'
<1>1. PICK c \in Customers :
         /\ \/ account' = [account EXCEPT ![c].known = TRUE]
            \/ account' = [account EXCEPT ![c].exists = TRUE]
         /\ UNCHANGED rows
  BY DEF CreateCustomer, CreateAccount, At, LoyaltyInv, LoyaltyHandler
<1>2. \A d \in Customers : /\ account'[d].points = account[d].points
                           /\ account'[d].earned = account[d].earned
                           /\ account'[d].redeemed = account[d].redeemed
                           /\ account[d].exists => account'[d].exists
  BY <1>1 DEF LoyaltyInv, LoyaltyTypeOK
<1>3. Alone => \A d \in Customers : Explained(d)'
  BY <1>1, <1>2 DEF PointsInv, Explained
<1>4. calls' = calls
  BY DEF CreateAccount, CreateCustomer
<1>5. req'[r].at \in {"idle", "createAccount"} /\ \A q \in Handling \ {r} : req'[q] = req[q]
  <2>1. CASE CreateAccount(r)
    BY <2>1, DoneIs DEF CreateAccount
  <2>2. ASSUME NEW d \in Customers, CreateCustomer(r, d)
        PROVE  /\ req'[r].at \in {"idle", "createAccount"}
               /\ \A q \in Handling \ {r} : req'[q] = req[q]
    BY <2>2, BeginIs DEF CreateCustomer
  <2> QED  BY <2>1, <2>2
<1> QED  BY <1>3, <1>4, <1>5, PointsStep DEF PointsKnown

LEMMA ReadsKeepExplained ==
    ASSUME Records, OneAtATime, LoyaltyInv, PointsInv, NEW r \in Handling, Turn(r),
           \/ \E c \in Customers, n \in Manual : EarnRead(r, c, n) \/ RedeemRead(r, c, n)
           \/ AutoEarnRead(r)
    PROVE  PointsInv'
<1>1. calls' = calls /\ UNCHANGED <<account, rows>>
  BY DEF EarnRead, RedeemRead, AutoEarnRead, loyaltyVars
<1>2. \/ Done(r)
      \/ \E c \in Customers, step \in {"earn", "redeem"} :
            account[c].exists /\ \E n : Begin(r, step, c, n, account[c])
  BY DEF EarnRead, RedeemRead, AutoEarnRead, Suffices, Sees, At, LoyaltyInv, LoyaltyHandler
<1>3. PointsKnown(r)' /\ \A q \in Handling \ {r} : req'[q] = req[q]
  BY <1>1, <1>2, BeginIs, DoneIs DEF PointsKnown
<1>4. Alone => \A c \in Customers : Explained(c)'
  BY <1>1 DEF PointsInv, Explained
<1> QED  BY <1>1, <1>3, <1>4, PointsStep

LEMMA PlaceRedeemReadKeepsExplained ==
    ASSUME Records, OneAtATime, PointsInv, NEW r \in Handling, Turn(r), PlaceRedeemRead(r)
    PROVE  PointsInv'
<1>1. calls' = calls /\ UNCHANGED <<account, rows>>
  BY DEF PlaceRedeemRead, loyaltyVars
<1>2. \/ Done(r)
      \/ /\ Begin(r, "redeemOrder", req[r].on, req[r].arg, account[req[r].arg.customer])
         /\ account[req[r].arg.customer].exists
  BY DEF PlaceRedeemRead, Suffices, Sees
<1>3. PointsKnown(r)' /\ \A q \in Handling \ {r} : req'[q] = req[q]
  BY <1>1, <1>2, BeginIs, DoneIs DEF PointsKnown
<1>4. Alone => \A c \in Customers : Explained(c)'
  BY <1>1 DEF PointsInv, Explained
<1> QED  BY <1>1, <1>3, <1>4, PointsStep

LEMMA EarnKeepsExplained ==
    ASSUME Records, OneAtATime, LoyaltyInv, PointsInv, NEW r \in Handling, Turn(r), EarnWrite(r)
    PROVE  PointsInv'
<1>1. /\ Credit(req[r].on, req[r].seen, req[r].arg) /\ Done(r) /\ calls' = calls
      /\ req[r].on \in Customers /\ req[r].arg \in Nat
      /\ Alone => req[r].seen = account[req[r].on] /\ req[r].seen.exists
  BY DEF EarnWrite, At, LoyaltyInv, LoyaltyHandler, PointsInv, PointsKnown
<1>2. Alone => \A c \in Customers : Explained(c)'
  BY <1>1, CreditExplained DEF LoyaltyInv, PointsInv
<1>3. PointsKnown(r)' /\ \A q \in Handling \ {r} : req'[q] = req[q]
  BY <1>1, DoneIs DEF PointsKnown
<1> QED  BY <1>1, <1>2, <1>3, PointsStep

LEMMA RedeemKeepsExplained ==
    ASSUME Records, OneAtATime, LoyaltyInv, PointsInv, NEW r \in Handling, Turn(r),
           RedeemWrite(r) \/ PlaceRedeemWrite(r)
    PROVE  PointsInv'
<1>1. CASE RedeemWrite(r)
  <2>1. /\ Debit(req[r].on, req[r].seen, req[r].arg) /\ Done(r) /\ calls' = calls
        /\ req[r].on \in Customers /\ req[r].arg \in Nat /\ req[r].arg <= req[r].seen.points
        /\ Alone => req[r].seen = account[req[r].on] /\ req[r].seen.exists
    BY <1>1 DEF RedeemWrite, At, LoyaltyInv, LoyaltyHandler, PointsInv, PointsKnown
  <2>2. Alone => \A c \in Customers : Explained(c)'
    BY <2>1, DebitExplained DEF LoyaltyInv, PointsInv
  <2>3. PointsKnown(r)' /\ \A q \in Handling \ {r} : req'[q] = req[q]
    BY <2>1, DoneIs DEF PointsKnown
  <2> QED  BY <2>1, <2>2, <2>3, PointsStep
<1>2. CASE PlaceRedeemWrite(r)
  <2> DEFINE c == req[r].arg.customer
             n == req[r].arg.points
  <2>1. /\ Debit(c, req[r].seen, n) /\ calls' = calls
        /\ Begin(r, "discount", req[r].on, req[r].arg, req[r].seen)
        /\ c \in Customers /\ n \in Nat /\ n <= req[r].seen.points
        /\ Alone => req[r].seen = account[c] /\ req[r].seen.exists
    BY <1>2 DEF PlaceRedeemWrite, At, Then, Sees, LoyaltyInv, LoyaltyHandler, PointsInv, PointsKnown
  <2>2. Alone => \A d \in Customers : Explained(d)'
    BY <2>1, DebitExplained DEF LoyaltyInv, PointsInv
  <2>3. PointsKnown(r)' /\ \A q \in Handling \ {r} : req'[q] = req[q]
    BY <2>1, BeginIs DEF PointsKnown
  <2> QED  BY <2>1, <2>2, <2>3, PointsStep
<1> QED  BY <1>1, <1>2

\* The steps of the shop that are not about points.
LEMMA ShopKeepsExplained ==
    ASSUME Records, OneAtATime, LoyaltyInv, PointsInv, NEW r \in Handling, ShopNext(r)
    PROVE  PointsInv'
<1> DEFINE Rest == {"saveCart", "createOrder", "redeemRead", "clearCart", "confirm",
                    "autoEarn", "idle"}
<1>1. CASE UNCHANGED loyaltyVars /\ Moves(r, Rest)
  <2>1. /\ calls' = calls
        /\ \A q \in Handling :
              req'[q] = req[q] \/ req'[q].at \notin {"earn", "redeem", "redeemOrder"}
    BY <1>1 DEF Moves
  <2> QED  BY <1>1, <2>1, PointsStay
<1>2. ASSUME NEW k \in Carts, NEW lines \in SUBSET Lines, EditCart(r, k, lines)
      PROVE  PointsInv'
  BY <1>1, <1>2, BeginMoves DEF EditCart
<1>3. ASSUME NEW k \in Carts, NEW o \in Orders, NEW c \in Customers \cup {None},
             NEW n \in Manual \cup {0}, PlaceRead(r, k, o, c, n)
      PROVE  PointsInv'
  BY <1>1, <1>3, BeginMoves DEF PlaceRead
<1>4. ASSUME NEW o \in Orders, ConfirmRead(r, o) PROVE PointsInv'
  BY <1>1, <1>4, BeginMoves DEF ConfirmRead
<1>5. CASE SaveCart(r) \/ PlaceClear(r)
  BY <1>1, <1>5, DoneMoves DEF SaveCart, PlaceClear
<1>6. CASE PlaceCreate(r) \/ PlaceDiscount(r)
  BY <1>1, <1>6, ThenMoves DEF PlaceCreate, PlaceDiscount
<1>7. CASE ConfirmWrite(r)
  BY <1>1, <1>7, GoMoves, DoneMoves DEF ConfirmWrite
<1>8. Turn(r)
  BY ShopTurns
<1> QED
  BY <1>2, <1>3, <1>4, <1>5, <1>6, <1>7, <1>8, PlaceRedeemReadKeepsExplained,
     RedeemKeepsExplained DEF ShopNext

LEMMA PointsInvNext ==
    Handlers /\ OneAtATime /\ LoyaltyInv /\ PointsInv /\ [Next]_vars => PointsInv'
<1> SUFFICES ASSUME Records, OneAtATime, LoyaltyInv, PointsInv, [Next]_vars PROVE PointsInv'
  BY DEF Handlers
<1>1. CASE ~Shop
  <2>1. /\ UNCHANGED loyaltyVars /\ calls' = calls
        /\ \A q \in Handling :
              req'[q] = req[q] \/ req'[q].at \notin {"earn", "redeem", "redeemOrder"}
    BY <1>1, NotShop DEF shopState, Elsewhere, SalesSteps, BillSteps, StampSteps,
       PlatformSteps, TenantSteps, DeliverySteps, StaffSteps
  <2> QED  BY <2>1, PointsStay
<1>2. ASSUME NEW k \in Carts, InitCart(k) \/ CartExpires(k) PROVE PointsInv'
  BY <1>2, PointsStay DEF InitCart, CartExpires
<1>3. ASSUME NEW r \in Handling, LoyaltyNext(r) PROVE PointsInv'
  BY <1>3, ShopTurns, CreateKeepsExplained, ReadsKeepExplained, EarnKeepsExplained,
     RedeemKeepsExplained DEF LoyaltyNext
<1> QED  BY <1>1, <1>2, <1>3, ShopKeepsExplained DEF Shop

LEMMA PointsInvHolds == Spec => []PointsInv
<1>1. Init => PointsInv
  BY DEF Init, RequestsInit, Quiet, ShopInit, LoyaltyInit, NoAccount, PointsInv, Explained,
     PointsKnown
<1> QED  BY <1>1, PointsInvNext, HandlersHold, OneHolds, LoyaltyInvHolds, PTL DEF Spec

\* While handlers come one after the other, an account is what its rows say,
\* wherever a handler fails: what it read before its transaction is still true
\* when the transaction writes it.
THEOREM AccountsAddUp == Spec => []PointsExplained
<1>1. LoyaltyInv /\ PointsInv => PointsExplained
  <2> SUFFICES ASSUME LoyaltyInv, PointsInv, Alone, NEW c \in Customers
               PROVE  account[c].points = rows[c].earn - rows[c].redeem
    BY DEF PointsExplained, PointsInv, Alone, Explained
  <2>1. account[c].points \in Nat /\ rows[c].earn \in Nat /\ rows[c].redeem \in Nat
    BY DEF LoyaltyInv, LoyaltyTypeOK
  <2> QED  BY <2>1 DEF PointsInv, Explained
<1> QED  BY <1>1, LoyaltyInvHolds, PointsInvHolds, PTL

-----------------------------------------------------------------------------
(* Lines of carts, one handler at a time, without failures                 *)

Steady == calls \cap {"alone", "fail", "overdraw"} = {"alone"}

\* Handler r has ordered cart k as order o, and not cleared the cart yet.
Clearing == {"redeemRead", "redeemOrder", "discount", "clearCart"}
Clears(r, k, o) == req[r].at \in Clearing /\ req[r].on = k /\ req[r].arg.order = o

Affordable(a) == /\ account[a.customer].exists
                 /\ a.points <= account[a.customer].points

\* What a handler is about to write is in no order and in no other cart, and the
\* points it is about to take are there.
LinesHandler(r) ==
    LET q == req[r]
    IN  /\ q.at \in {"saveCart", "createOrder"} =>
              /\ \A o \in Orders : q.seen \cap order[o].lines = {}
              /\ \A k \in Carts \ {q.on} : q.seen \cap cart[k].lines = {}
        /\ q.at = "createOrder" /\ Redeems(q.arg) => Affordable(q.arg)
        /\ q.at = "redeemRead" => Affordable(q.arg)

OrdersApart == \A o, p \in Orders : o # p => order[o].lines \cap order[p].lines = {}
CartsApart == \A k, j \in Carts : k # j => cart[k].lines \cap cart[j].lines = {}

\* A line is in a cart and in an order only while the order is being placed.
ClearedSoon ==
    \A k \in Carts, o \in Orders :
        \/ cart[k].lines \cap order[o].lines = {}
        \/ \E r \in Handling : Clears(r, k, o)

LinesInv ==
    Steady => /\ OrdersApart
              /\ CartsApart
              /\ ClearedSoon
              /\ \A r \in Handling : LinesHandler(r)

LEMMA SteadyIsAlone == Steady => Alone /\ "fail" \notin calls /\ "overdraw" \notin calls
BY DEF Steady, Alone

\* A step of the handler whose turn it is: the others have nothing to write.
LEMMA LinesStep ==
    ASSUME OneAtATime, NEW r \in Handling, Turn(r), \A q \in Handling \ {r} : req'[q] = req[q],
           calls' = calls,
           Steady => OrdersApart' /\ CartsApart' /\ ClearedSoon' /\ LinesHandler(r)'
    PROVE  LinesInv'
<1> SUFFICES ASSUME Steady PROVE (\A q \in Handling : LinesHandler(q)')
  BY DEF LinesInv, Steady
<1>1. \A q \in Handling \ {r} : req'[q].at = "idle"
  BY TurnIsAlone, SteadyIsAlone DEF Idle
<1> QED  BY <1>1 DEF LinesHandler

\* Where the handler whose turn it is places no order, no line is in both.
LEMMA NobodyClears ==
    ASSUME OneAtATime, LinesInv, Steady, NEW r \in Handling, Turn(r), req[r].at \notin Clearing
    PROVE  \A k \in Carts, o \in Orders : cart[k].lines \cap order[o].lines = {}
<1>1. \A q \in Handling : req[q].at \notin Clearing
  BY TurnIsAlone, SteadyIsAlone DEF Idle, Clearing
<1> QED  BY <1>1 DEF LinesInv, ClearedSoon, Clears

\* A step that leaves carts and orders alone, of a handler that writes neither.
LEMMA LinesAside ==
    ASSUME OneAtATime, LinesInv, NEW r \in Handling, Turn(r),
           \A q \in Handling \ {r} : req'[q] = req[q], calls' = calls, UNCHANGED cart,
           \A o \in Orders : order'[o].lines = order[o].lines,
           req[r].at \notin Clearing,
           req'[r].at \notin {"saveCart", "createOrder", "redeemRead"}
    PROVE  LinesInv'
<1>1. Steady => OrdersApart' /\ CartsApart'
  BY DEF LinesInv, OrdersApart, CartsApart
<1>2. Steady => ClearedSoon'
  BY NobodyClears DEF ClearedSoon
<1>3. LinesHandler(r)'
  BY DEF LinesHandler
<1> QED  BY <1>1, <1>2, <1>3, LinesStep

\* A step of a placement that does not write lines, and does not end.
LEMMA PlacementGoesOn ==
    ASSUME OneAtATime, LinesInv, NEW r \in Handling, Turn(r),
           \A q \in Handling \ {r} : req'[q] = req[q], calls' = calls, UNCHANGED cart,
           \A o \in Orders : order'[o].lines = order[o].lines,
           req[r].at \in Clearing, req'[r].at \in Clearing \ {"redeemRead"},
           req'[r].on = req[r].on, req'[r].arg = req[r].arg
    PROVE  LinesInv'
<1>1. Steady => OrdersApart' /\ CartsApart'
  BY DEF LinesInv, OrdersApart, CartsApart
<1>2. Steady => ClearedSoon'
  BY DEF LinesInv, ClearedSoon, Clears
<1>3. LinesHandler(r)'
  BY DEF LinesHandler, Clearing
<1> QED  BY <1>1, <1>2, <1>3, LinesStep

LEMMA EditCartKeepsLines ==
    ASSUME Records, OneAtATime, LinesInv, NEW r \in Handling, Turn(r), NEW k \in Carts,
           NEW lines \in SUBSET Lines, EditCart(r, k, lines)
    PROVE  LinesInv'
<1>1. /\ Begin(r, "saveCart", k, None, lines) /\ Idle(r) /\ calls' = calls
      /\ UNCHANGED <<cart, order>>
      /\ \/ \E l \in Lines : ~InUse(l) /\ lines = cart[k].lines \cup {l}
         \/ lines \subseteq cart[k].lines
  BY DEF EditCart, Free, Takes, NewLine, shopVars
<1>2. /\ req'[r].at = "saveCart" /\ req'[r].on = k /\ req'[r].seen = lines
      /\ \A q \in Handling \ {r} : req'[q] = req[q]
  BY <1>1, BeginIs
<1>3. ASSUME Steady PROVE OrdersApart' /\ CartsApart' /\ ClearedSoon' /\ LinesHandler(r)'
  <2>1. \A j \in Carts, o \in Orders : cart[j].lines \cap order[o].lines = {}
    BY <1>1, <1>3, NobodyClears DEF Idle, Clearing
  <2>2. OrdersApart' /\ CartsApart' /\ ClearedSoon'
    BY <1>1, <1>3, <2>1 DEF LinesInv, OrdersApart, CartsApart, ClearedSoon
  <2>3. \A o \in Orders : lines \cap order[o].lines = {}
    BY <1>1, <2>1 DEF InUse
  <2>4. \A j \in Carts \ {k} : lines \cap cart[j].lines = {}
    BY <1>1, <1>3 DEF InUse, LinesInv, CartsApart
  <2>5. LinesHandler(r)'
    BY <1>1, <1>2, <2>3, <2>4 DEF LinesHandler
  <2> QED  BY <2>2, <2>5
<1> QED  BY <1>1, <1>2, <1>3, LinesStep

LEMMA SaveCartKeepsLines ==
    ASSUME Records, OneAtATime, ShopInv, LinesInv, NEW r \in Handling, Turn(r), SaveCart(r)
    PROVE  LinesInv'
<1> DEFINE k == req[r].on
<1>1. /\ cart' = [cart EXCEPT ![k] = [state |-> "open", lines |-> req[r].seen]]
      /\ req[r].at = "saveCart" /\ Done(r) /\ calls' = calls /\ UNCHANGED order
  BY DEF SaveCart, At
<1>2. req'[r].at = "idle" /\ \A q \in Handling \ {r} : req'[q] = req[q]
  BY <1>1, DoneIs
<1>3. \A j \in Carts : cart'[j].lines = IF j = k THEN req[r].seen ELSE cart[j].lines
  BY <1>1 DEF ShopInv, CartsTyped
<1>4. ASSUME Steady PROVE OrdersApart' /\ CartsApart' /\ ClearedSoon' /\ LinesHandler(r)'
  <2>1. \A j \in Carts, o \in Orders : cart[j].lines \cap order[o].lines = {}
    BY <1>1, <1>4, NobodyClears DEF Clearing
  <2>2. LinesHandler(r)
    BY <1>4 DEF LinesInv
  <2> QED
    BY <1>1, <1>2, <1>3, <1>4, <2>1, <2>2 DEF LinesInv, LinesHandler, OrdersApart, CartsApart,
       ClearedSoon
<1> QED  BY <1>1, <1>2, <1>4, LinesStep

\* Without overdrafts, a placement begins with points that are there.
LEMMA PlaceReadKeepsLines ==
    ASSUME Records, OneAtATime, LoyaltyInv, PointsInv, LinesInv, NEW r \in Handling, Turn(r),
           NEW k \in Carts, NEW o \in Orders, NEW c \in Customers \cup {None}, NEW n \in Nat,
           PlaceRead(r, k, o, c, n)
    PROVE  LinesInv'
<1> DEFINE a == [order |-> o, customer |-> c, points |-> n]
<1>1. /\ Begin(r, "createOrder", k, a, cart[k].lines) /\ Idle(r) /\ calls' = calls
      /\ UNCHANGED <<cart, order, account>>
      /\ c # None => (n > account[c].points => "overdraw" \in calls)
  BY DEF PlaceRead, Free, Takes, loyaltyVars, shopVars
<1>2. /\ req'[r].at = "createOrder" /\ req'[r].on = k /\ req'[r].arg = a
      /\ req'[r].seen = cart[k].lines
      /\ \A q \in Handling \ {r} : req'[q] = req[q]
  BY <1>1, BeginIs
<1>3. ASSUME Steady PROVE OrdersApart' /\ CartsApart' /\ ClearedSoon' /\ LinesHandler(r)'
  <2>1. \A j \in Carts, p \in Orders : cart[j].lines \cap order[p].lines = {}
    BY <1>1, <1>3, NobodyClears DEF Idle, Clearing
  <2>2. OrdersApart' /\ CartsApart' /\ ClearedSoon'
    BY <1>1, <1>3, <2>1 DEF LinesInv, OrdersApart, CartsApart, ClearedSoon
  <2>3. Redeems(a) => Affordable(a)
    <3> SUFFICES ASSUME Redeems(a) PROVE Affordable(a)
      OBVIOUS
    <3>1. c \in Customers /\ c # None /\ n > 0
      BY DEF Redeems
    <3>2. account[c].points \in Nat
      BY <3>1 DEF LoyaltyInv, LoyaltyTypeOK
    <3>3. n <= account[c].points
      BY <1>1, <1>3, <3>1, <3>2, SteadyIsAlone
    <3>4. account[c].exists
      BY <1>3, <3>1, <3>2, <3>3, SteadyIsAlone DEF PointsInv, Explained
    <3> QED  BY <3>3, <3>4 DEF Affordable
  <2>4. Affordable(a)' <=> Affordable(a)
    BY <1>1 DEF Affordable
  <2> HIDE DEF a
  <2>5. LinesHandler(r)'
    BY <1>1, <1>2, <1>3, <2>1, <2>3, <2>4 DEF LinesHandler, LinesInv, CartsApart
  <2> QED  BY <2>2, <2>5
<1> QED  BY <1>1, <1>2, <1>3, LinesStep

LEMMA PlaceCreateKeepsLines ==
    ASSUME Records, OneAtATime, ShopInv, LinesInv, NEW r \in Handling, Turn(r), PlaceCreate(r)
    PROVE  LinesInv'
<1> DEFINE a == req[r].arg
           next == IF Redeems(a) THEN "redeemRead" ELSE "clearCart"
<1>1. /\ req[r].at = "createOrder" /\ calls' = calls /\ UNCHANGED <<cart, account>>
      /\ order' = [order EXCEPT ![a.order] = Placed(req[r].seen, a.customer)]
      /\ Begin(r, next, req[r].on, a, req[r].seen)
  BY DEF PlaceCreate, At, Then, Sees, loyaltyVars
<1>2. /\ req'[r].at = next /\ req'[r].on = req[r].on /\ req'[r].arg = a
      /\ \A q \in Handling \ {r} : req'[q] = req[q]
  BY <1>1, BeginIs
<1>3. \A o \in Orders : order'[o].lines = IF o = a.order THEN req[r].seen ELSE order[o].lines
  BY <1>1 DEF ShopInv, OrdersTyped, Placed
<1>4. ASSUME Steady PROVE OrdersApart' /\ CartsApart' /\ ClearedSoon' /\ LinesHandler(r)'
  <2>1. \A k \in Carts, o \in Orders : cart[k].lines \cap order[o].lines = {}
    BY <1>1, <1>4, NobodyClears DEF Clearing
  <2>2. /\ \A o \in Orders : req[r].seen \cap order[o].lines = {}
        /\ \A k \in Carts \ {req[r].on} : req[r].seen \cap cart[k].lines = {}
        /\ Redeems(a) => Affordable(a)
    BY <1>1, <1>4 DEF LinesInv, LinesHandler
  <2>3. OrdersApart'
    BY <1>3, <1>4, <2>2 DEF LinesInv, OrdersApart
  <2>4. CartsApart'
    BY <1>1, <1>4 DEF LinesInv, CartsApart
  <2>5. req'[r].at \in Clearing /\ req'[r].on = req[r].on /\ req'[r].arg = a
    BY <1>2 DEF Clearing
  <2>6. ClearedSoon'
    BY <1>1, <1>3, <2>1, <2>2, <2>5 DEF ClearedSoon, Clears
  <2>7. LinesHandler(r)'
    BY <1>1, <1>2, <2>2 DEF LinesHandler, Affordable
  <2> QED  BY <2>3, <2>4, <2>6, <2>7
<1> QED  BY <1>1, <1>2, <1>4, LinesStep

\* The points suffice, so that the placement goes on to clear the cart.
LEMMA PlaceRedeemReadKeepsLines ==
    ASSUME Records, OneAtATime, ShopInv, LoyaltyInv, LinesInv, NEW r \in Handling, Turn(r),
           PlaceRedeemRead(r)
    PROVE  LinesInv'
<1> DEFINE a == req[r].arg
<1>1. /\ req[r].at = "redeemRead" /\ calls' = calls /\ UNCHANGED <<cart, order>>
      /\ IF Suffices(account[a.customer], a.points)
         THEN Begin(r, "redeemOrder", req[r].on, a, account[a.customer])
         ELSE Done(r)
  BY DEF PlaceRedeemRead, At, Sees, shopVars
<1>2. CASE Steady
  <2>1. Affordable(a)
    BY <1>1, <1>2 DEF LinesInv, LinesHandler
  <2>2. a.customer \in Customers /\ a.points \in Nat
    BY <1>1 DEF ShopInv, ShopHandler, Placing, Placement
  <2>3. account[a.customer].points \in Nat
    BY <2>2 DEF LoyaltyInv, LoyaltyTypeOK
  <2>4. Suffices(account[a.customer], a.points)
    BY <2>1, <2>2, <2>3 DEF Affordable, Suffices
  <2>5. /\ req'[r].at = "redeemOrder" /\ req'[r].on = req[r].on /\ req'[r].arg = a
        /\ \A q \in Handling \ {r} : req'[q] = req[q]
    BY <1>1, <2>4, BeginIs
  <2> QED  BY <1>1, <2>5, PlacementGoesOn DEF Clearing
<1>3. CASE ~Steady
  BY <1>1, <1>3 DEF LinesInv, Steady
<1> QED  BY <1>2, <1>3

LEMMA PlacementKeepsLines ==
    ASSUME Records, OneAtATime, ShopInv, LinesInv, NEW r \in Handling, Turn(r),
           PlaceRedeemWrite(r) \/ PlaceDiscount(r)
    PROVE  LinesInv'
<1>1. /\ calls' = calls /\ UNCHANGED cart /\ req[r].at \in {"redeemOrder", "discount"}
      /\ \A o \in Orders : order'[o].lines = order[o].lines
  BY DEF PlaceRedeemWrite, PlaceDiscount, Discounted, At, ShopInv, OrdersTyped
<1>2. \E step \in {"discount", "clearCart"} : Begin(r, step, req[r].on, req[r].arg, req[r].seen)
  BY DEF PlaceRedeemWrite, PlaceDiscount, Then, Sees
<1>3. /\ req'[r].at \in {"discount", "clearCart"} /\ req'[r].on = req[r].on
      /\ req'[r].arg = req[r].arg
      /\ \A q \in Handling \ {r} : req'[q] = req[q]
  BY <1>2, BeginIs
<1> QED  BY <1>1, <1>3, PlacementGoesOn DEF Clearing

LEMMA PlaceClearKeepsLines ==
    ASSUME Records, OneAtATime, ShopInv, LinesInv, NEW r \in Handling, Turn(r), PlaceClear(r)
    PROVE  LinesInv'
<1>1. /\ cart' = [cart EXCEPT ![req[r].on] = [state |-> "gone", lines |-> {}]]
      /\ req[r].at = "clearCart" /\ Done(r) /\ calls' = calls /\ UNCHANGED order
  BY DEF PlaceClear, Cleared, Dropped, At
<1>2. req'[r].at = "idle" /\ \A q \in Handling \ {r} : req'[q] = req[q]
  BY <1>1, DoneIs
<1>3. \A k \in Carts : cart'[k].lines = IF k = req[r].on THEN {} ELSE cart[k].lines
  BY <1>1 DEF ShopInv, CartsTyped
<1>4. ASSUME Steady PROVE OrdersApart' /\ CartsApart' /\ ClearedSoon' /\ LinesHandler(r)'
  <2>1. \A q \in Handling \ {r} : req[q].at \notin Clearing
    BY <1>4, TurnIsAlone, SteadyIsAlone DEF Idle, Clearing
  <2>2. \A k \in Carts \ {req[r].on}, o \in Orders : cart[k].lines \cap order[o].lines = {}
    BY <1>4, <2>1 DEF LinesInv, ClearedSoon, Clears
  <2> QED
    BY <1>1, <1>2, <1>3, <1>4, <2>2 DEF LinesInv, LinesHandler, OrdersApart, CartsApart,
       ClearedSoon
<1> QED  BY <1>1, <1>2, <1>4, LinesStep

\* Confirmations and points write no lines.
LEMMA RestKeepsLines ==
    ASSUME Records, OneAtATime, ShopInv, LinesInv, NEW r \in Handling, Turn(r),
           \/ LoyaltyNext(r) /\ UNCHANGED shopVars
           \/ ConfirmWrite(r)
           \/ \E o \in Orders : ConfirmRead(r, o)
    PROVE  LinesInv'
<1> DEFINE Rest == {"idle", "createAccount", "earn", "redeem", "autoEarn", "confirm"}
<1>1. CASE LoyaltyNext(r) /\ UNCHANGED shopVars
  <2>1. Moves(r, Rest)
    BY <1>1, BeginMoves, SeesMoves, DoneMoves DEF LoyaltyNext, CreateCustomer, EarnRead, RedeemRead,
       CreateAccount, AutoEarnRead, EarnWrite, RedeemWrite
  <2>2. req[r].at \notin Clearing
    BY <1>1 DEF LoyaltyNext, CreateCustomer, EarnRead, RedeemRead, CreateAccount, AutoEarnRead,
       EarnWrite, RedeemWrite, Free, Takes, At, Idle, Clearing
  <2> QED  BY <1>1, <2>1, <2>2, LinesAside DEF Moves, shopVars
<1>2. CASE ConfirmWrite(r)
  <2>1. Moves(r, Rest)
    BY <1>2, GoMoves, DoneMoves DEF ConfirmWrite
  <2>2. /\ req[r].at \notin Clearing /\ UNCHANGED cart
        /\ \A o \in Orders : order'[o].lines = order[o].lines
    BY <1>2 DEF ConfirmWrite, At, Clearing, ShopInv, OrdersTyped
  <2> QED  BY <2>1, <2>2, LinesAside DEF Moves
<1>3. ASSUME NEW o \in Orders, ConfirmRead(r, o) PROVE LinesInv'
  <2>1. Moves(r, Rest)
    BY <1>3, BeginMoves DEF ConfirmRead
  <2>2. req[r].at \notin Clearing /\ UNCHANGED <<cart, order>>
    BY <1>3 DEF ConfirmRead, Free, Takes, Idle, Clearing, shopVars
  <2> QED  BY <2>1, <2>2, LinesAside DEF Moves
<1> QED  BY <1>1, <1>2, <1>3

\* Carts that begin empty, or are lost.
LEMMA CartsShrink ==
    ASSUME ShopInv, LinesInv, NEW k \in Carts, InitCart(k) \/ CartExpires(k)
    PROVE  LinesInv'
<1>1. UNCHANGED <<calls, req, account, order>>
  BY DEF InitCart, CartExpires, loyaltyVars
<1>2. \A j \in Carts : cart'[j].lines \subseteq cart[j].lines
  BY DEF InitCart, CartExpires, Dropped, ShopInv, CartsTyped
<1> QED
  BY <1>1, <1>2 DEF LinesInv, Steady, OrdersApart, CartsApart, ClearedSoon, Clears,
     LinesHandler, Affordable

-----------------------------------------------------------------------------
\* The handlers of the shop wait while others go on, unless they fail.
InShop(r) == req[r].at \in ShopSteps \ {"idle"}

LEMMA OthersNotInShop ==
    ASSUME NEW r \in Handling,
           \/ BillsNext(r) \/ StampsNext(r) \/ PlatformNext(r)
           \/ TenantsNext(r) \/ DeliveriesNext(r) \/ StaffNext(r)
    PROVE  ~InShop(r)
<1> USE DEF InShop, ShopSteps, Idle, Free, Takes, At
<1>1. CASE BillsNext(r)
  BY <1>1 DEF BillsNext, OpenBill, ImportBill, OpenOnline, TakeOff, AddRead, AddWrite,
              VoidItemRead, VoidItem, Recount, VoidTotal, DiscountRead, DiscountWrite
<1>2. CASE StampsNext(r)
  BY <1>2 DEF StampsNext, RewardRead, AddStamp, CompleteCard, RewardWrite
<1>3. CASE PlatformNext(r)
  BY <1>3 DEF PlatformNext, WebhookRead, ImportOrder, DecideRead, AnswerWebhook, DecideWrite
<1>4. CASE TenantsNext(r)
  BY <1>4 DEF TenantsNext, TenantsGoOn, ValidateRead, UnlockRead, StaffRead, LockRead,
              ActivateRead, ExtendTrial, EnsureRead, CronRead, UpdatePlan, BillingRead,
              CacheUser, StaffWrite, Flush, ActivateWrite, SetTenant, EnsureWrite,
              BillingWrite, CancelDue, LockWrite, ExpireTrial, FlushKeys, UnlockWrite
<1>5. CASE DeliveriesNext(r)
  BY <1>5 DEF DeliveriesNext, CreateRead, AssignRead, ManagerRead, DriverRead,
              CreateWrite, AssignWrite, StatusWrite
<1>6. CASE StaffNext(r)
  BY <1>6 DEF StaffNext, ClockInRead, ClockOutRead, ClockInWrite, ClockOutWrite,
              LinkShift, MissedEnd, MissedRead, MissedWrite, MissedCheck
<1> QED  BY <1>1, <1>2, <1>3, <1>4, <1>5, <1>6

LEMMA ShopWaits ==
    ASSUME Records, [Next]_vars, ~Shop, "fail" \notin calls
    PROVE  \A q \in Handling : InShop(q) => req'[q] = req[q]
<1>1. CASE \E r \in Handling : \/ BillsNext(r) \/ StampsNext(r) \/ PlatformNext(r)
                              \/ TenantsNext(r) \/ DeliveriesNext(r) \/ StaffNext(r)
  BY <1>1, OthersNotInShop, BillsMoves, StampsMoves, PlatformHandlerMoves, TenantMoves,
     DeliveryMoves, StaffMoves DEF Moves
<1>2. CASE UNCHANGED req
  BY <1>2
<1>3. ~Failure
  BY DEF Failure, Fails
<1> QED
  BY <1>1, <1>2, <1>3 DEF Next, Sales, Advance, PlatformMoves, SetAutoAccept, PushEnds, Tenancy,
     TimePasses, PeriodEnds, TrialEnds, CacheExpires, Delivering, Staffing, ManagersAct, Later,
     CreateShift, UpdateShift, AddManualEntry, vars

LEMMA LinesInvNext ==
    Handlers /\ OneAtATime /\ ShopInv /\ LoyaltyInv /\ PointsInv /\ LinesInv /\ [Next]_vars
    => LinesInv'
<1> SUFFICES ASSUME Records, OneAtATime, ShopInv, LoyaltyInv, PointsInv, LinesInv, [Next]_vars
             PROVE  LinesInv'
  BY DEF Handlers
<1>1. CASE ~Shop
  <2> DEFINE Others == SalesSteps \cup TenantSteps \cup DeliverySteps \cup StaffSteps
  <2>1. UNCHANGED <<account, cart, order>> /\ Elsewhere(Others)
    BY <1>1, NotShop DEF shopState, loyaltyVars, shopVars
  <2>2. Others \cap (ShopSteps \ {"idle"}) = {}
    BY DEF ShopSteps, SalesSteps, BillSteps, StampSteps, PlatformSteps, TenantSteps,
       DeliverySteps, StaffSteps
  <2> HIDE DEF Others
  <2>3. calls' = calls /\ \A q \in Handling : req'[q] = req[q] \/ ~InShop(q)'
    BY <2>1, <2>2 DEF Elsewhere, InShop
  <2> SUFFICES ASSUME Steady PROVE LinesInv'
    BY <2>3 DEF LinesInv, Steady
  <2>4. \A q \in Handling : InShop(q) => req'[q] = req[q]
    BY <1>1, ShopWaits, SteadyIsAlone
  <2>5. \A q \in Handling : LinesHandler(q)'
    BY <2>1, <2>3 DEF LinesInv, LinesHandler, Affordable, InShop, ShopSteps
  <2>6. ClearedSoon'
    BY <2>1, <2>4 DEF LinesInv, ClearedSoon, Clears, Clearing, InShop, ShopSteps
  <2> QED  BY <2>1, <2>5, <2>6 DEF LinesInv, OrdersApart, CartsApart
<1>2. ASSUME NEW k \in Carts, InitCart(k) \/ CartExpires(k) PROVE LinesInv'
  BY <1>2, CartsShrink
<1>3. ASSUME NEW r \in Handling, LoyaltyNext(r) /\ UNCHANGED shopVars PROVE LinesInv'
  BY <1>3, ShopTurns, RestKeepsLines
<1>4. ASSUME NEW r \in Handling, ShopNext(r) PROVE LinesInv'
  <2>1. Turn(r)
    BY <1>4, ShopTurns
  <2>2. Manual \cup {0} \subseteq Nat
    BY PointsAssumption
  <2> QED
    BY <1>4, <2>1, <2>2, EditCartKeepsLines, SaveCartKeepsLines, PlaceReadKeepsLines,
       PlaceCreateKeepsLines, PlaceRedeemReadKeepsLines, PlacementKeepsLines,
       PlaceClearKeepsLines, RestKeepsLines DEF ShopNext
<1> QED  BY <1>1, <1>2, <1>3, <1>4 DEF Shop

LEMMA LinesInvHolds == Spec => []LinesInv
<1>1. Init => LinesInv
  BY DEF Init, RequestsInit, Quiet, ShopInit, NoOrder, LinesInv, OrdersApart, CartsApart,
     ClearedSoon, LinesHandler
<1> QED
  BY <1>1, LinesInvNext, HandlersHold, OneHolds, ShopInvHolds, LoyaltyInvHolds, PointsInvHolds,
     PTL DEF Spec

\* A line is ordered once, as long as handlers come one after the other, none
\* fails and nobody pays with points that are not there: an order whose points
\* suffice goes on to clear the cart it was made of.
THEOREM LinesAreOrderedOnce == Spec => []LinesOrderedOnce
<1>1. LinesInv => LinesOrderedOnce
  BY DEF LinesInv, Steady, OrdersApart, LinesOrderedOnce
<1> QED  BY <1>1, LinesInvHolds, PTL
=============================================================================
