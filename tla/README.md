# RestroCloud: verification of the restaurant core

TLA+ models of the parts of RestroCloud where several people and machines work
on the same rows: orders and the kitchen display, payments, tables and guests'
phones, the stock of several branches, the POS without network, and the
business around the orders (web shop, points and stamps, bills, delivery
platforms, deliveries, shifts, subscriptions). TLC checks them on small
instances; TLAPS proves the most important properties for every size.

Source paths are relative to `src/backend/src/` unless they start with `src/`.

## 1. The system

RestroCloud is a NestJS server over PostgreSQL (Prisma) and Redis, used by a
staff dashboard (POS, kitchen display, management), a customer web shop, guests
who scan a QR code at their table, two mobile apps and a super-admin console.
Every request is an `async` handler; several are in flight at a time, and there
may be several server processes. Handlers share nothing but the database, so
what makes the system hard is always the same: **a handler reads rows, checks
them in JavaScript, and writes in a later statement**, mostly by primary key
and without a version or a condition on what it read. Transactions group the
writes of one handler; they rarely include the reads its decision rests on.

| Component | State | Operations | Talks to | Hard part | What makes it correct |
|---|---|---|---|---|---|
| Order lifecycle (`orders/`) | `orders`, `order_items`, status history, timestamp columns, totals | create, accept, reject, update status, cancel, void or add items, discount, item status, auto-accept cron | inventory (deduction on completion), realtime, notifications | check and write in different statements; the cron works through a stale list; totals computed from an old row | timestamps explain the status; completed orders stay so; stock is deducted once; the bill adds up |
| Kitchen display (`kds/`) | the same rows | acknowledge, start, item ready, bump ready, item served, bump served | orders | writes order statuses without the orders' state machine; several tablets | nothing cooks on an unaccepted order; finished orders leave the kitchen |
| Payments at the till (`payments/`) | `payments`, `transactions`, `refunds` | process, cancel, confirm COD, refund, approve a refund request | orders (completes them) | sums computed before the transaction; three separate writes on completion | money is collected and refunded within bounds; the ledger explains each status |
| Online payments (`online-ordering/payments/`) | the same, `online_payment_sessions` | initiate, gateway callback, Stripe return page, refund request | gateways, orders | callbacks late, repeated, contradicting; sessions expire | callbacks are final; charges are never undone |
| Tables and sessions (`tables/`) | `restaurant_tables`, `table_sessions` | open, bill, close, force-close, transfer, set status, overview (repairs tables) | orders | one table, many writers | one active session; a truthful floor plan; nothing closed over an unpaid order |
| QR ordering (`qr-ordering/`) | Redis carts, token sets, `qr:order:*`; sessions and orders | scan, edit cart, place the carts of a table as one order, ask for the bill, cron clean-up | tables, orders | multi-key Redis steps around a database write; expiry | no line lost or ordered twice; empty sessions end |
| Inventory (`inventory/`) | `ingredients`, `stock_movements`, purchase orders, recipes | create, edit, delete, deduct for an order, waste, stock take, order, receive, cancel | orders, transfers | remaining quantities and stock levels read before a loop of transactions | the ledger balances; documents explain it; RECEIVED means complete |
| Stock transfers (`multi-location/`) | `stock_transfers` | ship, take in, cancel | inventory of two branches | status checked outside the transaction | each movement is explained by its transfer |
| Login sessions (`auth/`, `src/frontend-dashboard/src/lib/api.ts`) | `user_sessions`; the auth store of each tab and in localStorage | login, registration, refresh with rotation, logout, revocation | every client | server rotates, tabs race, calls queue behind a refresh | no call waits for ever; a live session can go on (it cannot) |
| POS offline queue (`src/frontend-dashboard/src/pages/pos/POSPage.tsx`) | IndexedDB `offlineOrders`, paused mutations | take an order, claim and replay on reconnect, revert | login sessions, orders | lost answers, closed tabs, two tabs that come online together | an order is placed once, but for what the client cannot know |
| Loyalty (`customers/`, `online-ordering/loyalty/`) | account, `loyalty_transactions` | create customer, earn, redeem, earn and redeem for web orders | web shop | absolute values from stale reads | balances equal their transactions; tiers are earned |
| Web shop (`online-ordering/`) | carts in Redis, online orders | edit and save cart, place (order, points, discount, cart), confirm payment | loyalty, orders, payments | four statements that may fail between | no discount without points; no line ordered twice |
| CRM (`crm/`) | stamp cards; promo codes; campaigns, segments, reviews | stamp, complete, redeem; validate and record a code | customers, orders | completion and redemption in statements of their own | stamps pay once; a full card can be redeemed (once) |
| Delivery (`delivery/`) | `deliveries` | create, assign, update by manager, update by driver | orders, users | two actors, one state machine | a delivered parcel was assigned, picked up and on its way |
| Aggregators (`aggregators/`) | connections; orders with an external id | webhook intake, accept, reject, push | platforms, orders | repeated webhooks, lost answers | one order per external id; one answer |
| HR (`hr/`) | shifts, time entries, leave, tips | schedule, clock in and out, manual entry, nightly job | users | the job works through a stale list | who worked is not marked missed |
| Subscription billing (`billing/`), super-admin (`super-admin/`), users (`users/`) | tenant, users and their cached copies, subscription | suspend, terminate, activate, unlock, plan and trial; upgrade, cancel, reactivate, pause, resume; hourly job | every request (guard) | copies in Redis outlive the row; crons with stale lists | a suspension and a cancellation take hold; active means paid |
| Menu, restaurants, analytics, notifications, push, realtime, infrastructure, front ends | records, caches, screens | record editing, reads, best-effort messages | - | none of their own | - |

`PROJECT.json` lists every component with what is modelled and why the rest is
not, and under `hazards` the places, line by line, where the code can go wrong
in a way a unit test would hardly reach.

## 2. How the code is modelled

* **A handler is a process.** `Requests` (in `Business` and its parts:
  `Handling`) are slots for handlers in flight. `req[r]` holds the statement a
  handler runs next (`at`) and its local variables: what it *saw*. A read and a
  later write are two steps (`CancelRead`, `CancelWrite`); between them any
  other handler may run.
* **A statement or a Prisma transaction is one step**, and so is a Redis
  command. A handler of a single statement is an action without a slot.
* **Early returns are guards** of the reading step: a request that is refused
  changes nothing and is left out, unless it already wrote something.
* **Failures.** `Fail(r)` (`Fails(r)`) drops the rest of a handler: a statement
  throws, or the server stops. What it wrote stays.
* **Data** is as coarse as the properties allow: an order has no price in
  `Orders`, one total in `Payments`, which the handlers of `Bills` may set to
  any amount (`RebillWrite`), a set of lines in `Dining` and `WebShop`, a
  subtotal, discount and total in `Bills`. A payment has a `gatewayTxId`, and
  callbacks find it, exactly if its `kind` is "gateway".
* **Slots.** Rows are created by taking a free slot. `RoomFor...`, `NewOrder`,
  `NewLine`, `NewImport` and `NewEntry` keep a handler from starting when its
  row would not fit; they bound the instance and are not in the code.
* **Mixes.** Each behaviour begins by choosing `calls`, a member of `Mixes`: the
  handlers that clients call in it. A mix that holds `"fail"` allows failures,
  one that holds `"alone"` calls one handler at a time, and some events stand
  for what people or the world do (`"time"`, `"lose"`, `"repeat"`, `"night"`).
  So one run covers several departments of a restaurant, each with its own
  traffic, and a property can say under which traffic it holds. (`Payments` has
  `MayFail` for failures.)

### Modules

| Module | Models | State |
|---|---|---|
| `Orders` | `orders.service.ts`, `kds.service.ts`, auto-accept cron; what `payments.service.ts`, `online-payments.service.ts` and `tables.service.ts` write to an order's status | `status`, `stamps` (which timestamp columns are set), `kitchen`, `voided`, `deductions` (launches of `deductForOrder`) |
| `Payments` | `payments.service.ts`, `online-payments.service.ts`, one order | `order`, `history`, `total`, `payment`, `refund` (the last two with the number of ledger rows) |
| `PaymentBook` | abstract: charges are for ever, a refund is paid out once from a charged payment | `charged`, `paidOut` |
| `Dining` | `tables.service.ts`, `qr-ordering.service.ts`, the POS's way to put an order on a table, `assignTable` | `table`, `session`, `order`, Redis `cart`, `tokens`, `orderOf`; `wanted` is a history variable |
| `Seating` | abstract: a party sits down and moves only where nobody sits, and does not come back | `seat`, `left` |
| `Stock` | `inventory.service.ts`, transfers of `multi-location.service.ts` | `row`, `moved` (sum of `stock_movements` by type), `po`, `transfer` |
| `LoginSessions` | sessions of `auth.service.ts`, the axios client and the auth store of the dashboard | `session` (state and generation of the refresh token), `tab`, `disk`, `req` (calls on their way, queued behind a refresh, or leading one) |
| `OfflineQueue` | the queue of `POSPage.tsx` over `LoginSessions` | `online`, `due`, `held` (paused mutations), `entry`, `sync` (what a replay holds); `placed`, `excuses` count |
| `Requests` | the life of a handler, for `Business` | `calls`, `req` |
| `Loyalty` | `customers.service.ts`, `online-loyalty.service.ts` | `account`, `rows` |
| `WebShop` | `online-ordering.service.ts`, over `Loyalty` | `cart`, `order` |
| `Stamps` | stamp cards of `crm.service.ts`, over `Loyalty` | `card`; `given`, `rewards` count |
| `Bills` | the money of `orders.service.ts`, with the totals that `online-ordering.service.ts` lowers and `aggregators.service.ts` takes over | `bill` (its field `outside` is a ghost: what of the total follows from no column), `dish` |
| `Aggregators` | `aggregators.service.ts` and the platform | `autoAccept`, `import`; `platform`, `pushes` of the other side |
| `Tenants` | the guard and its cache, suspension, `billing.service.ts` and its cron | `tenant`, `user`, `cached`, `sub` |
| `Deliveries` | `delivery.service.ts`, over `Tenants` | `delivery`, `stamps` |
| `Staff` | shifts and time entries of `hr.service.ts`, over `Tenants` | `day`, `shift`, `entry` |
| `Business` | composition of the eight above it | all of theirs |
| `MCOrders`, `MCPayments`, `MCDining`, `MCStock`, `MCOfflineQueue`, `MCBusiness` | the mixes and symmetries TLC uses | - |
| `OrdersProofs`, `PaymentsProofs`, `DiningProofs`, `StockProofs`, `OfflineQueueProofs`; `BusinessProofs`, `DepartmentProofs`; `Sums` | theorems | - |

The models are composed where their state is shared: orders and kitchen in
`Orders`, till and gateways in `Payments`, staff and phones in `Dining`,
inventory and branches in `Stock`, browser and server in `OfflineQueue`. In
`Business`, web shop and stamp cards share the customers of `Loyalty`, and
deliveries and shifts the users of `Tenants`: a driver or a waiter acts if
`Passes(u)`, which the cache may answer from a copy that is no longer true.
Elsewhere the interface is narrow and stands as an action of the environment:
`Payments.OrderMoves` and `Dining.OrderEnds` move the order along
`ALLOWED_TRANSITIONS` (`orders.service.ts:33`), `Bills.Advance` moves it past
what its handlers distinguish, `OfflineQueue.CreateOrder` counts what the server
makes of a replayed order, and `Orders` counts the launches of the deduction that
`Stock.DeductRead` starts. `Orders` and `Payments` show the same statements from
two sides: `Orders.PayWrite`, `ConfirmCodWrite` and `ConfirmOnline` write what
`Payments.CompleteWrite`, `ConfirmCodWrite` and `Capture` write, whatever the
money is; `Payments.RebillWrite` sets what `Bills` computes.

## 3. What is checked

All runs finish. "One handler at a time" means one slot, or a mix with
`"alone"`: sequences of complete handlers, with reads and writes still apart.

| Run | Asks | Properties |
|---|---|---|
| `orders_race` | Two requests race on one order of two items: of the orders service, the kitchen and the cron job (all but the unchecked single-item update), or of those that look at whole orders with the till, the gateway and the tables | `TypeOK`; `MilestonesStamped`: the timestamp columns explain the status, as far as the payments called allow; `CookingAccepted`: nothing cooks on an order left PENDING |
| `orders_shifts` | One clerk calls every handler but the gateway's confirmation in turn, with failures at any statement, with and without payments that complete orders; or two kitchen tablets race on the last two items | `DeductedOnceCompleted`: deduction is launched at most once and for completed orders only, and for each of them where no payment completes orders; `CompletedIsFinal`; liveness `CookedIsBumped`: a finished order leaves the kitchen |
| `payments_race` | Two requests of any kind, late callbacks, failures | `TypeOK`, `LedgerExplainsStatus`, `ProcessedIsSettled`, refinement `ImplementsBook` |
| `payments_serial` | The till, where the bill changes between payments, and the web shop with timely gateways and a bill that stays; three payments, totals up to 3 | `CollectedWithinTotal` (no step collects more than the order costs by then), `RefundedWithinAmount`, `StatusTellsRefunds`, `PaidIsCompleted` (the history agrees; only a lowered bill leaves a paid order open) |
| `payments_late` (violation) | A callback after its session was given up | `CollectedWithinTotal` fails |
| `dining_serial` | Five departments on two tables, one handler at a time | `TypeOK`, `FloorAgrees` (at most one session per table, and the table says so), `ClosedIsSettled`, `OrdersFollowSession`, `LinesKept`; liveness `EmptySessionsClose` |
| `dining_double_order` (violation) | Two guests of a table place at the same moment | `OrderedOnce` fails |
| `stock` | Seven departments, with races, failures and repeated lines where a property bears them | `TypeOK`, `LedgerBalances`, `MovementsExplained`, `ReceivedIsComplete` |
| `offline_queue` | Two tabs, calls and orders; tokens expire, logins end, answers are lost, tabs close, IndexedDB fails | `TypeOK`, `CopiesExcused`: each further copy of an order answers for a lost answer or a claim rolled back; liveness `ClaimsResolve`: no claimed order waits for ever behind a token refresh |
| `session_lost` (violation) | A day without failures in which the access token of a tab expires once | `LiveSessionRefreshes` fails |
| `business` | Each department of `Business` with its own traffic: two handlers racing, or one at a time with and without failures | `TypeOK`; `PointsExplained`, `TierEarned`, `DiscountBacked`, `LinesOrderedOnce`; `BillAgrees` (a bill adds up, but for points taken off or a platform's total, until it is computed anew); `RewardsEarned`; `PlatformAgrees`; `DeliveredIsTracked`; `WorkedIsNotMissed`; `ActiveIsPaid`; liveness `SuspensionTakesHold`, `CancellationTakesHold` |
| `stamps_again` (violation) | A customer fills a stamp card again | `CompletedIsRedeemable` fails |

Each property of a passing run has a mutant in `PROJECT.json`: a plausible bug
in one definition that makes TLC find the property violated. Mutated forms
stand before the definition they replace, under a comment that says "Mutant".

### Findings

Four runs document where the code departs from what its documents and comments
say; each finding quotes the line.

1. **An order is paid twice** (`online-ordering/payments/online-payments.service.ts:244`).
   A payment cancelled as stale is completed by its late callback.
2. **Lines are ordered twice** (`qr-ordering/qr-ordering.service.ts:478`). Two
   guests who place together each merge the other's cart.
3. **A live session is refused** (`src/frontend-dashboard/src/lib/api.ts:68`).
   Every answer is wrapped in `{success, statusCode, data, timestamp}`
   (`common/interceptors/transform.interceptor.ts:16`) and the dashboard looks for
   `accessToken` in the wrapping: it stores undefined, and the call that led the
   refresh fails. The server has replaced the refresh token, the dashboard keeps
   the old one: its next refresh, at the next call, is refused and logs the user out.
4. **A full stamp card is refused** (`crm/crm.service.ts:384`). Redeeming marks
   the card as redeemed and nothing takes the mark away.

Further departures met while modelling stand in the conditions below and in the
hazards: a cancelled order that the kitchen display brings back
(`kds/kds.service.ts:485`), more refunded than paid when a request is approved
after a refund by staff (`payments/payments.service.ts:483`), a second session
for a table whose bill was requested (`qr-ordering/qr-ordering.service.ts:143`),
a trial that becomes ACTIVE unpaid when it is paused and resumed
(`billing/billing.service.ts`, `ActiveIsPaid`).

### Bounds, and why they are enough

* Two requests in flight: every race here is between one handler's read and its
  write and one other handler (or a sequence of them, which two slots allow:
  one is held open while the other runs any number of handlers).
* One order where handlers meet on one order (`Orders`, `Payments`); two items,
  so that "the last item" and "all items" differ; two tables, sessions, guests
  and lines, so that moving, merging and mixing up are possible.
* `MaxTotal = 3` with three payments: part payments, partial and full refunds,
  a payment after a refund and a bill raised or lowered below what was paid all
  fit. In `payments_race` amounts do not matter.
* `MaxDeductions = 2`, `MaxEntries = 2` and `MaxCopies = 2` are saturating
  counters: the properties tell none, one and several apart.
* `MaxMoved = 3` in `Stock` bounds levels and sums; a step that would pass it
  is not taken. Levels may be negative, as in the code, where a deduction never
  checks what is left. `Openings = {1}`, quantities up to 2: selling into the
  negative, partial receipts and over-receipts all happen.
* `OfflineQueue`: one login session, two tabs, two calls, two orders. Two tabs
  are what races for the claim and for the stored token; `MaxKey`, one more than
  the calls, bounds how often a refresh token is replaced, so that the second
  refresh of each call, the one that is refused, still happens.
* `Business`: two handlers; one customer and cart, two lines and orders, so
  that a line can be ordered twice; one bill of two dishes; a card of
  `Required = 2` stamps that is filled twice (`MaxStamps = 4`); one external
  order and two imports of it; two users, so that one may be let in by another;
  one parcel and one shift, two time entries. `SilverAt`, `MaxPoints`, `Price`
  and `Rate` are 2: one credit reaches no tier and the second does. Departments
  meet in one behaviour only where they share rows (points with the shop,
  drivers with staff, suspension with logins), which keeps the run finite and
  loses nothing that the proofs of section 4 do not cover.
* Symmetry is used where only safety is checked. In `Business` slots are taken
  in a fixed order instead (`Takes`), which is sound for liveness too.

`CHECK_DEADLOCK FALSE` is set where a behaviour may really end: all slots for
rows used up, an order in a final state.

### Fairness

* `Orders`: weak fairness of `Proceed(r)`. Node resumes every handler whose
  statement has answered. No fairness of calls: nobody has to press a button.
* `Dining`: the same, `WF` of `SessionAges` (time passes) and `SF` of `CronRead`:
  the scheduler starts the job every ten minutes however busy the server is, but
  the job needs a free slot, which other handlers take and release again and
  again; strong fairness says it gets one. `EmptySessionsClose` is stated for
  behaviours without failures.
* `OfflineQueue`: weak fairness of `Proceed(r)`: promises settle, since axios
  calls end with an answer, an error or a time-out, and the event loop runs what
  follows. Nothing makes the network come back, tokens expire or a user sign in.
* `Business`: weak fairness of `CacheExpires(u)` (Redis drops a key when its time
  is up) and of `TenantsGoOn(r)` (a handler that has begun goes on, or fails),
  strong fairness of `CronRead(r)`, the hourly job, as in `Dining`.

### Where a property is stated with a condition

Conditions name what the code does not defend against, rather than hide it:

* `FloorAgrees` and `ClosedIsSettled` hold as long as nobody sets table statuses
  by hand or asks for the bill from a phone, and guests do not order by phone once
  staff have asked for the bill (`SteadyFloor`): `findOrCreateSession` looks for an
  OPEN session only and opens a second one (`qr-ordering/qr-ordering.service.ts:139`).
  They hold one handler at a time: `transferSession` and `closeSession` check
  outside their transactions. `OrdersFollowSession` and `ClosedIsSettled` exclude
  `assignTable`, which moves an order without its session.
* `LinesKept` holds one handler at a time and without failures, since the order
  is created before the carts it was made of are deleted: a cart is read from
  Redis and written back whole (`qr-ordering/qr-ordering.service.ts:339`), so two
  tabs of one guest lose a line, and two guests who place together order it twice.
* `LedgerBalances` excludes `updateIngredient`, which may overwrite the stock
  without a movement (`inventory/inventory.service.ts:138`), and stock takes that
  race with sales (`:437`). It holds through every other race and through
  failures, also of a recipe deducted half.
* `MovementsExplained` holds one handler at a time: receipt and cancellation of
  one transfer, racing, both pass the PENDING check
  (`multi-location/multi-location.service.ts:336`). That no more is received than
  was ordered is not a property: two receipts at once, or a body that names a
  line twice, receive more (`inventory/inventory.service.ts:375`).
* `CookingAccepted` leaves out `updateKitchenStatus`, which sets an item
  PREPARING and never looks at the order, and failures between the two writes of
  `startOrder`, the items' and the order's; `CookedIsBumped` leaves out
  `startOrder`, whose late ACCEPTED overwrites a bump.
* `MilestonesStamped` asks of a completed order no readyAt where payments
  complete orders, and no completedAt where staff confirm cash on delivery:
  `processPayment` completes an order whatever the kitchen is doing
  (`payments/payments.service.ts:66`, `:120`), `confirmCodPayment` (`:432`) sets no
  timestamp at all.
* `DeductedOnceCompleted` and `CompletedIsFinal` hold one handler at a time and
  without confirmations of a gateway, which write ACCEPTED whatever the status
  (`online-ordering/payments/online-payments.service.ts:268`, `:559`): a completed
  order comes back, and is deducted again when it is completed again. That every
  completed order is deducted holds where no payment completes orders: the
  deduction is launched by `updateOrderStatus` alone (`orders/orders.service.ts:468`),
  so an order closed by its payment, the usual way at the till, leaves the stock
  as it was.
* `payments_serial` has no sessions that expire and no approvals; `payments_late`
  shows what the first do. `PaidIsCompleted` is checked without failures: the
  till completes the order in statements of their own.
* `CollectedWithinTotal` and `PaidIsCompleted` speak of steps, because the bill
  moves: a void, a discount or points taken off (`orders/orders.service.ts:642`,
  `:800`, `online-ordering/online-ordering.service.ts:606`) lower the total
  without a look at the payments, so that an order may end with more collected
  than it costs, or paid and open until `processPayment` is called again. What
  holds is that no payment goes above the bill of its time, and that nothing but
  a lowered bill leaves a paid order open. In the web shop the bill stays: a
  gateway collects what it was asked for, whatever became of the bill.
* `CopiesExcused` counts what the client cannot know as an excuse. It does not
  say that an order is placed at all: a tab that closes between its claim and
  its call loses it, as `ClaimsResolve` says by leaving out `"close"` and
  `"abort"`. The model rests on one fact about TanStack Query, stated in its
  header: paused mutations resume before the page is drawn again.
* `PointsExplained`, `BillAgrees`, `RewardsEarned` and the second half of
  `PlatformAgrees` hold one handler at a time, with failures at any statement.
  `LinesOrderedOnce` holds one handler at a time without failures and without
  customers who pay with points they do not have: `placeOnlineOrder` creates the
  order before it knows whether the points suffice.
* `BillAgrees` excuses the part of a total that is in no other column: the points
  `placeOnlineOrder` takes off the total alone
  (`online-ordering/online-ordering.service.ts:606`) and the total a platform sends
  (`aggregators/aggregators.service.ts:217`), called `outside`. The next void,
  discount or added dish computes the total from the columns and drops it
  (`orders/orders.service.ts:642`, `:753`, `:800`): a customer who paid with points
  then owes the full price again. The model follows the code in this, and no
  property says that the points stay.
* `WorkedIsNotMissed` leaves out shifts and entries edited by hand and shifts
  that go on after midnight, whose worker may still come.
* `ActiveIsPaid` leaves out pauses: PAST_DUE can be paused and resumed as ACTIVE.
* `SuspensionTakesHold` says that a suspension takes hold within the life of a
  key, not at once, and leaves out users whom a super-admin unlocks and staff
  who still pass and let others in. `CancellationTakesHold` is stated for
  behaviours without failures.

## 4. What is proved

The theorems hold for any sets of orders, items, payments, ingredients, carts,
users and so on, any number of requests in flight, every mix of handlers, and
with failures where the mix or `MayFail` has them. They rest on the assumptions
the modules name, which are no stronger than "`None` is not a value", "prices
are natural numbers", "a bound, a rate or a card's length is positive", "the
slots for payments, refunds, stock rows, orders, transfers, lines, dishes, imports
and calls that are counted or summed are finite" and "a shift
has one worker"; TLC evaluates them on every run.

| Theorem | Says |
|---|---|
| `OrdersProofs!TypeCorrect`, `PaymentsProofs!TypeCorrect`, `DiningProofs!TypeCorrect`, `StockProofs!TypeCorrect`, `OfflineQueueProofs!TypeCorrect`, `DepartmentProofs!TypesHold` | type correctness, of the whole of `Business` in the last |
| `OrdersProofs!StampsExplainStatus` | `MilestonesStamped`, with the till, the gateway and the tables |
| `OrdersProofs!CookedOrdersAreAccepted` | `CookingAccepted` |
| `OrdersProofs!DeductionsFollowCompletion` | `DeductedOnceCompleted`: at most once also where payments complete orders |
| `OrdersProofs!CompletedOrdersStay` | `CompletedIsFinal` |
| `PaymentsProofs!LedgerIsComplete` | `LedgerExplainsStatus` |
| `PaymentsProofs!CallbacksAreFinal` | `ProcessedIsSettled` |
| `PaymentsProofs!KeepsTheBook` | `Payments` implements `PaymentBook` |
| `PaymentsProofs!NothingGoesBackTwice` | `RefundedWithinAmount`, for `OneHandler` and mixes without `approve` |
| `PaymentsProofs!StatusIsExact` | `StatusTellsRefunds`, for `OneHandler` and mixes in which nothing captures a payment again (`CapturesOnce`: no `stripeReturn`, and no `webhook` for payments staff entered) |
| `PaymentsProofs!NothingIsCollectedTwice` | `CollectedWithinTotal`, for `OneHandler` and mixes that pay at the till (`StaffAlone`), where the bill may change, or online (`OnlineAlone`), without `rebill`, `cancelPayment`, `expire` and `stripeReturn` |
| `PaymentsProofs!PaidIsClosed` | `PaidIsCompleted`, for `OneHandler` without failures |
| `DiningProofs!FloorPlanIsTrue` | `FloorAgrees`, for `OneHandler` |
| `DiningProofs!ClosedSessionsAreSettled` | `ClosedIsSettled`, for `OneHandler` |
| `DiningProofs!OrdersMoveAlong` | `OrdersFollowSession`, for `OneHandler` |
| `DiningProofs!GuestsGetTheirLines` | `LinesKept`, for `OneHandler` |
| `DiningProofs!SeatingIsKept` | `Dining` implements `Seating`, for `OneHandler` and mixes that are a `SteadyFloor` |
| `StockProofs!ReceivedOrdersAreComplete` | `ReceivedIsComplete` |
| `StockProofs!StockIsExplained` | `LedgerBalances` |
| `StockProofs!MovementsAreDocumented` | `MovementsExplained` |
| `StockProofs!ReceiptsAreKept` | no step takes goods received, or an order, back |
| `OfflineQueueProofs!CopiesAreExcused` | `CopiesExcused` |
| `BusinessProofs!DiscountsAreBacked` | `DiscountBacked` |
| `BusinessProofs!TiersAreEarned` | `TierEarned` |
| `BusinessProofs!AccountsAddUp` | `PointsExplained` |
| `BusinessProofs!LinesAreOrderedOnce` | `LinesOrderedOnce` |
| `DepartmentProofs!BillsAgree` | `BillAgrees`, over bills of the till, the web shop and the platforms |
| `DepartmentProofs!RewardsArePaidFor` | `RewardsEarned` |
| `DepartmentProofs!PlatformsAgree` | `PlatformAgrees` |
| `DepartmentProofs!SubscriptionsArePaid` | `ActiveIsPaid` |
| `DepartmentProofs!DeliveriesAreTracked` | `DeliveredIsTracked` |
| `DepartmentProofs!WorkersAreSpared` | `WorkedIsNotMissed` |

The argument is the same each time. The property is not inductive, because a
handler writes what followed from a state that may be gone. The invariant adds
what each handler in flight **still** knows of what it read (`InFlightSound`).
That only works for facts that no step undoes, or, one handler at a time, for
rows that nobody else can touch meanwhile:

* `Orders`: no handler clears a timestamp, so the stamps promised by the status
  a handler saw are still set when it writes the next one, and the state machine
  skips no milestone (`TransitionStamps`). `IInv` = `TypeOK`, `InFlightSound`,
  `FreshUnstamped`, `MilestonesStamped`. `CookInv` rests on another such fact: no
  order becomes PENDING again, so a tablet that saw it accepted need not accept
  it. The till, the gateway and the tables write their statuses without having
  seen any, so what those statuses promise (`Milestones`) depends on which of them
  are called. `AloneInv` is about one handler at a time (`Undisturbed`): what it
  read of its order is what the order still is (`KnowsOrder`).
* `Payments`: charges and completed refunds are for ever, and a refund is only
  begun on a payment that was charged. `IInv` = `TypeOK`, `InFlightSound`,
  `RefundsKnown`, `FreshUncharged`, `LedgerExplainsStatus`, `ProcessedIsSettled`.
  The refinement is proved along with it: each step charges at most one payment
  or pays out at most one refund.

  The theorems about amounts say `OneHandler`: `payments_race` lets handlers
  overlap, and `payments_late` shows what then happens to the totals. `MInv` adds
  to `IInv` that what the handler in flight read is still so (`KnowsMoney`): the
  sum collected, the sum that went back, that a refund it approves is PENDING.
  What an order **collected** is not kept by the steps of a gateway, which
  complete a payment without looking at the total; what is kept is what is
  `Claimed`, the payments that wait for a gateway included (`ClaimsFit`). That
  needs each of them to be told apart from the money at the till, to be for one
  session and to be completed at most once (`RowSound`), which is so while the
  mix is `OnlineApart`. The status is exact because it is computed from the same
  sum of refunds that the step adds to (`StatusesTell`, `RefundsFit`). `Audited`
  names the statement of `processPayment` that will put a gap between the history
  and the order right. At the till the bill moves, so that what was collected need
  not stay below it: `TillStep` says what a single step does, which is enough,
  since a payment is checked against the bill and the sum of its time and no other
  handler comes between.
* `Dining`: the theorems about the floor and the carts say `OneHandler`, that
  `Requests` has one element: with two, TLC finds counterexamples to each. Only
  single statements (a payment, an expiry, a status set by hand) come between
  the read and the write of the handler, so `FloorInv` says that what it read of
  a table or session is still so (`Knows`), and on a steady floor that the target
  of a transfer is empty and that a session about to be closed has nothing
  unpaid (`KnowsSteady`). The refinement of `Seating` follows from the same facts:
  a party sits where its active session sits, and has left once the session is
  closed; without them a bill asked for late would reopen a closed session.
  `LinesInv` follows the lines a handler carries: a cart being edited, carts being
  merged (`Merging`) and carts still to be deleted after the order that holds
  their lines (`Clearing`).
* `Stock`: ordered quantities never change and received ones never fall, so an
  order that was complete when the status was computed is complete when it is
  written. `IInv` = `TypeOK`, `InFlightSound`, `TransfersKnown`,
  `ReceivedIsComplete`.

  The ledger (`LInv`) relates sums over all rows of an ingredient, wherever they
  are. Each handler changes one term of each sum; the work is to show that the
  rows summed over are the same before and after: rows keep their names, a row
  that a transfer creates brings no movements of its own (`RowsBorn`), and orders
  and transfers name rows that exist (`OrdersBorn`, `TransfersBorn`).
  `LedgerBalances` needs no more, since level and movement change by one amount
  in one transaction, except in a stock take, whose difference is that to the
  stock only while nobody else writes (`Known`). `MovementsExplained` also needs
  that a transfer about to be received or recalled is still PENDING, which two
  handlers that overlap break: each would write its movement.
* `OfflineQueue`: an order is placed by a call sent long after the claim, so
  `CopiesInv` counts what may still become an order: the entry while it is not
  marked synced, and every run that has it in hand (`Hands`). A claim that is
  committed moves an entry from the first to the second, a put-back the other
  way; only a lost answer or a rolled-back claim adds to the sum, and both are
  excuses. `EntriesSound` says that orders that wait are in no batch and that a
  batch holds only entries of IndexedDB; nothing of the login matters but its
  types (`LoginInv`).
* `Business`, in `BusinessProofs`: each department has steps of its own in
  `req`, so a step of one leaves the handlers of another where they are and
  keeps its invariant (`Elsewhere`, with `Moves(r, S)`). Each invariant is then
  shown kept by its own department only. Where a property holds one handler at a
  time, `OneAtATime` says that the handler that moves is the only one in flight
  (`Turn`).
  * `ShopInv`: an order about to be lowered has its points among its redeemed
    ones; an order slot belongs to one placement.
  * `LoyaltyInv`: what any handler read of an account is at most what its rows
    say, since rows only grow.
  * `PointsInv`: what a handler read of an account, the account still is.
    `LinesInv`: a line is in a cart and in an order only while the placement that
    will clean the cart is under way (`ClearedSoon`), and the points it read still
    suffice, so that it goes on to do so.
  * `BillsInv`: between two statements of a void, the subtotal still covers what
    is live, and what the handler read is the bill (`AddsUp`). A total that is
    written anew is that of its columns (`RetotalIs`); what is `outside` of them
    changes only with the total, when the order is created or points come off.
  * `StampsInv`: a card that is complete holds its stamps (`Backed`), also while
    the statement that completes it is still to come.
  * `PlatformInv`: an external order is imported once (`ImportedOnce`), no import
    goes away (`ImportsKept`), and what was pushed, or is about to be, is what
    staff decided (`Decided`, `Told`).
  * `TenantInv`: without pauses nothing is PAUSED or resumed, so that only a paid
    plan, or an upgrade, which pays, makes a subscription ACTIVE.
  * `DeliveryInv`: the times a status needs are set (`Before`), and the times a
    handler's next status needs were set when it read; they only grow.
  * `StaffInv`: a shift that is MISSED, or about to be marked, is over and nobody
    clocked in for it (`Missable`), and nobody clocks in for a shift that is over.

A proof has one lemma per group of actions (`ArriveKeeps`, `ProceedKeeps`, ...)
with a step per action, and frame lemmas for the rows a step leaves alone.

`Sums` holds the lemmas about sums: `SumFunctionOnSet` of the community modules
over a finite set is a number of the type of its terms, depends on its terms
only, changes by the difference where one term changes, enters or leaves, and
grows with the set where the terms are naturals. The library's induction
theorems take an operator as a parameter, so they cannot be instantiated here;
`SubsetInduction` states induction over the subsets of a finite set with a *set*
`F` of those for which the claim holds, and each lemma defines its `F`. It
follows from the well-foundedness of strict inclusion, which the library states
without such a parameter. `Bills` and `WebShop` count with `Cardinality`, whose
facts the library states as well.

**Model-checked only:** liveness (`CookedIsBumped`, `EmptySessionsClose`,
`ClaimsResolve`, `SuspensionTakesHold`, `CancellationTakesHold`), which is out of
the prover's reach. Every other property of a run that passes is a theorem.
The refinement of `Seating` is proved only.

## 5. Not modelled

* Of modelled components: discounts and tax in `Orders` (totals are in `Bills`,
  tips left out); reports, tickets, receipts, notifications; cash-drawer shifts;
  password reset, e-mail verification and PIN login; contact data, the blacklist
  and addresses of customers; leave requests, tips and employee profiles;
  creating, testing and deleting connections to platforms, and menu
  synchronisation; waiter calls, reviews and guest tracking; editing suppliers
  and recipes.
* Creating, editing and deleting tables and sections. Deletion checks for
  sessions and orders in one statement and deletes in another; modelled
  faithfully it only bites when handlers overlap, and the properties of the
  floor hold one handler at a time.
* `Stock`: quantities are whole units; purchase orders and recipes name
  ingredients of their own restaurant, and a stock take is one turn of its loop
  (turns are independent). A transfer's receiving side always creates a row: the
  code looks the ingredient up by the id of the sending side, which never
  matches a row of the other restaurant (`multi-location/multi-location.service.ts:347`).
* Promo codes: the limit is checked by one request and counted by another, with
  nothing that ties the two or promises more; the POS counts under the id of a
  code, which the server does not know (`src/frontend-dashboard/src/pages/pos/POSPage.tsx:1887`).
  Campaigns and segments send messages; reviews are single rows.
* The super-admin console beyond tenants and users: tickets, announcements,
  articles, flags, coupons, referral codes and invoices are edits of single
  records; its audit list in Redis is read and written back whole, so that two
  admins at once may lose an entry, and nothing reads it but a screen.
* Menu (a cache of 60 s over record editing), settings, zones and the driver's
  position, notifications, push and realtime (best effort: no handler reads them
  back, clients fetch again), analytics, infrastructure.
* The front ends and mobile apps are screens over the API. They are most of the
  repository's lines; what has a protocol in them, the offline queue and the
  token refresh, is modelled.
* Isolation levels: a transaction is one atomic step, which is stronger than
  PostgreSQL's READ COMMITTED for the few transactions that read inside.

## 6. Plan

Done, in this order: `Orders` with its proofs, `Payments` and `PaymentBook` with
theirs, `Dining` and `Stock` with theirs; then `LoginSessions` and
`OfflineQueue`; `Loyalty` with `WebShop` and `Stamps`, `Bills`, `Aggregators`,
`Tenants`, `Deliveries` and `Staff`, composed in `Business`, with its proofs; the
sums of `Payments` and `Stock`, with `Sums`.

Next: leave requests against shifts in `Staff`; promo codes next to `WebShop`;
deletion of tables in `Dining`, once the floor is checked with handlers that
overlap. Runs that only show a departure may
give way to passing runs once the code is repaired.
