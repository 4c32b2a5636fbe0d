------------------------------ MODULE Payments ------------------------------
(***************************************************************************)
(* The money side of one order: payments taken by staff (PaymentsService), *)
(* payments made online through a gateway (OnlinePaymentsService), and     *)
(* refunds.  Handlers touch the rows of a single order, so one order is    *)
(* enough; what the rest of the system does to its status is the action    *)
(* OrderMoves.                                                             *)
(*                                                                         *)
(* As in Orders, a handler reads in one step and writes in a later one; a  *)
(* Prisma transaction is one step.                                         *)
(***************************************************************************)
EXTENDS Naturals, FiniteSets, Functions

CONSTANTS
    Payments,   \* slots for rows of the payments table
    Refunds,    \* slots for rows of the refunds table
    Requests,   \* handlers that can be in flight at the same time
    Mixes,      \* sets of handlers; a behaviour calls those of one of them
    MayFail,    \* TRUE: a statement may fail or the process may stop
    MaxTotal,   \* bound on the order's totalAmount
    MaxEntries, \* the count of ledger entries of a row saturates here
    None        \* "no value"

AllHandlers == {"process", "refund", "cancelPayment", "confirmCod", "approve",
                "initiate", "expire", "webhook", "stripeReturn",
                "requestRefund", "rebill", "orderMoves"}

OrderStatus == {"PENDING", "ACCEPTED", "PREPARING", "READY", "SERVED",
                "COMPLETED", "CANCELLED"}
PaymentStatus == {"PENDING", "PROCESSING", "COMPLETED", "FAILED", "CANCELLED",
                  "PARTIALLY_REFUNDED", "REFUNDED"}
RefundStatus == {"PENDING", "COMPLETED"}

\* What gatewayName says of a payment: none, 'cod', or a gateway, which then
\* knows it by its gatewayTxId.
Kind == {"cash", "cod", "gateway"}

\* The online session of a payment: none, before or after expiresAt.
Session == {"none", "live", "expired"}

ASSUME SlotsAssumption == IsFiniteSet(Payments) /\ IsFiniteSet(Refunds)
ASSUME MixesAssumption == Mixes \subseteq SUBSET AllHandlers
ASSUME MayFailAssumption == MayFail \in BOOLEAN
ASSUME MaxTotalAssumption == MaxTotal \in Nat \ {0}
ASSUME MaxEntriesAssumption == MaxEntries \in Nat \ {0}
ASSUME NoneAssumption == None \notin Payments \cup Refunds \cup PaymentStatus
                                     \cup RefundStatus \cup Kind

VARIABLES
    order,      \* status of the order
    history,    \* status in the latest row of its statusHistory
    total,      \* totalAmount of the order; 0 is any amount that is not positive
    payment,    \* the payment rows, with their CHARGE transactions
    refund,     \* the refund rows, with their REFUND transactions
    calls,      \* the handlers clients and gateways call in this behaviour
    req         \* the handlers in flight

vars == <<order, history, total, payment, refund, calls, req>>

-----------------------------------------------------------------------------
Amount == 0..MaxTotal

PaymentRow == [status : PaymentStatus \cup {None}, amount : Amount, kind : Kind,
               session : Session, processed : BOOLEAN, charges : 0..MaxEntries]

NoPayment == [status |-> None, amount |-> 0, kind |-> "cash",
              session |-> "none", processed |-> FALSE, charges |-> 0]

RefundRow == [status : RefundStatus \cup {None}, pay : Payments \cup {None},
              amount : Amount, entries : 0..MaxEntries]

NoRefund == [status |-> None, pay |-> None, amount |-> 0, entries |-> 0]

Step == {"idle", "payWrite", "completeWrite", "historyWrite", "refundWrite",
         "cancelWrite", "codWrite", "approveWrite", "sessionRead", "staleWrite",
         "initiateWrite", "webhookWrite", "stripeVerify", "stripeWrite",
         "requestRead", "requestWrite", "rebillWrite"}

\* `due' is the total the request read, `seen' the money that had come or gone.
Request == [at : Step, pay : Payments \cup {None}, ref : Refunds \cup {None},
            amount : Amount, due : Amount, seen : Nat,
            kind : Kind \cup {None}, to : PaymentStatus \cup {None}]

NoRequest == [at |-> "idle", pay |-> None, ref |-> None, amount |-> 0,
              due |-> 0, seen |-> 0, kind |-> None, to |-> None]

Idle(r) == req[r].at = "idle"

Go(r, new) == req' = [req EXCEPT ![r] = new]

Continue(r, at) == req' = [req EXCEPT ![r].at = at]

Finish(r) == req' = [req EXCEPT ![r] = NoRequest]

\* Sum of the amounts of the payments with a status in S.
PaymentsSum(S) ==
    SumFunctionOnSet([p \in Payments |-> payment[p].amount],
                     {p \in Payments : payment[p].status \in S})

\* What counts as collected: all a handler sees of the money that has come.
Collected == PaymentsSum({"COMPLETED"})

RefundsOf(p) == {f \in Refunds : refund[f].pay = p}

\* Sum of the COMPLETED refunds of payment p among those in F.
Refunded(F) ==
    SumFunctionOnSet([f \in Refunds |-> refund[f].amount],
                     {f \in F : refund[f].status = "COMPLETED"})

OneMore(n) == IF n < MaxEntries THEN n + 1 ELSE n

\* The bound on the payment rows: a request that may create one starts only
\* while a row is left for it.
Creating == {r \in Requests : req[r].at \in {"payWrite", "sessionRead",
                                             "staleWrite", "initiateWrite"}}
FreePayments == {p \in Payments : payment[p].status = None}
RoomForPayment == Cardinality(FreePayments) > Cardinality(Creating)

\* The same bound for the refund rows.
Refunding == {r \in Requests : req[r].at \in {"refundWrite", "requestRead",
                                              "requestWrite"}}
FreeRefunds == {f \in Refunds : refund[f].status = None}
RoomForRefund == Cardinality(FreeRefunds) > Cardinality(Refunding)

Closed == {"COMPLETED", "CANCELLED"}

\* The order row and its history row in one transaction.
SetOrder(s) == order' = s /\ history' = s

rows == <<order, history, total, payment, refund, calls>>
orderRow == <<order, history>>

-----------------------------------------------------------------------------
(* PaymentsService.processPayment                                          *)

\* Mutant: the exact amount does not complete the order.
FullyPaidStrict(paid, due) == paid > due

FullyPaid(paid, due) == paid >= due

Fits(paid, amount, due) == paid + amount <= due

\* Already fully paid: the order is completed if that was missed before.
ProcessPaid(r) ==
    /\ "process" \in calls
    /\ Idle(r)
    /\ order \notin Closed
    /\ FullyPaid(Collected, total)
    /\ Go(r, [NoRequest EXCEPT !.at = "completeWrite"])
    /\ UNCHANGED rows

ProcessRead(r, amount, kind) ==
    /\ "process" \in calls
    /\ Idle(r) /\ RoomForPayment
    /\ order # "CANCELLED"
    /\ amount > 0 /\ Fits(Collected, amount, total)
    /\ Go(r, [NoRequest EXCEPT !.at = "payWrite", !.amount = amount, !.due = total,
                               !.seen = Collected, !.kind = kind])
    /\ UNCHANGED rows

\* Payment and CHARGE in a transaction; the order follows in other statements.
ProcessWrite(r, p) ==
    /\ req[r].at = "payWrite"
    /\ payment[p].status = None
    /\ payment' = [payment EXCEPT ![p] =
                     [status |-> "COMPLETED", amount |-> req[r].amount,
                      kind |-> req[r].kind, session |-> "none",
                      processed |-> FALSE, charges |-> 1]]
    /\ IF FullyPaid(req[r].seen + req[r].amount, req[r].due)
       THEN Go(r, [NoRequest EXCEPT !.at = "completeWrite"])
       ELSE Finish(r)
    /\ UNCHANGED <<orderRow, refund, total, calls>>

CompleteWrite(r) ==
    /\ req[r].at = "completeWrite"
    /\ order' = "COMPLETED"
    /\ Continue(r, "historyWrite")
    /\ UNCHANGED <<history, payment, refund, total, calls>>

CompleteHistory(r) ==
    /\ req[r].at = "historyWrite"
    /\ history' = "COMPLETED"
    /\ Finish(r)
    /\ UNCHANGED <<order, payment, refund, total, calls>>

-----------------------------------------------------------------------------
(* PaymentsService: refunds, cancellation, cash on delivery                *)

\* Mutant: cash on delivery can be refunded before it is collected.
SettledOrPending == {"PENDING", "COMPLETED", "PARTIALLY_REFUNDED"}

Settled == {"COMPLETED", "PARTIALLY_REFUNDED"}

\* Mutant: earlier refunds are forgotten.
CoversAlone(p, before, amount) == amount <= payment[p].amount

Covers(p, before, amount) == before + amount <= payment[p].amount

RefundRead(r, p, amount) ==
    LET before == Refunded(RefundsOf(p))
    IN  /\ "refund" \in calls
        /\ Idle(r) /\ RoomForRefund
        /\ payment[p].status \in Settled
        /\ amount > 0 /\ Covers(p, before, amount)
        /\ Go(r, [NoRequest EXCEPT !.at = "refundWrite", !.pay = p,
                                   !.amount = amount, !.seen = before])
        /\ UNCHANGED rows

\* Mutant: a payment given back in full stays partially refunded.
StatusAfterStrict(p, refunded) ==
    IF refunded > payment[p].amount THEN "REFUNDED" ELSE "PARTIALLY_REFUNDED"

\* Mutant: a status the payments table does not have.
StatusAfterUntyped(p, refunded) ==
    IF refunded >= payment[p].amount THEN "REFUND" ELSE "PARTIALLY_REFUNDED"

\* Status of a payment of which `refunded' has gone back.
StatusAfter(p, refunded) ==
    IF refunded >= payment[p].amount THEN "REFUNDED" ELSE "PARTIALLY_REFUNDED"

RefundWrite(r, f) ==
    LET p == req[r].pay
    IN  /\ req[r].at = "refundWrite"
        /\ refund[f].status = None
        /\ refund' = [refund EXCEPT ![f] = [status |-> "COMPLETED", pay |-> p,
                                            amount |-> req[r].amount,
                                            entries |-> 1]]
        /\ payment' = [payment EXCEPT ![p].status =
                         StatusAfter(p, req[r].seen + req[r].amount)]
        /\ Finish(r)
        /\ UNCHANGED <<orderRow, total, calls>>

CancelPaymentRead(r, p) ==
    /\ "cancelPayment" \in calls
    /\ Idle(r)
    /\ payment[p].status \in {"PENDING", "PROCESSING"}
    /\ Go(r, [NoRequest EXCEPT !.at = "cancelWrite", !.pay = p])
    /\ UNCHANGED rows

CancelPaymentWrite(r) ==
    /\ req[r].at = "cancelWrite"
    /\ payment' = [payment EXCEPT ![req[r].pay].status = "CANCELLED"]
    /\ Finish(r)
    /\ UNCHANGED <<orderRow, refund, total, calls>>

ConfirmCodRead(r) ==
    /\ "confirmCod" \in calls
    /\ Idle(r)
    /\ \E p \in Payments : payment[p].kind = "cod" /\ payment[p].status = "COMPLETED"
    /\ order \in {"ACCEPTED", "PREPARING", "READY"}
    /\ Go(r, [NoRequest EXCEPT !.at = "codWrite"])
    /\ UNCHANGED rows

ConfirmCodWrite(r) ==
    /\ req[r].at = "codWrite"
    /\ SetOrder("COMPLETED")
    /\ Finish(r)
    /\ UNCHANGED <<payment, refund, total, calls>>

ApproveRead(r, f) ==
    LET before == Refunded(RefundsOf(refund[f].pay) \ {f})
    IN  /\ "approve" \in calls
        /\ Idle(r)
        /\ refund[f].status = "PENDING"
        /\ Go(r, [NoRequest EXCEPT !.at = "approveWrite", !.ref = f,
                                   !.seen = before])
        /\ UNCHANGED rows

ApproveWrite(r) ==
    LET f == req[r].ref
        p == refund[f].pay
    IN  /\ req[r].at = "approveWrite"
        /\ refund' = [refund EXCEPT ![f] =
                        [refund[f] EXCEPT !.status = "COMPLETED",
                                          !.entries = OneMore(refund[f].entries)]]
        /\ payment' = [payment EXCEPT ![p].status =
                         StatusAfter(p, req[r].seen + refund[f].amount)]
        /\ Finish(r)
        /\ UNCHANGED <<orderRow, total, calls>>

-----------------------------------------------------------------------------
(* OnlinePaymentsService                                                   *)

\* The payment is created after reading the session of a payment in progress,
\* if there is one.
InitiateRead(r, kind) ==
    LET inProgress == {p \in Payments : payment[p].status = "PROCESSING"}
    IN  /\ "initiate" \in calls
        /\ Idle(r) /\ RoomForPayment
        /\ kind \in {"cod", "gateway"}
        /\ order # "CANCELLED"
        /\ IF inProgress = {}
           THEN /\ Collected < total
                /\ Go(r, [NoRequest EXCEPT !.at = "initiateWrite", !.due = total,
                                           !.seen = Collected, !.kind = kind])
           ELSE \E p \in inProgress :
                   Go(r, [NoRequest EXCEPT !.at = "sessionRead", !.pay = p, !.due = total,
                                           !.seen = Collected, !.kind = kind])
        /\ UNCHANGED rows

\* Mutant: the expiry comparison is the wrong way round.
RefusesExpired(session) == session = "expired"

Refuses(session) == session = "live"

\* A live session refuses the second payment.
SessionRead(r) ==
    /\ req[r].at = "sessionRead"
    /\ IF Refuses(payment[req[r].pay].session)
       THEN Finish(r) ELSE Continue(r, "staleWrite")
    /\ UNCHANGED rows

StaleWrite(r) ==
    /\ req[r].at = "staleWrite"
    /\ payment' = [payment EXCEPT ![req[r].pay].status = "CANCELLED"]
    /\ IF req[r].seen < req[r].due THEN Continue(r, "initiateWrite") ELSE Finish(r)
    /\ UNCHANGED <<orderRow, refund, total, calls>>

\* Cash on delivery records an intent over the full total; a gateway payment
\* comes with a session that expires in 30 minutes.
InitiateWrite(r, p) ==
    LET new == IF req[r].kind = "cod"
               THEN [NoPayment EXCEPT !.status = "PENDING",
                                      !.amount = req[r].due, !.kind = "cod"]
               ELSE [NoPayment EXCEPT !.status = "PROCESSING",
                                      !.amount = req[r].due - req[r].seen,
                                      !.kind = "gateway", !.session = "live"]
    IN  /\ req[r].at = "initiateWrite"
        /\ payment[p].status = None
        /\ payment' = [payment EXCEPT ![p] = new]
        /\ Finish(r)
        /\ UNCHANGED <<orderRow, refund, total, calls>>

\* The clock passes a session's expiresAt.
SessionExpires(p) ==
    /\ "expire" \in calls
    /\ payment[p].session = "live"
    /\ payment' = [payment EXCEPT ![p].session = "expired"]
    /\ UNCHANGED <<orderRow, refund, total, calls, req>>

\* Mutant: a "pending" notice counts as an outcome.
OutcomesWithPending == {"COMPLETED", "FAILED", "CANCELLED", "PENDING"}

Outcomes == {"COMPLETED", "FAILED", "CANCELLED"}

\* The gateway reports an outcome, perhaps late, perhaps more than once.
WebhookRead(r, p, outcome) ==
    /\ "webhook" \in calls
    /\ Idle(r)
    /\ outcome \in Outcomes
    /\ payment[p].status # None /\ payment[p].kind = "gateway"
    /\ ~payment[p].processed
    /\ payment[p].status # "COMPLETED"
    /\ Go(r, [NoRequest EXCEPT !.at = "webhookWrite", !.pay = p, !.to = outcome])
    /\ UNCHANGED rows

\* webhookProcessed is a column of the session.  (Staff may have entered a gateway
\* payment by hand; it has none.)
Processed(p) == payment[p].session # "none"

\* Mutant: the capture leaves no CHARGE transaction.
CaptureUnrecorded(p) ==
    /\ payment' = [payment EXCEPT ![p].status = "COMPLETED",
                                  ![p].processed = Processed(p)]
    /\ SetOrder("ACCEPTED")

\* The transaction both success paths run.
Capture(p) ==
    /\ payment' = [payment EXCEPT ![p] =
                     [payment[p] EXCEPT !.status = "COMPLETED",
                                        !.processed = Processed(p),
                                        !.charges = OneMore(payment[p].charges)]]
    /\ SetOrder("ACCEPTED")

WebhookWrite(r) ==
    LET p == req[r].pay
    IN  /\ req[r].at = "webhookWrite"
        /\ IF req[r].to = "COMPLETED"
           THEN Capture(p)
           ELSE /\ payment' = [payment EXCEPT ![p] =
                                 [payment[p] EXCEPT !.status = req[r].to,
                                                    !.processed = Processed(p)]]
                /\ UNCHANGED orderRow
        /\ Finish(r)
        /\ UNCHANGED <<refund, total, calls>>

\* The customer's browser comes back from Stripe Checkout (or reloads).
StripeRead(r, p) ==
    /\ "stripeReturn" \in calls
    /\ Idle(r)
    /\ payment[p].kind = "gateway"
    /\ payment[p].status \notin {None, "COMPLETED"}
    /\ Go(r, [NoRequest EXCEPT !.at = "stripeVerify", !.pay = p])
    /\ UNCHANGED rows

\* Stripe is asked whether the session is paid; it may answer either way.
StripeVerify(r) ==
    /\ req[r].at = "stripeVerify"
    /\ Continue(r, "stripeWrite") \/ Finish(r)
    /\ UNCHANGED rows

StripeWrite(r) ==
    /\ req[r].at = "stripeWrite"
    /\ Capture(req[r].pay)
    /\ Finish(r)
    /\ UNCHANGED <<refund, total, calls>>

RequestRefundEnter(r) ==
    /\ "requestRefund" \in calls
    /\ Idle(r) /\ RoomForRefund
    /\ order = "COMPLETED"
    /\ Go(r, [NoRequest EXCEPT !.at = "requestRead"])
    /\ UNCHANGED rows

\* Some COMPLETED payment is picked; a gateway payment without a pending
\* refund and with money left gets a refund request for the rest.
RequestRefundRead(r) ==
    LET back(p) == Refunded(RefundsOf(p))
        refundable(p) == /\ payment[p].kind = "gateway"
                         /\ \A f \in RefundsOf(p) : refund[f].status # "PENDING"
                         /\ payment[p].amount > back(p)
    IN  /\ req[r].at = "requestRead"
        /\ \/ \E p \in Payments :
                 /\ payment[p].status = "COMPLETED"
                 /\ IF refundable(p)
                    THEN Go(r, [NoRequest EXCEPT !.at = "requestWrite", !.pay = p,
                                  !.amount = payment[p].amount - back(p)])
                    ELSE Finish(r)
           \/ /\ \A p \in Payments : payment[p].status # "COMPLETED"
              /\ Finish(r)
        /\ UNCHANGED rows

RequestRefundWrite(r, f) ==
    /\ req[r].at = "requestWrite"
    /\ refund[f].status = None
    /\ refund' = [refund EXCEPT ![f] = [status |-> "PENDING",
                                        pay |-> req[r].pay,
                                        amount |-> req[r].amount,
                                        entries |-> 0]]
    /\ Finish(r)
    /\ UNCHANGED <<orderRow, payment, total, calls>>

-----------------------------------------------------------------------------
(* The rest of the system                                                  *)

\* Staff void an item, add items or grant a discount, or the web shop takes the
\* customer's points off (module Bills has the detail): payments are not asked.
RebillRead(r) ==
    /\ "rebill" \in calls
    /\ Idle(r)
    /\ order \notin Closed
    /\ Go(r, [NoRequest EXCEPT !.at = "rebillWrite"])
    /\ UNCHANGED rows

RebillWrite(r, t) ==
    /\ req[r].at = "rebillWrite"
    /\ total' = t
    /\ Finish(r)
    /\ UNCHANGED <<orderRow, payment, refund, calls>>

\* Staff and kitchen move the order (module Orders has the detail).
OrderMoves(s) ==
    /\ "orderMoves" \in calls
    /\ order \notin Closed
    /\ \/ <<order, s>> \in
               {<<"PENDING", "ACCEPTED">>, <<"ACCEPTED", "PREPARING">>,
                <<"PREPARING", "READY">>, <<"READY", "SERVED">>,
                <<"READY", "COMPLETED">>, <<"SERVED", "COMPLETED">>}
       \/ s = "CANCELLED"
    /\ SetOrder(s)
    /\ UNCHANGED <<payment, refund, total, calls, req>>

\* A statement throws, or the server stops: the rest of the handler is lost.
Fail(r) ==
    /\ MayFail
    /\ ~Idle(r)
    /\ Finish(r)
    /\ UNCHANGED rows

Init ==
    /\ order \in {"PENDING", "ACCEPTED"}
    /\ history = order
    /\ total \in Amount
    /\ payment = [p \in Payments |-> NoPayment]
    /\ refund = [f \in Refunds |-> NoRefund]
    /\ calls \in Mixes
    /\ req = [r \in Requests |-> NoRequest]

Arrive(r) ==
    \/ ProcessPaid(r)
    \/ \E amount \in Amount, kind \in Kind : ProcessRead(r, amount, kind)
    \/ \E p \in Payments, amount \in Amount : RefundRead(r, p, amount)
    \/ \E p \in Payments : CancelPaymentRead(r, p)
    \/ ConfirmCodRead(r)
    \/ \E f \in Refunds : ApproveRead(r, f)
    \/ \E kind \in Kind : InitiateRead(r, kind)
    \/ \E p \in Payments, outcome \in PaymentStatus : WebhookRead(r, p, outcome)
    \/ \E p \in Payments : StripeRead(r, p)
    \/ RequestRefundEnter(r)
    \/ RebillRead(r)

Proceed(r) ==
    \/ \E p \in Payments : ProcessWrite(r, p)
    \/ CompleteWrite(r)
    \/ CompleteHistory(r)
    \/ \E f \in Refunds : RefundWrite(r, f)
    \/ CancelPaymentWrite(r)
    \/ ConfirmCodWrite(r)
    \/ ApproveWrite(r)
    \/ SessionRead(r)
    \/ StaleWrite(r)
    \/ \E p \in Payments : InitiateWrite(r, p)
    \/ WebhookWrite(r)
    \/ StripeVerify(r)
    \/ StripeWrite(r)
    \/ RequestRefundRead(r)
    \/ \E f \in Refunds : RequestRefundWrite(r, f)
    \/ \E t \in Amount : RebillWrite(r, t)

Next ==
    \/ \E r \in Requests : Arrive(r) \/ Proceed(r) \/ Fail(r)
    \/ \E p \in Payments : SessionExpires(p)
    \/ \E s \in OrderStatus : OrderMoves(s)

Spec == Init /\ [][Next]_vars

-----------------------------------------------------------------------------
(* Properties                                                              *)

TypeOK ==
    /\ order \in OrderStatus
    /\ history \in OrderStatus
    /\ total \in Amount
    /\ payment \in [Payments -> PaymentRow]
    /\ refund \in [Refunds -> RefundRow]
    /\ calls \in Mixes
    /\ req \in [Requests -> Request]

Charged == {"COMPLETED", "PARTIALLY_REFUNDED", "REFUNDED"}

\* The transactions table explains the status of every payment and refund,
\* however handlers, callbacks and failures interleave: money that counts as
\* collected has a CHARGE, a payment that counts as refunded has a completed
\* refund, a completed refund has a REFUND entry, and no money goes back from
\* a payment that was never charged.
LedgerExplainsStatus ==
    /\ \A p \in Payments :
          payment[p].status \in Charged => payment[p].charges > 0
    /\ \A p \in Payments :
          payment[p].status \in {"PARTIALLY_REFUNDED", "REFUNDED"}
              => \E f \in RefundsOf(p) : refund[f].status = "COMPLETED"
    /\ \A f \in Refunds :
          refund[f].status = "COMPLETED"
              => refund[f].entries > 0 /\ payment[refund[f].pay].charges > 0

\* Handlers, callbacks and failures in any order keep the promise of module
\* PaymentBook: charges are never taken back, and a refund that counts as
\* completed was paid out once and for all from a payment charged before.
Book == INSTANCE PaymentBook WITH
    charged <- {p \in Payments : payment[p].charges > 0},
    paidOut <- [f \in Refunds |-> IF refund[f].status = "COMPLETED"
                                  THEN refund[f].pay ELSE None]

ImplementsBook == Book!Spec

\* A callback is final: once webhookProcessed is set, the payment never waits
\* for the gateway again, so a retry that the guard ignores is never needed.
ProcessedIsSettled ==
    \A p \in Payments :
        payment[p].processed => payment[p].status \notin {None, "PENDING", "PROCESSING"}

\* No request is in flight.
Quiet == \A r \in Requests : Idle(r)

\* No step collects more than the order costs by then, at the till where its bill
\* is changed between payments, and in the web shop, with refunds in between (one
\* handler at a time, callbacks before the session expires, and in the web shop
\* a bill that stays: a payment in progress does not follow it).
CollectedWithinTotal ==
    [][Collected' > Collected => Collected' <= total']_vars

\* A payment never gives back more than was paid, by refunds that staff issue
\* next to refund requests that nobody approves.
RefundedWithinAmount ==
    \A p \in Payments : Refunded(RefundsOf(p)) <= payment[p].amount

\* The status of a charged payment tells how much of it went back, though it
\* is computed from refunds read before the transaction.
StatusTellsRefunds ==
    \A p \in Payments :
        payment[p].status \in Charged =>
            LET back == Refunded(RefundsOf(p))
            IN  payment[p].status =
                    IF back = 0 THEN "COMPLETED"
                    ELSE IF back < payment[p].amount THEN "PARTIALLY_REFUNDED"
                    ELSE "REFUNDED"

\* The order is paid but open, and no handler is about to complete it.
Unsettled ==
    /\ Collected >= total
    /\ order \notin Closed
    /\ \A r \in Requests : req[r].at # "completeWrite"

\* The handlers by which customers and gateways pay.
OnlineHandlers == {"initiate", "webhook", "stripeReturn"}

\* The cashier's flow spans three statements.  Once nothing is in flight, the
\* audit trail ends with the status the order has; and where staff alone take
\* money, only a bill that is lowered to what was paid already leaves an order
\* paid and open (until the next call of processPayment).
PaidIsCompleted ==
    [][/\ Quiet' => history' = order'
       /\ /\ calls \cap OnlineHandlers = {}
          /\ Unsettled' /\ ~Unsettled
          => total' < total]_vars
=============================================================================
