---------------------------- MODULE PaymentsProofs ----------------------------
(***************************************************************************)
(* Proofs about Payments, for any number of payments, refunds and requests *)
(* in flight, any mix of handlers, with or without failures.               *)
(*                                                                         *)
(* LedgerExplainsStatus is not inductive: a handler writes a refund for a  *)
(* payment whose status it read earlier.  The strengthening says what      *)
(* outlives every interleaving: charges and refunds are never undone, a    *)
(* refund in flight or pending belongs to a payment that was charged, and  *)
(* a handler that opens a gateway payment saw money left to pay.           *)
(*                                                                         *)
(* What the amounts add up to is not kept by handlers that overlap: each   *)
(* computes from sums it read before it writes.  The second half proves    *)
(* it for one handler at a time, from MInv: what the handler in flight     *)
(* read is still so, and what a gateway may still collect counts as        *)
(* collected.                                                              *)
(***************************************************************************)
EXTENDS Payments, TLAPS, Sums

OnPayment == {"refundWrite", "cancelWrite", "sessionRead", "staleWrite",
              "webhookWrite", "stripeVerify", "stripeWrite", "requestWrite"}

Initiating == {"sessionRead", "staleWrite", "initiateWrite"}

\* What a request q keeps knowing from its read to its write.
Sound(q) ==
    /\ q.at \in OnPayment => q.pay \in Payments
    /\ q.at \in {"refundWrite", "requestWrite"} => payment[q.pay].charges > 0
    /\ q.at = "approveWrite" => q.ref \in Refunds /\ refund[q.ref].status # None
    /\ q.at = "payWrite" => q.kind \in Kind
    /\ q.at \in Initiating => q.kind \in {"cod", "gateway"}
    /\ q.at = "initiateWrite" => q.seen < q.due
    /\ q.at = "webhookWrite" => q.to \in Outcomes

InFlightSound == \A r \in Requests : Sound(req[r])

\* A refund row belongs to a payment that was charged.
RefundsKnown ==
    \A f \in Refunds : refund[f].status # None =>
        refund[f].pay \in Payments /\ payment[refund[f].pay].charges > 0

\* A row that does not exist yet was not charged.
FreshUncharged == \A p \in Payments : payment[p].status = None => payment[p].charges = 0

IInv == /\ TypeOK /\ InFlightSound /\ RefundsKnown /\ FreshUncharged
        /\ LedgerExplainsStatus /\ ProcessedIsSettled

\* A step undoes no charge and no refund.
ChargesGrow == \A p \in Payments : payment[p].charges > 0 => payment'[p].charges > 0

RefundsGrow ==
    \A f \in Refunds : refund[f].status # None =>
        /\ refund'[f].status # None
        /\ refund'[f].pay = refund[f].pay
        /\ refund[f].status = "COMPLETED" => refund'[f].status = "COMPLETED"

\* A step of module PaymentBook, or a stuttering step.
BookStep == [Book!Next]_(Book!book)

-----------------------------------------------------------------------------
\* Sums of amounts are natural numbers.
LEMMA PaymentsSumTyped ==
    ASSUME TypeOK, NEW S
    PROVE  PaymentsSum(S) \in Nat
<1> DEFINE D == {p \in Payments : payment[p].status \in S}
           f == [p \in Payments |-> payment[p].amount]
<1>1. IsFiniteSet(D)  BY SlotsAssumption, FS_Subset
<1>2. \A p \in D : f[p] \in Nat  BY MaxTotalAssumption DEF TypeOK, PaymentRow, Amount
<1>3. Nat \in {Nat, Int}  OBVIOUS
<1> HIDE DEF D, f
<1>4. SumFunctionOnSet(f, D) \in Nat  BY <1>1, <1>2, <1>3, SumType
<1> QED  BY <1>4 DEF PaymentsSum, D, f

LEMMA CollectedTyped == IInv => Collected \in Nat
BY PaymentsSumTyped DEF IInv, Collected

LEMMA RefundedTyped ==
    ASSUME TypeOK, NEW F, F \subseteq Refunds
    PROVE  Refunded(F) \in Nat
<1> DEFINE D == {x \in F : refund[x].status = "COMPLETED"}
           f == [x \in Refunds |-> refund[x].amount]
<1>1. IsFiniteSet(D)  BY SlotsAssumption, FS_Subset
<1>2. \A x \in D : f[x] \in Nat  BY MaxTotalAssumption DEF TypeOK, RefundRow, Amount
<1>3. Nat \in {Nat, Int}  OBVIOUS
<1> HIDE DEF D, f
<1>4. SumFunctionOnSet(f, D) \in Nat  BY <1>1, <1>2, <1>3, SumType
<1> QED  BY <1>4 DEF Refunded, D, f

\* A step that neither charges a payment nor completes a refund.
LEMMA BookStutters ==
    ASSUME \A p \in Payments : payment'[p].charges > 0 <=> payment[p].charges > 0,
           \A f \in Refunds :
              /\ refund'[f].status = "COMPLETED" <=> refund[f].status = "COMPLETED"
              /\ refund[f].status = "COMPLETED" => refund'[f].pay = refund[f].pay
    PROVE  BookStep
<1>1. {p \in Payments : payment'[p].charges > 0} = {p \in Payments : payment[p].charges > 0}
  OBVIOUS
<1>2. [f \in Refunds |-> IF refund'[f].status = "COMPLETED" THEN refund'[f].pay ELSE None]
      = [f \in Refunds |-> IF refund[f].status = "COMPLETED" THEN refund[f].pay ELSE None]
  OBVIOUS
<1> QED  BY <1>1, <1>2 DEF BookStep, Book!book

\* A step that writes one payment row without taking a charge back.
LEMMA BookCharges ==
    ASSUME NEW p \in Payments, NEW row,
           payment \in [Payments -> PaymentRow],
           payment' = [payment EXCEPT ![p] = row],
           payment[p].charges > 0 => row.charges > 0,
           UNCHANGED refund
    PROVE  BookStep
<1>1. \A x \in Payments : payment'[x] = IF x = p THEN row ELSE payment[x]
  OBVIOUS
<1>2. CASE row.charges > 0 <=> payment[p].charges > 0
  BY <1>1, <1>2, BookStutters
<1>3. CASE ~(row.charges > 0 <=> payment[p].charges > 0)
  <2>1. p \notin {x \in Payments : payment[x].charges > 0}  BY <1>3
  <2>2. {x \in Payments : payment'[x].charges > 0}
        = {x \in Payments : payment[x].charges > 0} \cup {p}
    BY <1>1, <1>3
  <2>3. [f \in Refunds |-> IF refund'[f].status = "COMPLETED" THEN refund'[f].pay ELSE None]
        = [f \in Refunds |-> IF refund[f].status = "COMPLETED" THEN refund[f].pay ELSE None]
    OBVIOUS
  <2>4. Book!Charge(p)  BY <2>1, <2>2, <2>3 DEF Book!Charge
  <2> QED  BY <2>4 DEF BookStep, Book!Next
<1> QED  BY <1>2, <1>3

\* A step that completes one refund and charges nothing.
LEMMA BookPaysOut ==
    ASSUME NEW f \in Refunds, NEW row,
           refund \in [Refunds -> RefundRow],
           refund' = [refund EXCEPT ![f] = row],
           row.status = "COMPLETED", row.pay \in Payments,
           refund[f].status # None => row.pay = refund[f].pay,
           payment[row.pay].charges > 0,
           \A p \in Payments : payment'[p].charges > 0 <=> payment[p].charges > 0
    PROVE  BookStep
<1>1. \A x \in Refunds : refund'[x] = IF x = f THEN row ELSE refund[x]
  OBVIOUS
<1>2. CASE refund[f].status = "COMPLETED"
  <2>1. refund[f].status # None  BY <1>2, NoneAssumption DEF RefundStatus
  <2> QED  BY <1>1, <1>2, <2>1, BookStutters
<1>3. CASE refund[f].status # "COMPLETED"
  <2> DEFINE out == [x \in Refunds |-> IF refund[x].status = "COMPLETED"
                                       THEN refund[x].pay ELSE None]
  <2>1. {p \in Payments : payment'[p].charges > 0} = {p \in Payments : payment[p].charges > 0}
    OBVIOUS
  <2>2. [x \in Refunds |-> IF refund'[x].status = "COMPLETED" THEN refund'[x].pay ELSE None]
        = [out EXCEPT ![f] = row.pay]
    BY <1>1, <1>3
  <2>3. out[f] = None  BY <1>3
  <2>4. Book!PayOut(f, row.pay)  BY <2>1, <2>2, <2>3 DEF Book!PayOut
  <2> QED  BY <2>4 DEF BookStep, Book!Next
<1> QED  BY <1>2, <1>3

\* A step that gives one request a sound value and undoes nothing keeps every
\* request sound.
LEMMA SoundStep ==
    ASSUME IInv, ChargesGrow, RefundsGrow,
           NEW r \in Requests, NEW q \in Request, Sound(q)',
           req' = [req EXCEPT ![r] = q]
    PROVE  req' \in [Requests -> Request] /\ InFlightSound'
<1>1. req' \in [Requests -> Request]  BY DEF IInv, TypeOK
<1>2. ASSUME NEW s \in Requests PROVE Sound(req[s])'
  <2>1. Sound(req[s])  BY DEF IInv, InFlightSound
  <2>2. req'[s] = IF s = r THEN q ELSE req[s]  BY DEF IInv, TypeOK
  <2>3. CASE s = r  BY <2>2, <2>3 DEF Sound
  <2>4. CASE s # r
    <3>1. req[s].at \in {"refundWrite", "requestWrite"} => req[s].at \in OnPayment
      BY DEF OnPayment
    <3> QED  BY <2>1, <2>2, <2>4, <3>1 DEF Sound, ChargesGrow, RefundsGrow
  <2> QED  BY <2>3, <2>4
<1> QED  BY <1>1, <1>2 DEF InFlightSound

\* A step that writes no payment and no refund undoes nothing.
LEMMA NothingWritten ==
    ASSUME UNCHANGED <<payment, refund>>
    PROVE  ChargesGrow /\ RefundsGrow
  BY DEF ChargesGrow, RefundsGrow

LEMMA FinishSound ==
    ASSUME IInv, ChargesGrow, RefundsGrow, NEW r \in Requests, Finish(r)
    PROVE  req' \in [Requests -> Request] /\ InFlightSound'
<1>1. NoRequest \in Request  BY MaxTotalAssumption DEF NoRequest, Request, Step, Amount
<1>2. Sound(NoRequest)'  BY DEF NoRequest, Sound, OnPayment, Initiating
<1> QED  BY <1>1, <1>2, SoundStep DEF Finish

\* The conjuncts of IInv that a step without writes to payments and refunds
\* leaves alone.
LEMMA KeepsRows ==
    ASSUME IInv, UNCHANGED <<payment, refund, calls>>,
           order' \in OrderStatus, history' \in OrderStatus, total' \in Amount,
           req' \in [Requests -> Request], InFlightSound'
    PROVE  IInv' /\ BookStep
<1>1. TypeOK'  BY DEF IInv, TypeOK
<1>2. RefundsKnown' /\ FreshUncharged'  BY DEF IInv, RefundsKnown, FreshUncharged
<1>3. LedgerExplainsStatus'  BY DEF IInv, LedgerExplainsStatus, RefundsOf
<1>4. ProcessedIsSettled'  BY DEF IInv, ProcessedIsSettled
<1>5. BookStep  BY BookStutters
<1> QED  BY <1>1, <1>2, <1>3, <1>4, <1>5 DEF IInv

\* A handler that has only read goes on, or ends.
LEMMA ReadStep ==
    ASSUME IInv, UNCHANGED <<payment, refund, calls>>,
           order' \in OrderStatus, history' \in OrderStatus, total' \in Amount,
           NEW r \in Requests,
           \/ Finish(r)
           \/ \E q \in Request : Sound(q) /\ req' = [req EXCEPT ![r] = q]
    PROVE  IInv' /\ BookStep
<1>1. ChargesGrow /\ RefundsGrow  BY NothingWritten
<1>2. CASE Finish(r)  BY <1>1, <1>2, FinishSound, KeepsRows
<1>3. CASE \E q \in Request : Sound(q) /\ req' = [req EXCEPT ![r] = q]
  <2>1. PICK q \in Request : Sound(q) /\ req' = [req EXCEPT ![r] = q]  BY <1>3
  <2>2. Sound(q)'  BY <2>1 DEF Sound
  <2> QED  BY <1>1, <2>1, <2>2, SoundStep, KeepsRows
<1> QED  BY <1>2, <1>3

\* One payment row is written, next to refunds that only grow.
LEMMA PaymentStep ==
    ASSUME IInv, NEW p \in Payments, NEW row \in PaymentRow,
           payment' = [payment EXCEPT ![p] = row],
           RefundsGrow,
           row.status = None => row.charges = 0,
           payment[p].charges > 0 => row.charges > 0,
           row.status \in Charged => row.charges > 0,
           row.status \in {"PARTIALLY_REFUNDED", "REFUNDED"} =>
              \E f \in Refunds : refund'[f].pay = p /\ refund'[f].status = "COMPLETED",
           row.processed => row.status \notin {None, "PENDING", "PROCESSING"}
    PROVE  /\ payment' \in [Payments -> PaymentRow]
           /\ ChargesGrow
           /\ FreshUncharged'
           /\ ProcessedIsSettled'
           /\ \A x \in Payments : payment'[x].status \in Charged => payment'[x].charges > 0
           /\ \A x \in Payments :
                 payment'[x].status \in {"PARTIALLY_REFUNDED", "REFUNDED"} =>
                    \E f \in Refunds : refund'[f].pay = x /\ refund'[f].status = "COMPLETED"
<1>1. /\ payment \in [Payments -> PaymentRow]
      /\ \A x \in Payments : payment'[x] = IF x = p THEN row ELSE payment[x]
  BY DEF IInv, TypeOK
<1>2. payment' \in [Payments -> PaymentRow]  BY <1>1
<1>3. ChargesGrow  BY <1>1 DEF ChargesGrow
<1>4. FreshUncharged'  BY <1>1 DEF IInv, FreshUncharged
<1>5. ProcessedIsSettled'  BY <1>1 DEF IInv, ProcessedIsSettled
<1>6. \A x \in Payments : payment'[x].status \in Charged => payment'[x].charges > 0
  BY <1>1 DEF IInv, LedgerExplainsStatus
<1>7. ASSUME NEW x \in Payments,
             payment'[x].status \in {"PARTIALLY_REFUNDED", "REFUNDED"}
      PROVE  \E f \in Refunds : refund'[f].pay = x /\ refund'[f].status = "COMPLETED"
  <2>1. CASE x = p  BY <1>1, <1>7, <2>1
  <2>2. CASE x # p
    <3>1. PICK f \in Refunds : refund[f].pay = x /\ refund[f].status = "COMPLETED"
      BY <1>1, <1>7, <2>2 DEF IInv, LedgerExplainsStatus, RefundsOf
    <3>2. refund[f].status # None  BY <3>1, NoneAssumption DEF RefundStatus
    <3> QED  BY <3>1, <3>2 DEF RefundsGrow
  <2> QED  BY <2>1, <2>2
<1> QED  BY <1>2, <1>3, <1>4, <1>5, <1>6, <1>7

\* One refund row is written for a payment that was charged.
LEMMA RefundStep ==
    ASSUME IInv, NEW f \in Refunds, NEW row \in RefundRow,
           refund' = [refund EXCEPT ![f] = row],
           row.status # None, row.pay \in Payments,
           payment[row.pay].charges > 0,
           row.status = "COMPLETED" => row.entries > 0,
           refund[f].status # None => row.pay = refund[f].pay,
           refund[f].status = "COMPLETED" => row.status = "COMPLETED"
    PROVE  /\ refund' \in [Refunds -> RefundRow]
           /\ RefundsGrow
           /\ \A x \in Refunds : refund'[x].status # None =>
                 refund'[x].pay \in Payments /\ payment[refund'[x].pay].charges > 0
           /\ \A x \in Refunds : refund'[x].status = "COMPLETED" => refund'[x].entries > 0
<1>1. /\ refund \in [Refunds -> RefundRow]
      /\ \A x \in Refunds : refund'[x] = IF x = f THEN row ELSE refund[x]
  BY DEF IInv, TypeOK
<1>2. refund' \in [Refunds -> RefundRow]  BY <1>1
<1>3. RefundsGrow  BY <1>1 DEF RefundsGrow
<1>4. \A x \in Refunds : refund'[x].status # None =>
         refund'[x].pay \in Payments /\ payment[refund'[x].pay].charges > 0
  BY <1>1 DEF IInv, RefundsKnown
<1>5. \A x \in Refunds : refund'[x].status = "COMPLETED" => refund'[x].entries > 0
  BY <1>1 DEF IInv, LedgerExplainsStatus
<1> QED  BY <1>2, <1>3, <1>4, <1>5

\* What a step does to the requests: one goes on or ends, or none moves.
Requested ==
    \/ \E r \in Requests : Finish(r)
    \/ \E r \in Requests, q \in Request : Sound(q)' /\ req' = [req EXCEPT ![r] = q]
    \/ UNCHANGED req

LEMMA RequestedSound ==
    ASSUME IInv, ChargesGrow, RefundsGrow, Requested
    PROVE  req' \in [Requests -> Request] /\ InFlightSound'
<1>1. CASE \E r \in Requests : Finish(r)  BY <1>1, FinishSound
<1>2. CASE \E r \in Requests, q \in Request :
              Sound(q)' /\ req' = [req EXCEPT ![r] = q]
  BY <1>2, SoundStep
<1>3. CASE UNCHANGED req
  <2>1. req' \in [Requests -> Request]  BY <1>3 DEF IInv, TypeOK
  <2>2. ASSUME NEW s \in Requests PROVE Sound(req[s])'
    <3>1. Sound(req[s])  BY DEF IInv, InFlightSound
    <3>2. req[s].at \in {"refundWrite", "requestWrite"} => req[s].at \in OnPayment
      BY DEF OnPayment
    <3> QED  BY <1>3, <3>1, <3>2 DEF Sound, ChargesGrow, RefundsGrow
  <2> QED  BY <2>1, <2>2 DEF InFlightSound
<1> QED  BY <1>1, <1>2, <1>3 DEF Requested

\* A handler writes one payment row and no refund.
LEMMA PaymentWrite ==
    ASSUME IInv, Requested, UNCHANGED <<refund, total, calls>>,
           order' \in OrderStatus, history' \in OrderStatus, total' \in Amount,
           NEW p \in Payments, NEW row \in PaymentRow,
           payment' = [payment EXCEPT ![p] = row],
           row.status = None => row.charges = 0,
           payment[p].charges > 0 => row.charges > 0,
           row.status \in Charged => row.charges > 0,
           row.status \in {"PARTIALLY_REFUNDED", "REFUNDED"} =>
              row.status = payment[p].status,
           row.processed => row.status \notin {None, "PENDING", "PROCESSING"}
    PROVE  IInv' /\ BookStep
<1>1. RefundsGrow  BY DEF RefundsGrow
<1>2. row.status \in {"PARTIALLY_REFUNDED", "REFUNDED"} =>
         \E f \in Refunds : refund'[f].pay = p /\ refund'[f].status = "COMPLETED"
  BY DEF IInv, LedgerExplainsStatus, RefundsOf
<1>3. /\ payment' \in [Payments -> PaymentRow]
      /\ ChargesGrow
      /\ FreshUncharged'
      /\ ProcessedIsSettled'
      /\ \A x \in Payments : payment'[x].status \in Charged => payment'[x].charges > 0
      /\ \A x \in Payments :
            payment'[x].status \in {"PARTIALLY_REFUNDED", "REFUNDED"} =>
               \E f \in Refunds : refund'[f].pay = x /\ refund'[f].status = "COMPLETED"
  BY <1>1, <1>2, PaymentStep
<1>4. req' \in [Requests -> Request] /\ InFlightSound'  BY <1>1, <1>3, RequestedSound
<1>5. TypeOK'  BY <1>3, <1>4 DEF IInv, TypeOK
<1>6. RefundsKnown'  BY <1>3 DEF IInv, RefundsKnown, ChargesGrow
<1>7. LedgerExplainsStatus'
  <2>1. refund' = refund  OBVIOUS
  <2>2. ASSUME NEW f \in Refunds, refund[f].status = "COMPLETED"
        PROVE  refund[f].entries > 0 /\ payment'[refund[f].pay].charges > 0
    <3>1. refund[f].status # None  BY <2>2, NoneAssumption DEF RefundStatus
    <3> QED  BY <1>6, <2>1, <2>2, <3>1 DEF IInv, LedgerExplainsStatus, RefundsKnown
  <2> QED  BY <1>3, <2>1, <2>2 DEF LedgerExplainsStatus, RefundsOf
<1>8. BookStep  BY BookCharges DEF IInv, TypeOK
<1> QED  BY <1>3, <1>4, <1>5, <1>6, <1>7, <1>8 DEF IInv

\* A refund row becomes COMPLETED and its payment's status follows.
LEMMA PayOutWrite ==
    ASSUME IInv, Requested, UNCHANGED <<orderRow, total, calls>>,
           NEW f \in Refunds, NEW row \in RefundRow,
           refund' = [refund EXCEPT ![f] = row],
           row.status = "COMPLETED", row.entries > 0, row.pay \in Payments,
           refund[f].status # None => row.pay = refund[f].pay,
           payment[row.pay].charges > 0,
           NEW s \in {"REFUNDED", "PARTIALLY_REFUNDED"},
           payment' = [payment EXCEPT ![row.pay].status = s]
    PROVE  IInv' /\ BookStep
<1> DEFINE p == row.pay
           new == [payment[p] EXCEPT !.status = s]
<1>1. row.status # None  BY NoneAssumption DEF RefundStatus
<1>2. /\ refund' \in [Refunds -> RefundRow]
      /\ RefundsGrow
      /\ \A x \in Refunds : refund'[x].status # None =>
            refund'[x].pay \in Payments /\ payment[refund'[x].pay].charges > 0
      /\ \A x \in Refunds : refund'[x].status = "COMPLETED" => refund'[x].entries > 0
  BY <1>1, RefundStep
<1>3. /\ payment' = [payment EXCEPT ![p] = new]
      /\ new \in PaymentRow
      /\ new.status = s /\ new.charges = payment[p].charges
  BY DEF IInv, TypeOK, PaymentRow, PaymentStatus
<1>4. s # None /\ s \in Charged /\ s \notin {"PENDING", "PROCESSING"}
  BY NoneAssumption DEF PaymentStatus, Charged
<1>5. refund'[f].pay = p /\ refund'[f].status = "COMPLETED"  BY DEF IInv, TypeOK
<1> HIDE DEF p, new
<1>6. /\ payment' \in [Payments -> PaymentRow]
      /\ ChargesGrow
      /\ FreshUncharged'
      /\ ProcessedIsSettled'
      /\ \A x \in Payments : payment'[x].status \in Charged => payment'[x].charges > 0
      /\ \A x \in Payments :
            payment'[x].status \in {"PARTIALLY_REFUNDED", "REFUNDED"} =>
               \E g \in Refunds : refund'[g].pay = x /\ refund'[g].status = "COMPLETED"
  BY <1>2, <1>3, <1>4, <1>5, PaymentStep DEF p
<1>7. req' \in [Requests -> Request] /\ InFlightSound'  BY <1>2, <1>6, RequestedSound
<1>8. TypeOK'  BY <1>2, <1>6, <1>7 DEF IInv, TypeOK, orderRow
<1>9. RefundsKnown'  BY <1>2, <1>6 DEF RefundsKnown, ChargesGrow
<1>10. LedgerExplainsStatus'
  <2>1. ASSUME NEW x \in Refunds, refund'[x].status = "COMPLETED"
        PROVE  refund'[x].entries > 0 /\ payment'[refund'[x].pay].charges > 0
    <3>1. refund'[x].status # None  BY <2>1, NoneAssumption DEF RefundStatus
    <3> QED  BY <1>2, <1>9, <2>1, <3>1 DEF RefundsKnown
  <2> QED  BY <1>6, <2>1 DEF LedgerExplainsStatus, RefundsOf
<1>11. BookStep
  <2>1. \A x \in Payments : payment'[x].charges = payment[x].charges
    BY <1>3 DEF IInv, TypeOK
  <2> QED  BY <2>1, BookPaysOut DEF IInv, TypeOK
<1> QED  BY <1>6, <1>7, <1>8, <1>9, <1>10, <1>11 DEF IInv

-----------------------------------------------------------------------------
\* Handlers that arrive read rows and keep what they found.
LEMMA ArriveSafe ==
    ASSUME IInv, NEW r \in Requests, Arrive(r)
    PROVE  IInv' /\ BookStep
<1> USE DEF NoRequest, Request, Step, Sound, OnPayment, Initiating, Go, rows
<1>0. /\ UNCHANGED <<payment, refund, total, calls>>
      /\ order' \in OrderStatus /\ history' \in OrderStatus /\ total' \in Amount
  BY DEF IInv, TypeOK, Arrive, ProcessPaid, ProcessRead, RefundRead,
         CancelPaymentRead, ConfirmCodRead, ApproveRead, InitiateRead,
         WebhookRead, StripeRead, RequestRefundEnter, RebillRead
<1>1. 0 \in Amount /\ total \in Amount  BY MaxTotalAssumption DEF Amount, IInv, TypeOK
<1>2. CASE ProcessPaid(r)  BY <1>0, <1>1, <1>2, ReadStep DEF ProcessPaid
<1>3. CASE \E amount \in Amount, kind \in Kind : ProcessRead(r, amount, kind)
  BY <1>0, <1>1, <1>3, CollectedTyped, ReadStep DEF ProcessRead
<1>4. CASE \E p \in Payments, amount \in Amount : RefundRead(r, p, amount)
  <2>1. PICK p \in Payments, amount \in Amount : RefundRead(r, p, amount)  BY <1>4
  <2>2. payment[p].charges > 0
    BY <2>1 DEF RefundRead, Settled, IInv, LedgerExplainsStatus, Charged
  <2>3. Refunded(RefundsOf(p)) \in Nat  BY RefundedTyped DEF RefundsOf, IInv
  <2> QED  BY <1>0, <1>1, <2>1, <2>2, <2>3, ReadStep DEF RefundRead
<1>5. CASE \E p \in Payments : CancelPaymentRead(r, p)
  BY <1>0, <1>1, <1>5, ReadStep DEF CancelPaymentRead
<1>6. CASE ConfirmCodRead(r)  BY <1>0, <1>1, <1>6, ReadStep DEF ConfirmCodRead
<1>7. CASE \E f \in Refunds : ApproveRead(r, f)
  <2>1. PICK f \in Refunds : ApproveRead(r, f)  BY <1>7
  <2>2. refund[f].status # None  BY <2>1, NoneAssumption DEF ApproveRead, RefundStatus
  <2>3. Refunded(RefundsOf(refund[f].pay) \ {f}) \in Nat
    BY RefundedTyped DEF RefundsOf, IInv
  <2> QED  BY <1>0, <1>1, <2>1, <2>2, <2>3, ReadStep DEF ApproveRead
<1>8. CASE \E kind \in Kind : InitiateRead(r, kind)
  BY <1>0, <1>1, <1>8, CollectedTyped, ReadStep DEF InitiateRead
<1>9. CASE \E p \in Payments, outcome \in PaymentStatus : WebhookRead(r, p, outcome)
  BY <1>0, <1>1, <1>9, ReadStep DEF WebhookRead
<1>10. CASE \E p \in Payments : StripeRead(r, p)
  BY <1>0, <1>1, <1>10, ReadStep DEF StripeRead
<1>11. CASE RequestRefundEnter(r)
  BY <1>0, <1>1, <1>11, ReadStep DEF RequestRefundEnter
<1>12. CASE RebillRead(r)  BY <1>0, <1>1, <1>12, ReadStep DEF RebillRead
<1> QED  BY <1>2, <1>3, <1>4, <1>5, <1>6, <1>7, <1>8, <1>9, <1>10, <1>11, <1>12
         DEF Arrive

\* What the handlers in flight know about the row they write.
LEMMA InFlight ==
    ASSUME IInv, NEW r \in Requests
    PROVE  /\ req[r] \in Request /\ Sound(req[r])
           /\ payment \in [Payments -> PaymentRow]
           /\ refund \in [Refunds -> RefundRow]
           /\ order \in OrderStatus /\ history \in OrderStatus /\ total \in Amount
           /\ \A p \in Payments : payment[p].status = None => payment[p].charges = 0
           /\ \A p \in Payments : payment[p].status \in Charged => payment[p].charges > 0
  BY DEF IInv, TypeOK, InFlightSound, FreshUncharged, LedgerExplainsStatus

\* The statuses a payment row can have are not None.
LEMMA NotNone == \A s \in PaymentStatus \cup RefundStatus : s # None
  BY NoneAssumption

\* The capture of a payment by a callback or by the return page.
LEMMA CaptureSafe ==
    ASSUME IInv, NEW r \in Requests, Finish(r), UNCHANGED <<refund, total, calls>>,
           NEW p \in Payments, Capture(p)
    PROVE  IInv' /\ BookStep
<1> DEFINE row == [payment[p] EXCEPT !.status = "COMPLETED", !.processed = Processed(p),
                                     !.charges = OneMore(payment[p].charges)]
<1>1. /\ OneMore(payment[p].charges) \in 0..MaxEntries
      /\ OneMore(payment[p].charges) > 0
  <2>1. payment[p].charges \in 0..MaxEntries  BY InFlight DEF PaymentRow
  <2> QED  BY <2>1, MaxEntriesAssumption DEF OneMore
<1>2. /\ payment' = [payment EXCEPT ![p] = row]
      /\ row \in PaymentRow /\ row.status = "COMPLETED" /\ row.charges > 0
  <2>1. payment' = [payment EXCEPT ![p] = row]  BY DEF Capture
  <2>2. payment[p] \in PaymentRow  BY InFlight
  <2>3. row \in PaymentRow  BY <1>1, <2>2 DEF PaymentRow, PaymentStatus, Processed
  <2>4. row.status = "COMPLETED" /\ row.charges = OneMore(payment[p].charges)
    BY <2>2 DEF PaymentRow
  <2> QED  BY <1>1, <2>1, <2>3, <2>4
<1>3. order' \in OrderStatus /\ history' \in OrderStatus /\ total' \in Amount
  BY InFlight DEF Capture, SetOrder, OrderStatus
<1>4. row.status # None  BY <1>2, NotNone DEF PaymentStatus
<1> HIDE DEF row
<1> QED  BY <1>2, <1>3, <1>4, PaymentWrite DEF Requested

\* The till's write.
LEMMA ProcessWriteSafe ==
    ASSUME IInv, NEW r \in Requests, NEW p \in Payments, ProcessWrite(r, p)
    PROVE  IInv' /\ BookStep
<1> DEFINE row == [status |-> "COMPLETED", amount |-> req[r].amount,
                   kind |-> req[r].kind, session |-> "none",
                   processed |-> FALSE, charges |-> 1]
           q == [NoRequest EXCEPT !.at = "completeWrite"]
<1>1. /\ row \in PaymentRow /\ row.status = "COMPLETED"
      /\ row.charges = 1 /\ ~row.processed
  <2>1. req[r].amount \in Amount /\ req[r].kind \in Kind
    BY InFlight DEF ProcessWrite, Request, Sound
  <2>2. 1 \in 0..MaxEntries  BY MaxEntriesAssumption
  <2> QED  BY <2>1, <2>2 DEF PaymentRow, PaymentStatus, Session
<1>2. row.status # None  BY <1>1, NotNone DEF PaymentStatus
<1>3. q \in Request /\ Sound(q)'
  BY MaxTotalAssumption
  DEF NoRequest, Request, Step, Amount, Sound, OnPayment, Initiating
<1>4. Requested  BY <1>3 DEF ProcessWrite, Requested, Go
<1>5. /\ payment' = [payment EXCEPT ![p] = row]
      /\ UNCHANGED <<refund, total, calls>>
      /\ order' \in OrderStatus /\ history' \in OrderStatus /\ total' \in Amount
  BY InFlight DEF ProcessWrite, orderRow
<1> HIDE DEF row, q
<1>6. row.status \notin {"PARTIALLY_REFUNDED", "REFUNDED"} /\ row.charges > 0
  BY <1>1
<1> QED  BY <1>1, <1>2, <1>4, <1>5, <1>6, PaymentWrite

\* The creation of an online payment.
LEMMA InitiateWriteSafe ==
    ASSUME IInv, NEW r \in Requests, NEW p \in Payments, InitiateWrite(r, p)
    PROVE  IInv' /\ BookStep
<1> DEFINE row == IF req[r].kind = "cod"
                  THEN [NoPayment EXCEPT !.status = "PENDING", !.amount = req[r].due,
                                         !.kind = "cod"]
                  ELSE [NoPayment EXCEPT !.status = "PROCESSING",
                                         !.amount = req[r].due - req[r].seen,
                                         !.kind = "gateway", !.session = "live"]
<1>1. req[r].due - req[r].seen \in Amount /\ req[r].due \in Amount
  BY MaxTotalAssumption, InFlight DEF InitiateWrite, Request, Sound, Initiating, Amount
<1>2. /\ row \in PaymentRow /\ row.status \in {"PENDING", "PROCESSING"}
      /\ ~row.processed
  <2>1. 0 \in 0..MaxEntries  BY MaxEntriesAssumption
  <2>2. CASE req[r].kind = "cod"
    <3>1. row = [status |-> "PENDING", amount |-> req[r].due, kind |-> "cod",
                 session |-> "none", processed |-> FALSE, charges |-> 0]
      BY <2>2 DEF NoPayment
    <3> QED  BY <1>1, <2>1, <3>1 DEF PaymentRow, PaymentStatus, Session, Kind
  <2>3. CASE req[r].kind # "cod"
    <3>1. row = [status |-> "PROCESSING", amount |-> req[r].due - req[r].seen,
                 kind |-> "gateway", session |-> "live", processed |-> FALSE,
                 charges |-> 0]
      BY <2>3 DEF NoPayment
    <3> QED  BY <1>1, <2>1, <3>1 DEF PaymentRow, PaymentStatus, Session, Kind
  <2> QED  BY <2>2, <2>3
<1>3. row.status # None  BY <1>2, NotNone DEF PaymentStatus
<1>4. payment[p].charges = 0  BY InFlight DEF InitiateWrite
<1>5. Requested  BY DEF InitiateWrite, Requested
<1>6. /\ payment' = [payment EXCEPT ![p] = row]
      /\ UNCHANGED <<refund, total, calls>>
      /\ order' \in OrderStatus /\ history' \in OrderStatus /\ total' \in Amount
  BY InFlight DEF InitiateWrite, orderRow
<1> HIDE DEF row
<1>7. /\ row.status \notin Charged
      /\ row.status \notin {"PARTIALLY_REFUNDED", "REFUNDED"}
      /\ ~(payment[p].charges > 0)
  BY <1>2, <1>4 DEF Charged
<1> QED  BY <1>2, <1>3, <1>5, <1>6, <1>7, PaymentWrite

\* A handler that only changes the status of a payment row, and perhaps marks
\* it as processed.
LEMMA StatusWriteSafe ==
    ASSUME IInv, Requested, UNCHANGED <<orderRow, refund, total, calls>>,
           NEW p \in Payments, NEW s \in {"CANCELLED", "FAILED"},
           NEW b \in BOOLEAN,
           payment' = [payment EXCEPT ![p] =
                         [payment[p] EXCEPT !.status = s, !.processed = b]]
    PROVE  IInv' /\ BookStep
<1> DEFINE row == [payment[p] EXCEPT !.status = s, !.processed = b]
<1>1. row \in PaymentRow /\ row.status = s /\ row.charges = payment[p].charges
  BY DEF IInv, TypeOK, PaymentRow, PaymentStatus
<1>2. row.status # None  BY <1>1, NotNone DEF PaymentStatus
<1>3. order' \in OrderStatus /\ history' \in OrderStatus /\ total' \in Amount
  BY DEF IInv, TypeOK, orderRow
<1> HIDE DEF row
<1> QED  BY <1>1, <1>2, <1>3, PaymentWrite DEF Charged, row

\* Staff issue a refund.
LEMMA RefundWriteSafe ==
    ASSUME IInv, NEW r \in Requests, NEW f \in Refunds, RefundWrite(r, f)
    PROVE  IInv' /\ BookStep
<1> DEFINE row == [status |-> "COMPLETED", pay |-> req[r].pay,
                   amount |-> req[r].amount, entries |-> 1]
           s == StatusAfter(req[r].pay, req[r].seen + req[r].amount)
<1>1. /\ req[r].pay \in Payments /\ req[r].amount \in Amount
      /\ payment[req[r].pay].charges > 0
  BY InFlight DEF RefundWrite, Sound, OnPayment, Request
<1>2. row \in RefundRow
  <2>1. 1 \in 0..MaxEntries  BY MaxEntriesAssumption
  <2> QED  BY <1>1, <2>1 DEF RefundRow, RefundStatus
<1>3. s \in {"REFUNDED", "PARTIALLY_REFUNDED"}  BY DEF StatusAfter
<1>4. /\ row.status = "COMPLETED" /\ row.entries > 0 /\ row.pay = req[r].pay
      /\ refund' = [refund EXCEPT ![f] = row]
      /\ payment' = [payment EXCEPT ![row.pay].status = s]
      /\ refund[f].status = None
      /\ UNCHANGED <<orderRow, total, calls>>
      /\ Requested
  BY DEF RefundWrite, Requested
<1> HIDE DEF row, s
<1> QED  BY <1>1, <1>2, <1>3, <1>4, PayOutWrite

\* Staff approve a refund request.
LEMMA ApproveWriteSafe ==
    ASSUME IInv, NEW r \in Requests, ApproveWrite(r)
    PROVE  IInv' /\ BookStep
<1> DEFINE f == req[r].ref
           row == [refund[f] EXCEPT !.status = "COMPLETED",
                                    !.entries = OneMore(refund[f].entries)]
           s == StatusAfter(refund[f].pay, req[r].seen + refund[f].amount)
<1>1. f \in Refunds /\ refund[f].status # None
  BY InFlight DEF ApproveWrite, Sound
<1>2. refund[f].pay \in Payments /\ payment[refund[f].pay].charges > 0
  BY <1>1 DEF IInv, RefundsKnown
<1>3. refund[f] \in RefundRow  BY <1>1, InFlight
<1>4. /\ OneMore(refund[f].entries) \in 0..MaxEntries
      /\ OneMore(refund[f].entries) > 0
  <2>1. refund[f].entries \in 0..MaxEntries  BY <1>3 DEF RefundRow
  <2> QED  BY <2>1, MaxEntriesAssumption DEF OneMore
<1>5. row \in RefundRow  BY <1>3, <1>4 DEF RefundRow, RefundStatus
<1>6. /\ row.status = "COMPLETED" /\ row.pay = refund[f].pay
      /\ row.entries = OneMore(refund[f].entries)
  BY <1>3 DEF RefundRow
<1>7. s \in {"REFUNDED", "PARTIALLY_REFUNDED"}  BY DEF StatusAfter
<1>8. /\ refund' = [refund EXCEPT ![f] = row]
      /\ payment' = [payment EXCEPT ![refund[f].pay].status = s]
      /\ UNCHANGED <<orderRow, total, calls>>
      /\ Requested
  BY DEF ApproveWrite, Requested
<1> HIDE DEF f, row, s
<1> QED  BY <1>1, <1>2, <1>4, <1>5, <1>6, <1>7, <1>8, PayOutWrite

\* A customer's refund request is recorded.
LEMMA RequestRefundWriteSafe ==
    ASSUME IInv, NEW r \in Requests, NEW f \in Refunds, RequestRefundWrite(r, f)
    PROVE  IInv' /\ BookStep
<1> DEFINE row == [status |-> "PENDING", pay |-> req[r].pay,
                   amount |-> req[r].amount, entries |-> 0]
<1>1. /\ req[r].pay \in Payments /\ req[r].amount \in Amount
      /\ payment[req[r].pay].charges > 0
  BY InFlight DEF RequestRefundWrite, Sound, OnPayment, Request
<1>2. row \in RefundRow
  <2>1. 0 \in 0..MaxEntries  BY MaxEntriesAssumption
  <2> QED  BY <1>1, <2>1 DEF RefundRow, RefundStatus
<1>3. /\ row.status = "PENDING" /\ row.pay = req[r].pay
      /\ refund' = [refund EXCEPT ![f] = row]
      /\ refund[f].status = None
      /\ UNCHANGED <<orderRow, payment, total, calls>>
      /\ Requested
  BY DEF RequestRefundWrite, Requested
<1>4. row.status # None /\ refund[f].status # "COMPLETED"
  BY <1>3, NoneAssumption DEF RefundStatus
<1> HIDE DEF row
<1>5. /\ refund' \in [Refunds -> RefundRow]
      /\ RefundsGrow
      /\ \A x \in Refunds : refund'[x].status # None =>
            refund'[x].pay \in Payments /\ payment[refund'[x].pay].charges > 0
      /\ \A x \in Refunds : refund'[x].status = "COMPLETED" => refund'[x].entries > 0
  BY <1>1, <1>2, <1>3, <1>4, RefundStep
<1>6. ChargesGrow  BY <1>3 DEF ChargesGrow
<1>7. req' \in [Requests -> Request] /\ InFlightSound'
  BY <1>3, <1>5, <1>6, RequestedSound
<1>8. TypeOK'  BY <1>3, <1>5, <1>7 DEF IInv, TypeOK, orderRow
<1>9. RefundsKnown' /\ FreshUncharged' /\ ProcessedIsSettled'
  BY <1>3, <1>5 DEF IInv, RefundsKnown, FreshUncharged, ProcessedIsSettled
<1>10. LedgerExplainsStatus'
  <2>1. ASSUME NEW x \in Payments,
               payment[x].status \in {"PARTIALLY_REFUNDED", "REFUNDED"}
        PROVE  \E g \in Refunds : refund'[g].pay = x /\ refund'[g].status = "COMPLETED"
    <3>1. PICK g \in Refunds : refund[g].pay = x /\ refund[g].status = "COMPLETED"
      BY <2>1 DEF IInv, LedgerExplainsStatus, RefundsOf
    <3>2. refund[g].status # None  BY <3>1, NotNone DEF RefundStatus
    <3> QED  BY <1>5, <3>1, <3>2 DEF RefundsGrow
  <2>2. ASSUME NEW x \in Refunds, refund'[x].status = "COMPLETED"
        PROVE  refund'[x].entries > 0 /\ payment[refund'[x].pay].charges > 0
    <3>1. refund'[x].status # None  BY <2>2, NotNone DEF RefundStatus
    <3> QED  BY <1>5, <2>2, <3>1
  <2>3. payment' = payment  BY <1>3
  <2> QED  BY <2>1, <2>2, <2>3 DEF IInv, LedgerExplainsStatus, RefundsOf
<1>11. BookStep
  <2>1. \A x \in Refunds : refund'[x] = IF x = f THEN row ELSE refund[x]
    BY <1>3 DEF IInv, TypeOK
  <2>2. row.status # "COMPLETED"  BY <1>3
  <2> QED  BY <1>3, <1>4, <2>1, <2>2, BookStutters
<1> QED  BY <1>7, <1>8, <1>9, <1>10, <1>11 DEF IInv

\* A handler in flight takes its next step.
LEMMA ProceedSafe ==
    ASSUME IInv, NEW r \in Requests, Proceed(r)
    PROVE  IInv' /\ BookStep
<1> USE DEF rows, orderRow
<1>1. CASE \E p \in Payments : ProcessWrite(r, p)  BY <1>1, ProcessWriteSafe
<1>2. CASE CompleteWrite(r)
  <2>1. /\ [req[r] EXCEPT !.at = "historyWrite"] \in Request
        /\ Sound([req[r] EXCEPT !.at = "historyWrite"])
    BY InFlight DEF Request, Step, Sound, OnPayment, Initiating
  <2>2. "COMPLETED" \in OrderStatus  BY DEF OrderStatus
  <2> QED  BY <1>2, <2>1, <2>2, InFlight, ReadStep DEF CompleteWrite, Continue
<1>3. CASE CompleteHistory(r)
  <2>1. "COMPLETED" \in OrderStatus  BY DEF OrderStatus
  <2> QED  BY <1>3, <2>1, InFlight, ReadStep DEF CompleteHistory
<1>4. CASE \E f \in Refunds : RefundWrite(r, f)  BY <1>4, RefundWriteSafe
<1>5. CASE CancelPaymentWrite(r)
  <2>1. req[r].pay \in Payments
    BY <1>5, InFlight DEF CancelPaymentWrite, Sound, OnPayment
  <2>2. /\ payment[req[r].pay].processed \in BOOLEAN
        /\ payment' = [payment EXCEPT ![req[r].pay] =
                         [payment[req[r].pay] EXCEPT !.status = "CANCELLED",
                            !.processed = payment[req[r].pay].processed]]
    BY <1>5, <2>1, InFlight DEF CancelPaymentWrite, PaymentRow
  <2> QED  BY <1>5, <2>1, <2>2, StatusWriteSafe DEF CancelPaymentWrite, Requested
<1>6. CASE ConfirmCodWrite(r)
  <2>1. "COMPLETED" \in OrderStatus  BY DEF OrderStatus
  <2> QED  BY <1>6, <2>1, InFlight, ReadStep DEF ConfirmCodWrite, SetOrder
<1>7. CASE ApproveWrite(r)  BY <1>7, ApproveWriteSafe
<1>8. CASE SessionRead(r)
  <2>1. \/ Finish(r)
        \/ \E q \in Request : Sound(q) /\ req' = [req EXCEPT ![r] = q]
    <3>1. /\ [req[r] EXCEPT !.at = "staleWrite"] \in Request
          /\ Sound([req[r] EXCEPT !.at = "staleWrite"])
      BY <1>8, InFlight DEF SessionRead, Request, Step, Sound, OnPayment, Initiating
    <3> QED  BY <1>8, <3>1 DEF SessionRead, Continue
  <2> QED  BY <1>8, <2>1, InFlight, ReadStep DEF SessionRead
<1>9. CASE StaleWrite(r)
  <2>1. req[r].pay \in Payments  BY <1>9, InFlight DEF StaleWrite, Sound, OnPayment
  <2>2. /\ payment[req[r].pay].processed \in BOOLEAN
        /\ payment' = [payment EXCEPT ![req[r].pay] =
                         [payment[req[r].pay] EXCEPT !.status = "CANCELLED",
                            !.processed = payment[req[r].pay].processed]]
    BY <1>9, <2>1, InFlight DEF StaleWrite, PaymentRow
  <2>3. Requested
    <3>1. CASE req[r].seen < req[r].due
      <4>0. [req[r] EXCEPT !.at = "initiateWrite"] \in Request
        BY InFlight DEF Request, Step
      <4>1. PICK q \in Request :
               /\ q = [req[r] EXCEPT !.at = "initiateWrite"]
               /\ q.at = "initiateWrite"
               /\ q.seen = req[r].seen /\ q.due = req[r].due /\ q.kind = req[r].kind
        BY <4>0, InFlight DEF Request
      <4>2. req[r].kind \in {"cod", "gateway"}
        BY <1>9, InFlight DEF StaleWrite, Sound, Initiating
      <4>3. req' = [req EXCEPT ![r] = q]
        BY <1>9, <3>1, <4>1 DEF StaleWrite, Continue
      <4>4. Sound(q)'  BY <3>1, <4>1, <4>2 DEF Sound, OnPayment
      <4> QED  BY <4>1, <4>3, <4>4 DEF Requested
    <3>2. CASE ~(req[r].seen < req[r].due)  BY <1>9, <3>2 DEF StaleWrite, Requested
    <3> QED  BY <3>1, <3>2
  <2> QED  BY <1>9, <2>1, <2>2, <2>3, StatusWriteSafe DEF StaleWrite
<1>10. CASE \E p \in Payments : InitiateWrite(r, p)  BY <1>10, InitiateWriteSafe
<1>11. CASE WebhookWrite(r)
  <2>1. req[r].pay \in Payments /\ req[r].to \in Outcomes
    BY <1>11, InFlight DEF WebhookWrite, Sound, OnPayment
  <2>2. CASE req[r].to = "COMPLETED"
    BY <1>11, <2>1, <2>2, CaptureSafe DEF WebhookWrite
  <2>3. CASE req[r].to # "COMPLETED"
    <3>1. req[r].to \in {"CANCELLED", "FAILED"}  BY <2>1, <2>3 DEF Outcomes
    <3>2. Processed(req[r].pay) \in BOOLEAN  BY DEF Processed
    <3> QED  BY <1>11, <2>1, <2>3, <3>1, <3>2, StatusWriteSafe DEF WebhookWrite, Requested
  <2> QED  BY <2>2, <2>3
<1>12. CASE StripeVerify(r)
  <2>1. /\ [req[r] EXCEPT !.at = "stripeWrite"] \in Request
        /\ Sound([req[r] EXCEPT !.at = "stripeWrite"])
    BY <1>12, InFlight DEF StripeVerify, Request, Step, Sound, OnPayment, Initiating
  <2> QED  BY <1>12, <2>1, InFlight, ReadStep DEF StripeVerify, Continue
<1>13. CASE StripeWrite(r)
  <2>1. req[r].pay \in Payments  BY <1>13, InFlight DEF StripeWrite, Sound, OnPayment
  <2> QED  BY <1>13, <2>1, CaptureSafe DEF StripeWrite
<1>14. CASE RequestRefundRead(r)
  <2>1. \/ Finish(r)
        \/ \E q \in Request : Sound(q) /\ req' = [req EXCEPT ![r] = q]
    <3>1. ASSUME NEW p \in Payments, NEW back \in Nat,
                 payment[p].status = "COMPLETED", payment[p].amount > back,
                 Go(r, [NoRequest EXCEPT !.at = "requestWrite", !.pay = p,
                                         !.amount = payment[p].amount - back])
          PROVE  \E q \in Request : Sound(q) /\ req' = [req EXCEPT ![r] = q]
      <4> DEFINE q == [NoRequest EXCEPT !.at = "requestWrite", !.pay = p,
                                        !.amount = payment[p].amount - back]
      <4>1. payment[p].amount - back \in Amount
        <5>1. payment[p].amount \in 0..MaxTotal  BY InFlight DEF PaymentRow, Amount
        <5> QED  BY <3>1, <5>1, MaxTotalAssumption DEF Amount
      <4>2. payment[p].charges > 0  BY <3>1, InFlight DEF Charged
      <4>3. q \in Request /\ Sound(q)
        <5>1. 0 \in Amount  BY MaxTotalAssumption DEF Amount
        <5> QED  BY <4>1, <4>2, <5>1
                 DEF NoRequest, Request, Step, Sound, OnPayment, Initiating
      <4> QED  BY <3>1, <4>3 DEF Go
    <3>2. \A p \in Payments : Refunded(RefundsOf(p)) \in Nat
      BY RefundedTyped DEF RefundsOf, IInv
    <3> QED  BY <1>14, <3>1, <3>2 DEF RequestRefundRead
  <2> QED  BY <1>14, <2>1, InFlight, ReadStep DEF RequestRefundRead
<1>15. CASE \E f \in Refunds : RequestRefundWrite(r, f)
  BY <1>15, RequestRefundWriteSafe
<1>16. CASE \E t \in Amount : RebillWrite(r, t)
  BY <1>16, InFlight, ReadStep DEF RebillWrite
<1> QED  BY <1>1, <1>2, <1>3, <1>4, <1>5, <1>6, <1>7, <1>8, <1>9, <1>10, <1>11,
            <1>12, <1>13, <1>14, <1>15, <1>16 DEF Proceed

-----------------------------------------------------------------------------
LEMMA InitIInv == Init => IInv
<1> SUFFICES ASSUME Init PROVE IInv  OBVIOUS
<1>1. 0 \in Amount /\ 0 \in 0..MaxEntries
  BY MaxTotalAssumption, MaxEntriesAssumption DEF Amount
<1>2. NoPayment \in PaymentRow /\ NoPayment.status = None
  BY <1>1 DEF NoPayment, PaymentRow, Kind, Session
<1>3. ~NoPayment.processed /\ NoPayment.charges = 0
  BY DEF NoPayment
<1>4. NoRefund \in RefundRow /\ NoRefund.status = None  BY <1>1 DEF NoRefund, RefundRow
<1>5. NoRequest \in Request /\ Sound(NoRequest)
  BY <1>1 DEF NoRequest, Request, Step, Sound, OnPayment, Initiating
<1>6. /\ \A p \in Payments : payment[p] = NoPayment
      /\ \A f \in Refunds : refund[f] = NoRefund
      /\ \A r \in Requests : req[r] = NoRequest
  BY DEF Init
<1>7. TypeOK  BY <1>2, <1>4, <1>5 DEF Init, TypeOK, OrderStatus
<1>8. InFlightSound  BY <1>5, <1>6 DEF InFlightSound
<1>9. RefundsKnown /\ FreshUncharged
  BY <1>3, <1>4, <1>6 DEF RefundsKnown, FreshUncharged
<1>10. LedgerExplainsStatus
  <2>1. None \notin Charged /\ None # "COMPLETED"
        /\ None \notin {"PARTIALLY_REFUNDED", "REFUNDED"}
    BY NotNone DEF Charged, PaymentStatus
  <2> QED  BY <1>2, <1>4, <1>6, <2>1 DEF LedgerExplainsStatus
<1>11. ProcessedIsSettled  BY <1>3, <1>6 DEF ProcessedIsSettled
<1> QED  BY <1>7, <1>8, <1>9, <1>10, <1>11 DEF IInv

LEMMA NextSafe == IInv /\ [Next]_vars => IInv' /\ BookStep
<1> SUFFICES ASSUME IInv, [Next]_vars PROVE IInv' /\ BookStep  OBVIOUS
<1> USE DEF rows, orderRow
<1>1. ASSUME NEW r \in Requests, Arrive(r) PROVE IInv' /\ BookStep
  BY <1>1, ArriveSafe
<1>2. ASSUME NEW r \in Requests, Proceed(r) PROVE IInv' /\ BookStep
  BY <1>2, ProceedSafe
<1>3. ASSUME NEW r \in Requests, Fail(r) PROVE IInv' /\ BookStep
  BY <1>3, InFlight, ReadStep DEF Fail
<1>4. ASSUME NEW p \in Payments, SessionExpires(p) PROVE IInv' /\ BookStep
  <2> DEFINE row == [payment[p] EXCEPT !.session = "expired"]
  <2>1. payment[p] \in PaymentRow  BY DEF IInv, TypeOK
  <2>2. /\ row \in PaymentRow /\ row.status = payment[p].status
        /\ row.charges = payment[p].charges
    BY <2>1 DEF PaymentRow, Session
  <2>3. payment' = [payment EXCEPT ![p] = row]  BY <1>4 DEF SessionExpires
  <2>4. payment[p].status \in Charged => payment[p].charges > 0
    BY DEF IInv, LedgerExplainsStatus
  <2>5. /\ row.status = None => row.charges = 0
        /\ row.processed => row.status \notin {None, "PENDING", "PROCESSING"}
    BY <2>1, <2>2 DEF IInv, FreshUncharged, ProcessedIsSettled, PaymentRow
  <2>6. /\ Requested /\ UNCHANGED <<refund, total, calls>>
        /\ order' \in OrderStatus /\ history' \in OrderStatus /\ total' \in Amount
    BY <1>4 DEF SessionExpires, Requested, IInv, TypeOK
  <2> HIDE DEF row
  <2> QED  BY <2>2, <2>3, <2>4, <2>5, <2>6, PaymentWrite
<1>5. ASSUME NEW s \in OrderStatus, OrderMoves(s) PROVE IInv' /\ BookStep
  <2>1. /\ UNCHANGED <<payment, refund, total, calls, req>>
        /\ order' \in OrderStatus /\ history' \in OrderStatus /\ total' \in Amount
    BY <1>5 DEF OrderMoves, SetOrder, IInv, TypeOK
  <2>2. req' \in [Requests -> Request] /\ InFlightSound'
    BY <2>1, NothingWritten, RequestedSound DEF Requested
  <2> QED  BY <2>1, <2>2, KeepsRows
<1>6. CASE UNCHANGED vars
  <2>1. /\ UNCHANGED <<payment, refund, total, calls, req>>
        /\ order' \in OrderStatus /\ history' \in OrderStatus /\ total' \in Amount
    BY <1>6 DEF vars, IInv, TypeOK
  <2>2. req' \in [Requests -> Request] /\ InFlightSound'
    BY <2>1, NothingWritten, RequestedSound DEF Requested
  <2> QED  BY <2>1, <2>2, KeepsRows
<1> QED  BY <1>1, <1>2, <1>3, <1>4, <1>5, <1>6 DEF Next

\* The strengthened invariant holds in every state.
THEOREM Invariance == Spec => []IInv
<1>1. Init => IInv  BY InitIInv
<1>2. IInv /\ [Next]_vars => IInv'  BY NextSafe
<1> QED  BY <1>1, <1>2, PTL DEF Spec

\* Every row and every request keeps its type.
THEOREM TypeCorrect == Spec => []TypeOK
<1>1. IInv => TypeOK  BY DEF IInv
<1> QED  BY <1>1, Invariance, PTL

\* The transactions table explains the status of every payment and refund,
\* with any number of handlers in flight.
THEOREM LedgerIsComplete == Spec => []LedgerExplainsStatus
<1>1. IInv => LedgerExplainsStatus  BY DEF IInv
<1> QED  BY <1>1, Invariance, PTL

\* A payment whose callback was processed never waits for the gateway again.
THEOREM CallbacksAreFinal == Spec => []ProcessedIsSettled
<1>1. IInv => ProcessedIsSettled  BY DEF IInv
<1> QED  BY <1>1, Invariance, PTL

\* The handlers implement the payment book: charges stay, and a refund is paid
\* out once, from a payment charged before.
THEOREM KeepsTheBook == Spec => ImplementsBook
<1>1. Init => Book!Init
  <2> SUFFICES ASSUME Init PROVE Book!Init  OBVIOUS
  <2>1. ~(NoPayment.charges > 0) /\ NoRefund.status # "COMPLETED"
    BY NotNone DEF NoPayment, NoRefund, RefundStatus
  <2>2. {p \in Payments : payment[p].charges > 0} = {}  BY <2>1 DEF Init
  <2>3. [f \in Refunds |-> IF refund[f].status = "COMPLETED" THEN refund[f].pay ELSE None]
        = [f \in Refunds |-> None]
    BY <2>1 DEF Init
  <2> QED  BY <2>2, <2>3 DEF Book!Init
<1>2. IInv /\ [Next]_vars => [Book!Next]_(Book!book)  BY NextSafe DEF BookStep
<1> QED  BY <1>1, <1>2, Invariance, PTL DEF Spec, ImplementsBook, Book!Spec

-----------------------------------------------------------------------------
(* The sums, one handler at a time: what a handler read of the money is    *)
(* still so when it writes                                                 *)

OneHandler == \A r, s \in Requests : r = s

\* Customers pay online, while staff take and void no payments and leave the bill
\* alone, no session expires, and nobody returns from Stripe Checkout.
OnlineAlone(by) ==
    /\ "initiate" \in by
    /\ by \cap {"process", "cancelPayment", "rebill", "expire", "stripeReturn"} = {}

OnlineApart == OnlineAlone(calls)

\* Staff alone take payments.
StaffAlone(by) == by \cap OnlineHandlers = {}

\* Nothing captures a payment that was charged before.
CapturesOnce(by) == "stripeReturn" \notin by /\ ~({"process", "webhook"} \subseteq by)

\* What is collected and what a gateway may still collect.
Claimed == PaymentsSum({"COMPLETED", "PROCESSING"})

Back(p) == Refunded(RefundsOf(p))

\* What handler q read is still so.
Reads(q) ==
    /\ q.at = "payWrite" =>
          "process" \in calls /\ q.seen = Collected /\ q.due = total
          /\ q.seen + q.amount <= q.due
    /\ q.at = "refundWrite" =>
          /\ q.seen = Back(q.pay) /\ q.amount > 0
          /\ q.seen + q.amount <= payment[q.pay].amount
    /\ q.at = "cancelWrite" =>
          /\ "cancelPayment" \in calls
          /\ payment[q.pay].status \in {"PENDING", "PROCESSING"}
    /\ q.at = "approveWrite" =>
          /\ "approve" \in calls
          /\ refund[q.ref].status = "PENDING"
          /\ q.seen = Back(refund[q.ref].pay)
    /\ q.at \in Initiating => "initiate" \in calls
    /\ q.at \in {"sessionRead", "staleWrite"} => payment[q.pay].status = "PROCESSING"
    /\ q.at = "staleWrite" => payment[q.pay].session # "live"
    /\ q.at = "initiateWrite" /\ OnlineApart => q.seen = Claimed /\ q.due = total
    /\ q.at = "webhookWrite" =>
          /\ "webhook" \in calls
          /\ payment[q.pay].kind = "gateway" /\ ~payment[q.pay].processed
    /\ q.at \in {"stripeVerify", "stripeWrite"} =>
          "stripeReturn" \in calls /\ payment[q.pay].kind = "gateway"
    /\ q.at = "rebillWrite" => "rebill" \in calls
    /\ q.at = "requestWrite" => q.amount > 0

KnowsMoney == \A r \in Requests : Reads(req[r])

\* A session is opened by initiatePayment and processed when its payment is
\* charged, a gateway payment without one was entered by staff; a payment that
\* was charged counts as charged.
RowSound(row) ==
    /\ row.status = "PROCESSING" => row.session # "none"
    /\ row.session # "none" => "initiate" \in calls
    /\ row.kind = "gateway" /\ row.session = "none" => "process" \in calls
    /\ row.charges > 0 /\ row.session # "none" => row.processed
    /\ CapturesOnce(calls) /\ row.charges > 0 => row.status \in Charged
    /\ OnlineApart /\ row.session # "none" =>
          row.session = "live" /\ (~row.processed => row.status = "PROCESSING")

RowsSound == \A p \in Payments : RowSound(payment[p])

RefundsCount == \A f \in Refunds : refund[f].status # None => refund[f].amount > 0

\* The status of payment p tells what went back of it.
Tells(p) ==
    payment[p].status \in Charged =>
        payment[p].status = IF Back(p) = 0 THEN "COMPLETED"
                            ELSE IF Back(p) < payment[p].amount THEN "PARTIALLY_REFUNDED"
                            ELSE "REFUNDED"

StatusesTell == CapturesOnce(calls) => \A p \in Payments : Tells(p)

RefundsFit == "approve" \notin calls => \A p \in Payments : Back(p) <= payment[p].amount

ClaimsFit == OnlineApart => Claimed <= total

\* Where no handler fails, a difference between the order and its history is
\* about to be put right.
Audited ==
    /\ \A r \in Requests : req[r].at = "historyWrite" => order = "COMPLETED"
    /\ ~MayFail /\ history # order => \E r \in Requests : req[r].at = "historyWrite"

MInv == /\ KnowsMoney /\ RowsSound /\ RefundsCount /\ StatusesTell /\ RefundsFit
        /\ ClaimsFit /\ Audited

\* What a step does where staff alone take payments: it collects no more than the
\* bill asks for, and unless it may fail it leaves an order paid and open only by
\* lowering its bill.
TillStep ==
    StaffAlone(calls) =>
        /\ Collected' > Collected => Collected' <= total'
        /\ ~MayFail /\ Unsettled' /\ ~Unsettled => total' < total

-----------------------------------------------------------------------------
\* What a change of one payment row does to the sum over the statuses in S.
LEMMA PaymentChange ==
    ASSUME IInv, NEW p \in Payments, NEW row \in PaymentRow, NEW S,
           payment' = [payment EXCEPT ![p] = row]
    PROVE  /\ PaymentsSum(S) \in Nat /\ PaymentsSum(S)' \in Nat
           /\ PaymentsSum(S)' + (IF payment[p].status \in S THEN payment[p].amount ELSE 0)
                = PaymentsSum(S) + (IF row.status \in S THEN row.amount ELSE 0)
<1> DEFINE A == {x \in Payments : payment[x].status \in S}
           B == {x \in Payments : payment'[x].status \in S}
           f == [x \in Payments |-> payment[x].amount]
           g == [x \in Payments |-> payment'[x].amount]
<1>1. /\ payment \in [Payments -> PaymentRow]
      /\ \A x \in Payments : payment'[x] = IF x = p THEN row ELSE payment[x]
      /\ payment' \in [Payments -> PaymentRow]
  BY DEF IInv, TypeOK
<1>2. IsFiniteSet(A) /\ IsFiniteSet(B)  BY SlotsAssumption, FS_Subset
<1>3. A \ {p} = B \ {p}  BY <1>1
<1>4. /\ \A x \in Payments : f[x] \in Nat /\ g[x] \in Nat
      /\ \A x \in Payments : x # p => g[x] = f[x]
  BY <1>1, MaxTotalAssumption DEF PaymentRow, Amount
<1>5. /\ (p \in A <=> payment[p].status \in S) /\ (p \in B <=> row.status \in S)
      /\ f[p] = payment[p].amount /\ g[p] = row.amount
  BY <1>1
<1>6. A \subseteq Payments /\ B \subseteq Payments  OBVIOUS
<1>7. PaymentsSum(S) = SumFunctionOnSet(f, A) /\ PaymentsSum(S)' = SumFunctionOnSet(g, B)
  BY DEF PaymentsSum
<1> HIDE DEF A, B, f, g
<1>8. /\ \A x \in A : f[x] \in Int
      /\ \A x \in B : g[x] \in Int
      /\ \A x \in A : x # p => g[x] = f[x]
  BY <1>4, <1>6
<1>9. SumFunctionOnSet(g, B) + (IF p \in A THEN f[p] ELSE 0)
      = SumFunctionOnSet(f, A) + (IF p \in B THEN g[p] ELSE 0)
  BY <1>2, <1>3, <1>8, SumPoint
<1>10. SumFunctionOnSet(f, A) \in Nat /\ SumFunctionOnSet(g, B) \in Nat
  <2>1. Nat \in {Nat, Int} /\ (\A x \in A : f[x] \in Nat) /\ (\A x \in B : g[x] \in Nat)
    BY <1>4, <1>6
  <2> QED  BY <1>2, <2>1, SumType
<1> QED  BY <1>5, <1>7, <1>9, <1>10

\* What a change of one refund row does to what went back of each payment.
LEMMA RefundChange ==
    ASSUME IInv, NEW f \in Refunds, NEW row \in RefundRow, NEW p \in Payments,
           refund' = [refund EXCEPT ![f] = row]
    PROVE  /\ Back(p) \in Nat /\ Back(p)' \in Nat
           /\ Back(p)' + (IF refund[f].pay = p /\ refund[f].status = "COMPLETED"
                          THEN refund[f].amount ELSE 0)
                = Back(p) + (IF row.pay = p /\ row.status = "COMPLETED"
                             THEN row.amount ELSE 0)
<1> DEFINE A == {x \in RefundsOf(p) : refund[x].status = "COMPLETED"}
           B == {x \in Refunds : refund'[x].pay = p /\ refund'[x].status = "COMPLETED"}
           a == [x \in Refunds |-> refund[x].amount]
           b == [x \in Refunds |-> refund'[x].amount]
<1>1. /\ refund \in [Refunds -> RefundRow]
      /\ \A x \in Refunds : refund'[x] = IF x = f THEN row ELSE refund[x]
      /\ refund' \in [Refunds -> RefundRow]
  BY DEF IInv, TypeOK
<1>2. A \subseteq Refunds /\ B \subseteq Refunds  BY DEF RefundsOf
<1>3. IsFiniteSet(A) /\ IsFiniteSet(B)  BY <1>2, SlotsAssumption, FS_Subset
<1>4. A \ {f} = B \ {f}  BY <1>1 DEF RefundsOf
<1>5. /\ \A x \in Refunds : a[x] \in Nat /\ b[x] \in Nat
      /\ \A x \in Refunds : x # f => b[x] = a[x]
  BY <1>1, MaxTotalAssumption DEF RefundRow, Amount
<1>6. /\ (f \in A <=> refund[f].pay = p /\ refund[f].status = "COMPLETED")
      /\ (f \in B <=> row.pay = p /\ row.status = "COMPLETED")
      /\ a[f] = refund[f].amount /\ b[f] = row.amount
  BY <1>1 DEF RefundsOf
<1>7. B = {x \in RefundsOf(p)' : refund'[x].status = "COMPLETED"}
  BY DEF RefundsOf
<1>8. Back(p) = SumFunctionOnSet(a, A) /\ Back(p)' = SumFunctionOnSet(b, B)
  BY <1>7 DEF Back, Refunded
<1> HIDE DEF A, B, a, b
<1>9. /\ \A x \in A : a[x] \in Int
      /\ \A x \in B : b[x] \in Int
      /\ \A x \in A : x # f => b[x] = a[x]
  BY <1>2, <1>5
<1>10. SumFunctionOnSet(b, B) + (IF f \in A THEN a[f] ELSE 0)
       = SumFunctionOnSet(a, A) + (IF f \in B THEN b[f] ELSE 0)
  BY <1>3, <1>4, <1>9, SumPoint
<1>11. SumFunctionOnSet(a, A) \in Nat /\ SumFunctionOnSet(b, B) \in Nat
  <2>1. Nat \in {Nat, Int} /\ (\A x \in A : a[x] \in Nat) /\ (\A x \in B : b[x] \in Nat)
    BY <1>2, <1>5
  <2> QED  BY <1>3, <2>1, SumType
<1> QED  BY <1>6, <1>8, <1>10, <1>11

\* Nothing went back of a payment that was not charged.
LEMMA NothingBack ==
    ASSUME IInv, NEW p \in Payments, ~(payment[p].charges > 0)
    PROVE  Back(p) = 0
<1>1. {x \in RefundsOf(p) : refund[x].status = "COMPLETED"} = {}
  <2> SUFFICES ASSUME NEW x \in Refunds, refund[x].pay = p, refund[x].status = "COMPLETED"
               PROVE  FALSE
    BY DEF RefundsOf
  <2>1. refund[x].status # None  BY NotNone DEF RefundStatus
  <2> QED  BY <2>1 DEF IInv, RefundsKnown
<1>2. Back(p) = SumFunctionOnSet([x \in Refunds |-> refund[x].amount], {})
  BY <1>1 DEF Back, Refunded
<1> QED  BY <1>2, SumEmpty

LEMMA BackTyped == IInv => \A p \in Payments : Back(p) \in Nat
BY RefundedTyped DEF IInv, Back, RefundsOf

LEMMA SumsTyped == IInv => Collected \in Nat /\ Claimed \in Nat
BY PaymentsSumTyped DEF IInv, Collected, Claimed
-----------------------------------------------------------------------------
\* The handler in flight is the only one.
LEMMA OneKnows ==
    ASSUME OneHandler, IInv, NEW r \in Requests, NEW q \in Request,
           req' = [req EXCEPT ![r] = q], Reads(q)'
    PROVE  KnowsMoney'
<1> SUFFICES ASSUME NEW s \in Requests PROVE Reads(req[s])'
  BY DEF KnowsMoney
<1>1. s = r  BY DEF OneHandler
<1>2. req'[s] = q  BY <1>1 DEF IInv, TypeOK
<1> QED  BY <1>2 DEF Reads

\* A handler that has ended knows nothing.
LEMMA EndKnows ==
    ASSUME OneHandler, IInv, NEW r \in Requests, Finish(r)
    PROVE  KnowsMoney'
<1>1. NoRequest \in Request  BY MaxTotalAssumption DEF NoRequest, Request, Step, Amount
<1>2. Reads(NoRequest)'  BY DEF NoRequest, Reads, Initiating
<1> QED  BY <1>1, <1>2, OneKnows DEF Finish

LEMMA ReadsStay ==
    ASSUME UNCHANGED <<payment, refund, total, calls>>, NEW q, Reads(q)
    PROVE  Reads(q)'
BY DEF Reads, Collected, Claimed, Back, PaymentsSum, Refunded, RefundsOf, OnlineApart, OnlineAlone

LEMMA KnowsStay ==
    ASSUME IInv, MInv, UNCHANGED <<payment, refund, total, calls, req>>
    PROVE  KnowsMoney'
<1> SUFFICES ASSUME NEW r \in Requests PROVE Reads(req[r])'
  BY DEF KnowsMoney
<1>1. PICK q \in Request : q = req[r]  BY DEF IInv, TypeOK
<1>2. Reads(q)  BY <1>1 DEF MInv, KnowsMoney
<1>3. Reads(q)'  BY <1>2, ReadsStay
<1>4. req'[r] = q  BY <1>1
<1> QED  BY <1>3, <1>4 DEF Reads

LEMMA RowsStay ==
    ASSUME MInv, UNCHANGED <<payment, refund, total, calls>>
    PROVE  RowsSound' /\ RefundsCount' /\ StatusesTell' /\ RefundsFit' /\ ClaimsFit'
<1>1. RowsSound' /\ RefundsCount'
  BY DEF MInv, RowsSound, RowSound, RefundsCount, OnlineApart, OnlineAlone
<1>2. StatusesTell' /\ RefundsFit'
  BY DEF MInv, StatusesTell, RefundsFit, Tells, Back, Refunded, RefundsOf
<1>3. ClaimsFit'  BY DEF MInv, ClaimsFit, Claimed, PaymentsSum, OnlineApart, OnlineAlone
<1> QED  BY <1>1, <1>2, <1>3

\* The order stays, and so do the handlers about to complete it.
LEMMA CompletionStays ==
    ASSUME MInv, IInv, UNCHANGED <<orderRow, total, calls>>,
           NEW r \in Requests, \A s \in Requests : s # r => req'[s] = req[s],
           MayFail \/ req[r].at \notin {"completeWrite", "historyWrite"},
           req'[r].at # "historyWrite",
           StaffAlone(calls) => Collected' <= Collected,
           Collected' \in Nat
    PROVE  Audited' /\ TillStep
<1>1. \A s \in Requests : req[s].at \in {"completeWrite", "historyWrite"} /\ ~MayFail
                          => req'[s] = req[s]
  OBVIOUS
<1>2. Audited'  BY <1>1 DEF MInv, Audited, orderRow
<1>3. TillStep
  <2> SUFFICES ASSUME StaffAlone(calls)
               PROVE  /\ ~(Collected' > Collected)
                      /\ ~MayFail /\ Unsettled' => Unsettled
    BY DEF TillStep
  <2>1. Collected' <= Collected /\ Collected \in Nat /\ total \in Nat
    BY SumsTyped, MaxTotalAssumption DEF IInv, TypeOK, Amount
  <2>2. ASSUME ~MayFail, Unsettled' PROVE Unsettled
    <3>1. Collected >= total  BY <2>1, <2>2 DEF Unsettled
    <3>2. order \notin Closed  BY <2>2 DEF Unsettled, orderRow
    <3>3. \A s \in Requests : req[s].at # "completeWrite"
      BY <1>1, <2>2 DEF Unsettled
    <3> QED  BY <3>1, <3>2, <3>3 DEF Unsettled
  <2> QED  BY <2>1, <2>2
<1> QED  BY <1>2, <1>3

\* Gateways and their customers are not staff.
LEMMA NotAtTheTill ==
    ASSUME calls \cap OnlineHandlers # {}
    PROVE  TillStep
BY DEF TillStep, StaffAlone

\* A handler that has only read goes on, or ends.
LEMMA MoneyRead ==
    ASSUME OneHandler, IInv, MInv, UNCHANGED rows, NEW r \in Requests,
           MayFail \/ req[r].at \notin {"completeWrite", "historyWrite"},
           \/ Finish(r)
           \/ \E q \in Request : /\ Reads(q) /\ q.at # "historyWrite"
                                /\ req' = [req EXCEPT ![r] = q]
    PROVE  MInv' /\ TillStep
<1>1. UNCHANGED <<payment, refund, total, calls, orderRow>>  BY DEF rows, orderRow
<1>2. KnowsMoney'
  <2>1. CASE Finish(r)  BY <2>1, EndKnows
  <2>2. CASE \E q \in Request : /\ Reads(q) /\ q.at # "historyWrite"
                               /\ req' = [req EXCEPT ![r] = q]
    <3>1. PICK q \in Request : Reads(q) /\ req' = [req EXCEPT ![r] = q]  BY <2>2
    <3>2. Reads(q)'  BY <1>1, <3>1, ReadsStay
    <3> QED  BY <3>1, <3>2, OneKnows
  <2> QED  BY <2>1, <2>2
<1>3. RowsSound' /\ RefundsCount' /\ StatusesTell' /\ RefundsFit' /\ ClaimsFit'
  BY <1>1, RowsStay
<1>4. Collected' = Collected /\ Collected \in Nat
  BY <1>1, SumsTyped DEF Collected, PaymentsSum
<1>5. \A s \in Requests : s # r => req'[s] = req[s]  BY DEF Finish, IInv, TypeOK
<1>6. req'[r].at # "historyWrite"  BY DEF Finish, NoRequest, IInv, TypeOK
<1>7. Audited' /\ TillStep  BY <1>1, <1>4, <1>5, <1>6, CompletionStays
<1> QED  BY <1>2, <1>3, <1>7 DEF MInv

\* Handlers that arrive know what they have just read.
LEMMA ArriveMoney ==
    ASSUME OneHandler, IInv, MInv, NEW r \in Requests, Arrive(r)
    PROVE  MInv' /\ TillStep
<1>0. UNCHANGED rows /\ req[r].at = "idle"
  BY DEF rows, Idle, Arrive, ProcessPaid, ProcessRead, RefundRead,
         CancelPaymentRead, ConfirmCodRead, ApproveRead, InitiateRead,
         WebhookRead, StripeRead, RequestRefundEnter, RebillRead
<1> SUFFICES \E q \in Request : /\ Reads(q) /\ q.at # "historyWrite"
                                 /\ req' = [req EXCEPT ![r] = q]
  BY <1>0, MoneyRead
<1> USE DEF NoRequest, Request, Step, Reads, Initiating, Go
<1>1. 0 \in Amount /\ total \in Amount
  BY MaxTotalAssumption DEF Amount, IInv, TypeOK
<1>2. CASE ProcessPaid(r)  BY <1>1, <1>2 DEF ProcessPaid
<1>3. CASE \E amount \in Amount, kind \in Kind : ProcessRead(r, amount, kind)
  BY <1>1, <1>3, SumsTyped DEF ProcessRead, Fits, Collected
<1>4. CASE \E p \in Payments, amount \in Amount : RefundRead(r, p, amount)
  BY <1>1, <1>4, BackTyped DEF RefundRead, Covers, Back
<1>5. CASE \E p \in Payments : CancelPaymentRead(r, p)
  BY <1>1, <1>5 DEF CancelPaymentRead
<1>6. CASE ConfirmCodRead(r)  BY <1>1, <1>6 DEF ConfirmCodRead
<1>7. CASE \E f \in Refunds : ApproveRead(r, f)
  <2>1. PICK f \in Refunds : ApproveRead(r, f)  BY <1>7
  <2>2. refund[f].status = "PENDING" /\ "approve" \in calls  BY <2>1 DEF ApproveRead
  <2>3. refund[f].pay \in Payments
    BY <2>2, NotNone DEF IInv, RefundsKnown, RefundStatus
  <2>4. Refunded(RefundsOf(refund[f].pay) \ {f}) = Back(refund[f].pay)
    <3>1. {x \in RefundsOf(refund[f].pay) \ {f} : refund[x].status = "COMPLETED"}
          = {x \in RefundsOf(refund[f].pay) : refund[x].status = "COMPLETED"}
      BY <2>2
    <3> QED  BY <3>1 DEF Back, Refunded
  <2>5. Back(refund[f].pay) \in Nat  BY <2>3, BackTyped
  <2> QED  BY <1>1, <2>1, <2>2, <2>4, <2>5 DEF ApproveRead
<1>8. CASE \E kind \in Kind : InitiateRead(r, kind)
  <2>1. PICK kind \in Kind : InitiateRead(r, kind)  BY <1>8
  <2> DEFINE inProgress == {p \in Payments : payment[p].status = "PROCESSING"}
  <2>2. CASE inProgress = {}
    <3>1. {p \in Payments : payment[p].status \in {"COMPLETED", "PROCESSING"}}
          = {p \in Payments : payment[p].status \in {"COMPLETED"}}
      BY <2>2
    <3>2. Claimed = Collected  BY <3>1 DEF Claimed, Collected, PaymentsSum
    <3> QED  BY <1>1, <2>1, <2>2, <3>2, SumsTyped DEF InitiateRead, Collected
  <2>3. CASE inProgress # {}
    BY <1>1, <2>1, <2>3, SumsTyped DEF InitiateRead, Collected
  <2> QED  BY <2>2, <2>3
<1>9. CASE \E p \in Payments, outcome \in PaymentStatus : WebhookRead(r, p, outcome)
  BY <1>1, <1>9 DEF WebhookRead
<1>10. CASE \E p \in Payments : StripeRead(r, p)  BY <1>1, <1>10 DEF StripeRead
<1>11. CASE RequestRefundEnter(r)  BY <1>1, <1>11 DEF RequestRefundEnter
<1>12. CASE RebillRead(r)  BY <1>1, <1>12 DEF RebillRead
<1> QED  BY <1>2, <1>3, <1>4, <1>5, <1>6, <1>7, <1>8, <1>9, <1>10, <1>11, <1>12
         DEF Arrive
-----------------------------------------------------------------------------
\* One payment row is written and no refund.
LEMMA MoneyPayment ==
    ASSUME IInv, MInv, UNCHANGED <<refund, total, calls>>,
           NEW p \in Payments, NEW row \in PaymentRow,
           payment' = [payment EXCEPT ![p] = row],
           RowSound(row),
           row.amount = payment[p].amount \/ Back(p) = 0,
           CapturesOnce(calls) /\ row.status \in Charged =>
              \/ row.status = payment[p].status /\ row.amount = payment[p].amount
              \/ row.status = "COMPLETED" /\ Back(p) = 0,
           OnlineApart =>
              Claimed + (IF row.status \in {"COMPLETED", "PROCESSING"} THEN row.amount ELSE 0)
                <= total + (IF payment[p].status \in {"COMPLETED", "PROCESSING"}
                            THEN payment[p].amount ELSE 0)
    PROVE  RowsSound' /\ RefundsCount' /\ StatusesTell' /\ RefundsFit' /\ ClaimsFit'
<1>1. /\ \A x \in Payments : payment'[x] = IF x = p THEN row ELSE payment[x]
      /\ payment[p] \in PaymentRow
  BY DEF IInv, TypeOK
<1>2. RowsSound'
  <2>1. \A x \in Payments : RowSound(payment'[x])
    BY <1>1 DEF MInv, RowsSound
  <2> QED  BY <2>1 DEF RowsSound, RowSound, OnlineApart, OnlineAlone
<1>3. RefundsCount'  BY DEF MInv, RefundsCount
<1>4. \A x \in Payments : Back(x)' = Back(x)  BY DEF Back, Refunded, RefundsOf
<1>5. /\ payment[p].amount \in Nat /\ row.amount \in Nat
      /\ \A x \in Payments : Back(x) \in Nat
      /\ total \in Nat
  BY <1>1, BackTyped, MaxTotalAssumption DEF PaymentRow, Amount, IInv, TypeOK
<1>6. StatusesTell'
  <2> SUFFICES ASSUME CapturesOnce(calls), NEW x \in Payments PROVE Tells(x)'
    BY DEF StatusesTell
  <2>1. Tells(x)  BY DEF MInv, StatusesTell
  <2>2. CASE x # p  BY <1>1, <1>4, <2>1, <2>2 DEF Tells
  <2>3. CASE x = p
    <3>1. payment'[x] = row  BY <1>1, <2>3
    <3>2. CASE row.status \notin Charged  BY <3>1, <3>2 DEF Tells
    <3>3. CASE row.status = payment[p].status /\ row.amount = payment[p].amount
      BY <1>4, <2>1, <2>3, <3>1, <3>3 DEF Tells
    <3>4. CASE row.status = "COMPLETED" /\ Back(p) = 0
      BY <1>4, <2>3, <3>1, <3>4 DEF Tells
    <3> QED  BY <3>2, <3>3, <3>4
  <2> QED  BY <2>2, <2>3
<1>7. RefundsFit'
  <2>1. "approve" \notin calls => \A x \in Payments : Back(x) <= payment'[x].amount
    BY <1>1, <1>5 DEF MInv, RefundsFit
  <2> QED  BY <1>4, <2>1 DEF RefundsFit
<1>8. ClaimsFit'
  <2>1. /\ Claimed \in Nat /\ Claimed' \in Nat
        /\ Claimed' + (IF payment[p].status \in {"COMPLETED", "PROCESSING"}
                       THEN payment[p].amount ELSE 0)
             = Claimed + (IF row.status \in {"COMPLETED", "PROCESSING"}
                          THEN row.amount ELSE 0)
    BY PaymentChange DEF Claimed
  <2>2. OnlineApart' <=> OnlineApart  BY DEF OnlineApart, OnlineAlone
  <2> QED  BY <1>5, <2>1, <2>2, MaxTotalAssumption DEF ClaimsFit
<1> QED  BY <1>2, <1>3, <1>6, <1>7, <1>8

\* The status of one payment is written, and it no longer counts as collected.
LEMMA MoneyStatus ==
    ASSUME IInv, MInv, UNCHANGED <<refund, total, calls, orderRow>>,
           NEW r \in Requests, \A s \in Requests : s # r => req'[s] = req[s],
           req[r].at \notin {"completeWrite", "historyWrite"},
           req'[r].at # "historyWrite",
           NEW p \in Payments, NEW row \in PaymentRow,
           payment' = [payment EXCEPT ![p] = row],
           RowSound(row), row.amount = payment[p].amount,
           row.status \notin Charged \cup {"PROCESSING"}
    PROVE  /\ RowsSound' /\ RefundsCount' /\ StatusesTell' /\ RefundsFit' /\ ClaimsFit'
           /\ Audited' /\ TillStep
<1>1. payment[p] \in PaymentRow /\ payment[p].amount \in Nat /\ total \in Nat
  BY MaxTotalAssumption DEF IInv, TypeOK, PaymentRow, Amount
<1>2. row.status \notin {"COMPLETED", "PROCESSING"}  BY DEF Charged
<1>3. OnlineApart => Claimed <= total  BY DEF MInv, ClaimsFit
<1>4. RowsSound' /\ RefundsCount' /\ StatusesTell' /\ RefundsFit' /\ ClaimsFit'
  <2>1. OnlineApart =>
          Claimed + (IF row.status \in {"COMPLETED", "PROCESSING"} THEN row.amount ELSE 0)
            <= total + (IF payment[p].status \in {"COMPLETED", "PROCESSING"}
                        THEN payment[p].amount ELSE 0)
    BY <1>1, <1>2, <1>3, SumsTyped, MaxTotalAssumption
  <2> QED  BY <2>1, MoneyPayment
<1>5. Collected' \in Nat /\ Collected' <= Collected
  <2>1. /\ Collected' \in Nat /\ Collected \in Nat
        /\ Collected' + (IF payment[p].status \in {"COMPLETED"} THEN payment[p].amount ELSE 0)
             = Collected + (IF row.status \in {"COMPLETED"} THEN row.amount ELSE 0)
    BY PaymentChange DEF Collected
  <2> QED  BY <1>1, <1>2, <2>1
<1>6. Audited' /\ TillStep  BY <1>5, CompletionStays
<1> QED  BY <1>4, <1>6

\* A gateway's capture: the payment was not charged before, or a customer
\* returned from Stripe Checkout.
LEMMA MoneyCapture ==
    ASSUME OneHandler, IInv, MInv, UNCHANGED <<refund, total, calls>>,
           NEW r \in Requests, Finish(r), req[r].at \notin {"completeWrite", "historyWrite"},
           NEW p \in Payments, Capture(p),
           payment[p].kind = "gateway",
           \/ "stripeReturn" \in calls
           \/ "webhook" \in calls /\ ~payment[p].processed
    PROVE  MInv' /\ TillStep
<1> DEFINE row == [payment[p] EXCEPT !.status = "COMPLETED", !.processed = Processed(p),
                                     !.charges = OneMore(payment[p].charges)]
<1>1. payment[p] \in PaymentRow  BY DEF IInv, TypeOK
<1>2. /\ OneMore(payment[p].charges) \in 0..MaxEntries
      /\ OneMore(payment[p].charges) > 0
  BY <1>1, MaxEntriesAssumption DEF OneMore, PaymentRow
<1>3. /\ row \in PaymentRow /\ row.status = "COMPLETED"
      /\ row.session # "none" => row.processed
      /\ row.amount = payment[p].amount /\ row.session = payment[p].session
      /\ row.kind = payment[p].kind
  BY <1>1, <1>2 DEF PaymentRow, PaymentStatus, Processed
<1>4. /\ RowSound(payment[p])
      /\ payment[p].session = "none" => "process" \in calls
      /\ CapturesOnce(calls) => payment[p].session # "none"
  BY DEF MInv, RowsSound, RowSound, CapturesOnce
<1>5. RowSound(row)  BY <1>3, <1>4 DEF RowSound, Charged
<1>6. OnlineApart => "stripeReturn" \notin calls /\ payment[p].session # "none"
  BY <1>4 DEF OnlineApart, OnlineAlone
<1>7. CapturesOnce(calls) => Back(p) = 0
  <2> SUFFICES ASSUME CapturesOnce(calls) PROVE Back(p) = 0  OBVIOUS
  <2>1. ~(payment[p].charges > 0)  BY <1>4 DEF RowSound, CapturesOnce
  <2> QED  BY <2>1, NothingBack
<1>8. OnlineApart => payment[p].status = "PROCESSING" /\ Claimed <= total
  BY <1>4, <1>6 DEF RowSound, MInv, ClaimsFit
<1>9. payment' = [payment EXCEPT ![p] = row]  BY DEF Capture
<1>10. payment[p].amount \in Nat /\ total \in Nat
  BY <1>1, MaxTotalAssumption DEF PaymentRow, Amount, IInv, TypeOK
<1> HIDE DEF row
<1>11. RowsSound' /\ RefundsCount' /\ StatusesTell' /\ RefundsFit' /\ ClaimsFit'
  <2>1. PICK new \in PaymentRow : new = row  BY <1>3
  <2>2. OnlineApart =>
          Claimed + (IF new.status \in {"COMPLETED", "PROCESSING"} THEN new.amount ELSE 0)
            <= total + (IF payment[p].status \in {"COMPLETED", "PROCESSING"}
                        THEN payment[p].amount ELSE 0)
    BY <1>3, <1>8, <1>10, <2>1, SumsTyped, MaxTotalAssumption
  <2>3. /\ payment' = [payment EXCEPT ![p] = new] /\ RowSound(new)
        /\ new.amount = payment[p].amount /\ new.status = "COMPLETED"
    BY <1>3, <1>5, <1>9, <2>1 DEF RowSound
  <2> QED  BY <1>7, <2>2, <2>3, MoneyPayment
<1>12. KnowsMoney'  BY EndKnows
<1>13. Audited' /\ TillStep
  <2>1. order' = history' /\ calls' = calls  BY DEF Capture, SetOrder
  <2>2. \A s \in Requests : req'[s].at # "historyWrite"
    BY DEF OneHandler, Finish, NoRequest, IInv, TypeOK
  <2>3. TillStep  BY NotAtTheTill DEF OnlineHandlers
  <2> QED  BY <2>1, <2>2, <2>3 DEF Audited
<1> QED  BY <1>11, <1>12, <1>13 DEF MInv

\* A refund is completed and the status of its payment follows.
LEMMA MoneyPayOut ==
    ASSUME OneHandler, IInv, MInv, UNCHANGED <<orderRow, total, calls>>,
           NEW r \in Requests, Finish(r), req[r].at \notin {"completeWrite", "historyWrite"},
           NEW f \in Refunds, NEW row \in RefundRow,
           refund' = [refund EXCEPT ![f] = row],
           refund[f].status # "COMPLETED", row.status = "COMPLETED",
           row.amount > 0, NEW p \in Payments, row.pay = p, payment[p].charges > 0,
           "approve" \in calls \/ Back(p) + row.amount <= payment[p].amount,
           payment' = [payment EXCEPT ![p].status = StatusAfter(p, Back(p) + row.amount)]
    PROVE  MInv' /\ TillStep
<1> DEFINE s == StatusAfter(p, Back(p) + row.amount)
           new == [payment[p] EXCEPT !.status = s]
<1>1. payment[p] \in PaymentRow /\ payment[p].amount \in Nat
  BY MaxTotalAssumption DEF IInv, TypeOK, PaymentRow, Amount
<1>2. s \in {"REFUNDED", "PARTIALLY_REFUNDED"}  BY DEF StatusAfter
<1>3. /\ new \in PaymentRow /\ new.status = s /\ new.amount = payment[p].amount
      /\ new.session = payment[p].session /\ new.processed = payment[p].processed
      /\ new.kind = payment[p].kind
  BY <1>1, <1>2 DEF PaymentRow, PaymentStatus
<1>4. /\ payment' = [payment EXCEPT ![p] = new]
      /\ \A x \in Payments : payment'[x] = IF x = p THEN new ELSE payment[x]
  BY DEF IInv, TypeOK
<1>5. /\ row.amount \in Nat
      /\ \A x \in Payments : /\ Back(x) \in Nat /\ Back(x)' \in Nat
                             /\ Back(x)' = IF x = p THEN Back(x) + row.amount ELSE Back(x)
  <2>1. row.amount \in Nat  BY MaxTotalAssumption DEF RefundRow, Amount
  <2>2. \A x \in Payments :
          /\ Back(x) \in Nat /\ Back(x)' \in Nat
          /\ Back(x)' + (IF refund[f].pay = x /\ refund[f].status = "COMPLETED"
                         THEN refund[f].amount ELSE 0)
               = Back(x) + (IF row.pay = x /\ row.status = "COMPLETED"
                            THEN row.amount ELSE 0)
    BY RefundChange
  <2> QED  BY <2>1, <2>2
<1>6. RowsSound'
  <2>1. RowSound(payment[p])  BY DEF MInv, RowsSound
  <2>2. RowSound(new)  BY <1>2, <1>3, <2>1 DEF RowSound, Charged
  <2>3. \A x \in Payments : RowSound(payment'[x])
    BY <1>4, <2>2 DEF MInv, RowsSound
  <2> QED  BY <2>3 DEF RowsSound, RowSound, OnlineApart, OnlineAlone
<1>7. RefundsCount'
  <2>1. \A x \in Refunds : refund'[x] = IF x = f THEN row ELSE refund[x]
    BY DEF IInv, TypeOK
  <2> QED  BY <2>1 DEF MInv, RefundsCount
<1>8. StatusesTell'
  <2> SUFFICES ASSUME CapturesOnce(calls), NEW x \in Payments PROVE Tells(x)'
    BY DEF StatusesTell
  <2>1. Tells(x)  BY DEF MInv, StatusesTell
  <2>2. CASE x # p  BY <1>4, <1>5, <2>1, <2>2 DEF Tells
  <2>3. CASE x = p
    <3>1. payment'[x] = new /\ Back(x)' = Back(p) + row.amount  BY <1>4, <1>5, <2>3
    <3>2. s = IF Back(p) + row.amount >= payment[p].amount THEN "REFUNDED"
              ELSE "PARTIALLY_REFUNDED"
      BY DEF StatusAfter
    <3>3. payment'[x].status = s /\ payment'[x].amount = payment[p].amount
      BY <1>3, <3>1
    <3>4. Back(p) \in Nat /\ Back(p) + row.amount > 0  BY <1>5
    <3> HIDE DEF s, new
    <3>5. payment'[x].status = IF Back(x)' = 0 THEN "COMPLETED"
                               ELSE IF Back(x)' < payment'[x].amount
                                    THEN "PARTIALLY_REFUNDED"
                               ELSE "REFUNDED"
      BY <1>1, <1>5, <3>1, <3>2, <3>3, <3>4
    <3> QED  BY <3>5 DEF Tells
  <2> QED  BY <2>2, <2>3
<1>9. RefundsFit'
  <2>1. "approve" \notin calls => \A x \in Payments : Back(x)' <= payment'[x].amount
    BY <1>3, <1>4, <1>5 DEF MInv, RefundsFit
  <2> QED  BY <2>1 DEF RefundsFit
<1> HIDE DEF s, new
<1>10. ClaimsFit'
  <2>1. /\ Claimed \in Nat /\ Claimed' \in Nat
        /\ Claimed' + (IF payment[p].status \in {"COMPLETED", "PROCESSING"}
                       THEN payment[p].amount ELSE 0)
             = Claimed
    <3>1. PICK x \in PaymentRow : x = new  BY <1>3
    <3>2. x.status \notin {"COMPLETED", "PROCESSING"}  BY <1>2, <1>3, <3>1
    <3>3. payment' = [payment EXCEPT ![p] = x]  BY <1>4, <3>1
    <3>4. /\ Claimed \in Nat /\ Claimed' \in Nat
          /\ Claimed' + (IF payment[p].status \in {"COMPLETED", "PROCESSING"}
                         THEN payment[p].amount ELSE 0)
               = Claimed + (IF x.status \in {"COMPLETED", "PROCESSING"} THEN x.amount ELSE 0)
      BY <3>3, PaymentChange DEF Claimed
    <3> QED  BY <3>2, <3>4
  <2>2. Claimed' <= Claimed  BY <1>1, <1>2, <1>3, <2>1
  <2>3. OnlineApart' <=> OnlineApart  BY DEF OnlineApart, OnlineAlone
  <2>4. total \in Nat  BY MaxTotalAssumption DEF IInv, TypeOK, Amount
  <2> QED  BY <2>1, <2>2, <2>3, <2>4 DEF MInv, ClaimsFit
<1>11. Collected' \in Nat /\ Collected' <= Collected
  <2>1. /\ Collected' \in Nat /\ Collected \in Nat
        /\ Collected' + (IF payment[p].status \in {"COMPLETED"} THEN payment[p].amount ELSE 0)
             = Collected
    <3>1. PICK x \in PaymentRow : x = new  BY <1>3
    <3>2. x.status \notin {"COMPLETED"}  BY <1>2, <1>3, <3>1
    <3>3. payment' = [payment EXCEPT ![p] = x]  BY <1>4, <3>1
    <3>4. /\ Collected \in Nat /\ Collected' \in Nat
          /\ Collected' + (IF payment[p].status \in {"COMPLETED"}
                           THEN payment[p].amount ELSE 0)
               = Collected + (IF x.status \in {"COMPLETED"} THEN x.amount ELSE 0)
      BY <3>3, PaymentChange DEF Collected
    <3> QED  BY <3>2, <3>4
  <2> QED  BY <1>1, <2>1
<1>12. /\ \A x \in Requests : x # r => req'[x] = req[x]
       /\ req'[r].at # "historyWrite"
  BY DEF Finish, NoRequest, IInv, TypeOK
<1>13. Audited' /\ TillStep  BY <1>11, <1>12, CompletionStays
<1> QED  BY <1>6, <1>7, <1>8, <1>9, <1>10, <1>13, EndKnows DEF MInv
-----------------------------------------------------------------------------
\* The cashier's payment is written: it still fits, for what was collected is
\* what the handler read, and it completes the order if it is the last one.
LEMMA ProcessWriteMoney ==
    ASSUME OneHandler, IInv, MInv, NEW r \in Requests, NEW p \in Payments,
           ProcessWrite(r, p)
    PROVE  MInv' /\ TillStep
<1> DEFINE row == [status |-> "COMPLETED", amount |-> req[r].amount,
                   kind |-> req[r].kind, session |-> "none",
                   processed |-> FALSE, charges |-> 1]
<1>1. /\ req[r].at = "payWrite" /\ Reads(req[r]) /\ Sound(req[r]) /\ req[r] \in Request
  BY DEF ProcessWrite, MInv, KnowsMoney, IInv, InFlightSound, TypeOK
<1>2. /\ "process" \in calls /\ req[r].seen = Collected /\ req[r].due = total
      /\ req[r].seen + req[r].amount <= req[r].due
      /\ req[r].amount \in Amount /\ req[r].kind \in Kind
  BY <1>1 DEF Reads, Sound, Request
<1>3. row \in PaymentRow
  BY <1>2, MaxEntriesAssumption DEF PaymentRow, PaymentStatus, Session
<1>4. /\ payment' = [payment EXCEPT ![p] = row] /\ payment[p].status = None
      /\ UNCHANGED <<orderRow, refund, total, calls>>
  BY DEF ProcessWrite
<1>5. Back(p) = 0
  <2>1. payment[p].charges = 0  BY <1>4 DEF IInv, FreshUncharged
  <2> QED  BY <2>1, NothingBack
<1>6. PICK new \in PaymentRow : new = row  BY <1>3
<1>7. /\ new.status = "COMPLETED" /\ new.amount = req[r].amount
      /\ new.session = "none"
  BY <1>6
<1>8. RowSound(new)  BY <1>2, <1>7 DEF RowSound, Charged
<1> HIDE DEF row
<1>9. ~OnlineApart  BY <1>2 DEF OnlineApart, OnlineAlone
<1>10. payment[p].status \notin {"COMPLETED", "PROCESSING"}
  BY <1>4, NotNone DEF PaymentStatus
<1>11. RowsSound' /\ RefundsCount' /\ StatusesTell' /\ RefundsFit' /\ ClaimsFit'
  <2>1. payment' = [payment EXCEPT ![p] = new]  BY <1>4, <1>6
  <2> QED  BY <1>4, <1>5, <1>7, <1>8, <1>9, <2>1, MoneyPayment
<1>12. Collected' = Collected + req[r].amount /\ Collected' \in Nat
  <2>1. payment' = [payment EXCEPT ![p] = new]  BY <1>4, <1>6
  <2>2. /\ Collected \in Nat /\ Collected' \in Nat
        /\ Collected' + (IF payment[p].status \in {"COMPLETED"} THEN payment[p].amount ELSE 0)
             = Collected + (IF new.status \in {"COMPLETED"} THEN new.amount ELSE 0)
    BY <2>1, PaymentChange DEF Collected
  <2>3. payment[p].status \notin {"COMPLETED"}  BY <1>10
  <2> QED  BY <1>7, <2>2, <2>3
<1>13. history = order \/ MayFail
  <2>1. \A s \in Requests : req[s].at # "historyWrite"  BY <1>1 DEF OneHandler
  <2> QED  BY <2>1 DEF MInv, Audited
<1>14. /\ Collected' <= total' /\ total' = total /\ calls' = calls
       /\ order' = order /\ history' = history
  BY <1>2, <1>4, <1>12 DEF orderRow
<1>15. CASE FullyPaid(req[r].seen + req[r].amount, req[r].due)
  <2> DEFINE next == [NoRequest EXCEPT !.at = "completeWrite"]
  <2>1. /\ next \in Request /\ next.at = "completeWrite"
        /\ req' = [req EXCEPT ![r] = next]
    BY <1>15, MaxTotalAssumption DEF ProcessWrite, Go, NoRequest, Request, Step, Amount
  <2>2. PICK q \in Request : q = next  BY <2>1
  <2>3. Reads(q)'  BY <2>1, <2>2 DEF Reads, Initiating
  <2>4. KnowsMoney'  BY <2>1, <2>2, <2>3, OneKnows
  <2>5. req'[r].at = "completeWrite" /\ \A s \in Requests : req'[s].at # "historyWrite"
    BY <2>1 DEF OneHandler, IInv, TypeOK
  <2>6. Audited'  BY <1>13, <1>14, <2>5 DEF Audited
  <2>7. TillStep  BY <1>14, <2>5 DEF TillStep, Unsettled
  <2> QED  BY <1>11, <2>4, <2>6, <2>7 DEF MInv
<1>16. CASE ~FullyPaid(req[r].seen + req[r].amount, req[r].due)
  <2>1. Finish(r)  BY <1>16 DEF ProcessWrite
  <2>2. KnowsMoney'  BY <2>1, EndKnows
  <2>3. ~(Collected' >= total')  BY <1>2, <1>12, <1>14, <1>16 DEF FullyPaid
  <2>4. \A s \in Requests : req'[s].at # "historyWrite"
    BY <2>1 DEF OneHandler, Finish, NoRequest, IInv, TypeOK
  <2>5. Audited'  BY <1>13, <1>14, <2>4 DEF Audited
  <2>6. TillStep  BY <1>14, <2>3 DEF TillStep, Unsettled
  <2> QED  BY <1>11, <2>2, <2>5, <2>6 DEF MInv
<1> QED  BY <1>15, <1>16

\* An online payment asks for what is still to be collected.
LEMMA InitiateWriteMoney ==
    ASSUME OneHandler, IInv, MInv, NEW r \in Requests, NEW p \in Payments,
           InitiateWrite(r, p)
    PROVE  MInv' /\ TillStep
<1> DEFINE row == IF req[r].kind = "cod"
                  THEN [NoPayment EXCEPT !.status = "PENDING", !.amount = req[r].due,
                                         !.kind = "cod"]
                  ELSE [NoPayment EXCEPT !.status = "PROCESSING",
                                         !.amount = req[r].due - req[r].seen,
                                         !.kind = "gateway", !.session = "live"]
<1>1. /\ req[r].at = "initiateWrite" /\ Reads(req[r]) /\ Sound(req[r])
      /\ req[r] \in Request
  BY DEF InitiateWrite, MInv, KnowsMoney, IInv, InFlightSound, TypeOK
<1>2. /\ "initiate" \in calls /\ req[r].seen < req[r].due /\ req[r].seen \in Nat
      /\ req[r].due \in Amount
      /\ OnlineApart => req[r].seen = Claimed /\ req[r].due = total
  BY <1>1 DEF Reads, Sound, Initiating, Request
<1>3. /\ req[r].due - req[r].seen \in Amount /\ req[r].due \in Nat
      /\ 0 \in Amount /\ 0 \in 0..MaxEntries
  BY <1>2, MaxTotalAssumption, MaxEntriesAssumption DEF Amount
<1>4. row \in PaymentRow
  BY <1>2, <1>3 DEF PaymentRow, NoPayment, PaymentStatus, Kind, Session
<1>5. /\ row.charges = 0
      /\ \/ row.status = "PENDING" /\ row.session = "none" /\ row.kind = "cod"
         \/ row.status = "PROCESSING" /\ row.session = "live"
            /\ row.amount = req[r].due - req[r].seen
  BY DEF NoPayment
<1>6. /\ payment' = [payment EXCEPT ![p] = row] /\ payment[p].status = None
      /\ UNCHANGED <<orderRow, refund, total, calls>> /\ Finish(r)
  BY DEF InitiateWrite
<1> HIDE DEF row
<1>7. PICK new \in PaymentRow : new = row  BY <1>4
<1>8. RowSound(new)  BY <1>2, <1>5, <1>7 DEF RowSound
<1>9. Back(p) = 0
  <2>1. payment[p].charges = 0  BY <1>6 DEF IInv, FreshUncharged
  <2> QED  BY <2>1, NothingBack
<1>10. new.status \notin Charged /\ payment[p].status \notin {"COMPLETED", "PROCESSING"}
  BY <1>5, <1>6, <1>7, NotNone DEF Charged, PaymentStatus
<1>11. RowsSound' /\ RefundsCount' /\ StatusesTell' /\ RefundsFit' /\ ClaimsFit'
  <2>1. OnlineApart => Claimed <= total  BY DEF MInv, ClaimsFit
  <2>2. OnlineApart =>
          Claimed + (IF new.status \in {"COMPLETED", "PROCESSING"} THEN new.amount ELSE 0)
            <= total + (IF payment[p].status \in {"COMPLETED", "PROCESSING"}
                        THEN payment[p].amount ELSE 0)
    BY <1>2, <1>3, <1>5, <1>7, <1>10, <2>1, SumsTyped
  <2>3. payment' = [payment EXCEPT ![p] = new]  BY <1>6, <1>7
  <2> QED  BY <1>6, <1>8, <1>9, <1>10, <2>2, <2>3, MoneyPayment
<1>12. KnowsMoney'  BY <1>6, EndKnows
<1>13. Audited' /\ TillStep
  <2>1. \A s \in Requests : req[s].at # "historyWrite" /\ req'[s].at # "historyWrite"
    BY <1>1, <1>6 DEF OneHandler, Finish, NoRequest, IInv, TypeOK
  <2>2. TillStep  BY <1>2, NotAtTheTill DEF OnlineHandlers
  <2> QED  BY <1>6, <2>1, <2>2 DEF MInv, Audited, orderRow
<1> QED  BY <1>11, <1>12, <1>13 DEF MInv

\* A payment that waits is cancelled.
LEMMA CancelWriteMoney ==
    ASSUME OneHandler, IInv, MInv, NEW r \in Requests, CancelPaymentWrite(r)
    PROVE  MInv' /\ TillStep
<1> DEFINE p == req[r].pay
           row == [payment[p] EXCEPT !.status = "CANCELLED"]
<1>1. req[r].at = "cancelWrite" /\ Reads(req[r]) /\ Sound(req[r])
  BY DEF CancelPaymentWrite, MInv, KnowsMoney, IInv, InFlightSound
<1>2. /\ p \in Payments /\ "cancelPayment" \in calls
      /\ payment[p].status \in {"PENDING", "PROCESSING"}
  BY <1>1 DEF Reads, Sound, OnPayment
<1>3. payment[p] \in PaymentRow /\ RowSound(payment[p])
  BY <1>2 DEF IInv, TypeOK, MInv, RowsSound
<1>4. /\ row \in PaymentRow /\ row.status = "CANCELLED" /\ row.amount = payment[p].amount
      /\ row.session = payment[p].session /\ row.charges = payment[p].charges
      /\ row.processed = payment[p].processed /\ row.kind = payment[p].kind
  BY <1>3 DEF PaymentRow, PaymentStatus
<1>5. /\ payment' = [payment EXCEPT ![p] = row]
      /\ UNCHANGED <<refund, total, calls, orderRow>> /\ Finish(r)
  BY DEF CancelPaymentWrite, orderRow
<1> HIDE DEF p, row
<1>6. PICK x \in Payments, new \in PaymentRow : x = p /\ new = row  BY <1>2, <1>4
<1>7. RowSound(new)
  <2>1. OnlineApart => new.session = "none"
    BY <1>2, <1>3, <1>4, <1>6 DEF RowSound, OnlineApart, OnlineAlone
  <2> QED  BY <1>2, <1>3, <1>4, <1>6, <2>1 DEF RowSound, Charged
<1>8. \A s \in Requests : s # r => req'[s] = req[s]  BY <1>5 DEF Finish, IInv, TypeOK
<1>9. req'[r].at # "historyWrite"  BY <1>5 DEF Finish, NoRequest, IInv, TypeOK
<1>10. payment' = [payment EXCEPT ![x] = new] /\ new.amount = payment[x].amount
       /\ new.status \notin Charged \cup {"PROCESSING"}
  BY <1>4, <1>5, <1>6 DEF Charged
<1> QED  BY <1>1, <1>5, <1>7, <1>8, <1>9, <1>10, MoneyStatus, EndKnows DEF MInv

\* A stale session is cancelled; where no session expires there is none.
LEMMA StaleWriteMoney ==
    ASSUME OneHandler, IInv, IInv', MInv, NEW r \in Requests, StaleWrite(r)
    PROVE  MInv' /\ TillStep
<1> DEFINE p == req[r].pay
           row == [payment[p] EXCEPT !.status = "CANCELLED"]
<1>1. /\ req[r].at = "staleWrite" /\ Reads(req[r]) /\ Sound(req[r])
      /\ req[r] \in Request
  BY DEF StaleWrite, MInv, KnowsMoney, IInv, InFlightSound, TypeOK
<1>2. /\ p \in Payments /\ "initiate" \in calls
      /\ payment[p].status = "PROCESSING" /\ payment[p].session # "live"
  BY <1>1 DEF Reads, Sound, OnPayment, Initiating
<1>3. payment[p] \in PaymentRow /\ RowSound(payment[p])
  BY <1>2 DEF IInv, TypeOK, MInv, RowsSound
<1>4. /\ row \in PaymentRow /\ row.status = "CANCELLED" /\ row.amount = payment[p].amount
      /\ row.session = payment[p].session /\ row.charges = payment[p].charges
      /\ row.processed = payment[p].processed /\ row.kind = payment[p].kind
  BY <1>3 DEF PaymentRow, PaymentStatus
<1>5. /\ payment' = [payment EXCEPT ![p] = row]
      /\ UNCHANGED <<refund, total, calls, orderRow>>
  BY DEF StaleWrite, orderRow
<1>6. ~OnlineApart  BY <1>2, <1>3 DEF RowSound
<1> HIDE DEF p, row
<1>7. PICK x \in Payments, new \in PaymentRow : x = p /\ new = row  BY <1>2, <1>4
<1>8. RowSound(new)  BY <1>2, <1>3, <1>4, <1>6, <1>7 DEF RowSound, Charged
<1>9. payment' = [payment EXCEPT ![x] = new] /\ new.amount = payment[x].amount
      /\ new.status \notin Charged \cup {"PROCESSING"}
  BY <1>4, <1>5, <1>7 DEF Charged
<1>10. /\ \A s \in Requests : s # r => req'[s] = req[s]
       /\ req'[r].at # "historyWrite"
       /\ KnowsMoney'
  <2>1. CASE req[r].seen < req[r].due
    <3> DEFINE next == [req[r] EXCEPT !.at = "initiateWrite"]
    <3>1. next \in Request /\ next.at = "initiateWrite"
      BY <1>1 DEF Request, Step
    <3>2. req' = [req EXCEPT ![r] = next]  BY <2>1 DEF StaleWrite, Continue
    <3> HIDE DEF next
    <3>3. PICK q \in Request : q = next  BY <3>1
    <3>4. Reads(q)'
      BY <1>2, <1>5, <1>6, <3>1, <3>3 DEF Reads, Initiating, OnlineApart, OnlineAlone
    <3>5. KnowsMoney'  BY <3>2, <3>3, <3>4, OneKnows
    <3> QED  BY <3>1, <3>2, <3>5 DEF IInv, TypeOK
  <2>2. CASE ~(req[r].seen < req[r].due)
    <3>1. Finish(r)  BY <2>2 DEF StaleWrite
    <3> QED  BY <3>1, EndKnows DEF Finish, NoRequest, IInv, TypeOK
  <2> QED  BY <2>1, <2>2
<1> QED  BY <1>1, <1>5, <1>8, <1>9, <1>10, MoneyStatus DEF MInv

\* A gateway's outcome is written once, for a payment that was not charged yet.
LEMMA WebhookMoney ==
    ASSUME OneHandler, IInv, MInv, NEW r \in Requests, WebhookWrite(r)
    PROVE  MInv' /\ TillStep
<1> DEFINE p == req[r].pay
           row == [payment[p] EXCEPT !.status = req[r].to, !.processed = Processed(p)]
<1>1. req[r].at = "webhookWrite" /\ Reads(req[r]) /\ Sound(req[r])
  BY DEF WebhookWrite, MInv, KnowsMoney, IInv, InFlightSound
<1>2. /\ p \in Payments /\ req[r].to \in Outcomes
      /\ "webhook" \in calls
      /\ payment[p].kind = "gateway" /\ ~payment[p].processed
  BY <1>1 DEF Reads, Sound, OnPayment
<1>3. Finish(r) /\ UNCHANGED <<refund, total, calls>>  BY DEF WebhookWrite
<1>4. CASE req[r].to = "COMPLETED"
  <2>1. Capture(p)  BY <1>4 DEF WebhookWrite
  <2> QED  BY <1>1, <1>2, <1>3, <2>1, MoneyCapture
<1>5. CASE req[r].to # "COMPLETED"
  <2>1. req[r].to \in {"FAILED", "CANCELLED"}  BY <1>2, <1>5 DEF Outcomes
  <2>2. payment[p] \in PaymentRow /\ RowSound(payment[p])
    BY <1>2 DEF IInv, TypeOK, MInv, RowsSound
  <2>3. /\ row \in PaymentRow /\ row.status = req[r].to
        /\ row.processed = (payment[p].session # "none")
        /\ row.amount = payment[p].amount /\ row.kind = payment[p].kind
        /\ row.session = payment[p].session /\ row.charges = payment[p].charges
    BY <2>1, <2>2 DEF PaymentRow, PaymentStatus, Processed
  <2>4. payment' = [payment EXCEPT ![p] = row] /\ UNCHANGED orderRow
    BY <1>5 DEF WebhookWrite
  <2> HIDE DEF p, row
  <2>5. PICK x \in Payments, new \in PaymentRow : x = p /\ new = row
    BY <1>2, <2>3
  <2>6. RowSound(new)
    <3>1. CapturesOnce(calls) => ~(payment[p].charges > 0)
      BY <1>2, <2>2 DEF CapturesOnce, RowSound
    <3> QED  BY <1>2, <2>1, <2>2, <2>3, <2>5, <3>1 DEF RowSound, Charged
  <2>7. \A s \in Requests : s # r => req'[s] = req[s]
    BY <1>3 DEF Finish, IInv, TypeOK
  <2>8. req'[r].at # "historyWrite"  BY <1>3 DEF Finish, NoRequest, IInv, TypeOK
  <2>9. payment' = [payment EXCEPT ![x] = new] /\ new.amount = payment[x].amount
        /\ new.status \notin Charged \cup {"PROCESSING"}
    BY <2>1, <2>3, <2>4, <2>5 DEF Charged
  <2> QED  BY <1>1, <1>3, <2>4, <2>6, <2>7, <2>8, <2>9, MoneyStatus, EndKnows DEF MInv
<1> QED  BY <1>4, <1>5

\* A session expires: no sum and no status changes.
LEMMA ExpireMoney ==
    ASSUME OneHandler, IInv, MInv, NEW p \in Payments, SessionExpires(p)
    PROVE  MInv' /\ TillStep
<1> DEFINE row == [payment[p] EXCEPT !.session = "expired"]
<1>1. payment[p] \in PaymentRow /\ RowSound(payment[p])
  BY DEF IInv, TypeOK, MInv, RowsSound
<1>2. /\ row \in PaymentRow /\ row.session = "expired" /\ row.status = payment[p].status
      /\ row.amount = payment[p].amount /\ row.charges = payment[p].charges
      /\ row.processed = payment[p].processed /\ row.kind = payment[p].kind
  BY <1>1 DEF PaymentRow, Session
<1>3. /\ payment' = [payment EXCEPT ![p] = row]
      /\ "expire" \in calls /\ payment[p].session = "live"
      /\ UNCHANGED <<orderRow, refund, total, calls, req>>
  BY DEF SessionExpires
<1> HIDE DEF row
<1>4. PICK new \in PaymentRow : new = row  BY <1>2
<1>5. ~OnlineApart  BY <1>1, <1>3 DEF RowSound, OnlineApart, OnlineAlone
<1>6. RowSound(new)  BY <1>1, <1>2, <1>3, <1>4, <1>5 DEF RowSound
<1>7. RowsSound' /\ RefundsCount' /\ StatusesTell' /\ RefundsFit' /\ ClaimsFit'
  <2>1. /\ payment' = [payment EXCEPT ![p] = new] /\ new.amount = payment[p].amount
        /\ new.status = payment[p].status
    BY <1>2, <1>3, <1>4
  <2> QED  BY <1>3, <1>5, <1>6, <2>1, MoneyPayment
<1>8. \A x \in Payments :
        /\ payment'[x].status = payment[x].status /\ payment'[x].amount = payment[x].amount
        /\ payment'[x].processed = payment[x].processed /\ payment'[x].kind = payment[x].kind
        /\ payment'[x].session = "none" <=> payment[x].session = "none"
        /\ payment'[x].session = "live" => payment[x].session = "live"
  BY <1>2, <1>3 DEF IInv, TypeOK
<1>9. Collected' = Collected
  <2>1. [x \in Payments |-> payment'[x].amount] = [x \in Payments |-> payment[x].amount]
    BY <1>8
  <2>2. {x \in Payments : payment'[x].status \in {"COMPLETED"}}
        = {x \in Payments : payment[x].status \in {"COMPLETED"}}
    BY <1>8
  <2> QED  BY <2>1, <2>2 DEF Collected, PaymentsSum
<1>10. KnowsMoney'
  <2> SUFFICES ASSUME NEW s \in Requests PROVE Reads(req[s])'
    BY DEF KnowsMoney
  <2>1. Reads(req[s]) /\ Sound(req[s]) /\ req'[s] = req[s]
    BY <1>3 DEF MInv, KnowsMoney, IInv, InFlightSound
  <2>2. req[s].at \in OnPayment => req[s].pay \in Payments  BY <2>1 DEF Sound
  <2>3. Back(req[s].pay)' = Back(req[s].pay)
    BY <1>3 DEF Back, Refunded, RefundsOf
  <2>4. Back(refund[req[s].ref].pay)' = Back(refund[req[s].ref].pay)
    BY <1>3 DEF Back, Refunded, RefundsOf
  <2>5. ~OnlineApart'  BY <1>3, <1>5 DEF OnlineApart, OnlineAlone
  <2> QED  BY <1>3, <1>8, <1>9, <2>1, <2>2, <2>3, <2>4, <2>5 DEF Reads, OnPayment, Initiating
<1>11. Audited' /\ TillStep
  BY <1>3, <1>9, SumsTyped DEF MInv, Audited, TillStep, Unsettled, orderRow
<1> QED  BY <1>7, <1>10, <1>11 DEF MInv

\* A refund by staff: what went back before is what the handler read.
LEMMA RefundWriteMoney ==
    ASSUME OneHandler, IInv, MInv, NEW r \in Requests, NEW f \in Refunds, RefundWrite(r, f)
    PROVE  MInv' /\ TillStep
<1> DEFINE p == req[r].pay
           row == [status |-> "COMPLETED", pay |-> p, amount |-> req[r].amount,
                   entries |-> 1]
<1>1. /\ req[r].at = "refundWrite" /\ Reads(req[r]) /\ Sound(req[r])
      /\ req[r] \in Request
  BY DEF RefundWrite, MInv, KnowsMoney, IInv, InFlightSound, TypeOK
<1>2. /\ p \in Payments /\ payment[p].charges > 0
      /\ req[r].seen = Back(p) /\ req[r].amount > 0 /\ req[r].amount \in Amount
      /\ Back(p) + req[r].amount <= payment[p].amount
  BY <1>1 DEF Reads, Sound, OnPayment, Request
<1>3. row \in RefundRow
  BY <1>2, MaxEntriesAssumption DEF RefundRow, RefundStatus
<1>4. /\ row.status = "COMPLETED" /\ row.pay = p /\ row.amount = req[r].amount
      /\ refund' = [refund EXCEPT ![f] = row] /\ refund[f].status # "COMPLETED"
      /\ payment' = [payment EXCEPT ![p].status = StatusAfter(p, Back(p) + row.amount)]
      /\ UNCHANGED <<orderRow, total, calls>> /\ Finish(r)
  BY <1>2, NotNone DEF RefundWrite, RefundStatus
<1> HIDE DEF p, row
<1>5. PICK x \in Payments, new \in RefundRow : x = p /\ new = row  BY <1>2, <1>3
<1> QED  BY <1>1, <1>2, <1>4, <1>5, MoneyPayOut

\* A refund that is approved.
LEMMA ApproveWriteMoney ==
    ASSUME OneHandler, IInv, MInv, NEW r \in Requests, ApproveWrite(r)
    PROVE  MInv' /\ TillStep
<1> DEFINE f == req[r].ref
           p == refund[f].pay
           row == [refund[f] EXCEPT !.status = "COMPLETED",
                                    !.entries = OneMore(refund[f].entries)]
<1>1. req[r].at = "approveWrite" /\ Reads(req[r]) /\ Sound(req[r])
  BY DEF ApproveWrite, MInv, KnowsMoney, IInv, InFlightSound
<1>2. /\ f \in Refunds /\ "approve" \in calls /\ refund[f].status = "PENDING"
      /\ req[r].seen = Back(p)
  BY <1>1 DEF Reads, Sound
<1>3. /\ refund[f].status # None /\ refund[f].amount > 0
      /\ p \in Payments /\ payment[p].charges > 0
  BY <1>2, NotNone DEF RefundStatus, IInv, RefundsKnown, MInv, RefundsCount
<1>4. refund[f] \in RefundRow  BY <1>2 DEF IInv, TypeOK
<1>5. OneMore(refund[f].entries) \in 0..MaxEntries
  BY <1>4, MaxEntriesAssumption DEF OneMore, RefundRow
<1>6. /\ row \in RefundRow /\ row.status = "COMPLETED" /\ row.pay = p
      /\ row.amount = refund[f].amount
  BY <1>4, <1>5 DEF RefundRow, RefundStatus
<1>7. /\ refund' = [refund EXCEPT ![f] = row]
      /\ payment' = [payment EXCEPT ![p].status = StatusAfter(p, Back(p) + row.amount)]
      /\ UNCHANGED <<orderRow, total, calls>> /\ Finish(r)
  BY <1>2, <1>6 DEF ApproveWrite
<1> HIDE DEF f, p, row
<1>8. PICK g \in Refunds, x \in Payments, new \in RefundRow : g = f /\ x = p /\ new = row
  BY <1>2, <1>3, <1>6
<1> QED  BY <1>1, <1>2, <1>3, <1>6, <1>7, <1>8, MoneyPayOut

\* A refund that is only asked for changes no sum.
LEMMA RequestRefundMoney ==
    ASSUME OneHandler, IInv, MInv, NEW r \in Requests, NEW f \in Refunds,
           RequestRefundWrite(r, f)
    PROVE  MInv' /\ TillStep
<1> DEFINE row == [status |-> "PENDING", pay |-> req[r].pay,
                   amount |-> req[r].amount, entries |-> 0]
<1>1. /\ req[r].at = "requestWrite" /\ Reads(req[r]) /\ Sound(req[r])
      /\ req[r] \in Request
  BY DEF RequestRefundWrite, MInv, KnowsMoney, IInv, InFlightSound, TypeOK
<1>2. req[r].pay \in Payments /\ req[r].amount \in Amount /\ req[r].amount > 0
  BY <1>1 DEF Reads, Sound, OnPayment, Request
<1>3. /\ row \in RefundRow /\ row.status = "PENDING" /\ row.amount > 0
  BY <1>2, MaxEntriesAssumption DEF RefundRow, RefundStatus
<1>4. /\ refund' = [refund EXCEPT ![f] = row] /\ refund[f].status = None
      /\ UNCHANGED <<orderRow, payment, total, calls>> /\ Finish(r)
  BY DEF RequestRefundWrite
<1> HIDE DEF row
<1>5. \A x \in Payments : Back(x)' = Back(x)
  <2> TAKE x \in Payments
  <2>1. PICK new \in RefundRow : new = row  BY <1>3
  <2>2. refund[f].status # "COMPLETED" /\ new.status # "COMPLETED"
    BY <1>3, <1>4, <2>1, NotNone DEF RefundStatus
  <2>3. refund' = [refund EXCEPT ![f] = new]  BY <1>4, <2>1
  <2>4. /\ Back(x) \in Nat /\ Back(x)' \in Nat
        /\ Back(x)' + (IF refund[f].pay = x /\ refund[f].status = "COMPLETED"
                       THEN refund[f].amount ELSE 0)
             = Back(x) + (IF new.pay = x /\ new.status = "COMPLETED"
                          THEN new.amount ELSE 0)
    BY <2>3, RefundChange
  <2> QED  BY <2>2, <2>4
<1>6. RowsSound'  BY <1>4 DEF MInv, RowsSound, RowSound, OnlineApart, OnlineAlone
<1>7. RefundsCount'
  <2>1. \A x \in Refunds : refund'[x] = IF x = f THEN row ELSE refund[x]
    BY <1>4 DEF IInv, TypeOK
  <2> QED  BY <1>3, <2>1 DEF MInv, RefundsCount
<1>8. StatusesTell' /\ RefundsFit'
  BY <1>4, <1>5 DEF MInv, StatusesTell, RefundsFit, Tells
<1>9. ClaimsFit' /\ Collected' = Collected
  BY <1>4 DEF MInv, ClaimsFit, Claimed, Collected, PaymentsSum, OnlineApart, OnlineAlone
<1>10. /\ \A x \in Requests : x # r => req'[x] = req[x]
       /\ req'[r].at # "historyWrite"
  BY <1>4 DEF Finish, NoRequest, IInv, TypeOK
<1>11. Audited' /\ TillStep  BY <1>1, <1>4, <1>9, <1>10, SumsTyped, CompletionStays
<1> QED  BY <1>4, <1>6, <1>7, <1>8, <1>9, <1>11, EndKnows DEF MInv

\* The status of the order is written in two statements, or at once.
LEMMA CompleteMoney ==
    ASSUME OneHandler, IInv, MInv, NEW r \in Requests,
           CompleteWrite(r) \/ CompleteHistory(r) \/ ConfirmCodWrite(r)
    PROVE  MInv' /\ TillStep
<1>1. UNCHANGED <<payment, refund, total, calls>>
  BY DEF CompleteWrite, CompleteHistory, ConfirmCodWrite
<1>2. RowsSound' /\ RefundsCount' /\ StatusesTell' /\ RefundsFit' /\ ClaimsFit'
  BY <1>1, RowsStay
<1>6. Collected' = Collected /\ Collected \in Nat
  BY <1>1, SumsTyped DEF Collected, PaymentsSum
<1>3. CASE CompleteWrite(r)
  <2> DEFINE next == [req[r] EXCEPT !.at = "historyWrite"]
  <2>1. next \in Request /\ next.at = "historyWrite"
    BY DEF IInv, TypeOK, Request, Step
  <2>2. order' = "COMPLETED" /\ req' = [req EXCEPT ![r] = next]
    BY <1>3 DEF CompleteWrite, Continue
  <2> HIDE DEF next
  <2>3. PICK q \in Request : q = next  BY <2>1
  <2>4. Reads(q)'  BY <2>1, <2>3 DEF Reads, Initiating
  <2>5. KnowsMoney'  BY <2>2, <2>3, <2>4, OneKnows
  <2>6. req'[r].at = "historyWrite"  BY <2>1, <2>2 DEF IInv, TypeOK
  <2>7. Audited' /\ TillStep
    BY <1>6, <2>2, <2>6 DEF Audited, TillStep, Unsettled, Closed
  <2> QED  BY <1>2, <2>5, <2>7 DEF MInv
<1>4. CASE CompleteHistory(r)
  <2>1. order = "COMPLETED" /\ order' = order /\ history' = "COMPLETED" /\ Finish(r)
    BY <1>4 DEF CompleteHistory, MInv, Audited
  <2>2. \A s \in Requests : req'[s].at # "historyWrite"
    BY <2>1 DEF OneHandler, Finish, NoRequest, IInv, TypeOK
  <2>3. Audited' /\ TillStep
    BY <1>6, <2>1, <2>2 DEF Audited, TillStep, Unsettled, Closed
  <2> QED  BY <1>2, <2>1, <2>3, EndKnows DEF MInv
<1>5. CASE ConfirmCodWrite(r)
  <2>1. order' = "COMPLETED" /\ history' = "COMPLETED" /\ Finish(r)
    BY <1>5 DEF ConfirmCodWrite, SetOrder
  <2>2. \A s \in Requests : req'[s].at # "historyWrite"
    BY <2>1 DEF OneHandler, Finish, NoRequest, IInv, TypeOK
  <2>3. Audited' /\ TillStep
    BY <1>6, <2>1, <2>2 DEF Audited, TillStep, Unsettled, Closed
  <2> QED  BY <1>2, <2>1, <2>3, EndKnows DEF MInv
<1> QED  BY <1>3, <1>4, <1>5

\* A handler that still reads, or waits for Stripe, before it writes.
LEMMA WaitMoney ==
    ASSUME OneHandler, IInv, MInv, NEW r \in Requests,
           SessionRead(r) \/ StripeVerify(r) \/ RequestRefundRead(r)
    PROVE  MInv' /\ TillStep
<1>1. /\ Reads(req[r]) /\ Sound(req[r]) /\ req[r] \in Request
      /\ UNCHANGED rows
      /\ req[r].at \in {"sessionRead", "stripeVerify", "requestRead"}
  BY DEF MInv, KnowsMoney, IInv, InFlightSound, TypeOK, SessionRead, StripeVerify,
         RequestRefundRead
<1> SUFFICES \/ Finish(r)
             \/ \E q \in Request : /\ Reads(q) /\ q.at # "historyWrite"
                                   /\ req' = [req EXCEPT ![r] = q]
  BY <1>1, MoneyRead
<1>2. CASE SessionRead(r)
  <2>1. CASE payment[req[r].pay].session = "live"
    BY <1>2, <2>1 DEF SessionRead, Refuses
  <2>2. CASE payment[req[r].pay].session # "live"
    <3> DEFINE next == [req[r] EXCEPT !.at = "staleWrite"]
    <3>1. /\ next \in Request /\ next.at = "staleWrite" /\ next.pay = req[r].pay
          /\ req' = [req EXCEPT ![r] = next]
      BY <1>1, <1>2, <2>2 DEF SessionRead, Refuses, Continue, Request, Step
    <3>2. "initiate" \in calls /\ payment[req[r].pay].status = "PROCESSING"
      BY <1>2, <1>1 DEF SessionRead, Reads, Initiating
    <3> HIDE DEF next
    <3>3. Reads(next)  BY <2>2, <3>1, <3>2 DEF Reads, Initiating
    <3> QED  BY <3>1, <3>3
  <2> QED  BY <2>1, <2>2
<1>3. CASE StripeVerify(r)
  <2>1. CASE Finish(r)  BY <2>1
  <2>2. CASE Continue(r, "stripeWrite")
    <3> DEFINE next == [req[r] EXCEPT !.at = "stripeWrite"]
    <3>1. /\ next \in Request /\ next.at = "stripeWrite" /\ next.pay = req[r].pay
          /\ req' = [req EXCEPT ![r] = next]
      BY <1>1, <2>2 DEF Continue, Request, Step
    <3>2. "stripeReturn" \in calls /\ payment[req[r].pay].kind = "gateway"
      BY <1>3, <1>1 DEF StripeVerify, Reads
    <3> HIDE DEF next
    <3>3. Reads(next)  BY <3>1, <3>2 DEF Reads, Initiating
    <3> QED  BY <3>1, <3>3
  <2> QED  BY <1>3, <2>1, <2>2 DEF StripeVerify
<1>4. CASE RequestRefundRead(r)
  <2>1. CASE Finish(r)  BY <2>1
  <2>2. CASE ~Finish(r)
    <3>1. PICK p \in Payments :
            /\ payment[p].amount > Back(p)
            /\ Go(r, [NoRequest EXCEPT !.at = "requestWrite", !.pay = p,
                                       !.amount = payment[p].amount - Back(p)])
      BY <1>4, <2>2 DEF RequestRefundRead, Back
    <3> DEFINE rest == payment[p].amount - Back(p)
               next == [NoRequest EXCEPT !.at = "requestWrite", !.pay = p,
                                         !.amount = rest]
    <3>2. Back(p) \in Nat /\ payment[p] \in PaymentRow  BY BackTyped DEF IInv, TypeOK
    <3>3. rest \in Amount /\ rest > 0
      BY <3>1, <3>2, MaxTotalAssumption DEF PaymentRow, Amount
    <3>4. req' = [req EXCEPT ![r] = next]  BY <3>1 DEF Go
    <3> HIDE DEF rest
    <3>5. 0 \in Amount  BY MaxTotalAssumption DEF Amount
    <3>6. next \in Request /\ next.at = "requestWrite" /\ next.amount = rest
      BY <3>3, <3>5 DEF NoRequest, Request, Step
    <3> HIDE DEF next
    <3>7. Reads(next)  BY <3>3, <3>6 DEF Reads, Initiating
    <3> QED  BY <3>4, <3>6, <3>7
  <2> QED  BY <2>1, <2>2
<1> QED  BY <1>2, <1>3, <1>4

LEMMA StripeWriteMoney ==
    ASSUME OneHandler, IInv, MInv, NEW r \in Requests, StripeWrite(r)
    PROVE  MInv' /\ TillStep
<1>1. req[r].at = "stripeWrite" /\ Reads(req[r]) /\ Sound(req[r])
  BY DEF StripeWrite, MInv, KnowsMoney, IInv, InFlightSound
<1>2. /\ req[r].pay \in Payments /\ payment[req[r].pay].kind = "gateway"
      /\ "stripeReturn" \in calls
  BY <1>1 DEF Reads, Sound, OnPayment
<1>3. Capture(req[r].pay) /\ Finish(r) /\ UNCHANGED <<refund, total, calls>>
  BY DEF StripeWrite
<1> QED  BY <1>1, <1>2, <1>3, MoneyCapture

\* The bill changes, unless customers pay online.  Whatever becomes paid and
\* open by it does so because the bill is lowered.
LEMMA RebillMoney ==
    ASSUME OneHandler, IInv, MInv, NEW r \in Requests, NEW t \in Amount, RebillWrite(r, t)
    PROVE  MInv' /\ TillStep
<1>1. /\ req[r].at = "rebillWrite" /\ "rebill" \in calls
      /\ total' = t /\ Finish(r) /\ UNCHANGED <<orderRow, payment, refund, calls>>
  BY DEF RebillWrite, MInv, KnowsMoney, Reads
<1>2. RowsSound' /\ RefundsCount'
  BY <1>1 DEF MInv, RowsSound, RowSound, RefundsCount, OnlineApart, OnlineAlone
<1>3. StatusesTell' /\ RefundsFit'
  BY <1>1 DEF MInv, StatusesTell, RefundsFit, Tells, Back, Refunded, RefundsOf
<1>4. ClaimsFit'  BY <1>1 DEF ClaimsFit, OnlineApart, OnlineAlone
<1>5. \A s \in Requests : /\ req[s].at \notin {"completeWrite", "historyWrite"}
                          /\ req'[s].at # "historyWrite"
  BY <1>1 DEF OneHandler, Finish, NoRequest, IInv, TypeOK
<1>6. Audited'  BY <1>1, <1>5 DEF MInv, Audited, orderRow
<1>7. TillStep
  <2>1. Collected' = Collected  BY <1>1 DEF Collected, PaymentsSum
  <2>2. Collected \in Nat /\ total \in Nat /\ t \in Nat
    BY SumsTyped, MaxTotalAssumption DEF IInv, TypeOK, Amount
  <2>3. order' = order  BY <1>1 DEF orderRow
  <2> QED  BY <1>1, <1>5, <2>1, <2>2, <2>3 DEF TillStep, Unsettled
<1> QED  BY <1>1, <1>2, <1>3, <1>4, <1>6, EndKnows, <1>7 DEF MInv

\* Staff and kitchen move an order that is not closed, so nobody is completing it.
LEMMA OrderMovesMoney ==
    ASSUME OneHandler, IInv, MInv, NEW s \in OrderStatus, OrderMoves(s)
    PROVE  MInv' /\ TillStep
<1>1. /\ UNCHANGED <<payment, refund, total, calls, req>> /\ order \notin Closed
      /\ order' = s /\ history' = s
  BY DEF OrderMoves, SetOrder
<1>2. KnowsMoney'  BY <1>1, KnowsStay
<1>3. RowsSound' /\ RefundsCount' /\ StatusesTell' /\ RefundsFit' /\ ClaimsFit'
  BY <1>1, RowsStay
<1>4. Collected' = Collected /\ Collected \in Nat
  BY <1>1, SumsTyped DEF Collected, PaymentsSum
<1>5. \A r \in Requests : req[r].at = "historyWrite" => order \in Closed
  BY DEF MInv, Audited, Closed
<1>6. Audited' /\ TillStep
  BY <1>1, <1>4, <1>5 DEF Audited, TillStep, Unsettled
<1> QED  BY <1>2, <1>3, <1>6 DEF MInv

LEMMA FailMoney ==
    ASSUME OneHandler, IInv, MInv, NEW r \in Requests, Fail(r)
    PROVE  MInv' /\ TillStep
BY MoneyRead DEF Fail

LEMMA StutterMoney ==
    ASSUME IInv, MInv, UNCHANGED vars
    PROVE  MInv' /\ TillStep
<1>1. UNCHANGED <<order, history, total, payment, refund, calls, req>>  BY DEF vars
<1>2. RowsSound' /\ RefundsCount' /\ StatusesTell' /\ RefundsFit' /\ ClaimsFit'
  BY <1>1, RowsStay
<1>3. KnowsMoney'  BY <1>1, KnowsStay
<1>4. Collected' = Collected /\ Collected \in Nat
  BY <1>1, SumsTyped DEF Collected, PaymentsSum
<1>5. Audited' /\ TillStep
  BY <1>1, <1>4 DEF MInv, Audited, TillStep, Unsettled
<1> QED  BY <1>2, <1>3, <1>5 DEF MInv
-----------------------------------------------------------------------------
LEMMA InitMoney == OneHandler /\ Init => MInv
<1> SUFFICES ASSUME Init PROVE MInv  OBVIOUS
<1>1. /\ \A p \in Payments : payment[p] = NoPayment
      /\ \A f \in Refunds : refund[f] = NoRefund
      /\ \A r \in Requests : req[r] = NoRequest
      /\ history = order /\ order \in {"PENDING", "ACCEPTED"} /\ total \in Amount
  BY DEF Init
<1>2. /\ \A r \in Requests : req[r].at = "idle"
      /\ \A p \in Payments : /\ payment[p].status = None /\ payment[p].charges = 0
                             /\ payment[p].session = "none" /\ ~payment[p].processed
                             /\ payment[p].amount = 0 /\ payment[p].kind = "cash"
      /\ \A f \in Refunds : refund[f].status = None
  BY <1>1 DEF NoRequest, NoPayment, NoRefund
<1>3. KnowsMoney  BY <1>2 DEF KnowsMoney, Reads, Initiating
<1>4. None \notin Charged \cup {"PROCESSING", "COMPLETED"}
  BY NotNone DEF PaymentStatus, Charged
<1>5. RowsSound  BY <1>2, <1>4 DEF RowsSound, RowSound
<1>6. RefundsCount /\ StatusesTell  BY <1>2, <1>4 DEF RefundsCount, StatusesTell, Tells
<1>7. RefundsFit
  <2> SUFFICES ASSUME NEW p \in Payments PROVE Back(p) <= payment[p].amount
    BY DEF RefundsFit
  <2>1. {x \in RefundsOf(p) : refund[x].status = "COMPLETED"} = {}
    BY <1>2, NotNone DEF RefundsOf, RefundStatus
  <2>2. Back(p) = SumFunctionOnSet([f \in Refunds |-> refund[f].amount], {})
    BY <2>1 DEF Back, Refunded
  <2> QED  BY <1>2, <2>2, SumEmpty
<1>8. Claimed = 0
  <2>1. {p \in Payments : payment[p].status \in {"COMPLETED", "PROCESSING"}} = {}
    BY <1>2, <1>4
  <2>2. Claimed = SumFunctionOnSet([p \in Payments |-> payment[p].amount], {})
    BY <2>1 DEF Claimed, PaymentsSum
  <2> QED  BY <2>2, SumEmpty
<1>9. ClaimsFit  BY <1>1, <1>8, MaxTotalAssumption DEF ClaimsFit, Amount
<1>10. Audited  BY <1>1, <1>2 DEF Audited
<1> QED  BY <1>3, <1>5, <1>6, <1>7, <1>9, <1>10 DEF MInv

LEMMA ProceedMoney ==
    ASSUME OneHandler, IInv, IInv', MInv, NEW r \in Requests, Proceed(r)
    PROVE  MInv' /\ TillStep
<1>1. CASE \E p \in Payments : ProcessWrite(r, p)  BY <1>1, ProcessWriteMoney
<1>2. CASE CompleteWrite(r) \/ CompleteHistory(r) \/ ConfirmCodWrite(r)
  BY <1>2, CompleteMoney
<1>3. CASE \E f \in Refunds : RefundWrite(r, f)  BY <1>3, RefundWriteMoney
<1>4. CASE CancelPaymentWrite(r)  BY <1>4, CancelWriteMoney
<1>5. CASE ApproveWrite(r)  BY <1>5, ApproveWriteMoney
<1>6. CASE SessionRead(r) \/ StripeVerify(r) \/ RequestRefundRead(r)
  BY <1>6, WaitMoney
<1>7. CASE StaleWrite(r)  BY <1>7, StaleWriteMoney
<1>8. CASE \E p \in Payments : InitiateWrite(r, p)  BY <1>8, InitiateWriteMoney
<1>9. CASE WebhookWrite(r)  BY <1>9, WebhookMoney
<1>10. CASE StripeWrite(r)  BY <1>10, StripeWriteMoney
<1>11. CASE \E f \in Refunds : RequestRefundWrite(r, f)  BY <1>11, RequestRefundMoney
<1>12. CASE \E t \in Amount : RebillWrite(r, t)  BY <1>12, RebillMoney
<1> QED  BY <1>1, <1>2, <1>3, <1>4, <1>5, <1>6, <1>7, <1>8, <1>9, <1>10, <1>11, <1>12
         DEF Proceed

LEMMA NextMoney == OneHandler /\ IInv /\ MInv /\ [Next]_vars => MInv' /\ TillStep
<1> SUFFICES ASSUME OneHandler, IInv, MInv, [Next]_vars PROVE MInv' /\ TillStep  OBVIOUS
<1>1. IInv'  BY NextSafe
<1>2. ASSUME NEW r \in Requests, Arrive(r) PROVE MInv' /\ TillStep  BY <1>2, ArriveMoney
<1>3. ASSUME NEW r \in Requests, Proceed(r) PROVE MInv' /\ TillStep  BY <1>1, <1>3, ProceedMoney
<1>4. ASSUME NEW r \in Requests, Fail(r) PROVE MInv' /\ TillStep  BY <1>4, FailMoney
<1>5. ASSUME NEW p \in Payments, SessionExpires(p) PROVE MInv' /\ TillStep  BY <1>5, ExpireMoney
<1>6. ASSUME NEW s \in OrderStatus, OrderMoves(s) PROVE MInv' /\ TillStep  BY <1>6, OrderMovesMoney
<1>7. CASE UNCHANGED vars  BY <1>7, StutterMoney
<1> QED  BY <1>2, <1>3, <1>4, <1>5, <1>6, <1>7 DEF Next

LEMMA MoneyInvariance == OneHandler => (Spec => [](IInv /\ MInv))
<1>1. OneHandler /\ Init => IInv /\ MInv  BY InitIInv, InitMoney
<1>2. OneHandler /\ (IInv /\ MInv) /\ [Next]_vars => (IInv /\ MInv)'
  BY NextSafe, NextMoney
<1>3. OneHandler => []OneHandler
  OBVIOUS
<1> QED  BY <1>1, <1>2, <1>3, PTL DEF Spec

\* No payment gives back more than was paid, however staff refund it in parts
\* and customers ask for refunds that wait: true while one handler is in
\* flight and nobody approves a refund that another refund has overtaken.
THEOREM NothingGoesBackTwice ==
    OneHandler /\ (\A m \in Mixes : "approve" \notin m)
        => (Spec => []RefundedWithinAmount)
<1> SUFFICES ASSUME OneHandler, \A m \in Mixes : "approve" \notin m
             PROVE  Spec => []RefundedWithinAmount
  OBVIOUS
<1>1. IInv /\ MInv => RefundedWithinAmount
  BY DEF IInv, TypeOK, MInv, RefundsFit, RefundedWithinAmount, Back
<1> QED  BY <1>1, MoneyInvariance, PTL

\* The status that processRefund and approveRefund compute from the refunds
\* they read before the transaction tells exactly what went back, unless a
\* gateway captures again a payment that was charged: on a return from Stripe
\* Checkout, or by a callback for a payment that staff entered by hand.
THEOREM StatusIsExact ==
    OneHandler /\ (\A m \in Mixes : CapturesOnce(m)) => (Spec => []StatusTellsRefunds)
<1> SUFFICES ASSUME OneHandler, \A m \in Mixes : CapturesOnce(m)
             PROVE  Spec => []StatusTellsRefunds
  OBVIOUS
<1>1. IInv /\ MInv => StatusTellsRefunds
  BY DEF IInv, TypeOK, MInv, StatusesTell, StatusTellsRefunds, Tells, Back
<1> QED  BY <1>1, MoneyInvariance, PTL

\* The handlers of a behaviour are chosen at its start.
LEMMA CallsStay == [Next]_vars => UNCHANGED calls
<1> SUFFICES ASSUME [Next]_vars PROVE UNCHANGED calls  OBVIOUS
<1>1. ASSUME NEW r \in Requests, Arrive(r) PROVE UNCHANGED calls
  BY <1>1 DEF Arrive, rows, ProcessPaid, ProcessRead, RefundRead, CancelPaymentRead,
              ConfirmCodRead, ApproveRead, InitiateRead, WebhookRead, StripeRead,
              RequestRefundEnter, RebillRead
<1>2. ASSUME NEW r \in Requests, Proceed(r) PROVE UNCHANGED calls
  <2>1. CASE \E p \in Payments : ProcessWrite(r, p)  BY <2>1 DEF ProcessWrite
  <2>2. CASE CompleteWrite(r) \/ CompleteHistory(r) \/ ConfirmCodWrite(r)
    BY <2>2 DEF CompleteWrite, CompleteHistory, ConfirmCodWrite
  <2>3. CASE \E f \in Refunds : RefundWrite(r, f)  BY <2>3 DEF RefundWrite
  <2>4. CASE CancelPaymentWrite(r) \/ ApproveWrite(r) \/ StaleWrite(r)
    BY <2>4 DEF CancelPaymentWrite, ApproveWrite, StaleWrite
  <2>5. CASE SessionRead(r) \/ StripeVerify(r) \/ RequestRefundRead(r)
    BY <2>5 DEF SessionRead, StripeVerify, RequestRefundRead, rows
  <2>6. CASE \E p \in Payments : InitiateWrite(r, p)  BY <2>6 DEF InitiateWrite
  <2>7. CASE WebhookWrite(r) \/ StripeWrite(r)  BY <2>7 DEF WebhookWrite, StripeWrite
  <2>8. CASE \E f \in Refunds : RequestRefundWrite(r, f)
    BY <2>8 DEF RequestRefundWrite
  <2>9. CASE \E t \in Amount : RebillWrite(r, t)  BY <2>9 DEF RebillWrite
  <2> QED  BY <1>2, <2>1, <2>2, <2>3, <2>4, <2>5, <2>6, <2>7, <2>8, <2>9 DEF Proceed
<1>3. ASSUME NEW r \in Requests, Fail(r) PROVE UNCHANGED calls
  BY <1>3 DEF Fail, rows
<1>4. CASE \E p \in Payments : SessionExpires(p)  BY <1>4 DEF SessionExpires
<1>5. CASE \E s \in OrderStatus : OrderMoves(s)  BY <1>5 DEF OrderMoves
<1>6. CASE UNCHANGED vars  BY <1>6 DEF vars
<1> QED  BY <1>1, <1>2, <1>3, <1>4, <1>5, <1>6 DEF Next

\* What is collected is part of what is claimed.
LEMMA CollectedIsClaimed == IInv => Collected <= Claimed
<1> SUFFICES ASSUME IInv PROVE Collected <= Claimed  OBVIOUS
<1> DEFINE f == [p \in Payments |-> payment[p].amount]
           A == {p \in Payments : payment[p].status \in {"COMPLETED"}}
           B == {p \in Payments : payment[p].status \in {"COMPLETED", "PROCESSING"}}
<1>1. IsFiniteSet(B) /\ A \in SUBSET B  BY SlotsAssumption, FS_Subset
<1>2. \A p \in B : f[p] \in Nat
  BY MaxTotalAssumption DEF IInv, TypeOK, PaymentRow, Amount
<1>3. Collected = SumFunctionOnSet(f, A) /\ Claimed = SumFunctionOnSet(f, B)
  BY DEF Collected, Claimed, PaymentsSum
<1> HIDE DEF f, A, B
<1> QED  BY <1>1, <1>2, <1>3, SumSubset

\* No payment takes an order above its bill: at the till, where each payment is
\* checked against the bill and what was collected so far, though the bill moves
\* between the payments; and in the web shop, where the gateways may still collect
\* what they were asked for, as long as the bill stays.
THEOREM NothingIsCollectedTwice ==
    OneHandler /\ (\A m \in Mixes : OnlineAlone(m) \/ StaffAlone(m))
        => (Spec => CollectedWithinTotal)
<1> SUFFICES ASSUME OneHandler, \A m \in Mixes : OnlineAlone(m) \/ StaffAlone(m)
             PROVE  Spec => CollectedWithinTotal
  OBVIOUS
<1>1. ASSUME IInv, MInv, [Next]_vars
      PROVE  [Collected' > Collected => Collected' <= total']_vars
  <2> SUFFICES ASSUME Collected' > Collected PROVE Collected' <= total'  OBVIOUS
  <2>1. IInv' /\ MInv' /\ TillStep  BY <1>1, NextSafe, NextMoney
  <2>2. OnlineAlone(calls) \/ StaffAlone(calls)  BY <1>1 DEF IInv, TypeOK
  <2>3. CASE StaffAlone(calls)  BY <2>1, <2>3 DEF TillStep
  <2>4. CASE OnlineAlone(calls)
    <3>1. UNCHANGED calls  BY <1>1, CallsStay
    <3>2. OnlineApart'  BY <2>4, <3>1 DEF OnlineApart, OnlineAlone
    <3>3. Claimed' <= total'  BY <2>1, <3>2 DEF MInv, ClaimsFit
    <3>4. (Collected <= Claimed)'  BY <2>1, CollectedIsClaimed, PTL
    <3>5. (Collected \in Nat /\ Claimed \in Nat)'  BY <2>1, SumsTyped, PTL
    <3>6. total' \in Nat  BY <2>1, MaxTotalAssumption DEF IInv, TypeOK, Amount
    <3> QED  BY <3>3, <3>4, <3>5, <3>6
  <2> QED  BY <2>2, <2>3, <2>4
<1> QED  BY <1>1, MoneyInvariance, PTL DEF Spec, CollectedWithinTotal

\* Where no statement fails, the cashier's three statements leave the audit
\* trail at the status of the order, and an order that staff collected in full
\* closed: only one whose bill is lowered to what was paid stays open.
THEOREM PaidIsClosed == OneHandler /\ ~MayFail => (Spec => PaidIsCompleted)
<1> SUFFICES ASSUME OneHandler, ~MayFail PROVE Spec => PaidIsCompleted
  OBVIOUS
<1>1. ASSUME IInv, MInv, [Next]_vars
      PROVE  [/\ Quiet' => history' = order'
              /\ /\ calls \cap OnlineHandlers = {}
                 /\ Unsettled' /\ ~Unsettled
                 => total' < total]_vars
  <2>1. MInv' /\ TillStep  BY <1>1, NextMoney
  <2>2. Quiet' => history' = order'
    BY <2>1 DEF MInv, Audited, Quiet, Idle
  <2>3. calls \cap OnlineHandlers = {} /\ Unsettled' /\ ~Unsettled => total' < total
    BY <2>1 DEF TillStep, StaffAlone
  <2> QED  BY <2>2, <2>3
<1> QED  BY <1>1, MoneyInvariance, PTL DEF Spec, PaidIsCompleted
=============================================================================
