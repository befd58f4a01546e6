------------------------ MODULE PaymentLedger_proofs ------------------------
(***************************************************************************)
(* Proofs about PaymentLedger for every set of invoices, events and totals. *)
(* The inductive invariant is TypeOK /\ AmountsAgree /\ MoneyLifeCycle:    *)
(* NetFollowsStatus alone is not inductive, because a refund keeps it only  *)
(* if the capture it refunds is known to be of the whole payment.          *)
(***************************************************************************)
EXTENDS PaymentLedger, SumTheorems

\* The invariant of a single invoice, over its three rows.
RowInv(inv, pay, led) ==
  /\ led.issued = IF inv.status = "draft" THEN 0 ELSE inv.total
  /\ pay.amount = IF HasPayment(pay) THEN inv.total ELSE 0
  /\ HasPayment(pay) => pay.amount > 0
  /\ pay.refunded + led.refunded = 0
  /\ \/ /\ inv.status # "paid" /\ led.captured = 0 /\ pay.refunded = 0 /\ pay.intent = None
        /\ HasPayment(pay) => inv.status = "issued"
     \/ /\ HasPayment(pay) /\ led.captured = pay.amount
        /\ \/ inv.status = "paid" /\ pay.refunded < pay.amount
           \/ inv.status = "issued" /\ pay.refunded = pay.amount
     \/ /\ HasPayment(pay) /\ led.captured = 2 * pay.amount
        /\ inv.status = "paid" /\ pay.refunded = pay.amount

\* What a step may do to the rows of a single invoice.
RowStep(inv, pay, led, inv2, pay2, led2) ==
  /\ (inv.status # "paid" /\ inv2.status = "paid")
       <=> (led2.captured = led.captured + pay.amount /\ HasPayment(pay))
  /\ (inv.status = "paid" /\ inv2.status # "paid")
       => (inv2.status = "issued" /\ pay.refunded < pay.amount /\ pay2.refunded = pay.amount)
  /\ HasPayment(pay) => pay2.link = pay.link /\ pay2.amount = pay.amount
  /\ pay.intent # None => pay2.intent = pay.intent
  /\ inv.status # "draft" => inv2.total = inv.total /\ inv2.status # "draft"
  /\ led2.captured >= led.captured
  /\ led2.refunded <= led.refunded

IInv == TypeOK /\ \A i \in Invoices : RowInv(invoice[i], payment[i], ledger[i])

\* RowInv of every invoice is what AmountsAgree and MoneyLifeCycle say.
LEMMA RowInvMeaning ==
  (\A i \in Invoices : RowInv(invoice[i], payment[i], ledger[i]))
    <=> AmountsAgree /\ MoneyLifeCycle
  BY DEF AmountsAgree, MoneyLifeCycle, RowInv

\* The initial state is typed and no invoice has a payment or an entry.
LEMMA InitIInv == Init => IInv
  <1> SUFFICES ASSUME Init PROVE IInv
    OBVIOUS
  <1>1. invoice \in [Invoices -> InvoiceRow]
    BY TotalsAssumption DEF Init, InvoiceRow
  <1>2. payment \in [Invoices -> PaymentRow]
    BY DEF Init, PaymentRow, NoPayment
  <1>3. ledger \in [Invoices -> LedgerRow]
    BY DEF Init, LedgerRow, EmptyLedger
  <1>4. ASSUME NEW i \in Invoices
        PROVE  RowInv(invoice[i], payment[i], ledger[i])
    <2>1. payment[i] = NoPayment /\ ledger[i] = EmptyLedger /\ invoice[i].status = "draft"
      BY DEF Init
    <2>2. QED
      BY <2>1 DEF RowInv, HasPayment, NoPayment, EmptyLedger
  <1>5. QED
    BY <1>1, <1>2, <1>3, <1>4 DEF IInv, Init, TypeOK

RowSteps ==
  \A i \in Invoices :
    RowStep(invoice[i], payment[i], ledger[i], invoice'[i], payment'[i], ledger'[i])

\* A step that leaves the rows of an invoice alone.
LEMMA SameRows ==
  ASSUME NEW inv \in InvoiceRow, NEW pay \in PaymentRow, NEW led \in LedgerRow,
         RowInv(inv, pay, led)
  PROVE  RowStep(inv, pay, led, inv, pay, led)
  BY DEF RowStep, RowInv, InvoiceRow, PaymentRow, LedgerRow
-----------------------------------------------------------------------------
(***************************************************************************)
(* One lemma per action.  An action changes the rows of one invoice only,  *)
(* so it is enough to show RowInv of the rows it writes.                   *)
(***************************************************************************)

\* What holds of the rows of an invoice in a state of the invariant.
LEMMA RowFacts ==
  ASSUME IInv, NEW i \in Invoices
  PROVE  /\ invoice[i] \in InvoiceRow /\ payment[i] \in PaymentRow /\ ledger[i] \in LedgerRow
         /\ RowInv(invoice[i], payment[i], ledger[i])
  BY DEF IInv, TypeOK

\* Writing typed rows of one invoice that satisfy RowInv keeps the invariant.
LEMMA RowWrite ==
  ASSUME IInv, NEW i \in Invoices,
         NEW inv \in InvoiceRow, NEW pay \in PaymentRow, NEW led \in LedgerRow,
         invoice' = [invoice EXCEPT ![i] = inv],
         payment' = [payment EXCEPT ![i] = pay],
         ledger' = [ledger EXCEPT ![i] = led],
         refunds' \in SUBSET RefundRow,
         RowInv(inv, pay, led),
         RowStep(invoice[i], payment[i], ledger[i], inv, pay, led)
  PROVE  IInv' /\ RowSteps
  <1>1. TypeOK'
    BY DEF IInv, TypeOK
  <1>2. ASSUME NEW j \in Invoices
        PROVE  /\ RowInv(invoice'[j], payment'[j], ledger'[j])
               /\ RowStep(invoice[j], payment[j], ledger[j],
                          invoice'[j], payment'[j], ledger'[j])
    <2>1. CASE j = i
      BY <2>1 DEF IInv, TypeOK
    <2>2. CASE j # i
      <3>1. invoice'[j] = invoice[j] /\ payment'[j] = payment[j] /\ ledger'[j] = ledger[j]
        BY <2>2 DEF IInv, TypeOK
      <3>2. QED
        BY <3>1, RowFacts, SameRows
    <2>3. QED
      BY <2>1, <2>2
  <1>3. QED
    BY <1>1, <1>2 DEF IInv, RowSteps

\* Line items change the total of a draft, which has no payment and no entries.
LEMMA PatchDraftInv ==
  ASSUME IInv, NEW i \in Invoices, NEW total \in Totals, PatchDraft(i, total)
  PROVE  IInv' /\ RowSteps
  <1> DEFINE inv == [invoice[i] EXCEPT !.total = total]
  <1>1. invoice[i] \in InvoiceRow /\ RowInv(invoice[i], payment[i], ledger[i])
        /\ payment[i] \in PaymentRow /\ ledger[i] \in LedgerRow
    BY RowFacts
  <1>2. inv \in InvoiceRow /\ inv.total = total /\ inv.status = "draft"
    BY <1>1, TotalsAssumption DEF InvoiceRow, PatchDraft
  <1>3. /\ RowInv(inv, payment[i], ledger[i])
        /\ RowStep(invoice[i], payment[i], ledger[i], inv, payment[i], ledger[i])
    <2> HIDE DEF inv
    <2>1. invoice[i].status = "draft"
      BY DEF PatchDraft
    <2>2. QED
      BY <1>1, <1>2, <2>1 DEF RowInv, RowStep, InvoiceRow, PaymentRow, LedgerRow
  <1>4. /\ invoice' = [invoice EXCEPT ![i] = inv]
        /\ payment' = [payment EXCEPT ![i] = payment[i]]
        /\ ledger' = [ledger EXCEPT ![i] = ledger[i]]
        /\ refunds' \in SUBSET RefundRow
    BY DEF PatchDraft, IInv, TypeOK
  <1> HIDE DEF inv
  <1>5. QED
    BY <1>1, <1>2, <1>3, <1>4, RowWrite

\* Sending moves a draft to issued and puts its total on the ledger.
LEMMA SendInvoiceInv ==
  ASSUME IInv, NEW i \in Invoices, SendInvoice(i)
  PROVE  IInv' /\ RowSteps
  <1> DEFINE inv == [invoice[i] EXCEPT !.status = "issued"]
             led == [ledger[i] EXCEPT !.issued = @ + invoice[i].total]
  <1>1. /\ invoice[i] \in InvoiceRow /\ invoice[i].status = "draft"
        /\ payment[i] \in PaymentRow /\ ledger[i] \in LedgerRow
        /\ RowInv(invoice[i], payment[i], ledger[i])
    BY RowFacts DEF SendInvoice
  <1>2. /\ inv \in InvoiceRow /\ inv.total = invoice[i].total /\ inv.status = "issued"
        /\ led \in LedgerRow /\ led.issued = ledger[i].issued + invoice[i].total
        /\ led.captured = ledger[i].captured /\ led.refunded = ledger[i].refunded
    BY <1>1 DEF InvoiceRow, LedgerRow
  <1>3. /\ invoice' = [invoice EXCEPT ![i] = inv]
        /\ payment' = [payment EXCEPT ![i] = payment[i]]
        /\ ledger' = [ledger EXCEPT ![i] = led]
        /\ refunds' \in SUBSET RefundRow
    BY DEF SendInvoice, IInv, TypeOK
  <1> HIDE DEF inv, led
  <1>4. /\ RowInv(inv, payment[i], led)
        /\ RowStep(invoice[i], payment[i], ledger[i], inv, payment[i], led)
    BY <1>1, <1>2 DEF RowInv, RowStep, InvoiceRow, PaymentRow, LedgerRow
  <1>5. QED
    BY <1>1, <1>2, <1>3, <1>4, RowWrite

\* A payment link is created for the total that was sent, with nothing captured.
LEMMA CreatePaymentLinkInv ==
  ASSUME IInv, NEW i \in Invoices, CreatePaymentLink(i)
  PROVE  IInv' /\ RowSteps
  <1> DEFINE pay == NewPayment(i, invoice[i])
  <1>1. /\ invoice[i] \in InvoiceRow /\ invoice[i].status = "issued" /\ invoice[i].total > 0
        /\ payment[i] \in PaymentRow /\ ledger[i] \in LedgerRow /\ ~HasPayment(payment[i])
        /\ RowInv(invoice[i], payment[i], ledger[i])
    BY RowFacts DEF CreatePaymentLink
  <1>2. /\ pay \in PaymentRow /\ pay.link # None /\ pay.amount = invoice[i].total
        /\ pay.refunded = 0 /\ pay.intent = None
    <2>1. LinkOf[i] \in Links /\ LinkOf[i] # None
      BY RowAssumptions
    <2>2. QED
      BY <1>1, <2>1 DEF NewPayment, PaymentRow, InvoiceRow
  <1>3. /\ invoice' = [invoice EXCEPT ![i] = invoice[i]]
        /\ payment' = [payment EXCEPT ![i] = pay]
        /\ ledger' = [ledger EXCEPT ![i] = ledger[i]]
        /\ refunds' \in SUBSET RefundRow
    BY DEF CreatePaymentLink, IInv, TypeOK
  <1> HIDE DEF pay
  <1>4. /\ RowInv(invoice[i], pay, ledger[i])
        /\ RowStep(invoice[i], payment[i], ledger[i], invoice[i], pay, ledger[i])
    BY <1>1, <1>2 DEF RowInv, RowStep, InvoiceRow, LedgerRow, HasPayment
  <1>5. QED
    BY <1>1, <1>2, <1>3, <1>4, RowWrite

\* A capture is of the whole payment: the invoice goes from never paid to paid,
\* or from refunded in full to paid a second time.
LEMMA ReconcileInv ==
  ASSUME IInv, NEW i \in Invoices, NEW e \in Events, ReconcileStripePaymentPaid(i, e)
  PROVE  IInv' /\ RowSteps
  <1> DEFINE inv == [invoice[i] EXCEPT !.status = "paid"]
             pay == CaptureOn(payment[i], e)
             led == [ledger[i] EXCEPT !.captured = @ + payment[i].amount]
  <1>1. /\ invoice[i] \in InvoiceRow /\ invoice[i].status = "issued" /\ HasPayment(payment[i])
        /\ payment[i] \in PaymentRow /\ ledger[i] \in LedgerRow
        /\ RowInv(invoice[i], payment[i], ledger[i])
    BY RowFacts DEF ReconcileStripePaymentPaid, AcceptsPaid
  <1>2. e.intent \in PaymentIntents \cup {None}
    BY RowAssumptions DEF Event
  <1>3. /\ inv \in InvoiceRow /\ inv.total = invoice[i].total /\ inv.status = "paid"
        /\ led \in LedgerRow /\ led.issued = ledger[i].issued
        /\ led.captured = ledger[i].captured + payment[i].amount
        /\ led.refunded = ledger[i].refunded
    BY <1>1 DEF InvoiceRow, LedgerRow, PaymentRow
  <1>4. /\ pay \in PaymentRow /\ pay.link = payment[i].link /\ pay.amount = payment[i].amount
        /\ pay.refunded = payment[i].refunded
        /\ payment[i].intent # None => pay.intent = payment[i].intent
    BY <1>1, <1>2 DEF CaptureOn, PaymentRow
  <1>5. /\ invoice' = [invoice EXCEPT ![i] = inv]
        /\ payment' = [payment EXCEPT ![i] = pay]
        /\ ledger' = [ledger EXCEPT ![i] = led]
        /\ refunds' \in SUBSET RefundRow
    BY DEF ReconcileStripePaymentPaid, IInv, TypeOK
  <1> HIDE DEF inv, pay, led
  <1>6. RowInv(inv, pay, led)
    BY <1>1, <1>3, <1>4 DEF RowInv, InvoiceRow, PaymentRow, LedgerRow, HasPayment
  <1>7. RowStep(invoice[i], payment[i], ledger[i], inv, pay, led)
    <2>1. led.captured >= ledger[i].captured /\ led.refunded <= ledger[i].refunded
      BY <1>1, <1>3 DEF PaymentRow, LedgerRow
    <2>2. QED
      BY <1>1, <1>3, <1>4, <2>1 DEF RowStep
  <1>8. QED
    BY <1>3, <1>4, <1>5, <1>6, <1>7, RowWrite

\* A refund within the balance: only a paid invoice has an intent to match and
\* something left to refund, and completing the refund reopens it.
LEMMA ApplyRefundInv ==
  ASSUME IInv, NEW i \in Invoices, NEW e \in Events, ApplyStripeRefund(i, e)
  PROVE  IInv' /\ RowSteps
  <1> DEFINE pay == RefundOn(payment[i], e)
             led == [ledger[i] EXCEPT !.refunded = @ - e.amount]
             inv == [invoice[i] EXCEPT !.status =
                       IF Reopens(invoice[i], payment[i], e) THEN "issued" ELSE @]
             row == [refund |-> e.refund, invoice |-> i, amount |-> e.amount]
  <1>1. /\ invoice[i] \in InvoiceRow /\ payment[i] \in PaymentRow /\ ledger[i] \in LedgerRow
        /\ RowInv(invoice[i], payment[i], ledger[i])
    BY RowFacts
  <1>2. /\ e.amount \in Nat /\ e.amount > 0 /\ e.refund \in RefundIds
        /\ payment[i].intent # None
        /\ e.amount <= payment[i].amount - payment[i].refunded
    <2>1. e \in Event /\ e.refund # None /\ e.amount > 0
      BY RowAssumptions DEF ApplyStripeRefund, IsRefund
    <2>2. payment[i].intent = e.intent /\ e.intent # None
      BY DEF ApplyStripeRefund, AcceptsRefund, MatchesIntent
    <2>3. ~(e.amount > payment[i].amount - payment[i].refunded)
      BY DEF ApplyStripeRefund, AcceptsRefund, RefundError, Remaining
    <2>4. e.amount \in Nat /\ e.refund \in RefundIds \cup {None}
      BY <2>1 DEF Event
    <2>5. QED
      BY <1>1, <2>1, <2>2, <2>3, <2>4 DEF PaymentRow
  <1>3. /\ pay \in PaymentRow /\ pay.link = payment[i].link /\ pay.amount = payment[i].amount
        /\ pay.refunded = payment[i].refunded + e.amount /\ pay.intent = payment[i].intent
    BY <1>1, <1>2 DEF RefundOn, PaymentRow
  <1>4. /\ led \in LedgerRow /\ led.issued = ledger[i].issued
        /\ led.captured = ledger[i].captured
        /\ led.refunded = ledger[i].refunded - e.amount
    BY <1>1, <1>2 DEF LedgerRow
  <1>5. /\ inv \in InvoiceRow /\ inv.total = invoice[i].total
        /\ inv.status = IF invoice[i].status = "paid" /\ pay.refunded >= payment[i].amount
                        THEN "issued" ELSE invoice[i].status
    BY <1>1 DEF InvoiceRow, Reopens
  <1>6. row \in RefundRow
    BY <1>2 DEF RefundRow
  <1>7. /\ invoice' = [invoice EXCEPT ![i] = inv]
        /\ payment' = [payment EXCEPT ![i] = pay]
        /\ ledger' = [ledger EXCEPT ![i] = led]
        /\ refunds' \in SUBSET RefundRow
    BY <1>6 DEF ApplyStripeRefund, IInv, TypeOK
  <1> HIDE DEF inv, pay, led, row
  <1>8. /\ RowInv(inv, pay, led)
        /\ RowStep(invoice[i], payment[i], ledger[i], inv, pay, led)
    <2>1. /\ invoice[i].status = "paid" /\ HasPayment(payment[i])
          /\ ledger[i].captured = payment[i].amount
          /\ payment[i].refunded < payment[i].amount
      BY <1>1, <1>2 DEF RowInv, PaymentRow
    <2>2. RowInv(inv, pay, led)
      BY <1>1, <1>2, <1>3, <1>4, <1>5, <2>1
      DEF RowInv, InvoiceRow, PaymentRow, LedgerRow, HasPayment
    <2>3. /\ payment[i].amount > 0 /\ led.captured # led.captured + payment[i].amount
          /\ led.refunded <= ledger[i].refunded
          /\ inv.status # "draft"
          /\ inv.status # "paid" => inv.status = "issued" /\ pay.refunded = payment[i].amount
      BY <1>1, <1>2, <1>3, <1>4, <1>5, <2>1
      DEF RowInv, InvoiceRow, PaymentRow, LedgerRow
    <2>4. RowStep(invoice[i], payment[i], ledger[i], inv, pay, led)
      BY <1>1, <1>3, <1>4, <1>5, <2>1, <2>3 DEF RowStep, LedgerRow
    <2>5. QED
      BY <2>2, <2>4
  <1>9. QED
    BY <1>3, <1>4, <1>5, <1>7, <1>8, RowWrite

\* A failure code is not money.
LEMMA RecordFailureInv ==
  ASSUME IInv, NEW i \in Invoices, NEW e \in Events, RecordStripePaymentFailure(i, e)
  PROVE  IInv' /\ RowSteps
  <1> DEFINE pay == FailureOn(payment[i], e)
  <1>1. /\ invoice[i] \in InvoiceRow /\ payment[i] \in PaymentRow /\ ledger[i] \in LedgerRow
        /\ RowInv(invoice[i], payment[i], ledger[i])
    BY RowFacts
  <1>2. e.code \in FailureCodes \cup {None}
    BY RowAssumptions DEF Event
  <1>3. /\ pay \in PaymentRow /\ pay.link = payment[i].link /\ pay.amount = payment[i].amount
        /\ pay.refunded = payment[i].refunded /\ pay.intent = payment[i].intent
    BY <1>1, <1>2 DEF FailureOn, PaymentRow
  <1>4. /\ invoice' = [invoice EXCEPT ![i] = invoice[i]]
        /\ payment' = [payment EXCEPT ![i] = pay]
        /\ ledger' = [ledger EXCEPT ![i] = ledger[i]]
        /\ refunds' \in SUBSET RefundRow
    BY DEF RecordStripePaymentFailure, IInv, TypeOK
  <1> HIDE DEF pay
  <1>5. /\ RowInv(invoice[i], pay, ledger[i])
        /\ RowStep(invoice[i], payment[i], ledger[i], invoice[i], pay, ledger[i])
    BY <1>1, <1>3 DEF RowInv, RowStep, InvoiceRow, PaymentRow, LedgerRow, HasPayment
  <1>6. QED
    BY <1>1, <1>3, <1>4, <1>5, RowWrite
-----------------------------------------------------------------------------
(***************************************************************************)
(* The invariant and what follows from it.                                 *)
(***************************************************************************)

\* Every step keeps the invariant and is a RowStep of every invoice: one case
\* per action.
LEMMA StepIInv == IInv /\ [Next]_vars => IInv' /\ RowSteps
  <1> SUFFICES ASSUME IInv, [Next]_vars PROVE IInv' /\ RowSteps
    OBVIOUS
  <1>1. CASE Next
    <2>1. PICK i \in Invoices :
            \/ \E total \in Totals : PatchDraft(i, total)
            \/ SendInvoice(i)
            \/ CreatePaymentLink(i)
            \/ \E e \in Events : ReconcileStripePaymentPaid(i, e)
            \/ \E e \in Events : ApplyStripeRefund(i, e)
            \/ \E e \in Events : RecordStripePaymentFailure(i, e)
      BY <1>1 DEF Next
    <2>2. QED
      BY <2>1, PatchDraftInv, SendInvoiceInv, CreatePaymentLinkInv, ReconcileInv,
         ApplyRefundInv, RecordFailureInv
  <1>2. CASE UNCHANGED vars
    <2>1. IInv'
      BY <1>2 DEF vars, IInv, TypeOK
    <2>2. RowSteps
      BY <1>2, RowFacts, SameRows DEF vars, RowSteps
    <2>3. QED
      BY <2>1, <2>2
  <1>3. QED
    BY <1>1, <1>2

\* The inductive invariant holds in every reachable state.
LEMMA SpecIInv == Spec => []IInv
  BY InitIInv, StepIInv, PTL DEF Spec

-----------------------------------------------------------------------------
(***************************************************************************)
(* Refund rows.  The sum of the rows of an invoice is not in IInv: it is   *)
(* kept on its own, by the refunded amounts the actions leave alone and by *)
(* the refund id that ApplyStripeRefund finds to be new.                   *)
(***************************************************************************)
RowsOf(i) == {r \in refunds : r.invoice = i}

RefundInv ==
  /\ IsFiniteSet(refunds)
  /\ \A i \in Invoices : payment[i].refunded = SumFunction([r \in RowsOf(i) |-> r.amount])

\* There is no refund at first, and no payment.
LEMMA InitRefundInv == Init => RefundInv
<1> SUFFICES ASSUME Init PROVE RefundInv
  OBVIOUS
<1>1. IsFiniteSet(refunds)
  BY FS_EmptySet DEF Init
<1>2. ASSUME NEW i \in Invoices
      PROVE  payment[i].refunded = SumFunction([r \in RowsOf(i) |-> r.amount])
  <2>1. DOMAIN [r \in RowsOf(i) |-> r.amount] = {}
    BY DEF Init, RowsOf
  <2>2. SumFunction([r \in RowsOf(i) |-> r.amount]) = 0
    BY <2>1, SumOfNothing
  <2>3. payment[i].refunded = 0
    BY DEF Init, NoPayment
  <2> QED BY <2>2, <2>3
<1> QED BY <1>1, <1>2 DEF RefundInv

\* A step that writes no refund row and no refunded amount.
LEMMA RefundsStay ==
  ASSUME RefundInv, refunds' = refunds,
         \A i \in Invoices : payment'[i].refunded = payment[i].refunded
  PROVE  RefundInv'
<1>1. \A i \in Invoices : RowsOf(i)' = RowsOf(i)
  BY DEF RowsOf
<1> QED BY <1>1 DEF RefundInv

\* A refund adds a row to those of its invoice and its amount to their sum.
LEMMA ApplyRefundRows ==
  ASSUME IInv, RefundInv, NEW i \in Invoices, NEW e \in Events, ApplyStripeRefund(i, e)
  PROVE  RefundInv'
<1> DEFINE row == [refund |-> e.refund, invoice |-> i, amount |-> e.amount]
           before(j) == [r \in RowsOf(j) |-> r.amount]
           after(j) == [r \in RowsOf(j)' |-> r.amount]
<1>1. /\ refunds' = refunds \cup {row} /\ row \notin refunds
      /\ row.invoice = i /\ row.amount = e.amount
  BY DEF ApplyStripeRefund, AcceptsRefund, RefundSeen
<1>2. /\ refunds \subseteq RefundRow /\ e.amount \in Nat
      /\ payment \in [Invoices -> PaymentRow]
  BY RowAssumptions DEF IInv, TypeOK, Event
<1> HIDE DEF row
<1>3. IsFiniteSet(refunds')
  BY <1>1, FS_AddElement DEF RefundInv
<1>4. ASSUME NEW j \in Invoices PROVE payment'[j].refunded = SumFunction(after(j))
  <2>1. payment[j].refunded = SumFunction(before(j))
    BY DEF RefundInv
  <2>2. CASE j # i
    <3>1. payment'[j] = payment[j] /\ RowsOf(j)' = RowsOf(j)
      BY <1>1, <1>2, <2>2 DEF ApplyStripeRefund, RowsOf
    <3> QED BY <2>1, <3>1
  <2>3. CASE j = i
    <3>1. payment'[i].refunded = payment[i].refunded + e.amount
      BY <1>2 DEF ApplyStripeRefund, RefundOn, PaymentRow
    <3>2. RowsOf(i)' = RowsOf(i) \cup {row} /\ row \notin RowsOf(i)
      BY <1>1 DEF RowsOf
    <3>3. IsFiniteSet(RowsOf(i)) /\ \A r \in RowsOf(i) : r.amount \in Nat
      BY <1>2, FS_Subset DEF RefundInv, RowsOf, RefundRow
    <3>4. SumFunction(after(i)) = e.amount + SumFunction(before(i))
      <4> DEFINE rows == RowsOf(i)
                 f == before(i)
                 g == after(i)
      <4>1. /\ DOMAIN f = rows /\ DOMAIN g = rows \cup {row}
            /\ \A r \in rows : g[r] = f[r] /\ g[r] \in Int
            /\ g[row] = e.amount
        BY <1>1, <3>2, <3>3
      <4>2. IsFiniteSet(rows) /\ row \notin rows /\ \A r \in rows \cup {row} : g[r] \in Int
        BY <1>2, <3>2, <3>3, <4>1
      <4> HIDE DEF rows, f, g
      <4>3. SumFunction(g) = g[row] + SumFunction(f)
        BY <4>1, <4>2, SumOfMore
      <4> QED BY <4>1, <4>3 DEF f, g
    <3>5. payment[i].refunded \in Nat
      BY <1>2 DEF PaymentRow
    <3> QED BY <1>2, <2>1, <2>3, <3>1, <3>4, <3>5
  <2> QED BY <2>2, <2>3
<1> QED BY <1>3, <1>4 DEF RefundInv

\* Every step keeps the refund rows and the payment in balance.
LEMMA StepRefundInv == IInv /\ RefundInv /\ [Next]_vars => RefundInv'
<1> SUFFICES ASSUME IInv, RefundInv, [Next]_vars PROVE RefundInv'
  OBVIOUS
<1>1. payment \in [Invoices -> PaymentRow]
  BY DEF IInv, TypeOK
<1>2. ASSUME NEW i \in Invoices,
             \/ \E total \in Totals : PatchDraft(i, total)
             \/ SendInvoice(i)
      PROVE  RefundInv'
  BY <1>2, RefundsStay DEF PatchDraft, SendInvoice
<1>3. ASSUME NEW i \in Invoices, CreatePaymentLink(i) PROVE RefundInv'
  <2>1. payment[i].refunded = 0
    BY <1>3, RowFacts DEF CreatePaymentLink, RowInv
  <2>2. \A j \in Invoices : payment'[j].refunded = payment[j].refunded
    BY <1>1, <1>3, <2>1 DEF CreatePaymentLink, NewPayment
  <2> QED BY <1>3, <2>2, RefundsStay DEF CreatePaymentLink
<1>4. ASSUME NEW i \in Invoices, NEW e \in Events,
             ReconcileStripePaymentPaid(i, e) \/ RecordStripePaymentFailure(i, e)
      PROVE  RefundInv'
  <2>1. CaptureOn(payment[i], e).refunded = payment[i].refunded
        /\ FailureOn(payment[i], e).refunded = payment[i].refunded
    BY <1>1 DEF CaptureOn, FailureOn, PaymentRow
  <2>2. \A j \in Invoices : payment'[j].refunded = payment[j].refunded
    BY <1>1, <1>4, <2>1 DEF ReconcileStripePaymentPaid, RecordStripePaymentFailure
  <2> QED BY <1>4, <2>2, RefundsStay DEF ReconcileStripePaymentPaid, RecordStripePaymentFailure
<1>5. CASE UNCHANGED vars
  BY <1>5, RefundsStay DEF vars
<1> QED BY <1>2, <1>3, <1>4, <1>5, ApplyRefundRows DEF Next

\* The rows and the payment are always in balance.
LEMMA SpecRefundInv == Spec => []RefundInv
BY InitRefundInv, StepRefundInv, SpecIInv, PTL, InitIInv DEF Spec
-----------------------------------------------------------------------------
(***************************************************************************)
(* What PaymentLedger promises.                                            *)
(***************************************************************************)

\* The rows keep their types, for every set of invoices and events.
THEOREM TypeCorrect == Spec => []TypeOK
  <1>1. IInv => TypeOK
    BY DEF IInv
  <1>2. QED
    BY <1>1, SpecIInv, PTL

\* Line items, send and payment link agree about the amount of an invoice.
THEOREM AmountsAlwaysAgree == Spec => []AmountsAgree
  <1>1. IInv => AmountsAgree
    BY RowInvMeaning DEF IInv
  <1>2. QED
    BY <1>1, SpecIInv, PTL

\* The money life of an invoice has the four phases of MoneyLifeCycle and no other.
THEOREM MoneyLifeCycleAlways == Spec => []MoneyLifeCycle
  <1>1. IInv => MoneyLifeCycle
    BY RowInvMeaning DEF IInv
  <1>2. QED
    BY <1>1, SpecIInv, PTL

\* The cash the ledger holds for an invoice always fits the status column:
\* none unless the invoice is paid, and between 1 and its total when it is.
THEOREM NetAlwaysFollowsStatus == Spec => []NetFollowsStatus
  <1>1. IInv => NetFollowsStatus
    <2> SUFFICES ASSUME IInv, NEW i \in Invoices
                 PROVE  /\ invoice[i].status # "paid" => Net(i) = 0
                        /\ invoice[i].status = "paid" => Net(i) \in 1 .. invoice[i].total
      BY DEF NetFollowsStatus
    <2>1. /\ invoice[i] \in InvoiceRow /\ payment[i] \in PaymentRow /\ ledger[i] \in LedgerRow
          /\ RowInv(invoice[i], payment[i], ledger[i])
      BY RowFacts
    <2>2. Net(i) = ledger[i].captured - payment[i].refunded
      BY <2>1 DEF Net, RowInv, PaymentRow, LedgerRow
    <2>3. QED
      BY <2>1, <2>2 DEF RowInv, InvoiceRow, PaymentRow, LedgerRow
  <1>2. QED
    BY <1>1, SpecIInv, PTL

\* The refund rows of a payment, its refunded amount and the ledger always agree,
\* and together they never exceed the payment (ApplyStripeRefund).
THEOREM RefundsAlwaysBalance == Spec => []RefundsBalance
  <1>1. IInv /\ RefundInv => RefundsBalance
    <2> SUFFICES ASSUME IInv, RefundInv, NEW i \in Invoices
                 PROVE  /\ payment[i].refunded
                             = SumFunction([r \in {r \in refunds : r.invoice = i} |-> r.amount])
                        /\ payment[i].refunded + ledger[i].refunded = 0
                        /\ payment[i].refunded <= payment[i].amount
      BY DEF RefundsBalance
    <2>1. payment[i].refunded = SumFunction([r \in {r \in refunds : r.invoice = i} |-> r.amount])
      BY DEF RefundInv, RowsOf
    <2>2. /\ payment[i] \in PaymentRow /\ ledger[i] \in LedgerRow
          /\ RowInv(invoice[i], payment[i], ledger[i])
      BY RowFacts
    <2>3. payment[i].refunded <= payment[i].amount
      BY <2>2 DEF RowInv, PaymentRow, LedgerRow, HasPayment
    <2> QED BY <2>1, <2>2, <2>3 DEF RowInv
  <1>2. QED
    BY <1>1, SpecIInv, SpecRefundInv, PTL

\* The captures of an invoice are its payment once while it is paid, and once more
\* when the payment has been refunded in full.
LEMMA CapturedShares ==
  ASSUME IInv, NEW i \in Invoices, NEW P, NEW F, NEW amounts,
         i \in P <=> invoice[i].status = "paid",
         i \in F <=> HasPayment(payment[i]) /\ payment[i].refunded = payment[i].amount,
         amounts[i] = payment[i].amount
  PROVE  ledger[i].captured = Share(amounts, P, i) + Share(amounts, F, i)
<1>1. /\ payment[i] \in PaymentRow /\ ledger[i] \in LedgerRow
      /\ RowInv(invoice[i], payment[i], ledger[i])
  BY RowFacts
<1>2. CASE ~HasPayment(payment[i])
  <2>1. ledger[i].captured = 0 /\ invoice[i].status # "paid"
    BY <1>1, <1>2 DEF RowInv
  <2> QED BY <1>2, <2>1 DEF Share
<1>3. CASE HasPayment(payment[i])
  <2>1. payment[i].amount > 0 /\ payment[i].amount \in Int /\ ledger[i].captured \in Int
    BY <1>1, <1>3 DEF RowInv, PaymentRow, LedgerRow
  <2>2. CASE invoice[i].status # "paid" /\ ledger[i].captured = 0 /\ payment[i].refunded = 0
    BY <1>3, <2>1, <2>2 DEF Share
  <2>3. CASE /\ ledger[i].captured = payment[i].amount
             /\ \/ invoice[i].status = "paid" /\ payment[i].refunded < payment[i].amount
                \/ invoice[i].status = "issued" /\ payment[i].refunded = payment[i].amount
    <3>1. invoice[i].status = "paid" <=> payment[i].refunded # payment[i].amount
      BY <1>1, <2>3 DEF PaymentRow
    <3> QED BY <1>3, <2>1, <2>3, <3>1 DEF Share
  <2>4. CASE /\ ledger[i].captured = 2 * payment[i].amount
             /\ invoice[i].status = "paid" /\ payment[i].refunded = payment[i].amount
    BY <1>3, <2>1, <2>4 DEF Share
  <2> QED BY <1>1, <2>2, <2>3, <2>4 DEF RowInv
<1> QED BY <1>2, <1>3

\* For any finite number of invoices, in any mix of currencies, the drift that
\* GetReconciliationSummary reports is the amount of the payments that were refunded
\* in full, to the minor unit.
THEOREM DriftIsAlwaysFullRefunds ==
  ASSUME IsFiniteSet(Invoices)
  PROVE  Spec => []DriftIsFullRefunds
<1>1. IInv => DriftIsFullRefunds
  <2> SUFFICES ASSUME IInv, NEW c \in Currencies
               PROVE  Drift(c) = SumFunctionOnSet([i \in Invoices |-> payment[i].amount],
                        {i \in Invoices : CurrencyOf[i] = c /\ HasPayment(payment[i])
                                           /\ payment[i].refunded = payment[i].amount})
    BY DEF DriftIsFullRefunds
  <2> DEFINE S == {i \in Invoices : CurrencyOf[i] = c}
             P == {i \in S : invoice[i].status = "paid"}
             F == {i \in Invoices : CurrencyOf[i] = c /\ HasPayment(payment[i])
                                     /\ payment[i].refunded = payment[i].amount}
             amounts == [i \in Invoices |-> payment[i].amount]
             captures == [i \in Invoices |-> ledger[i].captured]
  <2>1. IsFiniteSet(S) /\ P \in SUBSET S /\ F \in SUBSET S
    BY FS_Subset
  <2>2. ASSUME NEW i \in S
        PROVE  amounts[i] \in Int /\ captures[i] = Share(amounts, P, i) + Share(amounts, F, i)
    <3>1. /\ i \in Invoices
          /\ i \in P <=> invoice[i].status = "paid"
          /\ i \in F <=> HasPayment(payment[i]) /\ payment[i].refunded = payment[i].amount
          /\ amounts[i] = payment[i].amount /\ captures[i] = ledger[i].captured
      OBVIOUS
    <3>2. payment[i].amount \in Int
      BY <3>1, RowFacts DEF PaymentRow
    <3> HIDE DEF S, P, F, amounts, captures
    <3> QED BY <3>1, <3>2, CapturedShares
  <2>3. Drift(c) = SumFunctionOnSet(captures, S) - SumFunctionOnSet(amounts, P)
    BY DEF Drift
  <2>4. \A i \in P : amounts[i] \in Int
    BY <2>1, <2>2
  <2>5. \A i \in F : amounts[i] \in Int
    BY <2>1, <2>2
  <2>6. IsFiniteSet(P) /\ IsFiniteSet(F)
    BY <2>1, FS_Subset
  <2> HIDE DEF S, P, F, amounts, captures
  <2>7. SumFunctionOnSet(amounts, P) \in Int /\ SumFunctionOnSet(amounts, F) \in Int
    BY <2>4, <2>5, <2>6, SumType
  <2>8. SumFunctionOnSet(captures, S) = SumFunctionOnSet(amounts, P) + SumFunctionOnSet(amounts, F)
    <3>1. Apportioned(amounts, captures, S, P, F)
      BY <2>2 DEF Apportioned
    <3> QED BY <2>1, <3>1, SumOfParts
  <2>9. Drift(c) = SumFunctionOnSet(amounts, F)
    BY <2>3, <2>7, <2>8
  <2> QED BY <2>9 DEF F, amounts
<1> QED BY <1>1, SpecIInv, PTL

\* In every behaviour status and money move in the same step.
THEOREM StatusAlwaysMovesWithMoney == Spec => StatusMovesWithMoney
  <1>1. RowSteps =>
          \A i \in Invoices :
            /\ (invoice[i].status # "paid" /\ invoice'[i].status = "paid") <=>
                 (ledger'[i].captured = ledger[i].captured + payment[i].amount /\ HasPayment(payment[i]))
            /\ (invoice[i].status = "paid" /\ invoice'[i].status # "paid") =>
                 (invoice'[i].status = "issued" /\ payment[i].refunded < payment[i].amount
                  /\ payment'[i].refunded = payment[i].amount)
    BY DEF RowSteps, RowStep
  <1>2. QED
    BY <1>1, SpecIInv, StepIInv, PTL DEF Spec, StatusMovesWithMoney

\* In every behaviour what was fixed stays fixed.
THEOREM HistoryIsAlwaysKept == Spec => HistoryIsKept
  <1>1. RowSteps =>
          \A i \in Invoices :
            /\ HasPayment(payment[i]) =>
                 payment'[i].link = payment[i].link /\ payment'[i].amount = payment[i].amount
            /\ payment[i].intent # None => payment'[i].intent = payment[i].intent
            /\ invoice[i].status # "draft" =>
                 invoice'[i].total = invoice[i].total /\ invoice'[i].status # "draft"
            /\ ledger'[i].captured >= ledger[i].captured
            /\ ledger'[i].refunded <= ledger[i].refunded
    BY DEF RowSteps, RowStep
  <1>2. QED
    BY <1>1, SpecIInv, StepIInv, PTL DEF Spec, HistoryIsKept
=============================================================================
