--------------------------- MODULE PaymentLedger ---------------------------
(***************************************************************************)
(* What the money tables promise: invoices, payments, refunds and ledger,  *)
(* with every database transaction as one step.  StripeWebhooks, where     *)
(* the transactions of concurrent workers and requests interleave, is      *)
(* checked to implement this specification.                                *)
(***************************************************************************)
EXTENDS PaymentRows, Functions

CONSTANT Totals    \* totals a draft can be given by its line items

ASSUME TotalsAssumption == Totals \subseteq Nat

VARIABLES
  invoice,   \* [Invoices -> InvoiceRow]
  payment,   \* [Invoices -> PaymentRow]
  refunds,   \* stripe_refund_events, a set of RefundRow
  ledger     \* [Invoices -> LedgerRow]

vars == <<invoice, payment, refunds, ledger>>

TypeOK ==
  /\ invoice \in [Invoices -> InvoiceRow]
  /\ payment \in [Invoices -> PaymentRow]
  /\ refunds \in SUBSET RefundRow
  /\ ledger \in [Invoices -> LedgerRow]

Init ==
  /\ invoice \in [Invoices -> [status : {"draft"}, total : Totals]]
  /\ payment = [i \in Invoices |-> NoPayment]
  /\ refunds = {}
  /\ ledger = [i \in Invoices |-> EmptyLedger]
-----------------------------------------------------------------------------
(***************************************************************************)
(* HTTP requests.                                                          *)
(***************************************************************************)

\* Mutant: the status is not checked.
PatchAny(i, total) ==
  /\ invoice' = [invoice EXCEPT ![i].total = total]
  /\ UNCHANGED <<payment, refunds, ledger>>

\* PatchInvoiceLineItems, as far as the total goes.
PatchDraft(i, total) ==
  /\ invoice[i].status = "draft"
  /\ invoice' = [invoice EXCEPT ![i].total = total]
  /\ UNCHANGED <<payment, refunds, ledger>>

\* SendInvoice; sending an issued invoice again changes nothing.
SendInvoice(i) ==
  /\ invoice[i].status = "draft"
  /\ invoice' = [invoice EXCEPT ![i].status = "issued"]
  /\ ledger' = [ledger EXCEPT ![i].issued = @ + invoice[i].total]
  /\ UNCHANGED <<payment, refunds>>

\* ensureInvoicePaymentLink; with a payment row present it changes nothing.
CreatePaymentLink(i) ==
  /\ invoice[i].status = "issued"
  /\ invoice[i].total > 0
  /\ ~HasPayment(payment[i])
  /\ payment' = [payment EXCEPT ![i] = NewPayment(i, invoice[i])]
  /\ UNCHANGED <<invoice, refunds, ledger>>
-----------------------------------------------------------------------------
(***************************************************************************)
(* Webhook handlers.  A refused or ignored event changes no money row.     *)
(***************************************************************************)

ReconcileStripePaymentPaid(i, e) ==
  /\ IsPaid(e)
  /\ ResolvesTo(payment, e, i)
  /\ AcceptsPaid(i, invoice[i], payment[i], e)
  /\ invoice' = [invoice EXCEPT ![i].status = "paid"]
  /\ payment' = [payment EXCEPT ![i] = CaptureOn(@, e)]
  /\ ledger' = [ledger EXCEPT ![i].captured = @ + payment[i].amount]
  /\ UNCHANGED refunds

ApplyStripeRefund(i, e) ==
  /\ IsRefund(e)
  /\ AcceptsRefund(i, payment[i], refunds, e)
  /\ refunds' = refunds \cup {[refund |-> e.refund, invoice |-> i, amount |-> e.amount]}
  /\ ledger' = [ledger EXCEPT ![i].refunded = @ - e.amount]
  /\ payment' = [payment EXCEPT ![i] = RefundOn(@, e)]
  /\ invoice' = [invoice EXCEPT ![i].status =
                   IF Reopens(invoice[i], payment[i], e) THEN "issued" ELSE @]

RecordStripePaymentFailure(i, e) ==
  /\ IsFailure(e)
  /\ MatchesIntent(payment[i], e)
  /\ payment' = [payment EXCEPT ![i] = FailureOn(@, e)]
  /\ UNCHANGED <<invoice, refunds, ledger>>

Next ==
  \E i \in Invoices :
    \/ \E total \in Totals : PatchDraft(i, total)
    \/ SendInvoice(i)
    \/ CreatePaymentLink(i)
    \/ \E e \in Events : ReconcileStripePaymentPaid(i, e)
    \/ \E e \in Events : ApplyStripeRefund(i, e)
    \/ \E e \in Events : RecordStripePaymentFailure(i, e)

Spec == Init /\ [][Next]_vars
-----------------------------------------------------------------------------
(***************************************************************************)
(* Safety.                                                                 *)
(***************************************************************************)

\* Cash the ledger still holds for an invoice: captures less refunds.
Net(i) == ledger[i].captured + ledger[i].refunded

\* An invoice is issued on the ledger exactly once, for the total the customer
\* is later charged: line items, send and payment link run in three requests
\* and never disagree about the amount (PatchInvoiceLineItems, SendInvoice,
\* ensureInvoicePaymentLink).
AmountsAgree ==
  \A i \in Invoices :
    /\ ledger[i].issued = IF invoice[i].status = "draft" THEN 0 ELSE invoice[i].total
    /\ payment[i].amount = IF HasPayment(payment[i]) THEN invoice[i].total ELSE 0

\* The status column and the ledger tell the same story through any number of
\* payments, partial refunds, full refunds and reopenings: an invoice that asks
\* for money holds none, a paid one holds some and never more than its total
\* (ReconcileStripePaymentPaid, ApplyStripeRefund).
NetFollowsStatus ==
  \A i \in Invoices :
    /\ invoice[i].status # "paid" => Net(i) = 0
    /\ invoice[i].status = "paid" => Net(i) \in 1 .. invoice[i].total

\* The three records of a refund agree: the refund rows of a payment, its
\* refunded_amount_minor, a read-modify-write in Go, and the ledger.  None of
\* them exceeds the payment (ApplyStripeRefund).
RefundsBalance ==
  \A i \in Invoices :
    LET rows == {r \in refunds : r.invoice = i}
    IN  /\ payment[i].refunded = SumFunction([r \in rows |-> r.amount])
        /\ payment[i].refunded + ledger[i].refunded = 0
        /\ payment[i].refunded <= payment[i].amount

\* The money life of an invoice has four phases and no other: never paid, paid
\* with something left to refund, refunded in full and open again, paid a second
\* time.  Hence the books charge at most twice, the second time only after a full
\* refund, and a second payment can never be refunded through the API, because
\* the balance and the first intent stay on the row (ReconcileStripePaymentPaid
\* keeps refunded_amount_minor and the first stripe_payment_intent_id).
MoneyLifeCycle ==
  \A i \in Invoices :
    LET pay == payment[i]
        captured == ledger[i].captured
        status == invoice[i].status
    IN  /\ HasPayment(pay) => pay.amount > 0
        /\ pay.refunded + ledger[i].refunded = 0
        /\ \/ /\ status # "paid" /\ captured = 0 /\ pay.refunded = 0 /\ pay.intent = None
              /\ HasPayment(pay) => status = "issued"
           \/ /\ HasPayment(pay) /\ captured = pay.amount
              /\ \/ status = "paid" /\ pay.refunded < pay.amount
                 \/ status = "issued" /\ pay.refunded = pay.amount
           \/ /\ HasPayment(pay) /\ captured = 2 * pay.amount
              /\ status = "paid" /\ pay.refunded = pay.amount

\* GetReconciliationSummary: payment_captured entries less the payments of paid
\* invoices, for one currency.
Drift(c) ==
  LET inCurrency == {i \in Invoices : CurrencyOf[i] = c}
  IN  SumFunctionOnSet([i \in Invoices |-> ledger[i].captured], inCurrency)
        - SumFunctionOnSet([i \in Invoices |-> payment[i].amount],
                           {i \in inCurrency : invoice[i].status = "paid"})

\* What the summary calls drift is the money of the payments that were refunded
\* in full, and nothing else: partial refunds, second payments and repeated
\* reports leave it alone.  docs/runbook.md:146 looks for other causes.
DriftIsFullRefunds ==
  \A c \in Currencies :
    Drift(c) = SumFunctionOnSet([i \in Invoices |-> payment[i].amount],
                 {i \in Invoices : CurrencyOf[i] = c /\ HasPayment(payment[i])
                                    /\ payment[i].refunded = payment[i].amount})

\* Status and money move in the same step: an invoice becomes paid only with a
\* capture of its whole payment, and leaves paid only with a refund that
\* completes the payment (one transaction per event in webhookworker).
StatusMovesWithMoney ==
  [][\A i \in Invoices :
       /\ (invoice[i].status # "paid" /\ invoice'[i].status = "paid") <=>
            (ledger'[i].captured = ledger[i].captured + payment[i].amount /\ HasPayment(payment[i]))
       /\ (invoice[i].status = "paid" /\ invoice'[i].status # "paid") =>
            (invoice'[i].status = "issued" /\ payment[i].refunded < payment[i].amount
             /\ payment'[i].refunded = payment[i].amount)]_vars

\* What was fixed stays fixed: the amount and link of a payment row, the first
\* intent, the total of an invoice that was sent, and every ledger sum moves
\* one way only.
HistoryIsKept ==
  [][\A i \in Invoices :
       /\ HasPayment(payment[i]) =>
            payment'[i].link = payment[i].link /\ payment'[i].amount = payment[i].amount
       /\ payment[i].intent # None => payment'[i].intent = payment[i].intent
       /\ invoice[i].status # "draft" =>
            invoice'[i].total = invoice[i].total /\ invoice'[i].status # "draft"
       /\ ledger'[i].captured >= ledger[i].captured
       /\ ledger'[i].refunded <= ledger[i].refunded]_vars
=============================================================================
