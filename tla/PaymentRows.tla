---------------------------- MODULE PaymentRows ----------------------------
(***************************************************************************)
(* The rows the Stripe integration keeps for an invoice (tables invoices,  *)
(* payments, stripe_refund_events, ledger_entries), the Stripe events that *)
(* reach the handlers, and what a handler decides and writes once it has   *)
(* loaded the rows.  The module has no state: PaymentLedger applies these  *)
(* operators to the committed rows in one step, StripeWebhooks applies     *)
(* them to the copies a worker read earlier in its transaction.            *)
(***************************************************************************)
EXTENDS Integers

CONSTANTS
  Invoices,        \* invoice ids (the organization of an invoice never changes)
  Links,           \* Stripe payment link ids
  LinkOf,          \* the link Stripe returns for the idempotency key of an invoice
  Currencies,      \* ISO codes, as NormalizeCurrencyCode leaves them
  CurrencyOf,      \* the currency an invoice is created in, copied to its payment
  PaymentIntents,  \* Stripe PaymentIntent ids
  RefundIds,       \* Stripe refund ids
  FailureCodes,    \* last_payment_error codes
  Events,          \* the Stripe events of the run, as records (see Event)
  None             \* a NULL column, an absent field

EventTypes == {"refund.created", "refund.updated", "refund.failed",
               "payment_intent.payment_failed", "payment_intent.succeeded",
               "checkout.session.completed", "other"}

\* The fields of a stored payload that the worker reads.  "status" is the
\* refund status or the checkout session mode; "id" is the Stripe event id.
Event == [id       : Nat,
          type     : EventTypes,
          status   : {"succeeded", "pending", "payment", "setup"},
          meta     : Invoices \cup {None},
          link     : Links \cup {None},
          intent   : PaymentIntents \cup {None},
          currency : Currencies,
          amount   : Nat,
          refund   : RefundIds \cup {None},
          code     : FailureCodes \cup {None}]

ASSUME RowAssumptions ==
  /\ None \notin Invoices \cup Links \cup PaymentIntents \cup RefundIds \cup FailureCodes
  /\ LinkOf \in [Invoices -> Links]
  /\ \A i, j \in Invoices : LinkOf[i] = LinkOf[j] => i = j
  /\ CurrencyOf \in [Invoices -> Currencies]
  /\ Events \subseteq Event
-----------------------------------------------------------------------------
(***************************************************************************)
(* Rows.  A payments row exists once its link is set; stripe_payment_link_id *)
(* is NOT NULL and amount_minor > 0 in the table.                          *)
(***************************************************************************)
InvoiceRow == [status : {"draft", "issued", "paid"}, total : Nat]

PaymentRow == [link     : Links \cup {None},
               amount   : Nat,
               intent   : PaymentIntents \cup {None},
               refunded : Nat,
               failure  : FailureCodes \cup {None}]

NoPayment == [link |-> None, amount |-> 0, intent |-> None, refunded |-> 0,
              failure |-> None]

HasPayment(pay) == pay.link # None

\* InsertPayment: the row written for a new link, amount and currency of the invoice.
NewPayment(i, inv) ==
  [link |-> LinkOf[i], amount |-> inv.total, intent |-> None, refunded |-> 0,
   failure |-> None]

RefundRow == [refund : RefundIds, invoice : Invoices, amount : Nat \ {0}]

\* The ledger entries of one invoice and of its payment, summed by event type.
LedgerRow == [issued : Int, captured : Int, refunded : Int]

EmptyLedger == [issued |-> 0, captured |-> 0, refunded |-> 0]
-----------------------------------------------------------------------------
(***************************************************************************)
(* Dispatch: which handler an event reaches.  An event that none of the    *)
(* predicates describes is handled without error and without effect.       *)
(***************************************************************************)
IsSucceededRefund(e) ==
  /\ e.type \in {"refund.created", "refund.updated"}
  /\ e.status = "succeeded"
  /\ e.intent # None

\* Mutant: the amount is not checked.
IsRefundOfAnyAmount(e) == IsSucceededRefund(e) /\ e.refund # None

IsRefund(e) == IsSucceededRefund(e) /\ e.refund # None /\ e.amount > 0

IsFailure(e) == e.type = "payment_intent.payment_failed" /\ e.intent # None

IsPaymentSession(e) == e.type = "checkout.session.completed" /\ e.status = "payment"

IsIntentSucceeded(e) == e.type = "payment_intent.succeeded"

\* Only a checkout session carries a link that the parser keeps.
PaidLink(e) == IF IsPaymentSession(e) THEN e.link ELSE None

IsPaid(e) ==
  /\ IsPaymentSession(e) \/ IsIntentSucceeded(e)
  /\ e.amount > 0
  /\ e.meta # None \/ PaidLink(e) # None

\* Events the parser or the refund handler refuses before it reads a row.
IsRejected(e) ==
  \/ IsSucceededRefund(e) /\ ~IsRefund(e)
  \/ (IsPaymentSession(e) \/ IsIntentSucceeded(e)) /\ ~IsPaid(e)
-----------------------------------------------------------------------------
(***************************************************************************)
(* checkout.session.completed and payment_intent.succeeded.                *)
(***************************************************************************)

\* Metadata and link must agree, and a link must be the link of a payment row.
ResolvesTo(pays, e, i) ==
  /\ e.meta \in {None, i}
  /\ PaidLink(e) \in {None, pays[i].link}

\* Mutant: a paid invoice is paid again.
AcceptsPaidTwice(i, inv, pay, e) ==
  /\ inv.status \in {"issued", "paid"}
  /\ HasPayment(pay)
  /\ e.amount = pay.amount

AcceptsPaid(i, inv, pay, e) ==
  /\ inv.status = "issued"
  /\ HasPayment(pay)
  /\ PaidLink(e) \in {None, pay.link}
  /\ e.currency = CurrencyOf[i]
  /\ e.amount = pay.amount

\* Mutant: the last intent wins.
CaptureLast(pay, e) == [pay EXCEPT !.intent = e.intent]

\* COALESCE(stripe_payment_intent_id, new): the first intent stays.
CaptureOn(pay, e) == [pay EXCEPT !.intent = IF @ = None THEN e.intent ELSE @]
-----------------------------------------------------------------------------
(***************************************************************************)
(* refund.created, refund.updated and payment_intent.payment_failed.       *)
(***************************************************************************)
MatchesIntent(pay, e) == pay.intent = e.intent /\ e.intent # None

Remaining(pay) == pay.amount - pay.refunded

\* Currency and balance are checked before the refund id is looked up.
RefundError(i, pay, e) == e.currency # CurrencyOf[i] \/ e.amount > Remaining(pay)

RefundSeen(rows, e) == \E r \in rows : r.refund = e.refund

\* Mutant: the refund id is not looked up.
AcceptsRepeatedRefund(i, pay, rows, e) == MatchesIntent(pay, e) /\ ~RefundError(i, pay, e)

AcceptsRefund(i, pay, rows, e) ==
  /\ MatchesIntent(pay, e)
  /\ ~RefundError(i, pay, e)
  /\ ~RefundSeen(rows, e)

\* Mutant: the amount is booked with the sign of the ledger.
RefundSubtracted(pay, e) == [pay EXCEPT !.refunded = @ - e.amount]

RefundOn(pay, e) == [pay EXCEPT !.refunded = @ + e.amount]

\* Mutants: every refund reopens the invoice; it takes more than the payment.
ReopensAlways(inv, pay, e) == inv.status = "paid"
ReopensLate(inv, pay, e) == inv.status = "paid" /\ RefundOn(pay, e).refunded > pay.amount

\* A paid invoice goes back to issued once the payment is refunded in full.
Reopens(inv, pay, e) == inv.status = "paid" /\ RefundOn(pay, e).refunded >= pay.amount

FailureOn(pay, e) == [pay EXCEPT !.failure = e.code]
=============================================================================
