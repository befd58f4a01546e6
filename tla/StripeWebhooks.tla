--------------------------- MODULE StripeWebhooks ---------------------------
(***************************************************************************)
(* The Stripe integration as it runs: deliveries that are lost, repeated   *)
(* and reordered, the webhook_events queue, several workers whose          *)
(* transactions interleave and may be rolled back at any point, payment    *)
(* link requests that call Stripe while they hold an invoice row, and the  *)
(* retention purge.                                                        *)
(*                                                                         *)
(* A transaction is split where another one can get in between: at every   *)
(* row lock and at the commit.  Postgres runs them READ COMMITTED, so a    *)
(* worker reads the committed rows when it gets a lock, keeps the copies   *)
(* (Go structs) and writes from the copies when it commits.                *)
(***************************************************************************)
EXTENDS PaymentRows, Sequences, FiniteSets, Functions

CONSTANTS
  Totals,       \* totals a draft can be given by its line items
  Workers,      \* webhook workers, one per API instance
  Requests,     \* payment link requests in flight
  MaxAttempts,  \* WEBHOOK_WORKER_MAX_ATTEMPTS, at least 2
  MaxCrashes,   \* bound: transactions of workers that are rolled back
  MaxPurges     \* bound: runs of the retention worker that delete events

ASSUME WorkerAssumptions ==
  /\ Totals \subseteq Nat
  /\ None \notin Workers \cup Requests
  /\ Workers \cap Requests = {}
  /\ MaxAttempts \in Nat \ {0, 1}
  /\ MaxCrashes \in Nat /\ MaxPurges \in Nat

VARIABLES
  invoice, payment, refunds, ledger,   \* committed rows, as in PaymentLedger
  inbox,         \* webhook_events rows by received_at, a sequence of events
  processed,     \* events whose row has processed_at
  attempts,      \* [Events -> Nat], attempt_count
  deadLetters,   \* [Events -> Nat], jobs_dead_letter rows written for an event
  stripe,        \* [Events -> {"unsent", "undelivered", "acked"}]
  worker,        \* [Workers -> WorkerState]
  request,       \* [Requests -> RequestState]
  invoiceLock,   \* [Invoices -> Workers \cup Requests \cup {None}], FOR UPDATE
  paymentLock,   \* [Invoices -> Workers \cup {None}], FOR UPDATE
  linkAmount,    \* [Invoices -> Nat], amount of the link Stripe made for the key
  crashes,       \* rollbacks so far
  purges,        \* purges so far
  effects        \* history: [Events -> Nat], commits that changed business rows

money == <<invoice, payment, refunds, ledger>>
queue == <<inbox, processed, attempts, deadLetters>>
locks == <<invoiceLock, paymentLock>>
faults == <<crashes, purges>>
vars == <<money, queue, stripe, worker, request, locks, linkAmount, faults, effects>>

\* A transaction of ProcessOne: where it is, its event, the invoice it resolved
\* and the rows it read under lock.
WorkerState ==
  [pc     : {"idle", "dispatch", "lockInvoice", "lockPayment", "apply", "skip", "fail"},
   event  : Events \cup {None},
   target : Invoices \cup {None},
   inv    : InvoiceRow,
   pay    : PaymentRow]

NoInvoice == [status |-> "draft", total |-> 0]

Idle == [pc |-> "idle", event |-> None, target |-> None, inv |-> NoInvoice,
         pay |-> NoPayment]

RequestState ==
  [pc : {"idle", "calling", "called", "abandoned"}, target : Invoices \cup {None}, total : Nat]

IdleRequest == [pc |-> "idle", target |-> None, total |-> 0]

TypeOK ==
  /\ invoice \in [Invoices -> InvoiceRow]
  /\ payment \in [Invoices -> PaymentRow]
  /\ refunds \in SUBSET RefundRow
  /\ ledger \in [Invoices -> LedgerRow]
  /\ inbox \in Seq(Events)
  /\ processed \in SUBSET Events
  /\ attempts \in [Events -> Nat]
  /\ deadLetters \in [Events -> Nat]
  /\ stripe \in [Events -> {"unsent", "undelivered", "acked"}]
  /\ worker \in [Workers -> WorkerState]
  /\ request \in [Requests -> RequestState]
  /\ invoiceLock \in [Invoices -> Workers \cup Requests \cup {None}]
  /\ paymentLock \in [Invoices -> Workers \cup {None}]
  /\ linkAmount \in [Invoices -> Nat]
  /\ crashes \in Nat /\ purges \in Nat
  /\ effects \in [Events -> Nat]

Init ==
  /\ invoice \in [Invoices -> [status : {"draft"}, total : Totals]]
  /\ payment = [i \in Invoices |-> NoPayment]
  /\ refunds = {}
  /\ ledger = [i \in Invoices |-> EmptyLedger]
  /\ inbox = <<>>
  /\ processed = {}
  /\ attempts = [e \in Events |-> 0]
  /\ deadLetters = [e \in Events |-> 0]
  /\ stripe = [e \in Events |-> "unsent"]
  /\ worker = [w \in Workers |-> Idle]
  /\ request = [q \in Requests |-> IdleRequest]
  /\ invoiceLock = [i \in Invoices |-> None]
  /\ paymentLock = [i \in Invoices |-> None]
  /\ linkAmount = [i \in Invoices |-> 0]
  /\ crashes = 0 /\ purges = 0
  /\ effects = [e \in Events |-> 0]
-----------------------------------------------------------------------------
(***************************************************************************)
(* Stripe and the webhook endpoint.                                        *)
(***************************************************************************)

\* What has to have happened at Stripe: a customer pays a link that was handed
\* out, or buys something else of the account, an intent fails before it succeeds,
\* a refund follows its charge.
Caused(e) ==
  \/ /\ IsPaymentSession(e) \/ IsIntentSucceeded(e)
     /\ \A i \in Invoices : e.meta = i \/ e.link = LinkOf[i] => HasPayment(payment[i])
  \/ /\ IsFailure(e)
     /\ \A f \in Events : IsPaid(f) /\ f.intent = e.intent => stripe[f] = "unsent"
  \/ /\ e.type \in {"refund.created", "refund.updated", "refund.failed"}
     /\ \E f \in Events : IsPaid(f) /\ f.intent = e.intent /\ stripe[f] # "unsent"
  \/ /\ e.type = "other"

Emit(e) ==
  /\ stripe[e] = "unsent"
  /\ Caused(e)
  /\ stripe' = [stripe EXCEPT ![e] = "undelivered"]
  /\ UNCHANGED <<money, queue, worker, request, locks, linkAmount, faults, effects>>

Stored(e) == \E k \in DOMAIN inbox : inbox[k] = e

\* handleStripeWebhook of httpapi: INSERT ON CONFLICT DO NOTHING, then 200.  If
\* the answer is lost, Stripe delivers the event again.
Deliver(e, answered) ==
  /\ stripe[e] = "undelivered"
  /\ inbox' = IF Stored(e) THEN inbox ELSE Append(inbox, e)
  /\ stripe' = [stripe EXCEPT ![e] = IF answered THEN "acked" ELSE @]
  /\ UNCHANGED <<money, processed, attempts, deadLetters, worker, request, locks,
                 linkAmount, faults, effects>>

\* An event is sent again on demand, as Stripe allows for past events.
Resend(e) ==
  /\ stripe[e] = "acked"
  /\ stripe' = [stripe EXCEPT ![e] = "undelivered"]
  /\ UNCHANGED <<money, queue, worker, request, locks, linkAmount, faults, effects>>
-----------------------------------------------------------------------------
(***************************************************************************)
(* The webhook worker (ProcessOne).                                        *)
(***************************************************************************)
EventLocked(e) == \E w \in Workers : worker[w].pc # "idle" /\ worker[w].event = e

Eligible(e) == e \notin processed /\ attempts[e] < MaxAttempts /\ ~EventLocked(e)

\* LockNextPendingStripeWebhook: the oldest row that is pending and not locked.
LockNext(w) ==
  /\ worker[w].pc = "idle"
  /\ \E k \in DOMAIN inbox :
       /\ Eligible(inbox[k])
       /\ \A j \in 1 .. k - 1 : ~Eligible(inbox[j])
       /\ worker' = [worker EXCEPT ![w] = [Idle EXCEPT !.pc = "dispatch", !.event = inbox[k]]]
  /\ UNCHANGED <<money, queue, stripe, request, locks, linkAmount, faults, effects>>

\* The invoice an event is about: by metadata and link for a payment, by the
\* stored intent, read without a lock, for a refund or a failure.
Targets(e) ==
  IF IsPaid(e) THEN {i \in Invoices : ResolvesTo(payment, e, i)}
  ELSE IF IsRefund(e) \/ IsFailure(e) THEN {i \in Invoices : MatchesIntent(payment[i], e)}
  ELSE {}

Goto(w, pc) == worker' = [worker EXCEPT ![w].pc = pc]

\* handleStripeWebhook of webhookworker, up to its first row lock: the parser
\* refuses the event, nobody is meant by it, or it is about an invoice.
Dispatch(w) ==
  LET e == worker[w].event IN
  /\ worker[w].pc = "dispatch"
  /\ \/ Targets(e) = {} /\ (IsRejected(e) \/ IsPaid(e)) /\ Goto(w, "fail")
     \/ Targets(e) = {} /\ ~(IsRejected(e) \/ IsPaid(e)) /\ Goto(w, "skip")
     \/ \E i \in Targets(e) :
          worker' = [worker EXCEPT ![w].pc = "lockInvoice", ![w].target = i]
  /\ UNCHANGED <<money, queue, stripe, request, locks, linkAmount, faults, effects>>

\* Mutant: the invoice is read without FOR UPDATE.
ReadInvoice(w) ==
  /\ worker[w].pc = "lockInvoice"
  /\ worker' = [worker EXCEPT
       ![w].inv = invoice[worker[w].target],
       ![w].pc = IF IsPaid(worker[w].event) /\ invoice[worker[w].target].status = "paid"
                 THEN "skip" ELSE "lockPayment"]
  /\ UNCHANGED <<money, queue, stripe, request, locks, linkAmount, faults, effects>>

\* GetInvoiceByIDForUpdate, and what ReconcileStripePaymentPaid does at once
\* with an invoice that is not issued.
LockInvoice(w) ==
  LET e == worker[w].event
      i == worker[w].target
  IN
  /\ worker[w].pc = "lockInvoice"
  /\ invoiceLock[i] = None
  /\ invoiceLock' = [invoiceLock EXCEPT ![i] = w]
  /\ worker' = [worker EXCEPT
       ![w].inv = invoice[i],
       ![w].pc = IF IsPaid(e) /\ invoice[i].status = "paid" THEN "skip"
                 ELSE IF IsPaid(e) /\ invoice[i].status # "issued" THEN "fail"
                 ELSE "lockPayment"]
  /\ UNCHANGED <<money, queue, stripe, request, paymentLock, linkAmount, faults, effects>>

\* How a handler goes on with both rows: it writes, has nothing to do, or fails.
Verdict(e, i, inv, pay) ==
  IF IsPaid(e)
  THEN IF AcceptsPaid(i, inv, pay, e) THEN "apply" ELSE "fail"
  ELSE IF ~MatchesIntent(pay, e) THEN "skip"
  ELSE IF IsRefund(e) /\ RefundError(i, pay, e) THEN "fail"
  ELSE "apply"

\* GetPaymentByInvoiceForUpdate and the checks of the three handlers.
LockPayment(w) ==
  LET e == worker[w].event
      i == worker[w].target
  IN
  /\ worker[w].pc = "lockPayment"
  /\ paymentLock[i] = None
  /\ paymentLock' = [paymentLock EXCEPT ![i] = w]
  /\ worker' = [worker EXCEPT ![w].pay = payment[i],
                              ![w].pc = Verdict(e, i, worker[w].inv, payment[i])]
  /\ UNCHANGED <<money, queue, stripe, request, invoiceLock, linkAmount, faults, effects>>

\* Mutant: a transaction is left open on the invoice.
ReleasePayment(w) ==
  /\ worker' = [worker EXCEPT ![w] = Idle]
  /\ paymentLock' = [i \in Invoices |-> IF paymentLock[i] = w THEN None ELSE paymentLock[i]]
  /\ UNCHANGED invoiceLock

\* The end of a transaction: its locks go and the worker polls again.
Release(w) ==
  /\ worker' = [worker EXCEPT ![w] = Idle]
  /\ invoiceLock' = [i \in Invoices |-> IF invoiceLock[i] = w THEN None ELSE invoiceLock[i]]
  /\ paymentLock' = [i \in Invoices |-> IF paymentLock[i] = w THEN None ELSE paymentLock[i]]

\* What the UPDATE and INSERT statements of ReconcileStripePaymentPaid write.
WritePaid(i, pay, e) ==
  /\ invoice' = [invoice EXCEPT ![i].status = IF @ = "issued" THEN "paid" ELSE @]
  /\ payment' = [payment EXCEPT ![i] = CaptureOn(@, e)]
  /\ ledger' = [ledger EXCEPT ![i].captured = @ + pay.amount]
  /\ UNCHANGED refunds

\* Mutant: the invoice is forgotten.
WriteRefundOnly(i, inv, pay, e) ==
  /\ refunds' = refunds \cup {[refund |-> e.refund, invoice |-> i, amount |-> e.amount]}
  /\ ledger' = [ledger EXCEPT ![i].refunded = @ - e.amount]
  /\ payment' = [payment EXCEPT ![i].refunded = RefundOn(pay, e).refunded]
  /\ UNCHANGED invoice

\* What ApplyStripeRefund writes: the sum was computed in Go from the copy.
WriteRefund(i, inv, pay, e) ==
  /\ refunds' = refunds \cup {[refund |-> e.refund, invoice |-> i, amount |-> e.amount]}
  /\ ledger' = [ledger EXCEPT ![i].refunded = @ - e.amount]
  /\ payment' = [payment EXCEPT ![i].refunded = RefundOn(pay, e).refunded]
  /\ invoice' = [invoice EXCEPT ![i].status =
                   IF Reopens(inv, pay, e) /\ @ = "paid" THEN "issued" ELSE @]

WriteFailure(i, e) ==
  /\ payment' = [payment EXCEPT ![i] = FailureOn(@, e)]
  /\ UNCHANGED <<invoice, refunds, ledger>>

\* The INSERT of ApplyStripeRefund, ON CONFLICT (stripe_refund_id) DO NOTHING,
\* waits for a transaction that inserts the same refund, so it decides as if at
\* the commit.
Recorded(w) ==
  LET e == worker[w].event IN
  IsRefund(e) /\ ~AcceptsRefund(worker[w].target, worker[w].pay, refunds, e)

\* Success: the handler's writes and MarkStripeWebhookProcessed commit together.
CommitHandled(w) ==
  LET e == worker[w].event
      i == worker[w].target
  IN
  /\ \/ /\ worker[w].pc = "skip" \/ (worker[w].pc = "apply" /\ Recorded(w))
        /\ UNCHANGED <<money, effects>>
     \/ /\ worker[w].pc = "apply" /\ ~Recorded(w)
        /\ effects' = [effects EXCEPT ![e] = @ + 1]
        /\ \/ IsPaid(e) /\ WritePaid(i, worker[w].pay, e)
           \/ IsRefund(e) /\ WriteRefund(i, worker[w].inv, worker[w].pay, e)
           \/ IsFailure(e) /\ WriteFailure(i, e)
  /\ processed' = processed \cup {e}
  /\ Release(w)
  /\ UNCHANGED <<inbox, attempts, deadLetters, stripe, request, linkAmount, faults>>

\* Mutant: one attempt too many.
CommitFailureLate(w) ==
  LET e == worker[w].event
      terminal == attempts[e] + 1 > MaxAttempts
  IN
  /\ worker[w].pc = "fail"
  /\ attempts' = [attempts EXCEPT ![e] = @ + 1]
  /\ deadLetters' = [deadLetters EXCEPT ![e] = IF terminal THEN @ + 1 ELSE @]
  /\ processed' = IF terminal THEN processed \cup {e} ELSE processed
  /\ Release(w)
  /\ UNCHANGED <<money, inbox, stripe, request, linkAmount, faults, effects>>

\* Mutant: a dead-lettered event stays without processed_at.
CommitFailureOpen(w) ==
  LET e == worker[w].event IN
  /\ worker[w].pc = "fail"
  /\ attempts' = [attempts EXCEPT ![e] = @ + 1]
  /\ deadLetters' = [deadLetters EXCEPT ![e] = IF attempts'[e] >= MaxAttempts THEN @ + 1 ELSE @]
  /\ Release(w)
  /\ UNCHANGED <<money, inbox, processed, stripe, request, linkAmount, faults, effects>>

\* RecordStripeWebhookFailure: count the attempt, dead-letter the last one.
CommitFailure(w) ==
  LET e == worker[w].event
      terminal == attempts[e] + 1 >= MaxAttempts
  IN
  /\ worker[w].pc = "fail"
  /\ attempts' = [attempts EXCEPT ![e] = @ + 1]
  /\ deadLetters' = [deadLetters EXCEPT ![e] = IF terminal THEN @ + 1 ELSE @]
  /\ processed' = IF terminal THEN processed \cup {e} ELSE processed
  /\ Release(w)
  /\ UNCHANGED <<money, inbox, stripe, request, linkAmount, faults, effects>>

\* The process stops, the connection breaks or a statement fails: rollback, and
\* the attempt is not counted.
Crash(w) ==
  /\ worker[w].pc # "idle"
  /\ crashes < MaxCrashes
  /\ crashes' = crashes + 1
  /\ Release(w)
  /\ UNCHANGED <<money, queue, stripe, request, linkAmount, purges, effects>>
-----------------------------------------------------------------------------
(***************************************************************************)
(* Requests of the HTTP API that write the same rows.                      *)
(***************************************************************************)

\* Mutant: an invoice that was sent is still open to changes.
PatchSent(i, total) ==
  /\ invoiceLock[i] = None
  /\ invoice[i].status # "paid"
  /\ invoice' = [invoice EXCEPT ![i].total = total]
  /\ UNCHANGED <<payment, refunds, ledger, queue, stripe, worker, request, locks,
                 linkAmount, faults, effects>>

\* PatchInvoiceLineItems and SendInvoice wait for the invoice row; they take no
\* other lock, so each is one step.
PatchDraft(i, total) ==
  /\ invoiceLock[i] = None
  /\ invoice[i].status = "draft"
  /\ invoice' = [invoice EXCEPT ![i].total = total]
  /\ UNCHANGED <<payment, refunds, ledger, queue, stripe, worker, request, locks,
                 linkAmount, faults, effects>>

SendInvoice(i) ==
  /\ invoiceLock[i] = None
  /\ invoice[i].status = "draft"
  /\ invoice' = [invoice EXCEPT ![i].status = "issued"]
  /\ ledger' = [ledger EXCEPT ![i].issued = @ + invoice[i].total]
  /\ UNCHANGED <<payment, refunds, queue, stripe, worker, request, locks, linkAmount,
                 faults, effects>>

\* ensureInvoicePaymentLink, up to the call of Stripe.  With a payment row, or an
\* invoice that is not payable, the request answers and changes nothing.
BeginLink(q, i) ==
  /\ request[q].pc = "idle"
  /\ invoiceLock[i] = None /\ paymentLock[i] = None
  /\ invoice[i].status = "issued" /\ invoice[i].total > 0
  /\ ~HasPayment(payment[i])
  /\ invoiceLock' = [invoiceLock EXCEPT ![i] = q]
  /\ request' = [request EXCEPT ![q] = [pc |-> "calling", target |-> i,
                                        total |-> invoice[i].total]]
  /\ UNCHANGED <<money, queue, stripe, worker, paymentLock, linkAmount, faults, effects>>

\* CreateInvoicePaymentLink: the key is made of the invoice id, so Stripe makes
\* one link for the invoice and refuses the key for another amount.
CallStripe(q) ==
  LET i == request[q].target IN
  /\ request[q].pc \in {"calling", "abandoned"}
  /\ linkAmount[i] \in {0, request[q].total}
  /\ linkAmount' = [linkAmount EXCEPT ![i] = request[q].total]
  /\ request' = [request EXCEPT ![q] =
                   IF @.pc = "calling" THEN [@ EXCEPT !.pc = "called"] ELSE IdleRequest]
  /\ UNCHANGED <<money, queue, stripe, worker, locks, faults, effects>>

EndTransaction(q) ==
  /\ request[q].pc \in {"calling", "called"}
  /\ invoiceLock' = [invoiceLock EXCEPT ![request[q].target] = None]
  /\ UNCHANGED paymentLock

\* InsertPayment, which leaves a row that is there already alone, and commit.
CommitLink(q) ==
  LET i == request[q].target IN
  /\ request[q].pc = "called"
  /\ payment' = [payment EXCEPT ![i] =
                   IF HasPayment(@) THEN @
                   ELSE [NewPayment(i, invoice[i]) EXCEPT !.amount = request[q].total]]
  /\ EndTransaction(q)
  /\ request' = [request EXCEPT ![q] = IdleRequest]
  /\ UNCHANGED <<invoice, refunds, ledger, queue, stripe, worker, linkAmount, faults, effects>>

\* Rollback: Stripe fails or the process stops, or the request times out, and
\* then the call of Stripe, which has no deadline, may still be under way.
AbortLink(q) ==
  /\ EndTransaction(q)
  /\ \/ request' = [request EXCEPT ![q] = IdleRequest]
     \/ request[q].pc = "calling" /\ request' = [request EXCEPT ![q].pc = "abandoned"]
  /\ UNCHANGED <<money, queue, stripe, worker, linkAmount, faults, effects>>

\* A call nobody waits for any more fails.
DropLink(q) ==
  /\ request[q].pc = "abandoned"
  /\ request' = [request EXCEPT ![q] = IdleRequest]
  /\ UNCHANGED <<money, queue, stripe, worker, locks, linkAmount, faults, effects>>
-----------------------------------------------------------------------------
(***************************************************************************)
(* Retention: PurgeWebhookEventsOlderThan deletes the oldest k rows,       *)
(* processed or not, once no transaction holds one of them.                *)
(***************************************************************************)
Purge(k) ==
  LET gone == {inbox[j] : j \in 1 .. k} IN
  /\ purges < MaxPurges
  /\ \A e \in gone : ~EventLocked(e)
  /\ purges' = purges + 1
  /\ inbox' = SubSeq(inbox, k + 1, Len(inbox))
  /\ processed' = processed \ gone
  /\ attempts' = [e \in Events |-> IF e \in gone THEN 0 ELSE attempts[e]]
  /\ UNCHANGED <<money, deadLetters, stripe, worker, request, locks, linkAmount, crashes,
                 effects>>
-----------------------------------------------------------------------------
Commit(w) == CommitHandled(w) \/ CommitFailure(w)

WorkerStep(w) ==
  LockNext(w) \/ Dispatch(w) \/ LockInvoice(w) \/ LockPayment(w) \/ Commit(w)

RequestStep(q) == CallStripe(q) \/ CommitLink(q) \/ AbortLink(q) \/ DropLink(q)

Next ==
  \/ \E e \in Events : Emit(e) \/ Resend(e) \/ \E answered \in BOOLEAN : Deliver(e, answered)
  \/ \E w \in Workers : WorkerStep(w) \/ Crash(w)
  \/ \E i \in Invoices : SendInvoice(i) \/ \E total \in Totals : PatchDraft(i, total)
  \/ \E q \in Requests : RequestStep(q) \/ \E i \in Invoices : BeginLink(q, i)
  \/ \E k \in 1 .. Len(inbox) : Purge(k)

\* Workers poll for ever and a transaction always ends; Postgres queues those
\* who wait for a row, so a lock that keeps becoming free is granted; requests
\* are cut off by the timeout handler; Stripe repeats a delivery until answered.
Fairness ==
  /\ \A w \in Workers : WF_vars(WorkerStep(w)) /\ SF_vars(LockInvoice(w))
  /\ \A q \in Requests : WF_vars(RequestStep(q))
  /\ \A e \in Events : WF_vars(Deliver(e, TRUE))

Spec == Init /\ [][Next]_vars

FairSpec == Spec /\ Fairness
-----------------------------------------------------------------------------
(***************************************************************************)
(* Properties.                                                             *)
(***************************************************************************)

\* A transaction that has read a row under lock can rely on it until it commits,
\* whatever the other workers and requests do meanwhile: the Go copies from which
\* the handlers compute, and the total a link is created for, are the committed
\* rows (GetInvoiceByIDForUpdate, GetPaymentByInvoiceForUpdate, GetInvoiceForUpdate).
CopiesAreCurrent ==
  /\ \A w \in Workers :
       LET t == worker[w].target IN
       /\ worker[w].pc \in {"lockPayment", "apply"} => worker[w].inv = invoice[t]
       /\ worker[w].pc = "apply" =>
            worker[w].pay = payment[t] /\ Verdict(worker[w].event, t, invoice[t], payment[t]) = "apply"
  /\ \A q \in Requests :
       LET t == request[q].target IN
       request[q].pc \in {"calling", "called"} =>
         invoice[t] = [status |-> "issued", total |-> request[q].total] /\ ~HasPayment(payment[t])

\* Stripe never refuses the idempotency key of an invoice: a request that is
\* repeated after a rollback asks for the amount of the first attempt, and the
\* payment row carries the amount of the link the customer pays
\* (invoice_payment_link:<id> in ensureInvoicePaymentLink).
LinkKeepsItsAmount ==
  /\ \A q \in Requests :
       request[q].pc \in {"calling", "abandoned"} => linkAmount[request[q].target] \in {0, request[q].total}
  /\ \A i \in Invoices : HasPayment(payment[i]) => payment[i].amount = linkAmount[i]

\* A refund reaches the books once, although Stripe reports it with several
\* events, repeats deliveries, and the queue rows that remember them are purged:
\* the commits that applied a refund are as many as the refund ids on record
\* (stripe_refund_events).
RefundsApplyOnce ==
  Cardinality({r.refund : r \in refunds})
    = SumFunctionOnSet(effects, {e \in Events : IsRefund(e)})

\* The interleaved transactions do to the money rows what the handlers would do
\* one after the other: no update is lost and no half of one is seen.
Money == INSTANCE PaymentLedger

MoneyPromise == Money!Spec

\* A refund the worker finished without a failure is on record: the matrix says
\* of refund.created and refund.updated "If refund status is succeeded, apply refund
\* to ledger/payment via ApplyStripeRefund" (docs/stripe-webhook-matrix.md:19).
FinishedRefundsAreRecorded ==
  \A e \in Events :
    IsRefund(e) /\ e \in processed /\ deadLetters[e] = 0 => RefundSeen(refunds, e)

\* A further report of a refund on record is accepted without error, and so it is
\* never dead-lettered: "ApplyStripeRefund applies a succeeded Stripe refund
\* idempotently" (internal/repo/stripe_refund.go:70, and the test
\* TestApplyStripeRefund_IdempotentReplay).
RefundReplaysSucceed ==
  \A e \in Events : IsRefund(e) /\ deadLetters[e] > 0 => ~RefundSeen(refunds, e)

\* A charge is captured once, whatever number of events report it and however late
\* they arrive: "Webhooks are processed idempotently" (README.md:114).
ChargesApplyOnce ==
  \A p \in PaymentIntents :
    SumFunctionOnSet(effects, {e \in Events : IsPaid(e) /\ e.intent = p}) <= 1

\* The state of an event's row in the queue.
Phase(e) ==
  IF ~Stored(e) THEN "absent"
  ELSE IF e \notin processed THEN "pending"
  ELSE IF deadLetters[e] = 0 THEN "done"
  ELSE "dead"

\* Without purges every event takes at most one effect, none if it fails, is
\* dead-lettered at most once, and a stored event does not stay pending, however
\* the workers interleave and crash (ProcessOne, RecordStripeWebhookFailure).
Lifecycle == INSTANCE WebhookLifecycle
  WITH phase <- [e \in Events |-> Phase(e)], failures <- attempts

QueuePromise == Lifecycle!Spec

\* Whatever Stripe sends is settled in the end, handled or dead-lettered once.
EveryDeliverySettles ==
  \A e \in Events : stripe[e] = "undelivered" ~> (e \in processed /\ deadLetters[e] <= 1)

\* The worker waits for a row that another transaction has.
Waits(w) ==
  \/ worker[w].pc = "lockInvoice" /\ invoiceLock[worker[w].target] # None
  \/ worker[w].pc = "lockPayment" /\ paymentLock[worker[w].target] # None

\* Whoever has the row of an invoice or a payment is under way and waits for no
\* other row, however many workers and requests meet: each handler takes the
\* invoice before its payment, so two of them never wait for each other
\* (GetInvoiceByIDForUpdate before GetPaymentByInvoiceForUpdate).
HoldersNeverWait ==
  \A i \in Invoices : \A x \in {invoiceLock[i], paymentLock[i]} \ {None} :
    /\ x \in Workers => worker[x].pc # "idle" /\ ~Waits(x)
    /\ x \in Requests => request[x].pc \in {"calling", "called"}

\* No transaction waits for ever for a row: workers and requests take the event,
\* the invoice and the payment row in this order, so no cycle of waits arises.
EveryWaitEnds ==
  \A w \in Workers : worker[w].pc \in {"lockInvoice", "lockPayment"} ~> worker[w].pc = "idle"
=============================================================================
