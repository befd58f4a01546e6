----------------------- MODULE StripeWebhooks_proofs -----------------------
(***************************************************************************)
(* Proofs about StripeWebhooks for every set of invoices, events, workers  *)
(* and requests: what a transaction has read under lock is current when it *)
(* writes, and so the interleaved transactions implement PaymentLedger;    *)
(* nobody who holds a row waits for another; an event is one worker's at a *)
(* time; without purges, the queue implements the safety of                *)
(* WebhookLifecycle.                                                       *)
(* The inductive invariant is TypeInv /\ Held /\ Linked.  CopiesAreCurrent *)
(* alone is not inductive: a step keeps a copy current only because the    *)
(* transaction that made it still holds the invoice row.                   *)
(***************************************************************************)
EXTENDS StripeWebhooks, SumTheorems, SequenceTheorems

\* A transaction knows its event, and from the dispatch on its invoice.
WorkerPlaced(w) ==
  /\ worker[w].pc # "idle" => worker[w].event \in Events
  /\ worker[w].pc \in {"lockInvoice", "lockPayment", "apply"} =>
       /\ worker[w].target \in Invoices
       /\ IsPaid(worker[w].event) => worker[w].event.meta \in {None, worker[w].target}

RequestPlaced(q) ==
  request[q].pc # "idle" => request[q].target \in Invoices /\ request[q].total > 0

Placed ==
  /\ \A w \in Workers : WorkerPlaced(w)
  /\ \A q \in Requests : RequestPlaced(q)

TypeInv == TypeOK /\ Placed
-----------------------------------------------------------------------------
(***************************************************************************)
(* Types.                                                                  *)
(***************************************************************************)

\* The constant rows have the types of their tables.
LEMMA RowTypes ==
  /\ NoPayment \in PaymentRow
  /\ NoInvoice \in InvoiceRow
  /\ EmptyLedger \in LedgerRow
  /\ Idle \in WorkerState /\ Idle.pc = "idle"
  /\ IdleRequest \in RequestState /\ IdleRequest.pc = "idle"
BY DEF NoPayment, PaymentRow, NoInvoice, InvoiceRow, EmptyLedger, LedgerRow, Idle, WorkerState,
       IdleRequest, RequestState

\* The fields of an event that a handler writes.
LEMMA EventTypesOf ==
  ASSUME NEW e \in Events
  PROVE  /\ e.intent \in PaymentIntents \cup {None} /\ e.amount \in Nat
         /\ e.code \in FailureCodes \cup {None}
         /\ IsRefund(e) => e.refund \in RefundIds /\ e.amount \in Nat \ {0}
<1>1. e \in Event
  BY RowAssumptions
<1> QED BY <1>1 DEF Event, IsRefund

\* The initial state is typed.
LEMMA InitTypeInv == Init => TypeInv
<1> SUFFICES ASSUME Init PROVE TypeInv
  OBVIOUS
<1>1. invoice \in [Invoices -> InvoiceRow]
  BY WorkerAssumptions DEF Init, InvoiceRow
<1>2. /\ payment \in [Invoices -> PaymentRow] /\ ledger \in [Invoices -> LedgerRow]
      /\ worker \in [Workers -> WorkerState] /\ request \in [Requests -> RequestState]
  BY RowTypes DEF Init
<1>3. inbox \in Seq(Events)
  BY DEF Init
<1>4. TypeOK
  BY <1>1, <1>2, <1>3 DEF Init, TypeOK
<1>5. Placed
  BY RowTypes DEF Init, Placed, WorkerPlaced, RequestPlaced
<1> QED BY <1>4, <1>5 DEF TypeInv

\* A step of one worker keeps every transaction placed, if it keeps its own.
LEMMA PlacedByWorker ==
  ASSUME TypeInv, NEW w \in Workers, NEW row \in WorkerState,
         worker' = [worker EXCEPT ![w] = row], UNCHANGED request,
         WorkerPlaced(w)'
  PROVE  /\ worker' \in [Workers -> WorkerState] /\ request' \in [Requests -> RequestState]
         /\ Placed'
BY DEF TypeInv, TypeOK, Placed, WorkerPlaced, RequestPlaced

\* So does a step of one request.
LEMMA PlacedByRequest ==
  ASSUME TypeInv, NEW q \in Requests, NEW row \in RequestState,
         request' = [request EXCEPT ![q] = row], UNCHANGED worker,
         row.pc # "idle" => row.target \in Invoices /\ row.total > 0
  PROVE  /\ worker' \in [Workers -> WorkerState] /\ request' \in [Requests -> RequestState]
         /\ Placed'
BY DEF TypeInv, TypeOK, Placed, WorkerPlaced, RequestPlaced

\* The end of a transaction keeps the types.
LEMMA ReleaseTypes ==
  ASSUME TypeInv, NEW w \in Workers, Release(w), UNCHANGED request
  PROVE  /\ worker' \in [Workers -> WorkerState] /\ request' \in [Requests -> RequestState]
         /\ Placed'
         /\ invoiceLock' \in [Invoices -> Workers \cup Requests \cup {None}]
         /\ paymentLock' \in [Invoices -> Workers \cup {None}]
<1>1. worker' = [worker EXCEPT ![w] = Idle]
  BY DEF Release
<1>2. WorkerPlaced(w)'
  BY <1>1, RowTypes DEF TypeInv, TypeOK, WorkerPlaced
<1>3. /\ worker' \in [Workers -> WorkerState] /\ request' \in [Requests -> RequestState]
      /\ Placed'
  BY <1>1, <1>2, RowTypes, PlacedByWorker
<1>4. /\ invoiceLock' \in [Invoices -> Workers \cup Requests \cup {None}]
      /\ paymentLock' \in [Invoices -> Workers \cup {None}]
  BY DEF Release, TypeInv, TypeOK
<1> QED BY <1>3, <1>4

\* What a handler writes to the rows of one invoice.
LEMMA WriteTypes ==
  ASSUME TypeOK, NEW i \in Invoices, NEW e \in Events, NEW pay \in PaymentRow,
         NEW inv \in InvoiceRow,
         \/ WritePaid(i, pay, e)
         \/ IsRefund(e) /\ WriteRefund(i, inv, pay, e)
         \/ WriteFailure(i, e)
  PROVE  /\ invoice' \in [Invoices -> InvoiceRow]
         /\ payment' \in [Invoices -> PaymentRow]
         /\ refunds' \in SUBSET RefundRow
         /\ ledger' \in [Invoices -> LedgerRow]
<1> invoice[i] \in InvoiceRow /\ payment[i] \in PaymentRow /\ ledger[i] \in LedgerRow
  BY DEF TypeOK
<1>1. CASE WritePaid(i, pay, e)
  <2> DEFINE inow == [invoice[i] EXCEPT !.status = IF @ = "issued" THEN "paid" ELSE @]
             pnow == CaptureOn(payment[i], e)
             lnow == [ledger[i] EXCEPT !.captured = @ + pay.amount]
  <2>1. inow \in InvoiceRow /\ pnow \in PaymentRow /\ lnow \in LedgerRow
    BY EventTypesOf DEF InvoiceRow, PaymentRow, LedgerRow, CaptureOn
  <2>2. /\ invoice' = [invoice EXCEPT ![i] = inow] /\ payment' = [payment EXCEPT ![i] = pnow]
        /\ ledger' = [ledger EXCEPT ![i] = lnow] /\ refunds' = refunds
    BY <1>1 DEF WritePaid, TypeOK
  <2> HIDE DEF inow, pnow, lnow
  <2> QED BY <2>1, <2>2 DEF TypeOK
<1>2. CASE IsRefund(e) /\ WriteRefund(i, inv, pay, e)
  <2> DEFINE inow == [invoice[i] EXCEPT !.status =
                        IF Reopens(inv, pay, e) /\ @ = "paid" THEN "issued" ELSE @]
             pnow == [payment[i] EXCEPT !.refunded = RefundOn(pay, e).refunded]
             lnow == [ledger[i] EXCEPT !.refunded = @ - e.amount]
             rnew == [refund |-> e.refund, invoice |-> i, amount |-> e.amount]
  <2>1. e.refund \in RefundIds /\ e.amount \in Nat \ {0}
    BY <1>2, EventTypesOf
  <2>2. RefundOn(pay, e).refunded \in Nat
    BY <2>1 DEF RefundOn, PaymentRow
  <2>3. inow \in InvoiceRow /\ pnow \in PaymentRow /\ lnow \in LedgerRow /\ rnew \in RefundRow
    BY <2>1, <2>2 DEF InvoiceRow, PaymentRow, LedgerRow, RefundRow
  <2>4. /\ invoice' = [invoice EXCEPT ![i] = inow] /\ payment' = [payment EXCEPT ![i] = pnow]
        /\ ledger' = [ledger EXCEPT ![i] = lnow] /\ refunds' = refunds \cup {rnew}
    BY <1>2 DEF WriteRefund, TypeOK
  <2> HIDE DEF inow, pnow, lnow, rnew
  <2> QED BY <2>3, <2>4 DEF TypeOK
<1>3. CASE WriteFailure(i, e)
  <2> DEFINE pnow == FailureOn(payment[i], e)
  <2>1. pnow \in PaymentRow
    BY EventTypesOf DEF PaymentRow, FailureOn
  <2>2. /\ payment' = [payment EXCEPT ![i] = pnow]
        /\ UNCHANGED <<invoice, refunds, ledger>>
    BY <1>3 DEF WriteFailure
  <2> HIDE DEF pnow
  <2> QED BY <2>1, <2>2 DEF TypeOK
<1> QED BY <1>1, <1>2, <1>3

\* Stripe, the endpoint and the purge leave the transactions alone.
LEMMA QueueTypes ==
  ASSUME TypeInv,
         \/ \E e \in Events : Emit(e) \/ Resend(e) \/ \E answered \in BOOLEAN : Deliver(e, answered)
         \/ \E k \in 1 .. Len(inbox) : Purge(k)
  PROVE  TypeInv'
<1> USE DEF TypeInv
<1>1. ASSUME NEW e \in Events, Emit(e) \/ Resend(e) PROVE TypeInv'
  BY <1>1 DEF Emit, Resend, TypeOK, Placed, WorkerPlaced, RequestPlaced, money, queue, locks, faults
<1>2. ASSUME NEW e \in Events, NEW answered \in BOOLEAN, Deliver(e, answered) PROVE TypeInv'
  <2>1. inbox' \in Seq(Events)
    BY <1>2 DEF Deliver, TypeOK
  <2> QED BY <1>2, <2>1
      DEF Deliver, TypeOK, Placed, WorkerPlaced, RequestPlaced, money, locks, faults
<1>3. ASSUME NEW k \in 1 .. Len(inbox), Purge(k) PROVE TypeInv'
  <2>1. inbox' \in Seq(Events)
    BY <1>3 DEF Purge, TypeOK
  <2>2. attempts' \in [Events -> Nat] /\ purges' \in Nat /\ processed' \in SUBSET Events
    BY <1>3 DEF Purge, TypeOK
  <2> QED BY <1>3, <2>1, <2>2
      DEF Purge, TypeOK, Placed, WorkerPlaced, RequestPlaced, money, locks, faults
<1> QED BY <1>1, <1>2, <1>3

\* A worker takes an event, finds its invoice and locks the rows.
LEMMA LockingTypes ==
  ASSUME TypeInv, NEW w \in Workers,
         LockNext(w) \/ Dispatch(w) \/ LockInvoice(w) \/ LockPayment(w)
  PROVE  TypeInv'
<1>0. worker[w] \in WorkerState /\ WorkerPlaced(w)
  BY DEF TypeInv, TypeOK, Placed
<1>1. ASSUME NEW row \in WorkerState, worker' = [worker EXCEPT ![w] = row],
             UNCHANGED <<money, queue, stripe, request, linkAmount, faults, effects>>,
             invoiceLock' \in [Invoices -> Workers \cup Requests \cup {None}],
             paymentLock' \in [Invoices -> Workers \cup {None}],
             row.pc # "idle" => row.event \in Events,
             row.pc \in {"lockInvoice", "lockPayment", "apply"} =>
               row.target \in Invoices /\ (IsPaid(row.event) => row.event.meta \in {None, row.target})
      PROVE  TypeInv'
  <2>1. worker'[w] = row
    BY <1>1 DEF TypeInv, TypeOK
  <2>2. WorkerPlaced(w)'
    BY <1>1, <2>1 DEF WorkerPlaced
  <2>3. worker' \in [Workers -> WorkerState] /\ request' \in [Requests -> RequestState] /\ Placed'
    BY <1>1, <2>2, PlacedByWorker
  <2>4. TypeOK'
    BY <1>1, <2>3 DEF TypeInv, TypeOK, money, queue, faults
  <2> QED BY <2>3, <2>4 DEF TypeInv
<1>2. CASE LockNext(w)
  <2>1. PICK k \in DOMAIN inbox :
          worker' = [worker EXCEPT ![w] = [Idle EXCEPT !.pc = "dispatch", !.event = inbox[k]]]
    BY <1>2 DEF LockNext
  <2>2. inbox[k] \in Events
    BY DEF TypeInv, TypeOK
  <2> DEFINE row == [Idle EXCEPT !.pc = "dispatch", !.event = inbox[k]]
  <2>3. row \in WorkerState /\ row.pc = "dispatch" /\ row.event = inbox[k]
    BY <2>2, RowTypes DEF WorkerState, Idle
  <2> HIDE DEF row
  <2>4. worker' = [worker EXCEPT ![w] = row]
    BY <2>1 DEF row
  <2> QED BY <1>1, <1>2, <2>2, <2>3, <2>4 DEF LockNext, locks, TypeInv, TypeOK
<1>3. CASE Dispatch(w)
  <2> DEFINE e == worker[w].event
  <2>0. e \in Events /\ worker[w].pc = "dispatch"
    BY <1>0, <1>3 DEF Dispatch, WorkerPlaced
  <2>1. ASSUME NEW pc \in {"fail", "skip"}, Goto(w, pc) PROVE TypeInv'
    <3> DEFINE row == [worker[w] EXCEPT !.pc = pc]
    <3>1. row \in WorkerState /\ row.pc = pc /\ row.event = e
      BY <1>0 DEF WorkerState
    <3>2. worker' = [worker EXCEPT ![w] = row]
      BY <2>1 DEF Goto
    <3> HIDE DEF row
    <3> QED BY <1>1, <1>3, <2>0, <3>1, <3>2 DEF Dispatch, locks, TypeInv, TypeOK
  <2>2. ASSUME NEW i \in Targets(e),
               worker' = [worker EXCEPT ![w].pc = "lockInvoice", ![w].target = i]
        PROVE  TypeInv'
    <3> DEFINE row == [worker[w] EXCEPT !.pc = "lockInvoice", !.target = i]
    <3>0. i \in Invoices /\ (IsPaid(e) => e.meta \in {None, i})
      BY <2>2 DEF Targets, ResolvesTo
    <3>1. row \in WorkerState /\ row.pc = "lockInvoice" /\ row.event = e /\ row.target = i
      BY <1>0, <3>0 DEF WorkerState
    <3>2. worker' = [worker EXCEPT ![w] = row]
      BY <2>2
    <3> HIDE DEF row
    <3> QED BY <1>1, <1>3, <2>0, <3>0, <3>1, <3>2 DEF Dispatch, locks, TypeInv, TypeOK
  <2> QED BY <1>3, <2>1, <2>2 DEF Dispatch
<1>4. CASE LockInvoice(w)
  <2> DEFINE e == worker[w].event
             i == worker[w].target
             pc == IF IsPaid(e) /\ invoice[i].status = "paid" THEN "skip"
                   ELSE IF IsPaid(e) /\ invoice[i].status # "issued" THEN "fail"
                   ELSE "lockPayment"
             row == [worker[w] EXCEPT !.inv = invoice[i], !.pc = pc]
  <2>0. /\ e \in Events /\ i \in Invoices /\ (IsPaid(e) => e.meta \in {None, i})
        /\ invoice[i] \in InvoiceRow
    BY <1>0, <1>4 DEF LockInvoice, WorkerPlaced, TypeInv, TypeOK
  <2>1. pc \in {"skip", "fail", "lockPayment"}
    OBVIOUS
  <2>2. worker' = [worker EXCEPT ![w] = row]
    BY <1>4 DEF LockInvoice
  <2> HIDE DEF pc
  <2>3. row \in WorkerState /\ row.event = e /\ row.target = i
    BY <1>0, <2>0, <2>1 DEF WorkerState
  <2>4. invoiceLock' \in [Invoices -> Workers \cup Requests \cup {None}]
    BY <1>4 DEF LockInvoice, TypeInv, TypeOK
  <2> HIDE DEF row
  <2> QED BY <1>1, <1>4, <2>0, <2>2, <2>3, <2>4 DEF LockInvoice, TypeInv, TypeOK
<1>5. CASE LockPayment(w)
  <2> DEFINE e == worker[w].event
             i == worker[w].target
             pc == Verdict(e, i, worker[w].inv, payment[i])
             row == [worker[w] EXCEPT !.pay = payment[i], !.pc = pc]
  <2>0. /\ e \in Events /\ i \in Invoices /\ (IsPaid(e) => e.meta \in {None, i})
        /\ payment[i] \in PaymentRow
    BY <1>0, <1>5 DEF LockPayment, WorkerPlaced, TypeInv, TypeOK
  <2>1. pc \in {"skip", "fail", "apply"}
    BY DEF Verdict
  <2>2. worker' = [worker EXCEPT ![w] = row]
    BY <1>5 DEF LockPayment
  <2> HIDE DEF pc
  <2>3. row \in WorkerState /\ row.event = e /\ row.target = i
    BY <1>0, <2>0, <2>1 DEF WorkerState
  <2>4. paymentLock' \in [Invoices -> Workers \cup {None}]
    BY <1>5 DEF LockPayment, TypeInv, TypeOK
  <2> HIDE DEF row
  <2> QED BY <1>1, <1>5, <2>0, <2>2, <2>3, <2>4 DEF LockPayment, TypeInv, TypeOK
<1> QED BY <1>2, <1>3, <1>4, <1>5

\* A worker ends its transaction, with a commit or without.
LEMMA EndingTypes ==
  ASSUME TypeInv, NEW w \in Workers, Commit(w) \/ Crash(w)
  PROVE  TypeInv'
<1>0. worker[w] \in WorkerState /\ WorkerPlaced(w)
  BY DEF TypeInv, TypeOK, Placed
<1>1. Release(w) /\ UNCHANGED <<inbox, stripe, request, linkAmount, purges>>
  BY DEF Commit, CommitHandled, CommitFailure, Crash, queue, faults
<1>2. /\ worker' \in [Workers -> WorkerState] /\ request' \in [Requests -> RequestState]
      /\ Placed'
      /\ invoiceLock' \in [Invoices -> Workers \cup Requests \cup {None}]
      /\ paymentLock' \in [Invoices -> Workers \cup {None}]
  BY <1>1, ReleaseTypes
<1>3. CASE CommitHandled(w)
  <2>1. worker[w].event \in Events
    BY <1>0, <1>3 DEF CommitHandled, WorkerPlaced
  <2>2. effects' \in [Events -> Nat] /\ processed' \in SUBSET Events
    <3>1. effects' = effects \/ effects' = [effects EXCEPT ![worker[w].event] = @ + 1]
      BY <1>3 DEF CommitHandled
    <3>2. processed' = processed \cup {worker[w].event}
      BY <1>3 DEF CommitHandled
    <3> QED BY <2>1, <3>1, <3>2 DEF TypeInv, TypeOK
  <2>3. /\ invoice' \in [Invoices -> InvoiceRow] /\ payment' \in [Invoices -> PaymentRow]
        /\ refunds' \in SUBSET RefundRow /\ ledger' \in [Invoices -> LedgerRow]
    <3>1. CASE UNCHANGED money
      BY <3>1 DEF money, TypeInv, TypeOK
    <3>2. CASE ~UNCHANGED money
      <4>1. /\ worker[w].pc = "apply"
            /\ \/ WritePaid(worker[w].target, worker[w].pay, worker[w].event)
               \/ /\ IsRefund(worker[w].event)
                  /\ WriteRefund(worker[w].target, worker[w].inv, worker[w].pay, worker[w].event)
               \/ WriteFailure(worker[w].target, worker[w].event)
        BY <1>3, <3>2 DEF CommitHandled
      <4>2. /\ worker[w].target \in Invoices
            /\ worker[w].inv \in InvoiceRow /\ worker[w].pay \in PaymentRow
        BY <1>0, <4>1 DEF WorkerPlaced, WorkerState
      <4> QED BY <2>1, <4>1, <4>2, WriteTypes DEF TypeInv
    <3> QED BY <3>1, <3>2
  <2> QED BY <1>1, <1>2, <1>3, <2>2, <2>3 DEF CommitHandled, TypeInv, TypeOK, faults
<1>4. CASE CommitFailure(w)
  <2>1. worker[w].event \in Events
    BY <1>0, <1>4 DEF CommitFailure, WorkerPlaced
  <2>2. /\ attempts' \in [Events -> Nat] /\ deadLetters' \in [Events -> Nat]
        /\ processed' \in SUBSET Events
    BY <1>4, <2>1 DEF CommitFailure, TypeInv, TypeOK
  <2> QED BY <1>1, <1>2, <1>4, <2>2 DEF CommitFailure, TypeInv, TypeOK, faults, money
<1>5. CASE Crash(w)
  <2>1. crashes' \in Nat
    BY <1>5 DEF Crash, TypeInv, TypeOK
  <2> QED BY <1>1, <1>2, <1>5, <2>1 DEF Crash, TypeInv, TypeOK, money, queue
<1> QED BY <1>3, <1>4, <1>5 DEF Commit

\* PatchInvoiceLineItems and SendInvoice.
LEMMA DraftTypes ==
  ASSUME TypeInv, NEW i \in Invoices,
         SendInvoice(i) \/ \E total \in Totals : PatchDraft(i, total)
  PROVE  TypeInv'
<1>0. invoice[i] \in InvoiceRow /\ ledger[i] \in LedgerRow
  BY DEF TypeInv, TypeOK
<1>1. CASE SendInvoice(i)
  <2> DEFINE inow == [invoice[i] EXCEPT !.status = "issued"]
             lnow == [ledger[i] EXCEPT !.issued = @ + invoice[i].total]
  <2>1. inow \in InvoiceRow /\ lnow \in LedgerRow
    BY <1>0 DEF InvoiceRow, LedgerRow
  <2>2. invoice' = [invoice EXCEPT ![i] = inow] /\ ledger' = [ledger EXCEPT ![i] = lnow]
    BY <1>1 DEF SendInvoice
  <2> HIDE DEF inow, lnow
  <2>3. invoice' \in [Invoices -> InvoiceRow] /\ ledger' \in [Invoices -> LedgerRow]
    BY <2>1, <2>2 DEF TypeInv, TypeOK
  <2>4. TypeOK'
    BY <1>1, <2>3 DEF SendInvoice, TypeInv, TypeOK, queue, locks, faults
  <2>5. Placed'
    BY <1>1 DEF SendInvoice, TypeInv, Placed, WorkerPlaced, RequestPlaced
  <2> QED BY <2>4, <2>5 DEF TypeInv
<1>2. ASSUME NEW total \in Totals, PatchDraft(i, total) PROVE TypeInv'
  <2> DEFINE inow == [invoice[i] EXCEPT !.total = total]
  <2>1. inow \in InvoiceRow
    BY <1>0, WorkerAssumptions DEF InvoiceRow
  <2>2. invoice' = [invoice EXCEPT ![i] = inow]
    BY <1>2 DEF PatchDraft
  <2> HIDE DEF inow
  <2>3. TypeOK'
    BY <1>2, <2>1, <2>2 DEF PatchDraft, TypeInv, TypeOK, queue, locks, faults
  <2>4. Placed'
    BY <1>2 DEF PatchDraft, TypeInv, Placed, WorkerPlaced, RequestPlaced
  <2> QED BY <2>3, <2>4 DEF TypeInv
<1> QED BY <1>1, <1>2

\* The payment link requests.
LEMMA RequestTypes ==
  ASSUME TypeInv, NEW q \in Requests,
         RequestStep(q) \/ \E i \in Invoices : BeginLink(q, i)
  PROVE  TypeInv'
<1>0. request[q] \in RequestState /\ RequestPlaced(q)
  BY DEF TypeInv, TypeOK, Placed
<1>1. ASSUME NEW row \in RequestState, request' = [request EXCEPT ![q] = row],
             row.pc # "idle" => row.target \in Invoices /\ row.total > 0,
             UNCHANGED <<invoice, refunds, ledger, queue, stripe, worker, paymentLock, faults,
                         effects>>,
             invoiceLock' \in [Invoices -> Workers \cup Requests \cup {None}],
             payment' \in [Invoices -> PaymentRow],
             linkAmount' \in [Invoices -> Nat]
      PROVE  TypeInv'
  <2>1. worker' \in [Workers -> WorkerState] /\ request' \in [Requests -> RequestState] /\ Placed'
    BY <1>1, PlacedByRequest
  <2> QED BY <1>1, <2>1 DEF TypeInv, TypeOK, queue, faults
<1> DEFINE i == request[q].target
<1>2. CASE CallStripe(q)
  <2> DEFINE row == IF request[q].pc = "calling" THEN [request[q] EXCEPT !.pc = "called"]
                    ELSE IdleRequest
  <2>1. /\ row \in RequestState
        /\ row.pc # "idle" => row.target \in Invoices /\ row.total > 0
    BY <1>0, <1>2, RowTypes DEF CallStripe, RequestPlaced, RequestState
  <2>2. request' = [request EXCEPT ![q] = row]
    BY <1>2 DEF CallStripe
  <2>3. linkAmount' \in [Invoices -> Nat]
    BY <1>0, <1>2 DEF CallStripe, RequestState, TypeInv, TypeOK
  <2> HIDE DEF row
  <2> QED BY <1>1, <1>2, <2>1, <2>2, <2>3 DEF CallStripe, TypeInv, TypeOK, money, locks
<1>3. CASE CommitLink(q)
  <2> DEFINE pnow == IF HasPayment(payment[i]) THEN payment[i]
                     ELSE [NewPayment(i, invoice[i]) EXCEPT !.amount = request[q].total]
  <2>1. i \in Invoices /\ request[q].total \in Nat /\ payment[i] \in PaymentRow
    BY <1>0, <1>3 DEF CommitLink, RequestPlaced, RequestState, TypeInv, TypeOK
  <2>2. pnow \in PaymentRow
    BY <2>1, RowAssumptions DEF PaymentRow, NewPayment
  <2>3. payment' = [payment EXCEPT ![i] = pnow]
    BY <1>3 DEF CommitLink
  <2> HIDE DEF pnow
  <2>4. invoiceLock' \in [Invoices -> Workers \cup Requests \cup {None}]
    BY <1>3 DEF CommitLink, EndTransaction, TypeInv, TypeOK
  <2>5. payment' \in [Invoices -> PaymentRow]
    BY <2>2, <2>3 DEF TypeInv, TypeOK
  <2> QED BY <1>1, <1>3, <2>4, <2>5, RowTypes DEF CommitLink, EndTransaction, TypeInv, TypeOK
<1>4. CASE AbortLink(q)
  <2>1. invoiceLock' \in [Invoices -> Workers \cup Requests \cup {None}]
    BY <1>4 DEF AbortLink, EndTransaction, TypeInv, TypeOK
  <2>2. ASSUME request' = [request EXCEPT ![q] = IdleRequest] PROVE TypeInv'
    BY <1>1, <1>4, <2>1, <2>2, RowTypes DEF AbortLink, EndTransaction, TypeInv, TypeOK, money
  <2>3. ASSUME request[q].pc = "calling", request' = [request EXCEPT ![q].pc = "abandoned"]
        PROVE  TypeInv'
    <3> DEFINE row == [request[q] EXCEPT !.pc = "abandoned"]
    <3>1. row \in RequestState /\ row.target \in Invoices /\ row.total > 0
      BY <1>0, <2>3 DEF RequestPlaced, RequestState
    <3>2. request' = [request EXCEPT ![q] = row]
      BY <2>3
    <3> HIDE DEF row
    <3> QED BY <1>1, <1>4, <2>1, <3>1, <3>2 DEF AbortLink, EndTransaction, TypeInv, TypeOK, money
  <2> QED BY <1>4, <2>2, <2>3 DEF AbortLink
<1>5. CASE DropLink(q)
  BY <1>1, <1>5, RowTypes DEF DropLink, TypeInv, TypeOK, money, locks
<1>6. ASSUME NEW j \in Invoices, BeginLink(q, j) PROVE TypeInv'
  <2> DEFINE row == [pc |-> "calling", target |-> j, total |-> invoice[j].total]
  <2>1. row \in RequestState /\ row.target \in Invoices /\ row.total > 0
    BY <1>6 DEF BeginLink, RequestState, InvoiceRow, TypeInv, TypeOK
  <2>2. request' = [request EXCEPT ![q] = row]
    BY <1>6 DEF BeginLink
  <2> HIDE DEF row
  <2>3. invoiceLock' \in [Invoices -> Workers \cup Requests \cup {None}]
    BY <1>6 DEF BeginLink, TypeInv, TypeOK
  <2> QED BY <1>1, <1>6, <2>1, <2>2, <2>3 DEF BeginLink, TypeInv, TypeOK, money
<1> QED BY <1>2, <1>3, <1>4, <1>5, <1>6 DEF RequestStep

\* Every step keeps the types.
LEMMA TypeInvStep == TypeInv /\ [Next]_vars => TypeInv'
<1> SUFFICES ASSUME TypeInv, [Next]_vars PROVE TypeInv'
  OBVIOUS
<1>1. CASE Next
  BY <1>1, QueueTypes, LockingTypes, EndingTypes, DraftTypes, RequestTypes DEF Next, WorkerStep
<1>2. CASE UNCHANGED vars
  BY <1>2 DEF vars, money, queue, locks, faults, TypeInv, TypeOK, Placed, WorkerPlaced,
              RequestPlaced
<1> QED BY <1>1, <1>2
-----------------------------------------------------------------------------
(***************************************************************************)
(* What a transaction holds.  Whoever has the invoice row has its payment   *)
(* row too, because every writer of either locks the invoice first.        *)
(***************************************************************************)
WorkerHolds(w) ==
  LET t == worker[w].target IN
  /\ worker[w].pc \in {"lockPayment", "apply"} => invoiceLock[t] = w /\ worker[w].inv = invoice[t]
  /\ worker[w].pc = "apply" =>
       worker[w].pay = payment[t] /\ Verdict(worker[w].event, t, invoice[t], payment[t]) = "apply"

RequestHolds(q) ==
  LET t == request[q].target IN
  request[q].pc \in {"calling", "called"} =>
    /\ invoiceLock[t] = q
    /\ invoice[t] = [status |-> "issued", total |-> request[q].total]
    /\ ~HasPayment(payment[t])

Held == (\A w \in Workers : WorkerHolds(w)) /\ (\A q \in Requests : RequestHolds(q))

\* The link of an invoice is made for the total the invoice was sent with.
LinkMade(i) ==
  /\ linkAmount[i] # 0 => invoice[i].status # "draft" /\ linkAmount[i] = invoice[i].total
  /\ HasPayment(payment[i]) => linkAmount[i] # 0 /\ payment[i].amount = linkAmount[i]

LinkWanted(q) ==
  LET t == request[q].target IN
  request[q].pc # "idle" =>
    /\ invoice[t].status # "draft" /\ invoice[t].total = request[q].total
    /\ request[q].pc = "called" => linkAmount[t] = request[q].total

Linked == (\A i \in Invoices : LinkMade(i)) /\ (\A q \in Requests : LinkWanted(q))

IInv == TypeInv /\ Held /\ Linked

\* A step of x leaves the rows alone that another transaction has locked.
OthersKept(x) ==
  \A i \in Invoices :
    invoiceLock[i] \notin {None, x} =>
      invoiceLock'[i] = invoiceLock[i] /\ invoice'[i] = invoice[i] /\ payment'[i] = payment[i]

\* An invoice that was sent keeps its total, and a payment row its amount.
AmountsKept ==
  \A i \in Invoices :
    /\ invoice[i].status # "draft" =>
         invoice'[i].status # "draft" /\ invoice'[i].total = invoice[i].total
    /\ HasPayment(payment'[i]) =>
         HasPayment(payment[i]) /\ payment'[i].amount = payment[i].amount

\* At first nothing is held and no link is made.
LEMMA InitIInv == Init => IInv
<1> SUFFICES ASSUME Init PROVE IInv
  OBVIOUS
<1>1. TypeInv
  BY InitTypeInv
<1>2. Held
  BY RowTypes DEF Init, Held, WorkerHolds, RequestHolds
<1>3. \A i \in Invoices : ~HasPayment(payment[i]) /\ linkAmount[i] = 0
  BY DEF Init, HasPayment, NoPayment
<1>4. \A q \in Requests : request[q].pc = "idle"
  BY RowTypes DEF Init
<1>5. Linked
  BY <1>3, <1>4 DEF Linked, LinkMade, LinkWanted
<1> QED BY <1>1, <1>2, <1>5 DEF IInv

\* A step of x keeps what the others hold.
LEMMA HeldBy ==
  ASSUME TypeInv, Held, NEW x, OthersKept(x),
         \A w \in Workers \ {x} : worker'[w] = worker[w],
         \A q \in Requests \ {x} : request'[q] = request[q],
         x \in Workers => WorkerHolds(x)',
         x \in Requests => RequestHolds(x)'
  PROVE  Held'
<1>1. ASSUME NEW w \in Workers \ {x} PROVE WorkerHolds(w)'
  <2>1. WorkerHolds(w) /\ WorkerPlaced(w) /\ worker'[w] = worker[w] /\ w # None
    BY WorkerAssumptions DEF Held, TypeInv, Placed
  <2> QED BY <2>1 DEF WorkerHolds, WorkerPlaced, OthersKept
<1>2. ASSUME NEW q \in Requests \ {x} PROVE RequestHolds(q)'
  <2>1. RequestHolds(q) /\ RequestPlaced(q) /\ request'[q] = request[q] /\ q # None
    BY WorkerAssumptions DEF Held, TypeInv, Placed
  <2> QED BY <2>1 DEF RequestHolds, RequestPlaced, OthersKept
<1> QED BY <1>1, <1>2 DEF Held

\* A step that keeps the fixed amounts keeps the links.
LEMMA LinkedBy ==
  ASSUME TypeInv, Linked, AmountsKept, UNCHANGED <<linkAmount, request>>
  PROVE  Linked'
<1>1. ASSUME NEW i \in Invoices PROVE LinkMade(i)'
  BY DEF Linked, LinkMade, AmountsKept
<1>2. ASSUME NEW q \in Requests PROVE LinkWanted(q)'
  <2>1. LinkWanted(q) /\ RequestPlaced(q)
    BY DEF Linked, TypeInv, Placed
  <2> QED BY <2>1 DEF LinkWanted, RequestPlaced, AmountsKept
<1> QED BY <1>1, <1>2 DEF Linked

\* The three writes stay on one invoice and change no amount that is fixed.
LEMMA WriteKeeps ==
  ASSUME TypeOK, NEW i \in Invoices, NEW e, NEW pay, NEW inv,
         \/ WritePaid(i, pay, e)
         \/ WriteRefund(i, inv, pay, e)
         \/ WriteFailure(i, e)
  PROVE  /\ \A j \in Invoices \ {i} : invoice'[j] = invoice[j] /\ payment'[j] = payment[j]
         /\ AmountsKept
<1> DEFINE inow == invoice'[i]
           pnow == payment'[i]
<1>0. invoice[i] \in InvoiceRow /\ payment[i] \in PaymentRow
  BY DEF TypeOK
<1>1. \A j \in Invoices \ {i} : invoice'[j] = invoice[j] /\ payment'[j] = payment[j]
  BY DEF TypeOK, WritePaid, WriteRefund, WriteFailure
<1>2. \E status \in {"draft", "issued", "paid"} :
        /\ invoice'[i] = [invoice[i] EXCEPT !.status = status]
        /\ invoice[i].status # "draft" => status # "draft"
  <2>1. CASE WritePaid(i, pay, e)
    <3>1. invoice'[i] = [invoice[i] EXCEPT !.status =
                           IF invoice[i].status = "issued" THEN "paid" ELSE invoice[i].status]
      BY <2>1 DEF WritePaid, TypeOK
    <3> QED BY <1>0, <3>1 DEF InvoiceRow
  <2>2. CASE WriteRefund(i, inv, pay, e)
    <3>1. invoice'[i] = [invoice[i] EXCEPT !.status =
                           IF Reopens(inv, pay, e) /\ invoice[i].status = "paid" THEN "issued"
                           ELSE invoice[i].status]
      BY <2>2 DEF WriteRefund, TypeOK
    <3> QED BY <1>0, <3>1 DEF InvoiceRow
  <2>3. CASE WriteFailure(i, e)
    <3>1. invoice'[i] = [invoice[i] EXCEPT !.status = invoice[i].status]
      BY <1>0, <2>3 DEF WriteFailure, InvoiceRow
    <3> QED BY <1>0, <3>1 DEF InvoiceRow
  <2> QED BY <2>1, <2>2, <2>3
<1>3. payment'[i].link = payment[i].link /\ payment'[i].amount = payment[i].amount
  BY <1>0 DEF TypeOK, PaymentRow, WritePaid, WriteRefund, WriteFailure, CaptureOn, FailureOn
<1>4. AmountsKept
  <2>1. invoice'[i].total = invoice[i].total
    BY <1>0, <1>2 DEF InvoiceRow
  <2>2. invoice[i].status # "draft" => invoice'[i].status # "draft"
    BY <1>0, <1>2 DEF InvoiceRow
  <2> QED BY <1>1, <1>3, <2>1, <2>2 DEF AmountsKept, HasPayment
<1> QED BY <1>1, <1>4

\* Stripe, the endpoint and the purge hold nothing and write no money row.
LEMMA QueueIInv ==
  ASSUME IInv,
         \/ \E e \in Events : Emit(e) \/ Resend(e) \/ \E answered \in BOOLEAN : Deliver(e, answered)
         \/ \E k \in 1 .. Len(inbox) : Purge(k)
         \/ UNCHANGED vars
  PROVE  Held' /\ Linked' /\ UNCHANGED money
<1>1. UNCHANGED <<money, worker, request, locks, linkAmount>>
  BY DEF Emit, Resend, Deliver, Purge, vars
<1>2. Held'
  BY <1>1 DEF IInv, Held, WorkerHolds, RequestHolds, money, locks
<1>3. Linked'
  BY <1>1 DEF IInv, Linked, LinkMade, LinkWanted, money
<1> QED BY <1>1, <1>2, <1>3

\* Workers up to the commit: what is read under lock is held.
LEMMA LockingIInv ==
  ASSUME IInv, NEW w \in Workers,
         LockNext(w) \/ Dispatch(w) \/ LockInvoice(w) \/ LockPayment(w)
  PROVE  Held' /\ Linked' /\ UNCHANGED money
<1>0. worker[w] \in WorkerState /\ WorkerPlaced(w) /\ WorkerHolds(w) /\ w \notin Requests
  BY WorkerAssumptions DEF IInv, TypeInv, TypeOK, Placed, Held
<1>1. UNCHANGED <<money, request, linkAmount>>
  BY DEF LockNext, Dispatch, LockInvoice, LockPayment
<1>2. \A v \in Workers \ {w} : worker'[v] = worker[v]
  BY DEF LockNext, Dispatch, LockInvoice, LockPayment, Goto, IInv, TypeInv, TypeOK
<1>3. OthersKept(w)
  BY <1>1 DEF OthersKept, LockNext, Dispatch, LockInvoice, LockPayment, locks, money,
              IInv, TypeInv, TypeOK
<1>4. WorkerHolds(w)'
  <2>1. CASE LockNext(w)
    <3>1. worker'[w].pc = "dispatch"
      BY <2>1 DEF LockNext, Idle, IInv, TypeInv, TypeOK
    <3> QED BY <3>1 DEF WorkerHolds
  <2>2. CASE Dispatch(w)
    <3>1. worker'[w].pc \in {"fail", "skip", "lockInvoice"}
      BY <1>0, <2>2 DEF Dispatch, Goto, WorkerState, IInv, TypeInv, TypeOK
    <3> QED BY <3>1 DEF WorkerHolds
  <2>3. CASE LockInvoice(w)
    <3> DEFINE i == worker[w].target
    <3>1. i \in Invoices
      BY <1>0, <2>3 DEF WorkerPlaced, LockInvoice
    <3>2. invoiceLock'[i] = w
      BY <2>3, <3>1 DEF LockInvoice, IInv, TypeInv, TypeOK
    <3>3. /\ worker'[w].target = i /\ worker'[w].inv = invoice[i]
          /\ worker'[w].pc \in {"skip", "fail", "lockPayment"}
      BY <1>0, <2>3 DEF LockInvoice, WorkerState, IInv, TypeInv, TypeOK
    <3> QED BY <1>1, <3>2, <3>3 DEF WorkerHolds, money
  <2>4. CASE LockPayment(w)
    <3> DEFINE i == worker[w].target
               verdict == Verdict(worker[w].event, i, worker[w].inv, payment[i])
    <3>1. invoiceLock'[i] = w /\ worker[w].inv = invoice[i]
      BY <1>0, <2>4 DEF WorkerHolds, LockPayment
    <3>2. worker' = [worker EXCEPT ![w] = [@ EXCEPT !.pay = payment[i], !.pc = verdict]]
      BY <2>4 DEF LockPayment
    <3>3. /\ worker'[w].target = i /\ worker'[w].inv = worker[w].inv
          /\ worker'[w].event = worker[w].event
          /\ worker'[w].pay = payment[i] /\ worker'[w].pc = verdict
      BY <1>0, <3>2 DEF WorkerState, IInv, TypeInv, TypeOK
    <3>4. UNCHANGED <<invoice, payment>>
      BY <1>1 DEF money
    <3>5. verdict = Verdict(worker[w].event, i, invoice[i], payment[i])
      BY <3>1
    <3> HIDE DEF verdict
    <3>6. Verdict(worker[w].event, i, invoice[i], payment[i])'
            = Verdict(worker[w].event, i, invoice[i], payment[i])
      BY <3>3, <3>4 DEF Verdict
    <3> QED BY <3>1, <3>3, <3>4, <3>5, <3>6 DEF WorkerHolds
  <2> QED BY <2>1, <2>2, <2>3, <2>4
<1>5. Held'
  BY <1>0, <1>1, <1>2, <1>3, <1>4, HeldBy DEF IInv
<1>6. Linked'
  BY <1>1 DEF IInv, Linked, LinkMade, LinkWanted, money
<1> QED BY <1>1, <1>5, <1>6

\* How a transaction of a worker ends: what it writes, it writes to rows it holds.
LEMMA HandledWrites ==
  ASSUME IInv, NEW w \in Workers, CommitHandled(w)
  PROVE  \/ UNCHANGED money
         \/ /\ worker[w].pc = "apply" /\ ~Recorded(w)
            /\ worker[w].event \in Events /\ worker[w].target \in Invoices
            /\ \/ /\ IsPaid(worker[w].event)
                  /\ WritePaid(worker[w].target, worker[w].pay, worker[w].event)
               \/ /\ IsRefund(worker[w].event)
                  /\ WriteRefund(worker[w].target, worker[w].inv, worker[w].pay, worker[w].event)
               \/ /\ IsFailure(worker[w].event)
                  /\ WriteFailure(worker[w].target, worker[w].event)
<1>1. WorkerPlaced(w)
  BY DEF IInv, TypeInv, Placed
<1> QED BY <1>1 DEF CommitHandled, WorkerPlaced

\* Commits and rollbacks of workers change only rows the worker holds.
LEMMA EndingIInv ==
  ASSUME IInv, NEW w \in Workers, Commit(w) \/ Crash(w)
  PROVE  Held' /\ Linked'
<1>0. WorkerHolds(w) /\ w \notin Requests
  BY WorkerAssumptions DEF IInv, Held
<1>1. Release(w) /\ UNCHANGED <<request, linkAmount>>
  BY DEF Commit, CommitHandled, CommitFailure, Crash
<1>2. \A v \in Workers \ {w} : worker'[v] = worker[v]
  BY <1>1 DEF Release, IInv, TypeInv, TypeOK
<1>3. worker'[w].pc = "idle"
  BY <1>1, RowTypes DEF Release, IInv, TypeInv, TypeOK
<1>4. \A i \in Invoices : invoiceLock[i] # w => invoiceLock'[i] = invoiceLock[i]
  BY <1>1 DEF Release
<1>5. /\ \A i \in Invoices : invoiceLock[i] # w => invoice'[i] = invoice[i] /\ payment'[i] = payment[i]
      /\ AmountsKept
  <2>1. CASE UNCHANGED money
    BY <2>1 DEF money, AmountsKept
  <2>2. CASE ~UNCHANGED money
    <3>1. CommitHandled(w)
      BY <2>2 DEF Commit, CommitFailure, Crash
    <3>2. /\ worker[w].pc = "apply" /\ worker[w].target \in Invoices
          /\ \/ WritePaid(worker[w].target, worker[w].pay, worker[w].event)
             \/ WriteRefund(worker[w].target, worker[w].inv, worker[w].pay, worker[w].event)
             \/ WriteFailure(worker[w].target, worker[w].event)
      BY <2>2, <3>1, HandledWrites
    <3>3. invoiceLock[worker[w].target] = w
      BY <1>0, <3>2 DEF WorkerHolds
    <3> QED BY <3>2, <3>3, WriteKeeps DEF IInv, TypeInv
  <2> QED BY <2>1, <2>2
<1>6. OthersKept(w)
  BY <1>4, <1>5 DEF OthersKept
<1>7. WorkerHolds(w)'
  BY <1>3 DEF WorkerHolds
<1>8. Held'
  BY <1>0, <1>1, <1>2, <1>6, <1>7, HeldBy DEF IInv
<1>9. Linked'
  BY <1>1, <1>5, LinkedBy DEF IInv
<1> QED BY <1>8, <1>9

\* Changes of a draft touch an invoice that nobody holds.
LEMMA DraftIInv ==
  ASSUME IInv, NEW i \in Invoices,
         SendInvoice(i) \/ \E total \in Totals : PatchDraft(i, total)
  PROVE  Held' /\ Linked'
<1>1. /\ invoiceLock[i] = None /\ invoice[i].status = "draft"
      /\ UNCHANGED <<payment, worker, request, locks, linkAmount>>
  BY DEF SendInvoice, PatchDraft
<1>2. \A j \in Invoices \ {i} : invoice'[j] = invoice[j]
  BY DEF SendInvoice, PatchDraft, IInv, TypeInv, TypeOK
<1>3. OthersKept(None)
  BY <1>1, <1>2 DEF OthersKept, locks
<1>4. Held'
  BY <1>1, <1>3, HeldBy, WorkerAssumptions DEF IInv
<1>5. AmountsKept
  BY <1>1, <1>2 DEF AmountsKept
<1>6. Linked'
  BY <1>1, <1>5, LinkedBy DEF IInv
<1> QED BY <1>4, <1>6

\* Payment link requests, from the lock to the end.
LEMMA RequestIInv ==
  ASSUME IInv, NEW q \in Requests,
         RequestStep(q) \/ \E i \in Invoices : BeginLink(q, i)
  PROVE  Held' /\ Linked'
<1> DEFINE i == request[q].target
           n == request[q].total
<1>0. /\ request[q] \in RequestState /\ RequestPlaced(q) /\ RequestHolds(q) /\ LinkWanted(q)
      /\ q \notin Workers
  BY WorkerAssumptions DEF IInv, TypeInv, TypeOK, Placed, Held, Linked
<1>1. /\ UNCHANGED <<invoice, worker>>
      /\ \A r \in Requests \ {q} : request'[r] = request[r]
  BY DEF RequestStep, CallStripe, CommitLink, AbortLink, DropLink, BeginLink, money,
         IInv, TypeInv, TypeOK
<1>2. ASSUME OthersKept(q), RequestHolds(q)' PROVE Held'
  BY <1>0, <1>1, <1>2, HeldBy DEF IInv
<1>3. ASSUME NEW r \in Requests \ {q},
             \A j \in Invoices : linkAmount[j] # 0 => linkAmount'[j] = linkAmount[j]
      PROVE  LinkWanted(r)'
  <2>1. LinkWanted(r) /\ RequestPlaced(r)
    BY DEF IInv, TypeInv, Placed, Linked
  <2> QED BY <1>1, <1>3, <2>1 DEF LinkWanted, RequestPlaced
<1>4. ASSUME NEW j \in Invoices,
             linkAmount'[j] = linkAmount[j], payment'[j] = payment[j]
      PROVE  LinkMade(j)'
  BY <1>1, <1>4 DEF IInv, Linked, LinkMade
<1>5. CASE CallStripe(q)
  <2>1. /\ i \in Invoices /\ n > 0 /\ invoice[i].status # "draft" /\ invoice[i].total = n
        /\ linkAmount[i] \in {0, n}
    BY <1>0, <1>5 DEF CallStripe, RequestPlaced, LinkWanted
  <2>2. linkAmount'[i] = n /\ \A j \in Invoices \ {i} : linkAmount'[j] = linkAmount[j]
    BY <1>5, <2>1 DEF CallStripe, IInv, TypeInv, TypeOK
  <2>3. \/ request[q].pc = "calling" /\ request'[q] = [request[q] EXCEPT !.pc = "called"]
        \/ request'[q].pc = "idle"
    BY <1>5, RowTypes DEF CallStripe, IInv, TypeInv, TypeOK
  <2>4. UNCHANGED <<payment, locks>>
    BY <1>5 DEF CallStripe, money
  <2>5. OthersKept(q)
    BY <1>1, <2>4 DEF OthersKept, locks
  <2>6. RequestHolds(q)'
    BY <1>0, <1>1, <2>3, <2>4 DEF RequestHolds, RequestState, locks
  <2>7. LinkWanted(q)'
    BY <1>0, <1>1, <2>1, <2>2, <2>3 DEF LinkWanted, RequestState
  <2>8. ASSUME NEW j \in Invoices PROVE LinkMade(j)'
    <3>1. CASE j = i
      BY <1>1, <2>1, <2>2, <2>4, <3>1 DEF IInv, Linked, LinkMade
    <3>2. CASE j # i
      BY <1>4, <2>2, <2>4, <3>2
    <3> QED BY <3>1, <3>2
  <2>9. \A j \in Invoices : linkAmount[j] # 0 => linkAmount'[j] = linkAmount[j]
    BY <2>1, <2>2
  <2> QED BY <1>2, <1>3, <2>5, <2>6, <2>7, <2>8, <2>9 DEF Linked
<1>6. CASE CommitLink(q)
  <2>1. /\ i \in Invoices /\ n > 0 /\ n \in Nat /\ invoice[i].total = n
        /\ invoice[i].status # "draft" /\ linkAmount[i] = n /\ invoiceLock[i] = q
        /\ ~HasPayment(payment[i])
    BY <1>0, <1>6 DEF CommitLink, RequestPlaced, RequestState, LinkWanted, RequestHolds
  <2>2. request'[q].pc = "idle"
    BY <1>6, RowTypes DEF CommitLink, IInv, TypeInv, TypeOK
  <2>3. /\ payment' = [payment EXCEPT ![i] = [NewPayment(i, invoice[i]) EXCEPT !.amount = n]]
        /\ invoiceLock' = [invoiceLock EXCEPT ![i] = None] /\ UNCHANGED linkAmount
    BY <1>6, <2>1 DEF CommitLink, EndTransaction
  <2>4. OthersKept(q)
    BY <1>1, <2>1, <2>3 DEF OthersKept, IInv, TypeInv, TypeOK
  <2>5. RequestHolds(q)' /\ LinkWanted(q)'
    BY <2>2 DEF RequestHolds, LinkWanted
  <2>6. payment'[i].amount = n
    BY <2>1, <2>3 DEF NewPayment, IInv, TypeInv, TypeOK
  <2>7. ASSUME NEW j \in Invoices PROVE LinkMade(j)'
    <3>1. CASE j = i
      BY <1>1, <2>1, <2>3, <2>6, <3>1 DEF LinkMade
    <3>2. CASE j # i
      BY <1>4, <2>3, <3>2 DEF IInv, TypeInv, TypeOK
    <3> QED BY <3>1, <3>2
  <2> QED BY <1>2, <1>3, <2>3, <2>4, <2>5, <2>7 DEF Linked
<1>7. CASE AbortLink(q)
  <2>1. /\ invoiceLock[i] = q /\ invoiceLock' = [invoiceLock EXCEPT ![i] = None]
        /\ UNCHANGED <<payment, linkAmount>>
    BY <1>0, <1>7 DEF AbortLink, EndTransaction, RequestHolds, money
  <2>2. request'[q].pc = "idle" \/ request'[q] = [request[q] EXCEPT !.pc = "abandoned"]
    BY <1>7, RowTypes DEF AbortLink, IInv, TypeInv, TypeOK
  <2>3. OthersKept(q)
    BY <1>1, <2>1 DEF OthersKept, IInv, TypeInv, TypeOK
  <2>4. RequestHolds(q)'
    BY <1>0, <2>2 DEF RequestHolds, RequestState
  <2>5. LinkWanted(q)'
    BY <1>0, <1>1, <1>7, <2>1, <2>2 DEF LinkWanted, RequestState, AbortLink, EndTransaction
  <2> QED BY <1>2, <1>3, <1>4, <2>1, <2>3, <2>4, <2>5 DEF Linked
<1>8. CASE DropLink(q)
  <2>1. request'[q].pc = "idle" /\ UNCHANGED <<payment, locks, linkAmount>>
    BY <1>8, RowTypes DEF DropLink, money, IInv, TypeInv, TypeOK
  <2>2. OthersKept(q) /\ RequestHolds(q)' /\ LinkWanted(q)'
    BY <1>1, <2>1 DEF OthersKept, RequestHolds, LinkWanted, locks
  <2> QED BY <1>2, <1>3, <1>4, <2>1, <2>2 DEF Linked
<1>9. ASSUME NEW j \in Invoices, BeginLink(q, j) PROVE Held' /\ Linked'
  <2>1. /\ invoiceLock[j] = None /\ invoiceLock' = [invoiceLock EXCEPT ![j] = q]
        /\ invoice[j].status = "issued" /\ ~HasPayment(payment[j])
        /\ UNCHANGED <<payment, linkAmount>>
    BY <1>9 DEF BeginLink, money
  <2>2. request'[q] = [pc |-> "calling", target |-> j, total |-> invoice[j].total]
    BY <1>9 DEF BeginLink, IInv, TypeInv, TypeOK
  <2>3. OthersKept(q)
    BY <1>1, <2>1 DEF OthersKept, IInv, TypeInv, TypeOK
  <2>4. invoice[j] = [status |-> "issued", total |-> invoice[j].total]
    BY <2>1 DEF InvoiceRow, IInv, TypeInv, TypeOK
  <2>5. RequestHolds(q)'
    BY <1>1, <2>1, <2>2, <2>4 DEF RequestHolds, IInv, TypeInv, TypeOK
  <2>6. LinkWanted(q)'
    BY <1>1, <2>1, <2>2 DEF LinkWanted
  <2> QED BY <1>2, <1>3, <1>4, <2>1, <2>3, <2>5, <2>6 DEF Linked
<1> QED BY <1>5, <1>6, <1>7, <1>8, <1>9 DEF RequestStep

\* Every step keeps the invariant.
LEMMA StepIInv == IInv /\ [Next]_vars => IInv'
<1> SUFFICES ASSUME IInv, [Next]_vars PROVE IInv'
  OBVIOUS
<1>1. TypeInv'
  BY TypeInvStep DEF IInv
<1>2. Held' /\ Linked'
  BY QueueIInv, LockingIInv, EndingIInv, DraftIInv, RequestIInv DEF Next, WorkerStep
<1> QED BY <1>1, <1>2 DEF IInv

\* The invariant always holds.
LEMMA SpecIInv == Spec => []IInv
BY InitIInv, StepIInv, PTL DEF Spec
-----------------------------------------------------------------------------
\* The rows, locks and transactions keep their types.
THEOREM TypeCorrect == Spec => []TypeOK
<1>1. IInv => TypeOK
  BY DEF IInv, TypeInv
<1> QED BY <1>1, SpecIInv, PTL

\* What a transaction read under lock is still what the tables say when it writes,
\* for any number of workers and requests (GetInvoiceByIDForUpdate,
\* GetPaymentByInvoiceForUpdate, GetInvoiceForUpdate).
THEOREM CopiesAlwaysCurrent == Spec => []CopiesAreCurrent
<1>1. IInv => CopiesAreCurrent
  BY DEF IInv, Held, WorkerHolds, RequestHolds, CopiesAreCurrent
<1> QED BY <1>1, SpecIInv, PTL

\* The idempotency key of an invoice is used with one amount, also by calls of
\* Stripe that nobody waits for any more, and the payment row carries that amount
\* (ensureInvoicePaymentLink).
THEOREM LinkAlwaysKeepsItsAmount == Spec => []LinkKeepsItsAmount
<1>1. IInv => LinkKeepsItsAmount
  <2> SUFFICES ASSUME IInv PROVE LinkKeepsItsAmount
    OBVIOUS
  <2>1. ASSUME NEW q \in Requests, request[q].pc \in {"calling", "abandoned"}
        PROVE  linkAmount[request[q].target] \in {0, request[q].total}
    <3>1. request[q].target \in Invoices
      BY <2>1 DEF IInv, TypeInv, Placed, RequestPlaced
    <3> QED BY <2>1, <3>1 DEF IInv, Linked, LinkMade, LinkWanted
  <2>2. ASSUME NEW i \in Invoices, HasPayment(payment[i])
        PROVE  payment[i].amount = linkAmount[i]
    BY <2>2 DEF IInv, Linked, LinkMade
  <2> QED BY <2>1, <2>2 DEF LinkKeepsItsAmount
<1> QED BY <1>1, SpecIInv, PTL
-----------------------------------------------------------------------------
(***************************************************************************)
(* Nobody waits for a row while somebody may wait for his: the holder of a *)
(* payment row holds the row of its invoice too, and stopped waiting when  *)
(* he got it.                                                              *)
(***************************************************************************)
OwnerIsUnderWay(i) ==
  LET x == invoiceLock[i] IN
  /\ x \in Workers =>
       worker[x].target = i /\ worker[x].pc \in {"lockPayment", "apply", "skip", "fail"}
  /\ x \in Requests => request[x].target = i /\ request[x].pc \in {"calling", "called"}

PaymentUnderInvoice(i) ==
  paymentLock[i] # None =>
    paymentLock[i] = invoiceLock[i] /\ worker[paymentLock[i]].pc # "lockPayment"

LockOrder == \A i \in Invoices : OwnerIsUnderWay(i) /\ PaymentUnderInvoice(i)

LEMMA InitLockOrder == Init => LockOrder
BY WorkerAssumptions DEF Init, LockOrder, OwnerIsUnderWay, PaymentUnderInvoice

\* A step of a transaction that holds nothing, and takes nothing, keeps the order.
LEMMA LockOrderKept ==
  ASSUME TypeInv, LockOrder, UNCHANGED locks, NEW x,
         \A i \in Invoices : invoiceLock[i] # x,
         \A w \in Workers \ {x} : worker'[w] = worker[w],
         \A q \in Requests \ {x} : request'[q] = request[q]
  PROVE  LockOrder'
<1> SUFFICES ASSUME NEW i \in Invoices
             PROVE  OwnerIsUnderWay(i)' /\ PaymentUnderInvoice(i)'
  BY DEF LockOrder
<1>1. OwnerIsUnderWay(i)'
  BY DEF locks, LockOrder, OwnerIsUnderWay
<1>2. PaymentUnderInvoice(i)'
  BY DEF locks, LockOrder, PaymentUnderInvoice, TypeInv, TypeOK
<1> QED BY <1>1, <1>2

\* Workers take the invoice, then its payment.
LEMMA WorkerLockOrder ==
  ASSUME IInv, LockOrder, NEW w \in Workers, WorkerStep(w) \/ Crash(w)
  PROVE  LockOrder'
<1> DEFINE i == worker[w].target
<1>0. /\ worker[w] \in WorkerState /\ WorkerPlaced(w) /\ WorkerHolds(w)
      /\ w \notin Requests /\ w # None
  BY WorkerAssumptions DEF IInv, TypeInv, TypeOK, Placed, Held
<1>t. /\ \A j \in Invoices : paymentLock[j] \in Workers \cup {None}
      /\ DOMAIN worker = Workers /\ DOMAIN invoiceLock = Invoices /\ DOMAIN paymentLock = Invoices
  BY DEF IInv, TypeInv, TypeOK
<1>1. CASE LockNext(w) \/ Dispatch(w)
  <2>1. UNCHANGED <<locks, request>> /\ worker[w].pc \in {"idle", "dispatch"}
    BY <1>1 DEF LockNext, Dispatch
  <2>2. \A v \in Workers \ {w} : worker'[v] = worker[v]
    BY <1>1, <1>t DEF LockNext, Dispatch, Goto
  <2>3. \A j \in Invoices : invoiceLock[j] # w
    BY <2>1 DEF LockOrder, OwnerIsUnderWay
  <2> QED BY <2>1, <2>2, <2>3, LockOrderKept DEF IInv
<1>2. CASE LockInvoice(w)
  <2>1. /\ i \in Invoices /\ invoiceLock[i] = None
        /\ invoiceLock' = [invoiceLock EXCEPT ![i] = w] /\ UNCHANGED <<paymentLock, request>>
    BY <1>0, <1>2 DEF LockInvoice, WorkerPlaced
  <2>2. /\ worker'[w].target = i /\ worker'[w].pc \in {"skip", "fail", "lockPayment"}
        /\ \A v \in Workers \ {w} : worker'[v] = worker[v]
    BY <1>0, <1>2, <1>t DEF LockInvoice, WorkerState
  <2>3. \A j \in Invoices : invoiceLock[j] # w
    BY <1>2 DEF LockInvoice, LockOrder, OwnerIsUnderWay
  <2>4. paymentLock[i] = None
    BY <2>1 DEF LockOrder, PaymentUnderInvoice
  <2>5. ASSUME NEW j \in Invoices PROVE OwnerIsUnderWay(j)'
    BY <1>0, <1>t, <2>1, <2>2, <2>3 DEF LockOrder, OwnerIsUnderWay
  <2>6. ASSUME NEW j \in Invoices PROVE PaymentUnderInvoice(j)'
    BY <1>t, <2>1, <2>2, <2>3, <2>4 DEF LockOrder, PaymentUnderInvoice
  <2> QED BY <2>5, <2>6 DEF LockOrder
<1>3. CASE LockPayment(w)
  <2> DEFINE verdict == Verdict(worker[w].event, i, worker[w].inv, payment[i])
  <2>1. /\ i \in Invoices /\ invoiceLock[i] = w
        /\ paymentLock' = [paymentLock EXCEPT ![i] = w] /\ UNCHANGED <<invoiceLock, request>>
    BY <1>0, <1>3 DEF LockPayment, WorkerPlaced, WorkerHolds
  <2>2. verdict \in {"apply", "skip", "fail"}
    BY DEF Verdict
  <2>3. worker' = [worker EXCEPT ![w] = [@ EXCEPT !.pay = payment[i], !.pc = verdict]]
    BY <1>3 DEF LockPayment
  <2> HIDE DEF verdict
  <2>4. /\ worker'[w].target = i /\ worker'[w].pc = verdict
        /\ \A v \in Workers \ {w} : worker'[v] = worker[v]
    BY <1>0, <1>t, <2>3 DEF WorkerState
  <2>5. ASSUME NEW j \in Invoices PROVE OwnerIsUnderWay(j)'
    <3>1. OwnerIsUnderWay(j) /\ (invoiceLock[j] = w => j = i)
      BY DEF LockOrder, OwnerIsUnderWay
    <3> QED BY <1>0, <2>1, <2>2, <2>4, <3>1 DEF OwnerIsUnderWay
  <2>6. ASSUME NEW j \in Invoices PROVE PaymentUnderInvoice(j)'
    BY <1>t, <2>1, <2>2, <2>4 DEF LockOrder, PaymentUnderInvoice
  <2> QED BY <2>5, <2>6 DEF LockOrder
<1>4. CASE Commit(w) \/ Crash(w)
  <2>1. Release(w) /\ UNCHANGED request
    BY <1>4 DEF Commit, CommitHandled, CommitFailure, Crash
  <2>2. /\ \A v \in Workers \ {w} : worker'[v] = worker[v]
        /\ \A j \in Invoices :
             /\ invoiceLock'[j] = IF invoiceLock[j] = w THEN None ELSE invoiceLock[j]
             /\ paymentLock'[j] = IF paymentLock[j] = w THEN None ELSE paymentLock[j]
    BY <1>t, <2>1 DEF Release
  <2>3. ASSUME NEW j \in Invoices PROVE OwnerIsUnderWay(j)'
    BY <2>1, <2>2, WorkerAssumptions DEF LockOrder, OwnerIsUnderWay
  <2>4. ASSUME NEW j \in Invoices PROVE PaymentUnderInvoice(j)'
    BY <1>t, <2>2 DEF LockOrder, PaymentUnderInvoice
  <2> QED BY <2>3, <2>4 DEF LockOrder
<1> QED BY <1>1, <1>2, <1>3, <1>4 DEF WorkerStep

\* A payment-link request takes the invoice only.
LEMMA RequestLockOrder ==
  ASSUME IInv, LockOrder, NEW q \in Requests,
         RequestStep(q) \/ \E i \in Invoices : BeginLink(q, i)
  PROVE  LockOrder'
<1> DEFINE i == request[q].target
<1>0. /\ request[q] \in RequestState /\ RequestPlaced(q) /\ RequestHolds(q)
      /\ q \notin Workers /\ q # None
  BY WorkerAssumptions DEF IInv, TypeInv, TypeOK, Placed, Held
<1>t. /\ \A j \in Invoices : paymentLock[j] \in Workers \cup {None}
      /\ DOMAIN request = Requests /\ DOMAIN invoiceLock = Invoices
  BY DEF IInv, TypeInv, TypeOK
<1>1. /\ UNCHANGED <<worker, paymentLock>>
      /\ \A r \in Requests \ {q} : request'[r] = request[r]
  BY <1>t DEF RequestStep, CallStripe, CommitLink, AbortLink, DropLink, BeginLink,
              EndTransaction, locks
<1>2. CASE CallStripe(q)
  <2>1. UNCHANGED locks
    BY <1>2 DEF CallStripe
  <2>2. CASE request[q].pc = "calling"
    <3>1. request'[q].target = i /\ request'[q].pc = "called"
      BY <1>0, <1>2, <1>t, <2>2 DEF CallStripe, RequestState
    <3>2. ASSUME NEW j \in Invoices PROVE OwnerIsUnderWay(j)' /\ PaymentUnderInvoice(j)'
      BY <1>1, <2>1, <3>1 DEF locks, LockOrder, OwnerIsUnderWay, PaymentUnderInvoice
    <3> QED BY <3>2 DEF LockOrder
  <2>3. CASE request[q].pc # "calling"
    <3>1. \A j \in Invoices : invoiceLock[j] # q
      BY <1>2, <2>3 DEF CallStripe, LockOrder, OwnerIsUnderWay
    <3> QED BY <1>1, <2>1, <3>1, LockOrderKept DEF IInv
  <2> QED BY <2>2, <2>3
<1>3. CASE CommitLink(q) \/ AbortLink(q)
  <2>1. /\ i \in Invoices /\ invoiceLock[i] = q /\ paymentLock[i] = None
        /\ invoiceLock' = [invoiceLock EXCEPT ![i] = None]
    <3>1. EndTransaction(q)
      BY <1>3 DEF CommitLink, AbortLink
    <3>2. i \in Invoices /\ invoiceLock[i] = q
      BY <1>0, <3>1 DEF EndTransaction, RequestPlaced, RequestHolds
    <3>3. paymentLock[i] = None
      BY <1>0, <1>t, <3>2 DEF LockOrder, PaymentUnderInvoice
    <3> QED BY <3>1, <3>2, <3>3 DEF EndTransaction
  <2>2. \A j \in Invoices : invoiceLock[j] = q => j = i
    BY DEF LockOrder, OwnerIsUnderWay
  <2>3. ASSUME NEW j \in Invoices PROVE OwnerIsUnderWay(j)'
    BY <1>1, <1>t, <2>1, <2>2, WorkerAssumptions DEF LockOrder, OwnerIsUnderWay
  <2>4. ASSUME NEW j \in Invoices PROVE PaymentUnderInvoice(j)'
    BY <1>1, <1>t, <2>1 DEF LockOrder, PaymentUnderInvoice
  <2> QED BY <2>3, <2>4 DEF LockOrder
<1>4. CASE DropLink(q)
  <2>1. UNCHANGED locks /\ \A j \in Invoices : invoiceLock[j] # q
    BY <1>4 DEF DropLink, LockOrder, OwnerIsUnderWay
  <2> QED BY <1>1, <2>1, LockOrderKept DEF IInv
<1>5. ASSUME NEW k \in Invoices, BeginLink(q, k) PROVE LockOrder'
  <2>1. /\ invoiceLock[k] = None /\ paymentLock[k] = None
        /\ invoiceLock' = [invoiceLock EXCEPT ![k] = q]
        /\ request'[q].pc = "calling" /\ request'[q].target = k
    BY <1>5, <1>t DEF BeginLink
  <2>2. \A j \in Invoices : invoiceLock[j] # q
    BY <1>5 DEF BeginLink, LockOrder, OwnerIsUnderWay
  <2>3. ASSUME NEW j \in Invoices PROVE OwnerIsUnderWay(j)'
    BY <1>0, <1>1, <1>t, <2>1, <2>2 DEF LockOrder, OwnerIsUnderWay
  <2>4. ASSUME NEW j \in Invoices PROVE PaymentUnderInvoice(j)'
    BY <1>1, <1>t, <2>1 DEF LockOrder, PaymentUnderInvoice
  <2> QED BY <2>3, <2>4 DEF LockOrder
<1> QED BY <1>2, <1>3, <1>4, <1>5 DEF RequestStep

LEMMA StepLockOrder == IInv /\ LockOrder /\ [Next]_vars => LockOrder'
<1> SUFFICES ASSUME IInv, LockOrder, [Next]_vars PROVE LockOrder'
  OBVIOUS
<1>1. ASSUME UNCHANGED <<worker, request, locks>> PROVE LockOrder'
  BY <1>1 DEF LockOrder, OwnerIsUnderWay, PaymentUnderInvoice, locks
<1>2. ASSUME \/ \E e \in Events : Emit(e) \/ Resend(e) \/ \E answered \in BOOLEAN : Deliver(e, answered)
             \/ \E i \in Invoices : SendInvoice(i) \/ \E total \in Totals : PatchDraft(i, total)
             \/ \E k \in 1 .. Len(inbox) : Purge(k)
             \/ UNCHANGED vars
      PROVE  UNCHANGED <<worker, request, locks>>
  BY <1>2 DEF Emit, Resend, Deliver, SendInvoice, PatchDraft, Purge, vars
<1> QED BY <1>1, <1>2, WorkerLockOrder, RequestLockOrder DEF Next

\* No transaction that others may wait for waits itself, for any number of
\* workers, requests and invoices: what EveryWaitEnds rests on besides fairness.
THEOREM HoldersNeverEverWait == Spec => []HoldersNeverWait
<1>1. IInv /\ LockOrder => HoldersNeverWait
  <2> SUFFICES ASSUME IInv, LockOrder, NEW i \in Invoices,
                      NEW x \in {invoiceLock[i], paymentLock[i]} \ {None}
               PROVE  /\ x \in Workers => worker[x].pc # "idle" /\ ~Waits(x)
                      /\ x \in Requests => request[x].pc \in {"calling", "called"}
    BY DEF HoldersNeverWait
  <2>1. x = invoiceLock[i]
    BY DEF LockOrder, PaymentUnderInvoice
  <2> QED BY <2>1 DEF LockOrder, OwnerIsUnderWay, PaymentUnderInvoice, Waits
<1> QED BY <1>1, InitLockOrder, StepLockOrder, SpecIInv, PTL DEF Spec
-----------------------------------------------------------------------------
(***************************************************************************)
(* The refinement: every commit is a step of PaymentLedger, everything     *)
(* else a stutter.                                                         *)
(***************************************************************************)
\* The instance of PaymentLedger decides and writes as PaymentRows does.
LEMMA SameOperators ==
  ASSUME NEW i, NEW inv, NEW pay, NEW e
  PROVE  /\ Money!IsPaid(e) <=> IsPaid(e)
         /\ Money!IsRefund(e) <=> IsRefund(e)
         /\ Money!IsFailure(e) <=> IsFailure(e)
         /\ \A pays : Money!ResolvesTo(pays, e, i) <=> ResolvesTo(pays, e, i)
         /\ Money!AcceptsPaid(i, inv, pay, e) <=> AcceptsPaid(i, inv, pay, e)
         /\ \A rows : Money!AcceptsRefund(i, pay, rows, e) <=> AcceptsRefund(i, pay, rows, e)
         /\ Money!MatchesIntent(pay, e) <=> MatchesIntent(pay, e)
         /\ Money!Reopens(inv, pay, e) <=> Reopens(inv, pay, e)
         /\ Money!CaptureOn(pay, e) = CaptureOn(pay, e)
         /\ Money!RefundOn(pay, e) = RefundOn(pay, e)
         /\ Money!FailureOn(pay, e) = FailureOn(pay, e)
         /\ Money!NewPayment(i, inv) = NewPayment(i, inv)
         /\ Money!HasPayment(pay) <=> HasPayment(pay)
BY DEF Money!IsPaid, IsPaid, Money!IsRefund, IsRefund, Money!IsFailure, IsFailure,
       Money!IsPaymentSession, IsPaymentSession, Money!IsIntentSucceeded, IsIntentSucceeded,
       Money!IsSucceededRefund, IsSucceededRefund, Money!PaidLink, PaidLink,
       Money!ResolvesTo, ResolvesTo, Money!AcceptsPaid, AcceptsPaid,
       Money!AcceptsRefund, AcceptsRefund, Money!RefundError, RefundError,
       Money!RefundSeen, RefundSeen, Money!Remaining, Remaining,
       Money!MatchesIntent, MatchesIntent, Money!Reopens, Reopens,
       Money!CaptureOn, CaptureOn, Money!RefundOn, RefundOn, Money!FailureOn, FailureOn,
       Money!NewPayment, NewPayment, Money!HasPayment, HasPayment

\* Initial states of the money rows agree.
LEMMA InitMoney == Init => Money!Init
BY DEF Init, Money!Init, Money!NoPayment, NoPayment, Money!EmptyLedger, EmptyLedger

\* The handlers that found nothing in their way.
LEMMA HandledMoney ==
  ASSUME IInv, NEW w \in Workers, CommitHandled(w)
  PROVE  Money!Next \/ UNCHANGED money
<1> SUFFICES ASSUME ~UNCHANGED money PROVE Money!Next
  OBVIOUS
<1> DEFINE e == worker[w].event
           i == worker[w].target
<1>1. worker[w].pc = "apply" /\ ~Recorded(w) /\ e \in Events /\ i \in Invoices
  BY HandledWrites
<1>2. /\ worker[w].inv = invoice[i] /\ worker[w].pay = payment[i]
      /\ Verdict(e, i, invoice[i], payment[i]) = "apply"
      /\ IsPaid(e) => e.meta \in {None, i}
  BY <1>1 DEF IInv, Held, WorkerHolds, TypeInv, Placed, WorkerPlaced
<1>3. invoice[i] \in InvoiceRow /\ payment[i] \in PaymentRow
  BY <1>1 DEF IInv, TypeInv, TypeOK
<1>4. CASE IsPaid(e) /\ WritePaid(i, payment[i], e)
  <2>1. AcceptsPaid(i, invoice[i], payment[i], e)
    BY <1>2, <1>4 DEF Verdict
  <2>2. ResolvesTo(payment, e, i)
    BY <1>2, <1>4, <2>1 DEF ResolvesTo, AcceptsPaid
  <2>3. invoice' = [invoice EXCEPT ![i].status = "paid"]
    BY <1>4, <2>1 DEF WritePaid, AcceptsPaid
  <2>4. Money!ReconcileStripePaymentPaid(i, e)
    BY <1>4, <2>1, <2>2, <2>3, SameOperators DEF WritePaid, Money!ReconcileStripePaymentPaid
  <2> QED BY <1>1, <2>4 DEF Money!Next
<1>5. CASE IsRefund(e) /\ WriteRefund(i, invoice[i], payment[i], e)
  <2>1. AcceptsRefund(i, payment[i], refunds, e)
    BY <1>1, <1>2, <1>5 DEF Recorded
  <2>2. invoice' = [invoice EXCEPT ![i].status =
                      IF Reopens(invoice[i], payment[i], e) THEN "issued" ELSE @]
    BY <1>5 DEF WriteRefund, Reopens
  <2>3. RefundOn(payment[i], e) = [payment[i] EXCEPT !.refunded = RefundOn(payment[i], e).refunded]
    BY <1>3 DEF RefundOn, PaymentRow
  <2>4. payment' = [payment EXCEPT ![i] = RefundOn(payment[i], e)]
    BY <1>5, <2>3 DEF WriteRefund
  <2>5. Money!ApplyStripeRefund(i, e)
    BY <1>5, <2>1, <2>2, <2>4, SameOperators DEF WriteRefund, Money!ApplyStripeRefund
  <2> QED BY <1>1, <2>5 DEF Money!Next
<1>6. CASE IsFailure(e) /\ WriteFailure(i, e)
  <2>1. MatchesIntent(payment[i], e)
    BY <1>2, <1>6 DEF Verdict, IsPaid, IsFailure, IsPaymentSession, IsIntentSucceeded
  <2>2. Money!RecordStripePaymentFailure(i, e)
    BY <1>6, <2>1, SameOperators DEF WriteFailure, Money!RecordStripePaymentFailure
  <2> QED BY <1>1, <2>2 DEF Money!Next
<1> QED BY <1>2, <1>4, <1>5, <1>6, HandledWrites

\* Changes of a draft are steps of PaymentLedger.
LEMMA DraftMoney ==
  ASSUME NEW i \in Invoices, SendInvoice(i) \/ \E total \in Totals : PatchDraft(i, total)
  PROVE  Money!Next
<1>1. CASE SendInvoice(i)
  BY <1>1 DEF SendInvoice, Money!Next, Money!SendInvoice
<1>2. ASSUME NEW total \in Totals, PatchDraft(i, total) PROVE Money!Next
  <2>1. Money!PatchDraft(i, total)
    BY <1>2 DEF PatchDraft, Money!PatchDraft
  <2> QED BY <2>1 DEF Money!Next
<1> QED BY <1>1, <1>2

\* A request that commits creates the payment row, the others write nothing.
LEMMA RequestMoney ==
  ASSUME IInv, NEW q \in Requests, RequestStep(q) \/ \E i \in Invoices : BeginLink(q, i)
  PROVE  Money!Next \/ UNCHANGED money
<1> SUFFICES ASSUME CommitLink(q) PROVE Money!Next
  BY DEF RequestStep, CallStripe, AbortLink, DropLink, BeginLink
<1> DEFINE i == request[q].target
           n == request[q].total
<1>1. /\ i \in Invoices /\ n > 0 /\ ~HasPayment(payment[i])
      /\ invoice[i].status = "issued" /\ invoice[i].total = n
  <2>1. request[q].pc = "called" /\ RequestPlaced(q) /\ RequestHolds(q)
    BY DEF IInv, TypeInv, Placed, Held, CommitLink
  <2>2. invoice[i] = [status |-> "issued", total |-> n] /\ ~HasPayment(payment[i])
    BY <2>1 DEF RequestHolds
  <2> QED BY <2>1, <2>2 DEF RequestPlaced
<1>2. [NewPayment(i, invoice[i]) EXCEPT !.amount = n] = NewPayment(i, invoice[i])
  BY <1>1 DEF NewPayment
<1>3. payment' = [payment EXCEPT ![i] = NewPayment(i, invoice[i])]
  BY <1>1, <1>2 DEF CommitLink
<1>4. Money!CreatePaymentLink(i)
  BY <1>1, <1>3, SameOperators DEF CommitLink, Money!CreatePaymentLink
<1> QED BY <1>1, <1>4 DEF Money!Next

\* Every step is one of PaymentLedger or changes no money row.
LEMMA StepMoney == IInv /\ [Next]_vars => [Money!Next]_(Money!vars)
<1> SUFFICES ASSUME IInv, [Next]_vars PROVE Money!Next \/ UNCHANGED money
  BY DEF Money!vars, money
<1>1. ASSUME NEW w \in Workers, CommitFailure(w) \/ Crash(w) PROVE UNCHANGED money
  BY <1>1 DEF CommitFailure, Crash
<1> QED BY <1>1, QueueIInv, LockingIInv, HandledMoney, DraftMoney, RequestMoney
        DEF Next, WorkerStep, Commit

\* The transactions of any number of workers and requests, interleaved, rolled
\* back and repeated, do to the money rows what PaymentLedger does in single steps
\* (ProcessOne, ReconcileStripePaymentPaid, ApplyStripeRefund, SendInvoice,
\* PatchInvoiceLineItems, ensureInvoicePaymentLink).
THEOREM ImplementsMoney == Spec => MoneyPromise
BY InitMoney, StepMoney, SpecIInv, PTL DEF Spec, MoneyPromise, Money!Spec

\* The proofs about PaymentLedger, for the rows of this specification.
LedgerProofs == INSTANCE PaymentLedger_proofs

\* So they apply to the interleaved transactions.
LEMMA ImplementsLedger ==
  /\ Spec => LedgerProofs!Spec
  /\ LedgerProofs!RowAssumptions
  /\ LedgerProofs!TotalsAssumption
<1>1. Money!Init => LedgerProofs!Init
  BY DEF Money!Init, LedgerProofs!Init, Money!NoPayment, LedgerProofs!NoPayment,
         Money!EmptyLedger, LedgerProofs!EmptyLedger
<1>2. [Money!Next]_(Money!vars) => [LedgerProofs!Next]_(LedgerProofs!vars)
  BY DEF Money!IsPaid, LedgerProofs!IsPaid, Money!IsRefund, LedgerProofs!IsRefund,
         Money!IsFailure, LedgerProofs!IsFailure, Money!IsPaymentSession,
         LedgerProofs!IsPaymentSession, Money!IsIntentSucceeded,
         LedgerProofs!IsIntentSucceeded, Money!IsSucceededRefund,
         LedgerProofs!IsSucceededRefund, Money!PaidLink, LedgerProofs!PaidLink,
         Money!ResolvesTo, LedgerProofs!ResolvesTo, Money!AcceptsPaid,
         LedgerProofs!AcceptsPaid, Money!AcceptsRefund, LedgerProofs!AcceptsRefund,
         Money!RefundError, LedgerProofs!RefundError, Money!RefundSeen,
         LedgerProofs!RefundSeen, Money!Remaining, LedgerProofs!Remaining,
         Money!MatchesIntent, LedgerProofs!MatchesIntent, Money!Reopens,
         LedgerProofs!Reopens, Money!CaptureOn, LedgerProofs!CaptureOn, Money!RefundOn,
         LedgerProofs!RefundOn, Money!FailureOn, LedgerProofs!FailureOn, Money!NewPayment,
         LedgerProofs!NewPayment, Money!HasPayment, LedgerProofs!HasPayment,
         Money!PatchDraft, LedgerProofs!PatchDraft, Money!SendInvoice,
         LedgerProofs!SendInvoice, Money!CreatePaymentLink, LedgerProofs!CreatePaymentLink,
         Money!ReconcileStripePaymentPaid, LedgerProofs!ReconcileStripePaymentPaid,
         Money!ApplyStripeRefund, LedgerProofs!ApplyStripeRefund,
         Money!RecordStripePaymentFailure, LedgerProofs!RecordStripePaymentFailure,
         Money!Next, LedgerProofs!Next, Money!vars, LedgerProofs!vars
<1>3. /\ LedgerProofs!RowAssumptions
      /\ LedgerProofs!TotalsAssumption
  BY RowAssumptions, WorkerAssumptions
     DEF LedgerProofs!RowAssumptions, LedgerProofs!Event, Event, LedgerProofs!EventTypes,
         EventTypes, LedgerProofs!TotalsAssumption
<1> QED BY <1>1, <1>2, <1>3, ImplementsMoney, PTL
        DEF MoneyPromise, Money!Spec, LedgerProofs!Spec

\* What PaymentLedger promises about the money rows holds for the interleaved
\* transactions: amounts agree, an invoice that asks for money holds none, and the
\* money life of an invoice has its four phases and no other.
THEOREM MoneyStaysSound ==
  Spec => [](Money!AmountsAgree /\ Money!NetFollowsStatus /\ Money!MoneyLifeCycle)
<1>4. LedgerProofs!Spec => []LedgerProofs!AmountsAgree
  BY ImplementsLedger, LedgerProofs!AmountsAlwaysAgree
<1>5. LedgerProofs!Spec => []LedgerProofs!NetFollowsStatus
  BY ImplementsLedger, LedgerProofs!NetAlwaysFollowsStatus
<1>6. LedgerProofs!Spec => []LedgerProofs!MoneyLifeCycle
  BY ImplementsLedger, LedgerProofs!MoneyLifeCycleAlways
<1>7. LedgerProofs!AmountsAgree /\ LedgerProofs!NetFollowsStatus /\ LedgerProofs!MoneyLifeCycle
        => Money!AmountsAgree /\ Money!NetFollowsStatus /\ Money!MoneyLifeCycle
  BY DEF LedgerProofs!AmountsAgree, LedgerProofs!NetFollowsStatus, LedgerProofs!MoneyLifeCycle,
         Money!AmountsAgree, Money!NetFollowsStatus, Money!MoneyLifeCycle,
         LedgerProofs!HasPayment, Money!HasPayment, LedgerProofs!Net, Money!Net
<1> QED BY <1>4, <1>5, <1>6, <1>7, ImplementsLedger, PTL

\* A sum is the same in both instances.
LEMMA SameSums ==
  ASSUME NEW f, NEW S
  PROVE  /\ Money!SumFunctionOnSet(f, S) = LedgerProofs!SumFunctionOnSet(f, S)
         /\ Money!SumFunction(f) = LedgerProofs!SumFunction(f)
BY DEF Money!SumFunctionOnSet, LedgerProofs!SumFunctionOnSet, Money!SumFunction,
       LedgerProofs!SumFunction, Money!FoldFunctionOnSet, LedgerProofs!FoldFunctionOnSet,
       Money!MapThenFoldSet, LedgerProofs!MapThenFoldSet

\* The books stay in balance through any interleaving: the refund rows, the refunded
\* amount and the ledger agree although several workers add to them, and the drift
\* that GetReconciliationSummary reports is the payments refunded in full.
THEOREM BooksStayBalanced ==
  ASSUME IsFiniteSet(Invoices)
  PROVE  Spec => [](Money!RefundsBalance /\ Money!DriftIsFullRefunds)
<1>1. LedgerProofs!Spec => []LedgerProofs!RefundsBalance
  BY ImplementsLedger, LedgerProofs!RefundsAlwaysBalance
<1>2. LedgerProofs!Spec => []LedgerProofs!DriftIsFullRefunds
  <2>1. LedgerProofs!IsFiniteSet(Invoices)
    BY DEF IsFiniteSet, LedgerProofs!IsFiniteSet
  <2> QED BY <2>1, ImplementsLedger, LedgerProofs!DriftIsAlwaysFullRefunds
<1>3. LedgerProofs!RefundsBalance => Money!RefundsBalance
  BY SameSums DEF LedgerProofs!RefundsBalance, Money!RefundsBalance
<1>4. LedgerProofs!DriftIsFullRefunds => Money!DriftIsFullRefunds
  BY SameSums DEF LedgerProofs!DriftIsFullRefunds, Money!DriftIsFullRefunds,
       LedgerProofs!Drift, Money!Drift, LedgerProofs!HasPayment, Money!HasPayment
<1> QED BY <1>1, <1>2, <1>3, <1>4, ImplementsLedger, PTL
-----------------------------------------------------------------------------
(***************************************************************************)
(* A refund and its reports.  RefundsApplyOnce is kept by every step of a  *)
(* state of IInv: a commit that writes a refund finds its id new, and that *)
(* is one effect of one report of a refund.                                *)
(***************************************************************************)
OnRecord == {r.refund : r \in refunds}
Reports == {e \in Events : IsRefund(e)}

RefundsCounted ==
  /\ IsFiniteSet(OnRecord)
  /\ Cardinality(OnRecord) = SumFunctionOnSet(effects, Reports)

\* At first there is no refund and no effect.
LEMMA InitRefundsCounted ==
  ASSUME IsFiniteSet(Events)
  PROVE  Init => RefundsCounted
<1> SUFFICES ASSUME Init PROVE RefundsCounted
  OBVIOUS
<1>1. OnRecord = {} /\ IsFiniteSet(OnRecord) /\ Cardinality(OnRecord) = 0
  BY FS_EmptySet DEF Init, OnRecord
<1>2. IsFiniteSet(Reports) /\ \A e \in Reports : effects[e] = 0
  BY FS_Subset DEF Init, Reports
<1>3. SumFunctionOnSet(effects, Reports) = 0
  BY <1>2, SumOfZeros
<1> QED BY <1>1, <1>3 DEF RefundsCounted

\* A commit that has an effect.
LEMMA HandledRefunds ==
  ASSUME IsFiniteSet(Events), IInv, RefundsCounted, NEW w \in Workers, CommitHandled(w)
  PROVE  RefundsCounted'
<1> DEFINE e == worker[w].event
           i == worker[w].target
           row == [refund |-> e.refund, invoice |-> i, amount |-> e.amount]
<1>1. effects \in [Events -> Nat] /\ IsFiniteSet(Reports) /\ Reports \subseteq Events
  BY FS_Subset DEF IInv, TypeInv, TypeOK, Reports
<1>2. CASE UNCHANGED <<money, effects>>
  BY <1>2 DEF RefundsCounted, OnRecord, money
<1>3. CASE ~UNCHANGED <<money, effects>>
  <2>1. /\ worker[w].pc = "apply" /\ ~Recorded(w)
        /\ effects' = [effects EXCEPT ![e] = @ + 1]
        /\ \/ IsPaid(e) /\ UNCHANGED refunds
           \/ IsRefund(e) /\ refunds' = refunds \cup {row}
           \/ IsFailure(e) /\ UNCHANGED refunds
    BY <1>3 DEF CommitHandled, WritePaid, WriteRefund, WriteFailure
  <2>2. e \in Events
    BY <2>1 DEF IInv, TypeInv, Placed, WorkerPlaced
  <2>3. /\ effects' \in [Events -> Nat] /\ effects'[e] = effects[e] + 1
        /\ \A f \in Events : f # e => effects'[f] = effects[f]
    BY <1>1, <2>1, <2>2
  <2>4. CASE IsRefund(e)
    <3>1. refunds' = refunds \cup {row} /\ row.refund = e.refund
      BY <2>1, <2>4 DEF IsRefund, IsSucceededRefund, IsPaid, IsPaymentSession,
                        IsIntentSucceeded, IsFailure
    <3>2. e.refund \notin OnRecord
      BY <2>1, <2>4 DEF Recorded, AcceptsRefund, RefundSeen, OnRecord
    <3> HIDE DEF row
    <3>3. OnRecord' = OnRecord \cup {e.refund}
      BY <3>1 DEF OnRecord
    <3>4. IsFiniteSet(OnRecord') /\ Cardinality(OnRecord') = Cardinality(OnRecord) + 1
      BY <3>2, <3>3, FS_AddElement DEF RefundsCounted
    <3>5. e \in Reports
      BY <2>2, <2>4 DEF Reports
    <3>6. SumFunctionOnSet(effects', Reports)
            = SumFunctionOnSet(effects, Reports) + effects'[e] - effects[e]
      <4>1. /\ \A f \in Reports : effects[f] \in Int /\ effects'[f] \in Int
            /\ \A f \in Reports : f # e => effects'[f] = effects[f]
        BY <1>1, <2>3
      <4> HIDE DEF e
      <4> QED BY <1>1, <3>5, <4>1, SumChanged
    <3>7. effects[e] \in Nat /\ SumFunctionOnSet(effects, Reports) \in Nat
      BY <1>1, <2>2, SumNat
    <3> QED BY <2>3, <3>4, <3>6, <3>7 DEF RefundsCounted, Reports
  <2>5. CASE ~IsRefund(e)
    <3>1. UNCHANGED refunds
      BY <2>1, <2>5
    <3>2. \A f \in Reports : effects'[f] = effects[f]
      BY <2>3, <2>5 DEF Reports
    <3>3. SumFunctionOnSet(effects', Reports) = SumFunctionOnSet(effects, Reports)
      BY <1>1, <3>2, SumSame
    <3> QED BY <3>1, <3>3 DEF RefundsCounted, OnRecord, Reports
  <2> QED BY <2>4, <2>5
<1> QED BY <1>2, <1>3

\* Every other step writes no refund and counts no effect.
LEMMA StepRefundsCounted ==
  ASSUME IsFiniteSet(Events)
  PROVE  IInv /\ RefundsCounted /\ [Next]_vars => RefundsCounted'
<1> SUFFICES ASSUME IInv, RefundsCounted, [Next]_vars PROVE RefundsCounted'
  OBVIOUS
<1>1. CASE \E w \in Workers : CommitHandled(w)
  BY <1>1, HandledRefunds
<1>2. CASE ~\E w \in Workers : CommitHandled(w)
  <2>1. UNCHANGED <<refunds, effects>>
    BY <1>2 DEF Next, WorkerStep, Commit, CommitFailure, Crash, Emit, Resend, Deliver, LockNext,
       Dispatch, LockInvoice, LockPayment, SendInvoice, PatchDraft, RequestStep, CallStripe,
       CommitLink, AbortLink, DropLink, BeginLink, Purge, vars, money
  <2> QED BY <2>1 DEF RefundsCounted, OnRecord, Reports
<1> QED BY <1>1, <1>2

\* Every refund on record was applied by one commit, and no commit applied one that
\* is on record, for any number of reports, repeated deliveries, workers, rollbacks
\* and purges of the queue (ApplyStripeRefund, PurgeWebhookEventsOlderThan).
THEOREM RefundsAlwaysApplyOnce ==
  ASSUME IsFiniteSet(Events)
  PROVE  Spec => []RefundsApplyOnce
<1>1. RefundsCounted => RefundsApplyOnce
  BY DEF RefundsCounted, RefundsApplyOnce, OnRecord, Reports
<1> QED BY <1>1, InitRefundsCounted, StepRefundsCounted, SpecIInv, PTL DEF Spec
-----------------------------------------------------------------------------
(***************************************************************************)
(* The queue, as long as nothing is purged.                                *)
(***************************************************************************)
QueueWorker(w) ==
  worker[w].pc # "idle" =>
    /\ Stored(worker[w].event) /\ worker[w].event \notin processed
    /\ \A v \in Workers \ {w} : worker[v].pc # "idle" => worker[v].event # worker[w].event

QueueEvent(e) ==
  /\ ~Stored(e) => e \notin processed
  /\ e \notin processed => deadLetters[e] = 0

QueueInv ==
  /\ purges = 0
  /\ \A w \in Workers : QueueWorker(w)
  /\ \A e \in Events : QueueEvent(e)

\* At first the queue is empty and every event absent.
LEMMA InitQueue == Init => QueueInv /\ Lifecycle!Init
<1> SUFFICES ASSUME Init PROVE QueueInv /\ Lifecycle!Init
  OBVIOUS
<1>1. \A e \in Events : ~Stored(e)
  BY DEF Init, Stored
<1>2. QueueInv
  BY RowTypes DEF Init, QueueInv, QueueWorker, QueueEvent
<1>3. Lifecycle!Init
  BY <1>1 DEF Init, Lifecycle!Init, Phase
<1> QED BY <1>2, <1>3

\* Steps that leave the queue and the events of the workers alone.
LEMMA QueueSame ==
  ASSUME TypeInv, QueueInv, UNCHANGED <<queue, purges, effects>>,
         \A w \in Workers : worker'[w].pc # "idle" =>
           worker[w].pc # "idle" /\ worker'[w].event = worker[w].event
  PROVE  QueueInv' /\ UNCHANGED Lifecycle!vars
<1>1. \A e \in Events : Stored(e)' = Stored(e) /\ Phase(e)' = Phase(e)
  BY DEF Stored, Phase, queue
<1>2. \A w \in Workers : worker'[w].pc # "idle" => worker'[w].event \in Events
  BY DEF TypeInv, Placed, WorkerPlaced
<1>3. QueueInv'
  BY <1>1, <1>2 DEF QueueInv, QueueWorker, QueueEvent, Stored, queue
<1> QED BY <1>1, <1>3 DEF Lifecycle!vars, queue

\* A delivery stores an event that is absent, and changes nothing otherwise.
LEMMA DeliverQueue ==
  ASSUME TypeInv, QueueInv, NEW e \in Events, NEW answered \in BOOLEAN, Deliver(e, answered)
  PROVE  QueueInv' /\ [Lifecycle!Next]_(Lifecycle!vars)
<1>0. UNCHANGED <<processed, attempts, deadLetters, worker, purges, effects>>
  BY DEF Deliver, faults
<1>1. CASE Stored(e)
  <2>1. UNCHANGED queue
    BY <1>0, <1>1 DEF Deliver, queue
  <2> QED BY <1>0, <2>1, QueueSame
<1>2. CASE ~Stored(e)
  <2>1. inbox' = Append(inbox, e) /\ inbox \in Seq(Events)
    BY <1>2 DEF Deliver, TypeInv, TypeOK
  <2>2. \A f \in Events : Stored(f)' <=> Stored(f) \/ f = e
    <3> SUFFICES ASSUME NEW f \in Events PROVE Stored(f)' <=> Stored(f) \/ f = e
      OBVIOUS
    <3>1. Len(inbox') = Len(inbox) + 1 /\ inbox'[Len(inbox) + 1] = e
          /\ \A k \in 1 .. Len(inbox) : inbox'[k] = inbox[k]
      BY <2>1
    <3>2. Len(inbox) \in Nat /\ DOMAIN inbox = 1 .. Len(inbox)
          /\ DOMAIN inbox' = 1 .. (Len(inbox) + 1)
      BY <2>1
    <3> QED BY <3>1, <3>2 DEF Stored
  <2>3. QueueInv'
    <3>1. ASSUME NEW w \in Workers PROVE QueueWorker(w)'
      <4>1. QueueWorker(w) /\ (worker[w].pc # "idle" => worker[w].event \in Events)
        BY DEF QueueInv, TypeInv, Placed, WorkerPlaced
      <4> QED BY <1>0, <2>2, <4>1 DEF QueueWorker, Stored
    <3>2. ASSUME NEW f \in Events PROVE QueueEvent(f)'
      BY <1>0, <2>2 DEF QueueInv, QueueEvent
    <3> QED BY <1>0, <3>1, <3>2 DEF QueueInv
  <2>4. Lifecycle!Store(e)
    <3>1. Phase(e) = "absent"
      BY <1>2 DEF Phase
    <3>2. \A f \in Events : Phase(f)' = IF f = e THEN "pending" ELSE Phase(f)
      BY <1>0, <1>2, <2>2 DEF Phase, QueueInv, QueueEvent
    <3> QED BY <1>0, <3>1, <3>2 DEF Lifecycle!Store
  <2> QED BY <2>3, <2>4 DEF Lifecycle!Next
<1> QED BY <1>1, <1>2

\* Taking an event changes nothing of it, and no other worker has it.
LEMMA LockNextQueue ==
  ASSUME TypeInv, QueueInv, NEW w \in Workers, LockNext(w)
  PROVE  QueueInv' /\ UNCHANGED Lifecycle!vars
<1>0. UNCHANGED <<queue, purges, effects>>
  BY DEF LockNext, faults
<1>1. PICK k \in DOMAIN inbox :
        /\ Eligible(inbox[k])
        /\ worker' = [worker EXCEPT ![w] = [Idle EXCEPT !.pc = "dispatch", !.event = inbox[k]]]
  BY DEF LockNext
<1>2. /\ worker'[w].event = inbox[k] /\ Stored(inbox[k]) /\ inbox[k] \notin processed
      /\ \A v \in Workers \ {w} : worker'[v] = worker[v]
      /\ \A v \in Workers : worker[v].pc # "idle" => worker[v].event # inbox[k]
  BY <1>1 DEF Eligible, EventLocked, Stored, Idle, TypeInv, TypeOK
<1>3. ASSUME NEW v \in Workers PROVE QueueWorker(v)'
  BY <1>0, <1>2 DEF QueueInv, QueueWorker, Stored, queue
<1>4. \A e \in Events : Stored(e)' = Stored(e) /\ Phase(e)' = Phase(e) /\ QueueEvent(e)'
  BY <1>0 DEF Stored, Phase, QueueInv, QueueEvent, queue
<1> QED BY <1>0, <1>3, <1>4 DEF QueueInv, Lifecycle!vars, queue

\* A commit finishes or fails one pending event.
LEMMA CommitQueue ==
  ASSUME TypeInv, QueueInv, NEW w \in Workers, Commit(w)
  PROVE  QueueInv' /\ Lifecycle!Next
<1> DEFINE e == worker[w].event
<1>0. Release(w) /\ UNCHANGED <<inbox, purges>>
  BY DEF Commit, CommitHandled, CommitFailure, faults
<1>1. /\ e \in Events /\ Stored(e) /\ e \notin processed /\ deadLetters[e] = 0
      /\ \A v \in Workers \ {w} : worker[v].pc # "idle" => worker[v].event # e
  BY DEF Commit, CommitHandled, CommitFailure, QueueInv, QueueWorker, QueueEvent,
         TypeInv, Placed, WorkerPlaced
<1>2. worker'[w].pc = "idle" /\ \A v \in Workers \ {w} : worker'[v] = worker[v]
  BY <1>0, RowTypes DEF Release, TypeInv, TypeOK
<1>3. \A f \in Events : Stored(f)' = Stored(f)
  BY <1>0 DEF Stored
<1>4. ASSUME processed' \subseteq processed \cup {e} PROVE \A v \in Workers : QueueWorker(v)'
  <2> SUFFICES ASSUME NEW v \in Workers, worker'[v].pc # "idle" PROVE QueueWorker(v)'
    BY DEF QueueWorker
  <2>1. v # w /\ worker'[v] = worker[v] /\ QueueWorker(v)
    BY <1>2 DEF QueueInv
  <2> QED BY <1>0, <1>1, <1>2, <1>4, <2>1 DEF QueueWorker, Stored
<1>5. Phase(e) = "pending"
  BY <1>1 DEF Phase
<1>6. CASE CommitHandled(w)
  <2>1. processed' = processed \cup {e} /\ UNCHANGED <<attempts, deadLetters>>
    BY <1>6 DEF CommitHandled
  <2>2. effects' \in {effects, [effects EXCEPT ![e] = @ + 1]}
    BY <1>6 DEF CommitHandled
  <2>3. \A f \in Events : Phase(f)' = IF f = e THEN "done" ELSE Phase(f)
    BY <1>1, <1>3, <2>1 DEF Phase
  <2>4. \A f \in Events : QueueEvent(f)'
    BY <1>1, <1>3, <2>1 DEF QueueInv, QueueEvent
  <2>5. Lifecycle!Finish(e)
    BY <1>1, <1>5, <2>1, <2>2, <2>3 DEF Lifecycle!Finish
  <2> QED BY <1>0, <1>1, <1>4, <2>1, <2>4, <2>5 DEF QueueInv, Lifecycle!Next
<1>7. CASE CommitFailure(w)
  <2> DEFINE terminal == attempts[e] + 1 >= MaxAttempts
  <2>1. /\ attempts' = [attempts EXCEPT ![e] = @ + 1] /\ UNCHANGED effects
        /\ deadLetters' = [deadLetters EXCEPT ![e] = IF terminal THEN @ + 1 ELSE @]
        /\ processed' = IF terminal THEN processed \cup {e} ELSE processed
    BY <1>7 DEF CommitFailure
  <2>2. attempts[e] \in Nat /\ MaxAttempts \in Nat /\ attempts'[e] = attempts[e] + 1
    BY <1>1, <2>1, WorkerAssumptions DEF TypeInv, TypeOK
  <2>3. terminal <=> ~(attempts'[e] < MaxAttempts)
    BY <2>2
  <2> HIDE DEF terminal
  <2>4. deadLetters'[e] = (IF terminal THEN 1 ELSE 0)
        /\ \A f \in Events \ {e} : deadLetters'[f] = deadLetters[f]
    BY <1>1, <2>1 DEF TypeInv, TypeOK
  <2>5. \A f \in Events :
          Phase(f)' = IF f = e THEN (IF terminal THEN "dead" ELSE "pending") ELSE Phase(f)
    BY <1>1, <1>3, <2>1, <2>4 DEF Phase
  <2>6. \A f \in Events : QueueEvent(f)'
    BY <1>1, <1>3, <2>1, <2>4 DEF QueueInv, QueueEvent
  <2>7. Lifecycle!Fail(e)
    BY <1>1, <1>5, <2>1, <2>3, <2>5 DEF Lifecycle!Fail
  <2> QED BY <1>0, <1>1, <1>4, <2>1, <2>6, <2>7 DEF QueueInv, Lifecycle!Next
<1> QED BY <1>6, <1>7 DEF Commit

\* Every step is one of WebhookLifecycle or changes no event.
LEMMA StepQueue ==
  ASSUME MaxPurges = 0
  PROVE  TypeInv /\ QueueInv /\ [Next]_vars => QueueInv' /\ [Lifecycle!Next]_(Lifecycle!vars)
<1> SUFFICES ASSUME TypeInv, QueueInv, [Next]_vars
             PROVE  QueueInv' /\ [Lifecycle!Next]_(Lifecycle!vars)
  OBVIOUS
<1>1. ASSUME NEW e \in Events, Emit(e) \/ Resend(e)
      PROVE  QueueInv' /\ UNCHANGED Lifecycle!vars
  <2>1. UNCHANGED <<queue, purges, effects, worker>>
    BY <1>1 DEF Emit, Resend, faults
  <2> QED BY <2>1, QueueSame
<1>2. ASSUME NEW w \in Workers, Dispatch(w) \/ LockInvoice(w) \/ LockPayment(w)
      PROVE  QueueInv' /\ UNCHANGED Lifecycle!vars
  <2>1. UNCHANGED <<queue, purges, effects>> /\ worker[w].pc # "idle"
    BY <1>2 DEF Dispatch, LockInvoice, LockPayment, faults
  <2>2. worker'[w].event = worker[w].event /\ \A v \in Workers \ {w} : worker'[v] = worker[v]
    BY <1>2 DEF Dispatch, Goto, LockInvoice, LockPayment, WorkerState, TypeInv, TypeOK
  <2>3. \A v \in Workers : worker'[v].pc # "idle" =>
          worker[v].pc # "idle" /\ worker'[v].event = worker[v].event
    BY <2>1, <2>2
  <2> QED BY <2>1, <2>3, QueueSame
<1>3. ASSUME NEW w \in Workers, Crash(w)
      PROVE  QueueInv' /\ UNCHANGED Lifecycle!vars
  <2>1. UNCHANGED <<queue, purges, effects>> /\ worker' = [worker EXCEPT ![w] = Idle]
    BY <1>3 DEF Crash, Release
  <2>2. \A v \in Workers : worker'[v].pc # "idle" =>
          worker[v].pc # "idle" /\ worker'[v].event = worker[v].event
    BY <2>1, RowTypes DEF TypeInv, TypeOK
  <2> QED BY <2>1, <2>2, QueueSame
<1>4. ASSUME \/ \E i \in Invoices : SendInvoice(i) \/ \E total \in Totals : PatchDraft(i, total)
             \/ \E q \in Requests : RequestStep(q) \/ \E i \in Invoices : BeginLink(q, i)
             \/ UNCHANGED vars
      PROVE  QueueInv' /\ UNCHANGED Lifecycle!vars
  <2>1. UNCHANGED <<queue, purges, effects, worker>>
    BY <1>4 DEF SendInvoice, PatchDraft, RequestStep, CallStripe, CommitLink, AbortLink,
                DropLink, BeginLink, faults, vars
  <2> QED BY <2>1, QueueSame
<1>5. ~ \E k \in 1 .. Len(inbox) : Purge(k)
  BY DEF Purge, QueueInv
<1> QED BY <1>1, <1>2, <1>3, <1>4, <1>5, DeliverQueue, LockNextQueue, CommitQueue
        DEF Next, WorkerStep

\* QueuePromise without its fairness, and so without "a stored event does not
\* stay pending": an event has one effect at most, none if it fails, and one dead
\* letter at most, for any number of workers that interleave and crash
\* (ProcessOne, LockNextPendingStripeWebhook, RecordStripeWebhookFailure).
QueueSafety == Lifecycle!Init /\ [][Lifecycle!Next]_(Lifecycle!vars)

\* The queue implements the life of an event as long as the retention worker
\* deletes none (webhookworker.ProcessOne).
THEOREM QueueIsSafe ==
  ASSUME MaxPurges = 0
  PROVE  Spec => QueueSafety
<1>1. TypeInv /\ QueueInv /\ [Next]_vars => QueueInv' /\ [Lifecycle!Next]_(Lifecycle!vars)
  BY StepQueue
<1>2. Spec => []TypeInv
  BY InitTypeInv, TypeInvStep, PTL DEF Spec
<1> QED BY <1>1, <1>2, InitQueue, PTL DEF Spec, QueueSafety

\* What that comes to for one event: its effect is applied once at most, and only
\* if it was handled; it has one dead letter at most, and none if it had an effect.
EffectsHappenOnce ==
  \A e \in Events :
    /\ effects[e] \in {0, 1} /\ deadLetters[e] \in {0, 1}
    /\ effects[e] = 1 => e \in processed /\ deadLetters[e] = 0

\* Without purges no two commits of workers change business rows for one event,
\* and a dead-lettered event has changed none (ProcessOne runs the handler and
\* MarkStripeWebhookProcessed in one transaction).
THEOREM EffectsAlwaysHappenOnce ==
  ASSUME MaxPurges = 0
  PROVE  Spec => []EffectsHappenOnce
<1>1. Init => EffectsHappenOnce
  BY DEF Init, EffectsHappenOnce
<1>2. TypeInv /\ QueueInv /\ EffectsHappenOnce /\ [Next]_vars => EffectsHappenOnce'
  <2> SUFFICES ASSUME TypeInv, QueueInv, EffectsHappenOnce, [Next]_vars
               PROVE  EffectsHappenOnce'
    OBVIOUS
  <2>1. ASSUME UNCHANGED <<processed, deadLetters, effects>> PROVE EffectsHappenOnce'
    BY <2>1 DEF EffectsHappenOnce
  <2>2. ASSUME NEW w \in Workers, Commit(w) PROVE EffectsHappenOnce'
    <3> DEFINE e == worker[w].event
    <3>1. /\ e \in Events /\ e \notin processed /\ deadLetters[e] = 0 /\ effects[e] = 0
          /\ DOMAIN effects = Events /\ DOMAIN deadLetters = Events
      BY <2>2 DEF Commit, CommitHandled, CommitFailure, QueueInv, QueueWorker, QueueEvent,
                  TypeInv, TypeOK, Placed, WorkerPlaced, EffectsHappenOnce
    <3>2. CASE CommitHandled(w)
      <4>1. /\ processed' = processed \cup {e} /\ UNCHANGED deadLetters
            /\ effects' \in {effects, [effects EXCEPT ![e] = @ + 1]}
        BY <3>2 DEF CommitHandled
      <4> QED BY <3>1, <4>1 DEF EffectsHappenOnce
    <3>3. CASE CommitFailure(w)
      <4>1. /\ processed \subseteq processed' /\ UNCHANGED effects
            /\ deadLetters'[e] \in {0, 1}
            /\ \A f \in Events \ {e} : deadLetters'[f] = deadLetters[f]
        BY <3>1, <3>3 DEF CommitFailure
      <4> QED BY <3>1, <4>1 DEF EffectsHappenOnce
    <3> QED BY <2>2, <3>2, <3>3 DEF Commit
  <2>3. ASSUME \/ \E e \in Events : Emit(e) \/ Resend(e) \/ \E answered \in BOOLEAN : Deliver(e, answered)
               \/ \E w \in Workers : \/ LockNext(w) \/ Dispatch(w) \/ LockInvoice(w)
                                     \/ LockPayment(w) \/ Crash(w)
               \/ \E i \in Invoices : SendInvoice(i) \/ \E total \in Totals : PatchDraft(i, total)
               \/ \E q \in Requests : RequestStep(q) \/ \E i \in Invoices : BeginLink(q, i)
               \/ UNCHANGED vars
        PROVE  UNCHANGED <<processed, deadLetters, effects>>
    BY <2>3 DEF Emit, Resend, Deliver, LockNext, Dispatch, LockInvoice, LockPayment, Crash,
                SendInvoice, PatchDraft, RequestStep, CallStripe, CommitLink, AbortLink, DropLink,
                BeginLink, queue, vars
  <2>4. ~ \E k \in 1 .. Len(inbox) : Purge(k)
    BY DEF Purge, QueueInv
  <2> QED BY <2>1, <2>2, <2>3, <2>4 DEF Next, WorkerStep
<1>3. TypeInv /\ QueueInv /\ [Next]_vars => QueueInv'
  BY StepQueue
<1>4. Spec => []TypeInv
  BY InitTypeInv, TypeInvStep, PTL DEF Spec
<1> QED BY <1>1, <1>2, <1>3, <1>4, InitQueue, PTL DEF Spec
-----------------------------------------------------------------------------
(***************************************************************************)
(* The queue, whatever is purged.                                          *)
(***************************************************************************)
\* An event is in the hands of one worker at a time, its row stays there and
\* unprocessed meanwhile, and an event that is not processed has attempts left,
\* so no row is left over that no worker would take again.
EventsHaveOneWorker ==
  /\ \A w \in Workers : QueueWorker(w)
  /\ \A e \in Events : e \notin processed => attempts[e] < MaxAttempts

\* A delivery adds to the inbox.
LEMMA StoredStays ==
  ASSUME TypeInv, NEW e \in Events, NEW answered \in BOOLEAN, Deliver(e, answered),
         NEW f \in Events, Stored(f)
  PROVE  Stored(f)'
<1>1. inbox \in Seq(Events) /\ inbox' \in {inbox, Append(inbox, e)}
  BY DEF Deliver, TypeInv, TypeOK
<1>2. \A k \in DOMAIN inbox : k \in DOMAIN Append(inbox, e) /\ Append(inbox, e)[k] = inbox[k]
  BY <1>1
<1> QED BY <1>1, <1>2 DEF Stored

\* A purge deletes the oldest rows: the others stay.
LEMMA StoredOutlives ==
  ASSUME TypeInv, NEW k \in 1 .. Len(inbox), inbox' = SubSeq(inbox, k + 1, Len(inbox)),
         NEW f, Stored(f), f \notin {inbox[j] : j \in 1 .. k}
  PROVE  Stored(f)'
<1>1. inbox \in Seq(Events) /\ Len(inbox) \in Nat /\ DOMAIN inbox = 1 .. Len(inbox)
  BY DEF TypeInv, TypeOK
<1>2. PICK j \in 1 .. Len(inbox) : inbox[j] = f
  BY <1>1 DEF Stored
<1>3. j \notin 1 .. k
  BY <1>2
<1>4. j - k \in 1 .. (Len(inbox) - k)
  BY <1>1, <1>2, <1>3
<1> DEFINE n == Len(inbox)
           rest == SubSeq(inbox, k + 1, n)
<1>5. DOMAIN rest = 1 .. (n - k) /\ rest[j - k] = inbox[j]
  <2>1. n \in Int /\ k + 1 \in Int /\ \A l \in 1 .. n : inbox[l] \in Events
    BY <1>1
  <2>2. \A l \in k + 1 .. n : inbox[l] \in Events
    BY <2>1
  <2>3. /\ rest \in Seq(Events)
        /\ Len(rest) = IF k + 1 <= n THEN n - (k + 1) + 1 ELSE 0
        /\ \A l \in 1 .. n - (k + 1) + 1 : rest[l] = inbox[(k + 1) + l - 1]
    BY <2>1, <2>2, SubSeqProperties
  <2>4. n \in Int /\ k \in Int /\ j \in Int /\ k <= n
    BY <1>1
  <2> HIDE DEF n, rest
  <2>5. n - (k + 1) + 1 = n - k /\ (k + 1) + (j - k) - 1 = j /\ (~(k + 1 <= n) => n - k = 0)
    BY <2>4
  <2>6. Len(rest) = n - k
    BY <2>3, <2>5
  <2>7. rest[j - k] = inbox[j]
    BY <1>4, <2>3, <2>5 DEF n
  <2> QED BY <2>3, <2>6, <2>7
<1>6. inbox' = rest
  OBVIOUS
<1> HIDE DEF rest
<1> QED BY <1>2, <1>4, <1>5, <1>6 DEF Stored

LEMMA StepOneWorker == TypeInv /\ EventsHaveOneWorker /\ [Next]_vars => EventsHaveOneWorker'
<1> SUFFICES ASSUME TypeInv, EventsHaveOneWorker, [Next]_vars PROVE EventsHaveOneWorker'
  OBVIOUS
<1>0. /\ \A w \in Workers : worker[w].pc # "idle" => worker[w].event \in Events
      /\ DOMAIN worker = Workers /\ DOMAIN attempts = Events
      /\ \A e \in Events : attempts[e] \in Nat
  BY DEF TypeInv, TypeOK, Placed, WorkerPlaced
<1>1. ASSUME UNCHANGED <<processed, attempts>>,
             \A f \in Events : Stored(f) => Stored(f)',
             \A w \in Workers : worker'[w].pc # "idle" =>
               worker[w].pc # "idle" /\ worker'[w].event = worker[w].event
      PROVE  EventsHaveOneWorker'
  <2>1. ASSUME NEW w \in Workers PROVE QueueWorker(w)'
    BY <1>0, <1>1 DEF EventsHaveOneWorker, QueueWorker
  <2> QED BY <1>1, <2>1 DEF EventsHaveOneWorker
<1>2. ASSUME NEW e \in Events, NEW answered \in BOOLEAN, Deliver(e, answered)
      PROVE  EventsHaveOneWorker'
  <2>1. UNCHANGED <<processed, attempts, worker>>
    BY <1>2 DEF Deliver
  <2> QED BY <1>1, <1>2, <2>1, StoredStays
<1>3. ASSUME NEW w \in Workers, Dispatch(w) \/ LockInvoice(w) \/ LockPayment(w) \/ Crash(w)
      PROVE  EventsHaveOneWorker'
  <2>1. UNCHANGED queue /\ worker[w].pc # "idle"
    BY <1>3 DEF Dispatch, LockInvoice, LockPayment, Crash
  <2>2. worker'[w].pc = "idle" \/ worker'[w].event = worker[w].event
    BY <1>3, RowTypes DEF Dispatch, Goto, LockInvoice, LockPayment, Crash, Release, WorkerState,
                          TypeInv, TypeOK
  <2>3. \A v \in Workers \ {w} : worker'[v] = worker[v]
    BY <1>0, <1>3 DEF Dispatch, Goto, LockInvoice, LockPayment, Crash, Release
  <2>4. \A f \in Events : Stored(f) => Stored(f)'
    BY <2>1 DEF Stored, queue
  <2> QED BY <1>1, <2>1, <2>2, <2>3, <2>4 DEF queue
<1>4. ASSUME NEW w \in Workers, LockNext(w) PROVE EventsHaveOneWorker'
  <2>0. UNCHANGED queue
    BY <1>4 DEF LockNext
  <2>1. PICK k \in DOMAIN inbox :
          /\ Eligible(inbox[k])
          /\ worker' = [worker EXCEPT ![w] = [Idle EXCEPT !.pc = "dispatch", !.event = inbox[k]]]
    BY <1>4 DEF LockNext
  <2>2. /\ worker'[w].event = inbox[k] /\ Stored(inbox[k]) /\ inbox[k] \notin processed
        /\ \A v \in Workers \ {w} : worker'[v] = worker[v]
        /\ \A v \in Workers : worker[v].pc # "idle" => worker[v].event # inbox[k]
    BY <1>0, <2>1 DEF Eligible, EventLocked, Stored, Idle
  <2>3. ASSUME NEW v \in Workers PROVE QueueWorker(v)'
    BY <2>0, <2>2 DEF EventsHaveOneWorker, QueueWorker, Stored, queue
  <2> QED BY <2>0, <2>3 DEF EventsHaveOneWorker, queue
<1>5. ASSUME NEW w \in Workers, Commit(w) PROVE EventsHaveOneWorker'
  <2> DEFINE e == worker[w].event
  <2>1. /\ e \in Events
        /\ \A v \in Workers \ {w} : worker[v].pc # "idle" => worker[v].event # e
    BY <1>0, <1>5 DEF Commit, CommitHandled, CommitFailure, EventsHaveOneWorker, QueueWorker
  <2>2. /\ worker'[w].pc = "idle" /\ \A v \in Workers \ {w} : worker'[v] = worker[v]
        /\ UNCHANGED inbox
    BY <1>0, <1>5, RowTypes DEF Commit, CommitHandled, CommitFailure, Release
  <2>3. /\ processed' \subseteq processed \cup {e} /\ processed \subseteq processed'
        /\ \A f \in Events \ {e} : attempts'[f] = attempts[f]
        /\ e \in processed' \/ attempts'[e] < MaxAttempts
    <3>1. CASE CommitHandled(w)
      BY <3>1 DEF CommitHandled
    <3>2. CASE CommitFailure(w)
      <4>1. attempts'[e] = attempts[e] + 1 /\ \A f \in Events \ {e} : attempts'[f] = attempts[f]
        BY <1>0, <2>1, <3>2 DEF CommitFailure
      <4>2. processed' = IF attempts[e] + 1 >= MaxAttempts THEN processed \cup {e} ELSE processed
        BY <3>2 DEF CommitFailure
      <4> QED BY <1>0, <2>1, <4>1, <4>2, WorkerAssumptions
    <3> QED BY <1>5, <3>1, <3>2 DEF Commit
  <2>4. ASSUME NEW v \in Workers PROVE QueueWorker(v)'
    BY <2>1, <2>2, <2>3 DEF EventsHaveOneWorker, QueueWorker, Stored
  <2> QED BY <2>3, <2>4 DEF EventsHaveOneWorker
<1>6. ASSUME NEW k \in 1 .. Len(inbox), Purge(k) PROVE EventsHaveOneWorker'
  <2> DEFINE gone == {inbox[j] : j \in 1 .. k}
  <2>1. /\ UNCHANGED worker /\ processed' = processed \ gone
        /\ inbox' = SubSeq(inbox, k + 1, Len(inbox))
        /\ \A e \in gone : ~EventLocked(e)
        /\ \A e \in Events : attempts'[e] = IF e \in gone THEN 0 ELSE attempts[e]
    BY <1>6 DEF Purge
  <2>2. \A w \in Workers : worker[w].pc # "idle" => worker[w].event \notin gone
    BY <2>1 DEF EventLocked
  <2>3. \A f : Stored(f) /\ f \notin gone => Stored(f)'
    BY <2>1, StoredOutlives
  <2> HIDE DEF gone
  <2>4. ASSUME NEW w \in Workers PROVE QueueWorker(w)'
    BY <2>1, <2>2, <2>3 DEF EventsHaveOneWorker, QueueWorker
  <2>5. \A e \in Events : e \notin processed' => attempts'[e] < MaxAttempts
    BY <2>1, WorkerAssumptions DEF EventsHaveOneWorker
  <2> QED BY <2>4, <2>5 DEF EventsHaveOneWorker
<1>7. ASSUME \/ \E e \in Events : Emit(e) \/ Resend(e)
             \/ \E i \in Invoices : SendInvoice(i) \/ \E total \in Totals : PatchDraft(i, total)
             \/ \E q \in Requests : RequestStep(q) \/ \E i \in Invoices : BeginLink(q, i)
             \/ UNCHANGED vars
      PROVE  EventsHaveOneWorker'
  <2>1. UNCHANGED <<queue, worker>>
    BY <1>7 DEF Emit, Resend, SendInvoice, PatchDraft, RequestStep, CallStripe, CommitLink,
                AbortLink, DropLink, BeginLink, vars
  <2>2. \A f \in Events : Stored(f) => Stored(f)'
    BY <2>1 DEF Stored, queue
  <2> QED BY <1>1, <2>1, <2>2 DEF queue
<1> QED BY <1>2, <1>3, <1>4, <1>5, <1>6, <1>7 DEF Next, WorkerStep

\* For any number of workers, rollbacks and purges, no event is handled by two
\* transactions at once, none is purged under a transaction's hands, and none is
\* left unprocessed without attempts (LockNextPendingStripeWebhook with FOR
\* UPDATE SKIP LOCKED, PurgeWebhookEventsOlderThan).
THEOREM EventsAlwaysHaveOneWorker == Spec => []EventsHaveOneWorker
<1>1. Init => EventsHaveOneWorker
  BY RowTypes, WorkerAssumptions DEF Init, EventsHaveOneWorker, QueueWorker
<1>2. Spec => []TypeInv
  BY InitTypeInv, TypeInvStep, PTL DEF Spec
<1> QED BY <1>1, <1>2, StepOneWorker, PTL DEF Spec
=============================================================================
