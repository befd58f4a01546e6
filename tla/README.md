# Verification of the consulting revenue platform API

TLA+ models of the Go service in this repository: how worked hours become
invoices, how invoices are paid through Stripe, and how the tables in Postgres
stay consistent while HTTP requests, webhook deliveries and background workers
run at the same time.  TLC checks the models on small instances; TLAPS proves
the central properties of every component, and that the interleaved Stripe
transactions implement the money tables, for every instance.

## 1. The system

| Part | State it keeps | Operations | What is hard about it |
|---|---|---|---|
| Webhook endpoint (`internal/httpapi/handlers_stripe_webhook.go`, `repo/webhook_events.go`) | `webhook_events` | store an event once, answer 200 | deliveries lost, repeated, reordered |
| Webhook worker (`internal/webhookworker`, `repo/webhook_events_worker.go`, `jobworker/poll.go`) | `processed_at`, `attempt_count`, `jobs_dead_letter` | lock the next event, dispatch, commit or count a failure | several API instances poll at once (`SKIP LOCKED`), transactions roll back, attempts are bounded |
| Reconciliation and refunds (`repo/stripe_reconcile.go`, `repo/stripe_refund.go`, `repo/payments.go`, `repo/ledger.go`) | `invoices.status`, `payments`, `stripe_refund_events`, `ledger_entries` | paid, refunded, failed | four tables per event, read-modify-write in Go, events of one charge in any order |
| Payment links (`httpapi/handlers_invoice_payment.go`, `stripepay`) | `payments` | create one link per invoice | calls Stripe while holding a row lock, can time out during the call |
| Retention (`internal/retention`, `repo/retention.go`) | deletes from `webhook_events`, `audit_logs` | purge by age | takes pending events too |
| Reconciliation summary (`repo/reconciliation.go`) | none | drift per currency | compares a growing sum with a shrinking one |
| Time entries and their workflow (`repo/time_entries.go`, `repo/time_entry_workflow.go`, `usecase`, `domain/workflow.go`) | `time_entries`, `time_entry_events` | create, PATCH, submit, approve, reject | PATCH reads twice and writes without a transaction |
| Invoice generation and numbering (`repo/invoice_generation.go`, `repo/invoices.go`) | `invoice_sequences`, `invoices`, `invoice_line_items`, `time_entries.invoice_id` | generate, create a draft, send | concurrent generations, rollbacks after a number was drawn, overflow |
| Line items (`repo/invoice_line_items.go`) | `invoice_line_items`, `invoices.total_minor` | delete, insert, update, sum again | one transaction of several statements: races with another edit and with sending; one bad item undoes all |
| Memberships, organizations (`repo/memberships.go`, `repo/organization.go`, `httpapi/middleware_tenant.go`) | `memberships`, `organizations` | join, change role, leave, deactivate | last-owner rule and caller's role are read without a lock and used later |
| Sessions (`httpapi/auth_session.go`, `repo/session.go`) | `auth_sessions`, the tokens clients hold | login, refresh, logout | rotation and revocation are two statements each, answers get lost, access tokens are not looked up |
| Clients and projects (`repo/clients.go`, `repo/projects.go` and their handlers) | `clients`, `projects` | create, PATCH, delete, archive | read-modify-write without a transaction; what a new row refers to is looked at in an earlier statement |
| Listing of entries (`repo/time_entries_pagination.go`, `httpapi/pagination.go`) | a cursor the client keeps | one page per request | rows come, go and move between two pages |
| Registration, reports, exports, PDF, audit, config, seed, middleware | rows or none | inserts, read-only queries, start-up | little; see section 8 |

The parts meet in the database.  An HTTP request or a worker runs transactions at
READ COMMITTED: a statement sees what is committed, a row lock is kept until the
end of the transaction, and nothing else is protected.  The only message channel
is Stripe's webhooks, the only call out is the creation of a payment link.

Correctness, per part: an event takes effect at most once and is settled in the
end; status, payment, refunds and ledger of an invoice tell one story; the
customer is asked for the amount that was sent; an hour is billed once, as it was
approved; totals are the sum of the lines; numbers have no gaps; the event log
of an entry explains its status; an organization keeps an owner until it is
deactivated, and stays deactivated; a logout ends a session, its tokens are
exchanged once; deleted clients and archived projects rest; a PATCH changes what
it was asked to; a listing returns what is there once.

## 2. Modules

```
PaymentRows            rows, Stripe events, what each handler decides    (no state)
  PaymentLedger        the money tables, one step per transaction        abstract
    PaymentLedger_proofs   TLAPS
    MCPaymentLedger
  StripeWebhooks       Stripe, inbox, workers, locks, requests, purge    detailed
    INSTANCE PaymentLedger      (money rows)           PROPERTY MoneyPromise
    INSTANCE WebhookLifecycle   (the queue, per event) PROPERTY QueuePromise
    StripeWebhooks_proofs  TLAPS, with INSTANCE PaymentLedger_proofs
    MCStripeWebhooks
  WebhookLifecycle     one event: absent, pending, done or dead          abstract
TimeBilling            entries, edits, generation, lines, sending
  TimeBilling_proofs       TLAPS
  MCTimeBilling
Worklog                clients, projects, entries by date and project, listing
  Worklog_proofs           TLAPS
  MCWorklog
Sessions               login, refresh, logout, expiry
  Sessions_proofs          TLAPS
  MCSessions
Memberships            additions, role changes, removals, deactivation
  Memberships_proofs       TLAPS
  MCMemberships
SumTheorems            lemmas on sums over finite sets, used by the proofs of
                       PaymentLedger, StripeWebhooks and TimeBilling
```

**PaymentRows** holds the records (`InvoiceRow`, `PaymentRow`, `RefundRow`,
`LedgerRow`, `Event`) and the pure part of the handlers: which handler an event
reaches (`IsPaid`, `IsRefund`, `IsFailure`, `IsRejected`), the checks in the
order of the code (`AcceptsPaid`, `RefundError`, `AcceptsRefund`) and the values
written (`CaptureOn`, `RefundOn`, `Reopens`, `FailureOn`).  An event is a record of
the payload fields the worker reads.  Ledger entries of an invoice are summed per
event type.

**PaymentLedger** is the specification of the money tables: `PatchDraft`,
`SendInvoice`, `CreatePaymentLink`, `ReconcileStripePaymentPaid`,
`ApplyStripeRefund`, `RecordStripePaymentFailure`, each atomic.

**StripeWebhooks** is the same system as it runs.  Worker transactions are cut
where another transaction can get in between, that is at each row lock and at the
commit: `LockNext` (oldest pending event that is not locked), `Dispatch`
(the lookup of the invoice, without a lock), `LockInvoice`, `LockPayment`, then
`CommitHandled` or `CommitFailure`.  `worker[w].inv` and `worker[w].pay` are the Go
structs read under lock; the writes are computed from them, as in the code, and
land on whatever is committed.  Only the INSERT of a refund decides against the
committed rows (`Recorded`): its ON CONFLICT waits for other transactions, and two
invoices may share a PaymentIntent, so their locks do not order it.  `Crash` rolls back at
any point.  Payment-link
requests (`BeginLink`, `CallStripe`, `CommitLink`, `AbortLink`, `DropLink`) keep the
invoice locked during the call and may be cut off while the call goes on.  `Emit`,
`Deliver`, `Resend` are Stripe: it reports only what has happened (`Caused`),
repeats until it is answered, loses answers, reorders.  `Purge` is the retention
worker.

**WebhookLifecycle** is what the queue promises for one event.

**TimeBilling** is one organization's path from a time entry to a sent invoice.
`Submit-`, `Approve-` and `RejectTimeEntry`, `CreateDraftInvoice` and `SendInvoice` lock the
row they decide on before they read it, so each is a step.
A PATCH of an entry is three statements outside any transaction (`CheckEdit`,
`LoadEntry`, `WriteEntry`); a generation is one transaction of several statements
(`AllocateNextInvoiceNumber`, `SelectEntries`, `CommitInvoice`, or `RollBack`) that
holds the organization's sequence row and the selected entries.  `PatchInvoiceLineItems`
is one transaction too: `LockDraft` (the invoice's row, its status, the deletions), any
number of `UpsertLine`, `RecomputeTotals`, then `CommitLines`, or `RollBackLines` at any
point, as after an item that is not on the invoice.  `lineEdit[q]` holds what it has
deleted and written so far, which only its own statements see (`Edited`); `draftLock` is
the row it keeps, and `SendInvoice` and other edits of that draft wait for it.

**Memberships** is one organization's members.  A request is let in while some active
owner may ask for it (`Begin-` actions: `requireTenantAuth` reads the caller's role once,
and nothing looks at it again), then its statements run one at a time: `ReadMembership`,
`CountActiveOwners` for a change that takes an owner away (`Protected`), then
`UpdateMembershipRole` or `DeleteMembership`, which is the write and its commit, and
`LogRemoval` after the commit.  `CreateActiveMembership` is the INSERT with the table's
UNIQUE constraint.  A deactivation is `ReadOrganization`, `SuspendMembers` (its UPDATEs,
which keep the written rows locked in `request[q].rows`) and `CommitDeactivation`.
`Abandon` ends a request between two statements.  Who the caller is does not matter after
the check, so it is not kept.  `overlap` is a history variable: it remembers that two
changes were in their transactions at once.

**Worklog** is one organization's clients, projects and entries, with the columns
they refer to each other by.  Each operation of several statements is a request that
is between two of them: `FindClient`, `InsertProject` (CreateProject); `LoadClient`,
`UpdateClient` and `LoadProject`, `UpdateProject` (the PATCHes: `Merged` is the write of
all columns from the row read before); `ValidateNewEntry`, `InsertTimeEntry`;
`LoadEntry`, `ValidateNewProject`, `UpdateTimeEntry`.  `BeginListing` and
`ListTimeEntriesPage` are a client that follows `next_cursor` to the end; between two
pages everything else may happen.  `CreateClient`, `SoftDeleteClient` and `LockEntry` (the
approval, in TimeBilling) are single statements.  Entries are in both TimeBilling and
Worklog, each with the columns the other leaves out: no statement decides on columns of
both.  `asked` is a history variable: what each row would be if PATCHes ran one after the
other.  `overlapped` remembers the rows for which they did not.

**Sessions** is the table `auth_sessions`, the tokens clients were answered (`held`,
`access`) and a clock.  A login inserts a session and answers later
(`InsertAuthSession`, `IssueAccessToken`); a refresh is `GetAuthSessionByRefreshHash`,
`UpdateAuthSessionRefresh`, `IssueAccessToken`; a logout is `SessionBelongsToUser`,
`RevokeAuthSession`.  `Abandon` ends any of them between two statements, so what was
written stays and the answer is lost.  `spent` and `overlapped` are history variables.

PROJECT.json ("map") names the source lines behind every definition.

## 3. Runs

| Run | Instance | Question | Result |
|---|---|---|---|
| `money` (MCPaymentLedger.cfg) | 2 invoices, 13 events of three intents | with atomic transactions, do amounts, status, refunds and ledger stay consistent in every order of events? | holds |
| `webhooks` (MCStripeWebhooks.cfg) | 1 invoice, 2 workers, 2 link requests, a charge and two partial refunds, 1 rollback, 1 purge | do the interleaved transactions implement PaymentLedger? are the copies current when they are used? does the holder of a lock ever wait? | holds |
| `queue` (MCQueue.cfg) | 2 workers, 1 request, 3 events, 1 rollback, fairness | is each delivery settled, each wait ended? | holds |
| `billing` (MCTimeBilling.cfg) | 2 entries, 1 PATCH, 2 generations, 2 edits of lines, 2 invoices, 1 manual line | is work billed once, as approved, with consecutive numbers? do totals match lines, and does a sent invoice stay as it is, with edits in flight? is removed work gone? | holds |
| `memberships` (MCMemberships.cfg) | 2 users, 3 rows, 1 addition, 2 changes, 1 deactivation | when is an owner lost? is a removal recorded once? does a closed organization stay closed? | holds |
| `sessions` (MCSessions.cfg) | 2 sessions, 2 requests, 4 refresh tokens, 5 instants | are tokens exchanged once? do held ones work? does a logout end a session and its access? | holds |
| `worklog` (MCWorklog.cfg) | 1 client, 2 projects, 2 entries, 2 requests, 3 operations of several statements, pages of 1 | do deleted clients and archived projects rest? do PATCHes add up? is a listing complete? | holds |
| `refund_race` | charge and refund, workers | is a refund that was processed on record? | violated |
| `refund_replay` | full refund reported twice, 1 worker | does a replay succeed? | violated |
| `late_report` | session, intent and full refund of one charge | is a charge captured once? | violated |
| `contractor_edit` (MCContractorEdit.cfg) | 1 entry, 1 contractor's PATCH | does a contractor's edit change drafts only? | violated |
| `last_owner` (MCLastOwner.cfg) | 2 users, 2 rows, 2 changes | does an organization keep an owner? | violated |

### Properties

`AmountsAgree`, `NetFollowsStatus`, `RefundsBalance`, `MoneyLifeCycle`,
`StatusMovesWithMoney` and `HistoryIsKept` relate the money tables to each other and
to their past.  `MoneyLifeCycle` says there are four phases and no other; the
fourth, paid a second time after a full refund, is real behaviour: the payment
row keeps its first intent and its refunded amount, so the second payment cannot be
refunded through the API.  `DriftIsFullRefunds` says what the operators' drift figure
is: the captures of the charges that were refunded in full, and nothing else.

`MoneyPromise` (refinement) says the interleaved handlers do what they would do one
after the other; `CopiesAreCurrent` is the reason, `RefundsApplyOnce` a consequence
that survives purges, `LinkKeepsItsAmount` covers the idempotency key of the link.
`QueuePromise`, `EveryDeliverySettles` and `EveryWaitEnds` are about the queue and
the locks.  `HoldersNeverWait` is the safety half of `EveryWaitEnds`: whoever has an invoice
or a payment row is not waiting for another row, so transactions cannot wait for each
other in a circle.  It rests on the order of the handlers' locks, invoice before payment, and on
no transaction locking a second invoice.

`BilledOnce`, `BilledAsApproved`, `ApprovedWorkIsFrozen`, `TotalsMatchLines`,
`IssuedInvoicesAreFrozen`, `NumbersHaveNoGaps`, `EventsExplainStatus` and
`DroppedWorkStaysDropped` are TimeBilling's.  No constraint of the schema enforces
`BilledOnce`: it rests on the
sequence row that every generation of the organization locks first.  `TotalsMatchLines`
and `IssuedInvoicesAreFrozen` rest on the row that an edit of lines locks: without FOR UPDATE
two edits would each sum up lines the other is changing, and one could commit after the
invoice was sent.
`DroppedWorkStaysDropped` records a consequence of the code: removing a generated line
from a draft (`LockDraft` and the commit) leaves its entry `invoiced`, so its hours can never
be billed again through the API.

`OneChangeAtATimeKeepsAnOwner` is what is left of the last-owner rule: the only way to
lose all owners is two overlapping changes; additions, abandoned requests, callers who
were demoted in the meantime and unfinished deactivations are harmless.
`RemovalsAreRecordedOnce` relates the audit log to the rows when two requests delete the
same membership.  `ClosedStaysClosed` is an action property of deactivation; it speaks of
organizations with no addition on its way (section 4 says why).

`TokensAreSpentOnce` and `UnspentTokensWork` say what rotation gives: a token is
exchanged once, and a client that holds an unspent one is not locked out, each unless two
refreshes of the session overlapped.  Then both update the row by its id: both
are answered, and the first answer's token is void at once.  `LogoutIsFinal` is about a
refresh that found its session before the logout: the `revoked_at IS NULL` of its UPDATE
stops it.  `AccessEndsAfterLogout` bounds what the missing lookup of access tokens costs:
a token signed by a refresh that was being answered during the logout lives for one
lifetime and the length of that request.

`DeletedClientsRest` and `ArchivedProjectsRest` are the two referential rules that the
schema does not keep: both hold except for the requests that had passed the check before.
`PatchesAddUp` compares each row with a serial history.  `ListingsAreComplete` is keyset
pagination: every entry that was there when the listing began, and was not moved in its
order meanwhile, is returned exactly once.

### Bounds, and why they are enough

- Two workers and two requests: every conflict in the code is between two
  transactions on one invoice; a third would only wait for the same locks.  One
  invoice in `webhooks`, because no transaction touches two; two in `money`, where
  links and metadata of different invoices can be mixed up.
- `MaxAttempts = 2`, the smallest value the worker allows (`process.go:20`).
- `MaxCrashes = 1`, `MaxPurges = 1`: a rolled-back transaction leaves nothing
  behind but its event, so a second adds no new kind of state.
- Totals of 2 and 3 minor units with refunds of 1, 2 and 3 reach "less than", "exactly"
  and "more than" the payment.
- `billing`: minutes {30} and rates {1, 3, 10} give lines of 1 and 2 and one product
  that does not fit; two entries can be billed together or apart and their sum can
  exceed `LargestTotal`.  `LargestProduct` and `LargestTotal` are both int64's
  maximum, given apart because no small instance reaches both with one number.
  The PATCH asks for one of the higher rates (`Raises`), which is
  enough to change what a line comes to; `contractor_edit` has every PATCH there is.
  Two edits of lines can meet on one draft or work on two.
  `MaxEvents = 4` admits a rejection followed by an approval, `MaxInvoices = 2` a
  second invoice.  The PATCH is a staff member's: it may start in any state, so it
  does all a contractor's may do (the contractor's is in `contractor_edit`).
- `memberships`: two changes are the conflict, a third only repeats it; three rows let a
  removed user be added again; one role stands for accountant and contractor, which no
  membership code tells apart.
- `sessions`: two requests are the smallest overlap of refreshes or of a refresh and a
  logout; two sessions let a rotation reach the wrong row; four tokens are two logins and
  a refresh each, or one session rotated three times; `AccessTTL = 1` and
  `RefreshTTL = 2` on a clock to 4 let both expire and a session outlive its first
  expiry.  A unit of time is longer than a request, so a request sees one tick at most.
- `worklog`: three operations of several statements are a listing or a PATCH and two
  that run in between; pages of one row make every row a page border.  `MCInit` starts
  from rows left by earlier requests, up to renaming: an active client or none, one
  project with the entries and one more, since the model's requests could build every
  other start from these.
- Symmetry (`Alike`, `Symmetry`) is used only in runs without liveness.
- `CHECK_DEADLOCK FALSE` stands in `money`, where with no more events and a sent, paid
  invoice the atomic model has nothing left to do, in `memberships` and `last_owner`,
  where nobody is left to ask for anything once the organization is closed, in
  `sessions`, where the clock and the tokens are bounded, and in `worklog`, where requests
  are.

### Fairness

Only `queue` assumes any.  Workers are weakly fair: `jobworker.Poll` calls the worker at
every tick, and `webhookworker.Run` turns every error into `ErrIdle`, so a failure never
ends the loop.  `LockInvoice` is strongly fair: Postgres queues the waiters of a row
lock, so a lock that keeps being released is granted.  Requests are weakly fair: a
statement ends or the 15 s timeout ends it.  Stripe repeats a delivery until it is
answered, `WF(Deliver(e, TRUE))`.  Nothing is assumed of `Crash`, `Purge`, users or
`Resend`; crashes are bounded, since without a bound a transaction could be rolled
back for ever.

## 4. What the violated runs show

1. **refund_race** A refund processed before the report of its payment finds no
   payment with the intent, returns nil and is marked processed
   (`stripe_refund.go:78-80`); the later payment report makes the invoice paid in full.
   The matrix says succeeded refunds are applied.
2. **refund_replay** The balance check comes before the deduplication
   (`stripe_refund.go:109-127`).  `refund.updated` after `refund.created` of a refund
   that used up the payment is therefore an error and ends in the dead letters.
   The books stay right (`RefundsApplyOnce`), the replay is not "idempotent".
3. **late_report** `checkout.session.completed` and `payment_intent.succeeded` of one
   charge are deduplicated by the invoice's status alone.  With a full refund
   processed in between, the second captures again.
4. **contractor_edit** `handlePatchTimeEntry` checks "contractors may only edit draft
   entries" on one read, `UpdateTimeEntry` reads again and accepts submitted entries.
   Checking `billing` with a contractor's and with a staff member's PATCH gives the
   same number of reachable states: the check keeps no state out.
5. **last_owner** `UpdateMembershipRole` and `DeleteMembership` count active owners with
   a plain SELECT.  Two transactions that each take away one of two owners both count
   two, write different rows and commit.

Not runs of their own, because a property of a passing run says exactly how far the rule
holds:

- The reconciliation summary subtracts payments of paid invoices from captures.  A full
  refund takes the invoice out of the second sum and nothing out of the first, so the
  drift does not return to zero (`DriftIsFullRefunds`).
- "Refresh token cannot be reused after rotation" (`backlog.v1.json`): two overlapping
  refreshes exchange one token twice (`TokensAreSpentOnce`).
- "Archived project cannot receive new time entries" (`backlog.v1.json`): requests that
  had found the project open still write (`ArchivedProjectsRest`), and one of two
  overlapping PATCHes of a project un-archives it (`PatchesAddUp` excepts `overlapped`).

An addition that was let in before a deactivation commits after
it, with status `active`.  That member is then admitted by `requireTenantAuth`, which
never looks at `deactivated_at`, although `docs/runbook.md` says tenant APIs return
403 after a deactivation.  `Closed` asks that no addition be on its way for this reason.

## 5. Proofs

### PaymentLedger

`PaymentLedger_proofs` proves, for all sets of invoices, events, totals and
currencies that satisfy `RowAssumptions` and `TotalsAssumption` (links are unique per
invoice, an invoice has one currency, events are typed, totals are natural numbers):

| Theorem | Statement |
|---|---|
| `TypeCorrect` | `Spec => []TypeOK` |
| `AmountsAlwaysAgree` | `Spec => []AmountsAgree` |
| `MoneyLifeCycleAlways` | `Spec => []MoneyLifeCycle` |
| `NetAlwaysFollowsStatus` | `Spec => []NetFollowsStatus` |
| `RefundsAlwaysBalance` | `Spec => []RefundsBalance` |
| `DriftIsAlwaysFullRefunds` | with finitely many invoices: `Spec => []DriftIsFullRefunds` |
| `StatusAlwaysMovesWithMoney` | `Spec => StatusMovesWithMoney` |
| `HistoryIsAlwaysKept` | `Spec => HistoryIsKept` |

The inductive invariant `IInv` is `TypeOK` and, for each invoice, `RowInv`, the
conjunction of what `AmountsAgree` and `MoneyLifeCycle` say of its rows
(`RowInvMeaning`).  `NetFollowsStatus` is not inductive: that a refund leaves the net
at zero or above needs the capture to have been of the whole payment.  Each action has
a lemma that shows its effect on one invoice (`RowWrite`) and keeps `RowInv`, and from
the same case split the relation `RowStep` between a row before and after, which gives
the two action properties.

`RefundInv` is the invariant of the refund rows: there are finitely many, and those of an
invoice add up to the refunded amount of its payment.  A refund keeps it because
`ApplyStripeRefund` has found its id to be new, so one row is added with the amount the
payment gains.  The drift needs no induction over steps: in each phase of `MoneyLifeCycle` an
invoice's captures less its paid amount are its payment's amount after a full refund and
nothing otherwise, and the sum of that over the invoices of a currency is the drift
(`SumOfParts`).

### SumTheorems

Totals, refunds and drift are sums, which the code computes with SQL's SUM or a loop in Go and
the models with the community modules' `SumFunctionOnSet`, a fold that takes the elements
in an order nobody knows.  `SumTheorems` expands the fold and proves that the order does not
matter (`SumElement`), then what a new element or a changed value adds (`SumAdd`,
`SumChanged`), that a sum keeps to the natural numbers (`SumNat`), and how it
goes over renamings, unions and parts (`SumOfImage`, `SumUnion`, `SumOfParts`).  The library's
theorem of induction over finite sets takes an operator, which no prover here
instantiates.  `SubsetInduction` replaces it: a collection of subsets that is closed under
the inductive step has them all, since a smallest subset outside of it
(`FS_StrictSubsetOrderingWellFounded`) would contradict the step.  A theorem about a sum
over a set that is a constant assumes the set finite: a table has finitely many rows, and
a sum over an infinite set has no meaning.

### Memberships

`Memberships_proofs` proves, for any sets of users, rows, roles and requests that satisfy
`MembershipAssumption` (finitely many rows, the three kinds of requests are disjoint):

| Theorem | Statement |
|---|---|
| `TypeCorrect` | `Spec => []TypeOK` |
| `RemovalsRecordedOnce` | `Spec => []RemovalsAreRecordedOnce` |
| `OwnerKept` | `Spec => []OneChangeAtATimeKeepsAnOwner` |
| `ClosedForGood` | `Spec => ClosedStaysClosed` |

`IInv` is `TypeOK` and `Locks`: only a deactivation that is committing holds rows, they
are active members' rows, and there is one such deactivation at most.  `RemovalAccount`
adds that the records of a removal and the requests that are about to write one are
one together at most, and none for a row that is there: two requests may delete the
same row, one finds it.  `OwnersInv` adds what a cleared change knows: without overlaps,
two active owners were counted and no other change has run since, so an owner other
than its target is still active, or a deactivation has committed.  Neither property is
inductive without these: a removal is recorded steps after it happened, and the count is
used steps after it was taken.

### StripeWebhooks

`StripeWebhooks_proofs` proves, for any invoices, events, workers and requests that satisfy
`RowAssumptions` and `WorkerAssumptions`:

| Theorem | Statement |
|---|---|
| `TypeCorrect` | `Spec => []TypeOK` |
| `CopiesAlwaysCurrent` | `Spec => []CopiesAreCurrent` |
| `LinkAlwaysKeepsItsAmount` | `Spec => []LinkKeepsItsAmount` |
| `ImplementsMoney` | `Spec => MoneyPromise`, that is `Spec => Money!Spec` |
| `MoneyStaysSound` | `Spec => [](Money!AmountsAgree /\ Money!NetFollowsStatus /\ Money!MoneyLifeCycle)` |
| `BooksStayBalanced` | with finitely many invoices: `Spec => [](Money!RefundsBalance /\ Money!DriftIsFullRefunds)` |
| `RefundsAlwaysApplyOnce` | with finitely many events: `Spec => []RefundsApplyOnce` |
| `HoldersNeverEverWait` | `Spec => []HoldersNeverWait` |
| `EventsAlwaysHaveOneWorker` | `Spec => []EventsHaveOneWorker` |
| `QueueIsSafe` | with `MaxPurges = 0`: `Spec => Lifecycle!Init /\ [][Lifecycle!Next]_(Lifecycle!vars)` |
| `EffectsAlwaysHappenOnce` | with `MaxPurges = 0`: `Spec => []EffectsHappenOnce` |

`IInv` is `TypeInv` (TypeOK, and a transaction past its dispatch has an event and an
invoice), `Held` and `Linked`.  `Held` adds to `CopiesAreCurrent` why copies stay current:
the transaction has `invoiceLock` of its invoice, and no step of another changes an invoice
row, or the payment row below it, that is locked (`OthersKept`, `HeldBy`).  `Linked` ties the
amount Stripe has for an invoice's key to the total the invoice was sent with, also
for requests that were given up.  From `Held` each commit is one step of PaymentLedger:
what the handler decided on its copies, it would decide on the committed rows
(`HandledMoney`, `RequestMoney`); all other steps stutter (`StepMoney`).  `MoneyStaysSound`
and `BooksStayBalanced` then take the theorems of `PaymentLedger_proofs` over to the
concurrent system.

`RefundsCounted` ties the refund ids on record to the effects of the events that report
refunds: a commit that applies a refund found its id new in the committed rows and is one
effect, every other step leaves both sides alone.  It holds with purges, which forget that
an event was processed, because the refund rows are what it counts.

`LockOrder` is why nobody who is waited for waits: the owner of an invoice row is past its own
wait for that row and has no other invoice's, and the owner of a payment row owns the
invoice row above it and has stopped waiting for the payment.

`QueueInv` says that the event of a worker is stored, unprocessed and no other worker's, and
that only processed events have dead letters.  A purge deletes what remembers an event
was handled, hence the condition.  `EffectsHappenOnce` says what it comes to: one
effect at most, one dead letter at most, never both.  `QueuePromise` adds fairness, which TLC
checks.  `EventsHaveOneWorker` is what is left with purges: a purge waits
for the rows that workers have locked, so an event is in one worker's hands at most and stays
stored meanwhile, and an unprocessed one always has attempts left.

### TimeBilling

`TimeBilling_proofs` proves, for any entries, lines, requests and amounts that satisfy
`BillingAssumption`:

| Theorem | Statement |
|---|---|
| `TypeCorrect` | with finitely many entries: `Spec => []TypeOK` |
| `TotalsAlwaysMatchLines` | with finitely many entries: `Spec => []TotalsMatchLines` |
| `SubtotalRounds` | the total of a generation is within half a minor unit per entry of the exact worth |
| `SumsOnTheWayFit` | if the total of a generation fits, so does every sum on the way to it |
| `BilledOnceOnly` | `Spec => []BilledOnce` |
| `NumbersRun` | `Spec => []NumbersHaveNoGaps` |
| `ApprovedFrozen` | `Spec => ApprovedWorkIsFrozen` |
| `BilledApproved` | `Spec => BilledAsApproved` |
| `IssuedFrozen` | `Spec => IssuedInvoicesAreFrozen` |
| `DroppedWorkDropped` | `Spec => DroppedWorkStaysDropped` |
| `EventsExplain` | `Spec => []EventsExplainStatus` |

`IInv` is `TypeInv` (TypeOK without the amounts that are sums), `Locks`, `Numbered` and
`Drafts`.
`Locks` is why the statements of a generation act as one: a generation that has drawn a
number holds the sequence's row, so the number is still the next one, and the entries it
selected are approved and as they were read, because `Move` waits for their row locks and
`WriteEntry` does not touch approved rows.  `Drafts` says the same of an edit of lines: it has
its invoice's row, so the invoice is still a draft and keeps its lines, and a generated line
is written only over itself.  `StepKinds` sorts the steps into those that
bill, commit an edit of lines or send, and those that do neither (`Quiet`); `CommitEffect` and
`EditEffect` say what the first two write, and each property follows from them.
`EventsExplainStatus` is proved from `Explained`, which states the chain event by event.

`Booked` is the invariant of the totals: there are finitely many lines, none on a number
that is not drawn, and each total is the sum of its lines and no larger than
`LargestTotal`.  A generation adds its lines to an empty invoice and stores the sum that
`Fits` has bounded.  An edit of lines stores a sum it has read in an earlier statement, so
`Summed` is needed as well: what an edit has summed up is still the sum of what it would
commit, since nobody else changes the lines of a draft it has locked (`LinesStay`).  With
`IInv` the two give `TypeOK`, amounts included.
`SubtotalRounds` and `SumsOnTheWayFit` are about the arithmetic of a generation: its
per-line rounding, and that the model's one check of the final sum (`Fits`) stands
for the code's check after each addition.

### Worklog

`Worklog_proofs` proves, for any clients, projects, finite set of entries, dates, names
and page size that satisfy `WorklogAssumption`:

| Theorem | Statement |
|---|---|
| `TypeCorrect` | `Spec => []TypeOK` |
| `DeletedRest` | `Spec => DeletedClientsRest` |
| `AddUp` | `Spec => []PatchesAddUp` |
| `ArchivedRest` | `Spec => ArchivedProjectsRest` |
| `CompleteListings` | `Spec => []ListingsAreComplete` |

The type invariant adds that what a request has found is still there (`Found`: clients
are deleted softly, projects never).  `Copies` relates the row that a PATCH has read to
the row and to `asked`: where no two PATCHes overlapped, the copy is the row.
`ListInv` relates a listing's cursor to what it has returned: an entry that has not moved
is behind the cursor exactly if it was returned.  What a page is, is `PageOfRows`: the
first rows of a finite set, and nothing of it lies behind its last row; it rests on
`SmallestSet`, a smallest counterexample by the library's well-founded ordering of the
finite subsets.

### Sessions

`Sessions_proofs` proves, for any sessions, requests, lifetimes and bounds that satisfy
`SessionAssumption`:

| Theorem | Statement |
|---|---|
| `TypeCorrect` | `Spec => []TypeOK` |
| `LogoutFinal` | `Spec => LogoutIsFinal` |
| `SpentOnce` | `Spec => []TokensAreSpentOnce` |
| `UnspentWork` | `Spec => []UnspentTokensWork` |
| `AccessEnds` | `Spec => []AccessEndsAfterLogout` |

`TypeInv` adds that no token is in use that has not been drawn, which is why two sessions
never share one.  `ClaimInv` and `SpentInv` follow a token from the answer that gave it out to
the rotation that spends it; `AccessInv` ties the expiry of access tokens to requests
that are still being answered (`aged` counts the ticks they have seen).

### What is checked only

Liveness (`EveryDeliverySettles`, `EveryWaitEnds`, the fairness of `QueuePromise`) is checked
only: it needs ENABLED, which these provers do not reason about.  Every invariant and every
action property of a passing run is a theorem.  The properties of the violated runs
are refuted by TLC on their instances, which settles them.

## 6. What the models abstract

- Amounts are naturals or integers; int64 wrap-around appears where the code comes
  near it (`TimeBilling!Fits`).
- Signatures, JSON, wording of errors, metrics and log lines are left out.
- A Stripe idempotency key never expires in the model (Stripe keeps it for 24 hours).
- The checkout session id column and audit rows are left out; status `void` is never
  written by the code and does not exist in the models.
- An SQL error inside a handler aborts the transaction, so the attempt is not counted;
  the model shows it as a `Crash`, of which there are boundedly many.
- Events are settled when a purge deletes them.
- Who may call an operation is left out except for the contractor's PATCH and the
  requests of Memberships.
- Memberships: invitations do not exist (no code writes `invited`); the audit records of
  additions, role changes and deactivations are left out; a handler's first look for the
  user or membership is part of `Begin-` or has no effect that the later statement lacks.
- TimeBilling: project, date and notes of an entry are left out, the range of dates of a
  generation is any set of entries.
- Worklog: of a client the name stands for every column a PATCH may change, of a project
  the name and the archive flag, of an entry the date and the project; validation of names
  and dates is left out.  Of a listing's filters the project is modelled; the range of dates,
  the status and the user are left out.
- `HoldersNeverWait` is about row locks.  The INSERT of a refund may wait inside its
  ON CONFLICT for a transaction with the same refund id; that wait is not counted.  It
  closes no circle: whoever has inserted the id waits for nobody afterwards.
- Sessions: a token is the number of its draw, so hashes never collide; passwords and the
  membership that a login looks up are left out.

## 7. Plan

Done: the money tables and their interleavings, TimeBilling, Memberships, Sessions, Worklog,
and the proofs of section 5.  Left, in this order:

1. An abstract specification of generation (entries, totals and numbers in one step per
   invoice) that TimeBilling implements, with the step proof as in `ImplementsMoney`.
2. `MoneyArithmetic`: quantities in hundredths, line totals, rounding and overflow
   against exact definitions; hours of `formatHoursHundredths`; retry backoff.
3. Configuration changes of the worker (attempt limits) between restarts.
4. The audit entries of a repeated send.

## 8. Not modelled

Registration beyond its result, the reports, CSV exports and PDFs, most of the audit log,
rate limits and the other middleware, configuration, migrations and seed: rows
without rules between them, read-only queries, pure I/O or layout.  Cryptography
(passwords, tokens, HMAC, field encryption) is outside what a model of states can say.
