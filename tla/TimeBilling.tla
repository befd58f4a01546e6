---------------------------- MODULE TimeBilling ----------------------------
(***************************************************************************)
(* From time entries to issued invoices, in one organization.              *)
(*                                                                         *)
(* Submitting, approving and rejecting an entry, creating a draft and      *)
(* sending it are transactions that lock the one row they decide on before *)
(* they read it: each is one step.  Three operations are not: PATCH        *)
(* /v1/time-entries reads the entry twice and writes it outside any        *)
(* transaction; the generation of an invoice and an edit of its lines hold *)
(* their locks over several statements.  Their steps interleave with       *)
(* everything else.                                                        *)
(*                                                                         *)
(* An entry's project, date and notes are left out, so the dates an        *)
(* invoice covers are any set of entries.  "issued" also stands for        *)
(* "paid", which no operation here tells apart.                            *)
(***************************************************************************)
EXTENDS Integers, Sequences, FiniteSets, Functions

CONSTANTS
  Entries,          \* time entries
  ManualLines,      \* line items added by hand
  OwnEdits,         \* PATCH requests of contractors, on their own entries
  StaffEdits,       \* PATCH requests of the other roles
  Generations,      \* POST /v1/invoices/generate requests
  LineEdits,        \* PATCH requests for the line items of an invoice
  None,
  Minutes, Rates,   \* what an entry may hold
  Changes,          \* what a PATCH of an entry may ask for
  Amounts,          \* what a line edited by hand may come to
  LargestProduct,   \* the largest int64, as the bound of minutes * rate
  LargestTotal,     \* the largest int64, as the bound of a sum of lines
  MaxInvoices,      \* bound: invoices numbered
  MaxEvents         \* bound: workflow events of one entry

Content == [minutes : Minutes, rate : Rates]
Change == [minutes : Minutes \union {None}, rate : Rates \union {None}]
Edits == OwnEdits \union StaffEdits
LineIds == Entries \union ManualLines
Numbers == 1..MaxInvoices

ASSUME BillingAssumption ==
  /\ Minutes \subseteq Nat \ {0} /\ Minutes # {}
  /\ Rates \subseteq Nat /\ Rates # {}
  /\ Changes \subseteq Change
  /\ LargestProduct \in Nat
  /\ LargestTotal \in Nat
  /\ Amounts \subseteq 0..LargestTotal
  /\ MaxInvoices \in Nat
  /\ MaxEvents \in Nat
  /\ Entries \intersect ManualLines = {}
  /\ OwnEdits \intersect StaffEdits = {}
  /\ None \notin Entries \union Numbers \union Generations \union Minutes \union Rates
  /\ None \notin LineEdits

VARIABLES
  entry,          \* time_entries
  events,         \* time_entry_events, per entry in order of insertion
  invoice,        \* invoices, by invoice_number
  lines,          \* invoice_line_items
  nextNumber,     \* invoice_sequences.next_number
  sequenceLock,   \* the generation that holds the sequence's row, or None
  edit,           \* PATCH requests in flight
  generation,     \* transactions that generate an invoice
  draftLock,      \* the edit of lines that holds the invoice's row, or None
  lineEdit        \* transactions that edit the lines of a draft

drafting == <<draftLock, lineEdit>>
vars == <<entry, events, invoice, lines, nextNumber, sequenceLock, edit, generation, drafting>>

EntryRow ==
  [status : {"absent", "draft", "submitted", "approved", "invoiced"},
   content : Content, invoice : Numbers \union {None}]
InvoiceRow == [status : {"absent", "draft", "issued"}, total : 0..LargestTotal]
Line == [id : LineIds, invoice : Numbers, amount : 0..LargestTotal]
Event == [from : {"draft", "submitted"}, to : {"draft", "submitted", "approved"}]
Edit ==
  [pc : {"idle", "checked", "loaded"}, entry : Entries \union {None},
   change : Change, content : Content]
Generation ==
  [pc : {"idle", "numbered", "selected"}, number : Numbers \union {None},
   rows : UNION {[S -> Content] : S \in SUBSET Entries}]
LineEdit ==
  [pc : {"idle", "editing", "summed"}, invoice : Numbers \union {None},
   removed : SUBSET LineIds, written : SUBSET Line, total : 0..LargestTotal]

\* Every row keeps to its columns.  A total that no int64 holds is never
\* stored: generating such an invoice fails as a whole.
TypeOK ==
  /\ entry \in [Entries -> EntryRow]
  /\ events \in [Entries -> Seq(Event)]
  /\ invoice \in [Numbers -> InvoiceRow]
  /\ lines \in SUBSET Line
  /\ nextNumber \in 1..(MaxInvoices + 1)
  /\ sequenceLock \in Generations \union {None}
  /\ edit \in [Edits -> Edit]
  /\ generation \in [Generations -> Generation]
  /\ draftLock \in [Numbers -> LineEdits \union {None}]
  /\ lineEdit \in [LineEdits -> LineEdit]

AnyContent == CHOOSE c \in Content : TRUE
NoChange == [minutes |-> None, rate |-> None]
NoRows == [t \in {} |-> AnyContent]
IdleEdit == [pc |-> "idle", entry |-> None, change |-> NoChange, content |-> AnyContent]
IdleGeneration == [pc |-> "idle", number |-> None, rows |-> NoRows]
IdleLineEdit == [pc |-> "idle", invoice |-> None, removed |-> {}, written |-> {}, total |-> 0]

Init ==
  /\ entry = [t \in Entries |->
                [status |-> "absent", content |-> AnyContent, invoice |-> None]]
  /\ events = [t \in Entries |-> <<>>]
  /\ invoice = [n \in Numbers |-> [status |-> "absent", total |-> 0]]
  /\ lines = {}
  /\ nextNumber = 1
  /\ sequenceLock = None
  /\ edit = [p \in Edits |-> IdleEdit]
  /\ generation = [g \in Generations |-> IdleGeneration]
  /\ draftLock = [n \in Numbers |-> None]
  /\ lineEdit = [q \in LineEdits |-> IdleLineEdit]
-----------------------------------------------------------------------------
(***************************************************************************)
(* The workflow of a time entry.                                           *)
(***************************************************************************)

\* CreateTimeEntry.
CreateTimeEntry(t, content) ==
  /\ entry[t].status = "absent"
  /\ entry' = [entry EXCEPT ![t].status = "draft", ![t].content = content]
  /\ UNCHANGED <<events, invoice, lines, nextNumber, sequenceLock, edit, generation, drafting>>

\* Some transaction holds the row after SELECT ... FOR UPDATE.
RowLocked(t) ==
  \E g \in Generations : generation[g].pc = "selected" /\ t \in DOMAIN generation[g].rows

\* Mutant: the status the service read before the transaction is relied on.
MoveWithoutRecheck(t, from, to) ==
  /\ entry[t].status # "absent" /\ Len(events[t]) < MaxEvents
  /\ ~RowLocked(t)
  /\ entry' = [entry EXCEPT ![t].status = to]
  /\ events' = [events EXCEPT ![t] = Append(@, [from |-> from, to |-> to])]
  /\ UNCHANGED <<invoice, lines, nextNumber, sequenceLock, edit, generation, drafting>>

\* applyTimeEntryTransitionTx.  The service's own check of the status, made
\* before the transaction, refuses nothing that this one would let pass.
Move(t, from, to) ==
  /\ entry[t].status = from
  /\ Len(events[t]) < MaxEvents
  /\ ~RowLocked(t)
  /\ entry' = [entry EXCEPT ![t].status = to]
  /\ events' = [events EXCEPT ![t] = Append(@, [from |-> from, to |-> to])]
  /\ UNCHANGED <<invoice, lines, nextNumber, sequenceLock, edit, generation, drafting>>

SubmitTimeEntry(t) == Move(t, "draft", "submitted")
ApproveTimeEntry(t) == Move(t, "submitted", "approved")
RejectTimeEntry(t) == Move(t, "submitted", "draft")
-----------------------------------------------------------------------------
(***************************************************************************)
(* PATCH /v1/time-entries/{id}: three statements, no transaction.          *)
(***************************************************************************)

\* handlePatchTimeEntry: a contractor is turned away unless the entry is a
\* draft; the other roles are not asked.
CheckEdit(p, t, change) ==
  /\ edit[p].pc = "idle"
  /\ entry[t].status # "absent"
  /\ p \in OwnEdits => entry[t].status = "draft"
  /\ change # NoChange
  /\ edit' = [edit EXCEPT ![p].pc = "checked", ![p].entry = t, ![p].change = change]
  /\ UNCHANGED <<entry, events, invoice, lines, nextNumber, sequenceLock, generation, drafting>>

Patched(change, copy) ==
  [minutes |-> IF change.minutes = None THEN copy.minutes ELSE change.minutes,
   rate |-> IF change.rate = None THEN copy.rate ELSE change.rate]

\* UpdateTimeEntry, its first half: the row is read again, and the request
\* ends with a conflict once the entry is approved.  Every column will be
\* written, the ones the request leaves alone from this copy.
LoadEntry(p) ==
  /\ edit[p].pc = "checked"
  /\ LET t == edit[p].entry IN
       edit' = IF entry[t].status \in {"draft", "submitted"}
               THEN [edit EXCEPT ![p].pc = "loaded", ![p].change = NoChange,
                       ![p].content = Patched(edit[p].change, entry[t].content)]
               ELSE [edit EXCEPT ![p] = IdleEdit]
  /\ UNCHANGED <<entry, events, invoice, lines, nextNumber, sequenceLock, generation, drafting>>

\* Mutant: UPDATE without AND status IN ('draft', 'submitted').
WriteAnyEntry(p) ==
  /\ edit[p].pc = "loaded"
  /\ entry' = [entry EXCEPT ![edit[p].entry].content = edit[p].content]
  /\ edit' = [edit EXCEPT ![p] = IdleEdit]
  /\ UNCHANGED <<events, invoice, lines, nextNumber, sequenceLock, generation, drafting>>

\* UpdateTimeEntry, its second half: the UPDATE, if the status still allows it.
WriteEntry(p) ==
  /\ edit[p].pc = "loaded"
  /\ LET t == edit[p].entry IN
       entry' = IF entry[t].status \in {"draft", "submitted"}
                THEN [entry EXCEPT ![t].content = edit[p].content]
                ELSE entry
  /\ edit' = [edit EXCEPT ![p] = IdleEdit]
  /\ UNCHANGED <<events, invoice, lines, nextNumber, sequenceLock, generation, drafting>>

\* The request ends between its statements: cancelled, or the process died.
AbandonEdit(p) ==
  /\ edit[p].pc # "idle"
  /\ edit' = [edit EXCEPT ![p] = IdleEdit]
  /\ UNCHANGED <<entry, events, invoice, lines, nextNumber, sequenceLock, generation, drafting>>
-----------------------------------------------------------------------------
(***************************************************************************)
(* Invoices.                                                               *)
(***************************************************************************)

\* The upsert of AllocateNextInvoiceNumber waits for the organization's row
\* of invoice_sequences, which a transaction keeps until it ends.
SequenceFree == sequenceLock = None /\ nextNumber \in Numbers

\* CreateDraftInvoice.
CreateDraftInvoice ==
  /\ SequenceFree
  /\ invoice' = [invoice EXCEPT ![nextNumber].status = "draft"]
  /\ nextNumber' = nextNumber + 1
  /\ UNCHANGED <<entry, events, lines, sequenceLock, edit, generation, drafting>>

\* Mutant: the number is drawn in a transaction of its own.
AllocateForGood(g) ==
  /\ generation[g].pc = "idle"
  /\ SequenceFree
  /\ generation' = [generation EXCEPT ![g].pc = "numbered", ![g].number = nextNumber]
  /\ nextNumber' = nextNumber + 1
  /\ UNCHANGED <<entry, events, invoice, lines, sequenceLock, edit, drafting>>

\* generateInvoiceFromApprovedEntriesTx, up to the new invoice's row: nobody
\* else sees the number as taken before the commit.
AllocateNextInvoiceNumber(g) ==
  /\ generation[g].pc = "idle"
  /\ SequenceFree
  /\ sequenceLock' = g
  /\ generation' = [generation EXCEPT ![g].pc = "numbered", ![g].number = nextNumber]
  /\ UNCHANGED <<entry, events, invoice, lines, nextNumber, edit, drafting>>

\* Mutant: an entry that was invoiced can be billed again.
EligibleAgain(t) == entry[t].status \in {"approved", "invoiced"}

Eligible(t) == entry[t].status = "approved" /\ entry[t].invoice = None

\* SELECT ... FOR UPDATE of the approved entries in the range of dates.
SelectEntries(g, range) ==
  /\ generation[g].pc = "numbered"
  /\ LET selected == {t \in range : Eligible(t)} IN
       /\ selected # {}
       /\ \A t \in selected : ~RowLocked(t)
       /\ generation' = [generation EXCEPT ![g].pc = "selected",
                           ![g].rows = [t \in selected |-> entry[t].content]]
  /\ UNCHANGED <<entry, events, invoice, lines, nextNumber, sequenceLock, edit, drafting>>

\* Minutes at an hourly rate, rounded to the nearest minor unit.
LineTotal(content) == (content.minutes * content.rate + 30) \div 60

Subtotal(rows) == SumFunction([t \in DOMAIN rows |-> LineTotal(rows[t])])

\* Mutant: the sum is not checked.
FitsByLine(rows) ==
  \A t \in DOMAIN rows : rows[t].minutes * rows[t].rate + 30 <= LargestProduct

\* No line and no sum exceeds an int64.  A product within 30 of the largest
\* passes the code's test, wraps round, and fails the table's CHECK that a
\* line total is not negative.
Fits(rows) ==
  /\ \A t \in DOMAIN rows : rows[t].minutes * rows[t].rate + 30 <= LargestProduct
  /\ Subtotal(rows) <= LargestTotal

\* The rest of the transaction and its commit: a line per entry from what was
\* selected, the entries invoiced, the total set.
CommitInvoice(g) ==
  LET n == generation[g].number
      rows == generation[g].rows
  IN
  /\ generation[g].pc = "selected"
  /\ Fits(rows)
  /\ lines' = lines \union
       {[id |-> t, invoice |-> n, amount |-> LineTotal(rows[t])] : t \in DOMAIN rows}
  /\ entry' = [t \in Entries |->
       IF t \in DOMAIN rows
       THEN [entry[t] EXCEPT !.status = "invoiced", !.invoice = n] ELSE entry[t]]
  /\ invoice' = [invoice EXCEPT ![n] = [status |-> "draft", total |-> Subtotal(rows)]]
  /\ nextNumber' = n + 1
  /\ sequenceLock' = None
  /\ generation' = [generation EXCEPT ![g] = IdleGeneration]
  /\ UNCHANGED <<events, edit, drafting>>

\* The transaction is rolled back: no entry is eligible, an amount does not
\* fit, the request's time is over, or the process died.
RollBack(g) ==
  /\ generation[g].pc # "idle"
  /\ generation' = [generation EXCEPT ![g] = IdleGeneration]
  /\ sequenceLock' = None
  /\ UNCHANGED <<entry, events, invoice, lines, nextNumber, edit, drafting>>

TotalOf(n, ls) ==
  LET its == {l \in ls : l.invoice = n} IN SumFunction([l \in its |-> l.amount])

LinesOf(n) == {l \in lines : l.invoice = n}

-----------------------------------------------------------------------------
(***************************************************************************)
(* PatchInvoiceLineItems: one transaction, which has the invoice's row      *)
(* from its first statement to its end.                                    *)
(***************************************************************************)

\* The lines as the transaction sees them, with its deletions and its writes.
\* Nobody else sees these before the commit.
Edited(q) ==
  LET e == lineEdit[q]
      gone == e.removed \union {k.id : k \in e.written}
  IN  {l \in lines : ~(l.invoice = e.invoice /\ l.id \in gone)} \union e.written

\* Mutant: getInvoiceForUpdate without FOR UPDATE.
ReadDraft(q, n, removed) ==
  /\ lineEdit[q].pc = "idle"
  /\ invoice[n].status = "draft"
  /\ lineEdit' = [lineEdit EXCEPT ![q].pc = "editing", ![q].invoice = n, ![q].removed = removed]
  /\ UNCHANGED <<entry, events, invoice, lines, nextNumber, sequenceLock, edit, generation,
                 draftLock>>

\* The invoice is locked, found to be a draft, and the lines named in the
\* request are deleted.
LockDraft(q, n, removed) ==
  /\ lineEdit[q].pc = "idle"
  /\ draftLock[n] = None
  /\ invoice[n].status = "draft"
  /\ draftLock' = [draftLock EXCEPT ![n] = q]
  /\ lineEdit' = [lineEdit EXCEPT ![q].pc = "editing", ![q].invoice = n, ![q].removed = removed]
  /\ UNCHANGED <<entry, events, invoice, lines, nextNumber, sequenceLock, edit, generation>>

\* An update has to find the line on the invoice; an insertion makes a new id.
Upsertable(q, id) ==
  \/ \E l \in lines : l.id = id /\ l.invoice = lineEdit[q].invoice /\ id \notin lineEdit[q].removed
  \/ /\ id \in ManualLines \ {l.id : l \in lines}
     /\ \A r \in LineEdits : \A k \in lineEdit[r].written : k.id # id

\* One item of the request's upserts.  If it names a line that is not there
\* the transaction can only be rolled back, deletions included.
UpsertLine(q, id, amount) ==
  /\ lineEdit[q].pc = "editing"
  /\ Upsertable(q, id)
  /\ lineEdit' = [lineEdit EXCEPT ![q].written = {k \in @ : k.id # id}
                     \union {[id |-> id, invoice |-> lineEdit[q].invoice, amount |-> amount]}]
  /\ UNCHANGED <<entry, events, invoice, lines, nextNumber, sequenceLock, edit, generation,
                 draftLock>>

\* recomputeInvoiceTotals: a sum that no int64 holds cannot be read.
RecomputeTotals(q) ==
  LET total == TotalOf(lineEdit[q].invoice, Edited(q)) IN
  /\ lineEdit[q].pc = "editing"
  /\ total <= LargestTotal
  /\ lineEdit' = [lineEdit EXCEPT ![q].pc = "summed", ![q].total = total]
  /\ UNCHANGED <<entry, events, invoice, lines, nextNumber, sequenceLock, edit, generation,
                 draftLock>>

CommitLines(q) ==
  LET n == lineEdit[q].invoice IN
  /\ lineEdit[q].pc = "summed"
  /\ lines' = Edited(q)
  /\ invoice' = [invoice EXCEPT ![n].total = lineEdit[q].total]
  /\ draftLock' = [draftLock EXCEPT ![n] = None]
  /\ lineEdit' = [lineEdit EXCEPT ![q] = IdleLineEdit]
  /\ UNCHANGED <<entry, events, nextNumber, sequenceLock, edit, generation>>

\* Mutant: the deletions are statements of their own, outside the transaction.
RollBackUpserts(q) ==
  /\ lineEdit[q].pc # "idle"
  /\ lines' = lines \ {l \in LinesOf(lineEdit[q].invoice) : l.id \in lineEdit[q].removed}
  /\ draftLock' = [draftLock EXCEPT ![lineEdit[q].invoice] = None]
  /\ lineEdit' = [lineEdit EXCEPT ![q] = IdleLineEdit]
  /\ UNCHANGED <<entry, events, invoice, nextNumber, sequenceLock, edit, generation>>

\* An item is refused, the sum does not fit, the request's time is over, or the
\* process died: none of the request's changes stays.
RollBackLines(q) ==
  /\ lineEdit[q].pc # "idle"
  /\ draftLock' = [draftLock EXCEPT ![lineEdit[q].invoice] = None]
  /\ lineEdit' = [lineEdit EXCEPT ![q] = IdleLineEdit]
  /\ UNCHANGED <<entry, events, invoice, lines, nextNumber, sequenceLock, edit, generation>>

\* SendInvoice, whose UPDATE waits for an edit of the lines and then looks at
\* the status again; sending an issued invoice again changes nothing.
SendInvoice(n) ==
  /\ invoice[n].status = "draft"
  /\ draftLock[n] = None
  /\ invoice' = [invoice EXCEPT ![n].status = "issued"]
  /\ UNCHANGED <<entry, events, lines, nextNumber, sequenceLock, edit, generation, drafting>>
-----------------------------------------------------------------------------
Next ==
  \/ \E t \in Entries, c \in Content : CreateTimeEntry(t, c)
  \/ \E t \in Entries : SubmitTimeEntry(t) \/ ApproveTimeEntry(t) \/ RejectTimeEntry(t)
  \/ \E p \in Edits, t \in Entries, c \in Changes : CheckEdit(p, t, c)
  \/ \E p \in Edits : LoadEntry(p) \/ WriteEntry(p) \/ AbandonEdit(p)
  \/ CreateDraftInvoice
  \/ \E g \in Generations :
       \/ AllocateNextInvoiceNumber(g)
       \/ \E range \in SUBSET Entries : SelectEntries(g, range)
       \/ CommitInvoice(g)
       \/ RollBack(g)
  \/ \E q \in LineEdits :
       \/ \E n \in Numbers :
            \E removed \in SUBSET {l.id : l \in LinesOf(n)} : LockDraft(q, n, removed)
       \/ \E id \in LineIds, amount \in Amounts : UpsertLine(q, id, amount)
       \/ RecomputeTotals(q)
       \/ CommitLines(q)
       \/ RollBackLines(q)
  \/ \E n \in Numbers : SendInvoice(n)

Spec == Init /\ [][Next]_vars
-----------------------------------------------------------------------------
(***************************************************************************)
(* Properties.                                                             *)
(***************************************************************************)

\* No hour is billed twice: an entry is on one line at most, and that line's
\* invoice is the one the entry was invoiced on.  Nothing in the schema says
\* so (source_time_entry_id is not unique): it rests on the locks that
\* generateInvoiceFromApprovedEntriesTx holds until it commits.
BilledOnce ==
  \A l \in lines : l.id \in Entries =>
    /\ entry[l.id].status = "invoiced" /\ entry[l.id].invoice = l.invoice
    /\ \A k \in lines : k.id = l.id => k = l

\* Once an entry is approved nobody changes its hours or its rate, not even a
\* PATCH that had read it while it was a draft, and it only moves on to be
\* invoiced.
ApprovedWorkIsFrozen ==
  [][\A t \in Entries : entry[t].status \in {"approved", "invoiced"} =>
       /\ entry'[t].content = entry[t].content
       /\ entry'[t].status \in {entry[t].status, "invoiced"}
       /\ entry[t].status = "invoiced" => entry'[t].invoice = entry[t].invoice]_vars

\* A generated line bills the hours and the rate the entry has at that time:
\* what was selected is what is still approved at the commit.
BilledAsApproved ==
  [][\A l \in lines' \ lines :
       l.id \in Entries /\ (\A k \in lines : k.id # l.id) =>
         /\ entry[l.id].status = "approved"
         /\ l.amount = LineTotal(entry[l.id].content)]_vars

\* A generated line that is removed from its draft takes its hours along: the
\* entry stays invoiced, and neither another generation nor an edit of lines
\* ever puts it on an invoice again.
DroppedWorkStaysDropped ==
  [][\A t \in Entries : entry[t].status = "invoiced" /\ (\A l \in lines : l.id # t) =>
       \A l \in lines' : l.id # t]_vars

\* An invoice's total is the sum of its lines, whichever of generation and
\* line edits came last: a second edit of the same draft does not sum up lines
\* the first one is still changing, and an edit that fails takes its deletions
\* back (getInvoiceForUpdate, and the one transaction around all statements).
TotalsMatchLines ==
  \A n \in Numbers : invoice[n].total = TotalOf(n, lines)

\* What has been sent stays as it was sent: neither its total nor its lines
\* change.  An edit that found the invoice a draft is over before it is sent,
\* since it keeps the row locked and SendInvoice's UPDATE waits for it.
IssuedInvoicesAreFrozen ==
  [][\A n \in Numbers : invoice[n].status = "issued" =>
       /\ invoice'[n] = invoice[n]
       /\ {l \in lines' : l.invoice = n} = {l \in lines : l.invoice = n}]_vars

\* The numbers of an organization's invoices run without a gap and without a
\* repeat, although generations fail after they drew one.
NumbersHaveNoGaps ==
  {n \in Numbers : invoice[n].status # "absent"} = 1..(nextNumber - 1)

\* time_entry_events tells the whole story of an entry: each event starts
\* where the one before it ended, and the last ends where the entry is.
EventsExplainStatus ==
  \A t \in Entries :
    LET h == events[t]
        story == <<"draft">> \o [k \in 1..Len(h) |-> h[k].to]
        reached == story[Len(story)]
    IN
    /\ \A k \in 1..Len(h) : h[k].from = story[k]
    /\ entry[t].status = "absent" => h = <<>>
    /\ entry[t].status = "invoiced" => reached = "approved"
    /\ entry[t].status \notin {"absent", "invoiced"} => reached = entry[t].status

\* "contractors may only edit draft entries" (handlers_time_entries.go): an
\* edit of a contractor changes an entry only while it is a draft.  The
\* status is read before the entry is submitted, and UpdateTimeEntry lets a
\* submitted entry through whoever asks.
ContractorsEditDraftsOnly ==
  [][\A p \in OwnEdits : edit[p].pc = "loaded" /\ edit'[p].pc = "idle" =>
       LET t == edit[p].entry IN
         entry'[t].content # entry[t].content => entry[t].status = "draft"]_vars
=============================================================================
