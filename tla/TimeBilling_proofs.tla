------------------------- MODULE TimeBilling_proofs -------------------------
(***************************************************************************)
(* Proofs about TimeBilling for every set of entries, lines, requests and  *)
(* amounts: work is billed once and as approved, numbers have no gaps,     *)
(* totals are the sums of their lines.                                     *)
(***************************************************************************)
EXTENDS TimeBilling, SumTheorems

\* TypeOK without the amounts, which are sums over sets of lines (Booked, below).
InvoiceStatus == {"absent", "draft", "issued"}

InvoiceShape == \E T : invoice \in [Numbers -> [status : InvoiceStatus, total : T]]

LineShape == \A l \in lines : l.id \in LineIds /\ l.invoice \in Numbers

LineEditOf(T) ==
  [pc : {"idle", "editing", "summed"}, invoice : Numbers \union {None},
   removed : SUBSET LineIds, written : SUBSET Line, total : T]

DraftShape ==
  /\ draftLock \in [Numbers -> LineEdits \union {None}]
  /\ \E T : lineEdit \in [LineEdits -> LineEditOf(T)]

TypeInv ==
  /\ entry \in [Entries -> EntryRow]
  /\ events \in [Entries -> Seq(Event)]
  /\ InvoiceShape
  /\ LineShape
  /\ nextNumber \in 1..(MaxInvoices + 1)
  /\ sequenceLock \in Generations \union {None}
  /\ edit \in [Edits -> Edit]
  /\ \A p \in Edits : edit[p].pc # "idle" => edit[p].entry \in Entries
  /\ generation \in [Generations -> Generation]
  /\ DraftShape

\* The one generation that has drawn a number holds the sequence, so the
\* number is still the next one; what it selected is locked, so it is still
\* as it was read.
Holds(g) ==
  generation[g].pc # "idle" =>
    /\ sequenceLock = g
    /\ generation[g].number = nextNumber
    /\ nextNumber \in Numbers

Selected(g) ==
  generation[g].pc = "selected" =>
    \A t \in DOMAIN generation[g].rows :
      Eligible(t) /\ entry[t].content = generation[g].rows[t]

Locks == \A g \in Generations : Holds(g) /\ Selected(g)

Numbered == \A n \in Numbers : invoice[n].status # "absent" <=> n < nextNumber

\* An edit of lines has the row of its invoice, which is therefore still a draft
\* and keeps its lines; a generated line is written only over itself.
EditHolds(q) ==
  LET e == lineEdit[q] IN
  /\ e.pc = "idle" => e = IdleLineEdit
  /\ e.pc # "idle" =>
    /\ e.invoice \in Numbers /\ draftLock[e.invoice] = q /\ invoice[e.invoice].status = "draft"
    /\ \A k \in e.written :
         /\ k.invoice = e.invoice
         /\ k.id \in Entries => \E l \in lines : l.invoice = e.invoice /\ l.id = k.id
    /\ \A j, k \in e.written : j.id = k.id => j = k

Drafts == \A q \in LineEdits : EditHolds(q)

IInv == TypeInv /\ Locks /\ Numbered /\ Drafts
-----------------------------------------------------------------------------
(***************************************************************************)
(* Types.                                                                  *)
(***************************************************************************)

LEMMA ContentExists == AnyContent \in Content
<1>1. PICK m \in Minutes, r \in Rates : TRUE
  BY BillingAssumption
<1>2. [minutes |-> m, rate |-> r] \in Content
  BY DEF Content
<1> QED BY <1>2 DEF AnyContent

LEMMA RowTypes ==
  /\ IdleEdit \in Edit
  /\ IdleEdit.pc = "idle"
  /\ IdleGeneration \in Generation
  /\ IdleGeneration.pc = "idle"
  /\ IdleLineEdit.pc = "idle" /\ \A T : 0 \in T => IdleLineEdit \in LineEditOf(T)
<1>1. IdleEdit \in Edit /\ IdleEdit.pc = "idle"
  BY ContentExists DEF IdleEdit, Edit, NoChange, Change
<1>2. NoRows \in [{} -> Content]
  BY DEF NoRows
<1>3. [{} -> Content] \in {[S -> Content] : S \in SUBSET Entries}
  OBVIOUS
<1>4. NoRows \in UNION {[S -> Content] : S \in SUBSET Entries}
  BY <1>2, <1>3
<1>5. IdleGeneration \in Generation /\ IdleGeneration.pc = "idle"
  BY <1>4 DEF IdleGeneration, Generation
<1>6. IdleLineEdit.pc = "idle" /\ \A T : 0 \in T => IdleLineEdit \in LineEditOf(T)
  BY DEF IdleLineEdit, LineEditOf
<1> QED BY <1>1, <1>5, <1>6

LEMMA InitIInv == Init => IInv
<1> SUFFICES ASSUME Init PROVE IInv
  OBVIOUS
<1>1. entry \in [Entries -> EntryRow]
  BY ContentExists DEF Init, EntryRow
<1>2. events \in [Entries -> Seq(Event)]
  BY DEF Init
<1>3. InvoiceShape /\ LineShape
  <2>1. invoice \in [Numbers -> [status : InvoiceStatus, total : {0}]]
    BY DEF Init, InvoiceStatus
  <2> QED BY <2>1 DEF Init, InvoiceShape, LineShape
<1>4. nextNumber \in 1..(MaxInvoices + 1) /\ sequenceLock \in Generations \union {None}
  BY BillingAssumption DEF Init
<1>5. edit \in [Edits -> Edit] /\ generation \in [Generations -> Generation]
  BY RowTypes DEF Init
<1>8. \A p \in Edits : edit[p].pc # "idle" => edit[p].entry \in Entries
  BY RowTypes DEF Init
<1>6. Locks
  BY RowTypes DEF Init, Locks, Holds, Selected
<1>7. Numbered
  BY BillingAssumption DEF Init, Numbered, Numbers
<1>9. DraftShape
  <2>1. lineEdit \in [LineEdits -> LineEditOf({0})]
    BY RowTypes DEF Init
  <2> QED BY <2>1 DEF Init, DraftShape
<1>10. Drafts
  BY RowTypes DEF Init, Drafts, EditHolds
<1> QED BY <1>1, <1>2, <1>3, <1>4, <1>5, <1>6, <1>7, <1>8, <1>9, <1>10 DEF IInv, TypeInv

\* The rows of a selection are what was read of some entries.
LEMMA SelectionTypes ==
  ASSUME TypeInv, NEW S \in SUBSET Entries
  PROVE  [t \in S |-> entry[t].content] \in UNION {[R -> Content] : R \in SUBSET Entries}
<1>1. [t \in S |-> entry[t].content] \in [S -> Content]
  BY DEF TypeInv, EntryRow
<1>2. [S -> Content] \in {[R -> Content] : R \in SUBSET Entries}
  OBVIOUS
<1> QED BY <1>1, <1>2

LEMMA RowsTypes ==
  ASSUME TypeInv, NEW g \in Generations
  PROVE  /\ DOMAIN generation[g].rows \subseteq Entries
         /\ \A t \in DOMAIN generation[g].rows : generation[g].rows[t] \in Content
<1>1. generation[g].rows \in UNION {[R -> Content] : R \in SUBSET Entries}
  BY DEF TypeInv, Generation
<1>2. PICK R \in SUBSET Entries : generation[g].rows \in [R -> Content]
  BY <1>1
<1> QED BY <1>2

\* What a generation holds, its parts apart.
Rows == UNION {[R -> Content] : R \in SUBSET Entries}

LEMMA GenerationIs ==
  Generation = [pc : {"idle", "numbered", "selected"}, number : Numbers \union {None},
                rows : Rows]
BY DEF Generation, Rows

LEMMA PatchedTypes ==
  ASSUME NEW change \in Change, NEW copy \in Content
  PROVE  Patched(change, copy) \in Content
BY DEF Patched, Change, Content

\* The statements of an edit of lines.
EditStep(q) ==
  \/ \E n \in Numbers : \E removed \in SUBSET {l.id : l \in LinesOf(n)} : LockDraft(q, n, removed)
  \/ \E id \in LineIds, amount \in Amounts : UpsertLine(q, id, amount)
  \/ RecomputeTotals(q)
  \/ CommitLines(q)
  \/ RollBackLines(q)

\* What an edit of lines writes keeps to the columns.
LEMMA EditTypes ==
  ASSUME TypeInv, Drafts, NEW q \in LineEdits, EditStep(q)
  PROVE  InvoiceShape' /\ LineShape' /\ DraftShape'
<1>i. PICK T : invoice \in [Numbers -> [status : InvoiceStatus, total : T]]
  BY DEF TypeInv, InvoiceShape
<1>e. PICK E : lineEdit \in [LineEdits -> LineEditOf(E)]
  BY DEF TypeInv, DraftShape
<1>l. LineShape /\ draftLock \in [Numbers -> LineEdits \union {None}]
  BY DEF TypeInv, DraftShape
<1>h. lineEdit[q].pc # "idle" => lineEdit[q].invoice \in Numbers
  BY DEF Drafts, EditHolds
<1>w. lineEdit[q] \in LineEditOf(E)
  BY <1>e
<1>1. ASSUME NEW n \in Numbers, NEW removed \in SUBSET {l.id : l \in LinesOf(n)},
             LockDraft(q, n, removed)
      PROVE  InvoiceShape' /\ LineShape' /\ DraftShape'
  <2> DEFINE row == [lineEdit[q] EXCEPT !.pc = "editing", !.invoice = n, !.removed = removed]
  <2>1. removed \subseteq LineIds
    BY <1>l DEF LineShape, LinesOf
  <2>2. row \in LineEditOf(E)
    BY <1>w, <2>1 DEF LineEditOf
  <2>3. lineEdit' = [lineEdit EXCEPT ![q] = row] /\ draftLock' = [draftLock EXCEPT ![n] = q]
        /\ UNCHANGED <<invoice, lines>>
    BY <1>1 DEF LockDraft
  <2> HIDE DEF row
  <2>4. lineEdit' \in [LineEdits -> LineEditOf(E)]
    BY <1>e, <2>2, <2>3
  <2> QED BY <1>i, <1>l, <2>3, <2>4 DEF InvoiceShape, LineShape, DraftShape
<1>2. ASSUME NEW id \in LineIds, NEW amount \in Amounts, UpsertLine(q, id, amount)
      PROVE  InvoiceShape' /\ LineShape' /\ DraftShape'
  <2> DEFINE new == [id |-> id, invoice |-> lineEdit[q].invoice, amount |-> amount]
             written == {k \in lineEdit[q].written : k.id # id} \union {new}
             row == [lineEdit[q] EXCEPT !.written = written]
  <2>1. new \in Line
    BY <1>2, <1>h, BillingAssumption DEF UpsertLine, Line
  <2>2. written \subseteq Line
    BY <1>w, <2>1 DEF LineEditOf
  <2>3. lineEdit' = [lineEdit EXCEPT ![q] = row] /\ UNCHANGED <<invoice, lines, draftLock>>
    BY <1>2 DEF UpsertLine
  <2> HIDE DEF written
  <2>4. row \in LineEditOf(E)
    BY <1>w, <2>2 DEF LineEditOf
  <2> HIDE DEF row
  <2>5. lineEdit' \in [LineEdits -> LineEditOf(E)]
    BY <1>e, <2>3, <2>4
  <2> QED BY <1>i, <1>l, <2>3, <2>5 DEF InvoiceShape, LineShape, DraftShape
<1>3. ASSUME RecomputeTotals(q) PROVE InvoiceShape' /\ LineShape' /\ DraftShape'
  <2> DEFINE total == TotalOf(lineEdit[q].invoice, Edited(q))
             row == [lineEdit[q] EXCEPT !.pc = "summed", !.total = total]
  <2>1. lineEdit' = [lineEdit EXCEPT ![q] = row] /\ UNCHANGED <<invoice, lines, draftLock>>
    BY <1>3 DEF RecomputeTotals
  <2> HIDE DEF total
  <2>2. row \in LineEditOf(E \union {total})
    BY <1>w DEF LineEditOf
  <2>3. \A r \in LineEdits : lineEdit[r] \in LineEditOf(E \union {total})
    BY <1>e DEF LineEditOf
  <2> HIDE DEF row
  <2>4. lineEdit' \in [LineEdits -> LineEditOf(E \union {total})]
    BY <1>e, <2>1, <2>2, <2>3
  <2> QED BY <1>i, <1>l, <2>1, <2>4 DEF InvoiceShape, LineShape, DraftShape
<1>z. lineEdit' = [lineEdit EXCEPT ![q] = IdleLineEdit] =>
        lineEdit' \in [LineEdits -> LineEditOf(E \union {0})]
  <2>1. \A r \in LineEdits : lineEdit[r] \in LineEditOf(E \union {0})
    BY <1>e DEF LineEditOf
  <2>2. IdleLineEdit \in LineEditOf(E \union {0})
    BY RowTypes
  <2> QED BY <1>e, <2>1, <2>2
<1>4. ASSUME CommitLines(q) PROVE InvoiceShape' /\ LineShape' /\ DraftShape'
  <2> DEFINE n == lineEdit[q].invoice
             total == lineEdit[q].total
  <2>1. /\ n \in Numbers /\ lines' = Edited(q)
        /\ invoice' = [invoice EXCEPT ![n].total = total]
        /\ draftLock' = [draftLock EXCEPT ![n] = None]
        /\ lineEdit' = [lineEdit EXCEPT ![q] = IdleLineEdit]
    BY <1>4, <1>h DEF CommitLines
  <2>2. LineShape'
    BY <1>l, <1>w, <2>1 DEF LineShape, Edited, LineEditOf, Line
  <2> HIDE DEF n, total
  <2>3. invoice' \in [Numbers -> [status : InvoiceStatus, total : T \union {total}]]
    BY <1>i, <2>1
  <2> QED BY <1>l, <1>z, <2>1, <2>2, <2>3 DEF InvoiceShape, DraftShape
<1>5. ASSUME RollBackLines(q) PROVE InvoiceShape' /\ LineShape' /\ DraftShape'
  <2>1. /\ lineEdit' = [lineEdit EXCEPT ![q] = IdleLineEdit] /\ UNCHANGED <<invoice, lines>>
        /\ draftLock' = [draftLock EXCEPT ![lineEdit[q].invoice] = None]
    BY <1>5 DEF RollBackLines
  <2> QED BY <1>i, <1>l, <1>z, <2>1 DEF InvoiceShape, LineShape, DraftShape
<1> QED BY <1>1, <1>2, <1>3, <1>4, <1>5 DEF EditStep

LEMMA TypeInvStep == TypeInv /\ Locks /\ Drafts /\ [Next]_vars => TypeInv'
<1> SUFFICES ASSUME TypeInv, Locks, Drafts, [Next]_vars PROVE TypeInv'
  OBVIOUS
<1> USE DEF TypeInv
<1>1. ASSUME NEW t \in Entries, NEW c \in Content, CreateTimeEntry(t, c) PROVE TypeInv'
  <2>1. entry' \in [Entries -> EntryRow]
    BY <1>1 DEF CreateTimeEntry, EntryRow
  <2> QED BY <1>1, <2>1 DEF CreateTimeEntry, InvoiceShape, LineShape, DraftShape, drafting
<1>2. ASSUME NEW t \in Entries, NEW from \in {"draft", "submitted"},
             NEW to \in {"draft", "submitted", "approved"}, Move(t, from, to)
      PROVE  TypeInv'
  <2>1. entry' \in [Entries -> EntryRow]
    BY <1>2 DEF Move, EntryRow
  <2>2. [from |-> from, to |-> to] \in Event
    BY DEF Event
  <2>3. Append(events[t], [from |-> from, to |-> to]) \in Seq(Event)
    BY <2>2
  <2>4. events' \in [Entries -> Seq(Event)]
    BY <1>2, <2>3 DEF Move
  <2> QED BY <1>2, <2>1, <2>4 DEF Move, InvoiceShape, LineShape, DraftShape, drafting
<1>3. ASSUME NEW p \in Edits, NEW t \in Entries, NEW c \in Changes, CheckEdit(p, t, c)
      PROVE  TypeInv'
  <2> DEFINE row == [edit[p] EXCEPT !.pc = "checked", !.entry = t, !.change = c]
  <2>1. row \in Edit /\ row.entry = t
    BY BillingAssumption DEF Edit
  <2>2. edit' = [edit EXCEPT ![p] = row]
    BY <1>3 DEF CheckEdit
  <2> HIDE DEF row
  <2>6. edit' \in [Edits -> Edit]
    BY <2>1, <2>2
  <2>7. \A r \in Edits : edit'[r].pc # "idle" => edit'[r].entry \in Entries
    BY <2>1, <2>2
  <2> QED BY <1>3, <2>6, <2>7 DEF CheckEdit, InvoiceShape, LineShape, DraftShape, drafting
<1>4. ASSUME NEW p \in Edits, LoadEntry(p) PROVE TypeInv'
  <2>1. CASE entry[edit[p].entry].status \in {"draft", "submitted"}
    <3> DEFINE content == Patched(edit[p].change, entry[edit[p].entry].content)
               row == [edit[p] EXCEPT !.pc = "loaded", !.change = NoChange, !.content = content]
    <3>1. edit[p].entry \in Entries /\ edit[p].change \in Change
      BY <1>4 DEF LoadEntry, Edit
    <3>6. content \in Content
      BY <3>1, PatchedTypes DEF EntryRow
    <3>5. edit' = [edit EXCEPT ![p] = row]
      BY <1>4, <2>1 DEF LoadEntry
    <3> HIDE DEF content
    <3>2. row \in Edit /\ row.entry \in Entries
      BY <3>1, <3>6 DEF Edit, NoChange, Change
    <3> HIDE DEF row
    <3>3. edit' \in [Edits -> Edit]
      BY <3>2, <3>5
    <3>4. \A r \in Edits : edit'[r].pc # "idle" => edit'[r].entry \in Entries
      BY <3>2, <3>5
    <3> QED BY <1>4, <3>3, <3>4 DEF LoadEntry, InvoiceShape, LineShape, DraftShape, drafting
  <2>2. CASE entry[edit[p].entry].status \notin {"draft", "submitted"}
    <3>1. edit' = [edit EXCEPT ![p] = IdleEdit]
      BY <1>4, <2>2 DEF LoadEntry
    <3> QED BY <1>4, <3>1, RowTypes DEF LoadEntry, InvoiceShape, LineShape, DraftShape, drafting
  <2> QED BY <2>1, <2>2
<1>5. ASSUME NEW p \in Edits, WriteEntry(p) PROVE TypeInv'
  <2>1. edit[p].entry \in Entries /\ edit[p].content \in Content
    BY <1>5 DEF WriteEntry, Edit
  <2>3. entry' \in [Entries -> EntryRow]
    BY <1>5, <2>1 DEF WriteEntry, EntryRow
  <2>4. edit' = [edit EXCEPT ![p] = IdleEdit]
    BY <1>5 DEF WriteEntry
  <2> QED BY <1>5, <2>3, <2>4, RowTypes DEF WriteEntry, InvoiceShape, LineShape, DraftShape, drafting
<1>6. ASSUME NEW p \in Edits, AbandonEdit(p) PROVE TypeInv'
  BY <1>6, RowTypes DEF AbandonEdit, InvoiceShape, LineShape, DraftShape, drafting
<1>7. CASE CreateDraftInvoice
  <2>1. nextNumber \in Numbers /\ nextNumber' \in 1..(MaxInvoices + 1)
    BY <1>7, BillingAssumption DEF CreateDraftInvoice, SequenceFree, Numbers
  <2>2. PICK T : invoice \in [Numbers -> [status : InvoiceStatus, total : T]]
    BY DEF InvoiceShape
  <2>4. invoice' \in [Numbers -> [status : InvoiceStatus, total : T]]
    BY <1>7, <2>1, <2>2 DEF CreateDraftInvoice, InvoiceStatus
  <2>3. InvoiceShape'
    BY <2>4 DEF InvoiceShape
  <2> QED BY <1>7, <2>1, <2>3 DEF CreateDraftInvoice, LineShape, DraftShape, drafting
<1>8. ASSUME NEW g \in Generations, AllocateNextInvoiceNumber(g) PROVE TypeInv'
  <2> DEFINE row == [generation[g] EXCEPT !.pc = "numbered", !.number = nextNumber]
  <2>4. generation[g] \in Generation /\ nextNumber \in Numbers
    BY <1>8 DEF AllocateNextInvoiceNumber, SequenceFree
  <2>2. row \in Generation
    BY <2>4, GenerationIs
  <2>3. generation' = [generation EXCEPT ![g] = row]
    BY <1>8 DEF AllocateNextInvoiceNumber
  <2> HIDE DEF row
  <2>1. generation' \in [Generations -> Generation]
    BY <2>2, <2>3
  <2> QED BY <1>8, <2>1 DEF AllocateNextInvoiceNumber, InvoiceShape, LineShape, DraftShape, drafting
<1>9. ASSUME NEW g \in Generations, NEW range \in SUBSET Entries, SelectEntries(g, range)
      PROVE  TypeInv'
  <2> DEFINE rows == [t \in {u \in range : Eligible(u)} |-> entry[t].content]
  <2>1. rows \in UNION {[S -> Content] : S \in SUBSET Entries}
    BY SelectionTypes
  <2> DEFINE row == [generation[g] EXCEPT !.pc = "selected", !.rows = rows]
  <2>5. generation[g] \in Generation /\ rows \in Rows
    BY <2>1 DEF Rows
  <2> HIDE DEF rows
  <2>2. row \in Generation
    BY <2>5, GenerationIs
  <2>4. generation' = [generation EXCEPT ![g] = row]
    BY <1>9 DEF SelectEntries, rows
  <2> HIDE DEF row
  <2>3. generation' \in [Generations -> Generation]
    BY <2>2, <2>4
  <2> QED BY <1>9, <2>3 DEF SelectEntries, InvoiceShape, LineShape, DraftShape, drafting
<1>10. ASSUME NEW g \in Generations, CommitInvoice(g) PROVE TypeInv'
  <2> DEFINE n == generation[g].number
             rows == generation[g].rows
  <2>1. n = nextNumber /\ n \in Numbers /\ DOMAIN rows \subseteq Entries
    BY <1>10, RowsTypes DEF CommitInvoice, Locks, Holds
  <2> HIDE DEF n, rows
  <2>2. entry' \in [Entries -> EntryRow]
    BY <1>10, <2>1 DEF CommitInvoice, EntryRow, n, rows
  <2>3. PICK T : invoice \in [Numbers -> [status : InvoiceStatus, total : T]]
    BY DEF InvoiceShape
  <2>4. invoice' \in [Numbers -> [status : InvoiceStatus, total : T \union {Subtotal(rows)}]]
    BY <1>10, <2>1, <2>3 DEF CommitInvoice, InvoiceStatus, n, rows
  <2>5. InvoiceShape'
    BY <2>4 DEF InvoiceShape
  <2>6. LineShape'
    <3>1. lines' = lines \union
            {[id |-> t, invoice |-> n, amount |-> LineTotal(rows[t])] : t \in DOMAIN rows}
      BY <1>10 DEF CommitInvoice, n, rows
    <3> QED BY <2>1, <3>1 DEF LineShape, LineIds
  <2>7. nextNumber' \in 1..(MaxInvoices + 1)
    <3>1. nextNumber' = n + 1
      BY <1>10 DEF CommitInvoice, n
    <3> QED BY <2>1, <3>1, BillingAssumption DEF Numbers
  <2> QED BY <1>10, <2>2, <2>5, <2>6, <2>7, RowTypes DEF CommitInvoice, DraftShape, drafting
<1>11. ASSUME NEW g \in Generations, RollBack(g) PROVE TypeInv'
  BY <1>11, RowTypes DEF RollBack, InvoiceShape, LineShape, DraftShape, drafting
<1>12. ASSUME NEW q \in LineEdits, EditStep(q) PROVE TypeInv'
  BY <1>12, EditTypes DEF EditStep, LockDraft, UpsertLine, RecomputeTotals, CommitLines, RollBackLines
<1>13. ASSUME NEW n \in Numbers, SendInvoice(n) PROVE TypeInv'
  <2>1. PICK T : invoice \in [Numbers -> [status : InvoiceStatus, total : T]]
    BY DEF InvoiceShape
  <2>2. invoice' \in [Numbers -> [status : InvoiceStatus, total : T]]
    BY <1>13, <2>1 DEF SendInvoice, InvoiceStatus
  <2>3. InvoiceShape'
    BY <2>2 DEF InvoiceShape
  <2> QED BY <1>13, <2>3 DEF SendInvoice, LineShape, DraftShape, drafting
<1>14. CASE UNCHANGED vars
  BY <1>14 DEF vars, InvoiceShape, LineShape, DraftShape, drafting
<1> QED
  BY <1>1, <1>2, <1>3, <1>4, <1>5, <1>6, <1>7, <1>8, <1>9, <1>10, <1>11, <1>12, <1>13, <1>14
  DEF Next, EditStep, SubmitTimeEntry, ApproveTimeEntry, RejectTimeEntry
-----------------------------------------------------------------------------
(***************************************************************************)
(* Locks and numbers.                                                      *)
(***************************************************************************)

\* A generation that was left alone keeps what it knows if the sequence and
\* the entries it selected were.
LEMMA LocksStay ==
  ASSUME Locks, generation' = generation, sequenceLock' = sequenceLock,
         \A g \in Generations : generation[g].pc # "idle" => nextNumber' = nextNumber,
         \A g \in Generations : generation[g].pc = "selected" =>
           \A t \in DOMAIN generation[g].rows : entry'[t] = entry[t]
  PROVE  Locks'
BY DEF Locks, Holds, Selected, Eligible

LEMMA LocksStep == TypeInv /\ Locks /\ [Next]_vars => Locks'
<1> SUFFICES ASSUME TypeInv, Locks, [Next]_vars PROVE Locks'
  OBVIOUS
<1>r. \A g \in Generations : DOMAIN generation[g].rows \subseteq Entries
  BY RowsTypes
<1>s. \A g \in Generations : generation[g].pc = "selected" =>
        \A t \in DOMAIN generation[g].rows : entry[t].status = "approved"
  BY DEF Locks, Selected, Eligible
<1>e. /\ DOMAIN entry = Entries
      /\ \A p \in Edits : edit[p].pc # "idle" => edit[p].entry \in Entries
  BY DEF TypeInv
<1>1. ASSUME NEW t \in Entries, NEW c \in Content, CreateTimeEntry(t, c) PROVE Locks'
  <2>1. \A u \in Entries : entry[u].status = "approved" => entry'[u] = entry[u]
    BY <1>1, <1>e DEF CreateTimeEntry
  <2> QED BY <1>1, <1>r, <1>s, <2>1, LocksStay DEF CreateTimeEntry
<1>2. ASSUME NEW t \in Entries, NEW from \in {"draft", "submitted"},
             NEW to \in {"draft", "submitted", "approved"}, Move(t, from, to)
      PROVE  Locks'
  <2>1. \A u \in Entries : entry[u].status = "approved" => entry'[u] = entry[u]
    BY <1>2, <1>e DEF Move
  <2> QED BY <1>2, <1>r, <1>s, <2>1, LocksStay DEF Move
<1>3. ASSUME NEW p \in Edits, NEW t \in Entries, NEW c \in Changes, CheckEdit(p, t, c)
      PROVE  Locks'
  BY <1>3, LocksStay DEF CheckEdit
<1>4. ASSUME NEW p \in Edits, LoadEntry(p) PROVE Locks'
  BY <1>4, LocksStay DEF LoadEntry
<1>5. ASSUME NEW p \in Edits, WriteEntry(p) PROVE Locks'
  <2>1. \A u \in Entries : entry[u].status = "approved" => entry'[u] = entry[u]
    BY <1>5, <1>e DEF WriteEntry
  <2> QED BY <1>5, <1>r, <1>s, <2>1, LocksStay DEF WriteEntry
<1>6. ASSUME NEW p \in Edits, AbandonEdit(p) PROVE Locks'
  BY <1>6, LocksStay DEF AbandonEdit
<1>7. CASE CreateDraftInvoice
  <2>1. \A g \in Generations : generation[g].pc = "idle"
    BY <1>7, BillingAssumption DEF CreateDraftInvoice, SequenceFree, Locks, Holds
  <2> QED BY <1>7, <2>1, LocksStay DEF CreateDraftInvoice
<1>8. ASSUME NEW g \in Generations, AllocateNextInvoiceNumber(g) PROVE Locks'
  <2>1. \A h \in Generations : generation[h].pc = "idle"
    BY <1>8, BillingAssumption DEF AllocateNextInvoiceNumber, SequenceFree, Locks, Holds
  <2>2. /\ generation'[g].pc = "numbered" /\ generation'[g].number = nextNumber
        /\ \A h \in Generations \ {g} : generation'[h] = generation[h]
    BY <1>8, GenerationIs DEF AllocateNextInvoiceNumber, TypeInv
  <2>3. sequenceLock' = g /\ nextNumber' = nextNumber /\ nextNumber \in Numbers
    BY <1>8 DEF AllocateNextInvoiceNumber, SequenceFree
  <2> QED BY <2>1, <2>2, <2>3 DEF Locks, Holds, Selected
<1>9. ASSUME NEW g \in Generations, NEW range \in SUBSET Entries, SelectEntries(g, range)
      PROVE  Locks'
  <2> DEFINE rows == [t \in {u \in range : Eligible(u)} |-> entry[t].content]
             row == [generation[g] EXCEPT !.pc = "selected", !.rows = rows]
  <2>1. generation[g] \in Generation
    BY DEF TypeInv
  <2>2. row.pc = "selected" /\ row.number = generation[g].number /\ row.rows = rows
    BY <2>1, GenerationIs
  <2>3. generation' = [generation EXCEPT ![g] = row]
    BY <1>9 DEF SelectEntries
  <2>4. \A t \in DOMAIN rows : Eligible(t) /\ entry[t].content = rows[t]
    OBVIOUS
  <2> HIDE DEF row, rows
  <2>5. \A t \in DOMAIN rows : Eligible(t)' /\ entry'[t].content = rows[t]
    BY <1>9, <2>4 DEF SelectEntries, Eligible
  <2>6. generation'[g] = row /\ \A h \in Generations \ {g} : generation'[h] = generation[h]
    BY <2>3 DEF TypeInv
  <2>7. Holds(g)' /\ Selected(g)'
    BY <1>9, <2>2, <2>5, <2>6 DEF SelectEntries, Locks, Holds, Selected
  <2>8. \A h \in Generations \ {g} : Holds(h)' /\ Selected(h)'
    BY <1>9, <2>6 DEF SelectEntries, Locks, Holds, Selected, Eligible
  <2> QED BY <2>7, <2>8 DEF Locks
<1>10. ASSUME NEW g \in Generations, CommitInvoice(g) PROVE Locks'
  <2>1. generation'[g] = IdleGeneration
        /\ \A h \in Generations \ {g} : generation'[h] = generation[h]
    BY <1>10 DEF CommitInvoice, TypeInv
  <2>2. \A h \in Generations \ {g} : generation[h].pc = "idle"
    BY <1>10 DEF CommitInvoice, Locks, Holds
  <2> QED BY <2>1, <2>2, RowTypes DEF Locks, Holds, Selected
<1>11. ASSUME NEW g \in Generations, RollBack(g) PROVE Locks'
  <2>1. generation'[g] = IdleGeneration
        /\ \A h \in Generations \ {g} : generation'[h] = generation[h]
    BY <1>11 DEF RollBack, TypeInv
  <2>2. \A h \in Generations \ {g} : generation[h].pc = "idle"
    BY <1>11 DEF RollBack, Locks, Holds
  <2> QED BY <2>1, <2>2, RowTypes DEF Locks, Holds, Selected
<1>12. ASSUME NEW q \in LineEdits, EditStep(q) PROVE Locks'
  BY <1>12, LocksStay
  DEF EditStep, LockDraft, UpsertLine, RecomputeTotals, CommitLines, RollBackLines
<1>13. ASSUME NEW n \in Numbers, SendInvoice(n) PROVE Locks'
  BY <1>13, LocksStay DEF SendInvoice
<1>14. CASE UNCHANGED vars
  BY <1>14, LocksStay DEF vars
<1> QED
  BY <1>1, <1>2, <1>3, <1>4, <1>5, <1>6, <1>7, <1>8, <1>9, <1>10, <1>11, <1>12, <1>13, <1>14
  DEF Next, EditStep, SubmitTimeEntry, ApproveTimeEntry, RejectTimeEntry

\* What neither bills nor sends: no line and no invoice changes, and of the
\* entries only those that are not settled yet.
Settled(t) == entry[t].status \in {"approved", "invoiced"}

Quiet ==
  /\ lines' = lines /\ invoice' = invoice /\ nextNumber' = nextNumber
  /\ \A t \in Entries : Settled(t) => entry'[t] = entry[t]

LEMMA StepKinds ==
  ASSUME TypeInv, [Next]_vars
  PROVE  \/ Quiet
         \/ CreateDraftInvoice
         \/ \E g \in Generations : CommitInvoice(g)
         \/ \E q \in LineEdits : CommitLines(q)
         \/ \E n \in Numbers : SendInvoice(n)
<1>e. /\ DOMAIN entry = Entries
      /\ \A p \in Edits : edit[p].pc # "idle" => edit[p].entry \in Entries
  BY DEF TypeInv
<1>1. ASSUME NEW t \in Entries, NEW c \in Content, CreateTimeEntry(t, c) PROVE Quiet
  BY <1>1, <1>e DEF CreateTimeEntry, Quiet, Settled
<1>2. ASSUME NEW t \in Entries, NEW from \in {"draft", "submitted"},
             NEW to \in {"draft", "submitted", "approved"}, Move(t, from, to)
      PROVE  Quiet
  BY <1>2, <1>e DEF Move, Quiet, Settled
<1>3. ASSUME NEW p \in Edits, NEW t \in Entries, NEW c \in Changes, CheckEdit(p, t, c)
      PROVE  Quiet
  BY <1>3 DEF CheckEdit, Quiet
<1>4. ASSUME NEW p \in Edits, LoadEntry(p) PROVE Quiet
  BY <1>4 DEF LoadEntry, Quiet
<1>5. ASSUME NEW p \in Edits, WriteEntry(p) PROVE Quiet
  BY <1>5, <1>e DEF WriteEntry, Quiet, Settled
<1>6. ASSUME NEW p \in Edits, AbandonEdit(p) PROVE Quiet
  BY <1>6 DEF AbandonEdit, Quiet
<1>7. ASSUME NEW g \in Generations, AllocateNextInvoiceNumber(g) PROVE Quiet
  BY <1>7 DEF AllocateNextInvoiceNumber, Quiet
<1>8. ASSUME NEW g \in Generations, NEW range \in SUBSET Entries, SelectEntries(g, range)
      PROVE  Quiet
  BY <1>8 DEF SelectEntries, Quiet
<1>9. ASSUME NEW g \in Generations, RollBack(g) PROVE Quiet
  BY <1>9 DEF RollBack, Quiet
<1>10. ASSUME NEW q \in LineEdits, EditStep(q), ~CommitLines(q) PROVE Quiet
  BY <1>10 DEF EditStep, LockDraft, UpsertLine, RecomputeTotals, RollBackLines, Quiet
<1>11. CASE UNCHANGED vars
  BY <1>11 DEF vars, Quiet
<1> QED
  BY <1>1, <1>2, <1>3, <1>4, <1>5, <1>6, <1>7, <1>8, <1>9, <1>10, <1>11
  DEF Next, EditStep, SubmitTimeEntry, ApproveTimeEntry, RejectTimeEntry

\* What a commit writes: the next number, and entries that were approved.
LEMMA CommitEffect ==
  ASSUME TypeInv, Locks, NEW g \in Generations, CommitInvoice(g)
  PROVE  \E S \in SUBSET Entries :
           /\ \A t \in S : Eligible(t)
           /\ lines' = lines \union
                {[id |-> t, invoice |-> nextNumber, amount |-> LineTotal(entry[t].content)] : t \in S}
           /\ \A t \in Entries \ S : entry'[t] = entry[t]
           /\ \A t \in S : /\ entry'[t].status = "invoiced" /\ entry'[t].invoice = nextNumber
                           /\ entry'[t].content = entry[t].content
           /\ nextNumber \in Numbers /\ nextNumber' = nextNumber + 1
           /\ invoice'[nextNumber].status = "draft"
           /\ \A n \in Numbers \ {nextNumber} : invoice'[n] = invoice[n]
           /\ events' = events
<1> DEFINE rows == generation[g].rows
<1>1. /\ generation[g].number = nextNumber /\ nextNumber \in Numbers
      /\ \A t \in DOMAIN rows : Eligible(t) /\ entry[t].content = rows[t]
  BY DEF CommitInvoice, Locks, Holds, Selected
<1>2. DOMAIN rows \subseteq Entries
  BY RowsTypes
<1>3. /\ lines' = lines \union
           {[id |-> t, invoice |-> nextNumber, amount |-> LineTotal(rows[t])] : t \in DOMAIN rows}
      /\ entry' = [t \in Entries |->
           IF t \in DOMAIN rows
           THEN [entry[t] EXCEPT !.status = "invoiced", !.invoice = nextNumber] ELSE entry[t]]
      /\ invoice' = [invoice EXCEPT ![nextNumber] = [status |-> "draft", total |-> Subtotal(rows)]]
      /\ nextNumber' = nextNumber + 1 /\ events' = events
  BY <1>1 DEF CommitInvoice
<1> HIDE DEF rows
<1>4. {[id |-> t, invoice |-> nextNumber, amount |-> LineTotal(rows[t])] : t \in DOMAIN rows}
        = {[id |-> t, invoice |-> nextNumber, amount |-> LineTotal(entry[t].content)] : t \in DOMAIN rows}
  BY <1>1
<1>5. \A t \in DOMAIN rows : /\ entry'[t].status = "invoiced" /\ entry'[t].invoice = nextNumber
                             /\ entry'[t].content = entry[t].content
  BY <1>2, <1>3 DEF TypeInv, EntryRow
<1>6. DOMAIN invoice = Numbers
  BY DEF TypeInv, InvoiceShape
<1>7. /\ invoice'[nextNumber].status = "draft"
      /\ \A n \in Numbers \ {nextNumber} : invoice'[n] = invoice[n]
  BY <1>1, <1>3, <1>6
<1> QED BY <1>1, <1>2, <1>3, <1>4, <1>5, <1>7

LEMMA NextIsTaken ==
  ASSUME Numbered, nextNumber \in Numbers, nextNumber' = nextNumber + 1,
         invoice'[nextNumber].status = "draft",
         \A n \in Numbers \ {nextNumber} : invoice'[n] = invoice[n]
  PROVE  Numbered'
<1> SUFFICES ASSUME NEW n \in Numbers
             PROVE  invoice'[n].status # "absent" <=> n < nextNumber + 1
  BY DEF Numbered
<1>1. n \in Int /\ nextNumber \in Int
  BY BillingAssumption DEF Numbers
<1>2. CASE n = nextNumber
  BY <1>1, <1>2
<1>3. CASE n # nextNumber
  <2>1. invoice'[n].status = invoice[n].status
    BY <1>3
  <2>2. n < nextNumber <=> n < nextNumber + 1
    BY <1>1, <1>3
  <2> QED BY <2>1, <2>2 DEF Numbered
<1> QED BY <1>2, <1>3

LEMMA NumberedStep == IInv /\ [Next]_vars => Numbered'
<1> SUFFICES ASSUME TypeInv, Locks, Numbered, Drafts, [Next]_vars PROVE Numbered'
  BY DEF IInv
<1>t. PICK T : invoice \in [Numbers -> [status : InvoiceStatus, total : T]]
  BY DEF TypeInv, InvoiceShape
<1>1. CASE Quiet
  BY <1>1 DEF Quiet, Numbered
<1>2. CASE CreateDraftInvoice
  <2>1. /\ nextNumber \in Numbers /\ nextNumber' = nextNumber + 1
        /\ invoice'[nextNumber].status = "draft"
        /\ \A n \in Numbers \ {nextNumber} : invoice'[n] = invoice[n]
    BY <1>2, <1>t DEF CreateDraftInvoice, SequenceFree
  <2> QED BY <2>1, NextIsTaken
<1>3. ASSUME NEW g \in Generations, CommitInvoice(g) PROVE Numbered'
  <2>1. /\ nextNumber \in Numbers /\ nextNumber' = nextNumber + 1
        /\ invoice'[nextNumber].status = "draft"
        /\ \A n \in Numbers \ {nextNumber} : invoice'[n] = invoice[n]
    BY <1>3, CommitEffect
  <2> QED BY <2>1, NextIsTaken
<1>4. ASSUME NEW q \in LineEdits, CommitLines(q) PROVE Numbered'
  <2> DEFINE n == lineEdit[q].invoice
             total == lineEdit[q].total
  <2>1. invoice' = [invoice EXCEPT ![n].total = total] /\ nextNumber' = nextNumber
    BY <1>4 DEF CommitLines
  <2> HIDE DEF n, total
  <2>2. \A m \in Numbers : invoice'[m].status = invoice[m].status
    BY <1>t, <2>1
  <2> QED BY <2>1, <2>2 DEF Numbered
<1>5. ASSUME NEW n \in Numbers, SendInvoice(n) PROVE Numbered'
  <2>1. \A m \in Numbers : invoice'[m].status = "absent" <=> invoice[m].status = "absent"
    BY <1>5, <1>t DEF SendInvoice
  <2> QED BY <1>5, <2>1 DEF SendInvoice, Numbered
<1> QED BY <1>1, <1>2, <1>3, <1>4, <1>5, StepKinds

\* What an edit of lines commits: the lines of one draft change, and a generated
\* line is written only over itself.
LEMMA EditEffect ==
  ASSUME TypeInv, Drafts, NEW q \in LineEdits, CommitLines(q)
  PROVE  \E n \in Numbers :
           /\ n = lineEdit[q].invoice /\ draftLock[n] = q
           /\ entry' = entry /\ invoice[n].status = "draft"
           /\ \A l \in lines' : l \in lines \/ l.invoice = n
           /\ \A l \in lines' : l \notin lines /\ l.id \in Entries =>
                \E k \in lines : k.invoice = n /\ k.id = l.id
           /\ \A k, l \in lines' : k.id = l.id /\ k.invoice = n /\ l.invoice = n =>
                k = l \/ (k \in lines /\ l \in lines)
           /\ \A l \in lines : l.invoice # n => l \in lines'
           /\ \A m \in Numbers \ {n} : invoice'[m] = invoice[m]
           /\ invoice'[n].status = invoice[n].status
<1> DEFINE n == lineEdit[q].invoice
           W == lineEdit[q].written
           gone == lineEdit[q].removed \union {k.id : k \in W}
           total == lineEdit[q].total
<1>1. /\ n \in Numbers /\ draftLock[n] = q /\ invoice[n].status = "draft"
      /\ \A k \in W : /\ k.invoice = n
                      /\ k.id \in Entries => \E l \in lines : l.invoice = n /\ l.id = k.id
      /\ \A j, k \in W : j.id = k.id => j = k
  BY DEF CommitLines, Drafts, EditHolds
<1>2. /\ entry' = entry
      /\ lines' = {l \in lines : ~(l.invoice = n /\ l.id \in gone)} \union W
      /\ invoice' = [invoice EXCEPT ![n].total = total]
  BY DEF CommitLines, Edited
<1>3. \A k \in W : k.id \in gone
  OBVIOUS
<1>4. /\ \A m \in Numbers \ {n} : invoice'[m] = invoice[m]
      /\ invoice'[n].status = invoice[n].status
  <2>1. PICK T : invoice \in [Numbers -> [status : InvoiceStatus, total : T]]
    BY DEF TypeInv, InvoiceShape
  <2> HIDE DEF total, n
  <2> QED BY <1>1, <1>2, <2>1
<1> HIDE DEF gone, W
<1>5. \A l \in lines' : l \in lines \/ l \in W
  BY <1>2
<1>6. \A k, l \in lines' : k.id = l.id /\ k.invoice = n /\ l.invoice = n =>
        k = l \/ (k \in lines /\ l \in lines)
  BY <1>1, <1>2, <1>3
<1>7. \A l \in lines : l.invoice # n => l \in lines'
  BY <1>2
<1> QED BY <1>1, <1>2, <1>4, <1>5, <1>6, <1>7

\* An edit of lines keeps what it knows as long as its invoice does.
LEMMA EditStays ==
  ASSUME NEW q, EditHolds(q), lineEdit'[q] = lineEdit[q],
         lineEdit[q].pc # "idle" =>
           LET n == lineEdit[q].invoice IN
           /\ draftLock'[n] = draftLock[n] /\ invoice'[n].status = invoice[n].status
           /\ \A l \in lines : l.invoice = n => l \in lines'
  PROVE  EditHolds(q)'
BY DEF EditHolds

\* The invoices that have no number yet, or are being sent, are in no edit's hands.
LEMMA DraftIsTaken ==
  ASSUME IInv, NEW q \in LineEdits, lineEdit[q].pc # "idle"
  PROVE  /\ lineEdit[q].invoice \in Numbers
         /\ draftLock[lineEdit[q].invoice] = q /\ q # None
         /\ lineEdit[q].invoice # nextNumber
<1>1. /\ lineEdit[q].invoice \in Numbers /\ draftLock[lineEdit[q].invoice] = q
      /\ invoice[lineEdit[q].invoice].status = "draft"
  BY DEF IInv, Drafts, EditHolds
<1>2. nextNumber \in Int
  BY DEF IInv, TypeInv
<1>3. invoice[lineEdit[q].invoice].status # "absent"
  BY <1>1
<1>4. lineEdit[q].invoice < nextNumber
  BY <1>1, <1>3 DEF IInv, Numbered
<1> QED BY <1>1, <1>2, <1>4, BillingAssumption

\* The step is one of an edit of lines, or of none.
LEMMA EditKinds ==
  ASSUME [Next]_vars
  PROVE  drafting' = drafting \/ \E q \in LineEdits : EditStep(q)
BY DEF Next, EditStep, vars, CreateTimeEntry, SubmitTimeEntry, ApproveTimeEntry, RejectTimeEntry,
       Move, CheckEdit, LoadEntry, WriteEntry, AbandonEdit, CreateDraftInvoice,
       AllocateNextInvoiceNumber, SelectEntries, CommitInvoice, RollBack, SendInvoice

LEMMA DraftsStep == IInv /\ [Next]_vars => Drafts'
<1> SUFFICES ASSUME IInv, [Next]_vars PROVE Drafts'
  OBVIOUS
<1>i. TypeInv /\ Locks /\ Numbered /\ Drafts
  BY DEF IInv
<1>d. DOMAIN draftLock = Numbers /\ DOMAIN lineEdit = LineEdits /\ DOMAIN invoice = Numbers
  BY <1>i DEF TypeInv, DraftShape, InvoiceShape
<1>t. PICK T : lineEdit \in [LineEdits -> LineEditOf(T)]
  BY <1>i DEF TypeInv, DraftShape
<1>1. ASSUME drafting' = drafting PROVE Drafts'
  <2> SUFFICES ASSUME NEW q \in LineEdits PROVE EditHolds(q)'
    BY DEF Drafts
  <2> DEFINE n == lineEdit[q].invoice
  <2>1. draftLock' = draftLock /\ lineEdit' = lineEdit
    BY <1>1 DEF drafting
  <2>2. lineEdit[q].pc # "idle" => n \in Numbers /\ n # nextNumber /\ draftLock[n] # None
    BY DraftIsTaken
  <2>3. lineEdit[q].pc # "idle" =>
          invoice'[n].status = invoice[n].status /\ \A l \in lines : l.invoice = n => l \in lines'
    <3> HIDE DEF n
    <3>1. CASE Quiet
      BY <3>1 DEF Quiet
    <3>2. CASE CreateDraftInvoice
      BY <1>d, <2>2, <3>2 DEF CreateDraftInvoice, SequenceFree
    <3>3. ASSUME NEW g \in Generations, CommitInvoice(g)
          PROVE  /\ \A m \in Numbers \ {nextNumber} : invoice'[m] = invoice[m]
                 /\ lines \subseteq lines'
      BY <1>i, <3>3, CommitEffect
    <3>4. ASSUME NEW r \in LineEdits, CommitLines(r) PROVE FALSE
      <4>1. lineEdit[r].pc = "summed" /\ lineEdit'[r].pc = "idle"
        BY <1>d, <3>4, RowTypes DEF CommitLines
      <4> QED BY <2>1, <4>1
    <3>5. ASSUME NEW m \in Numbers, SendInvoice(m)
          PROVE  lines' = lines /\ \A k \in Numbers \ {m} : invoice'[k] = invoice[k]
      BY <1>d, <3>5 DEF SendInvoice
    <3>6. ASSUME NEW m \in Numbers, SendInvoice(m) PROVE draftLock[m] = None
      BY <3>6 DEF SendInvoice
    <3> QED BY <1>i, <2>2, <3>1, <3>2, <3>3, <3>4, <3>5, <3>6, StepKinds
  <2> QED BY <1>i, <2>1, <2>3, EditStays DEF Drafts
<1>2. ASSUME NEW q \in LineEdits, EditStep(q) PROVE Drafts'
  <2>o. ASSUME NEW r \in LineEdits \ {q}, lineEdit'[r] = lineEdit[r],
               NEW n \in Numbers, draftLock[n] \in {None, q},
               \A m \in Numbers \ {n} : draftLock'[m] = draftLock[m],
               \A m \in Numbers : invoice'[m].status = invoice[m].status,
               \A l \in lines : l.invoice # n => l \in lines'
        PROVE  EditHolds(r)'
    <3>1. lineEdit[r].pc # "idle" => lineEdit[r].invoice \in Numbers \ {n}
      BY <2>o, DraftIsTaken
    <3> QED BY <1>i, <2>o, <3>1, EditStays DEF Drafts
  <2>1. ASSUME NEW n \in Numbers, NEW removed \in SUBSET {l.id : l \in LinesOf(n)},
               LockDraft(q, n, removed)
        PROVE  Drafts'
    <3> DEFINE row == [lineEdit[q] EXCEPT !.pc = "editing", !.invoice = n, !.removed = removed]
    <3>1. /\ lineEdit' = [lineEdit EXCEPT ![q] = row] /\ draftLock' = [draftLock EXCEPT ![n] = q]
          /\ draftLock[n] = None /\ invoice[n].status = "draft" /\ lineEdit[q].pc = "idle"
          /\ invoice' = invoice /\ lines' = lines
      BY <2>1 DEF LockDraft
    <3>2. lineEdit[q] \in LineEditOf(T)
      BY <1>t
    <3>3. row.pc = "editing" /\ row.invoice = n /\ row.written = lineEdit[q].written
      BY <3>2 DEF LineEditOf
    <3> HIDE DEF row
    <3>4. lineEdit'[q] = row /\ \A r \in LineEdits \ {q} : lineEdit'[r] = lineEdit[r]
      BY <1>d, <3>1
    <3>5. draftLock'[n] = q /\ \A m \in Numbers \ {n} : draftLock'[m] = draftLock[m]
      BY <1>d, <3>1
    <3>6. lineEdit[q].written = {}
      BY <1>i, <3>1 DEF Drafts, EditHolds, IdleLineEdit
    <3>7. EditHolds(q)'
      BY <3>1, <3>3, <3>4, <3>5, <3>6 DEF EditHolds
    <3>8. \A r \in LineEdits \ {q} : EditHolds(r)'
      BY <2>o, <3>1, <3>4, <3>5
    <3> QED BY <3>7, <3>8 DEF Drafts
  <2>2. ASSUME NEW id \in LineIds, NEW amount \in Amounts, UpsertLine(q, id, amount)
        PROVE  Drafts'
    <3> DEFINE n == lineEdit[q].invoice
               new == [id |-> id, invoice |-> n, amount |-> amount]
               W == {k \in lineEdit[q].written : k.id # id} \union {new}
               row == [lineEdit[q] EXCEPT !.written = W]
    <3>1. /\ lineEdit' = [lineEdit EXCEPT ![q] = row] /\ lineEdit[q].pc = "editing"
          /\ draftLock' = draftLock /\ invoice' = invoice /\ lines' = lines /\ Upsertable(q, id)
      BY <2>2 DEF UpsertLine
    <3>2. lineEdit[q] \in LineEditOf(T)
      BY <1>t
    <3>3. row.pc = "editing" /\ row.invoice = n /\ row.written = W
      BY <3>1, <3>2 DEF LineEditOf
    <3>4. /\ n \in Numbers /\ draftLock[n] = q /\ invoice[n].status = "draft"
          /\ \A k \in lineEdit[q].written :
               /\ k.invoice = n
               /\ k.id \in Entries => \E l \in lines : l.invoice = n /\ l.id = k.id
          /\ \A j, k \in lineEdit[q].written : j.id = k.id => j = k
      BY <1>i, <3>1 DEF Drafts, EditHolds
    <3>5. id \in Entries => \E l \in lines : l.invoice = n /\ l.id = id
      BY <3>1, BillingAssumption DEF Upsertable
    <3>6. new.id = id /\ new.invoice = n
      OBVIOUS
    <3> HIDE DEF new, row
    <3>7. /\ \A k \in W : k.invoice = n
                      /\ (k.id \in Entries => \E l \in lines : l.invoice = n /\ l.id = k.id)
          /\ \A j, k \in W : j.id = k.id => j = k
      BY <3>4, <3>5, <3>6
    <3> HIDE DEF W
    <3>8. lineEdit'[q] = row /\ \A r \in LineEdits \ {q} : lineEdit'[r] = lineEdit[r]
      BY <1>d, <3>1
    <3>9. EditHolds(q)'
      BY <3>1, <3>3, <3>4, <3>7, <3>8 DEF EditHolds
    <3>10. \A r \in LineEdits \ {q} : EditHolds(r)'
      BY <1>i, <3>1, <3>8, EditStays DEF Drafts
    <3> QED BY <3>9, <3>10 DEF Drafts
  <2>3. CASE RecomputeTotals(q)
    <3> DEFINE total == TotalOf(lineEdit[q].invoice, Edited(q))
               row == [lineEdit[q] EXCEPT !.pc = "summed", !.total = total]
    <3>1. /\ lineEdit' = [lineEdit EXCEPT ![q] = row] /\ lineEdit[q].pc = "editing"
          /\ draftLock' = draftLock /\ invoice' = invoice /\ lines' = lines
      BY <2>3 DEF RecomputeTotals
    <3>2. lineEdit[q] \in LineEditOf(T)
      BY <1>t
    <3> HIDE DEF total
    <3>3. /\ row.pc = "summed" /\ row.invoice = lineEdit[q].invoice
          /\ row.written = lineEdit[q].written
      BY <3>2 DEF LineEditOf
    <3> HIDE DEF row
    <3>4. lineEdit'[q] = row /\ \A r \in LineEdits \ {q} : lineEdit'[r] = lineEdit[r]
      BY <1>d, <3>1
    <3>5. EditHolds(q)
      BY <1>i DEF Drafts
    <3>6. EditHolds(q)'
      BY <3>1, <3>3, <3>4, <3>5 DEF EditHolds
    <3>7. \A r \in LineEdits \ {q} : EditHolds(r)'
      BY <1>i, <3>1, <3>4, EditStays DEF Drafts
    <3> QED BY <3>6, <3>7 DEF Drafts
  <2>4. CASE CommitLines(q) \/ RollBackLines(q)
    <3> DEFINE n == lineEdit[q].invoice
    <3>1. /\ lineEdit[q].pc # "idle"
          /\ draftLock' = [draftLock EXCEPT ![n] = None]
          /\ lineEdit' = [lineEdit EXCEPT ![q] = IdleLineEdit]
      BY <2>4 DEF CommitLines, RollBackLines
    <3>2. n \in Numbers /\ draftLock[n] = q
      BY <3>1, DraftIsTaken
    <3>3. /\ \A m \in Numbers : invoice'[m].status = invoice[m].status
          /\ \A l \in lines : l.invoice # n => l \in lines'
      <4>1. CASE CommitLines(q)
        <5>1. PICK m \in Numbers :
                /\ m = n /\ \A l \in lines : l.invoice # m => l \in lines'
                /\ \A k \in Numbers \ {m} : invoice'[k] = invoice[k]
                /\ invoice'[m].status = invoice[m].status
          BY <1>i, <4>1, EditEffect
        <5> QED BY <5>1
      <4>2. CASE RollBackLines(q)
        BY <4>2 DEF RollBackLines
      <4> QED BY <2>4, <4>1, <4>2
    <3> HIDE DEF n
    <3>4. lineEdit'[q] = IdleLineEdit /\ \A r \in LineEdits \ {q} : lineEdit'[r] = lineEdit[r]
      BY <1>d, <3>1
    <3>5. \A m \in Numbers \ {n} : draftLock'[m] = draftLock[m]
      BY <1>d, <3>1
    <3>6. EditHolds(q)'
      BY <3>4, RowTypes DEF EditHolds
    <3>7. \A r \in LineEdits \ {q} : EditHolds(r)'
      BY <2>o, <3>2, <3>3, <3>4, <3>5
    <3> QED BY <3>6, <3>7 DEF Drafts
  <2> QED BY <1>2, <2>1, <2>2, <2>3, <2>4 DEF EditStep
<1> QED BY <1>1, <1>2, EditKinds

LEMMA AlwaysIInv == Spec => []IInv
<1>1. IInv /\ [Next]_vars => IInv'
  BY TypeInvStep, LocksStep, NumberedStep, DraftsStep DEF IInv
<1> QED BY <1>1, InitIInv, PTL DEF Spec

\* Numbers run without a gap: a number that was drawn by a generation that
\* failed is drawn again, since the sequence's row is written at the commit.
THEOREM NumbersRun == Spec => []NumbersHaveNoGaps
<1>1. IInv => NumbersHaveNoGaps
  <2> SUFFICES ASSUME IInv PROVE NumbersHaveNoGaps
    OBVIOUS
  <2>1. nextNumber \in Nat /\ nextNumber <= MaxInvoices + 1 /\ MaxInvoices \in Nat
    BY BillingAssumption DEF IInv, TypeInv
  <2>2. \A n \in Numbers : n < nextNumber <=> n \in 1..(nextNumber - 1)
    BY <2>1 DEF Numbers
  <2>3. 1..(nextNumber - 1) \subseteq Numbers
    BY <2>1 DEF Numbers
  <2> QED BY <2>2, <2>3 DEF IInv, Numbered, NumbersHaveNoGaps
<1> QED BY <1>1, AlwaysIInv, PTL
-----------------------------------------------------------------------------
(***************************************************************************)
(* Entries and their lines.                                                *)
(***************************************************************************)

LEMMA BilledOnceStep == IInv /\ BilledOnce /\ [Next]_vars => BilledOnce'
<1> SUFFICES ASSUME IInv, BilledOnce, [Next]_vars PROVE BilledOnce'
  OBVIOUS
<1>i. TypeInv /\ Locks /\ Drafts
  BY DEF IInv
<1>1. CASE Quiet
  BY <1>1 DEF Quiet, Settled, BilledOnce
<1>2. CASE CreateDraftInvoice
  BY <1>2 DEF CreateDraftInvoice, BilledOnce
<1>3. ASSUME NEW g \in Generations, CommitInvoice(g) PROVE BilledOnce'
  <2>1. PICK S \in SUBSET Entries :
          /\ \A t \in S : Eligible(t)
          /\ lines' = lines \union
               {[id |-> t, invoice |-> nextNumber, amount |-> LineTotal(entry[t].content)] : t \in S}
          /\ \A t \in Entries \ S : entry'[t] = entry[t]
          /\ \A t \in S : /\ entry'[t].status = "invoiced" /\ entry'[t].invoice = nextNumber
                          /\ entry'[t].content = entry[t].content
    BY <1>i, <1>3, CommitEffect
  <2>2. \A l \in lines : l.id \notin S
    BY <2>1 DEF BilledOnce, Eligible
  <2>3. \A l \in lines' : l \notin lines => l.id \in S /\ l.invoice = nextNumber
    BY <2>1
  <2>4. \A k, l \in lines' : k \notin lines /\ l \notin lines /\ k.id = l.id => k = l
    BY <2>1
  <2>5. ASSUME NEW l \in lines', l.id \in Entries
        PROVE  entry'[l.id].status = "invoiced" /\ entry'[l.id].invoice = l.invoice
    BY <2>1, <2>2, <2>3, <2>5 DEF BilledOnce
  <2>6. ASSUME NEW l \in lines', NEW k \in lines', l.id \in Entries, k.id = l.id PROVE k = l
    BY <2>2, <2>3, <2>4, <2>6 DEF BilledOnce
  <2> QED BY <2>5, <2>6 DEF BilledOnce
<1>4. ASSUME NEW q \in LineEdits, CommitLines(q) PROVE BilledOnce'
  <2>e. PICK n \in Numbers :
          /\ entry' = entry /\ invoice[n].status = "draft"
          /\ \A l \in lines' : l \in lines \/ l.invoice = n
          /\ \A l \in lines' : l \notin lines /\ l.id \in Entries =>
               \E k \in lines : k.invoice = n /\ k.id = l.id
          /\ \A k, l \in lines' : k.id = l.id /\ k.invoice = n /\ l.invoice = n =>
               k = l \/ (k \in lines /\ l \in lines)
    BY <1>i, <1>4, EditEffect
  <2> SUFFICES ASSUME NEW l \in lines', l.id \in Entries
               PROVE  /\ entry[l.id].status = "invoiced" /\ entry[l.id].invoice = l.invoice
                      /\ \A k \in lines' : k.id = l.id => k = l
    BY <2>e DEF BilledOnce
  <2>1. ASSUME NEW k \in lines', k.id = l.id
        PROVE  entry[l.id].status = "invoiced" /\ entry[l.id].invoice = k.invoice
    <3>1. CASE k \in lines
      BY <2>1, <3>1 DEF BilledOnce
    <3>2. CASE k \notin lines
      <4>1. k.invoice = n /\ \E j \in lines : j.invoice = n /\ j.id = k.id
        BY <2>e, <2>1, <3>2
      <4> QED BY <2>1, <4>1 DEF BilledOnce
    <3> QED BY <3>1, <3>2
  <2>2. ASSUME NEW k \in lines', k.id = l.id PROVE k = l
    <3>1. k.invoice = l.invoice
      BY <2>1, <2>2
    <3>2. CASE k \in lines /\ l \in lines
      BY <2>2, <3>2 DEF BilledOnce
    <3>3. CASE ~(k \in lines /\ l \in lines)
      <4>1. k.invoice = n /\ l.invoice = n
        BY <2>e, <3>1, <3>3
      <4> QED BY <2>e, <2>2, <3>3, <4>1
    <3> QED BY <3>2, <3>3
  <2> QED BY <2>1, <2>2
<1>5. ASSUME NEW n \in Numbers, SendInvoice(n) PROVE BilledOnce'
  BY <1>5 DEF SendInvoice, BilledOnce
<1> QED BY <1>i, <1>1, <1>2, <1>3, <1>4, <1>5, StepKinds

\* No hour is billed twice, whatever generations and line edits overlap.
THEOREM BilledOnceOnly == Spec => []BilledOnce
<1>1. Init => BilledOnce
  BY DEF Init, BilledOnce
<1> QED BY <1>1, BilledOnceStep, AlwaysIInv, PTL DEF Spec

\* An invoiced entry that has no line gets none.
LEMMA DroppedStep ==
  ASSUME IInv, [Next]_vars, NEW t \in Entries, entry[t].status = "invoiced",
         \A l \in lines : l.id # t
  PROVE  \A l \in lines' : l.id # t
<1>i. TypeInv /\ Locks /\ Drafts
  BY DEF IInv
<1>1. CASE Quiet
  BY <1>1 DEF Quiet
<1>2. CASE CreateDraftInvoice
  BY <1>2 DEF CreateDraftInvoice
<1>3. ASSUME NEW g \in Generations, CommitInvoice(g) PROVE \A l \in lines' : l.id # t
  BY <1>i, <1>3, CommitEffect DEF Eligible
<1>4. ASSUME NEW q \in LineEdits, CommitLines(q) PROVE \A l \in lines' : l.id # t
  <2>1. \A l \in lines' : l \notin lines /\ l.id \in Entries => \E k \in lines : k.id = l.id
    BY <1>i, <1>4, EditEffect
  <2> QED BY <2>1
<1>5. ASSUME NEW n \in Numbers, SendInvoice(n) PROVE \A l \in lines' : l.id # t
  BY <1>5 DEF SendInvoice
<1> QED BY <1>i, <1>1, <1>2, <1>3, <1>4, <1>5, StepKinds

\* Hours whose line was removed from a draft are on no invoice again.
THEOREM DroppedWorkDropped == Spec => DroppedWorkStaysDropped
<1>1. IInv /\ [Next]_vars =>
        \A t \in Entries : entry[t].status = "invoiced" /\ (\A l \in lines : l.id # t) =>
          \A l \in lines' : l.id # t
  BY DroppedStep
<1> QED BY <1>1, AlwaysIInv, PTL DEF Spec, DroppedWorkStaysDropped

LEMMA FrozenStep ==
  ASSUME IInv, [Next]_vars, NEW t \in Entries, Settled(t)
  PROVE  /\ entry'[t].content = entry[t].content
         /\ entry'[t].status \in {entry[t].status, "invoiced"}
         /\ entry[t].status = "invoiced" => entry'[t].invoice = entry[t].invoice
<1>i. TypeInv /\ Locks /\ Drafts
  BY DEF IInv
<1>1. CASE Quiet
  BY <1>1 DEF Quiet
<1>2. CASE CreateDraftInvoice
  BY <1>2 DEF CreateDraftInvoice
<1>3. ASSUME NEW g \in Generations, CommitInvoice(g)
      PROVE  /\ entry'[t].content = entry[t].content
             /\ entry'[t].status \in {entry[t].status, "invoiced"}
             /\ entry[t].status = "invoiced" => entry'[t].invoice = entry[t].invoice
  <2>1. PICK S \in SUBSET Entries :
          /\ \A u \in S : Eligible(u)
          /\ \A u \in Entries \ S : entry'[u] = entry[u]
          /\ \A u \in S : /\ entry'[u].status = "invoiced" /\ entry'[u].invoice = nextNumber
                          /\ entry'[u].content = entry[u].content
    BY <1>i, <1>3, CommitEffect
  <2> QED BY <2>1 DEF Eligible
<1>4. ASSUME NEW q \in LineEdits, CommitLines(q) PROVE entry' = entry
  BY <1>4 DEF CommitLines
<1>5. ASSUME NEW n \in Numbers, SendInvoice(n) PROVE entry' = entry
  BY <1>5 DEF SendInvoice
<1> QED BY <1>i, <1>1, <1>2, <1>3, <1>4, <1>5, StepKinds

\* What was approved is not changed any more, also by a PATCH that read the
\* entry while it was a draft.
THEOREM ApprovedFrozen == Spec => ApprovedWorkIsFrozen
<1>1. IInv /\ [Next]_vars =>
        \A t \in Entries : entry[t].status \in {"approved", "invoiced"} =>
          /\ entry'[t].content = entry[t].content
          /\ entry'[t].status \in {entry[t].status, "invoiced"}
          /\ entry[t].status = "invoiced" => entry'[t].invoice = entry[t].invoice
  BY FrozenStep DEF Settled
<1> QED BY <1>1, AlwaysIInv, PTL DEF Spec, ApprovedWorkIsFrozen

LEMMA BillingStep ==
  ASSUME IInv, [Next]_vars, NEW l \in lines', l \notin lines, l.id \in Entries,
         \A k \in lines : k.id # l.id
  PROVE  entry[l.id].status = "approved" /\ l.amount = LineTotal(entry[l.id].content)
<1>i. TypeInv /\ Locks /\ Drafts
  BY DEF IInv
<1>1. ASSUME NEW g \in Generations, CommitInvoice(g)
      PROVE  entry[l.id].status = "approved" /\ l.amount = LineTotal(entry[l.id].content)
  <2>1. PICK S \in SUBSET Entries :
          /\ \A t \in S : Eligible(t)
          /\ lines' = lines \union
               {[id |-> t, invoice |-> nextNumber, amount |-> LineTotal(entry[t].content)] : t \in S}
    BY <1>i, <1>1, CommitEffect
  <2>2. PICK t \in S : l = [id |-> t, invoice |-> nextNumber,
                            amount |-> LineTotal(entry[t].content)]
    BY <2>1
  <2> QED BY <2>1, <2>2 DEF Eligible
<1>2. ASSUME NEW q \in LineEdits, CommitLines(q) PROVE FALSE
  <2>1. \A k \in lines' : k \notin lines /\ k.id \in Entries => \E j \in lines : j.id = k.id
    BY <1>i, <1>2, EditEffect
  <2> QED BY <2>1
<1> QED
  BY <1>i, <1>1, <1>2, StepKinds DEF Quiet, CreateDraftInvoice, SendInvoice

\* What is billed is what the entry holds, and it is approved.
THEOREM BilledApproved == Spec => BilledAsApproved
<1>1. IInv /\ [Next]_vars =>
        \A l \in lines' \ lines :
          l.id \in Entries /\ (\A k \in lines : k.id # l.id) =>
            /\ entry[l.id].status = "approved"
            /\ l.amount = LineTotal(entry[l.id].content)
  BY BillingStep
<1> QED BY <1>1, AlwaysIInv, PTL DEF Spec, BilledAsApproved

LEMMA IssuedStep ==
  ASSUME IInv, [Next]_vars, NEW n \in Numbers, invoice[n].status = "issued"
  PROVE  /\ invoice'[n] = invoice[n]
         /\ {l \in lines' : l.invoice = n} = {l \in lines : l.invoice = n}
<1>i. TypeInv /\ Locks /\ Numbered /\ Drafts
  BY DEF IInv
<1>t. DOMAIN invoice = Numbers
  BY <1>i DEF TypeInv, InvoiceShape
<1>d. nextNumber \in Numbers => n # nextNumber
  <2>1. nextNumber \in Int
    BY <1>i DEF TypeInv
  <2> QED BY <1>i, <2>1 DEF Numbered
<1>1. CASE Quiet
  BY <1>1 DEF Quiet
<1>2. CASE CreateDraftInvoice
  BY <1>2, <1>t, <1>d DEF CreateDraftInvoice, SequenceFree
<1>3. ASSUME NEW g \in Generations, CommitInvoice(g)
      PROVE  /\ invoice'[n] = invoice[n]
             /\ {l \in lines' : l.invoice = n} = {l \in lines : l.invoice = n}
  <2>1. PICK S \in SUBSET Entries :
          /\ lines' = lines \union
               {[id |-> t, invoice |-> nextNumber, amount |-> LineTotal(entry[t].content)] : t \in S}
          /\ nextNumber \in Numbers
          /\ \A m \in Numbers \ {nextNumber} : invoice'[m] = invoice[m]
    BY <1>i, <1>3, CommitEffect
  <2>2. \A l \in lines' : l.invoice = n => l \in lines
    BY <1>d, <2>1
  <2> QED BY <1>d, <2>1, <2>2
<1>4. ASSUME NEW q \in LineEdits, CommitLines(q)
      PROVE  /\ invoice'[n] = invoice[n]
             /\ {l \in lines' : l.invoice = n} = {l \in lines : l.invoice = n}
  <2>1. PICK m \in Numbers :
          /\ invoice[m].status = "draft"
          /\ \A l \in lines' : l \in lines \/ l.invoice = m
          /\ \A l \in lines : l.invoice # m => l \in lines'
          /\ \A k \in Numbers \ {m} : invoice'[k] = invoice[k]
    BY <1>i, <1>4, EditEffect
  <2>2. m # n
    BY <2>1
  <2> QED BY <2>1, <2>2
<1>5. ASSUME NEW m \in Numbers, SendInvoice(m)
      PROVE  invoice'[n] = invoice[n] /\ lines' = lines
  BY <1>5, <1>t DEF SendInvoice
<1> QED BY <1>i, <1>1, <1>2, <1>3, <1>4, <1>5, StepKinds

\* A sent invoice stays as it was sent.
THEOREM IssuedFrozen == Spec => IssuedInvoicesAreFrozen
<1>1. IInv /\ [Next]_vars =>
        \A n \in Numbers : invoice[n].status = "issued" =>
          /\ invoice'[n] = invoice[n]
          /\ {l \in lines' : l.invoice = n} = {l \in lines : l.invoice = n}
  BY IssuedStep
<1> QED BY <1>1, AlwaysIInv, PTL DEF Spec, IssuedInvoicesAreFrozen
-----------------------------------------------------------------------------
(***************************************************************************)
(* Totals.  Booked is what TypeOK says about amounts and TotalsMatchLines, *)
(* with what keeps them true: there are finitely many lines, and none on a *)
(* number that is not drawn yet.  Summed says the same of an edit of lines *)
(* on its way: what it has summed up is still what it would commit, since  *)
(* nobody else touches the lines of an invoice it has locked.              *)
(***************************************************************************)
Booked ==
  /\ IsFiniteSet(lines) /\ lines \subseteq Line
  /\ \A l \in lines : invoice[l.invoice].status # "absent"
  /\ \A n \in Numbers :
       invoice[n].total = TotalOf(n, lines) /\ invoice[n].total <= LargestTotal

SummedUp(q) ==
  LET e == lineEdit[q] IN
  /\ IsFiniteSet(e.written)
  /\ e.total \in 0..LargestTotal
  /\ e.pc = "summed" => e.total = TotalOf(e.invoice, Edited(q))

Summed == \A q \in LineEdits : SummedUp(q)

\* The total of an invoice depends on its own lines only.
LEMMA TotalSame ==
  ASSUME NEW n, NEW ls, NEW ms, {l \in ls : l.invoice = n} = {l \in ms : l.invoice = n}
  PROVE  TotalOf(n, ls) = TotalOf(n, ms)
BY DEF TotalOf

LEMMA TotalNat ==
  ASSUME NEW n, NEW ls \in SUBSET Line, IsFiniteSet(ls)
  PROVE  TotalOf(n, ls) \in Nat
<1> DEFINE own == {l \in ls : l.invoice = n}
           f == [l \in own |-> l.amount]
<1>1. IsFiniteSet(own)
  BY FS_Subset
<1>2. DOMAIN f = own /\ \A l \in own : f[l] \in Nat
  BY BillingAssumption DEF Line
<1> HIDE DEF f, own
<1>3. SumFunction(f) \in Nat
  BY <1>1, <1>2, SumOfNats
<1> QED BY <1>3 DEF TotalOf, f, own

LEMMA TotalOfNone ==
  ASSUME NEW n, NEW ls, \A l \in ls : l.invoice # n
  PROVE  TotalOf(n, ls) = 0
<1>1. {l \in ls : l.invoice = n} = {}
  OBVIOUS
<1>2. DOMAIN [l \in {l \in ls : l.invoice = n} |-> l.amount] = {}
  BY <1>1
<1> QED BY <1>2, SumOfNothing DEF TotalOf

\* Minutes at a rate come to a natural number, also after rounding.
LEMMA LineTotalNat ==
  ASSUME NEW content \in Content
  PROVE  LineTotal(content) \in Nat
<1>1. content.minutes \in Nat /\ content.rate \in Nat
  BY BillingAssumption DEF Content
<1>2. \A m, r \in Nat : (m * r + 30) \div 60 \in Nat
  <2>1. \A m, r \in Nat : m * r \in Nat
    OBVIOUS
  <2>2. \A k \in Nat : (k + 30) \div 60 \in Nat
    OBVIOUS
  <2> QED BY <2>1, <2>2
<1> QED BY <1>1, <1>2 DEF LineTotal

\* What a generation writes: a line per entry, and their sum, which fits.
LEMMA CommitTotals ==
  ASSUME IsFiniteSet(Entries), TypeInv, Locks, NEW g \in Generations, CommitInvoice(g)
  PROVE  \E new \in SUBSET Line :
           /\ IsFiniteSet(new) /\ lines' = lines \union new
           /\ \A l \in new : l.invoice = nextNumber
           /\ invoice'[nextNumber].total = TotalOf(nextNumber, new)
           /\ invoice'[nextNumber].total <= LargestTotal
<1> DEFINE rows == generation[g].rows
           S == DOMAIN rows
           n == nextNumber
           h == [t \in S |-> [id |-> t, invoice |-> n, amount |-> LineTotal(rows[t])]]
           new == {h[t] : t \in S}
           f == [t \in S |-> LineTotal(rows[t])]
           own == {l \in new : l.invoice = n}
           amounts == [l \in own |-> l.amount]
<1>1. generation[g].number = n /\ n \in Numbers
  BY DEF CommitInvoice, Locks, Holds
<1>2. S \subseteq Entries /\ \A t \in S : rows[t] \in Content
  BY RowsTypes
<1>3. IsFiniteSet(S)
  BY <1>2, FS_Subset
<1>4. Subtotal(rows) = SumFunction(f) /\ Subtotal(rows) <= LargestTotal
  BY DEF CommitInvoice, Fits, Subtotal
<1>5. lines' = lines \union new
  <2>1. lines' = lines \union
          {[id |-> t, invoice |-> n, amount |-> LineTotal(rows[t])] : t \in DOMAIN rows}
    BY <1>1 DEF CommitInvoice
  <2> HIDE DEF rows
  <2>2. new = {[id |-> t, invoice |-> n, amount |-> LineTotal(rows[t])] : t \in DOMAIN rows}
    OBVIOUS
  <2> QED BY <2>1, <2>2
<1>6. invoice'[n].total = Subtotal(rows)
  <2>1. invoice' = [invoice EXCEPT ![n] = [status |-> "draft", total |-> Subtotal(rows)]]
    BY <1>1 DEF CommitInvoice
  <2>2. DOMAIN invoice = Numbers
    BY DEF TypeInv, InvoiceShape
  <2> HIDE DEF rows
  <2> QED BY <1>1, <2>1, <2>2
<1> HIDE DEF rows
<1>7. \A t \in S : f[t] \in Nat
  BY <1>2, LineTotalNat
<1>8. \A t \in S : f[t] <= Subtotal(rows)
  <2>1. DOMAIN f = S
    OBVIOUS
  <2> HIDE DEF f, S
  <2> QED BY <1>3, <1>4, <1>7, <2>1, SumAtLeast DEF SumFunction
<1>9. \A t \in S : h[t].id = t /\ h[t].invoice = n /\ h[t].amount = f[t]
  OBVIOUS
<1>10. \A t \in S : h[t] \in Line
  <2>1. \A t \in S : f[t] \in 0..LargestTotal
    <3>1. Subtotal(rows) \in Nat
      <4>1. DOMAIN f = S
        OBVIOUS
      <4> HIDE DEF f, S
      <4> QED BY <1>3, <1>4, <1>7, <4>1, SumOfNats
    <3> HIDE DEF f, S
    <3> QED BY <1>4, <1>7, <1>8, <3>1, BillingAssumption
  <2> QED BY <1>1, <1>2, <2>1 DEF Line, LineIds
<1>11. own = new /\ DOMAIN amounts = own
  BY <1>9
<1>12. \A t \in S : amounts[h[t]] = f[t]
  BY <1>9, <1>11
<1>13. IsFiniteSet(new) /\ SumFunctionOnSet(amounts, new) = SumFunctionOnSet(f, S)
  <2>1. /\ \A t, u \in S : h[t] = h[u] => t = u
        /\ \A t \in S : f[t] \in Int /\ amounts[h[t]] = f[t]
    BY <1>7, <1>9, <1>12
  <2> HIDE DEF h, f, S, amounts
  <2> QED BY <1>3, <2>1, SumOfImage
<1>14. TotalOf(n, new) = Subtotal(rows)
  <2>1. DOMAIN f = S
    OBVIOUS
  <2>2. TotalOf(n, new) = SumFunction(amounts)
    BY DEF TotalOf
  <2> HIDE DEF f, S, new, amounts
  <2> QED BY <1>4, <1>11, <1>13, <2>1, <2>2 DEF SumFunction
<1>15. new \in SUBSET Line /\ \A l \in new : l.invoice = n
  BY <1>9, <1>10
<1> HIDE DEF new
<1> QED BY <1>4, <1>5, <1>6, <1>13, <1>14, <1>15

\* What an edit of lines sees are lines, finitely many.
LEMMA EditedLines ==
  ASSUME TypeInv, Booked, Summed, NEW q \in LineEdits
  PROVE  IsFiniteSet(Edited(q)) /\ Edited(q) \subseteq Line
<1> DEFINE W == lineEdit[q].written
           kept == {l \in lines : ~(l.invoice = lineEdit[q].invoice
                                   /\ l.id \in lineEdit[q].removed \union {k.id : k \in W})}
<1>1. W \subseteq Line /\ IsFiniteSet(W)
  <2>1. PICK T : lineEdit \in [LineEdits -> LineEditOf(T)]
    BY DEF TypeInv, DraftShape
  <2>2. lineEdit[q] \in LineEditOf(T)
    BY <2>1
  <2> QED BY <2>2 DEF LineEditOf, Summed, SummedUp
<1>2. Edited(q) = kept \union W
  BY DEF Edited
<1>3. kept \subseteq lines
  OBVIOUS
<1> HIDE DEF W, kept
<1>4. IsFiniteSet(kept) /\ kept \subseteq Line
  BY <1>3, FS_Subset DEF Booked
<1>5. IsFiniteSet(kept \union W)
  BY <1>1, <1>4, FS_Union
<1> QED BY <1>1, <1>2, <1>4, <1>5

\* What an edit of lines commits: the lines and the total of one draft.
LEMMA CommittedLines ==
  ASSUME TypeInv, Drafts, Booked, Summed, NEW q \in LineEdits, CommitLines(q)
  PROVE  \E n \in Numbers :
           /\ n = lineEdit[q].invoice /\ invoice[n].status = "draft"
           /\ IsFiniteSet(lines') /\ lines' \subseteq Line
           /\ invoice'[n].total = TotalOf(n, lines') /\ invoice'[n].total <= LargestTotal
           /\ \A m \in Numbers \ {n} :
                /\ {l \in lines' : l.invoice = m} = {l \in lines : l.invoice = m}
                /\ invoice'[m] = invoice[m]
           /\ \A m \in Numbers : invoice'[m].status = invoice[m].status
<1>1. PICK n \in Numbers :
        /\ n = lineEdit[q].invoice /\ invoice[n].status = "draft"
        /\ \A l \in lines' : l \in lines \/ l.invoice = n
        /\ \A l \in lines : l.invoice # n => l \in lines'
        /\ \A m \in Numbers \ {n} : invoice'[m] = invoice[m]
        /\ invoice'[n].status = invoice[n].status
  BY EditEffect
<1>2. lines' = Edited(q) /\ invoice' = [invoice EXCEPT ![n].total = lineEdit[q].total]
  BY <1>1 DEF CommitLines
<1>3. IsFiniteSet(lines') /\ lines' \subseteq Line
  BY <1>2, EditedLines
<1>4. PICK T : invoice \in [Numbers -> [status : InvoiceStatus, total : T]]
  BY DEF TypeInv, InvoiceShape
<1>5. invoice'[n].total = lineEdit[q].total
  BY <1>2, <1>4
<1>6. lineEdit[q].total = TotalOf(n, lines') /\ lineEdit[q].total <= LargestTotal
  BY <1>1, <1>2, BillingAssumption DEF CommitLines, Summed, SummedUp
<1>7. \A m \in Numbers \ {n} : {l \in lines' : l.invoice = m} = {l \in lines : l.invoice = m}
  BY <1>1
<1> QED BY <1>1, <1>3, <1>5, <1>6, <1>7

LEMMA InitBooked == Init => Booked /\ Summed
<1> SUFFICES ASSUME Init PROVE Booked /\ Summed
  OBVIOUS
<1>1. IsFiniteSet(lines) /\ lines = {}
  BY FS_EmptySet DEF Init
<1>2. \A n \in Numbers : TotalOf(n, lines) = 0 /\ invoice[n].total = 0
  BY <1>1, TotalOfNone DEF Init
<1>3. Summed
  <2> SUFFICES ASSUME NEW q \in LineEdits PROVE SummedUp(q)
    BY DEF Summed
  <2>1. lineEdit[q].written = {} /\ lineEdit[q].total = 0 /\ lineEdit[q].pc = "idle"
    BY DEF Init, IdleLineEdit
  <2> QED BY <2>1, FS_EmptySet, BillingAssumption DEF SummedUp
<1> QED BY <1>1, <1>2, <1>3, BillingAssumption DEF Booked

LEMMA BookedStep ==
  ASSUME IsFiniteSet(Entries)
  PROVE  IInv /\ Booked /\ Summed /\ [Next]_vars => Booked'
<1> SUFFICES ASSUME IInv, Booked, Summed, [Next]_vars PROVE Booked'
  OBVIOUS
<1>i. TypeInv /\ Locks /\ Numbered /\ Drafts
  BY DEF IInv
<1>t. PICK T : invoice \in [Numbers -> [status : InvoiceStatus, total : T]]
  BY <1>i DEF TypeInv, InvoiceShape
<1>l. \A l \in lines : l.invoice \in Numbers
  BY DEF Booked, Line
<1>1. CASE Quiet
  BY <1>1 DEF Quiet, Booked
<1>2. CASE CreateDraftInvoice
  <2>1. /\ lines' = lines
        /\ \A n \in Numbers :
             /\ invoice'[n].total = invoice[n].total
             /\ invoice'[n].status \in {invoice[n].status, "draft"}
    BY <1>2, <1>t DEF CreateDraftInvoice
  <2> QED BY <1>l, <2>1 DEF Booked
<1>3. ASSUME NEW g \in Generations, CommitInvoice(g) PROVE Booked'
  <2>1. /\ nextNumber \in Numbers /\ invoice'[nextNumber].status = "draft"
        /\ \A n \in Numbers \ {nextNumber} : invoice'[n] = invoice[n]
    BY <1>i, <1>3, CommitEffect
  <2>2. PICK new \in SUBSET Line :
          /\ IsFiniteSet(new) /\ lines' = lines \union new
          /\ \A l \in new : l.invoice = nextNumber
          /\ invoice'[nextNumber].total = TotalOf(nextNumber, new)
          /\ invoice'[nextNumber].total <= LargestTotal
    BY <1>i, <1>3, CommitTotals
  <2>3. \A l \in lines : l.invoice # nextNumber
    <3>1. ~(nextNumber < nextNumber)
      BY <2>1, BillingAssumption DEF Numbers
    <3>2. invoice[nextNumber].status = "absent"
      BY <1>i, <2>1, <3>1 DEF Numbered
    <3> QED BY <3>2 DEF Booked
  <2>4. IsFiniteSet(lines') /\ lines' \subseteq Line
    BY <2>2, FS_Union DEF Booked
  <2>5. \A l \in lines' : invoice'[l.invoice].status # "absent"
    BY <1>l, <2>1, <2>2, <2>3 DEF Booked
  <2>6. TotalOf(nextNumber, lines') = TotalOf(nextNumber, new)
    <3>1. {l \in lines' : l.invoice = nextNumber} = {l \in new : l.invoice = nextNumber}
      BY <2>2, <2>3
    <3> QED BY <3>1, TotalSame
  <2>7. ASSUME NEW n \in Numbers, n # nextNumber
        PROVE  invoice'[n].total = TotalOf(n, lines') /\ invoice'[n].total <= LargestTotal
    <3>1. {l \in lines' : l.invoice = n} = {l \in lines : l.invoice = n}
      BY <2>2, <2>7
    <3>2. TotalOf(n, lines') = TotalOf(n, lines)
      BY <3>1, TotalSame
    <3> QED BY <2>1, <2>7, <3>2 DEF Booked
  <2> QED BY <2>2, <2>4, <2>5, <2>6, <2>7 DEF Booked
<1>4. ASSUME NEW q \in LineEdits, CommitLines(q) PROVE Booked'
  <2>1. PICK n \in Numbers :
          /\ invoice[n].status = "draft"
          /\ IsFiniteSet(lines') /\ lines' \subseteq Line
          /\ invoice'[n].total = TotalOf(n, lines') /\ invoice'[n].total <= LargestTotal
          /\ \A m \in Numbers \ {n} :
               /\ {l \in lines' : l.invoice = m} = {l \in lines : l.invoice = m}
               /\ invoice'[m] = invoice[m]
          /\ \A m \in Numbers : invoice'[m].status = invoice[m].status
    BY <1>i, <1>4, CommittedLines
  <2>3. ASSUME NEW l \in lines' PROVE invoice'[l.invoice].status # "absent"
    <3>1. l.invoice \in Numbers
      BY <2>1 DEF Line
    <3>2. CASE l.invoice = n
      BY <2>1, <3>2
    <3>3. CASE l.invoice # n
      <4>1. l \in lines
        BY <2>1, <3>1, <3>3
      <4> QED BY <2>1, <3>1, <4>1 DEF Booked
    <3> QED BY <3>2, <3>3
  <2>4. ASSUME NEW m \in Numbers, m # n
        PROVE  invoice'[m].total = TotalOf(m, lines') /\ invoice'[m].total <= LargestTotal
    <3>1. {l \in lines' : l.invoice = m} = {l \in lines : l.invoice = m}
      BY <2>1, <2>4
    <3>2. TotalOf(m, lines') = TotalOf(m, lines)
      BY <3>1, TotalSame
    <3> QED BY <2>1, <2>4, <3>2 DEF Booked
  <2> QED BY <2>1, <2>3, <2>4 DEF Booked
<1>5. ASSUME NEW n \in Numbers, SendInvoice(n) PROVE Booked'
  <2>1. /\ lines' = lines
        /\ \A m \in Numbers :
             /\ invoice'[m].total = invoice[m].total
             /\ invoice'[m].status \in {invoice[m].status, "issued"}
    BY <1>5, <1>t DEF SendInvoice
  <2> QED BY <1>l, <2>1 DEF Booked
<1> QED BY <1>i, <1>1, <1>2, <1>3, <1>4, <1>5, StepKinds

\* An edit of lines takes one of its statements, or nobody touches what it holds.
LEMMA OneEdit ==
  ASSUME IInv, [Next]_vars, NEW q \in LineEdits
  PROVE  EditStep(q) \/ lineEdit'[q] = lineEdit[q]
<1>1. DOMAIN lineEdit = LineEdits
  BY DEF IInv, TypeInv, DraftShape
<1>2. ASSUME NEW r \in LineEdits, EditStep(r), r # q PROVE lineEdit'[q] = lineEdit[q]
  BY <1>1, <1>2 DEF EditStep, LockDraft, UpsertLine, RecomputeTotals, CommitLines, RollBackLines
<1> QED BY <1>2, EditKinds DEF drafting

LEMMA LinesStay ==
  ASSUME IInv, [Next]_vars, NEW q \in LineEdits, lineEdit[q].pc # "idle",
         lineEdit'[q] = lineEdit[q]
  PROVE  {l \in lines' : l.invoice = lineEdit[q].invoice}
           = {l \in lines : l.invoice = lineEdit[q].invoice}
<1> DEFINE n == lineEdit[q].invoice
<1>i. TypeInv /\ Locks /\ Drafts
  BY DEF IInv
<1>n. n # nextNumber /\ draftLock[n] = q
  BY DraftIsTaken
<1>1. ASSUME NEW g \in Generations, CommitInvoice(g)
      PROVE  {l \in lines' : l.invoice = n} = {l \in lines : l.invoice = n}
  <2>1. PICK S \in SUBSET Entries :
          lines' = lines \union
            {[id |-> t, invoice |-> nextNumber, amount |-> LineTotal(entry[t].content)] : t \in S}
    BY <1>i, <1>1, CommitEffect
  <2> QED BY <1>n, <2>1
<1>2. ASSUME NEW r \in LineEdits, CommitLines(r)
      PROVE  {l \in lines' : l.invoice = n} = {l \in lines : l.invoice = n}
  <2>1. PICK m \in Numbers :
          /\ draftLock[m] = r
          /\ \A l \in lines' : l \in lines \/ l.invoice = m
          /\ \A l \in lines : l.invoice # m => l \in lines'
    BY <1>i, <1>2, EditEffect
  <2>2. r # q
    <3>1. DOMAIN lineEdit = LineEdits
      BY <1>i DEF TypeInv, DraftShape
    <3>2. lineEdit'[r].pc = "idle"
      BY <1>2, <3>1, RowTypes DEF CommitLines
    <3> QED BY <3>2
  <2>3. m # n
    BY <1>n, <2>1, <2>2
  <2> HIDE DEF n
  <2> QED BY <2>1, <2>3
<1> HIDE DEF n
<1>3. {l \in lines' : l.invoice = n} = {l \in lines : l.invoice = n}
  BY <1>i, <1>1, <1>2, StepKinds DEF Quiet, CreateDraftInvoice, SendInvoice
<1> QED BY <1>3 DEF n

LEMMA SummedStep ==
  IInv /\ Booked /\ Summed /\ [Next]_vars => Summed'
<1> SUFFICES ASSUME IInv, Booked, Summed, [Next]_vars, NEW q \in LineEdits PROVE SummedUp(q)'
  BY DEF Summed
<1>i. TypeInv /\ Drafts
  BY DEF IInv
<1>s. SummedUp(q)
  BY DEF Summed
<1>t. PICK T : lineEdit \in [LineEdits -> LineEditOf(T)]
  BY <1>i DEF TypeInv, DraftShape
<1>r. lineEdit[q] \in LineEditOf(T)
  BY <1>t
<1>1. CASE lineEdit'[q] = lineEdit[q]
  <2>1. CASE lineEdit[q].pc # "summed"
    BY <1>1, <1>s, <2>1 DEF SummedUp
  <2>2. CASE lineEdit[q].pc = "summed"
    <3> DEFINE n == lineEdit[q].invoice
    <3>1. {l \in lines' : l.invoice = n} = {l \in lines : l.invoice = n}
      BY <1>1, <2>2, LinesStay
    <3>2. {l \in Edited(q)' : l.invoice = n} = {l \in Edited(q) : l.invoice = n}
      BY <1>1, <3>1 DEF Edited
    <3>3. TotalOf(n, Edited(q)') = TotalOf(n, Edited(q))
      BY <3>2, TotalSame
    <3> QED BY <1>1, <1>s, <3>3 DEF SummedUp
  <2> QED BY <2>1, <2>2
<1>2. ASSUME NEW n \in Numbers, NEW removed \in SUBSET {l.id : l \in LinesOf(n)},
             LockDraft(q, n, removed)
      PROVE  SummedUp(q)'
  <2> DEFINE row == [lineEdit[q] EXCEPT !.pc = "editing", !.invoice = n, !.removed = removed]
  <2>1. lineEdit'[q] = row
    BY <1>2, <1>t DEF LockDraft
  <2>2. row.pc = "editing" /\ row.written = lineEdit[q].written /\ row.total = lineEdit[q].total
    BY <1>r DEF LineEditOf
  <2> HIDE DEF row
  <2> QED BY <1>s, <2>1, <2>2 DEF SummedUp
<1>3. ASSUME NEW id \in LineIds, NEW amount \in Amounts, UpsertLine(q, id, amount)
      PROVE  SummedUp(q)'
  <2> DEFINE new == [id |-> id, invoice |-> lineEdit[q].invoice, amount |-> amount]
             others == {k \in lineEdit[q].written : k.id # id}
             row == [lineEdit[q] EXCEPT !.written = others \union {new}]
  <2>1. lineEdit'[q] = row /\ lineEdit[q].pc = "editing"
    BY <1>3, <1>t DEF UpsertLine
  <2>2. /\ row.pc = lineEdit[q].pc /\ row.written = others \union {new}
        /\ row.total = lineEdit[q].total
    BY <1>r DEF LineEditOf
  <2>3. IsFiniteSet(others)
    BY <1>s, FS_Subset DEF SummedUp
  <2> HIDE DEF row, others, new
  <2>4. IsFiniteSet(others \union {new})
    BY <2>3, FS_AddElement
  <2> QED BY <1>s, <2>1, <2>2, <2>4 DEF SummedUp
<1>4. CASE RecomputeTotals(q)
  <2> DEFINE n == lineEdit[q].invoice
             total == TotalOf(n, Edited(q))
             row == [lineEdit[q] EXCEPT !.pc = "summed", !.total = total]
  <2>1. lineEdit'[q] = row /\ lines' = lines /\ total <= LargestTotal
    BY <1>4, <1>t DEF RecomputeTotals
  <2>2. total \in Nat
    BY <1>i, EditedLines, TotalNat
  <2>3. total \in 0..LargestTotal
    BY <2>1, <2>2, BillingAssumption
  <2> HIDE DEF total
  <2>4. /\ row.pc = "summed" /\ row.total = total /\ row.invoice = n
        /\ row.written = lineEdit[q].written /\ row.removed = lineEdit[q].removed
    BY <1>r DEF LineEditOf
  <2> HIDE DEF row
  <2>5. Edited(q)' = Edited(q)
    BY <2>1, <2>4 DEF Edited
  <2> QED BY <1>s, <2>1, <2>3, <2>4, <2>5 DEF SummedUp, total
<1>5. CASE CommitLines(q) \/ RollBackLines(q)
  <2>1. lineEdit'[q] = IdleLineEdit
    BY <1>5, <1>t DEF CommitLines, RollBackLines
  <2> QED BY <2>1, FS_EmptySet, BillingAssumption DEF SummedUp, IdleLineEdit
<1> QED BY <1>1, <1>2, <1>3, <1>4, <1>5, OneEdit DEF EditStep

LEMMA AlwaysBooked ==
  ASSUME IsFiniteSet(Entries)
  PROVE  Spec => [](IInv /\ Booked /\ Summed)
<1>1. IInv /\ Booked /\ Summed /\ [Next]_vars => Booked' /\ Summed'
  BY BookedStep, SummedStep
<1> QED BY <1>1, InitBooked, AlwaysIInv, PTL DEF Spec

\* Whichever of generation and line edits came last, an invoice's total is the
\* sum of its lines.
THEOREM TotalsAlwaysMatchLines ==
  ASSUME IsFiniteSet(Entries)
  PROVE  Spec => []TotalsMatchLines
<1>1. Booked => TotalsMatchLines
  BY DEF Booked, TotalsMatchLines
<1> QED BY <1>1, AlwaysBooked, PTL

\* Every row keeps to its columns: no total that is stored exceeds an int64.
THEOREM TypeCorrect ==
  ASSUME IsFiniteSet(Entries)
  PROVE  Spec => []TypeOK
<1>1. IInv /\ Booked /\ Summed => TypeOK
  <2> SUFFICES ASSUME IInv, Booked, Summed PROVE TypeOK
    OBVIOUS
  <2>1. PICK T : invoice \in [Numbers -> [status : InvoiceStatus, total : T]]
    BY DEF IInv, TypeInv, InvoiceShape
  <2>2. ASSUME NEW n \in Numbers PROVE invoice[n] \in InvoiceRow
    <3>1. invoice[n].total \in Nat
      BY TotalNat DEF Booked
    <3>2. invoice[n].total \in 0..LargestTotal
      BY <3>1, BillingAssumption DEF Booked
    <3> QED BY <2>1, <3>2 DEF InvoiceRow, InvoiceStatus
  <2>3. invoice \in [Numbers -> InvoiceRow]
    BY <2>1, <2>2
  <2>4. lineEdit \in [LineEdits -> LineEdit]
    <3>1. PICK E : lineEdit \in [LineEdits -> LineEditOf(E)]
      BY DEF IInv, TypeInv, DraftShape
    <3>2. \A q \in LineEdits : lineEdit[q] \in LineEditOf(E) /\ lineEdit[q].total \in 0..LargestTotal
      BY <3>1 DEF Summed, SummedUp
    <3>3. \A q \in LineEdits : lineEdit[q] \in LineEdit
      BY <3>2 DEF LineEditOf, LineEdit
    <3> QED BY <3>1, <3>3
  <2> QED BY <2>3, <2>4 DEF IInv, TypeInv, DraftShape, Booked, TypeOK
<1> QED BY <1>1, AlwaysBooked, PTL
-----------------------------------------------------------------------------
(***************************************************************************)
(* Amounts.                                                                *)
(***************************************************************************)
\* billed minor units are worth in sixtieths, give or take half a unit for each of
\* some lines.
WithinHalves(billed, worth, count) ==
  60 * billed <= worth + 30 * count /\ worth <= 60 * billed + 30 * count

LEMMA LineTotalRounds ==
  ASSUME NEW content \in Content
  PROVE  WithinHalves(LineTotal(content), content.minutes * content.rate, 1)
<1> DEFINE worth == content.minutes * content.rate
<1>1. worth \in Nat
  <2>1. content.minutes \in Nat /\ content.rate \in Nat
    BY BillingAssumption DEF Content
  <2>2. \A m, r \in Nat : m * r \in Nat
    OBVIOUS
  <2> QED BY <2>1, <2>2
<1>2. LineTotal(content) = (worth + 30) \div 60
  BY DEF LineTotal
<1> HIDE DEF worth
<1>3. 60 * ((worth + 30) \div 60) <= worth + 30 /\ worth + 30 < 60 * ((worth + 30) \div 60) + 60
  BY <1>1
<1>4. (worth + 30) \div 60 \in Int
  BY <1>1
<1>5. WithinHalves((worth + 30) \div 60, worth, 1)
  BY <1>1, <1>3, <1>4 DEF WithinHalves
<1> QED BY <1>2, <1>5 DEF worth

\* However the hours are cut into entries, an invoice differs from what they are
\* worth by half a minor unit per entry at most: the rounding of each line total in
\* generateInvoiceFromApprovedEntriesTx adds up to no more.
THEOREM SubtotalRounds ==
  ASSUME NEW rows, IsFiniteSet(DOMAIN rows), \A t \in DOMAIN rows : rows[t] \in Content
  PROVE  WithinHalves(Subtotal(rows),
           SumFunction([t \in DOMAIN rows |-> rows[t].minutes * rows[t].rate]),
           Cardinality(DOMAIN rows))
<1> DEFINE S == DOMAIN rows
           f == [t \in S |-> LineTotal(rows[t])]
           g == [t \in S |-> rows[t].minutes * rows[t].rate]
           F == {T \in SUBSET S : WithinHalves(SumFunctionOnSet(f, T), SumFunctionOnSet(g, T),
                                               Cardinality(T))}
<1>0. IsFiniteSet(S) /\ DOMAIN f = S /\ DOMAIN g = S
  OBVIOUS
<1>1. \A t \in S : f[t] \in Int /\ g[t] \in Int /\ WithinHalves(f[t], g[t], 1)
  <2> SUFFICES ASSUME NEW t \in S
               PROVE  f[t] \in Int /\ g[t] \in Int /\ WithinHalves(f[t], g[t], 1)
    OBVIOUS
  <2>1. rows[t].minutes \in Nat /\ rows[t].rate \in Nat
    BY BillingAssumption DEF Content
  <2>2. \A m, r \in Nat : m * r \in Int
    OBVIOUS
  <2>3. LineTotal(rows[t]) \in Int
    BY LineTotalNat
  <2> QED BY <2>1, <2>2, <2>3, LineTotalRounds
<1>2. Subtotal(rows) = SumFunctionOnSet(f, S) /\ SumFunction(g) = SumFunctionOnSet(g, S)
  BY DEF Subtotal, SumFunction
<1> HIDE DEF S, f, g
<1>3. {} \in F
  BY SumEmpty, FS_EmptySet DEF WithinHalves
<1>4. ASSUME NEW T \in SUBSET S, T # {}, \A U \in SUBSET T : U # T => U \in F
      PROVE  T \in F
  <2>1. PICK y \in T : TRUE
    BY <1>4
  <2> DEFINE U == T \ {y}
  <2>2. /\ IsFiniteSet(T) /\ IsFiniteSet(U) /\ y \notin U /\ T = U \cup {y}
        /\ U \in SUBSET T /\ U # T
    BY <1>0, FS_Subset
  <2>3. /\ SumFunctionOnSet(f, T) = f[y] + SumFunctionOnSet(f, U)
        /\ SumFunctionOnSet(g, T) = g[y] + SumFunctionOnSet(g, U)
    BY <1>1, <2>2, SumElement
  <2>4. Cardinality(T) = Cardinality(U) + 1 /\ Cardinality(U) \in Nat
    BY <2>2, FS_AddElement, FS_CardinalityType
  <2>5. WithinHalves(SumFunctionOnSet(f, U), SumFunctionOnSet(g, U), Cardinality(U))
    BY <1>4, <2>2
  <2>6. SumFunctionOnSet(f, U) \in Int /\ SumFunctionOnSet(g, U) \in Int
    BY <1>1, <2>2, SumType
  <2>7. f[y] \in Int /\ g[y] \in Int /\ WithinHalves(f[y], g[y], 1)
    BY <1>1
  <2> HIDE DEF U
  <2>8. WithinHalves(SumFunctionOnSet(f, T), SumFunctionOnSet(g, T), Cardinality(T))
    BY <2>3, <2>4, <2>5, <2>6, <2>7 DEF WithinHalves
  <2> QED BY <2>8
<1> HIDE DEF F
<1>5. F \in SUBSET (SUBSET S)
  BY DEF F
<1>6. S \in F
  BY <1>0, <1>3, <1>4, <1>5, SubsetInduction
<1> QED BY <1>2, <1>6 DEF F, S, g

\* generateInvoiceFromApprovedEntriesTx adds the lines one after the other and
\* fails at the first sum that exceeds an int64.  In whichever order it meets them,
\* no sum on the way does if the last does not, so Fits need only look at the last.
THEOREM SumsOnTheWayFit ==
  ASSUME NEW rows, IsFiniteSet(DOMAIN rows), \A t \in DOMAIN rows : rows[t] \in Content,
         Fits(rows), NEW T \in SUBSET DOMAIN rows
  PROVE  SumFunctionOnSet([t \in DOMAIN rows |-> LineTotal(rows[t])], T) \in 0..LargestTotal
<1> DEFINE S == DOMAIN rows
           f == [t \in S |-> LineTotal(rows[t])]
<1>1. \A t \in S : f[t] \in Nat
  BY LineTotalNat
<1>2. IsFiniteSet(S) /\ IsFiniteSet(T) /\ T \in SUBSET S
  BY FS_Subset
<1>3. SumFunctionOnSet(f, S) <= LargestTotal
  BY DEF Fits, Subtotal, SumFunction
<1> HIDE DEF f, S
<1>4. SumFunctionOnSet(f, T) <= SumFunctionOnSet(f, S)
  BY <1>1, <1>2, SumOfSubset
<1>5. SumFunctionOnSet(f, T) \in Nat /\ SumFunctionOnSet(f, S) \in Nat
  BY <1>1, <1>2, SumNat
<1>6. SumFunctionOnSet(f, T) \in 0..LargestTotal
  BY <1>3, <1>4, <1>5, BillingAssumption
<1> QED BY <1>6 DEF f, S
-----------------------------------------------------------------------------
(***************************************************************************)
(* The events of an entry.                                                 *)
(***************************************************************************)

\* Where some events lead, and that each starts where the one before ended.
Reached(h) == IF Len(h) = 0 THEN "draft" ELSE h[Len(h)].to

Linked(h) ==
  \A k \in 1..Len(h) : h[k].from = IF k = 1 THEN "draft" ELSE h[k - 1].to

Explains(h, status) ==
  /\ Linked(h)
  /\ status = "absent" => h = <<>>
  /\ status = "invoiced" => Reached(h) = "approved"
  /\ status \notin {"absent", "invoiced"} => Reached(h) = status

Explained == \A t \in Entries : Explains(events[t], entry[t].status)

LEMMA LinkedAppend ==
  ASSUME NEW h \in Seq(Event), NEW e \in Event, Linked(h), e.from = Reached(h)
  PROVE  Linked(Append(h, e)) /\ Reached(Append(h, e)) = e.to
<1> DEFINE g == Append(h, e)
<1>1. Len(g) = Len(h) + 1 /\ Len(h) \in Nat /\ g[Len(h) + 1] = e
  OBVIOUS
<1>2. \A k \in 1..Len(h) : g[k] = h[k]
  OBVIOUS
<1> HIDE DEF g
<1>3. Reached(g) = e.to
  BY <1>1 DEF Reached
<1>4. ASSUME NEW k \in 1..Len(g) PROVE g[k].from = IF k = 1 THEN "draft" ELSE g[k - 1].to
  <2>1. CASE k \in 1..Len(h)
    <3>1. k # 1 => k - 1 \in 1..Len(h)
      BY <1>1, <2>1
    <3> QED BY <1>2, <2>1, <3>1 DEF Linked
  <2>2. CASE k = Len(h) + 1
    <3>1. CASE Len(h) = 0
      BY <1>1, <2>2, <3>1 DEF Reached
    <3>2. CASE Len(h) # 0
      <4>1. k # 1 /\ k - 1 = Len(h) /\ k - 1 \in 1..Len(h)
        BY <1>1, <2>2, <3>2
      <4>2. g[k - 1] = h[Len(h)]
        BY <1>2, <4>1
      <4> QED BY <1>1, <2>2, <3>2, <4>1, <4>2 DEF Reached
    <3> QED BY <3>1, <3>2
  <2> QED BY <1>1, <2>1, <2>2
<1> QED BY <1>3, <1>4 DEF Linked, g

LEMMA ExplainedStep == TypeInv /\ Locks /\ Explained /\ [Next]_vars => Explained'
<1> SUFFICES ASSUME TypeInv, Locks, Explained, [Next]_vars PROVE Explained'
  OBVIOUS
<1>e. /\ DOMAIN entry = Entries /\ DOMAIN events = Entries
      /\ \A t \in Entries : events[t] \in Seq(Event)
      /\ \A p \in Edits : edit[p].pc # "idle" => edit[p].entry \in Entries
  BY DEF TypeInv
<1>1. ASSUME NEW t \in Entries, NEW c \in Content, CreateTimeEntry(t, c) PROVE Explained'
  <2>1. \A u \in Entries : entry'[u].status = entry[u].status \/ u = t
    BY <1>1, <1>e DEF CreateTimeEntry
  <2>2. entry'[t].status = "draft" /\ events[t] = <<>>
    BY <1>1 DEF CreateTimeEntry, TypeInv, EntryRow, Explained, Explains
  <2>3. Explains(<<>>, "draft")
    BY DEF Explains, Linked, Reached
  <2> QED BY <1>1, <2>1, <2>2, <2>3 DEF CreateTimeEntry, Explained
<1>2. ASSUME NEW t \in Entries, NEW from \in {"draft", "submitted"},
             NEW to \in {"draft", "submitted", "approved"}, Move(t, from, to)
      PROVE  Explained'
  <2> DEFINE e == [from |-> from, to |-> to]
  <2>1. /\ events'[t] = Append(events[t], e) /\ entry'[t].status = to
        /\ \A u \in Entries \ {t} : events'[u] = events[u] /\ entry'[u] = entry[u]
    BY <1>2, <1>e DEF Move, TypeInv, EntryRow
  <2>2. Linked(events[t]) /\ Reached(events[t]) = from
    BY <1>2 DEF Move, Explained, Explains
  <2>3. e \in Event /\ e.from = from /\ e.to = to
    BY DEF Event
  <2> HIDE DEF e
  <2>4. Linked(events'[t]) /\ Reached(events'[t]) = to
    BY <1>e, <2>1, <2>2, <2>3, LinkedAppend
  <2>5. Explains(events'[t], entry'[t].status)
    BY <2>1, <2>4 DEF Explains
  <2> QED BY <2>1, <2>5 DEF Explained
<1>3. ASSUME NEW p \in Edits, WriteEntry(p) PROVE Explained'
  <2>1. \A u \in Entries : entry'[u].status = entry[u].status
    BY <1>3, <1>e DEF WriteEntry, TypeInv, EntryRow
  <2> QED BY <1>3, <2>1 DEF WriteEntry, Explained
<1>4. ASSUME NEW g \in Generations, CommitInvoice(g) PROVE Explained'
  <2>1. PICK S \in SUBSET Entries :
          /\ \A u \in S : Eligible(u) /\ entry'[u].status = "invoiced"
          /\ \A u \in Entries \ S : entry'[u] = entry[u]
          /\ events' = events
    BY <1>4, CommitEffect
  <2> QED BY <2>1 DEF Eligible, Explained, Explains
<1>5. ASSUME entry' = entry, events' = events PROVE Explained'
  BY <1>5 DEF Explained
<1> QED
  BY <1>1, <1>2, <1>3, <1>4, <1>5
  DEF Next, SubmitTimeEntry, ApproveTimeEntry, RejectTimeEntry, CheckEdit, LoadEntry, AbandonEdit,
      CreateDraftInvoice, AllocateNextInvoiceNumber, SelectEntries, RollBack,
      LockDraft, UpsertLine, RecomputeTotals, CommitLines, RollBackLines, SendInvoice, vars

LEMMA StoryOf ==
  ASSUME NEW h \in Seq(Event)
  PROVE  LET story == <<"draft">> \o [k \in 1..Len(h) |-> h[k].to]
         IN  /\ Len(story) = Len(h) + 1
             /\ \A k \in 1..Len(h) : story[k] = IF k = 1 THEN "draft" ELSE h[k - 1].to
             /\ story[Len(h) + 1] = Reached(h)
<1> DEFINE tos == [k \in 1..Len(h) |-> h[k].to]
           story == <<"draft">> \o tos
<1>1. tos \in Seq({"draft", "submitted", "approved"}) /\ Len(tos) = Len(h) /\ Len(h) \in Nat
  <2>1. Len(h) \in Nat
    OBVIOUS
  <2>2. \A k \in 1..Len(h) : h[k].to \in {"draft", "submitted", "approved"}
    <3>1. \A k \in 1..Len(h) : h[k] \in Event
      OBVIOUS
    <3> QED BY <3>1 DEF Event
  <2>3. tos \in [1..Len(h) -> {"draft", "submitted", "approved"}]
    BY <2>2
  <2> HIDE DEF tos
  <2> QED BY <2>1, <2>3
<1>2. \A k \in 1..Len(h) : tos[k] = h[k].to
  OBVIOUS
<1> HIDE DEF tos
<1>3. Len(story) = Len(h) + 1
  BY <1>1
<1>4. story[1] = "draft" /\ \A k \in 2..(Len(h) + 1) : story[k] = tos[k - 1]
  BY <1>1
<1> HIDE DEF story
<1>5. \A k \in 1..Len(h) : story[k] = IF k = 1 THEN "draft" ELSE h[k - 1].to
  BY <1>1, <1>2, <1>4
<1>6. story[Len(h) + 1] = Reached(h)
  BY <1>1, <1>2, <1>4 DEF Reached
<1> QED BY <1>3, <1>5, <1>6 DEF story, tos

\* The log of an entry tells its story without a hole.
THEOREM EventsExplain == Spec => []EventsExplainStatus
<1>1. Init => Explained
  BY DEF Init, Explained, Explains, Linked, Reached
<1>2. IInv /\ Explained /\ [Next]_vars => Explained'
  BY ExplainedStep DEF IInv
<1>3. IInv /\ Explained => EventsExplainStatus
  <2> SUFFICES ASSUME IInv, Explained, NEW t \in Entries
               PROVE  LET h == events[t]
                          story == <<"draft">> \o [k \in 1..Len(h) |-> h[k].to]
                          reached == story[Len(story)]
                      IN
                      /\ \A k \in 1..Len(h) : h[k].from = story[k]
                      /\ entry[t].status = "absent" => h = <<>>
                      /\ entry[t].status = "invoiced" => reached = "approved"
                      /\ entry[t].status \notin {"absent", "invoiced"} => reached = entry[t].status
    BY DEF EventsExplainStatus
  <2> DEFINE story == <<"draft">> \o [k \in 1..Len(events[t]) |-> events[t][k].to]
  <2>1. events[t] \in Seq(Event)
    BY DEF IInv, TypeInv
  <2>2. /\ Len(story) = Len(events[t]) + 1
        /\ \A k \in 1..Len(events[t]) :
             story[k] = IF k = 1 THEN "draft" ELSE events[t][k - 1].to
        /\ story[Len(events[t]) + 1] = Reached(events[t])
    BY <2>1, StoryOf
  <2> HIDE DEF story
  <2>3. \A k \in 1..Len(events[t]) : events[t][k].from = story[k]
    BY <2>2 DEF Explained, Explains, Linked
  <2>4. /\ entry[t].status = "absent" => events[t] = <<>>
        /\ entry[t].status = "invoiced" => story[Len(story)] = "approved"
        /\ entry[t].status \notin {"absent", "invoiced"} => story[Len(story)] = entry[t].status
    BY <2>2 DEF Explained, Explains
  <2> QED BY <2>3, <2>4 DEF story
<1> QED BY <1>1, <1>2, <1>3, AlwaysIInv, PTL DEF Spec
=============================================================================
