----------------------------- MODULE Invoicing -----------------------------
(***************************************************************************)
(* Invoices, their lines and the time entries they bill, as the requests   *)
(* of one user act on them: invoices.service.ts on top of                  *)
(* prisma8-invoice.repository.ts, the entry writes of                      *)
(* prisma8-time-entry.repository.ts and the administrator's writes of      *)
(* prisma8-admin.repository.ts.                                            *)
(*                                                                         *)
(* Every await of a repository call is a point where another request may   *)
(* run, so a handler that reads, decides and then writes is two actions:   *)
(* the read leaves in req what the handler remembers, the write uses that  *)
(* memory.  A database transaction takes effect at its commit (READ        *)
(* COMMITTED: nobody sees a part of it), so its writes are one action.     *)
(*                                                                         *)
(* One user and one project: the queries select by owner and touch no      *)
(* other rows.  Lines without a time entry carry only amounts and are left *)
(* out, so items holds the lines that bill an entry.  An id that no row    *)
(* and no request in flight names stands for a new serial number.          *)
(***************************************************************************)
EXTENDS Integers

CONSTANTS
    Requests,   \* request slots: how many handlers may be in flight at once
    Entries,    \* ids of time entries
    Invoices,   \* ids of invoices
    Items,      \* ids of invoice lines
    MaxNumber,  \* bound: the highest invoice number of the year that is used
    None        \* no row, no id

ASSUME BoundAssumption == MaxNumber \in Nat

VARIABLES
    entries,    \* the time entries that exist
    billable,   \* those of them whose billable flag is set
    invoiced,   \* those of them whose invoicingStatus is INVOICED
    invoice,    \* the invoice rows
    items,      \* the invoice lines that bill a time entry
    req         \* what each handler in flight remembers

vars == <<entries, billable, invoiced, invoice, items, req>>
entryVars == <<entries, billable, invoiced>>

Status == {"DRAFT", "SENT", "PAID", "OVERDUE", "CANCELLED"}

\* Mutants: slips in the table below.
ALLOWED_PaidFromDraft ==
    [ DRAFT |-> {"SENT", "PAID", "CANCELLED"}, SENT |-> {"PAID", "OVERDUE"},
      PAID |-> {}, OVERDUE |-> {"PAID"}, CANCELLED |-> {} ]

ALLOWED_BackToDraft ==
    [ DRAFT |-> {"SENT", "CANCELLED"}, SENT |-> {"DRAFT", "PAID", "OVERDUE"},
      PAID |-> {}, OVERDUE |-> {"PAID"}, CANCELLED |-> {} ]

ALLOWED ==
    [ DRAFT     |-> {"SENT", "CANCELLED"},
      SENT      |-> {"PAID", "OVERDUE"},
      PAID      |-> {},
      OVERDUE   |-> {"PAID"},
      CANCELLED |-> {} ]

\* issuedAt and paidAt are dates in the code: here, whether they are set.
InvoiceRow == [number : 0..MaxNumber, status : Status,
               issuedAt : BOOLEAN, paidAt : BOOLEAN]

ASSUME NoneAssumption == None \notin Invoices \cup Items \cup InvoiceRow

ItemRow == [id : Items, invoice : Invoices, entry : Entries]

Op == {"idle", "numbered", "generate", "update", "delete", "addItem", "removeItem"}

Request == [op      : Op,
            number  : 0..MaxNumber,           \* from nextNumber
            inv     : Invoices \cup {None},   \* the invoice that was read
            to      : Status,                 \* the status asked for
            item    : Items \cup {None},      \* the line that was read
            entries : SUBSET Entries]         \* the entries the write will touch

Memory(op, number, inv, to, item, es) ==
    [op |-> op, number |-> number, inv |-> inv, to |-> to, item |-> item,
     entries |-> es]

Idle == Memory("idle", 0, None, "DRAFT", None, {})

TypeOK ==
    /\ entries \subseteq Entries
    /\ billable \subseteq entries
    /\ invoiced \subseteq entries
    /\ invoice \in [Invoices -> InvoiceRow \cup {None}]
    /\ items \subseteq ItemRow
    /\ req \in [Requests -> Request]

Init ==
    /\ entries = {}
    /\ billable = {}
    /\ invoiced = {}
    /\ invoice = [i \in Invoices |-> None]
    /\ items = {}
    /\ req = [r \in Requests |-> Idle]

-----------------------------------------------------------------------------
(* Reading the tables *)

Existing == {i \in Invoices : invoice[i] # None}

ItemsOf(i) == {l \in items : l.invoice = i}

EntriesOf(lines) == {l.entry : l \in lines}

\* The ids a create may hand out: named by no row and no handler.
FreshInvoices == {i \in Invoices \ Existing : \A r \in Requests : req[r].inv # i}

FreshItems == {x \in Items : /\ \A l \in items : l.id # x
                             /\ \A r \in Requests : req[r].item # x}

\* The unique index on (userId, number).
NumberTaken(n) == \E i \in Existing : invoice[i].number = n

Remember(r, memory) == req' = [req EXCEPT ![r] = memory]

Finish(r) == Remember(r, Idle)

-----------------------------------------------------------------------------
(* Creating and generating invoices *)

\* Highest number of the year plus one: never a number that a row still holds,
\* whichever drafts were deleted.
IsNextNumber(n) ==
    /\ n = 1 \/ NumberTaken(n - 1)
    /\ \A m \in n..MaxNumber : ~NumberTaken(m)

NextNumber(r) ==
    /\ req[r].op = "idle"
    /\ \E n \in 1..MaxNumber :
         /\ IsNextNumber(n)
         /\ Remember(r, Memory("numbered", n, None, "DRAFT", None, {}))
    /\ UNCHANGED <<entryVars, invoice, items>>

\* The insert fails on the unique index when the number was taken meanwhile.
InsertInvoice(i, n) ==
    /\ ~NumberTaken(n)
    /\ invoice' = [invoice EXCEPT ![i] = [number |-> n, status |-> "DRAFT",
                                          issuedAt |-> FALSE, paidAt |-> FALSE]]

CreateInvoice(r) ==
    /\ req[r].op = "numbered"
    /\ \E i \in FreshInvoices : InsertInvoice(i, req[r].number)
    /\ Finish(r)
    /\ UNCHANGED <<entryVars, items>>

\* hourly: the project has an hourly rate; flat: it has a fixed fee or a
\* word-count price, which makes a line of its own.
CollectLines(r) ==
    /\ req[r].op = "numbered"
    /\ \E hourly, flat \in BOOLEAN :
         LET consumed == IF hourly THEN billable \ invoiced ELSE {}
         IN  /\ flat \/ consumed # {}
             /\ Remember(r, Memory("generate", req[r].number, None, "DRAFT", None, consumed))
    /\ UNCHANGED <<entryVars, invoice, items>>

\* A line on a deleted entry breaks its foreign key and rolls all of it back.
CommitGenerate(r) ==
    /\ req[r].op = "generate"
    /\ req[r].entries \subseteq entries
    /\ \E i \in FreshInvoices :
         /\ InsertInvoice(i, req[r].number)
         /\ \E idOf \in [req[r].entries -> FreshItems] :
              /\ \A d, e \in req[r].entries : idOf[d] = idOf[e] => d = e
              /\ items' = items \cup {[id |-> idOf[e], invoice |-> i, entry |-> e] :
                                        e \in req[r].entries}
    /\ invoiced' = invoiced \cup req[r].entries
    /\ Finish(r)
    /\ UNCHANGED <<entries, billable>>

-----------------------------------------------------------------------------
(* Changing the status of an invoice *)

\* Mutant: the table is not consulted.
CheckTransition_Any(r) ==
    /\ req[r].op = "idle"
    /\ \E i \in Existing, to \in Status :
         Remember(r, Memory("update", 0, i, to, None, {}))
    /\ UNCHANGED <<entryVars, invoice, items>>

CheckTransition(r) ==
    /\ req[r].op = "idle"
    /\ \E i \in Existing : \E to \in ALLOWED[invoice[i].status] :
         Remember(r, Memory("update", 0, i, to, None, {}))
    /\ UNCHANGED <<entryVars, invoice, items>>

\* The write names the invoice by id alone.  An update without a status, and a
\* payment date the caller gives, change nothing a property reads.
WriteStatus(r) ==
    LET i == req[r].inv
        to == req[r].to
    IN  /\ req[r].op = "update"
        /\ i \in Existing
        /\ invoice' = [invoice EXCEPT ![i] =
                [number   |-> @.number,
                 status   |-> to,
                 issuedAt |-> @.issuedAt \/ to = "SENT",
                 paidAt   |-> @.paidAt \/ to = "PAID"]]
        /\ Finish(r)
        /\ UNCHANGED <<entryVars, items>>

\* The administrator's editor sets any status and no date.
AdminUpdateInvoice(i, status) ==
    /\ i \in Existing
    /\ invoice' = [invoice EXCEPT ![i].status = status]
    /\ UNCHANGED <<entryVars, items, req>>

-----------------------------------------------------------------------------
(* Deleting an invoice, adding and removing lines *)

\* Mutant: the entries stay INVOICED.
Release_Forgotten(released) == released = released /\ UNCHANGED invoiced

\* releaseTimeEntries8: an update by id, whatever the entries' state is now.
Release(released) == invoiced' = invoiced \ released

\* Mutant: any status may be deleted.
CheckDeletable_Any(r) ==
    /\ req[r].op = "idle"
    /\ \E i \in Existing :
         Remember(r, Memory("delete", 0, i, "DRAFT", None, EntriesOf(ItemsOf(i))))
    /\ UNCHANGED <<entryVars, invoice, items>>

CheckDeletable(r) ==
    /\ req[r].op = "idle"
    /\ \E i \in Existing :
         /\ invoice[i].status = "DRAFT"
         /\ Remember(r, Memory("delete", 0, i, "DRAFT", None, EntriesOf(ItemsOf(i))))
    /\ UNCHANGED <<entryVars, invoice, items>>

\* Deletes the row as it is now, its lines with it, and releases the entries
\* of the lines that were read; a row that is gone is not an error.
CommitDelete(r) ==
    /\ req[r].op = "delete"
    /\ invoice' = [invoice EXCEPT ![req[r].inv] = None]
    /\ items' = items \ ItemsOf(req[r].inv)
    /\ Release(req[r].entries)
    /\ Finish(r)
    /\ UNCHANGED <<entries, billable>>

\* The invoice and the entry are read; only the entry's state is tested.
CheckInvoiceable(r) ==
    /\ req[r].op = "idle"
    /\ \E i \in Existing, e \in billable \ invoiced :
         Remember(r, Memory("addItem", 0, i, "DRAFT", None, {e}))
    /\ UNCHANGED <<entryVars, invoice, items>>

\* Mutant: the entry may be gone.
CommitAddItem_Dangling(r) ==
    /\ req[r].op = "addItem"
    /\ req[r].inv \in Existing
    /\ invoiced' = invoiced \cup req[r].entries
    /\ \E x \in FreshItems, e \in req[r].entries :
         items' = items \cup {[id |-> x, invoice |-> req[r].inv, entry |-> e]}
    /\ Finish(r)
    /\ UNCHANGED <<entries, billable, invoice>>

\* The foreign keys of the new line need the invoice and the entry to exist.
CommitAddItem(r) ==
    /\ req[r].op = "addItem"
    /\ req[r].inv \in Existing
    /\ req[r].entries \subseteq entries
    /\ invoiced' = invoiced \cup req[r].entries
    /\ \E x \in FreshItems, e \in req[r].entries :
         items' = items \cup {[id |-> x, invoice |-> req[r].inv, entry |-> e]}
    /\ Finish(r)
    /\ UNCHANGED <<entries, billable, invoice>>

OwnItem(r) ==
    /\ req[r].op = "idle"
    /\ \E l \in items :
         Remember(r, Memory("removeItem", 0, None, "DRAFT", l.id, {l.entry}))
    /\ UNCHANGED <<entryVars, invoice, items>>

CommitRemoveItem(r) ==
    /\ req[r].op = "removeItem"
    /\ items' = {l \in items : l.id # req[r].item}
    /\ Release(req[r].entries)
    /\ Finish(r)
    /\ UNCHANGED <<entries, billable, invoice>>

\* Any error between the two halves of a handler (a broken constraint, a lost
\* connection, a deadlock the database resolves): nothing was written.
Abort(r) ==
    /\ req[r].op # "idle"
    /\ Finish(r)
    /\ UNCHANGED <<entryVars, invoice, items>>

-----------------------------------------------------------------------------
(* Time entries *)

CreateEntry(e, isBillable) ==
    /\ e \notin entries
    /\ \A r \in Requests : e \notin req[r].entries
    /\ entries' = entries \cup {e}
    /\ billable' = IF isBillable THEN billable \cup {e} ELSE billable
    /\ UNCHANGED <<invoiced, invoice, items, req>>

SetBillable(e, isBillable) ==
    /\ e \in entries
    /\ billable' = IF isBillable THEN billable \cup {e} ELSE billable \ {e}
    /\ UNCHANGED <<entries, invoiced, invoice, items, req>>

\* onDelete: SetNull on InvoiceItem.timeEntryId: the line no longer bills it.
DeleteEntry(e) ==
    /\ e \in entries
    /\ entries' = entries \ {e}
    /\ billable' = billable \ {e}
    /\ invoiced' = invoiced \ {e}
    /\ items' = {l \in items : l.entry # e}
    /\ UNCHANGED <<invoice, req>>

-----------------------------------------------------------------------------

RequestStep(r) ==
    \/ NextNumber(r) \/ CreateInvoice(r) \/ CollectLines(r) \/ CommitGenerate(r)
    \/ CheckTransition(r) \/ WriteStatus(r)
    \/ CheckDeletable(r) \/ CommitDelete(r)
    \/ CheckInvoiceable(r) \/ CommitAddItem(r)
    \/ OwnItem(r) \/ CommitRemoveItem(r)
    \/ Abort(r)

EntryStep(e) ==
    \/ \E b \in BOOLEAN : CreateEntry(e, b) \/ SetBillable(e, b)
    \/ DeleteEntry(e)

\* What the user's own requests do.
UserNext ==
    \/ \E r \in Requests : RequestStep(r)
    \/ \E e \in Entries : EntryStep(e)

UserSpec == Init /\ [][UserNext]_vars

Next ==
    \/ UserNext
    \/ \E i \in Invoices, s \in Status : AdminUpdateInvoice(i, s)

Spec == Init /\ [][Next]_vars

-----------------------------------------------------------------------------
(* When handlers get in each other's way *)

\* Two handlers hold the same entry, or the same invoice where one deletes it
\* or both change its status.
Conflict(a, b) ==
    \/ a.entries \cap b.entries # {}
    \/ /\ a.inv # None
       /\ a.inv = b.inv
       /\ \/ a.op = "delete" \/ b.op = "delete"
          \/ a.op = "update" /\ b.op = "update"

NoContention ==
    \A r, s \in Requests : r # s => ~Conflict(req[r], req[s])

\* Nobody edits the invoice whose status a handler has read.
Undisturbed ==
    \A r \in Requests :
        (req[r].op \in {"update", "delete"} /\ req'[r] = req[r])
            => invoice'[req[r].inv] = invoice[req[r].inv]

\* Handlers in flight together, but never about the same rows.
DisjointNext == Next /\ NoContention' /\ Undisturbed

DisjointSpec == Init /\ [][DisjointNext]_vars

-----------------------------------------------------------------------------
(* Properties *)

\* An entry is marked INVOICED exactly while one line bills it, and no entry
\* is ever on two lines: no hour is billed twice and none is lost to billing.
\* generate, addItem, removeItem, delete and the deletion of an entry each
\* change both sides.  Holds while no two handlers contend for the same rows.
Ledger ==
    /\ invoiced = EntriesOf(items)
    /\ \A l, m \in items : l.entry = m.entry => l = m

\* The second half alone, for handlers that do contend: the test of the
\* repository refuses an entry that is already invoiced, but the read and the
\* write of two handlers can interleave.
BilledOnce == \A l, m \in items : l.entry = m.entry => l = m

\* The status of an invoice changes along ALLOWED only, except at the
\* administrator's hand (update in prisma8-invoice.repository.ts).
TransitionsFollowMap ==
    [][ \/ \E i \in Invoices, s \in Status : AdminUpdateInvoice(i, s)
        \/ \A i \in Existing :
             invoice'[i] # None =>
                 \/ invoice'[i].status = invoice[i].status
                 \/ invoice'[i].status \in ALLOWED[invoice[i].status] ]_vars

\* Only a draft disappears: an invoice that was sent keeps its row and number.
OnlyDraftsDeleted ==
    [][\A i \in Existing : invoice'[i] = None => invoice[i].status = "DRAFT"]_vars

\* However the handlers interleave, an invoice is PAID or OVERDUE only after
\* it was sent, and the dates of the states it went through are set: a stale
\* status can be overtaken, but it cannot skip the sending.
IssuedBeforePaid ==
    \A i \in Existing :
        /\ invoice[i].status \in {"SENT", "PAID", "OVERDUE"} => invoice[i].issuedAt
        /\ invoice[i].status = "PAID" => invoice[i].paidAt

\* However the handlers interleave, nothing returns to DRAFT, so that an
\* invoice once sent can never again pass the deletion check.
NeverDraftAgain ==
    [][\A i \in Existing :
        (invoice'[i] # None /\ invoice'[i].status = "DRAFT")
            => invoice[i].status = "DRAFT"]_vars

=============================================================================
