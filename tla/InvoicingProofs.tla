-------------------------- MODULE InvoicingProofs --------------------------
(***************************************************************************)
(* What holds of Invoicing for every number of handlers, entries, invoices *)
(* and lines.                                                              *)
(***************************************************************************)
EXTENDS Invoicing, TLAPS

(* A handler's memory is well formed when its fields are. *)
LEMMA MemoryType ==
  ASSUME NEW op \in Op, NEW n \in 0..MaxNumber, NEW inv \in Invoices \cup {None},
         NEW to \in Status, NEW item \in Items \cup {None}, NEW es \in SUBSET Entries
  PROVE  Memory(op, n, inv, to, item, es) \in Request
  BY DEF Memory, Request

(* A handler that has finished remembers nothing. *)
LEMMA IdleType == Idle \in Request
<1>1. /\ "idle" \in Op /\ 0 \in 0..MaxNumber /\ "DRAFT" \in Status
  BY BoundAssumption DEF Op, Status
<1> QED
  BY <1>1, MemoryType DEF Idle

(* Storing a well-formed memory for one handler keeps all of them so. *)
LEMMA RememberType ==
  ASSUME req \in [Requests -> Request], NEW r \in Requests,
         NEW q \in Request, Remember(r, q)
  PROVE  req' \in [Requests -> Request]
  BY DEF Remember

(* Every variable keeps its type, whatever the handlers do: in particular
   only existing entries are billable or invoiced. *)
LEMMA TypeStep == TypeOK /\ [Next]_vars => TypeOK'
<1> SUFFICES ASSUME TypeOK, [Next]_vars PROVE TypeOK'
  OBVIOUS
<1> USE NoneAssumption, BoundAssumption, IdleType DEF TypeOK, entryVars
<1>1. CASE UNCHANGED vars
  BY <1>1 DEF vars
<1>2. ASSUME NEW r \in Requests, RequestStep(r) PROVE TypeOK'
  <2>a. req[r] \in Request
    OBVIOUS
  <2>b. ASSUME NEW op \in Op, NEW n \in 0..MaxNumber, NEW inv \in Invoices \cup {None},
               NEW to \in Status, NEW item \in Items \cup {None}, NEW es \in SUBSET Entries,
               Remember(r, Memory(op, n, inv, to, item, es))
        PROVE  req' \in [Requests -> Request]
    BY <2>b, MemoryType, RememberType
  <2>c. Finish(r) => req' \in [Requests -> Request]
    BY RememberType DEF Finish
  <2>1. CASE NextNumber(r)
    BY <2>1, <2>b DEF NextNumber, Op, Status
  <2>2. CASE CreateInvoice(r)
    <3>1. req[r].number \in 0..MaxNumber
      BY <2>a DEF Request
    <3> QED
      BY <2>2, <2>c, <3>1 DEF CreateInvoice, InsertInvoice, FreshInvoices, InvoiceRow, Status
  <2>3. CASE CollectLines(r)
    <3>1. req[r].number \in 0..MaxNumber
      BY <2>a DEF Request
    <3> QED
      BY <2>3, <2>b, <3>1 DEF CollectLines, Op, Status
  <2>4. CASE CommitGenerate(r)
    <3>1. req[r].number \in 0..MaxNumber /\ req[r].entries \subseteq entries
      BY <2>a, <2>4 DEF Request, CommitGenerate
    <3>2. PICK i \in FreshInvoices :
             /\ InsertInvoice(i, req[r].number)
             /\ \E idOf \in [req[r].entries -> FreshItems] :
                  items' = items \cup {[id |-> idOf[e], invoice |-> i, entry |-> e] :
                                         e \in req[r].entries}
      BY <2>4 DEF CommitGenerate
    <3>3. i \in Invoices
      BY DEF FreshInvoices
    <3>4. invoice' \in [Invoices -> InvoiceRow \cup {None}]
      BY <3>1, <3>2, <3>3 DEF InsertInvoice, InvoiceRow, Status
    <3>5. items' \subseteq ItemRow
      BY <3>1, <3>2, <3>3 DEF ItemRow, FreshItems
    <3> QED
      BY <2>4, <2>c, <3>1, <3>4, <3>5 DEF CommitGenerate
  <2>5. CASE CheckTransition(r)
    <3>0. PICK i \in Existing : \E to \in ALLOWED[invoice[i].status] :
             Remember(r, Memory("update", 0, i, to, None, {}))
      BY <2>5 DEF CheckTransition
    <3>1. PICK to \in ALLOWED[invoice[i].status] :
             Remember(r, Memory("update", 0, i, to, None, {}))
      BY <3>0
    <3>2. invoice[i] \in InvoiceRow /\ i \in Invoices
      BY DEF Existing
    <3>3. to \in Status
      BY <3>2 DEF ALLOWED, InvoiceRow, Status
    <3> QED
      BY <2>5, <2>b, <3>1, <3>2, <3>3 DEF CheckTransition, Op
  <2>6. CASE WriteStatus(r)
    <3>1. invoice[req[r].inv] \in InvoiceRow /\ req[r].inv \in Invoices /\ req[r].to \in Status
      BY <2>6, <2>a DEF WriteStatus, Existing, Request
    <3> QED
      BY <2>6, <2>c, <3>1 DEF WriteStatus, InvoiceRow
  <2>7. CASE CheckDeletable(r)
    BY <2>7, <2>b DEF CheckDeletable, Existing, EntriesOf, ItemsOf, ItemRow, Op, Status
  <2>8. CASE CommitDelete(r)
    BY <2>8, <2>c DEF CommitDelete, Release
  <2>9. CASE CheckInvoiceable(r)
    BY <2>9, <2>b DEF CheckInvoiceable, Existing, Op, Status
  <2>10. CASE CommitAddItem(r)
    <3>1. req[r].inv \in Invoices
      BY <2>10 DEF CommitAddItem, Existing
    <3> QED
      BY <2>10, <2>c, <3>1 DEF CommitAddItem, FreshItems, ItemRow
  <2>11. CASE OwnItem(r)
    BY <2>11, <2>b DEF OwnItem, ItemRow, Op, Status
  <2>12. CASE CommitRemoveItem(r)
    BY <2>12, <2>c DEF CommitRemoveItem, Release
  <2>13. CASE Abort(r)
    BY <2>13, <2>c DEF Abort
  <2> QED
    BY <1>2, <2>1, <2>2, <2>3, <2>4, <2>5, <2>6, <2>7, <2>8, <2>9, <2>10, <2>11,
       <2>12, <2>13 DEF RequestStep
<1>3. ASSUME NEW e \in Entries, EntryStep(e) PROVE TypeOK'
  BY <1>3 DEF EntryStep, CreateEntry, SetBillable, DeleteEntry
<1>4. ASSUME NEW i \in Invoices, NEW s \in Status, AdminUpdateInvoice(i, s) PROVE TypeOK'
  BY <1>4 DEF AdminUpdateInvoice, Existing, InvoiceRow
<1> QED
  BY <1>1, <1>2, <1>3, <1>4 DEF Next, UserNext

(* Type correctness of every behaviour. *)
THEOREM TypeCorrect == Spec => []TypeOK
<1>1. Init => TypeOK
  BY IdleType DEF Init, TypeOK
<1> QED
  BY <1>1, TypeStep, PTL DEF Spec

-----------------------------------------------------------------------------
(***************************************************************************)
(* The ledger.  What a handler remembers stays true of the tables while it *)
(* is in flight, because nobody else is about the same rows: an entry that *)
(* was read as billable is not yet invoiced, the lines a delete has read   *)
(* are still the lines of its invoice, and the line a removal has read is  *)
(* still the one that bills its entry.                                     *)
(***************************************************************************)
MemoryHolds(q) ==
    /\ q.op \in {"generate", "addItem"} => q.entries \cap invoiced = {}
    /\ q.op = "addItem" => \A d, e \in q.entries : d = e
    /\ q.op \in {"addItem", "delete"} => q.inv \in Invoices
    /\ q.op = "delete" => \A l \in items : l.invoice = q.inv <=> l.entry \in q.entries
    /\ q.op = "removeItem" => \A l \in items : l.id = q.item <=> l.entry \in q.entries

IdsUnique == \A l, m \in items : l.id = m.id => l = m

LedgerInv ==
    /\ TypeOK
    /\ NoContention
    /\ Ledger
    /\ IdsUnique
    /\ \A r \in Requests : MemoryHolds(req[r])

(* Handlers in flight together that keep apart by entry and by invoice; the
   administrator may still edit any invoice at any time. *)
ApartSpec == Init /\ [][Next /\ NoContention']_vars


(* The handler that takes a step remembers something true afterwards, and the
   lines and marks it writes agree. *)
LEMMA LedgerStep == LedgerInv /\ Next /\ NoContention' => LedgerInv'
<1> SUFFICES ASSUME LedgerInv, Next, NoContention' PROVE LedgerInv'
  OBVIOUS
<1> USE DEF LedgerInv
<1>t. TypeOK'
  BY TypeStep
<1>i. MemoryHolds(Idle)'
  BY DEF MemoryHolds, Idle, Memory
<1>1. ASSUME NEW r \in Requests, RequestStep(r) PROVE LedgerInv'
  <2>t. /\ req[r] \in Request
        /\ \A s \in Requests : req[s] \in Request
    BY DEF TypeOK
  (* Reads: the tables do not change, and the new memory is true of them. *)
  <2>r. ASSUME NEW q, Remember(r, q), MemoryHolds(q),
               UNCHANGED <<entryVars, invoice, items>>
        PROVE  LedgerInv'
    <3>1. Ledger' /\ IdsUnique'
      BY <2>r DEF Ledger, EntriesOf, IdsUnique, entryVars
    <3>2. ASSUME NEW s \in Requests PROVE MemoryHolds(req[s])'
      <4>1. req'[s] = IF s = r THEN q ELSE req[s]
        BY <2>r DEF Remember, TypeOK
      <4>2. MemoryHolds(req'[s])
        BY <4>1, <2>r
      <4> QED
        BY <4>2, <2>r DEF MemoryHolds, entryVars
    <3> QED
      BY <1>t, <3>1, <3>2
  (* Writes: the tables keep the ledger, and what the others remember. *)
  <2>w. ASSUME Finish(r), Ledger', IdsUnique',
               \A s \in Requests \ {r} : MemoryHolds(req[s])'
        PROVE  LedgerInv'
    <3>1. ASSUME NEW s \in Requests PROVE MemoryHolds(req[s])'
      <4>1. CASE s = r
        <5>1. req'[s] = Idle
          BY <4>1, <2>w DEF Finish, Remember, TypeOK
        <5> QED
          BY <5>1, <1>i DEF MemoryHolds, Idle, Memory
      <4>2. CASE s # r
        BY <4>2, <2>w
      <4> QED
        BY <4>1, <4>2
    <3> QED
      BY <1>t, <2>w, <3>1
  (* Removing lines and marks cannot make a memory false. *)
  <2>s. ASSUME NEW s \in Requests \ {r}, Finish(r), items' \subseteq items,
               invoiced' \subseteq invoiced
        PROVE  MemoryHolds(req[s])'
    <3>1. req'[s] = req[s] /\ MemoryHolds(req[s])
      BY <2>s DEF Finish, Remember, TypeOK
    <3> QED
      BY <3>1, <2>s DEF MemoryHolds
  (* Two handlers in flight hold different entries. *)
  <2>c. ASSUME NEW s \in Requests \ {r}
        PROVE  /\ req[r].entries \cap req[s].entries = {}
               /\ ~Conflict(req[r], req[s])
    BY DEF NoContention, Conflict
  <2>1. CASE NextNumber(r)
    BY <2>1, <2>r DEF NextNumber, MemoryHolds, Memory
  <2>2. CASE CreateInvoice(r)
    <3>1. ASSUME NEW s \in Requests \ {r} PROVE MemoryHolds(req[s])'
      BY <2>2, <2>s DEF CreateInvoice, entryVars
    <3> QED
      BY <2>2, <2>w, <3>1 DEF CreateInvoice, entryVars, Ledger, EntriesOf, IdsUnique
  <2>3. CASE CollectLines(r)
    <3>1. PICK c \in SUBSET (billable \ invoiced) :
             Remember(r, Memory("generate", req[r].number, None, "DRAFT", None, c))
      BY <2>3 DEF CollectLines
    <3>2. MemoryHolds(Memory("generate", req[r].number, None, "DRAFT", None, c))
      BY DEF MemoryHolds, Memory
    <3> QED
      BY <2>3, <2>r, <3>1, <3>2 DEF CollectLines
  <2>4. CASE CommitGenerate(r)
    <3> DEFINE E == req[r].entries
    <3>1. PICK i \in FreshInvoices : \E idOf \in [E -> FreshItems] :
             /\ \A d, e \in E : idOf[d] = idOf[e] => d = e
             /\ items' = items \cup {[id |-> idOf[e], invoice |-> i, entry |-> e] : e \in E}
      BY <2>4 DEF CommitGenerate
    <3>2. PICK idOf \in [E -> FreshItems] :
             /\ \A d, e \in E : idOf[d] = idOf[e] => d = e
             /\ items' = items \cup {[id |-> idOf[e], invoice |-> i, entry |-> e] : e \in E}
      BY <3>1
    <3>3. invoiced' = invoiced \cup E /\ E \cap invoiced = {}
      BY <2>4 DEF CommitGenerate, MemoryHolds
    <3>4. \A l \in items' \ items : \E e \in E :
             l = [id |-> idOf[e], invoice |-> i, entry |-> e]
      BY <3>2
    <3>5. Ledger'
      <4>1. \A l \in items : l.entry \in invoiced
        BY DEF Ledger, EntriesOf
      <4>2. \A l, m \in items' : l.entry = m.entry => l = m
        BY <3>2, <3>3, <4>1 DEF Ledger
      <4>3. invoiced' = EntriesOf(items)'
        <5> DEFINE New == {[id |-> idOf[e], invoice |-> i, entry |-> e] : e \in E}
        <5>1. {l.entry : l \in New} = E
          <6>1. ASSUME NEW e \in E PROVE e \in {l.entry : l \in New}
            <7>1. [id |-> idOf[e], invoice |-> i, entry |-> e] \in New
              OBVIOUS
            <7>2. [id |-> idOf[e], invoice |-> i, entry |-> e].entry = e
              OBVIOUS
            <7> HIDE DEF New
            <7> QED
              BY <7>1, <7>2
          <6>2. \A l \in New : l.entry \in E
            OBVIOUS
          <6> HIDE DEF New
          <6> QED
            BY <6>1, <6>2
        <5>2. {l.entry : l \in items \cup New} = {l.entry : l \in items} \cup {l.entry : l \in New}
          <6> HIDE DEF New
          <6> QED
            OBVIOUS
        <5> QED
          BY <3>2, <3>3, <5>1, <5>2 DEF Ledger, EntriesOf
      <4> QED
        BY <4>2, <4>3 DEF Ledger
    <3>6. IdsUnique'
      <4>1. \A e \in E : \A l \in items : l.id # idOf[e]
        BY <3>2 DEF FreshItems
      <4> QED
        BY <3>2, <4>1 DEF IdsUnique
    <3>7. ASSUME NEW s \in Requests \ {r} PROVE MemoryHolds(req[s])'
      <4>1. req'[s] = req[s] /\ MemoryHolds(req[s]) /\ E \cap req[s].entries = {}
        BY <2>4, <2>c DEF CommitGenerate, Finish, Remember, TypeOK
      <4>2. \A e \in E : idOf[e] # req[s].item
        BY <3>2 DEF FreshItems
      <4>3. i # req[s].inv
        BY DEF FreshInvoices
      <4> QED
        BY <3>2, <3>3, <4>1, <4>2, <4>3 DEF MemoryHolds
    <3> QED
      BY <2>4, <2>w, <3>5, <3>6, <3>7 DEF CommitGenerate
  <2>5. CASE CheckTransition(r)
    BY <2>5, <2>r DEF CheckTransition, MemoryHolds, Memory
  <2>6. CASE WriteStatus(r)
    <3>1. ASSUME NEW s \in Requests \ {r} PROVE MemoryHolds(req[s])'
      BY <2>6, <2>s DEF WriteStatus, entryVars
    <3> QED
      BY <2>6, <2>w, <3>1 DEF WriteStatus, entryVars, Ledger, EntriesOf, IdsUnique
  <2>7. CASE CheckDeletable(r)
    <3>1. PICK i \in Invoices :
             Remember(r, Memory("delete", 0, i, "DRAFT", None, EntriesOf(ItemsOf(i))))
      BY <2>7 DEF CheckDeletable, Existing
    <3>2. \A l \in items : l.invoice = i <=> l.entry \in EntriesOf(ItemsOf(i))
      BY DEF Ledger, EntriesOf, ItemsOf
    <3>3. MemoryHolds(Memory("delete", 0, i, "DRAFT", None, EntriesOf(ItemsOf(i))))
      BY <3>2 DEF MemoryHolds, Memory
    <3> QED
      BY <2>7, <2>r, <3>1, <3>3 DEF CheckDeletable
  <2>8. CASE CommitDelete(r)
    <3>1. items' = {l \in items : l.entry \notin req[r].entries}
      BY <2>8 DEF CommitDelete, ItemsOf, MemoryHolds
    <3>2. invoiced' = invoiced \ req[r].entries
      BY <2>8 DEF CommitDelete, Release
    <3>3. Ledger' /\ IdsUnique'
      BY <3>1, <3>2 DEF Ledger, EntriesOf, IdsUnique
    <3>4. ASSUME NEW s \in Requests \ {r} PROVE MemoryHolds(req[s])'
      BY <2>8, <2>s, <3>1, <3>2 DEF CommitDelete
    <3> QED
      BY <2>8, <2>w, <3>3, <3>4 DEF CommitDelete
  <2>9. CASE CheckInvoiceable(r)
    <3>1. PICK i \in Invoices, e \in billable \ invoiced :
             Remember(r, Memory("addItem", 0, i, "DRAFT", None, {e}))
      BY <2>9 DEF CheckInvoiceable, Existing
    <3>2. MemoryHolds(Memory("addItem", 0, i, "DRAFT", None, {e}))
      BY DEF MemoryHolds, Memory
    <3> QED
      BY <2>9, <2>r, <3>1, <3>2 DEF CheckInvoiceable
  <2>10. CASE CommitAddItem(r)
    <3> DEFINE i == req[r].inv
    <3>1. PICK x \in FreshItems, e \in req[r].entries :
             items' = items \cup {[id |-> x, invoice |-> i, entry |-> e]}
      BY <2>10 DEF CommitAddItem
    <3>2. req[r].entries = {e} /\ e \notin invoiced /\ invoiced' = invoiced \cup {e}
      BY <2>10, <3>1 DEF CommitAddItem, MemoryHolds
    <3>3. Ledger'
      <4>1. \A l \in items : l.entry \in invoiced
        BY DEF Ledger, EntriesOf
      <4>2. \A l, m \in items' : l.entry = m.entry => l = m
        BY <3>1, <3>2, <4>1 DEF Ledger
      <4>3. {l.entry : l \in items'} = {l.entry : l \in items} \cup {e}
        <5> DEFINE new == [id |-> x, invoice |-> i, entry |-> e]
        <5>1. new.entry = e
          OBVIOUS
        <5> HIDE DEF new
        <5>2. {l.entry : l \in items \cup {new}} = {l.entry : l \in items} \cup {new.entry}
          OBVIOUS
        <5> QED
          BY <3>1, <5>1, <5>2 DEF new
      <4> QED
        BY <3>2, <4>2, <4>3 DEF Ledger, EntriesOf
    <3>4. IdsUnique'
      BY <3>1 DEF IdsUnique, FreshItems
    <3>5. ASSUME NEW s \in Requests \ {r} PROVE MemoryHolds(req[s])'
      <4>1. req'[s] = req[s] /\ MemoryHolds(req[s]) /\ e \notin req[s].entries
        BY <2>10, <2>c, <3>2 DEF CommitAddItem, Finish, Remember, TypeOK
      <4>2. x # req[s].item
        BY DEF FreshItems
      <4>3. req[s].op = "delete" => i # req[s].inv
        BY <2>10, <2>c, NoneAssumption DEF CommitAddItem, Conflict, Existing
      <4> QED
        BY <3>1, <3>2, <4>1, <4>2, <4>3 DEF MemoryHolds
    <3> QED
      BY <2>10, <2>w, <3>3, <3>4, <3>5 DEF CommitAddItem
  <2>11. CASE OwnItem(r)
    <3>1. PICK l \in items :
             Remember(r, Memory("removeItem", 0, None, "DRAFT", l.id, {l.entry}))
      BY <2>11 DEF OwnItem
    <3>2. \A m \in items : m.id = l.id <=> m.entry \in {l.entry}
      BY DEF Ledger, IdsUnique
    <3>3. MemoryHolds(Memory("removeItem", 0, None, "DRAFT", l.id, {l.entry}))
      BY <3>2 DEF MemoryHolds, Memory
    <3> QED
      BY <2>11, <2>r, <3>1, <3>3 DEF OwnItem
  <2>12. CASE CommitRemoveItem(r)
    <3>1. items' = {l \in items : l.entry \notin req[r].entries}
      BY <2>12 DEF CommitRemoveItem, MemoryHolds
    <3>2. invoiced' = invoiced \ req[r].entries
      BY <2>12 DEF CommitRemoveItem, Release
    <3>3. Ledger' /\ IdsUnique'
      BY <3>1, <3>2 DEF Ledger, EntriesOf, IdsUnique
    <3>4. ASSUME NEW s \in Requests \ {r} PROVE MemoryHolds(req[s])'
      BY <2>12, <2>s, <3>1, <3>2 DEF CommitRemoveItem
    <3> QED
      BY <2>12, <2>w, <3>3, <3>4 DEF CommitRemoveItem
  <2>13. CASE Abort(r)
    <3>1. ASSUME NEW s \in Requests \ {r} PROVE MemoryHolds(req[s])'
      BY <2>13, <2>s DEF Abort, entryVars
    <3> QED
      BY <2>13, <2>w, <3>1 DEF Abort, entryVars, Ledger, EntriesOf, IdsUnique
  <2> QED
    BY <1>1, <2>1, <2>2, <2>3, <2>4, <2>5, <2>6, <2>7, <2>8, <2>9, <2>10, <2>11,
       <2>12, <2>13 DEF RequestStep
<1>2. ASSUME NEW e \in Entries, EntryStep(e) PROVE LedgerInv'
  <2>1. items' \subseteq items /\ invoiced' \subseteq invoiced /\ req' = req
    BY <1>2 DEF EntryStep, CreateEntry, SetBillable, DeleteEntry
  <2>2. Ledger' /\ IdsUnique'
    BY <1>2 DEF EntryStep, CreateEntry, SetBillable, DeleteEntry, Ledger, EntriesOf, IdsUnique
  <2>3. ASSUME NEW s \in Requests PROVE MemoryHolds(req[s])'
    <3>1. MemoryHolds(req[s])
      OBVIOUS
    <3> QED
      BY <2>1, <3>1 DEF MemoryHolds
  <2> QED
    BY <1>t, <2>2, <2>3
<1>3. ASSUME NEW i \in Invoices, NEW st \in Status, AdminUpdateInvoice(i, st) PROVE LedgerInv'
  <2>1. UNCHANGED <<invoiced, items, req>>
    BY <1>3 DEF AdminUpdateInvoice, entryVars
  <2>2. Ledger' /\ IdsUnique' /\ \A s \in Requests : MemoryHolds(req[s])'
    BY <2>1 DEF Ledger, EntriesOf, IdsUnique, MemoryHolds
  <2> QED
    BY <1>t, <2>2
<1> QED
  BY <1>1, <1>2, <1>3 DEF Next, UserNext



(* The ledger, for handlers that keep apart by entry and invoice: every entry
   marked INVOICED is billed by exactly one line and no other entry is. *)
THEOREM LedgerHolds == ApartSpec => []Ledger
<1>1. Init => LedgerInv
  <2> SUFFICES ASSUME Init PROVE LedgerInv
    OBVIOUS
  <2>1. TypeOK
    BY IdleType DEF Init, TypeOK
  <2>2. NoContention /\ \A r \in Requests : MemoryHolds(req[r])
    BY DEF Init, NoContention, Conflict, MemoryHolds, Idle, Memory
  <2> QED
    BY <2>1, <2>2 DEF Init, LedgerInv, Ledger, EntriesOf, IdsUnique
<1>2. LedgerInv /\ [Next /\ NoContention']_vars => LedgerInv'
  <2>1. ASSUME LedgerInv, UNCHANGED vars PROVE LedgerInv'
    <3>1. TypeOK'
      BY <2>1, TypeStep DEF LedgerInv
    <3> QED
      BY <2>1, <3>1 DEF LedgerInv, vars, NoContention, Conflict, Ledger, EntriesOf,
                        IdsUnique, MemoryHolds
  <2> QED
    BY <2>1, LedgerStep
<1>3. LedgerInv => Ledger
  BY DEF LedgerInv
<1> QED
  BY <1>1, <1>2, <1>3, PTL DEF ApartSpec

(* What the disjoint run checks is a case of it. *)
COROLLARY LedgerInDisjointRun == DisjointSpec => []Ledger
<1>1. [DisjointNext]_vars => [Next /\ NoContention']_vars
  BY DEF DisjointNext
<1> QED
  BY <1>1, LedgerHolds, PTL DEF DisjointSpec, ApartSpec

-----------------------------------------------------------------------------
(***************************************************************************)
(* The status of an invoice, for handlers that do contend but without the  *)
(* administrator's editor.  A handler about to write PAID or OVERDUE read  *)
(* SENT or OVERDUE, and whatever happened since, the row is gone or keeps  *)
(* the date at which it was sent.                                          *)
(***************************************************************************)
PendingHolds(q) ==
    q.op = "update" =>
        /\ q.inv \in Invoices
        /\ q.to # "DRAFT"
        /\ q.to \in {"PAID", "OVERDUE"} =>
               invoice[q.inv] = None \/ invoice[q.inv].issuedAt

StatusInv ==
    /\ TypeOK
    /\ IssuedBeforePaid
    /\ \A r \in Requests : PendingHolds(req[r])

(* A step that leaves the invoice rows alone keeps StatusInv when what it
   stores in a handler's memory is no status change. *)
LEMMA StatusFrame ==
  ASSUME StatusInv, TypeOK', invoice' = invoice,
         \A s \in Requests : req'[s] = req[s] \/ req'[s].op # "update"
  PROVE  StatusInv'
<1>1. IssuedBeforePaid'
  BY DEF StatusInv, IssuedBeforePaid, Existing
<1>2. ASSUME NEW s \in Requests PROVE PendingHolds(req[s])'
  BY DEF StatusInv, PendingHolds
<1> QED
  BY <1>1, <1>2 DEF StatusInv

LEMMA StatusInsert ==
  ASSUME StatusInv, TypeOK', NEW i \in FreshInvoices, NEW n, InsertInvoice(i, n),
         \A s \in Requests : req'[s] = req[s] \/ req'[s].op # "update"
  PROVE  StatusInv'
<1>0. i \in Invoices /\ i \notin Existing /\ invoice \in [Invoices -> InvoiceRow \cup {None}]
  BY DEF FreshInvoices, StatusInv, TypeOK
<1>1. IssuedBeforePaid'
  BY <1>0 DEF StatusInv, IssuedBeforePaid, Existing, InsertInvoice
<1>2. ASSUME NEW s \in Requests PROVE PendingHolds(req[s])'
  <2>1. req[s].inv # i /\ PendingHolds(req[s])
    BY DEF FreshInvoices, StatusInv
  <2> QED
    BY <1>0, <2>1 DEF PendingHolds, InsertInvoice
<1> QED
  BY <1>1, <1>2 DEF StatusInv

LEMMA StatusStep == StatusInv /\ [UserNext]_vars => StatusInv'
<1> SUFFICES ASSUME StatusInv, [UserNext]_vars PROVE StatusInv'
  OBVIOUS
<1>t. TypeOK /\ TypeOK'
  <2>1. [UserNext]_vars => [Next]_vars
    BY Zenon DEF Next
  <2> QED
    BY <2>1, TypeStep DEF StatusInv
<1>1. CASE UNCHANGED vars
  BY <1>1, <1>t, StatusFrame DEF vars
<1>2. ASSUME NEW r \in Requests, RequestStep(r) PROVE StatusInv'
  <2>a. ASSUME NEW q, q.op # "update", Remember(r, q)
        PROVE  \A s \in Requests : req'[s] = req[s] \/ req'[s].op # "update"
    BY <2>a, <1>t DEF Remember, TypeOK
  <2>b. Finish(r) => \A s \in Requests : req'[s] = req[s] \/ req'[s].op # "update"
    <3>1. Idle.op # "update"
      BY DEF Idle, Memory
    <3> QED
      BY <3>1, <2>a DEF Finish
  <2>1. CASE NextNumber(r)
    BY <2>1, <2>a, <1>t, StatusFrame DEF NextNumber, Memory
  <2>2. CASE CreateInvoice(r)
    BY <2>2, <2>b, <1>t, StatusInsert DEF CreateInvoice
  <2>3. CASE CollectLines(r)
    BY <2>3, <2>a, <1>t, StatusFrame DEF CollectLines, Memory
  <2>4. CASE CommitGenerate(r)
    BY <2>4, <2>b, <1>t, StatusInsert DEF CommitGenerate
  <2>5. CASE CheckTransition(r)
    <3>0. PICK i \in Existing : \E to \in ALLOWED[invoice[i].status] :
             Remember(r, Memory("update", 0, i, to, None, {}))
      BY <2>5 DEF CheckTransition
    <3>1. PICK to \in ALLOWED[invoice[i].status] :
             Remember(r, Memory("update", 0, i, to, None, {}))
      BY <3>0
    <3>2. i \in Invoices /\ invoice[i] \in InvoiceRow /\ invoice[i].status \in Status
      BY <1>t DEF Existing, TypeOK, InvoiceRow
    <3>3. to # "DRAFT" /\ (to \in {"PAID", "OVERDUE"} =>
                             invoice[i].status \in {"SENT", "OVERDUE"})
      BY <3>2 DEF ALLOWED, Status
    <3>4. to \in {"PAID", "OVERDUE"} => invoice[i].issuedAt
      <4>1. ASSUME invoice[i].status = "OVERDUE" PROVE invoice[i].issuedAt
        BY <4>1 DEF StatusInv, IssuedBeforePaid
      <4>2. ASSUME invoice[i].status = "SENT" PROVE invoice[i].issuedAt
        BY <4>2 DEF StatusInv, IssuedBeforePaid
      <4> QED
        BY <3>3, <4>1, <4>2
    <3>5. PendingHolds(Memory("update", 0, i, to, None, {}))
      BY <3>2, <3>3, <3>4 DEF PendingHolds, Memory
    <3>6. invoice' = invoice
      BY <2>5 DEF CheckTransition
    <3>7. ASSUME NEW s \in Requests PROVE PendingHolds(req[s])'
      <4>1. PendingHolds(req'[s])
        BY <3>1, <3>5, <1>t DEF Remember, TypeOK, StatusInv
      <4> QED
        BY <4>1, <3>6 DEF PendingHolds
    <3>8. IssuedBeforePaid'
      BY <3>6 DEF StatusInv, IssuedBeforePaid, Existing
    <3> QED
      BY <1>t, <3>7, <3>8 DEF StatusInv
  <2>6. CASE WriteStatus(r)
    <3> DEFINE i == req[r].inv
               to == req[r].to
    <3>1. /\ i \in Existing /\ i \in Invoices
          /\ invoice[i] \in InvoiceRow
          /\ invoice \in [Invoices -> InvoiceRow \cup {None}]
          /\ to # "DRAFT"
          /\ to \in {"PAID", "OVERDUE"} => invoice[i].issuedAt
      BY <2>6, <1>t DEF WriteStatus, StatusInv, PendingHolds, TypeOK, Existing
    <3>2. invoice' = [invoice EXCEPT ![i] =
                [number |-> invoice[i].number, status |-> to,
                 issuedAt |-> invoice[i].issuedAt \/ to = "SENT",
                 paidAt |-> invoice[i].paidAt \/ to = "PAID"]]
      BY <2>6 DEF WriteStatus
    <3>3. invoice'[i].status = to
      BY <3>1, <3>2
    <3>4. invoice'[i].issuedAt = (invoice[i].issuedAt \/ to = "SENT")
      BY <3>1, <3>2
    <3>5. invoice'[i].paidAt = (invoice[i].paidAt \/ to = "PAID")
      BY <3>1, <3>2
    <3>6. \A j \in Invoices : j # i => invoice'[j] = invoice[j]
      BY <3>1, <3>2
    <3>7. IssuedBeforePaid'
      <4>1. ASSUME NEW j \in Existing'
            PROVE  /\ invoice'[j].status \in {"SENT", "PAID", "OVERDUE"} => invoice'[j].issuedAt
                   /\ invoice'[j].status = "PAID" => invoice'[j].paidAt
        <5>1. CASE j = i
          BY <5>1, <3>1, <3>3, <3>4, <3>5
        <5>2. CASE j # i
          BY <5>2, <3>6 DEF Existing, StatusInv, IssuedBeforePaid
        <5> QED
          BY <5>1, <5>2
      <4> QED
        BY <4>1 DEF IssuedBeforePaid
    <3>8. ASSUME NEW s \in Requests PROVE PendingHolds(req[s])'
      <4>1. CASE s = r
        <5>1. req'[s] = Idle
          BY <4>1, <2>6, <1>t DEF WriteStatus, Finish, Remember, TypeOK
        <5> QED
          BY <5>1 DEF PendingHolds, Idle, Memory
      <4>2. CASE s # r
        <5>1. req'[s] = req[s] /\ PendingHolds(req[s])
          BY <4>2, <2>6, <1>t DEF WriteStatus, Finish, Remember, TypeOK, StatusInv
        <5>2. CASE req[s].inv = i
          BY <5>1, <5>2, <3>1, <3>4 DEF PendingHolds, Existing
        <5>3. CASE req[s].inv # i
          BY <5>1, <5>3, <3>6 DEF PendingHolds
        <5> QED
          BY <5>2, <5>3
      <4> QED
        BY <4>1, <4>2
    <3> QED
      BY <1>t, <3>7, <3>8 DEF StatusInv
  <2>7. CASE CheckDeletable(r)
    BY <2>7, <2>a, <1>t, StatusFrame DEF CheckDeletable, Memory
  <2>8. CASE CommitDelete(r)
    <3>1. \A s \in Requests : req'[s] = req[s] \/ req'[s].op # "update"
      BY <2>8, <2>b DEF CommitDelete
    <3>2. /\ invoice \in [Invoices -> InvoiceRow \cup {None}]
          /\ invoice' = [invoice EXCEPT ![req[r].inv] = None]
      BY <2>8, <1>t DEF CommitDelete, TypeOK
    <3>3. \A j \in Invoices : invoice'[j] = invoice[j] \/ invoice'[j] = None
      BY <3>2
    <3>4. IssuedBeforePaid'
      BY <3>3 DEF StatusInv, IssuedBeforePaid, Existing
    <3>5. ASSUME NEW s \in Requests PROVE PendingHolds(req[s])'
      BY <3>1, <3>3 DEF StatusInv, PendingHolds
    <3> QED
      BY <1>t, <3>4, <3>5 DEF StatusInv
  <2>9. CASE CheckInvoiceable(r)
    BY <2>9, <2>a, <1>t, StatusFrame DEF CheckInvoiceable, Memory
  <2>10. CASE CommitAddItem(r)
    BY <2>10, <2>b, <1>t, StatusFrame DEF CommitAddItem
  <2>11. CASE OwnItem(r)
    BY <2>11, <2>a, <1>t, StatusFrame DEF OwnItem, Memory
  <2>12. CASE CommitRemoveItem(r)
    BY <2>12, <2>b, <1>t, StatusFrame DEF CommitRemoveItem
  <2>13. CASE Abort(r)
    BY <2>13, <2>b, <1>t, StatusFrame DEF Abort
  <2> QED
    BY <1>2, <2>1, <2>2, <2>3, <2>4, <2>5, <2>6, <2>7, <2>8, <2>9, <2>10, <2>11,
       <2>12, <2>13 DEF RequestStep
<1>3. ASSUME NEW e \in Entries, EntryStep(e) PROVE StatusInv'
  BY <1>3, <1>t, StatusFrame DEF EntryStep, CreateEntry, SetBillable, DeleteEntry
<1> QED
  BY <1>1, <1>2, <1>3 DEF UserNext

(* The invariant holds in every behaviour without the administrator. *)
LEMMA StatusInvHolds == UserSpec => []StatusInv
<1>1. Init => StatusInv
  <2> SUFFICES ASSUME Init PROVE StatusInv
    OBVIOUS
  <2>1. TypeOK
    BY IdleType DEF Init, TypeOK
  <2> QED
    BY <2>1 DEF Init, StatusInv, IssuedBeforePaid, Existing, PendingHolds, Idle, Memory
<1>2. StatusInv /\ [UserNext]_vars => StatusInv'
  BY StatusStep
<1> QED
  BY <1>1, <1>2, PTL DEF UserSpec

(* However the handlers interleave, an invoice that is PAID or OVERDUE was
   sent, and carries the dates of the states it went through. *)
THEOREM PaidWasIssued == UserSpec => []IssuedBeforePaid
<1>1. StatusInv => IssuedBeforePaid
  BY DEF StatusInv
<1>2. UserSpec => []StatusInv
  BY StatusInvHolds
<1> QED
  BY <1>1, <1>2, PTL

(* However the handlers interleave, no invoice returns to DRAFT, so none that
   was sent passes the deletion check again. *)
THEOREM DraftNeverComesBack == UserSpec => NeverDraftAgain
<1> DEFINE A == \A i \in Existing :
                  (invoice'[i] # None /\ invoice'[i].status = "DRAFT")
                      => invoice[i].status = "DRAFT"
<1>1. StatusInv /\ [UserNext]_vars => [A]_vars
  <2> SUFFICES ASSUME StatusInv, UserNext PROVE A
    OBVIOUS
  <2>t. invoice \in [Invoices -> InvoiceRow \cup {None}]
    BY DEF StatusInv, TypeOK
  <2>0. ASSUME invoice' = invoice PROVE A
    BY <2>0
  <2>1. ASSUME NEW i \in FreshInvoices, NEW n, InsertInvoice(i, n) PROVE A
    BY <2>1, <2>t DEF InsertInvoice, FreshInvoices, Existing
  <2>2. ASSUME NEW r \in Requests, WriteStatus(r) PROVE A
    <3>1. req[r].to # "DRAFT"
      BY <2>2 DEF WriteStatus, StatusInv, PendingHolds
    <3> QED
      BY <2>2, <2>t, <3>1 DEF WriteStatus, Existing
  <2>3. ASSUME NEW r \in Requests, CommitDelete(r) PROVE A
    BY <2>3, <2>t DEF CommitDelete, Existing
  <2> QED
    BY <2>0, <2>1, <2>2, <2>3 DEF UserNext, RequestStep, EntryStep,
       NextNumber, CreateInvoice, CollectLines, CommitGenerate, CheckTransition,
       CheckDeletable, CheckInvoiceable, CommitAddItem, OwnItem, CommitRemoveItem,
       Abort, CreateEntry, SetBillable, DeleteEntry
<1>2. UserSpec => []StatusInv
  BY StatusInvHolds
<1> QED
  BY <1>1, <1>2, PTL DEF UserSpec, NeverDraftAgain

-----------------------------------------------------------------------------
(***************************************************************************)
(* Handlers that keep apart: what a handler read of the status still is    *)
(* the status when it writes.                                              *)
(***************************************************************************)
ReadHolds(q) ==
    /\ q.op = "update" =>
          /\ q.inv \in Invoices
          /\ invoice[q.inv] # None => q.to \in ALLOWED[invoice[q.inv].status]
    /\ q.op = "delete" =>
          /\ q.inv \in Invoices
          /\ invoice[q.inv] # None => invoice[q.inv].status = "DRAFT"

ReadInv ==
    /\ TypeOK
    /\ \A r \in Requests : ReadHolds(req[r])

LEMMA ReadStep == ReadInv /\ [DisjointNext]_vars => ReadInv'
<1> SUFFICES ASSUME ReadInv, [DisjointNext]_vars PROVE ReadInv'
  OBVIOUS
<1>t. TypeOK /\ TypeOK'
  <2>1. [DisjointNext]_vars => [Next]_vars
    BY Zenon DEF DisjointNext
  <2> QED
    BY <2>1, TypeStep DEF ReadInv
<1>1. CASE UNCHANGED vars
  BY <1>1, <1>t DEF ReadInv, ReadHolds, vars
<1>2. CASE DisjointNext
  <2>k. ASSUME NEW s \in Requests, req'[s] = req[s] PROVE ReadHolds(req[s])'
    BY <1>2, <2>k DEF DisjointNext, Undisturbed, ReadInv, ReadHolds
  <2>m. ASSUME NEW r \in Requests, NEW q, Remember(r, q), ReadHolds(q)'
        PROVE  ReadInv'
    <3>1. /\ req'[r] = q
          /\ \A s \in Requests \ {r} : req'[s] = req[s]
      BY <2>m, <1>t DEF Remember, TypeOK
    <3>2. ReadHolds(req[r])'
      BY <2>m, <3>1 DEF ReadHolds
    <3> QED
      BY <3>1, <3>2, <2>k, <1>t DEF ReadInv
  <2>o. ASSUME NEW r \in Requests, NEW q, Remember(r, q), q.op \notin {"update", "delete"}
        PROVE  ReadInv'
    <3>1. ReadHolds(q)'
      BY <2>o DEF ReadHolds
    <3> QED
      BY <2>o, <3>1, <2>m
  <2>i. ASSUME NEW r \in Requests, Finish(r) PROVE ReadInv'
    <3>1. Idle.op \notin {"update", "delete"}
      BY DEF Idle, Memory
    <3> QED
      BY <2>i, <3>1, <2>o DEF Finish
  <2>1. ASSUME NEW r \in Requests, CheckTransition(r) PROVE ReadInv'
    <3>1. PICK i \in Existing :
             \E to \in ALLOWED[invoice[i].status] :
                Remember(r, Memory("update", 0, i, to, None, {}))
      BY <2>1 DEF CheckTransition
    <3>2. PICK to \in ALLOWED[invoice[i].status] :
             Remember(r, Memory("update", 0, i, to, None, {}))
      BY <3>1
    <3>3. i \in Invoices /\ invoice'[i] = invoice[i]
      BY <2>1 DEF Existing, CheckTransition
    <3>4. ReadHolds(Memory("update", 0, i, to, None, {}))'
      BY <3>2, <3>3 DEF ReadHolds, Memory
    <3> QED
      BY <3>2, <3>4, <2>m
  <2>2. ASSUME NEW r \in Requests, CheckDeletable(r) PROVE ReadInv'
    <3>1. PICK i \in Existing :
             /\ invoice[i].status = "DRAFT"
             /\ Remember(r, Memory("delete", 0, i, "DRAFT", None, EntriesOf(ItemsOf(i))))
      BY <2>2 DEF CheckDeletable
    <3>2. i \in Invoices /\ invoice'[i] = invoice[i]
      BY <2>2 DEF Existing, CheckDeletable
    <3>3. PICK es : Remember(r, Memory("delete", 0, i, "DRAFT", None, es))
      BY <3>1
    <3>4. ReadHolds(Memory("delete", 0, i, "DRAFT", None, es))'
      BY <3>1, <3>2 DEF ReadHolds, Memory
    <3> QED
      BY <3>3, <3>4, <2>m
  <2>3. ASSUME NEW r \in Requests, RequestStep(r) PROVE ReadInv'
    <3>1. CASE NextNumber(r) \/ CollectLines(r) \/ CheckInvoiceable(r) \/ OwnItem(r)
      BY <3>1, <2>o DEF NextNumber, CollectLines, CheckInvoiceable, OwnItem, Memory
    <3> QED
      BY <2>3, <2>1, <2>2, <2>i, <3>1 DEF RequestStep, CreateInvoice, CommitGenerate, WriteStatus,
         CommitDelete, CommitAddItem, CommitRemoveItem, Abort
  <2>4. ASSUME req' = req PROVE ReadInv'
    BY <2>4, <2>k, <1>t DEF ReadInv
  <2> QED
    BY <1>2, <2>3, <2>4 DEF DisjointNext, Next, UserNext, EntryStep, AdminUpdateInvoice,
       CreateEntry, SetBillable, DeleteEntry
<1> QED
  BY <1>1, <1>2

LEMMA ReadInvHolds == DisjointSpec => []ReadInv
<1>1. Init => ReadInv
  <2> SUFFICES ASSUME Init PROVE ReadInv
    OBVIOUS
  <2>1. TypeOK
    BY IdleType DEF Init, TypeOK
  <2> QED
    BY <2>1 DEF Init, ReadInv, ReadHolds, Idle, Memory
<1> QED
  BY <1>1, ReadStep, PTL DEF DisjointSpec

(* How an invoice row changes, for handlers that keep apart: it is written by
   the handler that read it, deleted or edited by the administrator. *)
LEMMA RowChanges ==
  ASSUME ReadInv, DisjointNext, NEW i \in Existing
  PROVE  \/ invoice'[i] = invoice[i]
         \/ invoice'[i] # None /\ invoice'[i].status \in ALLOWED[invoice[i].status]
         \/ invoice'[i] = None /\ invoice[i].status = "DRAFT"
         \/ /\ invoice'[i] # None
            /\ \E j \in Invoices, st \in Status : AdminUpdateInvoice(j, st)
<1> DEFINE P == \/ invoice'[i] = invoice[i]
                \/ invoice'[i] # None /\ invoice'[i].status \in ALLOWED[invoice[i].status]
                \/ invoice'[i] = None /\ invoice[i].status = "DRAFT"
<1>t. /\ invoice \in [Invoices -> InvoiceRow \cup {None}] /\ i \in Invoices
      /\ invoice[i] # None /\ invoice[i] \in InvoiceRow
  BY DEF ReadInv, TypeOK, Existing
<1>1. ASSUME NEW j \in FreshInvoices, NEW n, InsertInvoice(j, n) PROVE P
  BY <1>1, <1>t DEF InsertInvoice, FreshInvoices, Existing
<1>2. ASSUME NEW r \in Requests, WriteStatus(r) PROVE P
  <2> DEFINE row == [number |-> invoice[i].number, status |-> req[r].to,
                     issuedAt |-> invoice[i].issuedAt \/ req[r].to = "SENT",
                     paidAt |-> invoice[i].paidAt \/ req[r].to = "PAID"]
  <2>1. CASE req[r].inv = i
    <3>1. req[r].to \in ALLOWED[invoice[i].status]
      BY <1>2, <2>1, <1>t DEF WriteStatus, ReadInv, ReadHolds
    <3>2. invoice'[i] = row
      BY <1>2, <2>1, <1>t DEF WriteStatus
    <3>3. row.status = req[r].to
      OBVIOUS
    <3>4. req[r].to \in Status
      BY <1>t DEF ReadInv, TypeOK, Request
    <3>5. row \in InvoiceRow
      BY <3>4, <1>t DEF InvoiceRow
    <3> QED
      BY <3>1, <3>2, <3>3, <3>5, NoneAssumption
  <2>2. CASE req[r].inv # i
    BY <1>2, <2>2, <1>t DEF WriteStatus
  <2> QED
    BY <2>1, <2>2
<1>3. ASSUME NEW r \in Requests, CommitDelete(r) PROVE P
  BY <1>3, <1>t DEF CommitDelete, ReadInv, ReadHolds
<1>4. ASSUME NEW j \in Invoices, NEW st \in Status, AdminUpdateInvoice(j, st)
      PROVE  invoice'[i] # None
  <2>1. [invoice[i] EXCEPT !.status = st] \in InvoiceRow
    BY <1>t DEF InvoiceRow
  <2>2. invoice'[i] = invoice[i] \/ invoice'[i] = [invoice[i] EXCEPT !.status = st]
    BY <1>4, <1>t DEF AdminUpdateInvoice
  <2> QED
    BY <2>1, <2>2, <1>t, NoneAssumption
<1>5. ASSUME invoice' = invoice PROVE P
  BY <1>5
<1>6. ASSUME UserNext PROVE P
  BY <1>6, <1>1, <1>2, <1>3, <1>5 DEF UserNext, RequestStep, EntryStep,
     NextNumber, CreateInvoice, CollectLines, CommitGenerate, CheckTransition,
     CheckDeletable, CheckInvoiceable, CommitAddItem, OwnItem, CommitRemoveItem,
     Abort, CreateEntry, SetBillable, DeleteEntry
<1> QED
  BY <1>4, <1>6 DEF DisjointNext, Next

(* Handlers that keep apart change a status along the table only. *)
THEOREM StatusFollowsTable == DisjointSpec => TransitionsFollowMap
<1> DEFINE A == \/ \E i \in Invoices, s \in Status : AdminUpdateInvoice(i, s)
                \/ \A i \in Existing :
                     invoice'[i] # None =>
                         \/ invoice'[i].status = invoice[i].status
                         \/ invoice'[i].status \in ALLOWED[invoice[i].status]
<1>1. ReadInv /\ [DisjointNext]_vars => [A]_vars
  BY RowChanges
<1> QED
  BY <1>1, ReadInvHolds, PTL DEF DisjointSpec, TransitionsFollowMap

(* Handlers that keep apart delete drafts only. *)
THEOREM DraftsAreDeleted == DisjointSpec => OnlyDraftsDeleted
<1> DEFINE A == \A i \in Existing : invoice'[i] = None => invoice[i].status = "DRAFT"
<1>1. ReadInv /\ [DisjointNext]_vars => [A]_vars
  <2> SUFFICES ASSUME ReadInv, DisjointNext, NEW i \in Existing, invoice'[i] = None
               PROVE  invoice[i].status = "DRAFT"
    OBVIOUS
  <2>1. invoice[i] # None
    BY DEF Existing
  <2> QED
    BY <2>1, RowChanges
<1> QED
  BY <1>1, ReadInvHolds, PTL DEF DisjointSpec, OnlyDraftsDeleted
=============================================================================
