\* Two handlers in flight, never about the same rows, and an administrator.
CONSTANTS
    Requests = {r1, r2}
    Entries = {e1, e2}
    Invoices = {i1, i2}
    Items = {l1, l2}
    MaxNumber = 2
    None = None
SYMMETRY Symmetry
SPECIFICATION DisjointSpec
INVARIANTS
    TypeOK
    Ledger
PROPERTIES
    TransitionsFollowMap
    OnlyDraftsDeleted
