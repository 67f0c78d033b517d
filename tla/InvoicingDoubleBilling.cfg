\* Two handlers in flight that may be about the same rows; no administrator.
CONSTANTS
    Requests = {r1, r2}
    Entries = {e1}
    Invoices = {i1}
    Items = {l1, l2}
    MaxNumber = 2
    None = None
SYMMETRY Symmetry
SPECIFICATION UserSpec
INVARIANT BilledOnce
