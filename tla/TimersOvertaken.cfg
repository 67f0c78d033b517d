\* Two handlers in flight that may both be about the timer.
CONSTANTS
    Requests = {r1, r2}
    Entries = {e1, e2}
    MaxTime = 1
    MaxBack = 1
    None = None
    Absent = Absent
SYMMETRY Symmetry
SPECIFICATION Spec
INVARIANT OneTimer
