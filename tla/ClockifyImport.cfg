\* Two imports of two Clockify entries beside one handler and the clients.
CONSTANTS
    Requests = {r1}
    Entries = {e1, e2}
    Imports = {i1, i2}
    ClockifyEntries = {k1, k2}
    MaxTime = 1
    MaxBack = 0
    None = None
    Absent = Absent
SYMMETRY Symmetry
SPECIFICATION ImportSpec
INVARIANTS
    ImportTypeOK
    OneEntryPerClockifyId
