\* Two handlers that keep apart, whatever entries are created, edited and deleted.
CONSTANTS
    Requests = {r1, r2}
    Entries = {e1, e2}
    MaxTime = 3
    MaxBack = 0
    None = None
    Absent = Absent
SYMMETRY Symmetry
SPECIFICATION ApartSpec
INVARIANTS
    TypeOK
    OneTimer
    DurationMatches
    ShownIsStored
PROPERTY ResumeKeepsTime
