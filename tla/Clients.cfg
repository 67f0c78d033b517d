\* Two clients, one of them edited, one contact, two requests and three days; a
\* wait of more than one day is too long.  The ids run out in the end.
CONSTANTS
    Ids = {c1, c2}
    Contacts = {k1}
    Requests = {r1, r2}
    StaleDays = 1
    Horizon = 2
    Edited = {c1}
    Creates <- MCCreates
    Updates <- MCUpdates
    None = None
    Keep = Keep
    Unborn = Unborn
    Gone = Gone
    Torn = Torn
SPECIFICATION ApartSpec
INVARIANTS
    TypeOK
    HistoryTells
    OneClientPerContact
PROPERTIES
    PromotedWasStale
    StaleFollowUpMoves
CHECK_DEADLOCK FALSE
