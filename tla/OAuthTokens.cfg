\* Two handlers in flight and two consents, at one provider or at both.
CONSTANTS
    Requests = {r1, r2}
    Providers <- MCProviders
    ForgetsRejected <- MCForgetsRejected
    Grants = {g1, g2}
    MaxRetries = 1
    None = None
SPECIFICATION FairSpec
INVARIANTS
    TypeOK
    LockHeldByRefresh
    StoredIsChosen
PROPERTIES
    RequestsEnd
    DeadGrantNotRetriedForever
