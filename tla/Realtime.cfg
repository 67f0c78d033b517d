\* Both registries, three browsers of which the timer admits two, under fair Redis
\* and event loop.
CONSTANTS
    Clients = {c1, c2, c3}
    Subjects = {s1, s2, s3}
    Gated = {TRUE, FALSE}
    MaxSSE = 2
    MaxPending = 3
    MaxInbox = 2
    MaxRefusals = 1
    MaxDrops = 1
    None = None
SPECIFICATION FairSpec
INVARIANTS
    TypeOK
    StreamsOnChannel
    ActiveIsSubscribed
    NoStaleEvent
    SubscriptionAgrees
PROPERTIES
    KeepsPromise
    TransitEnds
