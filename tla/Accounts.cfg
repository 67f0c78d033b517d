\* Two handlers in flight, two browsers; those that change the two-factor
\* settings do not overlap each other.  After the account is deleted and the
\* cookies are gone nothing is left to do.
CONSTANTS
    Requests = {r1, r2}
    Browsers = {b1, b2}
    Tokens = {t1, t2, t3}
    Codes = {c1, c2}
    Secrets = {s1, s2}
    ResetTokens = {p1, p2}
    None = None
SYMMETRY Symmetry
SPECIFICATION ApartSpec
INVARIANTS
    TypeOK
    CodeOpensOneSession
    NoFalseAlarm
    EnabledHasSecret
    OneGeneration
CHECK_DEADLOCK FALSE
