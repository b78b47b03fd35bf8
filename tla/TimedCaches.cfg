CONSTANTS
    Keys = {k1}
    Upstreams = {u1, u2}
    Requests = {r1, r2}
    Ttl = 1
    MaxTime = 3
    Nobody = Nobody
    Viewers = {v1, v2, v3}
    StatsTtl = 2
    MaxClock = 4
    NoStats = NoStats
SPECIFICATION Spec
SYMMETRY Alike
CHECK_DEADLOCK FALSE
INVARIANTS AnonymousWasKeyless ActiveKeyServed IdentifiedAsOfNow StatsFresh
