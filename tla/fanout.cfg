SPECIFICATION FairFetchSpec
CONSTANTS
    Upstreams = {u1, u2, u3}
    MAX_PARALLEL = 2
    QUORUM = 2
    FAILS = 2
    CALLERS = 2
INVARIANTS
    OpenEarned
    VerdictsEarned
PROPERTIES
    NoneAskedTwice
    FetchEnds
