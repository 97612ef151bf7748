SPECIFICATION FairSpec
CONSTANTS
    Callers = {c1, c2, c3}
    Keys = {k1}
    Entries = {e1, e2, e3}
    NoCaller = NoCaller
    NoEntry = NoEntry
INVARIANTS
    RefsExact
    NoOrphan
    SingleRunnerUncancelled
PROPERTIES
    EveryCallReturns
