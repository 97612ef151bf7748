SPECIFICATION Spec
CONSTANTS
    Calls = {w1, w2, w3}
    NoCall = NoCall
    Bodies <- SubmittedKeys
CHECK_DEADLOCK FALSE
SYMMETRY Symmetry
INVARIANTS
    RulesAsReported
    ConfigAsReported
    InStep
PROPERTIES
    GuardedPutLosesNothing
