\* Two callers of one key; I/O errors, crashes, power failures and damaged claims.
SPECIFICATION Spec
CONSTANTS
    Procs = {p1, p2}
    Keys = {k1}
    Actions = {deploy}
    Profiles = {railway}
    TTL = 1
    MaxNow = 1
    Faults <- StableBindingFaults
    None = None
SYMMETRY Symmetry
INVARIANTS AtMostOneDelivery DurablySpentBeforeDelivery DeliveredIsTruthful
