SPECIFICATION Spec
CONSTANTS
    Actors = {a1, a2, a3}
    Events = {e1, e2}
    MaxIngress = 4
    Crashes = TRUE
    None = None
    a1 = a1
    a2 = a2
    a3 = a3
    e1 = e1
    e2 = e2
INVARIANTS
    TypeOK
    TransitionsAreIsolated
    CarrierIsCurrent
PROPERTY ImplementsLifecycle
CHECK_DEADLOCK FALSE
