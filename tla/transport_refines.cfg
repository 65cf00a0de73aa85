\* The one-shot cell: two callers, two keys, crashes and I/O errors.
SPECIFICATION Spec
CONSTANTS
    Procs = {p1, p2}
    Keys = {k1, k2}
    Actions = {deploy}
    Profiles = {railway}
    TTL = 1
    MaxNow = 1
    Faults <- NoDriftFaults
    None = None
INVARIANTS AnswersAgree
PROPERTIES ImplementsOneShotDelivery
