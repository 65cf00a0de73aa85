\* A directory fsync that fails after os.replace leaves a sealed claim.
SPECIFICATION Spec
CONSTANTS
    Procs = {p1}
    Keys = {k1}
    Actions = {deploy}
    Profiles = {railway}
    TTL = 1
    MaxNow = 1
    Faults <- IOFaults
    None = None
PROPERTIES FailedSealPreservesClaim
