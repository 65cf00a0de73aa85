\* Two callers, crashes, power failures and new bindings: calls end, keys settle.
SPECIFICATION FairSpec
CONSTANTS
    Procs = {p1, p2}
    Keys = {k1}
    Actions = {deploy, promote}
    Profiles = {railway}
    TTL = 1
    MaxNow = 1
    Faults <- RestartFaults
    None = None
INVARIANT TypeOK
PROPERTIES VerdictIsKept CallsReturn EventuallySettled
