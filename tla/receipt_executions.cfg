\* Executions of one case, two of which may overlap and a third; crashes, retries, readers.
SPECIFICATION Spec
CONSTANTS
    Procs = {p1, p2}
    Bodies = {b1, b2}
    MaxAttempts = 3
    Overlapping = 2
    Crashes = TRUE
    Retained = TRUE
    Paired = TRUE
    None = None
SYMMETRY Symmetry
INVARIANTS TypeOK AtMostOneRun VerifiedIsOneExecution ExpiredLeavesNothing OneExecutorPerReceipt
PROPERTIES ReceiptIsFinal
