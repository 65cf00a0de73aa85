\* A crash between the journal line and the projection, and a retry.
SPECIFICATION Spec
CONSTANTS
    Procs = {p1, p2}
    Bodies = {b1, b2}
    MaxAttempts = 2
    Overlapping = 0
    Crashes = TRUE
    Retained = FALSE
    Paired = FALSE
    None = None
SYMMETRY Symmetry
INVARIANTS TwoEventJournal
