SPECIFICATION Spec
CONSTANTS
    Tasks = {k1, k2}
    Channels = {ch1, ch2}
    Children = {c1}
    Projects = {p, q}
    Events = {e1}
    Home = h
    GatewayRoots = {h}
    MaxTurns = 2
    Nesting = FALSE
    None = None
    k1 = k1
    k2 = k2
    ch1 = ch1
    ch2 = ch2
    c1 = c1
    c2 = c2
    p = p
    q = q
    e1 = e1
    h = h
SYMMETRY Symmetry
INVARIANTS
    TypeOK
    IngressIsAdmission
    BoundTurnsAreGuarded
    ReceiptsAreLegal
    ReceiptHasOneTurn
CHECK_DEADLOCK FALSE
