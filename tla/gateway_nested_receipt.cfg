SPECIFICATION Spec
CONSTANTS
    Tasks = {k1, k2}
    Channels = {ch1}
    Children = {c1, c2}
    Projects = {p, q}
    Events = {e1}
    Home = h
    GatewayRoots = {h}
    MaxTurns = 3
    Nesting = TRUE
    None = None
    k1 = k1
    k2 = k2
    ch1 = ch1
    ch2 = ch2
    c1 = c1
    c2 = c2
    p = p
    q = q
    e1 = e1
    h = h
SYMMETRY TreeSymmetry
INVARIANT ReceiptsAreLegal
CHECK_DEADLOCK FALSE
