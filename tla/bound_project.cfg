SPECIFICATION SmallSpec
CONSTANTS
    None = None
    r1 = r1
    r2 = r2
    x1 = x1
    x2 = x2
    t2 = t2
    Blank = Blank
    Garbled = Garbled
    Appliers = {"a1", "a2", "a3"}
    Retirers = {"l1", "l3"}
    Users = {"u1"}
    Reconcilers = {"s1", "s2", "s3"}
    Faulty = {"a3", "l3", "s3"}
    Launchers = {}
    Documents = {"project-binding.json", "runtime.lock.json"}
    Order <- TwoPaths
    Revisions = {r1, r2}
    Edits = {x1, x2}
    Scopes = {r1, r2, t2}
    Altered <- EditedBindings
    Names = {"n1", "n2", "x"}
    Outside = {"x"}
    Requested = {"railway.deploy", "vercel.deploy", "deployed-api.db-write-runtime"}
    Declarations = {"d1", "d2"}
    MaxJobs = 2
    Casts <- Groups
INVARIANTS TypeOK TornIsShared OneOwnJob
PROPERTIES OneGeneration OthersAreKept RecordIsKept Converges ExecutedAsApproved
