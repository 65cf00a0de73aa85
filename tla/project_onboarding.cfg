\* Two enrollments, an enrollment and an evaluation, or two evaluations at once.
SPECIFICATION SmallSpec
CONSTANTS
    None = None
    e1 = e1
    e2 = e2
    s1 = s1
    s2 = s2
    c1 = c1
    i1 = i1
    i2 = i2
    i3 = i3
    Enrollers = {e1, e2}
    Evaluators = {i1, i2, i3}
    Casts <- Pairs
    Slugs = {s1, s2}
    Channels = {c1}
    SlugOf <- OwnSlugs
    ChannelOf <- OneChannel
    Bootstrapping = {i1, i2, i3}
    Faulty = {e2, i1, i2}
INVARIANTS TypeOK CreatedIsTrue VerdictsAreEarned
PROPERTIES AppliedIsTrue MappingGoesToRoot ManifestIsNeverReplaced Converges
