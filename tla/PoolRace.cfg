SPECIFICATION Spec
CONSTANTS
    PoolSize = 2
    Clients = {c1, c2}
    Pages = {p1, p2, p3}
    NoFrame = NoFrame
    NoPage = NoPage
    NoClient = NoClient
    Concurrent = TRUE
    MaxRecords = 2
    MaxWrites = 2
    MaxFailures = 0
    MaxCrashes = 0
SYMMETRY Symmetry
INVARIANT HandleShowsPage
