SPECIFICATION Spec
CONSTANTS
    PoolSize = 2
    Clients = {c1, c2}
    Pages = {p1, p2, p3}
    NoFrame = NoFrame
    NoPage = NoPage
    NoClient = NoClient
    Concurrent = FALSE
    MaxRecords = 2
    MaxWrites = 3
    MaxFailures = 2
    MaxCrashes = 1
SYMMETRY Symmetry
INVARIANTS HandleShowsPage FrameFound LogBeforePage
PROPERTY StoreSpec
