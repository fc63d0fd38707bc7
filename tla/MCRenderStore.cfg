CONSTANTS
    Jobs = {j1, j2}
    Tenants = {t1, t2}
    NoTenant = NoTenant
    Packages = {p1, p2}
    NoPackage = NoPackage
    Digests = {d1, d2}
    NoDigest = NoDigest
    Categories = {"timeout"}
    LegacyJobs = {j2}
    StaleSeconds = 1
    AcceptedStaleSeconds = 2
    MaxNow = 2
SYMMETRY StoreSymmetry
SPECIFICATION StoreSpec
INVARIANTS
    ColumnsAgree
    ReadsAgree
    AdviceMatchesTheClaim
PROPERTIES
    TerminalIsFinal
CHECK_DEADLOCK FALSE
