CONSTANTS
    alice = alice
    bob = bob
    plain = plain
    oversized = oversized
    foreign = foreign
    composite = composite
    unscoped = unscoped
    Jobs = {j1}
    Tenants = {alice}
    NoTenant = NoTenant
    Packages = {plain}
    NoPackage = NoPackage
    Digests = {d1}
    NoDigest = NoDigest
    Categories = {"unexpected_render_error", "resource_limit_exceeded"}
    LegacyJobs = {j1}
    StaleSeconds = 1
    MaxNow = 2
    Submissions = {s1, s2}
    Concurrency = 2
    ClaimedTenant <- MCClaimedTenant
    CompositePackages <- MCCompositePackages
    ScopedTenant <- MCScopedTenant
    Refusal <- MCRefusal
    CustodyPackages <- MCCustodyPackages
    ArchiveConfigured = TRUE
    FaultyOps = {}
    MaxStops = 0
    Stops = {}
SPECIFICATION RecoverySpec
PROPERTIES
    LegacyJobsRecover
CHECK_DEADLOCK FALSE
