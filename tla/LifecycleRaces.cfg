CONSTANTS
    alice = alice
    bob = bob
    plain = plain
    oversized = oversized
    foreign = foreign
    composite = composite
    unscoped = unscoped
    Jobs = {j1}
    Tenants = {alice}
    NoTenant = NoTenant
    Packages = {plain}
    NoPackage = NoPackage
    Digests = {d1, d2}
    NoDigest = NoDigest
    Categories = {"timeout", "unexpected_render_error", "resource_limit_exceeded"}
    LegacyJobs = {}
    StaleSeconds = 1
    MaxNow = 2
    Submissions = {s1, s2, s3}
    Concurrency = 2
    ClaimedTenant <- MCClaimedTenant
    CompositePackages <- MCCompositePackages
    ScopedTenant <- MCScopedTenant
    Refusal <- MCRefusal
    CustodyPackages <- MCCustodyPackages
    ArchiveConfigured = TRUE
    FaultyOps = {"mark_rendered", "record_archive_outcome"}
    MaxStops = 1
    Stops = {"crash", "shutdown"}
SYMMETRY CallSymmetry
SPECIFICATION Spec
INVARIANTS
    TypeOK
    ExclusiveClaim
    FenceLostOnlyToTakeover
    AnswerBytesAreTheArtifact
    CustodyIsTheArtifact
    SlotsMatchCalls
    RowsAreTrue
    DrainedStrandsNothing
PROPERTIES
    ImplementsOutcome
CHECK_DEADLOCK FALSE
