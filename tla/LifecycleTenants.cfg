CONSTANTS
    alice = alice
    bob = bob
    plain = plain
    oversized = oversized
    foreign = foreign
    composite = composite
    unscoped = unscoped
    Jobs = {j1}
    Tenants = {alice, bob}
    NoTenant = NoTenant
    Packages = {plain, oversized, foreign, composite, unscoped}
    NoPackage = NoPackage
    Digests = {d1}
    NoDigest = NoDigest
    Categories = {"template_not_supported", "unexpected_render_error", "resource_limit_exceeded"}
    LegacyJobs = {}
    StaleSeconds = 1
    MaxNow = 1
    Submissions = {s1, s2}
    Concurrency = 1
    ClaimedTenant <- MCClaimedTenant
    CompositePackages <- MCCompositePackages
    ScopedTenant <- MCScopedTenant
    Refusal <- MCRefusal
    CustodyPackages <- MCCustodyPackages
    ArchiveConfigured = TRUE
    FaultyOps = {"create_or_get", "claim_for_rendering", "mark_rendered", "mark_failed", "record_archive_outcome", "get"}
    MaxStops = 1
    Stops = {"shutdown"}
SYMMETRY CallSymmetry
SPECIFICATION Spec
INVARIANTS
    AnswersStayInTenant
    FailureAnswersAreTrue
CHECK_DEADLOCK FALSE
