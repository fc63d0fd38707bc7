CONSTANTS
    Requests = {r1, r2}
    Renders = {r1, r2}
    MaxBody = 2
    ChunkSizes = {1, 2}
    TenantFields <- MCTenantFields
    Malformed <- MCMalformed
    Traces <- MCTraces
    Packages <- MCPackages
    ServedFiles <- MCServedFiles
    Formats = {"pdf"}
    Hosts = {"docker", "local", "none"}
    MaxEdits = 1
SPECIFICATION RequestFairSpec
INVARIANTS
    BodyIsWholeAndBounded
    RefusalsCostNothing
    FailureBlamesItsCause
    ContainersHaveTheirWorkspace
PROPERTIES
    KillsReachOnlyTheirOwn
    RendersEnd
CHECK_DEADLOCK FALSE
