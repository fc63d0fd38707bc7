CONSTANTS
    Processes = {p1, p2}
    Deployments <- MCDeployments
    RegistryFiles <- MCRegistryFiles
    Disk <- MCDisk
    MaxCrashes = 1
SPECIFICATION StartupFairSpec
INVARIANTS
    VersionIsBacked
    StoresCanBeRead
PROPERTIES
    RefusedStartTouchesNothing
    UpgradeCompletes
CHECK_DEADLOCK FALSE
