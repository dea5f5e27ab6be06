SPECIFICATION InfrastructureSpec
CONSTANTS
    Configurations <- MCConfigurations
    ResourceManagers = {"kubernetes", "kubeedge", "mist", "none"}
    MiddleIP = 100
    MiddleIPBase = 90
    PostfixLower = 2
    PostfixUpper = 4
    External = External
    Internal = Internal
    MaxMachines = 2
    MachineCores = {1, 4}
    MaxNodes = 2
    VmCores = {1, 2}
    CloudCores = 100
    MaxPlain = 4
INVARIANTS
    WithinCores
    Balanced
    RefusedWhenFull
    EveryVmNamed
    DisksMatchVms
    PinsDisjoint
    AddressesKnown
    LaunchedOnce
    SoftwareOfTier
    NetworkShaped
    FailsOnlyOnVirtiofs
PROPERTIES
    InfrastructureEnds
CHECK_DEADLOCK FALSE
