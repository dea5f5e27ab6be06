SPECIFICATION FairSpec
CONSTANTS
    VmNames <- MCVmNames
    DsbPods = {"user-service"}
    KillablePods = {"user-service"}
    Arguments <- MCArguments
    Short = 6
    Long = 60
    MaxInvocations = 2
    MaxFaults = 1
    MaxQueued = 1
INVARIANTS
    OnlyRefusedRemain
    StackIsReady
PROPERTIES
    MetricsAreKept
    DriverEnds
CHECK_DEADLOCK FALSE
