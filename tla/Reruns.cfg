SPECIFICATION Spec
CONSTANTS
    Hosts = {1, 2}
    Experiments <- MCExperiments
    MicroBenchmarks <- MCMicroBenchmarks
    ByHand <- MCByHand
    MaxScripts = 3
    MaxUpstream = 2
    MaxFaults = 1
INVARIANTS
    OwnCluster
    ConsistentImages
    OutputOfItsRun
CHECK_DEADLOCK FALSE
