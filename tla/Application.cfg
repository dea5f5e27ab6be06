SPECIFICATION FairSpec
CONSTANTS
    Configs <- MCConfigs
    MaxImgs = 2
    SecondsPerHour = 4
    LastEvent = 8
    MaxFaults = 1
INVARIANTS
    TypeOK
    WorkersReady
    OutputIsFinal
    NothingLeftQueued
    TimelineIsTheRuns
PROPERTIES
    ApplicationEnds
CHECK_DEADLOCK FALSE
