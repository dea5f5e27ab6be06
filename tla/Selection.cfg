SPECIFICATION Spec
CONSTANTS
    a = a
    b = b
    c = c
    x = x
    y = y
    Unbound = Unbound
    Nodes = {a, b, c}
    Apps = {x, y}
    Controllers = {c}
    MaxInt64 = 100
    FitLists <- MCFitLists
    PodLists <- MCPodLists
    NodeWatts <- MCNodeWatts
    PodWatts <- MCPodWatts
    Averages <- MCAverages
INVARIANTS
    ChoiceIsCandidate
    ChoiceBound
    LeastWithoutCorrections
    FirstPodCorrects
CHECK_DEADLOCK FALSE
