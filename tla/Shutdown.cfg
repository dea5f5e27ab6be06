SPECIFICATION FairSpec
CONSTANTS
    p1 = p1
    p2 = p2
    f = f
    n1 = n1
    n2 = n2
    c = c
    NoPod = NoPod
    NoNode = NoNode
    Pods = {p1}
    Nodes = {n1}
    Controllers = {}
    Foreign = {}
    Annotated = {p1}
    Counted <- UnitRequests
    Allocatable <- UnitNodes
    FirstNodes = {n1}
    FirstMeasured = {n1}
    Unstable = {}
    MaxFaults = 0
    MaxSignals = 1
PROPERTIES
    ShutdownCompletes
