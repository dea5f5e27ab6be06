SPECIFICATION Spec
CONSTANTS
    p1 = p1
    p2 = p2
    f = f
    n1 = n1
    n2 = n2
    c = c
    NoPod = NoPod
    NoNode = NoNode
    Pods = {p1, f}
    Nodes = {n1, c}
    Controllers = {c}
    Foreign = {f}
    Annotated = {p1, f}
    Counted <- MCCounted
    Allocatable <- MCAllocatable
    FirstNodes = {c}
    FirstMeasured = {}
    Unstable = {}
    MaxFaults = 0
    MaxSignals = 0
PROPERTIES
    ImplementsBinding
