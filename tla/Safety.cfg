SPECIFICATION Spec
CONSTANTS
    p1 = p1
    p2 = p2
    f = f
    n1 = n1
    n2 = n2
    c = c
    NoPod = NoPod
    NoNode = NoNode
    Pods = {p1, p2}
    Nodes = {n1, n2}
    Controllers = {}
    Foreign = {}
    Annotated = {p1}
    Counted <- MCCounted
    Allocatable <- MCAllocatable
    FirstNodes = {n1, n2}
    FirstMeasured = {n1, n2}
    Unstable = {n1}
    MaxFaults = 1
    MaxSignals = 1
INVARIANTS
    TypeOK
    LockDiscipline
    OvercommittedOnlyBlind
    QueueSound
PROPERTIES
    ImplementsBinding
