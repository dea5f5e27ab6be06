SPECIFICATION Spec
CONSTANTS
    p = p
    q = q
    j = j
    Names <- PodNames
    MetricPod <- OwnName
    MetricJob <- OneJob
    App <- AppLabels
    Pods = {p, q}
    MaxTime = 3
    MaxFaults = 1
INVARIANTS
    LabelsKeepUp
PROPERTIES
    KnownIsEstimated
