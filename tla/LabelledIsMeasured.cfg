SPECIFICATION Spec
CONSTANTS
    p = p
    q = q
    j = j
    Names <- PodNames
    MetricPod <- OwnName
    MetricJob <- OneJob
    App <- AppLabels
    Pods = {p}
    MaxTime = 2
    MaxFaults = 0
INVARIANTS
    LabelledIsMeasured
