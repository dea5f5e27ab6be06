----------------------------- MODULE EnergyMetrics -----------------------------
(***************************************************************************)
(* The shared energy data of the scheduler: gatherEnergyMetrics writes     *)
(* them sample by sample (setNodeEnergy, then updatePoddata), while        *)
(* selectNode, in another goroutine and under a lock the collector does    *)
(* not take, reads them one after the other.  Only ndContainer has a       *)
(* mutex of its own; ScaphPodLabels and microWatts have none.              *)
(*                                                                         *)
(* Samples are numbered by the time that comes with them in a response of  *)
(* Prometheus.  What matters of a sample is which pods were running: their *)
(* power is part of the node power of that sample, and each has a series.  *)
(* Three names of a pod must agree for its estimate to be found: the pod   *)
(* and the job of its series, and the app label that Kubernetes has.       *)
(***************************************************************************)
EXTENDS Naturals, FiniteSets

CONSTANTS
    Pods,       \* pods, by their metadata.name
    Names,      \* names of pods, jobs and apps
    MetricPod,  \* [Pods -> Names] metric.pod of the series of a pod
    MetricJob,  \* [Pods -> Names] metric.job of the series of a pod
    App,        \* [Pods -> Names] metadata.labels["app"]
    MaxTime,    \* bound on the number of samples
    MaxFaults   \* bound on failed queries, older answers and ends of the series

ASSUME EnergyMetricsAssumption ==
    /\ Pods \subseteq Names
    /\ MetricPod \in [Pods -> Names]
    /\ MetricJob \in [Pods -> Names]
    /\ App \in [Pods -> Names]
    /\ MaxTime \in Nat
    /\ MaxFaults \in Nat

VARIABLES
    \* Prometheus and the cluster
    running,        \* pods that run now, bound to some node
    sample,         \* the samples so far: [1..time -> SUBSET Pods]
    time,           \* the newest sample, 0 before the first one
    up,             \* whether Scaphandre's series are in the query results
    \* gatherEnergyMetrics
    cpc,            \* where the collector is
    response,       \* the sample its last query returned, 0 for an empty result
    unlearned,      \* jobs that updatePodMicroWatts has yet to store
    nodeData,       \* the sample in ndContainer.nodeData, 0 for an empty list
    last_unix_t,    \* ndContainer.last_unix_t
    podLabels,      \* ScaphPodLabels
    labelTime,      \* the sample podLabels comes from
    microWatts,     \* the keys of microWatts, jobs
    pod_last_unix_t,\* last_unix_t of energy_pod.go
    \* selectNode
    spc,            \* where the scheduling goroutine is
    copied,         \* the sample of its copy of the node data
    listed,         \* pods of the list of getNodeCorrections not looked at yet
    labelled,       \* those it found in ScaphPodLabels
    \* history
    podFault,       \* whether the last pod query failed or was not answered in full
    known,          \* jobs of the series that this process has dealt with
    faults

prometheus == <<running, sample, time, up>>
shared == <<nodeData, last_unix_t, podLabels, labelTime, microWatts, pod_last_unix_t>>
history == <<podFault, known>>
collector == <<cpc, response, unlearned, shared, history>>
reader == <<spc, copied, listed, labelled>>
vars == <<prometheus, collector, reader, faults>>

Times == 0..MaxTime
PodsOf(t) == IF t = 0 THEN {} ELSE sample[t]
LabelsOf(t) == {MetricPod[p] : p \in PodsOf(t)}
JobsOf(t) == {MetricJob[p] : p \in PodsOf(t)}

Init ==
    /\ running = {}
    /\ sample = [t \in {} |-> {}]
    /\ time = 0
    /\ up = TRUE
    /\ cpc = "idle"
    /\ response = 0
    /\ unlearned = {}
    /\ nodeData = 0
    /\ last_unix_t = 0
    /\ podLabels = {}
    /\ labelTime = 0
    /\ microWatts = {}
    /\ pod_last_unix_t = 0
    /\ spc = "idle"
    /\ copied = 0
    /\ listed = {}
    /\ labelled = {}
    /\ podFault = FALSE
    /\ known = {}
    /\ faults = 0

-------------------------------------------------------------------------------
(* The cluster and Prometheus.                                             *)

PodStarts(p) ==
    /\ p \notin running
    /\ running' = running \cup {p}
    /\ UNCHANGED <<sample, time, up, collector, reader, faults>>

PodStops(p) ==
    /\ p \in running
    /\ running' = running \ {p}
    /\ UNCHANGED <<sample, time, up, collector, reader, faults>>

\* A newer time comes with a newer scrape, or with the scrape before it when
\* a response carries the time of the query.
Scrape ==
    /\ time < MaxTime
    /\ time' = time + 1
    /\ \E s \in {running, PodsOf(time)} :
          sample' = [t \in 1..time' |-> IF t = time' THEN s ELSE sample[t]]
    /\ up' = TRUE
    /\ UNCHANGED <<running, collector, reader, faults>>

\* The series go stale: queries return an empty result until the next scrape.
SeriesEnd ==
    /\ up
    /\ faults < MaxFaults
    /\ faults' = faults + 1
    /\ up' = FALSE
    /\ UNCHANGED <<running, sample, time, collector, reader>>

Fault == faults < MaxFaults /\ faults' = faults + 1

Answer == IF up THEN time ELSE 0

\* A query returns the newest sample, or nothing once the series have ended.
\* From a Prometheus whose clock was set back, or that has lost its last
\* samples, it is an older one.
Answers(t) ==
    \/ t = Answer /\ UNCHANGED faults
    \/ t \in 1..time /\ t < Answer /\ Fault

-------------------------------------------------------------------------------
(* collectEnergyMetrics                                                    *)

GetNodeMicroWatts(t) ==
    /\ Answers(t)
    /\ cpc = "idle"
    /\ cpc' = "setNodeData"
    /\ response' = t
    /\ UNCHANGED <<prometheus, unlearned, shared, history, reader>>

\* Mutant: the pod data are updated once in a while only.
SetNodeDataNowAndThen ==
    /\ cpc = "setNodeData"
    /\ nodeData' = response
    /\ IF response > last_unix_t
       THEN last_unix_t' = response /\ cpc' \in {"podQuery", "idle"}
       ELSE last_unix_t' = last_unix_t /\ cpc' = "idle"
    /\ podFault' = (podFault /\ cpc' # "podQuery")
    /\ UNCHANGED <<prometheus, response, unlearned, podLabels, labelTime, microWatts,
                   pod_last_unix_t, known, reader, faults>>

\* setNodeData, under ndContainer.mu.  The node data are replaced whatever
\* their time; the pod data are asked for only if the time has progressed.
SetNodeData ==
    /\ cpc = "setNodeData"
    /\ nodeData' = response
    /\ IF response > last_unix_t
       THEN last_unix_t' = response /\ cpc' = "podQuery"
       ELSE last_unix_t' = last_unix_t /\ cpc' = "idle"
    /\ podFault' = (podFault /\ cpc' # "podQuery")
    /\ UNCHANGED <<prometheus, response, unlearned, podLabels, labelTime, microWatts,
                   pod_last_unix_t, known, reader, faults>>

GetPodMicroWatts(t) ==
    /\ Answers(t)
    /\ cpc = "podQuery"
    /\ cpc' = "setLabels"
    /\ response' = t
    /\ podFault' = (t # time)
    /\ UNCHANGED <<prometheus, unlearned, shared, known, reader>>

\* One of the two queries fails; the collection ends, and what it has
\* recorded of the node data and their time stays.
QueryFails ==
    /\ cpc \in {"idle", "podQuery"}
    /\ Fault
    /\ cpc' = "idle"
    /\ podFault' = (podFault \/ cpc = "podQuery")
    /\ UNCHANGED <<prometheus, response, unlearned, shared, known, reader>>

\* setScaphPodLabels: the whole set is replaced by one assignment.
SetScaphPodLabels ==
    /\ cpc = "setLabels"
    /\ cpc' = "setTime"
    /\ podLabels' = LabelsOf(response)
    /\ labelTime' = response
    /\ UNCHANGED <<prometheus, response, unlearned, nodeData, last_unix_t, microWatts,
                   pod_last_unix_t, history, reader, faults>>

\* Mutant: the estimates are kept by pod, as the labels are.
SetPodTimeByPod ==
    /\ cpc = "setTime"
    /\ cpc' = "learn"
    /\ pod_last_unix_t' = IF response > pod_last_unix_t THEN response ELSE pod_last_unix_t
    /\ unlearned' = LabelsOf(response)
    /\ UNCHANGED <<prometheus, response, nodeData, last_unix_t, podLabels, labelTime,
                   microWatts, history, reader, faults>>

\* The first loop of updatePodMicroWatts, and the list of its second one.
SetPodTime ==
    /\ cpc = "setTime"
    /\ cpc' = "learn"
    /\ pod_last_unix_t' = IF response > pod_last_unix_t THEN response ELSE pod_last_unix_t
    /\ unlearned' = JobsOf(response)
    /\ UNCHANGED <<prometheus, response, nodeData, last_unix_t, podLabels, labelTime,
                   microWatts, history, reader, faults>>

\* The second loop: one map entry per iteration.
LearnJob(j) ==
    /\ cpc = "learn"
    /\ j \in unlearned
    /\ unlearned' = unlearned \ {j}
    /\ microWatts' = microWatts \cup {j}
    /\ UNCHANGED <<prometheus, cpc, response, nodeData, last_unix_t, podLabels, labelTime,
                   pod_last_unix_t, history, reader, faults>>

\* The average over all series; the next collection may begin.
SetAverage ==
    /\ cpc = "learn"
    /\ unlearned = {}
    /\ response # 0
    /\ cpc' = "idle"
    /\ known' = known \cup JobsOf(response)
    /\ UNCHANGED <<prometheus, response, unlearned, shared, podFault, reader, faults>>

\* The process dies and a new one starts with nothing.
StartOver ==
    /\ cpc' = "idle" /\ response' = 0 /\ unlearned' = {}
    /\ nodeData' = 0 /\ last_unix_t' = 0
    /\ podLabels' = {} /\ labelTime' = 0
    /\ microWatts' = {} /\ pod_last_unix_t' = 0
    /\ podFault' = FALSE /\ known' = {}
    /\ spc' = "idle" /\ copied' = 0
    /\ listed' = {} /\ labelled' = {}
    /\ UNCHANGED <<prometheus, faults>>

\* Over an empty result the average divides by zero.
AveragePanics ==
    /\ cpc = "learn"
    /\ response = 0
    /\ StartOver

-------------------------------------------------------------------------------
(* selectNode: getNodeData, then getNodeCorrections.                       *)

GetNodeData ==
    /\ spc = "idle"
    /\ spc' = "list"
    /\ copied' = nodeData
    /\ UNCHANGED <<prometheus, collector, listed, labelled, faults>>

GetPods ==
    /\ spc = "list"
    /\ spc' = "read"
    /\ listed' = running
    /\ UNCHANGED <<prometheus, collector, copied, labelled, faults>>

GetPodsFails ==
    /\ spc = "list"
    /\ Fault
    /\ spc' = "idle"
    /\ copied' = 0
    /\ UNCHANGED <<prometheus, collector, listed, labelled>>

\* The list is an error answer, without pods.
GetPodsAnswersError ==
    /\ spc = "list"
    /\ Fault
    /\ spc' = "read"
    /\ UNCHANGED <<prometheus, collector, copied, listed, labelled>>

\* The pod is in ScaphPodLabels: its power is taken to be in the node data.
SkipLabelledPod(p) ==
    /\ p \in listed \cap podLabels
    /\ listed' = listed \ {p}
    /\ labelled' = labelled \cup {p}
    /\ UNCHANGED <<prometheus, collector, spc, copied, faults>>

\* The pod is not: its estimate is that of its app, if there is one.
CorrectByEstimate(p) ==
    /\ p \in listed \ podLabels
    /\ App[p] \in microWatts
    /\ listed' = listed \ {p}
    /\ UNCHANGED <<prometheus, collector, spc, copied, labelled, faults>>

CorrectByAverage(p) ==
    /\ p \in listed \ podLabels
    /\ App[p] \notin microWatts
    /\ listed' = listed \ {p}
    /\ UNCHANGED <<prometheus, collector, spc, copied, labelled, faults>>

\* Reading the map while the collector writes it is a race, which the Go
\* runtime answers with a fatal error when it notices.
MapRace(p) ==
    /\ p \in listed \ podLabels
    /\ cpc = "learn"
    /\ unlearned # {}
    /\ StartOver

SelectionEnds ==
    /\ spc = "read"
    /\ listed = {}
    /\ spc' = "idle"
    /\ copied' = 0
    /\ labelled' = {}
    /\ UNCHANGED <<prometheus, collector, listed, faults>>

Collector ==
    \/ \E t \in Times : GetNodeMicroWatts(t) \/ GetPodMicroWatts(t)
    \/ SetNodeData
    \/ QueryFails
    \/ SetScaphPodLabels
    \/ SetPodTime
    \/ \E j \in Names : LearnJob(j)
    \/ SetAverage
    \/ AveragePanics

Selection ==
    \/ GetNodeData
    \/ GetPods
    \/ GetPodsFails
    \/ GetPodsAnswersError
    \/ \E p \in Pods :
          SkipLabelledPod(p) \/ CorrectByEstimate(p) \/ CorrectByAverage(p) \/ MapRace(p)
    \/ SelectionEnds

Prometheus ==
    \/ \E p \in Pods : PodStarts(p) \/ PodStops(p)
    \/ Scrape
    \/ SeriesEnd

Next == Prometheus \/ Collector \/ Selection

Spec == Init /\ [][Next]_vars

-------------------------------------------------------------------------------
\* Every variable has its type.
TypeOK ==
    /\ running \subseteq Pods
    /\ time \in Times
    /\ sample \in [1..time -> SUBSET Pods]
    /\ up \in BOOLEAN
    /\ cpc \in {"idle", "setNodeData", "podQuery", "setLabels", "setTime", "learn"}
    /\ response \in 0..time
    /\ unlearned \subseteq Names
    /\ nodeData \in 0..time
    /\ last_unix_t \in 0..time
    /\ podLabels \subseteq Names
    /\ labelTime \in 0..time
    /\ microWatts \subseteq Names
    /\ pod_last_unix_t \in 0..time
    /\ spc \in {"idle", "list", "read"}
    /\ copied \in 0..time
    /\ listed \subseteq Pods
    /\ labelled \subseteq Pods
    /\ podFault \in BOOLEAN
    /\ known \subseteq Names
    /\ faults \in 0..MaxFaults

\* The pod data keep up with the node data.  When a collection has ended, the
\* pod labels are at least as recent as any node data stored since the process
\* started, although they are two queries with scrapes between them, and the
\* pod query is left out while the time stands still or has slipped back.  The
\* one exception is a pod query that failed, or was answered with nothing or an
\* older sample: it is not repeated before the time progresses.
LabelsKeepUp ==
    cpc = "idle" /\ ~ podFault => labelTime >= last_unix_t /\ last_unix_t >= nodeData

\* A pod is corrected by the average over all pods only if its app label is
\* not the job of a series that an update has dealt with since the process
\* started, whatever has failed, and in whatever order the samples came.
KnownIsEstimated ==
    [][\A p \in Pods : CorrectByAverage(p) => App[p] \notin known]_vars

\* A listed pod is left without a correction only when the node data that
\* are compared include it.
LabelledIsMeasured ==
    copied # 0 => labelled \subseteq PodsOf(copied)
===============================================================================
