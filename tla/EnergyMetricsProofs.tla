-------------------------- MODULE EnergyMetricsProofs --------------------------
(***************************************************************************)
(* Theorems about EnergyMetrics, for any pods, samples, faults and any     *)
(* number of restarts of the process.                                      *)
(***************************************************************************)
EXTENDS EnergyMetrics, TLAPS

\* The labels are behind the time of the node data only between that time and
\* the labels of the same collection, or when the pod query went wrong, and the
\* node data are never newer than that time.
KeepUpInv ==
    /\ last_unix_t >= nodeData
    /\ ~ podFault =>
        /\ cpc \notin {"podQuery", "setLabels"} => labelTime >= last_unix_t
        /\ cpc = "setLabels" => response >= last_unix_t

\* A job without an estimate is one the collector will come to, and only then
\* is it known.
LearnedInv ==
    /\ known \subseteq microWatts
    /\ cpc = "learn" => JobsOf(response) \subseteq microWatts \cup unlearned

IInv == TypeOK /\ KeepUpInv /\ LearnedInv

-------------------------------------------------------------------------------
\* The invariant holds when the process starts for the first time.
THEOREM InitIInv == Init => IInv
<1> SUFFICES ASSUME Init PROVE IInv
  OBVIOUS
<1>1. MaxTime \in Nat /\ MaxFaults \in Nat
  BY EnergyMetricsAssumption DEF EnergyMetricsAssumption
<1>2. podFault \in BOOLEAN
  BY DEF Init
<1>3. TypeOK
  BY <1>1, <1>2 DEF Init, TypeOK, Times
<1> QED BY <1>3 DEF Init, IInv, KeepUpInv, LearnedInv

\* The pods of a sample that is there are a set of pods, and its labels and
\* jobs are names.
LEMMA PodsOfType ==
    ASSUME TypeOK, NEW t \in 0..time
    PROVE  PodsOf(t) \subseteq Pods /\ LabelsOf(t) \subseteq Names /\ JobsOf(t) \subseteq Names
<1>1. PodsOf(t) \subseteq Pods
  BY DEF TypeOK, Times, PodsOf
<1> QED BY <1>1, EnergyMetricsAssumption DEF LabelsOf, JobsOf, EnergyMetricsAssumption

\* Prometheus adds samples and changes none.
LEMMA ScrapeIInv == IInv /\ Scrape => IInv'
<1> SUFFICES ASSUME IInv, Scrape PROVE IInv'
  OBVIOUS
<1>1. /\ TypeOK /\ time \in Nat /\ time' = time + 1 /\ time' \in Times
      /\ UNCHANGED <<running, collector, reader, faults>> /\ up' = TRUE
  BY EnergyMetricsAssumption DEF IInv, TypeOK, Scrape, Times, EnergyMetricsAssumption
<1>2. PICK s \in {running, PodsOf(time)} :
         sample' = [t \in 1..time' |-> IF t = time' THEN s ELSE sample[t]]
  BY DEF Scrape
<1>3. s \subseteq Pods
  BY <1>1, PodsOfType DEF TypeOK
<1>4. sample' \in [1..time' -> SUBSET Pods]
  BY <1>1, <1>2, <1>3 DEF TypeOK
<1>5. TypeOK'
  BY <1>1, <1>4 DEF TypeOK, collector, shared, history, reader
<1>6. JobsOf(response)' = JobsOf(response)
  BY <1>1, <1>2 DEF TypeOK, JobsOf, PodsOf, collector
<1>7. LearnedInv'
  BY <1>1, <1>6 DEF IInv, LearnedInv, collector, shared, history
<1> QED BY <1>1, <1>5, <1>7 DEF IInv, KeepUpInv, collector, shared, history

\* Pods start and stop, series end; the collector and what it stores are not
\* touched, nor by selectNode unless the process ends.
LEMMA OthersIInv ==
    ASSUME IInv, UNCHANGED <<sample, time, collector>>, TypeOK'
    PROVE  IInv'
<1>1. JobsOf(response)' = JobsOf(response)
  BY DEF JobsOf, PodsOf, collector
<1> QED BY <1>1 DEF IInv, KeepUpInv, LearnedInv, collector, shared, history

LEMMA PrometheusIInv == IInv /\ Prometheus => IInv'
<1> SUFFICES ASSUME IInv, Prometheus PROVE IInv'
  OBVIOUS
<1>1. ASSUME NEW p \in Pods, PodStarts(p) \/ PodStops(p) PROVE IInv'
  <2>1. UNCHANGED <<sample, time, up, collector, reader, faults>> /\ running' \subseteq Pods
    BY <1>1 DEF PodStarts, PodStops, IInv, TypeOK
  <2>2. TypeOK'
    BY <2>1 DEF IInv, TypeOK, collector, shared, history, reader
  <2> QED BY <2>1, <2>2, OthersIInv
<1>2. CASE SeriesEnd
  <2>1. /\ UNCHANGED <<running, sample, time, collector, reader>>
        /\ up' = FALSE /\ faults' = faults + 1 /\ faults' \in 0..MaxFaults
    BY <1>2, EnergyMetricsAssumption DEF SeriesEnd, IInv, TypeOK, EnergyMetricsAssumption
  <2>2. TypeOK'
    BY <2>1 DEF IInv, TypeOK, collector, shared, history, reader
  <2> QED BY <2>1, <2>2, OthersIInv
<1> QED BY <1>1, <1>2, ScrapeIInv DEF Prometheus

\* A new process knows nothing.
LEMMA StartOverIInv == IInv /\ StartOver => IInv'
<1> SUFFICES ASSUME IInv, StartOver PROVE IInv'
  OBVIOUS
<1>1. MaxTime \in Nat
  BY EnergyMetricsAssumption DEF EnergyMetricsAssumption
<1>2. podFault' \in BOOLEAN
  BY DEF StartOver
<1>3. TypeOK'
  BY <1>1, <1>2 DEF IInv, TypeOK, Times, StartOver, prometheus
<1> QED BY <1>3
        DEF IInv, TypeOK, StartOver, prometheus, KeepUpInv, LearnedInv

-------------------------------------------------------------------------------
\* A fault stays within the bound.
LEMMA FaultType == TypeOK /\ Fault => faults' \in 0..MaxFaults
BY EnergyMetricsAssumption DEF TypeOK, Fault, EnergyMetricsAssumption

\* What an answer of Prometheus is.
LEMMA AnswerType ==
    ASSUME TypeOK, NEW t \in Times, Answers(t)
    PROVE  t \in 0..time /\ faults' \in 0..MaxFaults
<1>1. CASE t = Answer /\ UNCHANGED faults
  BY <1>1 DEF TypeOK, Times, Answer
<1>2. CASE t \in 1..time /\ t < Answer /\ Fault
  BY <1>2, FaultType DEF TypeOK, Times
<1> QED BY <1>1, <1>2 DEF Answers

LEMMA QueriesIInv ==
    IInv /\ ((\E t \in Times : GetNodeMicroWatts(t) \/ GetPodMicroWatts(t)) \/ QueryFails) => IInv'
<1> SUFFICES ASSUME IInv
             PROVE  (\E t \in Times : GetNodeMicroWatts(t) \/ GetPodMicroWatts(t)) \/ QueryFails => IInv'
  OBVIOUS
<1>1. TypeOK
  BY DEF IInv
<1>2. ASSUME NEW t \in Times, GetNodeMicroWatts(t) PROVE IInv'
  <2>1. /\ cpc = "idle" /\ cpc' = "setNodeData" /\ response' = t
        /\ t \in 0..time /\ faults' \in 0..MaxFaults
        /\ UNCHANGED <<prometheus, unlearned, shared, history, reader>>
    BY <1>1, <1>2, AnswerType DEF GetNodeMicroWatts
  <2>2. TypeOK'
    BY <1>1, <2>1 DEF TypeOK, prometheus, shared, history, reader
  <2> QED BY <2>1, <2>2 DEF IInv, KeepUpInv, LearnedInv, prometheus, shared, history
<1>3. ASSUME NEW t \in Times, GetPodMicroWatts(t) PROVE IInv'
  <2>1. /\ cpc = "podQuery" /\ cpc' = "setLabels" /\ response' = t /\ podFault' = (t # time)
        /\ t \in 0..time /\ faults' \in 0..MaxFaults
        /\ UNCHANGED <<prometheus, unlearned, shared, known, reader>>
    BY <1>1, <1>3, AnswerType DEF GetPodMicroWatts
  <2>2. TypeOK'
    BY <1>1, <2>1 DEF TypeOK, prometheus, shared, reader
  <2>3. last_unix_t <= time /\ UNCHANGED <<last_unix_t, nodeData, labelTime>>
    BY <1>1, <2>1 DEF TypeOK, Times, shared
  <2>4. ~ podFault' => response' >= last_unix_t
    BY <2>1, <2>3
  <2>5. KeepUpInv'
    BY <2>1, <2>3, <2>4 DEF IInv, KeepUpInv
  <2> QED BY <2>1, <2>2, <2>5 DEF IInv, LearnedInv, prometheus, shared
<1>4. CASE QueryFails
  <2>1. /\ cpc \in {"idle", "podQuery"} /\ cpc' = "idle" /\ faults' \in 0..MaxFaults
        /\ podFault' = (podFault \/ cpc = "podQuery")
        /\ UNCHANGED <<prometheus, response, unlearned, shared, known, reader>>
    BY <1>1, <1>4, FaultType DEF QueryFails
  <2>2. TypeOK'
    BY <1>1, <2>1 DEF TypeOK, prometheus, shared, reader
  <2> QED BY <2>1, <2>2 DEF IInv, KeepUpInv, LearnedInv, prometheus, shared
<1> QED BY <1>2, <1>3, <1>4

\* The node data are those of the response, and the time they are compared
\* with is the greatest so far.
LEMMA SetNodeDataIInv == IInv /\ SetNodeData => IInv'
<1> SUFFICES ASSUME IInv, SetNodeData PROVE IInv'
  OBVIOUS
<1>1. /\ TypeOK /\ cpc = "setNodeData" /\ nodeData' = response
      /\ podFault' = (podFault /\ cpc' # "podQuery")
      /\ UNCHANGED <<prometheus, response, unlearned, podLabels, labelTime, microWatts,
                     pod_last_unix_t, known, reader, faults>>
  BY DEF IInv, SetNodeData
<1>2. CASE response > last_unix_t
  <2>1. last_unix_t' = response /\ cpc' = "podQuery"
    BY <1>2 DEF SetNodeData
  <2>2. TypeOK'
    BY <1>1, <2>1 DEF TypeOK, prometheus, reader
  <2>3. KeepUpInv'
    BY <1>1, <2>1 DEF TypeOK, KeepUpInv
  <2> QED BY <1>1, <2>1, <2>2, <2>3 DEF IInv, LearnedInv
<1>3. CASE ~ (response > last_unix_t)
  <2>1. last_unix_t' = last_unix_t /\ cpc' = "idle"
    BY <1>3 DEF SetNodeData
  <2>2. TypeOK'
    BY <1>1, <2>1 DEF TypeOK, prometheus, reader
  <2>3. KeepUpInv'
    BY <1>1, <1>3, <2>1 DEF IInv, TypeOK, Times, KeepUpInv
  <2> QED BY <1>1, <2>1, <2>2, <2>3 DEF IInv, LearnedInv
<1> QED BY <1>2, <1>3

\* The labels, the time and the list of what is to be learned, all of the
\* response of the pod query.
LEMMA UpdatePodsIInv == IInv /\ (SetScaphPodLabels \/ SetPodTime) => IInv'
<1> SUFFICES ASSUME IInv PROVE SetScaphPodLabels \/ SetPodTime => IInv'
  OBVIOUS
<1>1. /\ TypeOK /\ response \in 0..time
      /\ LabelsOf(response) \subseteq Names /\ JobsOf(response) \subseteq Names
  BY PodsOfType DEF IInv, TypeOK
<1>2. CASE SetScaphPodLabels
  <2>1. /\ cpc = "setLabels" /\ cpc' = "setTime"
        /\ podLabels' = LabelsOf(response) /\ labelTime' = response
        /\ UNCHANGED <<prometheus, response, unlearned, nodeData, last_unix_t, microWatts,
                       pod_last_unix_t, history, reader, faults>>
    BY <1>2 DEF SetScaphPodLabels
  <2>2. TypeOK'
    BY <1>1, <2>1 DEF TypeOK, prometheus, history, reader
  <2> QED BY <2>1, <2>2 DEF IInv, KeepUpInv, LearnedInv, prometheus, history
<1>3. CASE SetPodTime
  <2>1. /\ cpc = "setTime" /\ cpc' = "learn" /\ unlearned' = JobsOf(response)
        /\ pod_last_unix_t' \in {response, pod_last_unix_t}
        /\ UNCHANGED <<prometheus, response, nodeData, last_unix_t, podLabels, labelTime,
                       microWatts, history, reader, faults>>
    BY <1>3 DEF SetPodTime
  <2>2. TypeOK'
    BY <1>1, <2>1 DEF TypeOK, prometheus, history, reader
  <2>3. JobsOf(response)' = JobsOf(response)
    BY <2>1 DEF JobsOf, PodsOf, prometheus
  <2> QED BY <2>1, <2>2, <2>3 DEF IInv, KeepUpInv, LearnedInv, history
<1> QED BY <1>2, <1>3

LEMMA LearnIInv == IInv /\ ((\E j \in Names : LearnJob(j)) \/ SetAverage) => IInv'
<1> SUFFICES ASSUME IInv PROVE (\E j \in Names : LearnJob(j)) \/ SetAverage => IInv'
  OBVIOUS
<1>1. ASSUME NEW j \in Names, LearnJob(j) PROVE IInv'
  <2>1. /\ cpc = "learn" /\ unlearned' = unlearned \ {j} /\ microWatts' = microWatts \cup {j}
        /\ UNCHANGED <<prometheus, cpc, response, nodeData, last_unix_t, podLabels, labelTime,
                       pod_last_unix_t, history, reader, faults>>
    BY <1>1 DEF LearnJob
  <2>2. TypeOK'
    BY <2>1 DEF IInv, TypeOK, prometheus, history, reader
  <2>3. JobsOf(response)' = JobsOf(response)
    BY <2>1 DEF JobsOf, PodsOf, prometheus
  <2> QED BY <2>1, <2>2, <2>3 DEF IInv, KeepUpInv, LearnedInv, history
<1>2. CASE SetAverage
  <2>1. /\ cpc = "learn" /\ unlearned = {} /\ cpc' = "idle"
        /\ known' = known \cup JobsOf(response)
        /\ UNCHANGED <<prometheus, response, unlearned, shared, podFault, reader, faults>>
    BY <1>2 DEF SetAverage
  <2>2. JobsOf(response) \subseteq Names
    BY PodsOfType DEF IInv, TypeOK
  <2>3. TypeOK'
    BY <2>1, <2>2 DEF IInv, TypeOK, prometheus, shared, reader
  <2> QED BY <2>1, <2>3 DEF IInv, KeepUpInv, LearnedInv, shared
<1> QED BY <1>1, <1>2

LEMMA CollectorIInv == IInv /\ Collector => IInv'
BY QueriesIInv, SetNodeDataIInv, UpdatePodsIInv, LearnIInv, StartOverIInv
   DEF Collector, AveragePanics

\* selectNode only reads, unless the runtime ends the process.
LEMMA SelectionIInv == IInv /\ Selection => IInv'
<1> SUFFICES ASSUME IInv, Selection PROVE IInv'
  OBVIOUS
<1>1. CASE GetNodeData \/ GetPods \/ SelectionEnds
  <2>1. UNCHANGED <<prometheus, collector, faults>>
    BY <1>1 DEF GetNodeData, GetPods, SelectionEnds
  <2>2. TypeOK'
    BY <1>1, <2>1, EnergyMetricsAssumption
       DEF IInv, TypeOK, Times, GetNodeData, GetPods, SelectionEnds, prometheus, collector,
           shared, history, EnergyMetricsAssumption
  <2> QED BY <2>1, <2>2, OthersIInv DEF prometheus
<1>2. CASE GetPodsFails \/ GetPodsAnswersError
  <2>1. UNCHANGED <<prometheus, collector>> /\ faults' \in 0..MaxFaults
    BY <1>2, FaultType DEF GetPodsFails, GetPodsAnswersError, IInv
  <2>2. TypeOK'
    BY <1>2, <2>1, EnergyMetricsAssumption
       DEF IInv, TypeOK, Times, GetPodsFails, GetPodsAnswersError, prometheus, collector,
           shared, history, EnergyMetricsAssumption
  <2> QED BY <2>1, <2>2, OthersIInv DEF prometheus
<1>3. ASSUME NEW p \in Pods,
             SkipLabelledPod(p) \/ CorrectByEstimate(p) \/ CorrectByAverage(p)
      PROVE  IInv'
  <2>1. UNCHANGED <<prometheus, collector, faults>>
    BY <1>3 DEF SkipLabelledPod, CorrectByEstimate, CorrectByAverage
  <2>2. TypeOK'
    BY <1>3, <2>1
       DEF IInv, TypeOK, SkipLabelledPod, CorrectByEstimate, CorrectByAverage, prometheus,
           collector, shared, history
  <2> QED BY <2>1, <2>2, OthersIInv DEF prometheus
<1>4. ASSUME NEW p \in Pods, MapRace(p) PROVE IInv'
  BY <1>4, StartOverIInv DEF MapRace
<1> QED BY <1>1, <1>2, <1>3, <1>4 DEF Selection

\* Every step of the cluster, the collector and selectNode keeps it.
THEOREM NextIInv == IInv /\ [Next]_vars => IInv'
<1> SUFFICES ASSUME IInv, [Next]_vars PROVE IInv'
  OBVIOUS
<1>1. CASE UNCHANGED vars
  BY <1>1 DEF vars, prometheus, collector, shared, history, reader, IInv, TypeOK, KeepUpInv,
              LearnedInv, JobsOf, PodsOf
<1> QED BY <1>1, PrometheusIInv, CollectorIInv, SelectionIInv DEF Next

\* So it holds in every state of the process.
THEOREM SpecIInv == Spec => []IInv
BY InitIInv, NextIInv, PTL DEF Spec

\* Every variable of the shared energy data has its type, also after restarts.
THEOREM TypeCorrect == Spec => []TypeOK
<1>1. IInv => TypeOK
  BY DEF IInv
<1> QED BY <1>1, SpecIInv, PTL

\* Between collections ScaphPodLabels is as recent as any node data that were
\* stored, unless the pod query went wrong: also when the time that comes with
\* the samples slips back (collectEnergyMetrics, setNodeData).
THEOREM LabelsAlwaysKeepUp == Spec => []LabelsKeepUp
<1>1. IInv => LabelsKeepUp
  BY DEF IInv, KeepUpInv, LabelsKeepUp
<1> QED BY <1>1, SpecIInv, PTL

\* getNodeCorrections uses the average for no pod whose app label is the job of
\* a series that updatePodMicroWatts has dealt with.
THEOREM KnownIsAlwaysEstimated == Spec => KnownIsEstimated
<1>1. IInv /\ [Next]_vars => [\A p \in Pods : CorrectByAverage(p) => App[p] \notin known]_vars
  BY DEF IInv, LearnedInv, CorrectByAverage
<1> QED BY <1>1, SpecIInv, PTL DEF Spec, KnownIsEstimated
===============================================================================
