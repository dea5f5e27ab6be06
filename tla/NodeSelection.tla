----------------------------- MODULE NodeSelection -----------------------------
(***************************************************************************)
(* How selectNode picks a node: getNodeCorrections estimates, for every    *)
(* node, the power of the pods Scaphandre does not report yet, and         *)
(* selectNode looks for the node with the least power, corrections         *)
(* included.  Both are loops over lists the API server returns; each       *)
(* iteration is one step here, so that what a loop has achieved is an      *)
(* invariant.                                                              *)
(*                                                                         *)
(* The inputs are fixed when the call starts: selectNode copies the node   *)
(* data under their mutex and reads the pod list once.  EnergyMetrics      *)
(* models the data that change while the call runs.  Scaphandre's nodeData *)
(* and nodeIpMap are composed into watts, a function from the nodes for    *)
(* which both have an entry.                                               *)
(***************************************************************************)
EXTENDS Naturals, Sequences, Functions

CONSTANTS
    Nodes, Apps, Unbound,
    Controllers,    \* nodes whose name contains "controller"
    MaxInt64,       \* math.MaxInt64
    FitLists,       \* the lists of nodes that fit may return
    PodLists,       \* the lists of pods that getPods may return
    NodeWatts,      \* the node data that getNodeData may return
    PodWatts,       \* the contents microWatts may have
    Averages        \* the values avgPodMicroWatts may have

\* A listed pod: its spec.nodeName ("" is Unbound), its label "app", and
\* whether its name is in ScaphPodLabels.
Pod == [node : Nodes \cup {Unbound}, app : Apps, labelled : BOOLEAN]

\* The power readings are far from math.MaxInt64, also when one is added to
\* another.
ASSUME NodeSelectionAssumption ==
    /\ Unbound \notin Nodes
    /\ MaxInt64 \in Nat
    /\ FitLists \subseteq Seq(Nodes)
    /\ \A l \in FitLists : IsInjective(l)
    /\ PodLists \subseteq Seq(Pod)
    /\ Averages \subseteq Nat
    /\ \A w \in NodeWatts : w \in [DOMAIN w -> Nat] /\ DOMAIN w \subseteq Nodes
    /\ \A m \in PodWatts : m \in [DOMAIN m -> Nat] /\ DOMAIN m \subseteq Apps
    /\ \A w \in NodeWatts : \A n \in DOMAIN w :
          /\ \A e \in Averages : w[n] + e < MaxInt64
          /\ \A m \in PodWatts : \A a \in DOMAIN m : w[n] + m[a] < MaxInt64

VARIABLES
    fitting,    \* the parameter nodes of selectNode
    pods,       \* the items of getNodeCorrections' pod list
    watts,      \* nodeData by node name
    micro, avg, \* microWatts and avgPodMicroWatts
    pc,         \* "correct", "choose" or "done"
    i,          \* position in the list the current loop ranges over
    nodeCorr,   \* the corrections, a function from the nodes that have one
    nodeIdx,    \* index of the best node so far, 0 for none
    bestWatts

inputs == <<fitting, pods, watts, micro, avg>>
vars == <<inputs, pc, i, nodeCorr, nodeIdx, bestWatts>>

\* Mutant: bestWatts starts at Go's zero value.
InitZero ==
    /\ fitting \in FitLists
    /\ pods \in PodLists
    /\ watts \in NodeWatts
    /\ micro \in PodWatts
    /\ avg \in Averages
    /\ pc = "correct"
    /\ i = 1
    /\ nodeCorr = [n \in {} |-> 0]
    /\ nodeIdx = 0
    /\ bestWatts = 0

Init ==
    /\ fitting \in FitLists
    /\ pods \in PodLists
    /\ watts \in NodeWatts
    /\ micro \in PodWatts
    /\ avg \in Averages
    /\ pc = "correct"
    /\ i = 1
    /\ nodeCorr = [n \in {} |-> 0]
    /\ nodeIdx = 0
    /\ bestWatts = MaxInt64

-------------------------------------------------------------------------------
(* getNodeCorrections                                                      *)

\* The power one pod is expected to draw: what its app drew before, or the
\* average of all pods.
Estimate(p) == IF p.app \in DOMAIN micro THEN micro[p.app] ELSE avg

\* Mutant: the last unknown pod of a node replaces the ones before it.
ReplaceCorrection(p) ==
    IF p.labelled
    THEN nodeCorr
    ELSE [n \in DOMAIN nodeCorr \cup {p.node} |->
             IF n = p.node THEN Estimate(p) ELSE nodeCorr[n]]

\* A node that has a correction already keeps it: the addition changes nc,
\* the copy that the range loop makes of the entry.
AddCorrection(p) ==
    IF p.labelled \/ p.node \in DOMAIN nodeCorr
    THEN nodeCorr
    ELSE [n \in DOMAIN nodeCorr \cup {p.node} |->
             IF n = p.node THEN Estimate(p) ELSE nodeCorr[n]]

CorrectForPod ==
    /\ pc = "correct"
    /\ i <= Len(pods)
    /\ nodeCorr' = AddCorrection(pods[i])
    /\ i' = i + 1
    /\ UNCHANGED <<inputs, pc, nodeIdx, bestWatts>>

CorrectionsDone ==
    /\ pc = "correct"
    /\ i > Len(pods)
    /\ pc' = "choose"
    /\ i' = 1
    /\ UNCHANGED <<inputs, nodeCorr, nodeIdx, bestWatts>>

-------------------------------------------------------------------------------
(* selectNode                                                              *)

Candidate(n) == n \notin Controllers /\ n \in DOMAIN watts
ExtraEnergy(n) == IF n \in DOMAIN nodeCorr THEN nodeCorr[n] ELSE 0
CorrectedNodeWatts(n) == watts[n] + ExtraEnergy(n)

\* Mutant: an equal reading may lose, as with < for <=.
SkipEqualNode ==
    /\ pc = "choose"
    /\ i <= Len(fitting)
    /\ Candidate(fitting[i]) => CorrectedNodeWatts(fitting[i]) >= bestWatts
    /\ i' = i + 1
    /\ UNCHANGED <<inputs, pc, nodeCorr, nodeIdx, bestWatts>>

SkipNode ==
    /\ pc = "choose"
    /\ i <= Len(fitting)
    /\ \/ ~ Candidate(fitting[i])
       \/ Candidate(fitting[i]) /\ CorrectedNodeWatts(fitting[i]) > bestWatts
    /\ i' = i + 1
    /\ UNCHANGED <<inputs, pc, nodeCorr, nodeIdx, bestWatts>>

\* Mutant: bestWatts keeps its first value.
TakeNodeNoBound ==
    /\ pc = "choose"
    /\ i <= Len(fitting)
    /\ Candidate(fitting[i])
    /\ CorrectedNodeWatts(fitting[i]) <= bestWatts
    /\ nodeIdx' = i
    /\ i' = i + 1
    /\ UNCHANGED <<inputs, pc, nodeCorr, bestWatts>>

\* The comparison uses the corrected power, the bound for the nodes to come
\* is the measured one.
TakeNode ==
    /\ pc = "choose"
    /\ i <= Len(fitting)
    /\ Candidate(fitting[i])
    /\ CorrectedNodeWatts(fitting[i]) <= bestWatts
    /\ nodeIdx' = i
    /\ bestWatts' = watts[fitting[i]]
    /\ i' = i + 1
    /\ UNCHANGED <<inputs, pc, nodeCorr>>

\* nodes[nodeIdx], or the error "No node found" when nodeIdx is 0.
SelectionDone ==
    /\ pc = "choose"
    /\ i > Len(fitting)
    /\ pc' = "done"
    /\ UNCHANGED <<inputs, i, nodeCorr, nodeIdx, bestWatts>>

Next ==
    \/ CorrectForPod
    \/ CorrectionsDone
    \/ SkipNode
    \/ TakeNode
    \/ SelectionDone

Spec == Init /\ [][Next]_vars

-------------------------------------------------------------------------------
\* Every variable has its type, and the inputs stay what they were.
TypeOK ==
    /\ fitting \in FitLists
    /\ pods \in PodLists
    /\ watts \in NodeWatts
    /\ micro \in PodWatts
    /\ avg \in Averages
    /\ pc \in {"correct", "choose", "done"}
    /\ i \in 1..(IF pc = "correct" THEN Len(pods) ELSE Len(fitting)) + 1
    /\ nodeCorr \in [DOMAIN nodeCorr -> Nat]
    /\ DOMAIN nodeCorr \subseteq Nodes \cup {Unbound}
    /\ nodeIdx \in 0..Len(fitting)
    /\ bestWatts \in Nat

\* selectNode fails with "No node found" only when none of the nodes is a
\* worker with node data, and the node it returns is always one of those:
\* what fit promised and what Scaphandre measured hold for the choice.
ChoiceIsCandidate ==
    pc = "done" =>
        IF nodeIdx = 0 THEN \A k \in DOMAIN fitting : ~ Candidate(fitting[k])
                       ELSE Candidate(fitting[nodeIdx])

\* What the comparison guarantees: the measured power of the chosen node is
\* at most the corrected power of every node it was compared with.
ChoiceBound ==
    (pc = "done" /\ nodeIdx # 0) =>
        \A k \in DOMAIN fitting :
            Candidate(fitting[k]) =>
                watts[fitting[nodeIdx]] <= CorrectedNodeWatts(fitting[k])

\* Without corrections the choice is a node with the least power, and the
\* last one in the list of those: equal nodes do not all lose to the first.
LeastWithoutCorrections ==
    (pc = "done" /\ nodeIdx # 0 /\ DOMAIN nodeCorr \cap DOMAIN watts = {}) =>
        \A k \in DOMAIN fitting :
            Candidate(fitting[k]) =>
                \/ watts[fitting[nodeIdx]] < watts[fitting[k]]
                \/ watts[fitting[nodeIdx]] = watts[fitting[k]] /\ k <= nodeIdx

\* A node is corrected exactly when a pod Scaphandre does not know runs on
\* it, and by the estimate of the first such pod in the list.
Unknown(k) == ~ pods[k].labelled
FirstPodCorrects ==
    pc # "correct" =>
        \A n \in Nodes \cup {Unbound} :
            LET P == {k \in DOMAIN pods : Unknown(k) /\ pods[k].node = n}
            IN  IF P = {} THEN n \notin DOMAIN nodeCorr
                ELSE /\ n \in DOMAIN nodeCorr
                     /\ \E k \in P : /\ \A l \in P : k <= l
                                     /\ nodeCorr[n] = Estimate(pods[k])

\* Every pod Scaphandre does not know adds its estimate to its node.
AllPodsCorrect ==
    pc # "correct" =>
        \A n \in DOMAIN nodeCorr :
            nodeCorr[n] = FoldFunctionOnSet(LAMBDA p, s : Estimate(p) + s, 0, pods,
                             {k \in DOMAIN pods : Unknown(k) /\ pods[k].node = n})
===============================================================================
