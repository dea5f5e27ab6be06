-------------------------- MODULE NodeSelectionProofs --------------------------
(***************************************************************************)
(* Theorems about NodeSelection, for lists of any length and any readings. *)
(***************************************************************************)
EXTENDS NodeSelection, SequenceTheorems, TLAPS

\* Every correction is an estimate of one pod.
CorrOK ==
    \A n \in DOMAIN nodeCorr :
        nodeCorr[n] = avg \/ \E a \in DOMAIN micro : nodeCorr[n] = micro[a]

\* The pods looked at so far, i excluded, have corrected their nodes.
Seen == IF pc = "correct" THEN i - 1 ELSE Len(pods)
CorrectInv ==
    \A n \in Nodes \cup {Unbound} :
        /\ n \in DOMAIN nodeCorr <=>
              \E k \in 1..Seen : Unknown(k) /\ pods[k].node = n
        /\ n \in DOMAIN nodeCorr =>
              \E k \in 1..Seen :
                  /\ Unknown(k) /\ pods[k].node = n /\ nodeCorr[n] = Estimate(pods[k])
                  /\ \A l \in 1..Seen : Unknown(l) /\ pods[l].node = n => k <= l

\* The nodes looked at so far have been compared with the best one.
ChooseInv ==
    /\ pc = "correct" => nodeIdx = 0 /\ bestWatts = MaxInt64
    /\ pc = "done" => i = Len(fitting) + 1
    /\ pc # "correct" => nodeIdx < i
    /\ pc # "correct" /\ nodeIdx = 0 =>
          /\ bestWatts = MaxInt64
          /\ \A k \in 1..(i - 1) : ~ Candidate(fitting[k])
    /\ pc # "correct" /\ nodeIdx # 0 =>
          /\ Candidate(fitting[nodeIdx])
          /\ bestWatts = watts[fitting[nodeIdx]]
          /\ \A k \in 1..(i - 1) :
                Candidate(fitting[k]) => bestWatts <= CorrectedNodeWatts(fitting[k])

\* Where no candidate is corrected, the best node is the last of the least.
LeastInv ==
    pc # "correct" /\ nodeIdx # 0 /\ DOMAIN nodeCorr \cap DOMAIN watts = {} =>
        \A k \in 1..(i - 1) :
            Candidate(fitting[k]) =>
                \/ watts[fitting[nodeIdx]] < watts[fitting[k]]
                \/ watts[fitting[nodeIdx]] = watts[fitting[k]] /\ k <= nodeIdx

IInv == TypeOK /\ CorrOK /\ CorrectInv /\ ChooseInv /\ LeastInv

-------------------------------------------------------------------------------
\* What the assumption says of the inputs of one call.
LEMMA Inputs ==
    TypeOK => /\ fitting \in Seq(Nodes) /\ Len(fitting) \in Nat
              /\ DOMAIN fitting = 1..Len(fitting)
              /\ pods \in Seq(Pod) /\ Len(pods) \in Nat
              /\ DOMAIN pods = 1..Len(pods)
              /\ watts \in [DOMAIN watts -> Nat] /\ DOMAIN watts \subseteq Nodes
              /\ micro \in [DOMAIN micro -> Nat] /\ DOMAIN micro \subseteq Apps
              /\ avg \in Nat
              /\ MaxInt64 \in Nat
              /\ Unbound \notin Nodes
BY NodeSelectionAssumption, LenProperties DEF NodeSelectionAssumption, TypeOK

\* A corrected reading does not reach math.MaxInt64, where the search starts.
LEMMA CorrectedBound ==
    ASSUME TypeOK, CorrOK, NEW n, Candidate(n)
    PROVE  /\ watts[n] \in Nat
           /\ CorrectedNodeWatts(n) \in Nat
           /\ watts[n] <= CorrectedNodeWatts(n)
           /\ CorrectedNodeWatts(n) <= MaxInt64
<1>1. n \in DOMAIN watts /\ watts[n] \in Nat
  BY Inputs DEF Candidate
<1>2. /\ watts[n] + avg < MaxInt64
      /\ \A a \in DOMAIN micro : watts[n] + micro[a] < MaxInt64
  BY <1>1, NodeSelectionAssumption DEF NodeSelectionAssumption, TypeOK
<1>3. CASE n \in DOMAIN nodeCorr
  <2>1. nodeCorr[n] \in Nat /\ CorrectedNodeWatts(n) = watts[n] + nodeCorr[n]
    BY <1>3 DEF TypeOK, CorrectedNodeWatts, ExtraEnergy
  <2>2. watts[n] + nodeCorr[n] <= MaxInt64
    <3>1. CASE nodeCorr[n] = avg
      BY <1>1, <1>2, <3>1, Inputs
    <3>2. ASSUME NEW a \in DOMAIN micro, nodeCorr[n] = micro[a]
          PROVE  watts[n] + nodeCorr[n] <= MaxInt64
      BY <1>1, <1>2, <3>2, Inputs
    <3> QED BY <1>3, <3>1, <3>2 DEF CorrOK
  <2> QED BY <1>1, <2>1, <2>2
<1>4. CASE n \notin DOMAIN nodeCorr
  <2>1. CorrectedNodeWatts(n) = watts[n] + 0
    BY <1>4 DEF CorrectedNodeWatts, ExtraEnergy
  <2> QED BY <1>1, <1>2, <2>1, Inputs
<1> QED BY <1>3, <1>4

\* The invariant holds when a call of selectNode starts.
THEOREM InitIInv == Init => IInv
<1> SUFFICES ASSUME Init PROVE IInv
  OBVIOUS
<1>1. TypeOK
  BY NodeSelectionAssumption, LenProperties DEF Init, TypeOK, NodeSelectionAssumption
<1> QED BY <1>1, Inputs DEF Init, IInv, CorrOK, CorrectInv, Seen, ChooseInv, LeastInv

\* One pod of getNodeCorrections.
LEMMA CorrectForPodIInv == IInv /\ CorrectForPod => IInv'
<1> SUFFICES ASSUME IInv, CorrectForPod PROVE IInv'
  OBVIOUS
<1> DEFINE p == pods[i]
<1>1. /\ TypeOK /\ pc = "correct" /\ i \in 1..Len(pods) /\ i' = i + 1 /\ Len(pods) \in Nat
      /\ UNCHANGED <<fitting, pods, watts, micro, avg, pc, nodeIdx, bestWatts>>
      /\ nodeCorr' = AddCorrection(p)
  BY Inputs DEF CorrectForPod, IInv, TypeOK, inputs
<1>2. p \in Pod /\ p.node \in Nodes \cup {Unbound} /\ p.app \in Apps
  <2>1. p \in Pod
    BY <1>1, Inputs, ElementOfSeq
  <2> QED BY <2>1 DEF Pod
<1>3. /\ Estimate(p) \in Nat
      /\ Estimate(p) = avg \/ \E a \in DOMAIN micro : Estimate(p) = micro[a]
  BY <1>1, Inputs DEF Estimate
<1>4. CASE p.labelled \/ p.node \in DOMAIN nodeCorr
  <2>1. nodeCorr' = nodeCorr
    BY <1>1, <1>4 DEF AddCorrection
  <2>2. TypeOK' /\ CorrOK' /\ ChooseInv' /\ LeastInv'
    BY <1>1, <2>1, Inputs DEF IInv, TypeOK, CorrOK, ChooseInv, LeastInv, Candidate
  <2>3. CorrectInv'
    BY <1>1, <1>4, <2>1 DEF IInv, CorrectInv, Seen, Unknown, Estimate
  <2> QED BY <2>2, <2>3 DEF IInv
<1>5. CASE ~ p.labelled /\ p.node \notin DOMAIN nodeCorr
  <2>1. /\ DOMAIN nodeCorr' = DOMAIN nodeCorr \cup {p.node}
        /\ nodeCorr'[p.node] = Estimate(p)
        /\ \A n \in DOMAIN nodeCorr : nodeCorr'[n] = nodeCorr[n]
        /\ nodeCorr' = [n \in DOMAIN nodeCorr' |-> nodeCorr'[n]]
    BY <1>1, <1>5 DEF AddCorrection
  <2>2. TypeOK'
    BY <1>1, <1>2, <1>3, <2>1, Inputs DEF IInv, TypeOK
  <2>3. CorrOK' /\ ChooseInv' /\ LeastInv'
    BY <1>1, <1>3, <2>1 DEF IInv, CorrOK, ChooseInv, LeastInv
  <2>4. CorrectInv'
    <3>1. Seen = i - 1 /\ Seen' = i /\ 1..i = 1..(i - 1) \cup {i}
      BY <1>1 DEF Seen
    <3>2. ASSUME NEW k \in 1..(i - 1), Unknown(k) PROVE pods[k].node # p.node
      BY <1>2, <1>5, <3>1, <3>2 DEF IInv, CorrectInv
    <3>3. \A q : Estimate(q)' = Estimate(q)
      BY <1>1 DEF Estimate
    <3>4. \A k : Unknown(k)' <=> Unknown(k)
      BY <1>1 DEF Unknown
    <3> SUFFICES ASSUME NEW n \in Nodes \cup {Unbound}
                 PROVE  /\ n \in DOMAIN nodeCorr' <=>
                              \E k \in 1..i : Unknown(k) /\ pods[k].node = n
                        /\ n \in DOMAIN nodeCorr' =>
                              \E k \in 1..i :
                                 /\ Unknown(k) /\ pods[k].node = n
                                 /\ nodeCorr'[n] = Estimate(pods[k])
                                 /\ \A l \in 1..i : Unknown(l) /\ pods[l].node = n => k <= l
      BY <1>1, <3>1, <3>3, <3>4 DEF CorrectInv
    <3>5. CASE n = p.node
      BY <1>1, <1>5, <2>1, <3>1, <3>2, <3>5 DEF Unknown
    <3>6. CASE n # p.node
      BY <1>1, <1>5, <2>1, <3>1, <3>6 DEF IInv, CorrectInv
    <3> QED BY <3>5, <3>6
  <2> QED BY <2>2, <2>3, <2>4 DEF IInv
<1> QED BY <1>4, <1>5

\* getNodeCorrections returns, and selectNode starts its loop.
LEMMA CorrectionsDoneIInv == IInv /\ CorrectionsDone => IInv'
<1> SUFFICES ASSUME IInv, CorrectionsDone PROVE IInv'
  OBVIOUS
<1>1. /\ TypeOK /\ pc = "correct" /\ pc' = "choose" /\ i = Len(pods) + 1 /\ i' = 1
      /\ Len(pods) \in Nat /\ Len(fitting) \in Nat
      /\ UNCHANGED <<fitting, pods, watts, micro, avg, nodeCorr, nodeIdx, bestWatts>>
  BY Inputs DEF CorrectionsDone, IInv, TypeOK, inputs
<1>2. TypeOK'
  BY <1>1 DEF TypeOK
<1>3. CorrOK' /\ ChooseInv' /\ LeastInv'
  BY <1>1, NodeSelectionAssumption
  DEF IInv, CorrOK, ChooseInv, LeastInv, NodeSelectionAssumption
<1>4. CorrectInv'
  <2>1. Seen' = Seen
    BY <1>1 DEF Seen
  <2> QED BY <1>1, <2>1 DEF IInv, CorrectInv, Unknown, Estimate
<1> QED BY <1>2, <1>3, <1>4 DEF IInv

\* One node of selectNode.
LEMMA CompareNodeIInv == IInv /\ (SkipNode \/ TakeNode) => IInv'
<1> SUFFICES ASSUME IInv, SkipNode \/ TakeNode PROVE IInv'
  OBVIOUS
<1>1. /\ TypeOK /\ pc = "choose" /\ i \in 1..Len(fitting) /\ i' = i + 1 /\ Len(fitting) \in Nat
      /\ UNCHANGED <<fitting, pods, watts, micro, avg, pc, nodeCorr>>
      /\ nodeIdx < i /\ nodeIdx \in Nat
  BY Inputs DEF SkipNode, TakeNode, IInv, TypeOK, ChooseInv, inputs
<1>0. PICK n : n = fitting[i]
  OBVIOUS
<1>2. 1..(i' - 1) = 1..(i - 1) \cup {i}
  BY <1>1
<1>3. \A m : /\ Candidate(m)' <=> Candidate(m)
             /\ CorrectedNodeWatts(m)' = CorrectedNodeWatts(m)
  BY <1>1 DEF Candidate, CorrectedNodeWatts, ExtraEnergy
<1>4. \A m : Candidate(m) => /\ watts[m] \in Nat
                             /\ CorrectedNodeWatts(m) \in Nat
                             /\ watts[m] <= CorrectedNodeWatts(m)
                             /\ CorrectedNodeWatts(m) <= MaxInt64
  BY <1>1, CorrectedBound DEF IInv
<1>5. \A m : Candidate(m) /\ DOMAIN nodeCorr \cap DOMAIN watts = {} =>
               CorrectedNodeWatts(m) = watts[m]
  BY <1>4 DEF Candidate, CorrectedNodeWatts, ExtraEnergy
<1>6. CorrOK' /\ CorrectInv'
  BY <1>1 DEF IInv, CorrOK, CorrectInv, Seen, Unknown, Estimate
<1>7. CASE SkipNode
  <2>1. /\ UNCHANGED <<nodeIdx, bestWatts>>
        /\ ~ Candidate(n) \/ CorrectedNodeWatts(n) > bestWatts
    BY <1>0, <1>7 DEF SkipNode
  <2>2. TypeOK'
    BY <1>1, <2>1 DEF TypeOK
  <2>3. ChooseInv'
    BY <1>0, <1>1, <1>2, <1>3, <1>4, <2>1 DEF IInv, TypeOK, ChooseInv
  <2>4. LeastInv'
    BY <1>0, <1>1, <1>2, <1>3, <1>4, <1>5, <2>1 DEF IInv, TypeOK, ChooseInv, LeastInv
  <2> QED BY <1>6, <2>2, <2>3, <2>4 DEF IInv
<1>8. CASE TakeNode
  <2>1. /\ Candidate(n) /\ CorrectedNodeWatts(n) <= bestWatts
        /\ nodeIdx' = i /\ bestWatts' = watts[n]
    BY <1>0, <1>8 DEF TakeNode
  <2>2. TypeOK'
    BY <1>1, <1>4, <2>1 DEF TypeOK
  <2>3. /\ watts[n] \in Nat /\ watts[n] <= CorrectedNodeWatts(n)
        /\ bestWatts \in Nat /\ watts[n] <= bestWatts
    <3>1. bestWatts \in Nat
      BY <1>1 DEF TypeOK
    <3>2. /\ watts[n] \in Nat /\ CorrectedNodeWatts(n) \in Nat
          /\ watts[n] <= CorrectedNodeWatts(n)
      BY <1>4, <2>1
    <3> QED BY <2>1, <3>1, <3>2
  <2>4. ASSUME NEW k \in 1..(i - 1), Candidate(fitting[k])
        PROVE  nodeIdx # 0 /\ bestWatts <= CorrectedNodeWatts(fitting[k])
    BY <1>1, <2>4 DEF IInv, ChooseInv
  <2>5. ChooseInv'
    <3>1. ASSUME NEW k \in 1..i, Candidate(fitting[k])
          PROVE  watts[n] <= CorrectedNodeWatts(fitting[k])
      <4>1. CASE k = i
        BY <1>0, <2>3, <4>1
      <4>2. CASE k \in 1..(i - 1)
        BY <1>4, <2>3, <2>4, <3>1, <4>2
      <4> QED BY <1>1, <4>1, <4>2
    <3>2. /\ i' - 1 = i /\ fitting' = fitting /\ watts' = watts /\ Candidate(n)'
      BY <1>1, <1>3, <2>1
    <3>3. \A k \in 1..i : Candidate(fitting[k])' =>
                             watts[n] <= CorrectedNodeWatts(fitting[k])'
      <4>1. \A k \in 1..i : Candidate(fitting[k]) =>
                               watts[n] <= CorrectedNodeWatts(fitting[k])
        BY <3>1
      <4> QED BY <4>1, <3>2, <1>1 DEF Candidate, CorrectedNodeWatts, ExtraEnergy
    <3> QED BY <1>0, <1>1, <2>1, <3>2, <3>3 DEF ChooseInv
  <2>6. ASSUME DOMAIN nodeCorr \cap DOMAIN watts = {}, NEW k \in 1..i, Candidate(fitting[k])
        PROVE  watts[n] < watts[fitting[k]] \/ (watts[n] = watts[fitting[k]] /\ k <= i)
    <3>1. CASE k = i
      BY <1>0, <1>1, <3>1
    <3>2. CASE k \in 1..(i - 1)
      <4>1. bestWatts <= watts[fitting[k]] /\ watts[fitting[k]] \in Nat
        BY <1>4, <1>5, <2>4, <2>6, <3>2
      <4> QED BY <1>1, <2>3, <3>2, <4>1
    <3> QED BY <1>1, <3>1, <3>2
  <2>7. LeastInv'
    <3>1. DOMAIN nodeCorr \cap DOMAIN watts = {} =>
             \A k \in 1..i : Candidate(fitting[k])' =>
                watts[n] < watts[fitting[k]] \/ (watts[n] = watts[fitting[k]] /\ k <= i)
      <4>1. \A k \in 1..i : Candidate(fitting[k])' <=> Candidate(fitting[k])
        BY <1>1 DEF Candidate
      <4> QED BY <2>6, <4>1
    <3>2. i' - 1 = i
      BY <1>1
    <3> QED BY <1>0, <1>1, <2>1, <3>1, <3>2 DEF LeastInv
  <2> QED BY <1>6, <2>2, <2>5, <2>7 DEF IInv
<1> QED BY <1>7, <1>8

\* Every step keeps the invariant.
THEOREM NextIInv == IInv /\ [Next]_vars => IInv'
<1> SUFFICES ASSUME IInv, [Next]_vars PROVE IInv'
  OBVIOUS
<1>1. CASE SelectionDone
  <2>1. /\ TypeOK /\ pc = "choose" /\ pc' = "done" /\ i = Len(fitting) + 1
        /\ UNCHANGED <<fitting, pods, watts, micro, avg, i, nodeCorr, nodeIdx, bestWatts>>
    BY <1>1, Inputs DEF SelectionDone, IInv, TypeOK, inputs
  <2>2. TypeOK' /\ CorrOK'
    BY <2>1 DEF IInv, TypeOK, CorrOK
  <2>3. ChooseInv' /\ LeastInv'
    BY <2>1 DEF IInv, ChooseInv, LeastInv, Candidate, CorrectedNodeWatts, ExtraEnergy
  <2>4. CorrectInv'
    BY <2>1 DEF IInv, CorrectInv, Seen, Unknown, Estimate
  <2> QED BY <2>2, <2>3, <2>4 DEF IInv
<1>2. CASE UNCHANGED vars
  BY <1>2 DEF vars, inputs, IInv, TypeOK, CorrOK, CorrectInv, Seen, Unknown, Estimate,
              ChooseInv, LeastInv, Candidate, CorrectedNodeWatts, ExtraEnergy
<1> QED BY <1>1, <1>2, CorrectForPodIInv, CorrectionsDoneIInv, CompareNodeIInv DEF Next

-------------------------------------------------------------------------------
\* Every variable keeps its type.
THEOREM TypeCorrect == Spec => []TypeOK
<1>1. IInv => TypeOK
  BY DEF IInv
<1> QED BY <1>1, InitIInv, NextIInv, PTL DEF Spec

\* selectNode returns a measured worker node whenever there is one to return.
THEOREM ChoiceIsACandidate == Spec => []ChoiceIsCandidate
<1>1. IInv => ChoiceIsCandidate
  BY Inputs DEF IInv, ChooseInv, ChoiceIsCandidate
<1> QED BY <1>1, InitIInv, NextIInv, PTL DEF Spec

\* The measured power of the choice bounds every candidate's corrected power
\* from below.
THEOREM ChoiceIsBounded == Spec => []ChoiceBound
<1>1. IInv => ChoiceBound
  BY Inputs DEF IInv, ChooseInv, ChoiceBound
<1> QED BY <1>1, InitIInv, NextIInv, PTL DEF Spec

\* As long as no candidate is corrected, the choice is the least.
THEOREM LeastIsChosen == Spec => []LeastWithoutCorrections
<1>1. IInv => LeastWithoutCorrections
  BY Inputs DEF IInv, ChooseInv, LeastInv, LeastWithoutCorrections
<1> QED BY <1>1, InitIInv, NextIInv, PTL DEF Spec

\* A node's correction is the estimate of the first unknown pod on it.
THEOREM FirstPodDecides == Spec => []FirstPodCorrects
<1>1. IInv => FirstPodCorrects
  BY Inputs DEF IInv, CorrectInv, Seen, FirstPodCorrects
<1> QED BY <1>1, InitIInv, NextIInv, PTL DEF Spec
===============================================================================
