--------------------------- MODULE EschedulerProofs ---------------------------
(***************************************************************************)
(* Theorems about Escheduler, for any number of pods and nodes, any        *)
(* requests and any number of faults.  The first part needs nothing else.  *)
(* The second, that a node is granted more CPU than it offers only by a    *)
(* pod placed on an answer that lacked some of its pods, and that the      *)
(* scheduler implements PodBinding, needs a finite set of pods for its     *)
(* sums.                                                                   *)
(***************************************************************************)
EXTENDS Escheduler, SequenceTheorems, SetLemmas

\* The locals of schedulePod are set when they are used, and a pod whose
\* bind has succeeded is bound to the chosen node and not yet in the queue.
TaskOK ==
    \A t \in Loops :
        /\ pc[t] \in Scheduling => task[t].pod \in Pods
        /\ t = "check" /\ pc[t] = "lock" => task[t].pod \in Pods
        /\ pc[t] \in {"bind", "event", "queue"} => task[t].node \in Nodes
        /\ pc[t] \in {"event", "queue"} =>
              /\ boundTo[task[t].pod] = task[t].node
              /\ \A i \in 1..Len(pending) : pending[i].pod # task[t].pod

\* The watcher offers a pod when it is blocked on the pods channel.
WatchOK == pc["watch"] = "send" => event \in Pods

\* main counts down from three at most once, and all goroutines die together.
MainOK ==
    /\ pc["main"] \in {"running", "sending", "crashed"} => wg = 3
    /\ pc["main"] = "waiting" => wg = 2
    /\ pc["main"] # "exited"
    /\ pc["main"] = "crashed" => \A t \in Threads : pc[t] = "crashed"

IInv == TypeOK /\ LockDiscipline /\ TaskOK /\ WatchOK /\ MainOK /\ QueueSound

-------------------------------------------------------------------------------
\* Setting one of schedulePod's locals leaves a record of locals.
LEMMA TaskUpdate ==
    ASSUME NEW f \in [Loops -> Task], NEW t \in Loops, NEW p \in Pods \cup {NoPod},
           NEW S \in SUBSET Nodes, NEW n \in Nodes \cup {NoNode}
    PROVE  /\ [f EXCEPT ![t].pod = p] \in [Loops -> Task]
           /\ [f EXCEPT ![t].nodes = S] \in [Loops -> Task]
           /\ [f EXCEPT ![t].node = n] \in [Loops -> Task]
<1>1. f[t] \in Task
  OBVIOUS
<1>2. /\ [f[t] EXCEPT !.pod = p] \in Task
      /\ [f[t] EXCEPT !.nodes = S] \in Task
      /\ [f[t] EXCEPT !.node = n] \in Task
  BY <1>1 DEF Task
<1> QED BY <1>2

\* Setting the two that fit sets leaves one too.
LEMMA TaskFitted ==
    ASSUME NEW f \in [Loops -> Task], NEW t \in Loops,
           NEW S \in SUBSET Nodes, NEW H \in SUBSET Nodes
    PROVE  [f EXCEPT ![t].nodes = S, ![t].hidden = H] \in [Loops -> Task]
<1>1. f[t] \in Task
  OBVIOUS
<1>2. [[f[t] EXCEPT !.nodes = S] EXCEPT !.hidden = H] \in Task
  BY <1>1 DEF Task
<1> QED BY <1>2

-------------------------------------------------------------------------------
\* The invariant holds when the process starts.
THEOREM InitIInv == Init => IInv
BY EschedulerAssumption
DEF Init, IInv, TypeOK, LockDiscipline, TaskOK, WatchOK, MainOK, QueueSound, FirstPc,
    NoTask, Task, Threads, Waiters, Loops, Scheduling, Elsewhere, PcValues, Phases

\* A queued pod is a pod, and it is bound.
LEMMA QueuedAreBound ==
    IInv => \A i \in 1..Len(pending) : /\ pending[i].pod \in Pods
                                       /\ pending[i].node \in Nodes
                                       /\ boundTo[pending[i].pod] # NoNode
<1> SUFFICES ASSUME IInv, NEW i \in 1..Len(pending)
             PROVE  /\ pending[i].pod \in Pods
                    /\ pending[i].node \in Nodes
                    /\ boundTo[pending[i].pod] # NoNode
  OBVIOUS
<1>1. pending[i] \in [pod : Pods, node : Nodes]
  BY ElementOfSeq DEF IInv, TypeOK
<1>2. boundTo[pending[i].pod] = pending[i].node
  BY DEF IInv, QueueSound
<1> QED BY <1>1, <1>2, EschedulerAssumption DEF EschedulerAssumption

\* The cluster acts on unbound pods only, so what the process knows of bound
\* pods stays true.
LEMMA ClusterIInv == IInv /\ Cluster => IInv'
<1> SUFFICES ASSUME IInv, Cluster PROVE IInv'
  OBVIOUS
<1> USE EschedulerAssumption
<1>1. /\ UNCHANGED process
      /\ \A p \in Pods : boundTo[p] # NoNode => boundTo'[p] = boundTo[p]
  BY DEF Cluster, CreatePod, KubeletStarts, DeletePod, OtherSchedulerBinds, NodeJoins,
         NodeLeaves, ScaphandreStarts, IInv, TypeOK, Unscheduled
<1>2. TypeOK'
  <2>1. CASE \E p \in Pods : CreatePod(p) \/ KubeletStarts(p) \/ DeletePod(p)
    BY <2>1 DEF CreatePod, KubeletStarts, DeletePod, IInv, TypeOK, Phases, process, cached
  <2>2. CASE \E p \in Pods, n \in Nodes : OtherSchedulerBinds(p, n)
    BY <2>2 DEF OtherSchedulerBinds, IInv, TypeOK, process, cached
  <2>3. CASE \E n \in Nodes : NodeJoins(n) \/ ScaphandreStarts(n)
    BY <2>3 DEF NodeJoins, ScaphandreStarts, IInv, TypeOK, process, cached
  <2>4. CASE \E n \in Nodes : NodeLeaves(n)
    BY <2>4 DEF NodeLeaves, IInv, TypeOK, process, cached
  <2> QED BY <2>1, <2>2, <2>3, <2>4 DEF Cluster
<1>3. LockDiscipline' /\ WatchOK' /\ MainOK'
  BY <1>1 DEF IInv, LockDiscipline, WatchOK, MainOK, process
<1>4. TaskOK'
  BY <1>1 DEF IInv, TaskOK, TypeOK, process, cached, Scheduling
<1>5. QueueSound'
  BY <1>1, QueuedAreBound DEF IInv, QueueSound, process, cached
<1> QED BY <1>2, <1>3, <1>4, <1>5 DEF IInv

-------------------------------------------------------------------------------
\* A panic leaves a dead process with nothing in its memory.
LEMMA PanicIInv ==
    ASSUME IInv, Panic, UNCHANGED cluster, faults' \in 0..MaxFaults, UNCHANGED signals
    PROVE  IInv'
<1>1. TypeOK'
  BY DEF Panic, IInv, TypeOK, cluster, NoTask, Task, Threads, Waiters, Loops, Scheduling,
         Elsewhere, PcValues
<1>2. LockDiscipline' /\ TaskOK' /\ WatchOK' /\ MainOK' /\ QueueSound'
  BY DEF Panic, LockDiscipline, TaskOK, WatchOK, MainOK, QueueSound, Threads, Waiters,
         Loops, Scheduling
<1> QED BY <1>1, <1>2 DEF IInv

\* The Deployment starts the container again, with the memory Panic left.
LEMMA RestartIInv == IInv /\ Restart => IInv'
<1> SUFFICES ASSUME IInv, Restart PROVE IInv'
  OBVIOUS
<1>1. TypeOK'
  BY DEF Restart, FirstPc, IInv, TypeOK, cluster, channels, cached, bounds, Threads, Waiters,
         Loops, Scheduling, Elsewhere, PcValues
<1>2. LockDiscipline' /\ TaskOK' /\ WatchOK' /\ MainOK' /\ QueueSound'
  BY DEF Restart, FirstPc, IInv, LockDiscipline, TaskOK, WatchOK, MainOK, QueueSound,
         cluster, channels, cached, Threads, Waiters, Loops, Scheduling
<1> QED BY <1>1, <1>2 DEF IInv

-------------------------------------------------------------------------------
\* Steps of one thread that neither schedule nor take or give the lock: the
\* program counters of both loops keep their side of processorLock.
LEMMA QuietIInv ==
    ASSUME IInv, TypeOK', WatchOK', MainOK', UNCHANGED <<cluster, lock, pending>>,
           \A t \in Loops :
              /\ pc'[t] \in Scheduling \cup {"list", "next"} => pc'[t] = pc[t]
              /\ pc[t] \in Scheduling \cup {"list", "next"} => pc'[t] = pc[t]
              /\ pc'[t] = pc[t] => task'[t] = task[t]
              /\ t = "check" /\ pc'[t] = "lock" => task'[t].pod \in Pods
    PROVE  IInv'
<1>1. LockDiscipline'
  BY DEF IInv, LockDiscipline
<1>2. TaskOK'
  BY DEF IInv, TaskOK, cluster, Scheduling, Loops
<1>3. QueueSound'
  BY DEF IInv, QueueSound, cluster
<1> QED BY <1>1, <1>2, <1>3 DEF IInv

\* One collection of gatherEnergyMetrics, panics included.
LEMMA MetricsIInv == IInv /\ Metrics => IInv'
<1> SUFFICES ASSUME IInv, Metrics PROVE IInv'
  OBVIOUS
<1> USE EschedulerAssumption DEF EschedulerAssumption
<1>1. CASE CollectPanics
  <2>1. faults' \in 0..MaxFaults
    BY <1>1 DEF CollectPanics, Fault, IInv, TypeOK
  <2> QED BY <1>1, <2>1, PanicIInv DEF CollectPanics, Fault
<1>2. CASE MetricsTimer \/ Collect \/ CollectFails
  <2> USE DEF MetricsTimer, Collect, CollectFails, Goto
  <2>1. TypeOK'
    BY <1>2 DEF Fault, IInv, TypeOK, cluster, channels, cached, bounds, Threads, Waiters,
                Loops, Scheduling, Elsewhere, PcValues
  <2>2. WatchOK' /\ MainOK'
    BY <1>2 DEF IInv, TypeOK, WatchOK, MainOK, channels, Threads, Waiters
  <2>3. \A t \in Loops : pc'[t] = pc[t] /\ task'[t] = task[t]
    BY <1>2 DEF IInv, TypeOK, Threads, Waiters, Loops
  <2>4. UNCHANGED <<cluster, lock, pending>>
    BY <1>2 DEF cached
  <2>5. "check" \in Loops /\ (pc["check"] = "lock" => task["check"].pod \in Pods)
    BY DEF IInv, TaskOK, Loops
  <2> QED BY <2>1, <2>2, <2>3, <2>4, <2>5, QuietIInv
<1> QED BY <1>1, <1>2 DEF Metrics

\* The goroutine of watchUnscheduledPods.
LEMMA WatchIInv == IInv /\ Watch => IInv'
<1> SUFFICES ASSUME IInv, Watch PROVE IInv'
  OBVIOUS
<1> USE EschedulerAssumption DEF EschedulerAssumption
<1> USE DEF WatchConnects, WatchConnectFails, WatchDecodes, WatchBreaks, WatchReports, Goto
<1>1. TypeOK'
  <2>1. Unscheduled \subseteq Pods
    BY DEF Unscheduled
  <2> USE DEF IInv, TypeOK, cluster, channels, cached, bounds, Threads, Waiters, Loops,
              Scheduling, Elsewhere, PcValues
  <2>2. CASE WatchConnects
    BY <2>1, <2>2
  <2>3. CASE WatchConnectFails \/ WatchBreaks
    BY <2>3 DEF Fault
  <2>4. CASE \E p \in Pods : WatchDecodes(p)
    BY <2>4
  <2>5. CASE WatchReports
    <3>1. errc' \in 0..1
      BY <2>5
    <3> QED BY <2>5, <3>1
  <2> QED BY <2>2, <2>3, <2>4, <2>5 DEF Watch
<1>2. WatchOK' /\ MainOK'
  BY DEF Watch, IInv, TypeOK, WatchOK, MainOK, channels, Threads, Waiters
<1>3. \A t \in Loops : pc'[t] = pc[t] /\ task'[t] = task[t]
  BY DEF Watch, IInv, TypeOK, Threads, Waiters, Loops
<1>4. UNCHANGED <<cluster, lock, pending>>
  BY DEF Watch, cached
<1>5. "check" \in Loops /\ (pc["check"] = "lock" => task["check"].pod \in Pods)
  BY DEF IInv, TaskOK, Loops
<1> QED BY <1>1, <1>2, <1>3, <1>4, <1>5, QuietIInv

\* The two receives of checkUnscheduled.
LEMMA ReceiveIInv == IInv /\ (ReceiveError \/ ReceivePod) => IInv'
<1> SUFFICES ASSUME IInv, ReceiveError \/ ReceivePod PROVE IInv'
  OBVIOUS
<1> USE DEF ReceiveError, ReceivePod
<1>1. TypeOK'
  <2> USE DEF IInv, TypeOK, WatchOK, cluster, channels, cached, bounds
  <2>1. CASE ReceiveError
    <3>1. errc' \in 0..1
      BY <2>1
    <3> QED BY <2>1, <3>1
  <2>2. CASE ReceivePod
    <3>1. task' \in [Loops -> Task]
      <4>1. "check" \in Loops /\ event \in Pods
        BY <2>2 DEF Loops
      <4> HIDE DEF Loops
      <4> QED BY <2>2, <4>1, TaskUpdate
    <3>2. pc' \in [Threads -> PcValues] /\ pc' = [pc EXCEPT !["watch"] = "decode",
                                                           !["check"] = "lock"]
      BY <2>2 DEF Threads, Waiters, Elsewhere, PcValues
    <3> QED BY <2>2, <3>1, <3>2 DEF Threads, Waiters, Elsewhere
  <2> QED BY <2>1, <2>2
<1>2. WatchOK' /\ MainOK'
  BY DEF IInv, TypeOK, WatchOK, MainOK, channels, Threads, Waiters
<1>3. UNCHANGED <<cluster, lock, pending>>
  BY DEF cached
<1>4. CASE ReceiveError
  BY <1>1, <1>2, <1>3, <1>4, QuietIInv DEF IInv, TaskOK
<1>5. CASE ReceivePod
  <2>1. pc["check"] = "idle" /\ pc'["check"] = "lock" /\ pc'["retry"] = pc["retry"]
    BY <1>5 DEF IInv, TypeOK, Threads, Waiters
  <2>2. task'["check"].pod \in Pods /\ task'["retry"] = task["retry"]
    BY <1>5 DEF IInv, TypeOK, WatchOK, Loops, Task
  <2>3. \A t \in Loops :
           /\ pc'[t] \in Scheduling \cup {"list", "next"} => pc'[t] = pc[t]
           /\ pc[t] \in Scheduling \cup {"list", "next"} => pc'[t] = pc[t]
           /\ pc'[t] = pc[t] => task'[t] = task[t]
           /\ t = "check" /\ pc'[t] = "lock" => task'[t].pod \in Pods
    BY <2>1, <2>2 DEF Loops, Scheduling
  <2> QED BY <1>1, <1>2, <1>3, <2>3, QuietIInv
<1> QED BY <1>4, <1>5

\* main receives a signal, and a waiter its done.
LEMMA SignalIInv == IInv /\ (Signal \/ Stop) => IInv'
<1> SUFFICES ASSUME IInv, Signal \/ Stop PROVE IInv'
  OBVIOUS
<1> USE EschedulerAssumption DEF EschedulerAssumption
<1>1. CASE Signal
  <2> USE DEF Signal, Goto
  <2>1. TypeOK'
    BY <1>1 DEF IInv, TypeOK, cluster, channels, cached, bounds, Threads, Waiters,
                Loops, Scheduling, Elsewhere, PcValues
  <2>2. WatchOK' /\ MainOK'
    BY <1>1 DEF IInv, TypeOK, WatchOK, MainOK, channels, Threads, Waiters
  <2>3. \A t \in Loops : pc'[t] = pc[t] /\ task'[t] = task[t]
    BY <1>1 DEF IInv, TypeOK, Threads, Waiters, Loops
  <2>4. UNCHANGED <<cluster, lock, pending>>
    BY <1>1 DEF cached
  <2>5. "check" \in Loops /\ (pc["check"] = "lock" => task["check"].pod \in Pods)
    BY DEF IInv, TaskOK, Loops
  <2> QED BY <2>1, <2>2, <2>3, <2>4, <2>5, QuietIInv
<1>2. ASSUME NEW t \in Waiters, ReceiveDone(t) PROVE IInv'
  <2>1. wg = 3 /\ wg' = 2
    BY <1>2 DEF ReceiveDone, IInv, MainOK, TypeOK
  <2>2. /\ pc[t] = "idle"
        /\ pc' = [pc EXCEPT ![t] = "stopped", !["main"] = "waiting"]
        /\ UNCHANGED <<cluster, lock, task, work, channels, cached, bounds>>
    BY <1>2, <2>1 DEF ReceiveDone
  <2>3. TypeOK'
    BY <2>1, <2>2 DEF IInv, TypeOK, cluster, channels, cached, bounds, Threads, Waiters,
                      Loops, Scheduling, Elsewhere, PcValues
  <2>4. WatchOK' /\ MainOK'
    BY <2>1, <2>2 DEF IInv, TypeOK, WatchOK, MainOK, channels, Threads, Waiters
  <2>5. \A u \in Loops : /\ task'[u] = task[u]
                         /\ pc'[u] = IF u = t THEN "stopped" ELSE pc[u]
    BY <2>2 DEF IInv, TypeOK, Threads, Waiters, Loops
  <2>6. pc'["check"] = "lock" => task'["check"].pod \in Pods
    BY <2>5 DEF IInv, TaskOK, Loops
  <2>7. UNCHANGED <<cluster, lock, pending>>
    BY <2>2 DEF cached
  <2>8. \A u \in Loops :
           /\ pc'[u] \in Scheduling \cup {"list", "next"} => pc'[u] = pc[u]
           /\ pc[u] \in Scheduling \cup {"list", "next"} => pc'[u] = pc[u]
           /\ pc'[u] = pc[u] => task'[u] = task[u]
           /\ u = "check" /\ pc'[u] = "lock" => task'[u].pod \in Pods
    <3> TAKE u \in Loops
    <3>1. CASE u = t
      <4>1. pc[u] = "idle" /\ pc'[u] = "stopped" /\ task'[u] = task[u]
        BY <2>2, <2>5, <3>1
      <4> QED BY <4>1 DEF Scheduling
    <3>2. CASE u # t
      BY <2>5, <2>6, <3>2
    <3> QED BY <3>1, <3>2
  <2> QED BY <2>3, <2>4, <2>7, <2>8, QuietIInv
<1> QED BY <1>1, <1>2 DEF Stop

-------------------------------------------------------------------------------
\* A loop takes processorLock and enters its critical section.
LEMMA AcquireIInv == ASSUME NEW t \in Loops, IInv, Acquire(t) PROVE IInv'
<1> USE DEF Acquire, Goto
<1>1. TypeOK'
  BY DEF IInv, TypeOK, cluster, channels, cached, bounds, Threads, Waiters, Loops,
         Scheduling, Elsewhere, PcValues
<1>2. WatchOK' /\ MainOK'
  BY DEF IInv, TypeOK, WatchOK, MainOK, channels, Threads, Waiters, Loops
<1>3. \A u \in Loops : pc'[u] = IF u = t THEN (IF t = "check" THEN "nodes" ELSE "list")
                                         ELSE pc[u]
  BY DEF IInv, TypeOK, Threads, Waiters, Loops
<1>4. LockDiscipline'
  BY <1>3 DEF IInv, LockDiscipline, Scheduling, Loops
<1>5. TaskOK'
  BY <1>3 DEF IInv, TaskOK, cluster, cached, Scheduling, Loops
<1>6. QueueSound'
  BY DEF IInv, QueueSound, cluster, cached
<1> QED BY <1>1, <1>2, <1>4, <1>5, <1>6 DEF IInv

\* scheduleUnscheduled and schedulePods, apart from schedulePod.
LEMMA RetryTimerIInv == IInv /\ RetryTimer => IInv'
<1> SUFFICES ASSUME IInv, RetryTimer PROVE IInv'
  OBVIOUS
<1> USE DEF RetryTimer, Goto
<1>1. TypeOK'
  BY DEF IInv, TypeOK, cluster, channels, cached, bounds, Threads, Waiters, Loops,
         Scheduling, Elsewhere, PcValues
<1>2. WatchOK' /\ MainOK'
  BY DEF IInv, TypeOK, WatchOK, MainOK, channels, Threads, Waiters, Loops
<1>3. pc["retry"] = "idle" /\ pc'["retry"] = "lock" /\ pc'["check"] = pc["check"]
  BY DEF IInv, TypeOK, Threads, Waiters
<1>4. pc["check"] = "lock" => task["check"].pod \in Pods
  BY DEF IInv, TaskOK, Loops
<1>5. UNCHANGED <<cluster, lock, pending, task>>
  BY DEF cached
<1> QED BY <1>1, <1>2, <1>3, <1>4, <1>5, QuietIInv DEF Loops, Scheduling

\* The loop of schedulePods, from its list of pods to its Unlock.
LEMMA SchedulePodsIInv ==
    IInv /\ (GetUnscheduledPods \/ GetUnscheduledPodsFails \/ ListAnswersError
               \/ NoMorePods \/ \E p \in Pods : NextPod(p)) => IInv'
<1> SUFFICES ASSUME IInv, \/ GetUnscheduledPods \/ GetUnscheduledPodsFails
                          \/ ListAnswersError \/ NoMorePods
                          \/ \E p \in Pods : NextPod(p)
             PROVE  IInv'
  OBVIOUS
<1> USE EschedulerAssumption DEF EschedulerAssumption
<1> USE DEF GetUnscheduledPods, GetUnscheduledPodsFails, ListAnswersError, NoMorePods, NextPod, Goto
<1>1. TypeOK'
  <2>1. Unscheduled \subseteq Pods
    BY DEF Unscheduled
  <2> USE DEF IInv, TypeOK, cluster, channels, cached, bounds, Threads, Waiters, Loops,
              Scheduling, Elsewhere, PcValues
  <2>2. CASE GetUnscheduledPods \/ NoMorePods
    BY <2>1, <2>2
  <2>3. CASE GetUnscheduledPodsFails \/ ListAnswersError
    BY <2>3 DEF Fault
  <2>4. ASSUME NEW p \in Pods, NextPod(p) PROVE TypeOK'
    <3>1. task' \in [Loops -> Task]
      <4>1. "retry" \in Loops
        OBVIOUS
      <4> HIDE DEF Loops
      <4> QED BY <2>4, <4>1, TaskUpdate
    <3> QED BY <2>4, <3>1
  <2> QED BY <2>2, <2>3, <2>4
<1>2. WatchOK' /\ MainOK'
  BY DEF IInv, TypeOK, WatchOK, MainOK, channels, Threads, Waiters, Loops
<1>3. /\ pc["retry"] \in {"list", "next"}
      /\ pc'["retry"] \in {"idle", "next", "nodes"}
      /\ lock' = IF pc'["retry"] = "idle" THEN "free" ELSE lock
      /\ pc'["check"] = pc["check"] /\ task'["check"] = task["check"]
      /\ UNCHANGED <<cluster, pending>>
  BY DEF IInv, TypeOK, Threads, Waiters, Loops, cached
<1>4. pc'["retry"] = "nodes" => task'["retry"].pod \in Pods
  BY <1>3 DEF IInv, TypeOK, Task, Threads, Waiters, Loops
<1>5. LockDiscipline'
  BY <1>3 DEF IInv, LockDiscipline, Scheduling, Loops
<1>6. TaskOK'
  BY <1>3, <1>4 DEF IInv, TaskOK, Scheduling, Loops, cluster
<1>7. QueueSound'
  BY <1>3 DEF IInv, QueueSound, cluster
<1> QED BY <1>1, <1>2, <1>5, <1>6, <1>7 DEF IInv

-------------------------------------------------------------------------------
\* While one loop is inside schedulePod the other one is not, and both keep
\* a pod they wait for the lock with.
LEMMA OtherLoop ==
    ASSUME IInv, NEW t \in Loops, pc[t] \in Scheduling
    PROVE  /\ lock = t
           /\ \A u \in Loops \ {t} : pc[u] \notin Scheduling \cup {"list", "next"}
           /\ pc["main"] # "crashed"
           /\ task[t].pod \in Pods
           /\ t \in Threads \ {"main", "watch"}
<1>1. lock = t /\ \A u \in Loops \ {t} : pc[u] \notin Scheduling \cup {"list", "next"}
  BY DEF IInv, LockDiscipline
<1>2. t \in Threads \ {"main", "watch"}
  BY DEF Loops, Threads, Waiters
<1>3. pc["main"] # "crashed"
  BY <1>2 DEF IInv, MainOK, Scheduling
<1>4. task[t].pod \in Pods
  BY DEF IInv, TaskOK
<1> QED BY <1>1, <1>2, <1>3, <1>4

\* schedulePod goes on to its next step.
LEMMA AdvanceIInv ==
    ASSUME IInv, NEW t \in Loops, pc[t] \in Scheduling, NEW to \in Scheduling,
           pc' = [pc EXCEPT ![t] = to],
           UNCHANGED <<phase, nodes, scaph, lock, wg, work, channels, pending, measured, signals>>,
           faults' \in 0..MaxFaults, blind' \subseteq Nodes,
           ipMap' \in [built : BOOLEAN, nodes : SUBSET Nodes],
           boundTo' \in [Pods -> Nodes \cup {NoNode}],
           \A p \in Pods : boundTo[p] # NoNode => boundTo'[p] = boundTo[p],
           task' \in [Loops -> Task],
           \A u \in Loops \ {t} : task'[u] = task[u],
           task'[t].pod = task[t].pod,
           to \in {"bind", "event", "queue"} => task'[t].node \in Nodes,
           to \in {"event", "queue"} =>
              /\ boundTo'[task'[t].pod] = task'[t].node
              /\ \A i \in 1..Len(pending) : pending[i].pod # task'[t].pod
    PROVE  IInv'
<1>1. /\ pc'[t] = to
      /\ \A u \in Threads \ {t} : pc'[u] = pc[u]
      /\ pc' \in [Threads -> PcValues]
  BY OtherLoop DEF IInv, TypeOK, PcValues
<1>2. TypeOK'
  BY <1>1, OtherLoop DEF IInv, TypeOK, channels, bounds, Threads, Waiters, Loops
<1>3. LockDiscipline'
  BY <1>1, OtherLoop DEF IInv, LockDiscipline, Loops, Threads, Waiters
<1>4. WatchOK' /\ MainOK'
  BY <1>1, OtherLoop DEF IInv, WatchOK, MainOK, channels, Threads, Waiters
<1>5. TaskOK'
  <2> SUFFICES ASSUME NEW u \in Loops
               PROVE  /\ pc'[u] \in Scheduling => task'[u].pod \in Pods
                      /\ u = "check" /\ pc'[u] = "lock" => task'[u].pod \in Pods
                      /\ pc'[u] \in {"bind", "event", "queue"} => task'[u].node \in Nodes
                      /\ pc'[u] \in {"event", "queue"} =>
                            /\ boundTo'[task'[u].pod] = task'[u].node
                            /\ \A i \in 1..Len(pending') : pending'[i].pod # task'[u].pod
    BY DEF TaskOK
  <2>1. CASE u = t
    BY <2>1, <1>1, OtherLoop DEF Scheduling
  <2>2. CASE u # t
    <3>1. pc'[u] = pc[u] /\ task'[u] = task[u] /\ pc[u] \notin Scheduling
      BY <2>2, <1>1, OtherLoop DEF Loops, Threads, Waiters
    <3> QED BY <3>1 DEF IInv, TaskOK, Scheduling
  <2> QED BY <2>1, <2>2
<1>6. QueueSound'
  BY QueuedAreBound DEF IInv, QueueSound
<1> QED BY <1>2, <1>3, <1>4, <1>5, <1>6 DEF IInv

\* schedulePod returns, with or without an error.
LEMMA ReturnIInv ==
    ASSUME IInv, NEW t \in Loops, pc[t] \in Scheduling, Return(t),
           UNCHANGED <<phase, nodes, scaph, wg, work, channels, measured, signals>>,
           faults' \in 0..MaxFaults, blind' \subseteq Nodes,
           ipMap' \in [built : BOOLEAN, nodes : SUBSET Nodes],
           boundTo' \in [Pods -> Nodes \cup {NoNode}],
           pending' \in Seq([pod : Pods, node : Nodes]),
           QueueSound'
    PROVE  IInv'
<1> DEFINE to == IF t = "check" THEN "idle" ELSE "next"
<1>1. /\ pc'[t] = to
      /\ \A u \in Threads \ {t} : pc'[u] = pc[u]
      /\ pc' \in [Threads -> PcValues]
  BY OtherLoop DEF Return, IInv, TypeOK, PcValues, Elsewhere
<1>2. task' = [task EXCEPT ![t] = NoTask] /\ NoTask \in Task
  BY DEF Return, NoTask, Task
<1>3. lock' = IF t = "check" THEN "free" ELSE t
  BY OtherLoop DEF Return
<1>4. TypeOK'
  <2>1. task' \in [Loops -> Task] /\ lock' \in Loops \cup {"free"}
    BY <1>2, <1>3 DEF IInv, TypeOK
  <2> QED BY <1>1, <2>1, OtherLoop DEF IInv, TypeOK, channels, Threads, Waiters, Loops, Elsewhere
<1>5. LockDiscipline'
  BY <1>1, <1>3, OtherLoop DEF IInv, LockDiscipline, Loops, Threads, Waiters, Scheduling
<1>6. WatchOK' /\ MainOK'
  BY <1>1, OtherLoop DEF IInv, WatchOK, MainOK, channels, Threads, Waiters
<1>7. TaskOK'
  <2> SUFFICES ASSUME NEW u \in Loops
               PROVE  /\ pc'[u] \notin Scheduling
                      /\ u = "check" /\ pc'[u] = "lock" => task'[u].pod \in Pods
    BY DEF TaskOK, Scheduling
  <2>1. CASE u = t
    BY <2>1, <1>1 DEF Scheduling
  <2>2. CASE u # t
    <3>1. pc'[u] = pc[u] /\ task'[u] = task[u] /\ pc[u] \notin Scheduling
      BY <2>2, <1>1, <1>2, OtherLoop DEF Loops, Threads, Waiters, IInv, TypeOK
    <3> QED BY <3>1 DEF IInv, TaskOK
  <2> QED BY <2>1, <2>2
<1> QED BY <1>4, <1>5, <1>6, <1>7 DEF IInv

-------------------------------------------------------------------------------
\* getIpToNodeMap returns a map, cached or built.
LEMMA IpToNodeMapType ==
    TypeOK => IpToNodeMap \in [built : BOOLEAN, nodes : SUBSET Nodes]
BY DEF TypeOK, IpToNodeMap

\* The steps of fit and selectNode that go on.
LEMMA ChooseIInv ==
    ASSUME IInv, NEW t \in Loops,
           \/ FitReadsNodes(t) \/ FitReadsNoNodes(t)
           \/ (\E list \in PodLists : FitReadsPods(t, list))
           \/ \E n \in Nodes : SelectNode(t, n)
    PROVE  IInv'
<1> USE EschedulerAssumption DEF EschedulerAssumption
<1>1. /\ task \in [Loops -> Task]
      /\ nodes \subseteq Nodes
      /\ ipMap \in [built : BOOLEAN, nodes : SUBSET Nodes]
      /\ boundTo \in [Pods -> Nodes \cup {NoNode}]
      /\ IpToNodeMap \in [built : BOOLEAN, nodes : SUBSET Nodes]
      /\ blind \subseteq Nodes /\ faults \in 0..MaxFaults
  BY IpToNodeMapType DEF IInv, TypeOK
<1>2. task[t] \in Task /\ task[t].nodes \subseteq Nodes
  BY <1>1 DEF Task
<1> USE DEF Goto
<1>3. CASE FitReadsNodes(t) \/ FitReadsNoNodes(t)
  <2> USE DEF FitReadsNodes, FitReadsNoNodes
  <2>1. pc[t] \in Scheduling /\ "pods" \in Scheduling /\ pc' = [pc EXCEPT ![t] = "pods"]
    BY <1>3 DEF Scheduling
  <2>2. task' \in [Loops -> Task]
    <3>1. CASE FitReadsNodes(t)
      BY <3>1, <1>1, TaskUpdate
    <3>2. CASE FitReadsNoNodes(t)
      <4>1. {} \in SUBSET Nodes
        OBVIOUS
      <4> QED BY <3>2, <4>1, <1>1, TaskUpdate
    <3> QED BY <3>1, <3>2, <1>3
  <2>3. task'[t].pod = task[t].pod /\ \A u \in Loops \ {t} : task'[u] = task[u]
    BY <1>3, <1>1, <1>2 DEF Task
  <2>4. /\ UNCHANGED <<phase, nodes, scaph, lock, wg, work, channels, pending, measured, signals>>
        /\ UNCHANGED <<ipMap, boundTo, blind>>
    BY <1>3 DEF cluster, cached, bounds, Fault
  <2>5. faults' \in 0..MaxFaults
    BY <1>3, <1>1 DEF bounds, Fault
  <2> QED BY <1>1, <2>1, <2>2, <2>3, <2>4, <2>5, AdvanceIInv
<1>4. ASSUME NEW list \in PodLists, FitReadsPods(t, list) PROVE IInv'
  <2> USE DEF FitReadsPods
  <2>1. pc[t] \in Scheduling /\ "select" \in Scheduling /\ pc' = [pc EXCEPT ![t] = "select"]
    BY <1>4 DEF Scheduling
  <2>2. Fitting(t, list) \subseteq Nodes /\ Hidden(list) \subseteq Nodes
    BY <1>2 DEF Fitting, Hidden
  <2>3. task' \in [Loops -> Task]
    BY <1>4, <1>1, <2>2, TaskFitted
  <2>4. task'[t].pod = task[t].pod /\ \A u \in Loops \ {t} : task'[u] = task[u]
    BY <1>4, <1>1, <1>2 DEF Task
  <2>5. /\ UNCHANGED <<phase, nodes, scaph, lock, wg, work, channels, pending, measured, signals>>
        /\ UNCHANGED <<ipMap, boundTo, blind>>
    BY <1>4 DEF cluster, cached, GetPods, bounds, Fault
  <2>6. faults' \in 0..MaxFaults
    <3>1. GetPods(list)
      BY <1>4
    <3>2. CASE UNCHANGED bounds
      BY <3>2, <1>1 DEF bounds
    <3>3. CASE Fault
      BY <3>3, <1>1 DEF Fault
    <3> HIDE DEF FitReadsPods, Goto
    <3> QED BY <3>1, <3>2, <3>3 DEF GetPods
  <2>7. "select" \notin {"bind", "event", "queue"}
    OBVIOUS
  <2> HIDE DEF FitReadsPods, Goto
  <2> QED BY <1>1, <2>1, <2>3, <2>4, <2>5, <2>6, <2>7, AdvanceIInv
<1>5. ASSUME NEW n \in Nodes, SelectNode(t, n) PROVE IInv'
  <2>1. pc[t] \in Scheduling /\ "bind" \in Scheduling /\ pc' = [pc EXCEPT ![t] = "bind"]
    BY <1>5 DEF SelectNode, Scheduling
  <2>2. task' \in [Loops -> Task]
    BY <1>5, <1>1, TaskUpdate DEF SelectNode
  <2>3. /\ task'[t].pod = task[t].pod
        /\ task'[t].node = n
        /\ \A u \in Loops \ {t} : task'[u] = task[u]
    BY <1>5, <1>1, <1>2 DEF SelectNode, Task
  <2>4. /\ UNCHANGED <<phase, nodes, scaph, lock, wg, work, channels, pending, measured, signals>>
        /\ ipMap' = IpToNodeMap
        /\ UNCHANGED <<boundTo, blind, faults>>
    BY <1>5 DEF SelectNode, cluster, bounds
  <2> QED BY <1>1, <2>1, <2>2, <2>3, <2>4, AdvanceIInv
<1> QED BY <1>3, <1>4, <1>5

\* A bind the API server carries out concerns a pod that has no node, hence
\* one that is not in the queue.
LEMMA BoundOnce ==
    ASSUME IInv, NEW t \in Loops, pc[t] = "bind", task[t].pod \in Unscheduled,
           boundTo' = [boundTo EXCEPT ![task[t].pod] = task[t].node]
    PROVE  /\ boundTo' \in [Pods -> Nodes \cup {NoNode}]
           /\ boundTo'[task[t].pod] = task[t].node
           /\ \A p \in Pods : boundTo[p] # NoNode => boundTo'[p] = boundTo[p]
           /\ \A i \in 1..Len(pending) : pending[i].pod # task[t].pod
           /\ PlacedBy(t) \subseteq Nodes
<1>1. task[t].pod \in Pods /\ boundTo[task[t].pod] = NoNode
  BY DEF Unscheduled
<1>2. task[t].node \in Nodes
  BY DEF IInv, TaskOK
<1>3. boundTo \in [Pods -> Nodes \cup {NoNode}]
  BY DEF IInv, TypeOK
<1>4. \A i \in 1..Len(pending) : pending[i].pod # task[t].pod
  BY <1>1, QueuedAreBound
<1>5. PlacedBy(t) \subseteq Nodes
  BY <1>2 DEF PlacedBy, IInv, TypeOK
<1> QED BY <1>1, <1>2, <1>3, <1>4, <1>5

\* A bind that succeeds: the pod is not in the queue yet.
LEMMA BindIInv ==
    ASSUME IInv, NEW t \in Loops, Bind(t) \/ PostEvent(t) PROVE IInv'
<1>1. /\ task \in [Loops -> Task]
      /\ ipMap \in [built : BOOLEAN, nodes : SUBSET Nodes]
      /\ boundTo \in [Pods -> Nodes \cup {NoNode}]
      /\ blind \subseteq Nodes /\ faults \in 0..MaxFaults
  BY DEF IInv, TypeOK
<1> USE DEF Goto
<1>2. CASE Bind(t)
  <2>1. /\ pc[t] \in Scheduling /\ "event" \in Scheduling /\ pc' = [pc EXCEPT ![t] = "event"]
        /\ pc[t] = "bind" /\ task[t].pod \in Unscheduled
        /\ boundTo' = [boundTo EXCEPT ![task[t].pod] = task[t].node]
        /\ blind' = PlacedBy(t)
    BY <1>2 DEF Bind, Scheduling
  <2>2. /\ UNCHANGED <<phase, nodes, scaph, lock, wg, work, channels, pending, measured, signals>>
        /\ UNCHANGED <<ipMap, task, faults>>
    BY <1>2 DEF Bind, cached, bounds
  <2>3. task[t].node \in Nodes
    BY <2>1 DEF IInv, TaskOK
  <2> QED BY <1>1, <2>1, <2>2, <2>3, BoundOnce, AdvanceIInv
<1>3. CASE PostEvent(t)
  <2>1. /\ pc[t] \in Scheduling /\ "queue" \in Scheduling /\ pc' = [pc EXCEPT ![t] = "queue"]
        /\ pc[t] = "event"
    BY <1>3 DEF PostEvent, Scheduling
  <2>2. /\ UNCHANGED <<phase, nodes, scaph, lock, wg, work, channels, pending, measured, signals>>
        /\ UNCHANGED <<ipMap, task, boundTo, blind, faults>>
    BY <1>3 DEF PostEvent, cluster, cached, bounds
  <2>3. /\ task[t].node \in Nodes
        /\ boundTo[task[t].pod] = task[t].node
        /\ \A i \in 1..Len(pending) : pending[i].pod # task[t].pod
    BY <2>1 DEF IInv, TaskOK
  <2> QED BY <1>1, <2>1, <2>2, <2>3, AdvanceIInv
<1> QED BY <1>2, <1>3

-------------------------------------------------------------------------------
\* The early returns of schedulePod that leave the cluster alone.
LEMMA GiveUpIInv ==
    ASSUME IInv, NEW t \in Loops,
           \/ (\E list \in PodLists : FitFindsNoNode(t, list))
           \/ SelectFindsNoNode(t) \/ IpMapStaysEmpty(t) \/ RequestFails(t)
           \/ BindIsRefused(t) \/ PostEventFails(t)
    PROVE  IInv'
<1> USE EschedulerAssumption DEF EschedulerAssumption
<1> USE DEF FitFindsNoNode, SelectFindsNoNode, IpMapStaysEmpty, RequestFails, BindIsRefused,
            PostEventFails, GetPods
<1>1. /\ ipMap \in [built : BOOLEAN, nodes : SUBSET Nodes]
      /\ boundTo \in [Pods -> Nodes \cup {NoNode}]
      /\ IpToNodeMap \in [built : BOOLEAN, nodes : SUBSET Nodes]
      /\ pending \in Seq([pod : Pods, node : Nodes])
      /\ faults \in 0..MaxFaults /\ blind \subseteq Nodes
  BY IpToNodeMapType DEF IInv, TypeOK
<1>2. pc[t] \in Scheduling /\ Return(t)
  BY DEF Scheduling
<1>3. /\ UNCHANGED <<phase, nodes, scaph, wg, work, channels, measured, signals>>
      /\ UNCHANGED <<boundTo, pending, blind>>
  BY DEF cluster, cached, bounds, Fault
<1>4. ipMap' \in {ipMap, IpToNodeMap}
  BY DEF cached
<1>5. faults' \in 0..MaxFaults
  BY <1>1 DEF Fault, bounds
<1>6. QueueSound'
  BY <1>3 DEF IInv, QueueSound
<1> QED BY <1>1, <1>2, <1>3, <1>4, <1>5, <1>6, ReturnIInv

\* A bind whose response is lost leaves a bound pod out of the queue.
LEMMA BindFailsIInv == ASSUME IInv, NEW t \in Loops, BindFails(t) PROVE IInv'
<1> USE EschedulerAssumption DEF EschedulerAssumption
<1>1. /\ ipMap \in [built : BOOLEAN, nodes : SUBSET Nodes]
      /\ boundTo \in [Pods -> Nodes \cup {NoNode}]
      /\ pending \in Seq([pod : Pods, node : Nodes])
      /\ faults \in 0..MaxFaults
  BY DEF IInv, TypeOK
<1>2. /\ pc[t] = "bind" /\ pc[t] \in Scheduling /\ Return(t)
      /\ UNCHANGED <<phase, nodes, scaph, wg, work, channels, measured, signals, ipMap, pending>>
  BY DEF BindFails, Fault, cached, Scheduling
<1>3. faults' \in 0..MaxFaults /\ blind' \subseteq Nodes
  <2>1. blind \subseteq Nodes
    BY DEF IInv, TypeOK
  <2>2. task[t].pod \in Unscheduled => PlacedBy(t) \subseteq Nodes
    <3>1. task[t].node \in Nodes
      BY <1>2 DEF IInv, TaskOK
    <3> QED BY <2>1, <3>1 DEF PlacedBy
  <2> QED BY <1>1, <2>1, <2>2 DEF BindFails, Fault
<1>4. /\ boundTo' \in [Pods -> Nodes \cup {NoNode}]
      /\ \A p \in Pods : boundTo[p] # NoNode => boundTo'[p] = boundTo[p]
  <2>1. CASE UNCHANGED <<boundTo, blind>>
    BY <1>1, <2>1
  <2>2. CASE /\ task[t].pod \in Unscheduled
             /\ boundTo' = [boundTo EXCEPT ![task[t].pod] = task[t].node]
    BY <1>2, <2>2, BoundOnce
  <2> QED BY <2>1, <2>2 DEF BindFails
<1>5. QueueSound'
  BY <1>2, <1>4, QueuedAreBound DEF IInv, QueueSound
<1> QED BY <1>1, <1>2, <1>3, <1>4, <1>5, ReturnIInv

\* The pod that is appended is bound, and new to the queue.
LEMMA QueueBindIInv == ASSUME IInv, NEW t \in Loops, QueueBind(t) PROVE IInv'
<1> DEFINE Entry == [pod : Pods, node : Nodes]
           e == [pod |-> task[t].pod, node |-> task[t].node]
<1>1. /\ ipMap \in [built : BOOLEAN, nodes : SUBSET Nodes]
      /\ boundTo \in [Pods -> Nodes \cup {NoNode}]
      /\ pending \in Seq(Entry) /\ Len(pending) \in Nat
      /\ faults \in 0..MaxFaults /\ blind \subseteq Nodes
  BY DEF IInv, TypeOK
<1>2. /\ pc[t] = "queue" /\ pc[t] \in Scheduling /\ Return(t)
      /\ UNCHANGED <<phase, nodes, scaph, wg, work, channels, measured, signals, ipMap,
                     boundTo, faults, blind>>
  BY DEF QueueBind, cluster, bounds, Scheduling
<1>3. /\ e \in Entry
      /\ boundTo[e.pod] = e.node
      /\ \A i \in 1..Len(pending) : pending[i].pod # e.pod
  BY <1>2 DEF IInv, TaskOK
<1>4. PICK first \in 1..Len(pending) \cup {1} :
             pending' = Append(SubSeq(pending, first, Len(pending)), e)
  BY DEF QueueBind
<1> DEFINE kept == SubSeq(pending, first, Len(pending))
<1>5. /\ kept \in Seq(Entry) /\ Len(kept) = Len(pending) - first + 1
      /\ \A i \in 1..Len(kept) : kept[i] = pending[first + i - 1]
  <2>1. first \in Int /\ Len(pending) \in Int /\ first >= 1
        /\ (first <= Len(pending) \/ (first = 1 /\ Len(pending) = 0))
    BY <1>1, <1>4
  <2> HIDE DEF Entry
  <2>2. ASSUME NEW i \in first..Len(pending) PROVE pending[i] \in Entry
    <3>1. i \in 1..Len(pending)
      BY <2>1
    <3> QED BY <1>1, <3>1, ElementOfSeq
  <2>3. /\ kept \in Seq(Entry)
        /\ Len(kept) = IF first <= Len(pending) THEN Len(pending) - first + 1 ELSE 0
        /\ \A i \in 1..(Len(pending) - first + 1) : kept[i] = pending[first + i - 1]
    BY <2>1, <2>2, SubSeqProperties
  <2> QED BY <2>1, <2>3
<1>6. /\ pending' \in Seq(Entry) /\ Len(pending') = Len(kept) + 1
      /\ \A i \in 1..Len(kept) : pending'[i] = kept[i]
      /\ pending'[Len(kept) + 1] = e
  <2> HIDE DEF Entry, kept, e
  <2> QED BY <1>3, <1>4, <1>5, AppendProperties DEF kept
<1> HIDE DEF kept, e, Entry
<1>7. \A i \in 1..Len(pending') :
         \/ /\ i \in 1..Len(kept)
            /\ first + i - 1 \in 1..Len(pending)
            /\ pending'[i] = pending[first + i - 1]
         \/ i = Len(kept) + 1 /\ pending'[i] = e
  <2> TAKE i \in 1..Len(pending')
  <2>1. Len(kept) \in Nat /\ i \in 1..(Len(kept) + 1)
    BY <1>1, <1>4, <1>5, <1>6
  <2>2. CASE i = Len(kept) + 1
    BY <1>6, <2>2
  <2>3. CASE i \in 1..Len(kept)
    <3>1. first + i - 1 \in 1..Len(pending)
      BY <1>1, <1>4, <1>5, <2>3
    <3> QED BY <1>5, <1>6, <2>3, <3>1
  <2> QED BY <2>1, <2>2, <2>3
<1>8. QueueSound'
  <2>1. \A i \in 1..Len(pending') : boundTo'[pending'[i].pod] = pending'[i].node
    BY <1>2, <1>3, <1>7 DEF IInv, QueueSound
  <2>2. ASSUME NEW i \in 1..Len(pending'), NEW j \in 1..Len(pending'),
               pending'[i].pod = pending'[j].pod
        PROVE  i = j
    <3>1. CASE i = Len(kept) + 1 \/ j = Len(kept) + 1
      BY <1>3, <1>5, <1>6, <1>7, <2>2, <3>1
    <3>2. CASE i \in 1..Len(kept) /\ j \in 1..Len(kept)
      <4>1. /\ first + i - 1 \in 1..Len(pending) /\ first + j - 1 \in 1..Len(pending)
            /\ pending'[i] = pending[first + i - 1]
            /\ pending'[j] = pending[first + j - 1]
        BY <1>1, <1>4, <1>5, <1>6, <3>2
      <4>2. first + i - 1 = first + j - 1
        BY <2>2, <4>1 DEF IInv, QueueSound
      <4> QED BY <4>2, <1>1, <1>4, <3>2
    <3> QED BY <1>5, <1>6, <3>1, <3>2
  <2> QED BY <2>1, <2>2 DEF QueueSound
<1> QED BY <1>1, <1>2, <1>6, <1>8, ReturnIInv DEF Entry

\* The two panics of schedulePod.
LEMMA SchedulePodPanicIInv ==
    ASSUME IInv, NEW t \in Loops, FitPanics(t) \/ SelectPanics(t) PROVE IInv'
<1> USE EschedulerAssumption DEF EschedulerAssumption
<1>1. Panic /\ UNCHANGED cluster /\ UNCHANGED signals
  BY DEF FitPanics, SelectPanics, Fault, bounds
<1>2. faults' \in 0..MaxFaults
  BY DEF FitPanics, SelectPanics, Fault, bounds, IInv, TypeOK
<1> QED BY <1>1, <1>2, PanicIInv

\* Any step of schedulePod.
LEMMA SchedulePodIInv == ASSUME IInv, NEW t \in Loops, SchedulePod(t) PROVE IInv'
BY ChooseIInv, BindIInv, GiveUpIInv, BindFailsIInv, QueueBindIInv, SchedulePodPanicIInv
DEF SchedulePod

\* Every step keeps the invariant.
THEOREM NextIInv == IInv /\ [Next]_vars => IInv'
<1> SUFFICES ASSUME IInv, [Next]_vars PROVE IInv'
  OBVIOUS
<1>1. "check" \in Loops /\ "retry" \in Loops
  BY DEF Loops
<1>2. CASE Check
  BY <1>1, <1>2, ReceiveIInv, AcquireIInv, SchedulePodIInv DEF Check
<1>3. CASE Retry
  BY <1>1, <1>3, RetryTimerIInv, AcquireIInv, SchedulePodsIInv, SchedulePodIInv DEF Retry
<1>4. CASE UNCHANGED vars
  BY <1>4 DEF vars, cluster, channels, cached, bounds, IInv, TypeOK, LockDiscipline, TaskOK,
              WatchOK, MainOK, QueueSound
<1> QED
  BY <1>2, <1>3, <1>4, ClusterIInv, MetricsIInv, WatchIInv, SignalIInv, RestartIInv DEF Next

-------------------------------------------------------------------------------
\* Every variable keeps its type.
THEOREM TypeCorrect == Spec => []TypeOK
<1>1. IInv => TypeOK
  BY DEF IInv
<1> QED BY <1>1, InitIInv, NextIInv, PTL DEF Spec

\* checkUnscheduled and scheduleUnscheduled never schedule at the same time,
\* and no way out of their critical sections keeps processorLock.
THEOREM LockIsDisciplined == Spec => []LockDiscipline
<1>1. IInv => LockDiscipline
  BY DEF IInv
<1> QED BY <1>1, InitIInv, NextIInv, PTL DEF Spec

\* pendingPods names only binds that happened, each of them once.
THEOREM QueueIsSound == Spec => []QueueSound
<1>1. IInv => QueueSound
  BY DEF IInv
<1> QED BY <1>1, InitIInv, NextIInv, PTL DEF Spec

\* Once main has told one goroutine to stop, wg.Wait never returns: the
\* process does not exit, whatever the goroutines do.
THEOREM NeverExits == Spec => []NoExit
<1>1. IInv => NoExit
  BY DEF IInv, MainOK, NoExit
<1> QED BY <1>1, InitIInv, NextIInv, PTL DEF Spec
-------------------------------------------------------------------------------
(* Capacity and the contract *)

\* The live pods of this scheduler on node n.
Own(n) == {p \in Pods \ Foreign : Live(p) /\ boundTo[p] = n}

\* Node n has room for the pods of S.
HasRoom(S, n) == Sum(Counted, S) <= Allocatable[n]

RoomOK == \A n \in Nodes \ blind : HasRoom(Own(n), n)

\* A pod that does not exist yet has no node.
UnbornOK == \A p \in Pods : phase[p] = "none" => boundTo[p] = NoNode

\* Node n has room for pod p; if getPods hid pods of n, then at least for p
\* alone, and a pod of this scheduler has been placed there.
RoomFor(p, n, hidden) ==
    IF n \in hidden
    THEN /\ Counted[p] <= Allocatable[n]
         /\ \E q \in Pods \ Foreign : boundTo[q] = n
    ELSE HasRoom(Own(n) \cup {p}, n)

\* The nodes that fit has returned still have room for the pod, as long as
\* it has no node; the chosen one is among them and no controller.
TaskRoomOK ==
    \A t \in Loops :
        /\ pc[t] \in {"select", "bind"} =>
              \A n \in task[t].nodes :
                  task[t].pod \notin Foreign /\ boundTo[task[t].pod] = NoNode =>
                      RoomFor(task[t].pod, n, task[t].hidden)
        /\ pc[t] = "bind" => task[t].node \in task[t].nodes \ Controllers

CapacityInv == IInv /\ RoomOK /\ UnbornOK /\ TaskRoomOK

-------------------------------------------------------------------------------
\* A node with room for some pods has room for fewer.
LEMMA LessHasRoom ==
    ASSUME IsFiniteSet(Pods), NEW n \in Nodes, NEW S \in SUBSET Pods, NEW R \in SUBSET S, HasRoom(S, n)
    PROVE  HasRoom(R, n)
<1>1. Counted \in [Pods -> Nat] /\ Allocatable[n] \in Nat /\ IsFiniteSet(Pods)
  BY EschedulerAssumption DEF EschedulerAssumption
<1>2. R \in SUBSET Pods
  OBVIOUS
<1>3. Sum(Counted, R) <= Sum(Counted, S) /\ Sum(Counted, R) \in Nat /\ Sum(Counted, S) \in Nat
  BY <1>1, <1>2, SumMonotone, SumOverSet
<1> QED BY <1>1, <1>3 DEF HasRoom

\* What the process says of the room is about the pods counted in Sum.
LEMMA UsageIsSum ==
    ASSUME NEW n
    PROVE  /\ Granted(n) = Sum(Counted, Own(n))
           /\ \A list : Usage(list, n) = Sum(Counted, {p \in list : boundTo[p] = n})
<1>1. Granted(n) = Sum(Counted, Own(n))
  BY Zenon DEF Granted, Own, Sum
<1>2. ASSUME NEW list PROVE Usage(list, n) = Sum(Counted, {p \in list : boundTo[p] = n})
  BY Zenon DEF Usage, Sum
<1> QED BY <1>1, <1>2

\* Initially no pod exists.
LEMMA InitCapacity == IsFiniteSet(Pods) /\ Init => CapacityInv
<1> SUFFICES ASSUME IsFiniteSet(Pods), Init PROVE CapacityInv
  OBVIOUS
<1>1. IInv
  BY InitIInv
<1>2. UnbornOK /\ TaskRoomOK
  BY DEF Init, FirstPc, UnbornOK, TaskRoomOK, Loops, Threads, Waiters
<1>3. RoomOK
  <2> SUFFICES ASSUME NEW n \in Nodes \ blind PROVE HasRoom(Own(n), n)
    BY DEF RoomOK
  <2>1. Counted \in [Pods -> Nat] /\ Allocatable[n] \in Nat /\ IsFiniteSet(Pods)
    BY EschedulerAssumption DEF EschedulerAssumption
  <2>2. Own(n) = {}
    BY DEF Own, Live, Init
  <2>3. Sum(Counted, {}) = 0
    BY <2>1, SumOverSet
  <2> QED BY <2>1, <2>2, <2>3 DEF HasRoom
<1> QED BY <1>1, <1>2, <1>3 DEF CapacityInv

-------------------------------------------------------------------------------
\* Steps that grant nothing and let no loop go on to selectNode or bind: the
\* pods of a node get fewer, or stay.
LEMMA NothingGranted ==
    ASSUME IsFiniteSet(Pods), CapacityInv, IInv', UNCHANGED blind,
           \A p \in Pods : /\ boundTo[p] # NoNode => boundTo'[p] = boundTo[p]
                           /\ p \notin Foreign => boundTo'[p] = boundTo[p]
                           /\ phase'[p] = "none" => phase[p] = "none" /\ boundTo'[p] = boundTo[p]
                           /\ Live(p)' => Live(p) \/ phase[p] = "none",
           \A t \in Loops : pc'[t] \in {"select", "bind"} => pc'[t] = pc[t] /\ task'[t] = task[t]
    PROVE  CapacityInv'
<1>1. ASSUME NEW n \in Nodes PROVE Own(n)' \in SUBSET Own(n) /\ Own(n) \in SUBSET Pods
  BY EschedulerAssumption DEF EschedulerAssumption, Own, CapacityInv, UnbornOK
<1>2. RoomOK'
  <2> SUFFICES ASSUME NEW n \in Nodes \ blind PROVE HasRoom(Own(n)', n)
    BY DEF RoomOK, HasRoom
  <2>1. HasRoom(Own(n), n)
    BY DEF CapacityInv, RoomOK
  <2> QED BY <1>1, <2>1, LessHasRoom
<1>3. UnbornOK'
  BY DEF CapacityInv, UnbornOK
<1>4. TaskRoomOK'
  <2> SUFFICES ASSUME NEW t \in Loops, pc'[t] \in {"select", "bind"}
               PROVE  /\ \A n \in task'[t].nodes :
                            task'[t].pod \notin Foreign /\ boundTo'[task'[t].pod] = NoNode =>
                                RoomFor(task[t].pod, n, task[t].hidden)'
                      /\ pc'[t] = "bind" => task'[t].node \in task'[t].nodes \ Controllers
    BY DEF TaskRoomOK
  <2>1. /\ pc'[t] = pc[t] /\ task'[t] = task[t]
        /\ task[t].pod \in Pods /\ task[t].nodes \subseteq Nodes
    BY DEF CapacityInv, IInv, TypeOK, TaskOK, Task, Scheduling
  <2>2. ASSUME NEW n \in task[t].nodes, task[t].pod \notin Foreign, boundTo'[task[t].pod] = NoNode
        PROVE  RoomFor(task[t].pod, n, task[t].hidden)'
    <3>1. boundTo[task[t].pod] = NoNode /\ n \in Nodes
      BY <2>1, <2>2
    <3>2. RoomFor(task[t].pod, n, task[t].hidden)
      BY <2>1, <2>2, <3>1 DEF CapacityInv, TaskRoomOK
    <3>3. CASE n \in task[t].hidden
      <4>1. PICK q \in Pods \ Foreign : boundTo[q] = n
        BY <3>2, <3>3 DEF RoomFor
      <4>2. boundTo'[q] = n
        BY <3>1, <4>1, EschedulerAssumption DEF EschedulerAssumption
      <4> QED BY <2>1, <3>2, <3>3, <4>2 DEF RoomFor
    <3>4. CASE n \notin task[t].hidden
      <4>1. /\ Own(n) \cup {task[t].pod} \in SUBSET Pods
            /\ Own(n)' \cup {task[t].pod} \in SUBSET (Own(n) \cup {task[t].pod})
        BY <1>1, <2>1, <3>1
      <4>2. HasRoom(Own(n)' \cup {task[t].pod}, n)
        BY <3>1, <3>2, <3>4, <4>1, LessHasRoom DEF RoomFor
      <4> QED BY <2>1, <3>4, <4>2 DEF RoomFor, HasRoom
    <3> QED BY <3>3, <3>4
  <2>3. pc[t] = "bind" => task[t].node \in task[t].nodes \ Controllers
    BY DEF CapacityInv, TaskRoomOK
  <2> QED BY <2>1, <2>2, <2>3
<1> QED BY <1>2, <1>3, <1>4 DEF CapacityInv

\* The cluster: pods come and go, and only foreign ones are placed.
LEMMA ClusterCapacity == ASSUME IsFiniteSet(Pods), CapacityInv, Cluster PROVE CapacityInv'
<1> USE EschedulerAssumption DEF EschedulerAssumption
<1>1. IInv'
  BY ClusterIInv DEF CapacityInv
<1>2. pc' = pc /\ task' = task /\ blind' = blind
  BY DEF Cluster, CreatePod, KubeletStarts, DeletePod, OtherSchedulerBinds, NodeJoins,
         NodeLeaves, ScaphandreStarts, process
<1>3. \A p \in Pods : /\ boundTo[p] # NoNode => boundTo'[p] = boundTo[p]
                      /\ p \notin Foreign => boundTo'[p] = boundTo[p]
                      /\ phase'[p] = "none" => phase[p] = "none" /\ boundTo'[p] = boundTo[p]
                      /\ Live(p)' => Live(p) \/ phase[p] = "none"
  BY DEF Cluster, CreatePod, KubeletStarts, DeletePod, OtherSchedulerBinds, NodeJoins,
         NodeLeaves, ScaphandreStarts, CapacityInv, IInv, TypeOK, Unscheduled, Live
<1> QED BY <1>1, <1>2, <1>3, NothingGranted

\* Steps of the process that leave the pods alone.
LEMMA MemoryCapacity ==
    ASSUME IsFiniteSet(Pods), CapacityInv, IInv', UNCHANGED <<phase, boundTo, blind>>,
           \A t \in Loops : pc'[t] \in {"select", "bind"} => pc'[t] = pc[t] /\ task'[t] = task[t]
    PROVE  CapacityInv'
BY NothingGranted DEF Live

\* Steps of schedulePod that give up, end or only read the nodes.
LEMMA QuietScheduling ==
    ASSUME IsFiniteSet(Pods), CapacityInv, IInv', NEW t \in Loops,
           \/ FitReadsNodes(t) \/ FitReadsNoNodes(t) \/ FitPanics(t)
           \/ (\E list \in PodLists : FitFindsNoNode(t, list))
           \/ SelectFindsNoNode(t) \/ IpMapStaysEmpty(t) \/ SelectPanics(t) \/ RequestFails(t)
           \/ BindIsRefused(t) \/ PostEvent(t) \/ PostEventFails(t) \/ QueueBind(t)
    PROVE  CapacityInv'
<1>1. task \in [Loops -> Task] /\ pc \in [Threads -> PcValues] /\ Loops \subseteq Threads
  BY DEF CapacityInv, IInv, TypeOK, Loops, Threads, Waiters
<1>2. UNCHANGED <<phase, boundTo, blind>>
  BY DEF FitReadsNodes, FitReadsNoNodes, FitFindsNoNode, FitPanics, SelectFindsNoNode,
         IpMapStaysEmpty, SelectPanics, RequestFails, BindIsRefused, PostEvent, PostEventFails,
         QueueBind, cluster
<1>3. \A u \in Loops : pc'[u] \in {"select", "bind"} => pc'[u] = pc[u] /\ task'[u] = task[u]
  <2>1. CASE FitReadsNodes(t) \/ FitReadsNoNodes(t)
    BY <1>1, <2>1 DEF FitReadsNodes, FitReadsNoNodes, Goto
  <2>2. CASE FitPanics(t) \/ SelectPanics(t)
    BY <1>1, <2>2 DEF FitPanics, SelectPanics, Panic
  <2>3. CASE PostEvent(t)
    BY <1>1, <2>3 DEF PostEvent, Goto
  <2>4. CASE \/ (\E list \in PodLists : FitFindsNoNode(t, list))
             \/ SelectFindsNoNode(t) \/ IpMapStaysEmpty(t) \/ RequestFails(t)
             \/ BindIsRefused(t) \/ PostEventFails(t) \/ QueueBind(t)
    <3>1. Return(t)
      BY <2>4 DEF FitFindsNoNode, SelectFindsNoNode, IpMapStaysEmpty, RequestFails,
                  BindIsRefused, PostEventFails, QueueBind
    <3> QED BY <1>1, <3>1 DEF Return
  <2> QED BY <2>1, <2>2, <2>3, <2>4
<1> QED BY <1>2, <1>3, MemoryCapacity

\* fit: what the listed pods leave free is free of the pods of this scheduler,
\* unless the list hides some of them.
LEMMA FitCapacity ==
    ASSUME IsFiniteSet(Pods), CapacityInv, IInv', NEW t \in Loops, NEW list \in PodLists,
           FitReadsPods(t, list)
    PROVE  CapacityInv'
<1> DEFINE p == task[t].pod
<1>1. /\ pc[t] \in Scheduling /\ UNCHANGED <<phase, boundTo, blind>>
      /\ pc' = [pc EXCEPT ![t] = "select"]
      /\ task' = [task EXCEPT ![t].nodes = Fitting(t, list), ![t].hidden = Hidden(list)]
  BY DEF FitReadsPods, Goto, cluster, Scheduling
<1>2. /\ task \in [Loops -> Task] /\ pc \in [Threads -> PcValues] /\ Loops \subseteq Threads
      /\ task[t].nodes \subseteq Nodes /\ p \in Pods
      /\ phase \in [Pods -> Phases] /\ list \in SUBSET Pods
  <2>1. task \in [Loops -> Task] /\ p \in Pods
    BY <1>1 DEF CapacityInv, IInv, TypeOK, TaskOK
  <2>2. list \in SUBSET Pods
    BY DEF PodLists, Listed
  <2> QED BY <2>1, <2>2 DEF CapacityInv, IInv, TypeOK, Loops, Threads, Waiters, Task
<1>3. /\ pc'[t] = "select" /\ task'[t].pod = p /\ task'[t].nodes = Fitting(t, list)
      /\ task'[t].hidden = Hidden(list)
      /\ \A u \in Loops \ {t} : pc'[u] \notin {"select", "bind"}
  <2>1. \A u \in Loops \ {t} : pc[u] \notin Scheduling
    BY <1>1, OtherLoop DEF CapacityInv
  <2> QED BY <1>1, <1>2, <2>1 DEF Scheduling, Task
<1>4. ASSUME NEW n \in Fitting(t, list), p \notin Foreign, boundTo[p] = NoNode
      PROVE  RoomFor(p, n, Hidden(list))
  <2> DEFINE S == {q \in list : boundTo[q] = n}
  <2>1. n \in Nodes /\ Allocatable[n] - Usage(list, n) >= Counted[p]
    BY <1>2 DEF Fitting
  <2>2. Counted \in [Pods -> Nat] /\ Allocatable[n] \in Nat /\ IsFiniteSet(Pods) /\ NoNode \notin Nodes
    BY <2>1, EschedulerAssumption DEF EschedulerAssumption
  <2>3. S \in SUBSET Pods /\ Usage(list, n) = Sum(Counted, S) /\ Counted[p] \in Nat
    BY <1>2, <2>2, UsageIsSum
  <2>4. p \in Pods \ Own(n) /\ Own(n) \in SUBSET Pods
    BY <1>2, <1>4, <2>1, <2>2 DEF Own
  <2>5. n \notin Hidden(list) => Own(n) \in SUBSET S
    BY <1>2, <2>1 DEF Own, Hidden
  <2> HIDE DEF S, p
  <2>6. Sum(Counted, S) \in Nat
    BY <2>2, <2>3, SumOverSet
  <2>7. CASE n \in Hidden(list)
    <3>1. Counted[p] <= Allocatable[n]
      BY <2>1, <2>2, <2>3, <2>6
    <3>2. \E q \in Pods \ Foreign : boundTo[q] = n
      BY <2>7 DEF Hidden
    <3> QED BY <2>7, <3>1, <3>2 DEF RoomFor
  <2>8. CASE n \notin Hidden(list)
    <3>1. Sum(Counted, Own(n)) <= Sum(Counted, S)
      BY <2>2, <2>3, <2>5, <2>8, SumMonotone
    <3>2. Sum(Counted, Own(n)) \in Nat /\ \A x \in Pods \ Own(n) :
              Sum(Counted, Own(n) \cup {x}) = Sum(Counted, Own(n)) + Counted[x]
      BY <2>2, <2>4, SumOverSet
    <3>3. Sum(Counted, Own(n) \cup {p}) = Sum(Counted, Own(n)) + Counted[p]
      BY <2>4, <3>2
    <3>4. Sum(Counted, Own(n) \cup {p}) <= Allocatable[n]
      BY <2>1, <2>2, <2>3, <2>6, <3>1, <3>2, <3>3
    <3> QED BY <2>8, <3>4 DEF RoomFor, HasRoom
  <2> QED BY <2>7, <2>8
<1>5. \A n \in Nodes : Own(n)' = Own(n)
  BY <1>1 DEF Own, Live
<1>6. RoomOK' /\ UnbornOK'
  BY <1>1, <1>5 DEF CapacityInv, RoomOK, HasRoom, UnbornOK
<1>7. TaskRoomOK'
  <2> SUFFICES ASSUME NEW u \in Loops, pc'[u] \in {"select", "bind"}
               PROVE  /\ \A n \in task'[u].nodes :
                            task'[u].pod \notin Foreign /\ boundTo'[task'[u].pod] = NoNode =>
                                RoomFor(task[u].pod, n, task[u].hidden)'
                      /\ pc'[u] = "bind" => task'[u].node \in task'[u].nodes \ Controllers
    BY DEF TaskRoomOK
  <2>1. u = t
    BY <1>3
  <2>2. Fitting(t, list) \subseteq Nodes
    BY <1>2 DEF Fitting
  <2>3. ASSUME NEW n \in Fitting(t, list), p \notin Foreign, boundTo[p] = NoNode
        PROVE  RoomFor(task[t].pod, n, task[t].hidden)'
    <3>1. RoomFor(p, n, Hidden(list)) /\ n \in Nodes
      BY <1>4, <2>2, <2>3
    <3> HIDE DEF p
    <3> QED BY <1>1, <1>3, <1>5, <3>1 DEF RoomFor, HasRoom
  <2> QED BY <1>1, <1>3, <2>1, <2>3
<1> QED BY <1>6, <1>7 DEF CapacityInv

\* selectNode picks one of them.
LEMMA SelectCapacity ==
    ASSUME IsFiniteSet(Pods), CapacityInv, IInv', NEW t \in Loops, NEW m \in Nodes, SelectNode(t, m)
    PROVE  CapacityInv'
<1>1. /\ pc[t] = "select" /\ UNCHANGED <<phase, boundTo, blind>>
      /\ pc' = [pc EXCEPT ![t] = "bind"]
      /\ task' = [task EXCEPT ![t].node = m]
      /\ m \in task[t].nodes \ Controllers
  BY DEF SelectNode, Goto, cluster, Candidates
<1>2. task \in [Loops -> Task] /\ pc \in [Threads -> PcValues] /\ Loops \subseteq Threads
  BY DEF CapacityInv, IInv, TypeOK, Loops, Threads, Waiters
<1>3. /\ task'[t].pod = task[t].pod /\ task'[t].nodes = task[t].nodes /\ task'[t].node = m
      /\ task'[t].hidden = task[t].hidden
      /\ \A u \in Loops \ {t} : pc'[u] = pc[u] /\ task'[u] = task[u]
  BY <1>1, <1>2 DEF Task
<1>4. \A n : Own(n)' = Own(n)
  BY <1>1 DEF Own, Live
<1>5. RoomOK' /\ UnbornOK'
  BY <1>1, <1>4 DEF CapacityInv, RoomOK, HasRoom, UnbornOK
<1>6. TaskRoomOK'
  <2> SUFFICES ASSUME NEW u \in Loops, pc'[u] \in {"select", "bind"}
               PROVE  /\ \A n \in task'[u].nodes :
                            task'[u].pod \notin Foreign /\ boundTo'[task'[u].pod] = NoNode =>
                                RoomFor(task'[u].pod, n, task'[u].hidden)
                      /\ pc'[u] = "bind" => task'[u].node \in task'[u].nodes \ Controllers
    BY <1>1, <1>4 DEF TaskRoomOK, RoomFor, HasRoom
  <2>1. CASE u = t
    BY <1>1, <1>3, <2>1 DEF CapacityInv, TaskRoomOK
  <2>2. CASE u # t
    BY <1>1, <1>3, <2>2 DEF CapacityInv, TaskRoomOK
  <2> QED BY <2>1, <2>2
<1> QED BY <1>5, <1>6 DEF CapacityInv

\* bind: the room is still there.  A foreign pod takes none that is counted.
LEMMA BindCapacity ==
    ASSUME IsFiniteSet(Pods), CapacityInv, IInv', NEW t \in Loops, pc[t] = "bind",
           task[t].pod \in Unscheduled, UNCHANGED phase, blind' = PlacedBy(t),
           boundTo' = [boundTo EXCEPT ![task[t].pod] = task[t].node],
           \A u \in Loops : pc'[u] \in {"select", "bind"} => pc'[u] = pc[u] /\ u # t
    PROVE  CapacityInv'
<1> DEFINE p == task[t].pod
           m == task[t].node
<1>1. /\ p \in Pods /\ Live(p) /\ boundTo[p] = NoNode
      /\ boundTo \in [Pods -> Nodes \cup {NoNode}]
      /\ m \in task[t].nodes /\ m \in Nodes
  BY DEF Unscheduled, CapacityInv, IInv, TypeOK, TaskOK, TaskRoomOK
<1>2. \A u \in Loops \ {t} : pc[u] \notin Scheduling
  BY OtherLoop DEF CapacityInv, Scheduling
<1>3. ASSUME NEW n \in Nodes \ blind' PROVE HasRoom(Own(n)', n)
  <2>1. CASE n = m /\ p \notin Foreign
    <3>1. Own(n)' \in SUBSET (Own(n) \cup {p}) /\ Own(n) \cup {p} \in SUBSET Pods
      BY <1>1, <2>1 DEF Own, Live
    <3>2. n \notin task[t].hidden
      BY <1>3, <2>1 DEF PlacedBy
    <3>3. RoomFor(p, n, task[t].hidden)
      BY <1>1, <2>1 DEF CapacityInv, TaskRoomOK
    <3>4. HasRoom(Own(n) \cup {p}, n)
      BY <3>2, <3>3 DEF RoomFor
    <3> QED BY <3>1, <3>4, LessHasRoom
  <2>2. CASE n # m \/ p \in Foreign
    <3>1. Own(n)' \in SUBSET Own(n) /\ Own(n) \in SUBSET Pods
      BY <1>1, <2>2 DEF Own, Live
    <3>2. n \notin blind
      BY <1>3, <2>2 DEF PlacedBy
    <3>3. HasRoom(Own(n), n)
      BY <3>2 DEF CapacityInv, RoomOK
    <3> QED BY <3>1, <3>3, LessHasRoom
  <2> QED BY <2>1, <2>2
<1>4. UnbornOK'
  BY <1>1 DEF CapacityInv, UnbornOK, Live
<1>5. TaskRoomOK'
  BY <1>2 DEF TaskRoomOK, Scheduling
<1> QED BY <1>3, <1>4, <1>5 DEF CapacityInv, RoomOK, HasRoom

\* Any step of schedulePod.
LEMMA SchedulePodCapacity ==
    ASSUME IsFiniteSet(Pods), CapacityInv, IInv', NEW t \in Loops, SchedulePod(t) PROVE CapacityInv'
<1>1. pc \in [Threads -> PcValues] /\ Loops \subseteq Threads
  BY DEF CapacityInv, IInv, TypeOK, Loops, Threads, Waiters
<1>2. CASE Bind(t)
  <2>1. \A u \in Loops : pc'[u] \in {"select", "bind"} => pc'[u] = pc[u] /\ u # t
    BY <1>1, <1>2 DEF Bind, Goto
  <2> QED BY <1>2, <2>1, BindCapacity DEF Bind, Goto
<1>3. CASE BindFails(t)
  <2>1. \A u \in Loops : pc'[u] \in {"select", "bind"} =>
           pc'[u] = pc[u] /\ task'[u] = task[u] /\ u # t
    <3>1. task \in [Loops -> Task]
      BY DEF CapacityInv, IInv, TypeOK
    <3> QED BY <1>1, <1>3, <3>1 DEF BindFails, Return
  <2>2. UNCHANGED phase /\ pc[t] = "bind"
    BY <1>3 DEF BindFails
  <2>3. CASE UNCHANGED <<boundTo, blind>>
    BY <2>1, <2>2, <2>3, MemoryCapacity
  <2>4. CASE /\ task[t].pod \in Unscheduled
             /\ boundTo' = [boundTo EXCEPT ![task[t].pod] = task[t].node]
             /\ blind' = PlacedBy(t)
    BY <2>1, <2>2, <2>4, BindCapacity
  <2> QED BY <1>3, <2>3, <2>4 DEF BindFails
<1> QED BY <1>2, <1>3, QuietScheduling, FitCapacity, SelectCapacity DEF SchedulePod

\* Steps of the process outside schedulePod.
LEMMA ProcessCapacity ==
    ASSUME IsFiniteSet(Pods), CapacityInv, IInv',
           \/ Metrics \/ Watch \/ ReceiveError \/ ReceivePod \/ RetryTimer
           \/ \E t \in Loops : Acquire(t)
           \/ GetUnscheduledPods \/ GetUnscheduledPodsFails \/ ListAnswersError
           \/ (\E p \in Pods : NextPod(p)) \/ NoMorePods \/ Signal \/ Stop \/ Restart
    PROVE  CapacityInv'
<1>1. task \in [Loops -> Task] /\ pc \in [Threads -> PcValues] /\ Loops \subseteq Threads
  BY DEF CapacityInv, IInv, TypeOK, Loops, Threads, Waiters
<1>2. UNCHANGED <<phase, boundTo, blind>>
  BY DEF Metrics, MetricsTimer, Collect, CollectFails, CollectPanics, Watch, WatchConnects,
         WatchConnectFails, WatchDecodes, WatchBreaks, WatchReports, ReceiveError, ReceivePod,
         RetryTimer, Acquire, GetUnscheduledPods, GetUnscheduledPodsFails, ListAnswersError, NextPod, NoMorePods,
         Signal, Stop, ReceiveDone, Restart, cluster
<1>3. \A t \in Loops : pc'[t] \in {"select", "bind"} => pc'[t] = pc[t] /\ task'[t] = task[t]
  <2> USE DEF Goto, Loops, Threads, Waiters
  <2>1. CASE Metrics
    BY <1>1, <2>1 DEF Metrics, MetricsTimer, Collect, CollectFails, CollectPanics, Panic
  <2>2. CASE Watch
    BY <1>1, <2>2 DEF Watch, WatchConnects, WatchConnectFails, WatchDecodes, WatchBreaks,
                      WatchReports
  <2>3. CASE ReceiveError \/ RetryTimer \/ \E t \in Loops : Acquire(t)
    BY <1>1, <2>3 DEF ReceiveError, RetryTimer, Acquire
  <2>4. CASE ReceivePod
    BY <1>1, <2>4 DEF ReceivePod
  <2>5. CASE GetUnscheduledPods \/ GetUnscheduledPodsFails \/ ListAnswersError \/ NoMorePods
    BY <1>1, <2>5 DEF GetUnscheduledPods, GetUnscheduledPodsFails, ListAnswersError, NoMorePods
  <2>6. CASE \E p \in Pods : NextPod(p)
    BY <1>1, <2>6 DEF NextPod
  <2>7. CASE Signal \/ Stop \/ Restart
    BY <1>1, <2>7 DEF Signal, Stop, ReceiveDone, Restart, FirstPc
  <2> QED BY <2>1, <2>2, <2>3, <2>4, <2>5, <2>6, <2>7
<1> QED BY <1>2, <1>3, MemoryCapacity

\* Every step keeps the room.
THEOREM NextCapacity == IsFiniteSet(Pods) /\ CapacityInv /\ [Next]_vars => CapacityInv'
<1> SUFFICES ASSUME IsFiniteSet(Pods), CapacityInv, [Next]_vars PROVE CapacityInv'
  OBVIOUS
<1>1. IInv'
  BY NextIInv DEF CapacityInv
<1>2. "check" \in Loops /\ "retry" \in Loops
  BY DEF Loops
<1>3. CASE Cluster
  BY <1>3, ClusterCapacity
<1>4. CASE Metrics \/ Watch \/ Signal \/ Stop \/ Restart
  BY <1>1, <1>4, ProcessCapacity
<1>5. CASE Check
  BY <1>1, <1>2, <1>5, ProcessCapacity, SchedulePodCapacity DEF Check
<1>6. CASE Retry
  BY <1>1, <1>2, <1>6, ProcessCapacity, SchedulePodCapacity DEF Retry
<1>7. CASE UNCHANGED vars
  <2>1. UNCHANGED <<phase, boundTo, blind, pc, task>>
    BY <1>7 DEF vars, cluster
  <2> QED BY <1>1, <2>1, MemoryCapacity
<1> QED BY <1>3, <1>4, <1>5, <1>6, <1>7 DEF Next

\* The room is there in every behaviour.
THEOREM SpecCapacity == ASSUME IsFiniteSet(Pods) PROVE Spec => []CapacityInv
<1>1. Init => CapacityInv
  BY InitCapacity
<1>2. CapacityInv /\ [Next]_vars => CapacityInv'
  BY NextCapacity
<1> QED BY <1>1, <1>2, PTL DEF Spec

\* The CPU granted on a node exceeds what it offers only by a pod that was
\* placed on a list of pods which lacked some of the node's, although the watch,
\* the retries, lost responses and restarts may all schedule the same pods.
THEOREM OvercommittedOnlyBlindAlways == ASSUME IsFiniteSet(Pods) PROVE Spec => []OvercommittedOnlyBlind
<1>1. CapacityInv => OvercommittedOnlyBlind
  BY UsageIsSum DEF CapacityInv, RoomOK, HasRoom, OvercommittedOnlyBlind
<1> QED BY <1>1, SpecCapacity, PTL

-------------------------------------------------------------------------------
\* What the contract counts on a node is what is counted here.
LEMMA LoadIsSum ==
    ASSUME TypeOK, NEW n, NEW p \in Pods
    PROVE  Binding!LoadWith(p, n) = Sum(Counted, Own(n) \cup {p})
<1> DEFINE life == [q \in Pods |-> IF Live(q) THEN "live" ELSE phase[q]]
           S == {p} \cup {q \in Pods \ Foreign : life[q] = "live" /\ boundTo[q] = n}
<1>1. Binding!LoadWith(p, n) = Sum(Counted, S)
  BY Zenon DEF Binding!LoadWith, Sum, MapThenSumSet, MapThenFoldSet, Binding!MapThenSumSet,
               Binding!MapThenFoldSet
<1>2. S = Own(n) \cup {p}
  BY DEF Own, Live, TypeOK, Phases
<1> QED BY <1>1, <1>2

\* A bind that the API server carries out is an assignment of the contract.
LEMMA BindIsAssigned ==
    ASSUME CapacityInv, NEW t \in Loops, pc[t] = "bind", UNCHANGED phase,
           task[t].pod \in Unscheduled, blind' = PlacedBy(t),
           boundTo' = [boundTo EXCEPT ![task[t].pod] = task[t].node]
    PROVE  Binding!Next
<1> DEFINE p == task[t].pod
           m == task[t].node
<1>1. /\ p \in Pods /\ Live(p) /\ boundTo[p] = NoNode
      /\ m \in task[t].nodes \ Controllers /\ m \in Nodes
  BY DEF Unscheduled, CapacityInv, IInv, TaskOK, TaskRoomOK
<1>2. Binding!Place(p, m)
  BY <1>1 DEF Binding!Place, Live
<1>3. CASE p \in Foreign
  <2>1. Binding!PlacedByOther(p, m)
    BY <1>2, <1>3 DEF Binding!PlacedByOther, PlacedBy
  <2> QED BY <1>1, <2>1 DEF Binding!Next
<1>4. CASE p \notin Foreign /\ m \notin task[t].hidden
  <2>1. HasRoom(Own(m) \cup {p}, m)
    BY <1>1, <1>4 DEF CapacityInv, TaskRoomOK, RoomFor
  <2>2. Binding!LoadWith(p, m) <= Allocatable[m]
    BY <1>1, <2>1, LoadIsSum DEF HasRoom, CapacityInv, IInv
  <2>3. Binding!Assign(p, m)
    BY <1>1, <1>2, <1>4, <2>2 DEF Binding!Assign, PlacedBy
  <2> QED BY <1>1, <2>3 DEF Binding!Next
<1>5. CASE p \notin Foreign /\ m \in task[t].hidden
  <2>1. RoomFor(p, m, task[t].hidden)
    BY <1>1, <1>5 DEF CapacityInv, TaskRoomOK
  <2>2. PICK q \in Pods \ Foreign : boundTo[q] = m
    BY <1>5, <2>1 DEF RoomFor
  <2>3. q # p
    BY <1>1, <2>2, EschedulerAssumption DEF EschedulerAssumption
  <2>4. Binding!AssignBlind(p, m)
    BY <1>1, <1>2, <1>5, <2>1, <2>2, <2>3 DEF Binding!AssignBlind, RoomFor, PlacedBy
  <2> QED BY <1>1, <2>4 DEF Binding!Next
<1> QED BY <1>3, <1>4, <1>5

\* Every step is one of the contract, or none.
LEMMA StepSimulation ==
    ASSUME CapacityInv, [Next]_vars PROVE [Binding!Next]_(Binding!vars)
<1>1. CASE UNCHANGED <<phase, boundTo, blind>>
  BY <1>1 DEF Binding!vars, Live
<1>2. CASE Cluster
  <2> USE DEF Live
  <2>1. ASSUME NEW p \in Pods, CreatePod(p) PROVE Binding!Next
    <3>1. Binding!Create(p)
      BY <2>1 DEF CreatePod, process, Binding!Create, CapacityInv, IInv, TypeOK
    <3> QED BY <3>1 DEF Binding!Next
  <2>2. ASSUME NEW p \in Pods, KubeletStarts(p) PROVE UNCHANGED Binding!vars
    BY <2>2 DEF KubeletStarts, process, Binding!vars, CapacityInv, IInv, TypeOK
  <2>3. ASSUME NEW p \in Pods, DeletePod(p) PROVE Binding!Next
    <3>1. Binding!Remove(p)
      BY <2>3 DEF DeletePod, process, Binding!Remove, CapacityInv, IInv, TypeOK
    <3> QED BY <3>1 DEF Binding!Next
  <2>4. ASSUME NEW p \in Pods, NEW n \in Nodes, OtherSchedulerBinds(p, n) PROVE Binding!Next
    <3>1. Binding!PlacedByOther(p, n)
      BY <2>4 DEF OtherSchedulerBinds, process, Unscheduled, Binding!PlacedByOther, Binding!Place
    <3> QED BY <3>1 DEF Binding!Next
  <2>5. ASSUME NEW n \in Nodes, NodeJoins(n) \/ NodeLeaves(n) \/ ScaphandreStarts(n)
        PROVE  UNCHANGED <<phase, boundTo, blind>>
    BY <2>5 DEF NodeJoins, NodeLeaves, ScaphandreStarts, process
  <2> QED BY <1>1, <1>2, <2>1, <2>2, <2>3, <2>4, <2>5 DEF Cluster
<1>3. ASSUME NEW t \in Loops, SchedulePod(t) PROVE [Binding!Next]_(Binding!vars)
  <2>1. CASE Bind(t) \/ BindFails(t)
    BY <1>1, <2>1, BindIsAssigned DEF Bind, BindFails, Goto
  <2>2. CASE ~(Bind(t) \/ BindFails(t))
    <3>1. UNCHANGED <<phase, boundTo, blind>>
      BY <1>3, <2>2 DEF SchedulePod, FitReadsNodes, FitReadsNoNodes, FitReadsPods, FitFindsNoNode,
            FitPanics, SelectNode, SelectFindsNoNode, IpMapStaysEmpty, SelectPanics, RequestFails, BindIsRefused, PostEvent,
            PostEventFails, QueueBind, cluster
    <3> QED BY <1>1, <3>1
  <2> QED BY <2>1, <2>2
<1>4. CASE Metrics \/ Watch \/ ReceiveError \/ ReceivePod \/ RetryTimer
           \/ Acquire("check") \/ Acquire("retry")
           \/ GetUnscheduledPods \/ GetUnscheduledPodsFails \/ ListAnswersError
           \/ (\E p \in Pods : NextPod(p)) \/ NoMorePods \/ Signal \/ Stop \/ Restart
           \/ UNCHANGED vars
  <2>1. UNCHANGED <<phase, boundTo, blind>>
    BY <1>4 DEF Metrics, MetricsTimer, Collect, CollectFails, CollectPanics, Watch,
         WatchConnects, WatchConnectFails, WatchDecodes, WatchBreaks, WatchReports, ReceiveError,
         ReceivePod, RetryTimer, Acquire, GetUnscheduledPods, GetUnscheduledPodsFails, ListAnswersError, NextPod,
         NoMorePods, Signal, Stop, ReceiveDone, Restart, vars, cluster
  <2> QED BY <1>1, <2>1
<1>5. "check" \in Loops /\ "retry" \in Loops
  BY DEF Loops
<1> QED BY <1>2, <1>3, <1>4, <1>5 DEF Next, Check, Retry

\* The scheduler implements its contract: a pod is assigned once, keeps its
\* node while it lives, never goes to a controller, and to a node without room
\* for it only if the list of pods hid some of the node's; everything else the
\* process does is invisible to it.
THEOREM ContractIsImplemented == ASSUME IsFiniteSet(Pods) PROVE Spec => ImplementsBinding
<1>1. Init => Binding!Init
  BY DEF Init, Binding!Init, Live
<1>2. CapacityInv /\ [Next]_vars => [Binding!Next]_(Binding!vars)
  BY StepSimulation
<1> QED BY <1>1, <1>2, SpecCapacity, PTL DEF Spec, ImplementsBinding, Binding!Spec
===============================================================================
