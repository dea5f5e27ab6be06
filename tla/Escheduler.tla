------------------------------ MODULE Escheduler ------------------------------
(***************************************************************************)
(* The process of src/escheduler: main, its three goroutines               *)
(* (gatherEnergyMetrics, checkUnscheduled, scheduleUnscheduled), the       *)
(* goroutine that watchUnscheduledPods starts, the processorLock, the      *)
(* done, pods and errc channels, and every API call of one schedulePod as  *)
(* a step of its own.  The API server, the kubelets and other schedulers   *)
(* are the environment.                                                    *)
(*                                                                         *)
(* Watts are left out here: selectNode picks any node that passes the      *)
(* tests of its loop.  NodeSelection models which of them it picks, and    *)
(* EnergyMetrics where its data comes from.  Timers may fire at any time,  *)
(* so the sleeps of the code need no step of their own.                    *)
(***************************************************************************)
EXTENDS Naturals, Sequences, FiniteSets, FiniteSetsExt

CONSTANTS
    Pods, Nodes, NoPod, NoNode,
    Controllers,    \* nodes whose name contains "controller"
    Foreign,        \* pods whose spec names another scheduler
    Annotated,      \* pods with the annotation getUnscheduledPods looks for
    Counted,        \* [Pods -> Nat] millicores of the requests that end in "m"
    Allocatable,    \* [Nodes -> Nat] millicores
    FirstNodes,     \* nodes of the cluster when the scheduler starts
    FirstMeasured,  \* those of them on which Scaphandre runs
    Unstable,       \* nodes that may leave the cluster
    MaxFaults,      \* bound on failed requests, broken watches and lost nodes
    MaxSignals      \* bound on SIGINT and SIGTERM

ASSUME EschedulerAssumption ==
    /\ NoPod \notin Pods
    /\ NoNode \notin Nodes
    /\ Controllers \subseteq Nodes
    /\ Foreign \subseteq Pods
    /\ Annotated \subseteq Pods
    /\ Counted \in [Pods -> Nat]
    /\ Allocatable \in [Nodes -> Nat]
    /\ FirstMeasured \subseteq FirstNodes
    /\ FirstNodes \subseteq Nodes
    /\ Unstable \subseteq Nodes
    /\ MaxFaults \in Nat
    /\ MaxSignals \in Nat

VARIABLES
    \* the cluster
    phase,      \* [Pods -> Phases]
    boundTo,    \* [Pods -> Nodes \cup {NoNode}], spec.nodeName
    nodes,      \* nodes the API server knows
    scaph,      \* nodes whose Scaphandre pod runs and reports
    \* the process
    pc,         \* [Threads -> STRING]
    lock,       \* processorLock: the loop that holds it, or "free"
    wg,         \* the WaitGroup of main
    task,       \* [Loops -> Task], the locals of schedulePod
    work,       \* pods schedulePods has yet to try
    stream,     \* ADDED events of the open watch connection, not yet decoded
    event,      \* the pod the watcher offers on the pods channel
    errc,       \* errors in the channel errc, of capacity 1
    pending,    \* pendingPods, the queue of recent bind operations
    ipMap,      \* cachedIpToNodeMap, as built or not and the nodes it names
    measured,   \* nodes with an entry in ndContainer.nodeData
    \* history
    blind,      \* nodes whose last pod was placed on an answer that lacked pods
    \* bounds
    faults, signals

cluster == <<phase, boundTo, nodes, scaph, blind>>
channels == <<stream, event, errc>>
cached == <<pending, ipMap, measured>>
bounds == <<faults, signals>>
vars == <<cluster, pc, lock, wg, task, work, channels, cached, bounds>>

Loops == {"check", "retry"}                 \* the two loops that schedule
Waiters == {"metrics", "check", "retry"}    \* the goroutines main waits for
Threads == Waiters \cup {"main", "watch"}
Phases == {"none", "pending", "running", "gone"}

\* The program counters of one schedulePod, all of them under processorLock.
Scheduling == {"nodes", "pods", "select", "bind", "event", "queue"}

NoTask == [pod |-> NoPod, nodes |-> {}, hidden |-> {}, node |-> NoNode]
FirstPc == [t \in Threads |-> IF t = "main" THEN "running"
                             ELSE IF t = "watch" THEN "connect" ELSE "idle"]

Live(p) == phase[p] \in {"pending", "running"}
Unscheduled == {p \in Pods : Live(p) /\ boundTo[p] = NoNode}

Init ==
    /\ phase = [p \in Pods |-> "none"]
    /\ boundTo = [p \in Pods |-> NoNode]
    /\ nodes = FirstNodes
    /\ scaph = FirstMeasured
    /\ pc = FirstPc
    /\ lock = "free"
    /\ wg = 3
    /\ task = [t \in Loops |-> NoTask]
    /\ work = {}
    /\ stream = {}
    /\ event = NoPod
    /\ errc = 0
    /\ pending = <<>>
    /\ ipMap = [built |-> FALSE, nodes |-> {}]
    /\ measured = {}
    /\ blind = {}
    /\ faults = 0
    /\ signals = 0

-------------------------------------------------------------------------------
(* The cluster.  It acts on its own and leaves the process alone, except   *)
(* that an open watch connection hears of every new pod.                   *)

process == <<pc, lock, wg, task, work, event, errc, cached, signals, blind>>

Connected == pc["watch"] \in {"decode", "send"}

CreatePod(p) ==
    /\ phase[p] = "none"
    /\ phase' = [phase EXCEPT ![p] = "pending"]
    /\ stream' = IF Connected THEN stream \cup {p} ELSE stream
    /\ UNCHANGED <<boundTo, nodes, scaph, process, faults>>

KubeletStarts(p) ==
    /\ phase[p] = "pending"
    /\ boundTo[p] \in nodes
    /\ phase' = [phase EXCEPT ![p] = "running"]
    /\ UNCHANGED <<boundTo, nodes, scaph, process, stream, faults>>

DeletePod(p) ==
    /\ Live(p)
    /\ phase' = [phase EXCEPT ![p] = "gone"]
    /\ UNCHANGED <<boundTo, nodes, scaph, process, stream, faults>>

OtherSchedulerBinds(p, n) ==
    /\ p \in Foreign \cap Unscheduled
    /\ n \in nodes
    /\ boundTo' = [boundTo EXCEPT ![p] = n]
    /\ UNCHANGED <<phase, nodes, scaph, process, stream, faults>>

NodeJoins(n) ==
    /\ n \notin nodes
    /\ nodes' = nodes \cup {n}
    /\ UNCHANGED <<phase, boundTo, scaph, process, stream, faults>>

NodeLeaves(n) ==
    /\ n \in nodes \cap Unstable
    /\ faults < MaxFaults
    /\ faults' = faults + 1
    /\ nodes' = nodes \ {n}
    /\ scaph' = scaph \ {n}
    /\ UNCHANGED <<phase, boundTo, process, stream>>

ScaphandreStarts(n) ==
    /\ n \in nodes \ scaph
    /\ scaph' = scaph \cup {n}
    /\ UNCHANGED <<phase, boundTo, nodes, process, stream, faults>>

-------------------------------------------------------------------------------
(* Helpers of the process's steps.                                         *)

Goto(t, from, to) ==
    /\ pc[t] = from
    /\ pc' = [pc EXCEPT ![t] = to]

\* A request, a response body or a connection that fails, or an answer with an
\* error status.  The list requests do not look at the status: an answer of
\* the API server that is an error has no items, and is taken for an empty list.
Fault ==
    /\ faults < MaxFaults
    /\ faults' = faults + 1
    /\ UNCHANGED signals

\* Mutant: checkUnscheduled without its Unlock.
ReturnLocked(t) ==
    /\ pc' = [pc EXCEPT ![t] = IF t = "check" THEN "idle" ELSE "next"]
    /\ lock' = lock
    /\ task' = [task EXCEPT ![t] = NoTask]

\* schedulePod returns: checkUnscheduled unlocks and goes back to its
\* select, schedulePods goes on with the next pod.
Return(t) ==
    /\ pc' = [pc EXCEPT ![t] = IF t = "check" THEN "idle" ELSE "next"]
    /\ lock' = IF t = "check" THEN "free" ELSE lock
    /\ task' = [task EXCEPT ![t] = NoTask]

\* A panic in one goroutine ends the process: its memory is gone.
Panic ==
    /\ pc' = [t \in Threads |-> "crashed"]
    /\ lock' = "free"
    /\ wg' = 3
    /\ task' = [t \in Loops |-> NoTask]
    /\ work' = {}
    /\ stream' = {}
    /\ event' = NoPod
    /\ errc' = 0
    /\ pending' = <<>>
    /\ ipMap' = [built |-> FALSE, nodes |-> {}]
    /\ measured' = {}

\* The Deployment starts a new container.
Restart ==
    /\ pc["main"] = "crashed"
    /\ pc' = FirstPc
    /\ UNCHANGED <<cluster, lock, wg, task, work, channels, cached, bounds>>

-------------------------------------------------------------------------------
(* main.  The send on done meets whichever waiter is in its select.        *)

Signal ==
    /\ signals < MaxSignals
    /\ signals' = signals + 1
    /\ Goto("main", "running", "sending")
    /\ UNCHANGED <<cluster, lock, wg, task, work, channels, cached, faults>>

\* wg.Wait returns, and main exits, once the counter is zero.
ReceiveDone(t) ==
    /\ pc["main"] = "sending"
    /\ pc[t] = "idle"
    /\ wg' = wg - 1
    /\ pc' = [pc EXCEPT ![t] = "stopped",
                        !["main"] = IF wg' = 0 THEN "exited" ELSE "waiting"]
    /\ UNCHANGED <<cluster, lock, task, work, channels, cached, bounds>>

-------------------------------------------------------------------------------
(* gatherEnergyMetrics: the timer fires and one collection runs.           *)

MetricsTimer ==
    /\ Goto("metrics", "idle", "collect")
    /\ UNCHANGED <<cluster, lock, wg, task, work, channels, cached, bounds>>

\* setNodeData replaces the node data by what Scaphandre reports now; with
\* no report at all it replaces them by nothing.
Collect ==
    /\ Goto("metrics", "collect", "idle")
    /\ measured' = scaph
    /\ UNCHANGED <<cluster, lock, wg, task, work, channels, pending, ipMap, bounds>>

CollectFails ==
    /\ Goto("metrics", "collect", "idle")
    /\ Fault
    /\ UNCHANGED <<cluster, lock, wg, task, work, channels, cached>>

\* Node data without any process data: the average divides by zero.
CollectPanics ==
    /\ pc["metrics"] = "collect"
    /\ scaph # {}
    /\ Fault
    /\ Panic
    /\ UNCHANGED cluster

-------------------------------------------------------------------------------
(* watchUnscheduledPods and the loop that reads its two channels.          *)

WatchConnects ==
    /\ Goto("watch", "connect", "decode")
    /\ stream' = Unscheduled
    /\ UNCHANGED <<cluster, lock, wg, task, work, event, errc, cached, bounds>>

WatchConnectFails ==
    /\ Goto("watch", "connect", "report")
    /\ Fault
    /\ UNCHANGED <<cluster, lock, wg, task, work, channels, cached>>

WatchDecodes(p) ==
    /\ p \in stream
    /\ Goto("watch", "decode", "send")
    /\ event' = p
    /\ stream' = stream \ {p}
    /\ UNCHANGED <<cluster, lock, wg, task, work, errc, cached, bounds>>

WatchBreaks ==
    /\ Goto("watch", "decode", "report")
    /\ Fault
    /\ stream' = {}
    /\ UNCHANGED <<cluster, lock, wg, task, work, event, errc, cached>>

\* errc <- err blocks while the channel holds an error already.
WatchReports ==
    /\ errc < 1
    /\ Goto("watch", "report", "connect")
    /\ errc' = errc + 1
    /\ UNCHANGED <<cluster, lock, wg, task, work, stream, event, cached, bounds>>

ReceiveError ==
    /\ pc["check"] = "idle"
    /\ errc > 0
    /\ errc' = errc - 1
    /\ UNCHANGED <<cluster, pc, lock, wg, task, work, stream, event, cached, bounds>>

ReceivePod ==
    /\ pc["watch"] = "send"
    /\ pc["check"] = "idle"
    /\ pc' = [pc EXCEPT !["watch"] = "decode", !["check"] = "lock"]
    /\ task' = [task EXCEPT !["check"].pod = event]
    /\ event' = NoPod
    /\ UNCHANGED <<cluster, lock, wg, work, stream, errc, cached, bounds>>

\* Mutant: no Lock call.
AcquireAnyway(t) ==
    /\ lock' = t
    /\ Goto(t, "lock", IF t = "check" THEN "nodes" ELSE "list")
    /\ UNCHANGED <<cluster, wg, task, work, channels, cached, bounds>>

Acquire(t) ==
    /\ lock = "free"
    /\ lock' = t
    /\ Goto(t, "lock", IF t = "check" THEN "nodes" ELSE "list")
    /\ UNCHANGED <<cluster, wg, task, work, channels, cached, bounds>>

-------------------------------------------------------------------------------
(* scheduleUnscheduled and schedulePods.                                   *)

RetryTimer ==
    /\ Goto("retry", "idle", "lock")
    /\ UNCHANGED <<cluster, lock, wg, task, work, channels, cached, bounds>>

GetUnscheduledPods ==
    /\ Goto("retry", "list", "next")
    /\ work' = Unscheduled \cap Annotated
    /\ UNCHANGED <<cluster, lock, wg, task, channels, cached, bounds>>

\* Mutant: the early return of schedulePods without the deferred Unlock.
GetUnscheduledPodsFailsLocked ==
    /\ Goto("retry", "list", "idle")
    /\ Fault
    /\ UNCHANGED <<cluster, lock, wg, task, work, channels, cached>>

GetUnscheduledPodsFails ==
    /\ Goto("retry", "list", "idle")
    /\ Fault
    /\ lock' = "free"
    /\ UNCHANGED <<cluster, wg, task, work, channels, cached>>

ListAnswersError ==
    /\ Goto("retry", "list", "next")
    /\ Fault
    /\ work' = {}
    /\ UNCHANGED <<cluster, lock, wg, task, channels, cached>>

NextPod(p) ==
    /\ p \in work
    /\ Goto("retry", "next", "nodes")
    /\ work' = work \ {p}
    /\ task' = [task EXCEPT !["retry"].pod = p]
    /\ UNCHANGED <<cluster, lock, wg, channels, cached, bounds>>

NoMorePods ==
    /\ work = {}
    /\ Goto("retry", "next", "idle")
    /\ lock' = "free"
    /\ UNCHANGED <<cluster, wg, task, work, channels, cached, bounds>>

-------------------------------------------------------------------------------
(* schedulePod: fit, selectNode, bind, postEvent, queueBindOperation.      *)

FitReadsNodes(t) ==
    /\ Goto(t, "nodes", "pods")
    /\ task' = [task EXCEPT ![t].nodes = nodes]
    /\ UNCHANGED <<cluster, lock, wg, work, channels, cached, bounds>>

\* The node list is an error answer, without nodes.
FitReadsNoNodes(t) ==
    /\ Goto(t, "nodes", "pods")
    /\ Fault
    /\ task' = [task EXCEPT ![t].nodes = {}]
    /\ UNCHANGED <<cluster, lock, wg, work, channels, cached>>

\* getPods gives two fieldSelector parameters, for Running and for Pending.
\* The API server takes the first one.
Listed == {p \in Pods : phase[p] = "running"}

\* What getPods returns: the listed pods, or none if the answer is an error.
GetPods(list) ==
    \/ list = Listed /\ UNCHANGED bounds
    \/ list = {} /\ Fault
PodLists == {Listed, {}}

\* resourceUsage of node n.
Usage(list, n) == MapThenSumSet(LAMBDA p : Counted[p], {p \in list : boundTo[p] = n})

\* A listed pod with a millicore request runs on a node that was not in the
\* node list: resourceUsage has no entry for it.
Unaccounted(t, list) ==
    \E p \in list : /\ boundTo[p] # NoNode
                    /\ boundTo[p] \notin task[t].nodes
                    /\ Counted[p] > 0

\* Mutant: what the pod itself asks for is forgotten.
FittingWithoutPod(t, list) ==
    {n \in task[t].nodes : Allocatable[n] > Usage(list, n)}

Fitting(t, list) ==
    {n \in task[t].nodes : Allocatable[n] - Usage(list, n) >= Counted[task[t].pod]}

\* The nodes with pods of this scheduler that the list lacks.
Hidden(list) ==
    {n \in Nodes : \E p \in Pods \ Foreign : Live(p) /\ boundTo[p] = n /\ p \notin list}

FitReadsPods(t, list) ==
    /\ GetPods(list)
    /\ ~ Unaccounted(t, list)
    /\ Fitting(t, list) # {}
    /\ Goto(t, "pods", "select")
    /\ task' = [task EXCEPT ![t].nodes = Fitting(t, list), ![t].hidden = Hidden(list)]
    /\ UNCHANGED <<cluster, lock, wg, work, channels, cached>>

\* Nothing fits; whether the FailedScheduling event arrives is not looked at.
FitFindsNoNode(t, list) ==
    /\ pc[t] = "pods"
    /\ GetPods(list)
    /\ ~ Unaccounted(t, list)
    /\ Fitting(t, list) = {}
    /\ Return(t)
    /\ UNCHANGED <<cluster, wg, work, channels, cached>>

FitPanics(t) ==
    /\ pc[t] = "pods"
    /\ Unaccounted(t, Listed)
    /\ Panic
    /\ UNCHANGED <<cluster, bounds>>

\* getIpToNodeMap: the map is built from the listed pods, and only once (the
\* list is not empty, as the scheduler itself runs in a pod, unless the answer
\* is an error: IpMapStaysEmpty).
IpToNodeMap ==
    IF ipMap.built THEN ipMap ELSE [built |-> TRUE, nodes |-> scaph]

\* Mutant: selectNode without its test for controller nodes.
CandidatesOfAnyRole(t) == (task[t].nodes \cap measured) \cap IpToNodeMap.nodes

Candidates(t) ==
    ((task[t].nodes \ Controllers) \cap measured) \cap IpToNodeMap.nodes

SelectNode(t, n) ==
    /\ n \in Candidates(t)
    /\ Goto(t, "select", "bind")
    /\ task' = [task EXCEPT ![t].node = n]
    /\ ipMap' = IpToNodeMap
    /\ UNCHANGED <<cluster, lock, wg, work, channels, pending, measured, bounds>>

\* Mutant: no test of nodeIdx < 0.
SelectNothing(t) ==
    /\ Candidates(t) = {}
    /\ Goto(t, "select", "bind")
    /\ ipMap' = IpToNodeMap
    /\ UNCHANGED <<cluster, lock, wg, task, work, channels, pending, measured, bounds>>

SelectFindsNoNode(t) ==
    /\ pc[t] = "select"
    /\ Candidates(t) = {}
    /\ Return(t)
    /\ ipMap' = IpToNodeMap
    /\ UNCHANGED <<cluster, wg, work, channels, pending, measured, bounds>>

\* An error answer has no pods: the map stays empty and the next call builds it.
IpMapStaysEmpty(t) ==
    /\ pc[t] = "select"
    /\ ~ ipMap.built
    /\ Fault
    /\ Return(t)
    /\ UNCHANGED <<cluster, wg, work, channels, cached>>

\* buildIpToNodeMap panics when its request fails.
SelectPanics(t) ==
    /\ pc[t] = "select"
    /\ ~ ipMap.built
    /\ Fault
    /\ Panic
    /\ UNCHANGED cluster

\* One of the two requests of fit fails, or the one of getNodeCorrections,
\* which comes after getIpToNodeMap.
RequestFails(t) ==
    /\ pc[t] \in {"nodes", "pods", "select"}
    /\ Fault
    /\ Return(t)
    /\ ipMap' = IF pc[t] = "select" THEN IpToNodeMap ELSE ipMap
    /\ UNCHANGED <<cluster, wg, work, channels, pending, measured>>

\* History: whether the node of t's pod was chosen without sight of its pods.
\* Only pods of this scheduler count.
PlacedBy(t) ==
    IF task[t].pod \in Foreign THEN blind
    ELSE IF task[t].node \in task[t].hidden THEN blind \cup {task[t].node}
    ELSE blind \ {task[t].node}

\* The API server sets spec.nodeName of a pod that has none, and refuses a
\* pod that is bound already or no longer exists.
Bind(t) ==
    /\ task[t].pod \in Unscheduled
    /\ Goto(t, "bind", "event")
    /\ boundTo' = [boundTo EXCEPT ![task[t].pod] = task[t].node]
    /\ blind' = PlacedBy(t)
    /\ UNCHANGED <<phase, nodes, scaph, lock, wg, task, work, channels, cached, bounds>>

\* Mutant: the status code of the response is not looked at.
BindIsTakenAsDone(t) ==
    /\ task[t].pod \notin Unscheduled
    /\ Goto(t, "bind", "event")
    /\ UNCHANGED <<cluster, lock, wg, task, work, channels, cached, bounds>>

BindIsRefused(t) ==
    /\ task[t].pod \notin Unscheduled
    /\ pc[t] = "bind"
    /\ Return(t)
    /\ UNCHANGED <<cluster, wg, work, channels, cached, bounds>>

\* The request is lost, or it is carried out and the response is lost.
BindFails(t) ==
    /\ pc[t] = "bind"
    /\ Fault
    /\ \/ UNCHANGED <<boundTo, blind>>
       \/ /\ task[t].pod \in Unscheduled
          /\ boundTo' = [boundTo EXCEPT ![task[t].pod] = task[t].node]
          /\ blind' = PlacedBy(t)
    /\ Return(t)
    /\ UNCHANGED <<phase, nodes, scaph, wg, work, channels, cached>>

PostEvent(t) ==
    /\ Goto(t, "event", "queue")
    /\ UNCHANGED <<cluster, lock, wg, task, work, channels, cached, bounds>>

\* bind passes the error of postEvent on, so schedulePod gives up on a pod
\* it has bound.
PostEventFails(t) ==
    /\ pc[t] = "event"
    /\ Fault
    /\ Return(t)
    /\ UNCHANGED <<cluster, wg, work, channels, cached>>

\* queueBindOperation: prunePendingPods keeps a suffix that is never empty
\* when the queue was not; how long it is depends on the clock, which is
\* left out.
QueueBind(t) ==
    /\ pc[t] = "queue"
    /\ \E first \in 1..Len(pending) \cup {1} :
          pending' = Append(SubSeq(pending, first, Len(pending)),
                            [pod |-> task[t].pod, node |-> task[t].node])
    /\ Return(t)
    /\ UNCHANGED <<cluster, wg, work, channels, ipMap, measured, bounds>>

SchedulePod(t) ==
    \/ FitReadsNodes(t)
    \/ FitReadsNoNodes(t)
    \/ \E list \in PodLists : FitReadsPods(t, list) \/ FitFindsNoNode(t, list)
    \/ FitPanics(t)
    \/ \E n \in Nodes : SelectNode(t, n)
    \/ SelectFindsNoNode(t)
    \/ IpMapStaysEmpty(t)
    \/ SelectPanics(t)
    \/ RequestFails(t)
    \/ Bind(t)
    \/ BindIsRefused(t)
    \/ BindFails(t)
    \/ PostEvent(t)
    \/ PostEventFails(t)
    \/ QueueBind(t)

-------------------------------------------------------------------------------
Cluster ==
    \/ \E p \in Pods :
          \/ CreatePod(p)
          \/ KubeletStarts(p)
          \/ DeletePod(p)
          \/ \E n \in Nodes : OtherSchedulerBinds(p, n)
    \/ \E n \in Nodes :
          \/ NodeJoins(n)
          \/ NodeLeaves(n)
          \/ ScaphandreStarts(n)

Metrics == MetricsTimer \/ Collect \/ CollectFails \/ CollectPanics

Watch ==
    \/ WatchConnects
    \/ WatchConnectFails
    \/ \E p \in Pods : WatchDecodes(p)
    \/ WatchBreaks
    \/ WatchReports

Check == ReceiveError \/ ReceivePod \/ Acquire("check") \/ SchedulePod("check")

Retry ==
    \/ RetryTimer
    \/ Acquire("retry")
    \/ GetUnscheduledPods
    \/ GetUnscheduledPodsFails
    \/ ListAnswersError
    \/ \E p \in Pods : NextPod(p)
    \/ NoMorePods
    \/ SchedulePod("retry")

Stop == \E t \in Waiters : ReceiveDone(t)

Next == Cluster \/ Metrics \/ Watch \/ Check \/ Retry \/ Signal \/ Stop \/ Restart

Spec == Init /\ [][Next]_vars

(* Every goroutine that can take a step takes one, a container that        *)
(* crashed is started again, and so is the Scaphandre pod of a node.  A    *)
(* goroutine that waits for processorLock gets it although others come and *)
(* go (sync.Mutex hands the lock over to a waiter it has starved), and so  *)
(* does the send on done, as select chooses at random among the channels   *)
(* that are ready.                                                         *)
Fairness ==
    /\ WF_vars(Metrics)
    /\ WF_vars(Watch)
    /\ WF_vars(Check)
    /\ WF_vars(Retry)
    /\ WF_vars(Restart)
    /\ \A n \in Nodes : WF_vars(ScaphandreStarts(n))
    /\ \A t \in Loops : SF_vars(Acquire(t))
    /\ SF_vars(Stop)

FairSpec == Spec /\ Fairness

-------------------------------------------------------------------------------
Elsewhere == {"idle", "lock", "stopped", "crashed"}
PcValues == Scheduling \cup Elsewhere \cup
    {"running", "sending", "waiting", "exited", "collect", "list", "next",
     "connect", "decode", "send", "report"}

Task == [pod : Pods \cup {NoPod}, nodes : SUBSET Nodes, hidden : SUBSET Nodes,
         node : Nodes \cup {NoNode}]

\* Every variable has its type.
TypeOK ==
    /\ phase \in [Pods -> Phases]
    /\ boundTo \in [Pods -> Nodes \cup {NoNode}]
    /\ nodes \subseteq Nodes
    /\ scaph \subseteq Nodes
    /\ pc \in [Threads -> PcValues]
    /\ pc["main"] \in {"running", "sending", "waiting", "exited", "crashed"}
    /\ pc["metrics"] \in {"idle", "collect", "stopped", "crashed"}
    /\ pc["check"] \in Elsewhere \cup Scheduling
    /\ pc["retry"] \in Elsewhere \cup Scheduling \cup {"list", "next"}
    /\ pc["watch"] \in {"connect", "decode", "send", "report", "crashed"}
    /\ lock \in Loops \cup {"free"}
    /\ wg \in 0..3
    /\ task \in [Loops -> Task]
    /\ work \subseteq Pods
    /\ stream \subseteq Pods
    /\ event \in Pods \cup {NoPod}
    /\ errc \in 0..1
    /\ pending \in Seq([pod : Pods, node : Nodes])
    /\ ipMap \in [built : BOOLEAN, nodes : SUBSET Nodes]
    /\ measured \subseteq Nodes
    /\ blind \subseteq Nodes
    /\ faults \in 0..MaxFaults
    /\ signals \in 0..MaxSignals

\* processorLock is held exactly while one of the two loops is between its
\* Lock and its Unlock: the loops exclude each other, and no early return of
\* fit, selectNode, bind or getUnscheduledPods leaves the lock behind.
LockDiscipline ==
    \A t \in Loops : (lock = t) <=> (pc[t] \in Scheduling \cup {"list", "next"})

\* The room fit found is still there when bind uses it, although watch events,
\* the retry loop, lost responses and restarts may all schedule the same pods.
\* A node can be granted more than it has only by a pod that was placed on an
\* answer of getPods which lacked a pod of the node: one that was not running
\* yet, or all of them after an error.  The next pod that is placed on a full
\* answer finds no room there.  Pods that another scheduler places are that
\* scheduler's concern.
Granted(n) ==
    MapThenSumSet(LAMBDA p : Counted[p],
                  {p \in Pods \ Foreign : Live(p) /\ boundTo[p] = n})
OvercommittedOnlyBlind == \A n \in Nodes \ blind : Granted(n) <= Allocatable[n]

\* pendingPods never claims a bind that did not happen: every entry names a
\* pod and the very node it is bound to, and no pod is entered twice,
\* however often the watch and the retry loop deliver it.
QueueSound ==
    /\ \A i \in 1..Len(pending) : boundTo[pending[i].pod] = pending[i].node
    /\ \A i, j \in 1..Len(pending) : pending[i].pod = pending[j].pod => i = j

\* main sends on done once, so one goroutine stops and wg.Wait never returns:
\* os.Exit(0) is not reached.  EschedulerProofs uses it to show that
\* ShutdownCompletes fails in every cluster.
NoExit == pc["main"] # "exited"

\* The scheduler implements its contract: every step is an assignment that
\* PodBinding allows, on a full answer or a blind one, or no assignment at all.
Binding == INSTANCE PodBinding WITH
    life     <- [p \in Pods |-> IF Live(p) THEN "live" ELSE phase[p]],
    assigned <- boundTo,
    blind    <- blind
ImplementsBinding == Binding!Spec

-------------------------------------------------------------------------------
\* A pod that waits for a node is bound in the end, unless it is deleted
\* first: no failed request, broken watch, refused bind or panic loses it.
EventuallyBound ==
    \A p \in Pods : p \in Unscheduled ~> (boundTo[p] # NoNode \/ phase[p] = "gone")

\* The watcher never stays blocked on a channel: whoever it waits for comes
\* round to the channel again.
WatcherMovesOn ==
    pc["watch"] \in {"send", "report"} ~> pc["watch"] \notin {"send", "report"}

\* A signal ends the process.
ShutdownCompletes == pc["main"] = "sending" ~> pc["main"] \in {"exited", "crashed"}
===============================================================================
