----------------------------- MODULE Application -----------------------------
(***************************************************************************)
(* The benchmark of Continuum: application.py starts the workers and then  *)
(* the endpoints, waits until both have finished, and reads their output.  *)
(* With Kubernetes the workers are pods of Jobs, with mist computing       *)
(* containers on the edge VMs.  Workers and endpoints of image             *)
(* classification exchange images and replies through an MQTT broker on    *)
(* every VM; without a resource manager an endpoint does both at once.     *)
(*                                                                         *)
(* An image is its endpoint and its number; number 0 is the message "1"    *)
(* that ends the images of an endpoint.                                    *)
(***************************************************************************)
EXTENDS Integers, Sequences, FiniteSets, SequencesExt, Orders, Timeline

CONSTANTS
    Configs,    \* the configurations that pass verify_options
    MaxImgs,    \* MAX_IMGS, the images an endpoint sends
    SecondsPerHour,
    LastEvent,  \* bound of the times of a timeline
    MaxFaults

Managers == {"kubernetes", "kubecontrol", "mist", "none"}

\* All containers in one pod: of these managers an option of kubecontrol (kubecontrol.py:25).
\* "Every cloud / edge worker will only have 1 application running": several
\* subscribers on a node read the same messages (kubernetes.py:578-580).
ASSUME ApplicationAssumption ==
    /\ \A c \in Configs :
          /\ c.resource_manager \in Managers
          /\ c.workers \in Nat /\ c.endpoints \in Nat
          /\ {c.applications_per_worker, c.threads} \subseteq Nat \ {0}
          /\ c.cache_worker \in BOOLEAN /\ c.kube_deployment \in {"pod", "container"}
          /\ c.resource_manager # "none" => c.workers > 0 /\ c.endpoints % c.workers = 0
          /\ c.kube_deployment = "container" => c.resource_manager = "kubecontrol"
          /\ c.resource_manager \in {"kubernetes", "mist"} => c.applications_per_worker = 1
    /\ {MaxImgs, SecondsPerHour, LastEvent} \subseteq Nat \ {0} /\ MaxFaults \in Nat

Workers == UNION {1 .. c.workers : c \in Configs}
Endpoints == UNION {1 .. c.endpoints : c \in Configs}
Pods == {"cache", "work"} \X UNION {1 .. c.workers * c.applications_per_worker : c \in Configs}

VARIABLES
    config,
    pc, i, output, pending,     \* the driver, and what its loops over a list have read
    ready, jobs, pods,          \* the nodes, the Jobs and the pods of the cluster
    container,                  \* the container on each endpoint
    subscriber,                 \* subscriber.py on each worker
    publisher,                  \* publisher.py on each endpoint
    combined,                   \* combined.py on each endpoint
    early,      \* a message was published before its receiver had subscribed
    slow,       \* a subscriber ended with an image in work
    faults

driver == <<config, pc, i, output, pending>>
cluster == <<ready, jobs, pods>>
programs == <<subscriber, publisher, combined>>
environment == <<early, slow, faults>>
vars == <<driver, cluster, container, programs, environment>>

-----------------------------------------------------------------------------
(* Numbers taken from the configuration *)

Manager == config.resource_manager
Mqtt == Manager \in {"kubernetes", "mist"} \* image classification on workers
WorkerApps == config.workers * config.applications_per_worker

\* The pods of a Job: of the one that caches the image, and of the benchmark.
Replicas(job) ==
    IF config.kube_deployment = "container" THEN 1
    ELSE IF job = "cache" THEN config.workers ELSE WorkerApps

PodsOf(job) == {job} \X (1 .. Replicas(job))

\* Mutant: the controller is counted as a worker.
WithController == config.endpoints \div (config.workers + 1)
ENDPOINT_CONNECTED == config.endpoints \div WorkerApps

EndPerWork == config.endpoints \div config.workers

\* The worker an endpoint sends to, and the endpoints that are started at all.
RemoteOf(e) == (e - 1) \div EndPerWork + 1
Started == IF Manager = "none" THEN 1 .. config.endpoints
           ELSE 1 .. config.workers * EndPerWork

-----------------------------------------------------------------------------
Init ==
    /\ config \in Configs
    /\ pc = CASE Manager \in {"kubernetes", "kubecontrol"} -> "cluster"
              [] Manager = "mist" -> "start_worker"
              [] Manager = "none" -> "start_endpoint"
    /\ i = 0 /\ output = <<>> /\ pending = TRUE
    /\ ready = {} /\ jobs = {} /\ pods = [p \in Pods |-> "absent"]
    /\ container = [e \in Endpoints |-> "absent"]
    /\ subscriber = [w \in Workers |-> [state |-> "absent", work_queue |-> <<>>, in_work |-> {},
                                        endpoints_connected |-> 0, images_processed |-> 0]]
    /\ publisher = [e \in Endpoints |-> [subscribed |-> FALSE, sent |-> 0, RECEIVED |-> 0]]
    /\ combined = [e \in Endpoints |-> [generated |-> 0, processed |-> 0, working |-> FALSE]]
    /\ early = FALSE /\ slow = FALSE /\ faults = 0

Goto(step) == pc' = step /\ i' = 0 /\ output' = <<>> /\ pending' = TRUE

\* One line of the list that was read last: a status of Done is passed, after
\* one of Wait the list is read again, any other ends the program, and so does
\* a list that is too short.
LookAt(Wait, Done) ==
    /\ ~pending
    /\ IF i >= Len(output)
       THEN Goto("raised")
       ELSE LET status == output[i + 1]
            IN  CASE status \in Done -> i' = i + 1 /\ UNCHANGED <<pc, output, pending>>
                  [] status \in Wait -> pending' = TRUE /\ output' = <<>> /\ UNCHANGED <<pc, i>>
                  [] OTHER -> Goto("stopped")

-----------------------------------------------------------------------------
(* The driver: the cluster *)

Pause == UNCHANGED <<config, cluster, container, programs, environment>>

ListNodes ==
    /\ pc = "cluster" /\ i <= config.workers /\ pending
    /\ output' = [n \in 1 .. config.workers + 1 |-> IF n \in ready THEN "Ready" ELSE "NotReady"]
    /\ pending' = FALSE
    /\ UNCHANGED <<pc, i>> /\ Pause

VerifyNode == pc = "cluster" /\ i <= config.workers /\ LookAt({"NotReady"}, {"Ready"}) /\ Pause

ClusterRuns ==
    /\ pc = "cluster" /\ i > config.workers
    /\ Goto(IF config.cache_worker THEN "cache_worker" ELSE "start_worker") /\ Pause

\* kubectl get pods --sort-by=.spec.nodeName: pods without a node come first.
NodeOf(p) == IF pods[p] = "created" THEN 0 ELSE ((p[2] - 1) % config.workers) + 1
Listed == {p \in Pods : pods[p] # "absent"}
Before(p, q) == \/ NodeOf(p) < NodeOf(q)
                \/ NodeOf(p) = NodeOf(q) /\ p[2] < q[2]
                \/ NodeOf(p) = NodeOf(q) /\ p[2] = q[2] /\ p[1] = "cache" /\ q[1] = "work"
Sorted == InOrder(Listed, {b \in Listed \X Listed : Before(b[1], b[2])})
Phase(p) == IF pods[p] \in {"created", "assigned"} THEN "Pending" ELSE pods[p]

\* Without a pod that has a node kubectl cannot sort, and is asked again.
ListPods(step) ==
    /\ pc = step /\ i < config.workers /\ pending
    /\ \E p \in Listed : pods[p] # "created"
    /\ output' = [n \in DOMAIN Sorted |-> Phase(Sorted[n])]
    /\ pending' = FALSE
    /\ UNCHANGED <<pc, i>> /\ Pause

\* Only the applications that benchmark the control plane have a cache_worker.
CacheWorker ==
    /\ pc = "cache_worker"
    /\ IF Manager = "kubernetes"
       THEN Goto("raised") /\ UNCHANGED jobs
       ELSE Goto("cache") /\ jobs' = jobs \cup {"cache"}
    /\ UNCHANGED <<config, ready, pods, container, programs, environment>>

CachedPod ==
    pc = "cache" /\ i < config.workers /\ LookAt({"Pending", "Running"}, {"Succeeded"}) /\ Pause

DeleteCached ==
    /\ pc = "cache" /\ i = config.workers
    /\ Goto("deleted")
    /\ jobs' = jobs \ {"cache"}
    /\ UNCHANGED <<config, ready, pods, container, programs, environment>>

\* Mutant: the program does not sleep after the Job is deleted.
NoSleep == pc = "deleted" /\ Goto("start_worker") /\ Pause

\* time.sleep(10), in which the cluster removes the pods of the deleted Job.
SleepDeleted ==
    /\ pc = "deleted"
    /\ \A p \in Listed : p[1] # "cache"
    /\ Goto("start_worker") /\ Pause

-----------------------------------------------------------------------------
(* The driver: workers and endpoints *)

Launched == [state |-> "connecting", work_queue |-> <<>>, in_work |-> {},
             endpoints_connected |-> ENDPOINT_CONNECTED, images_processed |-> 0]

StartWorkerKube ==
    /\ pc = "start_worker" /\ Manager # "mist"
    /\ Goto("ready")
    /\ jobs' = jobs \cup {"work"}
    /\ UNCHANGED <<config, ready, pods, container, programs, environment>>

StartWorkerMist ==
    /\ pc = "start_worker" /\ Manager = "mist"
    /\ Goto("deployed")
    /\ pods' = [p \in Pods |-> IF p \in PodsOf("work") THEN "Running" ELSE pods[p]]
    /\ subscriber' = [w \in Workers |-> IF w <= config.workers THEN Launched ELSE subscriber[w]]
    /\ UNCHANGED <<config, ready, jobs, container, publisher, combined, environment>>

InPhase(phases) == {p \in Listed : pods[p] \in phases}

\* Mutant: a pod that has already ended is waited for.
RunningOnly ==
    /\ pc = "ready"
    /\ \/ InPhase({"Failed"}) # {} /\ Goto("stopped")
       \/ /\ InPhase({"Failed"}) = {}
          /\ Cardinality(InPhase({"Running"})) = Replicas("work")
          /\ Goto(IF Manager = "kubernetes" THEN "start_endpoint" ELSE "completion")
    /\ Pause

\* One round of wait_worker_ready, with the rounds after which nothing has
\* changed left out.
WaitWorkerReady ==
    /\ pc = "ready"
    /\ \E p \in Listed : pods[p] # "created"
    /\ \/ InPhase({"Failed"}) # {} /\ Goto("stopped")
       \/ /\ InPhase({"Failed"}) = {}
          /\ Cardinality(InPhase({"Running", "Succeeded"})) = Replicas("work")
          /\ Goto(IF Manager = "kubernetes" THEN "start_endpoint" ELSE "completion")
    /\ Pause

\* docker container ls on every edge VM; any status but Up is asked for again.
WorkerDeployed ==
    /\ pc = "deployed"
    /\ IF i = config.workers
       THEN Goto("start_endpoint")
       ELSE pods[<<"work", i + 1>>] = "Running" /\ i' = i + 1 /\ UNCHANGED <<pc, output, pending>>
    /\ Pause

StartEndpoint ==
    /\ pc = "start_endpoint"
    /\ Goto("endpoints")
    /\ container' = [e \in Endpoints |-> IF e \in Started THEN "Up" ELSE "absent"]
    /\ UNCHANGED <<config, cluster, programs, environment>>

\* wait_endpoint_completion, for the containers of endpoints or of edge VMs.
Finished(step, last, status, next) ==
    /\ pc = step
    /\ IF i = last THEN Goto(next)
       ELSE \/ status[i + 1] \in {"Exited (0)", "Succeeded"} /\ i' = i + 1
               /\ UNCHANGED <<pc, output, pending>>
            \/ status[i + 1] \in {"Exited (1)", "Failed"} /\ Goto("stopped")
    /\ Pause

\* Mutant: the output is read as soon as the endpoints have ended.
EndpointsOnly == Finished("endpoints", Cardinality(Started), container, "output")

WaitEndpointCompletion ==
    Finished("endpoints", Cardinality(Started), container,
             CASE Manager = "none" -> "output" [] Manager = "mist" -> "workers" [] OTHER -> "completion")

WaitMistCompletion ==
    Finished("workers", config.workers, [w \in 1 .. config.workers |-> pods[<<"work", w>>]], "output")

WorkerCompleted ==
    pc = "completion" /\ i < config.workers /\ LookAt({"Running"}, {"Succeeded"}) /\ Pause

AllCompleted == pc = "completion" /\ i = config.workers /\ Goto("output") /\ Pause

GetEndpointOutput ==
    /\ pc = "output" /\ Manager # "kubecontrol"
    /\ Goto(IF Manager = "none" THEN "ended" ELSE "worker_output")
    /\ Pause

\* The output of a container of mist is a list of lines where print_raw_output
\* expects a name and such a list.
GetWorkerOutput ==
    /\ pc = (IF Manager = "kubecontrol" THEN "output" ELSE "worker_output")
    /\ Goto(IF Manager = "mist" THEN "raised" ELSE "ended")
    /\ Pause

\* Mutant: times after the start are left as they are.
OnlyRaised(time, starttime) ==
    IF time < starttime THEN starttime + ((time - starttime) % SecondsPerHour) ELSE time

\* get_control_output: whole hours are added and subtracted until a time is at
\* most an hour after the start, and one that equals it becomes that hour.
Normalized(time, starttime) == starttime + 1 + ((time - starttime - 1) % SecondsPerHour)

Kept(time, starttime, endtime) == Normalized(time, starttime) \in starttime .. endtime

Driver ==
    \/ ListNodes \/ VerifyNode \/ ClusterRuns
    \/ ListPods("cache") \/ ListPods("completion")
    \/ CacheWorker \/ CachedPod \/ DeleteCached \/ SleepDeleted
    \/ StartWorkerKube \/ StartWorkerMist \/ WaitWorkerReady \/ WorkerDeployed
    \/ StartEndpoint \/ WaitEndpointCompletion \/ WaitMistCompletion
    \/ WorkerCompleted \/ AllCompleted \/ GetEndpointOutput \/ GetWorkerOutput

-----------------------------------------------------------------------------
(* The cluster *)

NodeReady(n) ==
    /\ Manager \in {"kubernetes", "kubecontrol"} /\ n \notin ready
    /\ ready' = ready \cup {n}
    /\ UNCHANGED <<driver, jobs, pods, container, programs, environment>>

PodBecomes(p, status) ==
    /\ pods' = [pods EXCEPT ![p] = status]
    /\ UNCHANGED <<driver, ready, jobs, container, publisher, combined, early, slow>>

PodAppears(p) ==
    /\ p[1] \in jobs /\ p \in PodsOf(p[1]) /\ pods[p] = "absent"
    /\ PodBecomes(p, "created") /\ UNCHANGED <<subscriber, faults>>

PodAssigned(p) ==
    pods[p] = "created" /\ PodBecomes(p, "assigned") /\ UNCHANGED <<subscriber, faults>>

PodRuns(p) ==
    /\ pods[p] = "assigned" /\ PodBecomes(p, "Running") /\ UNCHANGED faults
    /\ subscriber' = IF Mqtt THEN [subscriber EXCEPT ![p[2]] = Launched] ELSE subscriber

\* The pod of a control plane benchmark sleeps for a while and ends.
PodSleeps(p) ==
    /\ ~Mqtt /\ pods[p] = "Running"
    /\ PodBecomes(p, "Succeeded") /\ UNCHANGED <<subscriber, faults>>

PodRemoved(p) ==
    /\ p[1] \notin jobs /\ Manager = "kubecontrol" /\ pods[p] # "absent"
    /\ PodBecomes(p, "absent") /\ UNCHANGED <<subscriber, faults>>

PodFails(p) ==
    /\ pods[p] = "Running" /\ faults < MaxFaults
    /\ PodBecomes(p, "Failed") /\ faults' = faults + 1
    /\ subscriber' = IF Mqtt THEN [subscriber EXCEPT ![p[2]].state = "ended"] ELSE subscriber

EndpointFails(e) ==
    /\ container[e] = "Up" /\ faults < MaxFaults
    /\ container' = [container EXCEPT ![e] = "Exited (1)"] /\ faults' = faults + 1
    /\ UNCHANGED <<driver, cluster, programs, early, slow>>

-----------------------------------------------------------------------------
(* publisher.py *)

Outside == UNCHANGED <<driver, ready, jobs, combined, faults>>

Publishing(e) == Mqtt /\ container[e] = "Up"

\* on_connect, on the thread of the local client.
PublisherSubscribes(e) ==
    /\ Publishing(e) /\ ~publisher[e].subscribed
    /\ publisher' = [publisher EXCEPT ![e].subscribed = TRUE]
    /\ UNCHANGED <<pods, container, subscriber, early, slow>> /\ Outside

Message(e, n) == IF n <= MaxImgs THEN <<e, n>> ELSE <<e, 0>>

\* The broker of the worker passes a message on to a subscriber, whose
\* on_message puts it in the work queue, or drops it.
Send(e) ==
    LET w == RemoteOf(e)
        listening == subscriber[w].state \in {"subscribed", "closing"}
    IN  /\ Publishing(e) /\ publisher[e].sent <= MaxImgs
        /\ publisher' = [publisher EXCEPT ![e].sent = @ + 1]
        /\ subscriber' = IF listening
                         THEN [subscriber EXCEPT ![w].work_queue =
                                  Append(@, Message(e, publisher[e].sent + 1))]
                         ELSE subscriber
        /\ early' = (early \/ subscriber[w].state \in {"absent", "connecting"})
        /\ UNCHANGED <<pods, container, slow>> /\ Outside

AllReceived(e) ==
    /\ Publishing(e) /\ publisher[e].sent = MaxImgs + 1
    /\ publisher[e].RECEIVED = MaxImgs
    /\ container' = [container EXCEPT ![e] = "Exited (0)"]
    /\ UNCHANGED <<pods, subscriber, publisher, early, slow>> /\ Outside

-----------------------------------------------------------------------------
(* subscriber.py: the main thread and do_tflite in every process of the Pool *)

WorkerSubscribes(w) ==
    /\ subscriber[w].state = "connecting"
    /\ subscriber' = [subscriber EXCEPT ![w].state = "subscribed"]
    /\ UNCHANGED <<pods, container, publisher, early, slow>> /\ Outside

Processing(w) == subscriber[w].state \in {"connecting", "subscribed", "closing"}

GetItem(w) ==
    LET s == subscriber[w]
        item == Head(s.work_queue)
    IN  /\ Processing(w) /\ s.work_queue # <<>> /\ Cardinality(s.in_work) < config.threads
        /\ subscriber' = [subscriber EXCEPT
              ![w].work_queue = Tail(@), ![w].in_work = @ \cup {item},
              ![w].images_processed = IF item[2] = 0 THEN @ ELSE @ + 1]
        /\ UNCHANGED <<pods, container, publisher, early, slow>> /\ Outside

\* The lock of endpoints_connected is held by a main thread that closes.
ClientDisconnected(w, item) ==
    /\ subscriber[w].state \in {"connecting", "subscribed"}
    /\ item \in subscriber[w].in_work /\ item[2] = 0
    /\ subscriber' = [subscriber EXCEPT ![w].in_work = @ \ {item}, ![w].endpoints_connected = @ - 1]
    /\ UNCHANGED <<pods, container, publisher, early, slow>> /\ Outside

\* The reply goes to the broker of the endpoint, which drops it without a
\* subscription of publisher.py.
Reply(w, item) ==
    LET e == item[1]
        listening == publisher[e].subscribed /\ container[e] = "Up"
    IN  /\ Processing(w) /\ item \in subscriber[w].in_work /\ item[2] # 0
        /\ subscriber' = [subscriber EXCEPT ![w].in_work = @ \ {item}]
        /\ publisher' = IF listening THEN [publisher EXCEPT ![e].RECEIVED = @ + 1] ELSE publisher
        /\ early' = (early \/ ~publisher[e].subscribed)
        /\ UNCHANGED <<pods, container, slow>> /\ Outside

\* Mutant: the end is that of the first endpoint.
FirstDisconnected(w) ==
    /\ subscriber[w].state = "subscribed"
    /\ subscriber[w].endpoints_connected < ENDPOINT_CONNECTED /\ subscriber[w].work_queue = <<>>
    /\ subscriber' = [subscriber EXCEPT ![w].state = "closing"]
    /\ UNCHANGED <<pods, container, publisher, early, slow>> /\ Outside

AllDisconnected(w) ==
    /\ subscriber[w].state = "subscribed"
    /\ subscriber[w].endpoints_connected = 0 /\ subscriber[w].work_queue = <<>>
    /\ subscriber' = [subscriber EXCEPT ![w].state = "closing"]
    /\ UNCHANGED <<pods, container, publisher, early, slow>> /\ Outside

\* After ten seconds the Pool is terminated, with what it has in work.
Terminate(w) ==
    /\ subscriber[w].state = "closing"
    /\ subscriber' = [subscriber EXCEPT ![w].state = "ended"]
    /\ pods' = [pods EXCEPT ![<<"work", w>>] = "Succeeded"]
    /\ slow' = (slow \/ subscriber[w].in_work # {})
    /\ UNCHANGED <<container, publisher, early>> /\ Outside

-----------------------------------------------------------------------------
(* combined.py: a process that generates, one that classifies, and main *)

Combining(e) == Manager = "none" /\ container[e] = "Up"
Queued(e) == combined[e].generated - combined[e].processed - (IF combined[e].working THEN 1 ELSE 0)

CombinedBecomes(e, state) ==
    /\ combined' = [combined EXCEPT ![e] = state]
    /\ UNCHANGED <<driver, cluster, container, subscriber, publisher, environment>>

Generate(e) ==
    /\ Combining(e) /\ combined[e].generated < MaxImgs
    /\ CombinedBecomes(e, [combined[e] EXCEPT !.generated = @ + 1])

Take(e) ==
    /\ Combining(e) /\ ~combined[e].working /\ Queued(e) > 0
    /\ CombinedBecomes(e, [combined[e] EXCEPT !.working = TRUE])

Classify(e) ==
    /\ Combining(e) /\ combined[e].working
    /\ CombinedBecomes(e, [combined[e] EXCEPT !.working = FALSE, !.processed = @ + 1])

\* p1 is joined, the queue found empty, and p2 terminated in its last image.
QueueEmpty(e) ==
    /\ Combining(e) /\ combined[e].generated = MaxImgs /\ Queued(e) = 0
    /\ container' = [container EXCEPT ![e] = "Exited (0)"]
    /\ UNCHANGED <<driver, cluster, programs, environment>>

-----------------------------------------------------------------------------
PodSteps(p) == PodAppears(p) \/ PodAssigned(p) \/ PodRuns(p) \/ PodSleeps(p) \/ PodRemoved(p)
SendsAll(e) == Send(e) \/ AllReceived(e)
Main(w) == WorkerSubscribes(w) \/ AllDisconnected(w) \/ Terminate(w)
Tflite(w) == \E item \in subscriber[w].in_work : ClientDisconnected(w, item) \/ Reply(w, item)
Combine(e) == Generate(e) \/ QueueEmpty(e)
Classifies(e) == Take(e) \/ Classify(e)

Next ==
    \/ Driver
    \/ \E n \in 1 .. config.workers + 1 : NodeReady(n)
    \/ \E p \in Pods : PodSteps(p) \/ PodFails(p)
    \/ \E e \in Endpoints : PublisherSubscribes(e) \/ SendsAll(e) \/ Combine(e) \/ Classifies(e) \/ EndpointFails(e)
    \/ \E w \in Workers : Main(w) \/ GetItem(w) \/ Tflite(w)

Spec == Init /\ [][Next]_vars

\* Every process and thread goes on, and so does the cluster.
FairSpec ==
    /\ Spec /\ WF_vars(Driver)
    /\ WF_vars(\E n \in 1 .. config.workers + 1 : NodeReady(n))
    /\ \A p \in Pods : WF_vars(PodSteps(p))
    /\ \A e \in Endpoints : /\ WF_vars(PublisherSubscribes(e)) /\ WF_vars(SendsAll(e))
                            /\ WF_vars(Combine(e)) /\ WF_vars(Classifies(e))
    /\ \A w \in Workers : WF_vars(Main(w)) /\ WF_vars(GetItem(w)) /\ WF_vars(Tflite(w))

-----------------------------------------------------------------------------
Ends == {"ended", "stopped", "raised"}
Steps == Ends \cup {"cluster", "cache_worker", "cache", "deleted", "start_worker", "deployed", "ready",
                    "start_endpoint", "endpoints", "workers", "completion", "output", "worker_output"}
Statuses == {"absent", "Pending", "Running", "Succeeded", "Failed", "Ready", "NotReady"}
Items == Endpoints \X (0 .. MaxImgs)

\* Types.  endpoints_connected, an int, does not pass zero, at which alone a
\* subscriber ends.
TypeOK ==
    /\ config \in Configs /\ pc \in Steps /\ i \in Nat /\ output \in Seq(Statuses) /\ pending \in BOOLEAN
    /\ ready \subseteq 1 .. config.workers + 1 /\ jobs \subseteq {"cache", "work"}
    /\ pods \in [Pods -> {"absent", "created", "assigned", "Running", "Succeeded", "Failed"}]
    /\ container \in [Endpoints -> {"absent", "Up", "Exited (0)", "Exited (1)"}]
    /\ subscriber \in [Workers -> [state : {"absent", "connecting", "subscribed", "closing", "ended"},
                                   work_queue : Seq(Items), in_work : SUBSET Items,
                                   endpoints_connected : 0 .. config.endpoints, images_processed : Nat]]
    /\ publisher \in [Endpoints -> [subscribed : BOOLEAN, sent : 0 .. MaxImgs + 1, RECEIVED : 0 .. MaxImgs]]
    /\ combined \in [Endpoints -> [generated : 0 .. MaxImgs, processed : 0 .. MaxImgs, working : BOOLEAN]]
    /\ early \in BOOLEAN /\ slow \in BOOLEAN /\ faults \in 0 .. MaxFaults

\* Once wait_worker_ready has returned, every pod of the benchmark has been
\* started: pods of the Job that cached the image are not taken for them.
WorkersReady ==
    pc \in {"start_endpoint", "endpoints", "workers", "completion", "output", "worker_output", "ended"} /\ Manager # "none"
        => \A p \in PodsOf("work") : pods[p] \in {"Running", "Succeeded", "Failed"}

\* The output is read when every endpoint has ended well, and, with one pod on
\* a worker, every worker: wait_worker_completion counts workers, not pods.
OutputIsFinal ==
    pc \in {"output", "worker_output", "ended"} =>
        /\ Manager # "kubecontrol" => \A e \in Started : container[e] = "Exited (0)"
        /\ Manager # "none" /\ Replicas("work") = config.workers
              => \A p \in PodsOf("work") : pods[p] = "Succeeded"

\* When a subscriber decides to end, all its endpoints have sent all they have
\* and nothing of it is left in the work queue, though the two are not looked
\* at together with the processes that fill and empty the queue; combined.py
\* ends with at most the image in work unprocessed.
NothingLeftQueued ==
    /\ \A w \in Workers : subscriber[w].state = "closing" =>
          /\ subscriber[w].work_queue = <<>>
          /\ \A e \in Started : RemoteOf(e) = w => publisher[e].sent = MaxImgs + 1
    /\ \A e \in Endpoints : Manager = "none" /\ container[e] = "Exited (0)"
          => combined[e].processed >= MaxImgs - 1

\* What happens to a Job and its pods, in this order.
History == {h \in [Phases -> 1 .. LastEvent] :
              /\ h["2_kubectl_send"] = 1 /\ h["3_api_receive_job"] = 2
              /\ 2 < h["5_pod_object_create"] /\ h["5_pod_object_create"] < h["6_api_receive_pod"]
              /\ h["6_api_receive_pod"] < h["7_scheduler_start"]
              /\ h["7_scheduler_start"] < h["8_api_receive_pod"]}

\* No pod passes another between two phases.
InStep(histories) ==
    \A p, q \in DOMAIN histories : \A a, b \in Phases \ JobPhases :
        histories[p][a] < histories[q][a] <=> histories[p][b] < histories[q][b]

\* Whatever pods do in the meantime, the timeline is filled in, with phases
\* that follow one another for each container; and with its own times, if no
\* pod passes another.
EventsInOrder ==
    LET podOf == [k \in 1 .. WorkerApps |-> IF config.kube_deployment = "container" THEN 1 ELSE k]
    IN \A histories \in [Range(podOf) -> History] :
          LET filled == FillControl(histories, podOf)
          IN /\ Len(filled) = WorkerApps
             /\ \A k \in DOMAIN filled :
                   /\ filled[k] \in History
                   /\ InStep(histories) => filled[k] = histories[podOf[k]]

\* Of what the control plane has logged, the output of a benchmark of less than
\* an hour keeps what lies between its start and its end, whatever the time
\* zones, of all that came less than an hour before the end; and what is made
\* of it is a possible timeline (empty.py:202-482), though most lines do not
\* say whose they are.
TimelineIsTheRuns ==
    pc = "output" /\ Manager = "kubecontrol" =>
        /\ \A endtime \in 1 .. SecondsPerHour - 1, zone \in -2 .. 2 :
              \A time \in endtime - SecondsPerHour + 1 .. SecondsPerHour :
                  Kept(time + zone * SecondsPerHour, 0, endtime) <=> time \in 1 .. endtime
        /\ EventsInOrder

\* The program ends, unless a message came before the subscription to it, an
\* image took longer than the ten seconds at the end, or a container failed.
ApplicationEnds == <>(pc \in Ends \/ early \/ slow \/ faults > 0)
=============================================================================
