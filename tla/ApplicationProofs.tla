-------------------------- MODULE ApplicationProofs --------------------------
(***************************************************************************)
(* Theorems about the benchmark of Continuum, for all configurations: any  *)
(* number of workers, endpoints, processes and images, and any number of   *)
(* containers that fail; and about the timelines that are made of it, for  *)
(* any number of containers, whatever their pods do.                       *)
(***************************************************************************)
EXTENDS Application, SequenceTheorems, SetLemmas

Kube == Manager \in {"kubernetes", "kubecontrol"}

\* After wait_worker_ready; and of that, after the endpoints have ended.
AfterReady == {"start_endpoint", "endpoints", "workers", "completion", "output", "worker_output", "ended"}
AfterEndpoints == {"workers", "completion", "output", "worker_output", "ended"}

\* Where the driver can be with each resource manager.
DriverInv ==
    /\ Manager = "none" => pc \in Ends \cup {"start_endpoint", "endpoints", "output"}
    /\ Manager = "mist" => pc \in Ends \cup {"start_worker", "deployed", "start_endpoint", "endpoints",
                                             "workers", "output", "worker_output"}
    /\ Manager = "kubernetes" => pc \in Ends \cup {"cluster", "cache_worker", "start_worker", "ready",
                                     "start_endpoint", "endpoints", "completion", "output", "worker_output"}
    /\ Manager = "kubecontrol" => pc \in Ends \cup {"cluster", "cache_worker", "cache", "deleted",
                                      "start_worker", "ready", "completion", "output"}

\* Which Jobs there are.
JobsInv ==
    /\ jobs # {} => Kube
    /\ "cache" \in jobs => Manager = "kubecontrol" /\ pc \in {"cache", "stopped", "raised"}
    /\ "work" \in jobs => pc \notin {"cluster", "cache_worker", "cache", "deleted", "start_worker"}
    /\ Kube /\ pc \in AfterReady \cup {"ready"} => "work" \in jobs

Begun(p) == pods[p] \in {"Running", "Succeeded", "Failed"}

\* Pods belong to a Job that there is or, those that cached the image, has
\* been until the program sleeps; all of the benchmark are started when the
\* program goes on.
PodsInv ==
    /\ \A p \in Listed :
          /\ p \in PodsOf(p[1])
          /\ p[1] = "cache" => Manager = "kubecontrol" /\ pc \in {"cache", "deleted", "stopped", "raised"}
          /\ p[1] = "work" => "work" \in jobs \/ Manager = "mist"
    /\ pc \in AfterReady /\ Manager # "none" => \A p \in PodsOf("work") : Begun(p)
    /\ Manager = "mist" /\ pc # "start_worker" => \A p \in PodsOf("work") : Begun(p)

\* The loops of the driver know of what they have passed that it has ended.
LoopsInv ==
    /\ i \in Nat
    /\ \A e \in Endpoints : container[e] # "absent" => e \in Started
    /\ pc = "endpoints" => \A e \in 1 .. i : e \in Started => container[e] = "Exited (0)"
    /\ pc \in AfterEndpoints /\ Manager # "kubecontrol" => \A e \in Started : container[e] = "Exited (0)"
    /\ pc = "workers" => \A w \in 1 .. i : w <= config.workers => pods[<<"work", w>>] = "Succeeded"
    /\ pc = "completion" =>
          /\ i <= Replicas("work")
          /\ \A k \in 1 .. i : pods[Sorted[k]] = "Succeeded"
          /\ ~pending => /\ Len(output) = Cardinality(Listed)
                         /\ \A k \in DOMAIN output : output[k] = "Succeeded" => pods[Sorted[k]] = "Succeeded"
    /\ pc \in {"output", "worker_output", "ended"} /\ Manager # "none" /\ Replicas("work") = config.workers
          => \A p \in PodsOf("work") : pods[p] = "Succeeded"

Elements(q) == {q[k] : k \in DOMAIN q}

\* What a subscriber holds of the messages it got: each of them once.
Held(s) == Elements(s.work_queue) \cup s.in_work
Tidy(s) ==
    /\ \A j, k \in DOMAIN s.work_queue : s.work_queue[j] = s.work_queue[k] => j = k
    /\ Elements(s.work_queue) \cap s.in_work = {}

\* The endpoints that send to a worker, those of them whose end it has not
\* dealt with, and the images of an endpoint that it has yet to answer.
Of(w) == {e \in Started : RemoteOf(e) = w}
Coming(w) == {e \in Of(w) : publisher[e].sent <= MaxImgs \/ <<e, 0>> \in Held(subscriber[w])}
Unanswered(e) == {n \in 1 .. MaxImgs : <<e, n>> \in Held(subscriber[RemoteOf(e)])}

\* A worker counts down no further than there are endpoints to end, and no
\* image is answered more often than it is sent.
MessagesInv ==
    /\ ~Mqtt => \A w \in Workers : /\ subscriber[w].state = "absent"
                                   /\ subscriber[w].work_queue = <<>> /\ subscriber[w].in_work = {}
    /\ Mqtt => \A w \in Workers :
          /\ Tidy(subscriber[w])
          /\ \A x \in Held(subscriber[w]) :
                /\ x[1] \in Of(w) /\ x[2] <= publisher[x[1]].sent
                /\ x[2] = 0 => publisher[x[1]].sent = MaxImgs + 1
          /\ subscriber[w].state # "absent" => w <= config.workers /\ Begun(<<"work", w>>)
          /\ subscriber[w].state \in {"connecting", "subscribed"} =>
                Cardinality(Coming(w)) <= subscriber[w].endpoints_connected
          /\ subscriber[w].state = "closing" =>
                subscriber[w].work_queue = <<>> /\ \A e \in Of(w) : publisher[e].sent = MaxImgs + 1
    /\ Mqtt => \A e \in Started :
          /\ publisher[e].RECEIVED + Cardinality(Unanswered(e)) <= publisher[e].sent
          /\ publisher[e].RECEIVED + Cardinality(Unanswered(e)) <= MaxImgs

\* combined.py has generated what it has classified or is classifying.
InWork(c) == IF c.working THEN 1 ELSE 0
CombinedInv ==
    \A e \in Endpoints :
        /\ combined[e].processed + InWork(combined[e]) <= combined[e].generated
        /\ Manager = "none" /\ container[e] = "Exited (0)" => combined[e].processed >= MaxImgs - 1

IInv == TypeOK /\ DriverInv /\ JobsInv /\ PodsInv /\ LoopsInv /\ MessagesInv /\ CombinedInv

-------------------------------------------------------------------------------
(* Numbers taken from the configuration *)

\* A multiple that is no less.
LEMMA MultipleGrows == \A x \in Nat, y \in Nat \ {0} : x <= x * y /\ x * y \in Nat
OBVIOUS

\* Whole parts of a number: they fit in it, and k of its items are in part
\* (k - 1) \div q + 1 when there are q to a part.
LEMMA Parts ==
    ASSUME NEW n \in Nat, NEW w \in Nat \ {0}
    PROVE  n \div w \in Nat /\ w * (n \div w) <= n /\ n \div w <= n
<1> DEFINE q == n \div w
           r == n % w
<1>1. q \in Int /\ r \in 0 .. w - 1 /\ n = w * q + r
  OBVIOUS
<1>2. q >= 0
  BY <1>1
<1> HIDE DEF q, r
<1>3. w * q <= n /\ q <= w * q
  BY <1>1, <1>2, MultipleGrows
<1> QED BY <1>1, <1>2, <1>3 DEF q

LEMMA PartOf ==
    ASSUME NEW w \in Nat \ {0}, NEW q \in Nat, NEW e \in 1 .. w * q
    PROVE  /\ q # 0 /\ (e - 1) \div q + 1 \in 1 .. w
           /\ \A k \in Nat : (e - 1) \div q + 1 = k => e \in (k - 1) * q + 1 .. (k - 1) * q + q
<1>1. q # 0
  OBVIOUS
<1> DEFINE p == (e - 1) \div q
           r == (e - 1) % q
<1>2. p \in Int /\ r \in 0 .. q - 1 /\ e - 1 = q * p + r
  BY <1>1
<1> HIDE DEF p, r
<1>3. p >= 0
  BY <1>1, <1>2
<1>4. p < w
  <2> SUFFICES ASSUME p >= w PROVE FALSE
    BY <1>2
  <2>1. q * p >= q * w
    BY <1>2, <1>3
  <2> QED BY <1>2, <2>1
<1>5. \A k \in Nat : p + 1 = k => e \in (k - 1) * q + 1 .. (k - 1) * q + q
  BY <1>2, <1>3
<1> QED BY <1>1, <1>2, <1>3, <1>4, <1>5 DEF p

\* What the assumption says of the configuration, and of its numbers.
LEMMA ConfigType ==
    ASSUME config \in Configs
    PROVE  /\ Manager \in Managers /\ config.workers \in Nat /\ config.endpoints \in Nat
           /\ config.applications_per_worker \in Nat \ {0}
           /\ Manager # "none" => config.workers > 0
           /\ Mqtt => config.applications_per_worker = 1 /\ WorkerApps = config.workers
           /\ config.kube_deployment = "container" => Manager = "kubecontrol"
           /\ WorkerApps \in Nat /\ config.workers <= WorkerApps
           /\ 1 .. config.workers \subseteq Workers /\ 1 .. config.endpoints \subseteq Endpoints
           /\ {"cache", "work"} \X (1 .. WorkerApps) \subseteq Pods
           /\ MaxImgs \in Nat \ {0}
<1>1. /\ Manager \in Managers /\ config.workers \in Nat /\ config.endpoints \in Nat
      /\ config.applications_per_worker \in Nat \ {0}
      /\ Manager # "none" => config.workers > 0
      /\ Mqtt => config.applications_per_worker = 1
      /\ config.kube_deployment = "container" => Manager = "kubecontrol"
      /\ MaxImgs \in Nat \ {0}
  BY ApplicationAssumption DEF Manager, Mqtt
<1>2. WorkerApps \in Nat /\ config.workers <= WorkerApps /\ (Mqtt => WorkerApps = config.workers)
  BY <1>1, MultipleGrows DEF WorkerApps
<1>3. 1 .. config.workers \subseteq Workers /\ 1 .. config.endpoints \subseteq Endpoints
  BY DEF Workers, Endpoints
<1>4. {"cache", "work"} \X (1 .. WorkerApps) \subseteq Pods
  BY DEF Pods, WorkerApps
<1> QED BY <1>1, <1>2, <1>3, <1>4

\* The pods of a Job are as many as it asks for.
LEMMA PodsOfJob ==
    ASSUME config \in Configs, Manager # "none", NEW job \in {"cache", "work"}
    PROVE  /\ Replicas(job) \in Nat /\ PodsOf(job) \subseteq Pods
           /\ IsFiniteSet(PodsOf(job)) /\ Cardinality(PodsOf(job)) = Replicas(job)
           /\ Mqtt => Replicas("work") = config.workers
           /\ \A k \in 1 .. Replicas(job) : <<job, k>> \in PodsOf(job)
<1>1. Replicas(job) \in Nat /\ Replicas(job) <= WorkerApps /\ (Mqtt => Replicas("work") = config.workers)
  <2>1. config.workers > 0 /\ config.workers <= WorkerApps /\ WorkerApps \in Nat /\ config.workers \in Nat
    BY ConfigType
  <2>2. Mqtt => config.kube_deployment # "container" /\ WorkerApps = config.workers
    BY ConfigType DEF Mqtt
  <2> QED BY <2>1, <2>2 DEF Replicas
<1>2. PodsOf(job) = {job} \X (1 .. Replicas(job))
  BY DEF PodsOf
<1>3. PodsOf(job) \subseteq {"cache", "work"} \X (1 .. WorkerApps)
  <2>1. 1 .. Replicas(job) \subseteq 1 .. WorkerApps
    BY <1>1, ConfigType
  <2> QED BY <1>2, <2>1
<1>4. IsFiniteSet(PodsOf(job)) /\ Cardinality(PodsOf(job)) = Replicas(job)
  <2>1. IsFiniteSet({job}) /\ Cardinality({job}) = 1
    BY FS_Singleton
  <2>2. IsFiniteSet(1 .. Replicas(job)) /\ Cardinality(1 .. Replicas(job)) = Replicas(job)
    BY <1>1, FS_Interval
  <2>3. /\ IsFiniteSet({job} \X (1 .. Replicas(job)))
        /\ Cardinality({job} \X (1 .. Replicas(job))) = Cardinality({job}) * Cardinality(1 .. Replicas(job))
    BY <2>1, <2>2, FS_Product
  <2>4. IsFiniteSet(PodsOf(job)) /\ Cardinality(PodsOf(job)) = 1 * Replicas(job)
    BY <1>2, <2>1, <2>2, <2>3
  <2> QED BY <1>1, <2>4
<1> QED BY <1>1, <1>2, <1>3, <1>4, ConfigType

\* The endpoints that are started; each sends to one of the workers, and as
\* many to a worker as its subscriber counts.
LEMMA StartedEndpoints ==
    ASSUME config \in Configs
    PROVE  /\ Started \subseteq Endpoints /\ Started \subseteq Nat
           /\ Cardinality(Started) \in Nat /\ Started = 1 .. Cardinality(Started)
           /\ Mqtt => /\ ENDPOINT_CONNECTED \in 0 .. config.endpoints
                      /\ \A e \in Started : RemoteOf(e) \in 1 .. config.workers
                      /\ \A w \in Workers : IsFiniteSet(Of(w)) /\ Cardinality(Of(w)) <= ENDPOINT_CONNECTED
<1>1. PICK n \in Nat : n <= config.endpoints /\ Started = 1 .. n
  <2>1. CASE Manager = "none"
    BY <2>1, ConfigType DEF Started
  <2>2. CASE Manager # "none"
    <3>1. /\ EndPerWork \in Nat /\ config.workers * EndPerWork <= config.endpoints
          /\ config.workers * EndPerWork \in Nat
      BY <2>2, ConfigType, Parts DEF EndPerWork
    <3> QED BY <2>2, <3>1 DEF Started
  <2> QED BY <2>1, <2>2
<1>2. Cardinality(Started) = n
  BY <1>1, FS_Interval
<1>3. Started \subseteq Endpoints
  <2>1. 1 .. n \subseteq 1 .. config.endpoints
    BY <1>1, ConfigType
  <2> QED BY <1>1, <2>1, ConfigType
<1>4. ASSUME Mqtt
      PROVE  /\ ENDPOINT_CONNECTED \in 0 .. config.endpoints
             /\ \A e \in Started : RemoteOf(e) \in 1 .. config.workers
             /\ \A w \in Workers : IsFiniteSet(Of(w)) /\ Cardinality(Of(w)) <= ENDPOINT_CONNECTED
  <2>1. Manager # "none" /\ config.workers \in Nat \ {0} /\ config.endpoints \in Nat
    BY <1>4, ConfigType DEF Mqtt
  <2>2. /\ ENDPOINT_CONNECTED = EndPerWork /\ EndPerWork \in Nat /\ EndPerWork <= config.endpoints
    BY <1>4, <2>1, ConfigType, Parts DEF ENDPOINT_CONNECTED, EndPerWork
  <2>3. Started = 1 .. config.workers * EndPerWork
    BY <2>1 DEF Started
  <2>4. ASSUME NEW e \in Started
        PROVE  /\ RemoteOf(e) \in 1 .. config.workers
               /\ \A k \in Nat : RemoteOf(e) = k => e \in (k - 1) * EndPerWork + 1 .. (k - 1) * EndPerWork + EndPerWork
    BY <2>1, <2>2, <2>3, PartOf DEF RemoteOf
  <2>5. ASSUME NEW w \in Workers PROVE IsFiniteSet(Of(w)) /\ Cardinality(Of(w)) <= EndPerWork
    <3>1. w \in Nat
      BY ApplicationAssumption DEF Workers
    <3> DEFINE a == (w - 1) * EndPerWork
    <3>2. a \in Int
      BY <2>2, <3>1
    <3>3. Of(w) \subseteq a + 1 .. a + EndPerWork
      BY <2>4, <3>1 DEF Of
    <3> HIDE DEF a
    <3>4. IsFiniteSet(a + 1 .. a + EndPerWork) /\ Cardinality(a + 1 .. a + EndPerWork) = EndPerWork
      <4>1. /\ IsFiniteSet(a + 1 .. a + EndPerWork)
            /\ Cardinality(a + 1 .. a + EndPerWork) =
                  IF a + 1 > a + EndPerWork THEN 0 ELSE a + EndPerWork - (a + 1) + 1
        BY <2>2, <3>2, FS_Interval
      <4> QED BY <2>2, <3>2, <4>1
    <3> QED BY <3>3, <3>4, FS_Subset
  <2> QED BY <2>2, <2>4, <2>5
<1> QED BY <1>1, <1>2, <1>3, <1>4

-------------------------------------------------------------------------------
(* Steps *)

\* What is not the driver leaves it alone, and the Jobs.
Others ==
    \/ \E n \in 1 .. config.workers + 1 : NodeReady(n)
    \/ \E p \in Pods : PodSteps(p) \/ PodFails(p)
    \/ \E e \in Endpoints : PublisherSubscribes(e) \/ SendsAll(e) \/ Combine(e) \/ Classifies(e) \/ EndpointFails(e)
    \/ \E w \in Workers : Main(w) \/ GetItem(w) \/ Tflite(w)
    \/ UNCHANGED vars

LEMMA NextSteps == [Next]_vars => Driver \/ Others
BY DEF Next, Others

LEMMA OthersFrame == Others => UNCHANGED <<driver, jobs>>
<1>1. ASSUME NEW p \in Pods, PodSteps(p) \/ PodFails(p) PROVE UNCHANGED <<driver, jobs>>
  BY <1>1 DEF PodSteps, PodFails, PodAppears, PodAssigned, PodRuns, PodSleeps, PodRemoved, PodBecomes
<1>2. ASSUME NEW e \in Endpoints,
             PublisherSubscribes(e) \/ SendsAll(e) \/ Combine(e) \/ Classifies(e) \/ EndpointFails(e)
      PROVE  UNCHANGED <<driver, jobs>>
  BY <1>2 DEF PublisherSubscribes, SendsAll, Send, AllReceived, Combine, Classifies, EndpointFails, Generate,
     QueueEmpty, Take, Classify, CombinedBecomes, Outside, cluster
<1>3. ASSUME NEW w \in Workers, Main(w) \/ GetItem(w) \/ Tflite(w) PROVE UNCHANGED <<driver, jobs>>
  BY <1>3 DEF Main, GetItem, Tflite, WorkerSubscribes, AllDisconnected, Terminate, ClientDisconnected, Reply, Outside
<1> QED BY <1>1, <1>2, <1>3 DEF Others, NodeReady, vars, cluster

\* The configuration stays, and what is computed from it.
LEMMA ConfigStays ==
    [Next]_vars => /\ config' = config /\ Manager' = Manager /\ Mqtt' = Mqtt /\ Kube' = Kube
                   /\ Started' = Started /\ ENDPOINT_CONNECTED' = ENDPOINT_CONNECTED
                   /\ \A job : Replicas(job)' = Replicas(job) /\ PodsOf(job)' = PodsOf(job)
                   /\ \A e : RemoteOf(e)' = RemoteOf(e)
                   /\ \A w : Of(w)' = Of(w)
<1> SUFFICES ASSUME [Next]_vars
             PROVE  config' = config
  BY DEF Manager, Mqtt, Kube, Started, ENDPOINT_CONNECTED, Replicas, PodsOf, RemoteOf, Of, EndPerWork, WorkerApps
<1>1. CASE Others
  BY <1>1, OthersFrame DEF driver
<1>2. CASE Driver
  BY <1>2 DEF Driver, Pause, ListNodes, VerifyNode, ClusterRuns, ListPods, CacheWorker, CachedPod, DeleteCached,
     SleepDeleted, StartWorkerKube, StartWorkerMist, WaitWorkerReady, WorkerDeployed, StartEndpoint,
     WaitEndpointCompletion, WaitMistCompletion, Finished, WorkerCompleted, AllCompleted, GetEndpointOutput,
     GetWorkerOutput
<1> QED BY <1>1, <1>2, NextSteps

\* A line is passed, the list is read again, or the program ends.
LEMMA LookAtSteps ==
    ASSUME NEW Wait, NEW Done, LookAt(Wait, Done)
    PROVE  /\ ~pending
           /\ \/ /\ ~(i >= Len(output)) /\ output[i + 1] \in Done
                 /\ i' = i + 1 /\ UNCHANGED <<pc, output, pending>>
              \/ pending' = TRUE /\ output' = <<>> /\ UNCHANGED <<pc, i>>
              \/ Goto("raised")
              \/ Goto("stopped")
<1>1. CASE i >= Len(output)
  BY <1>1 DEF LookAt
<1>2. CASE ~(i >= Len(output))
  <2> DEFINE status == output[i + 1]
  <2>1. /\ ~pending
        /\ CASE status \in Done -> i' = i + 1 /\ UNCHANGED <<pc, output, pending>>
             [] status \in Wait -> pending' = TRUE /\ output' = <<>> /\ UNCHANGED <<pc, i>>
             [] OTHER -> Goto("stopped")
    BY <1>2 DEF LookAt
  <2> HIDE DEF status
  <2>2. CASE status \in Done
    BY <1>2, <2>1, <2>2 DEF status
  <2>3. CASE status \in Wait /\ status \notin Done
    BY <2>1, <2>3
  <2>4. CASE status \notin Wait /\ status \notin Done
    BY <2>1, <2>4
  <2> QED BY <2>2, <2>3, <2>4
<1> QED BY <1>1, <1>2

\* One has ended well and is passed, all have, or the program ends.
LEMMA FinishedSteps ==
    ASSUME NEW step, NEW last, NEW status, NEW next, Finished(step, last, status, next)
    PROVE  /\ pc = step
           /\ \/ i = last /\ Goto(next)
              \/ /\ i # last /\ status[i + 1] \in {"Exited (0)", "Succeeded"}
                 /\ i' = i + 1 /\ UNCHANGED <<pc, output, pending>>
              \/ Goto("stopped")
BY DEF Finished

\* Where a step of the driver can lead, and what then has been done.
Leads ==
    \/ pc' \in {pc, "raised", "stopped"}
    \/ pc = "cluster" /\ pc' \in {"cache_worker", "start_worker"}
    \/ pc = "cache_worker" /\ pc' = "cache" /\ CacheWorker /\ Manager # "kubernetes"
    \/ pc = "cache" /\ pc' = "deleted" /\ DeleteCached
    \/ pc = "deleted" /\ pc' = "start_worker" /\ SleepDeleted
    \/ pc = "start_worker" /\ pc' = "deployed" /\ StartWorkerMist
    \/ pc = "start_worker" /\ pc' = "ready" /\ StartWorkerKube
    \/ pc = "ready" /\ pc' = (IF Manager = "kubernetes" THEN "start_endpoint" ELSE "completion") /\ WaitWorkerReady
    \/ pc = "deployed" /\ pc' = "start_endpoint" /\ WorkerDeployed
    \/ pc = "start_endpoint" /\ pc' = "endpoints" /\ StartEndpoint
    \/ pc = "endpoints" /\ i = Cardinality(Started)
       /\ pc' = (IF Manager = "none" THEN "output" ELSE IF Manager = "mist" THEN "workers" ELSE "completion")
    \/ pc = "workers" /\ pc' = "output" /\ i = config.workers
    \/ pc = "completion" /\ pc' = "output" /\ i = config.workers
    \/ pc = "output" /\ pc' = (IF Manager \in {"none", "kubecontrol"} THEN "ended" ELSE "worker_output")
    \/ pc = "worker_output" /\ pc' = "ended" /\ Manager # "mist"

\* What the driver leaves alone.
LEMMA DriverFrame ==
    Driver => /\ UNCHANGED <<config, ready, publisher, combined, environment>>
              /\ jobs' = jobs \/ CacheWorker \/ DeleteCached \/ StartWorkerKube
              /\ UNCHANGED <<pods, subscriber>> \/ StartWorkerMist
              /\ container' = container \/ StartEndpoint
BY DEF Driver, Pause, ListNodes, VerifyNode, ClusterRuns, ListPods, CacheWorker, CachedPod, DeleteCached,
   SleepDeleted, StartWorkerKube, StartWorkerMist, WaitWorkerReady, WorkerDeployed, StartEndpoint,
   WaitEndpointCompletion, WaitMistCompletion, Finished, WorkerCompleted, AllCompleted, GetEndpointOutput,
   GetWorkerOutput, cluster, programs

LEMMA DriverLeads == IInv /\ Driver => Leads
<1> SUFFICES ASSUME IInv, Driver PROVE Leads
  OBVIOUS
<1>1. CASE VerifyNode \/ CachedPod \/ WorkerCompleted
  <2>1. pc' \in {pc, "raised", "stopped"}
    BY <1>1, LookAtSteps DEF VerifyNode, CachedPod, WorkerCompleted, Goto
  <2> QED BY <2>1 DEF Leads
<1>2. CASE ListNodes \/ ListPods("cache") \/ ListPods("completion") \/ ClusterRuns \/ SleepDeleted
  BY <1>2 DEF ListNodes, ListPods, ClusterRuns, SleepDeleted, Goto, Leads
<1>3. CASE CacheWorker \/ DeleteCached \/ StartWorkerKube \/ StartWorkerMist \/ StartEndpoint
  BY <1>3 DEF CacheWorker, DeleteCached, StartWorkerKube, StartWorkerMist, StartEndpoint, Goto, Leads
<1>4. CASE WaitWorkerReady \/ WorkerDeployed \/ AllCompleted
  BY <1>4 DEF WaitWorkerReady, WorkerDeployed, AllCompleted, Goto, Leads
<1>5. CASE WaitEndpointCompletion
  <2> DEFINE next == CASE Manager = "none" -> "output" [] Manager = "mist" -> "workers" [] OTHER -> "completion"
  <2>1. pc = "endpoints" /\ (pc' \in {pc, "stopped"} \/ (pc' = next /\ i = Cardinality(Started)))
    <3>1. Finished("endpoints", Cardinality(Started), container, next)
      BY <1>5 DEF WaitEndpointCompletion
    <3> HIDE DEF next
    <3>2. /\ pc = "endpoints"
          /\ \/ i = Cardinality(Started) /\ Goto(next)
             \/ UNCHANGED pc
             \/ Goto("stopped")
      BY <3>1, FinishedSteps
    <3> QED BY <3>2 DEF Goto
  <2>2. next = IF Manager = "none" THEN "output" ELSE IF Manager = "mist" THEN "workers" ELSE "completion"
    OBVIOUS
  <2> QED BY <2>1, <2>2 DEF Leads
<1>6. CASE WaitMistCompletion
  BY <1>6 DEF WaitMistCompletion, Finished, Goto, Leads
<1>7. CASE GetEndpointOutput \/ GetWorkerOutput
  BY <1>7, ConfigType DEF GetEndpointOutput, GetWorkerOutput, Goto, Leads, IInv, TypeOK, DriverInv, Managers, Ends
<1> QED BY <1>1, <1>2, <1>3, <1>4, <1>5, <1>6, <1>7 DEF Driver

\* The driver stays in the steps of its resource manager.
LEMMA DriverStep == IInv /\ [Next]_vars => DriverInv'
<1> SUFFICES ASSUME IInv, [Next]_vars PROVE DriverInv'
  OBVIOUS
<1>1. Manager' = Manager /\ Manager \in Managers /\ DriverInv
  BY ConfigStays, ConfigType DEF IInv, TypeOK
<1>2. CASE Others
  BY <1>1, <1>2, OthersFrame DEF driver, DriverInv
<1>3. CASE Driver
  <2>1. Leads
    BY <1>3, DriverLeads
  <2> QED BY <1>1, <2>1 DEF Leads, DriverInv, Managers, Ends, StartWorkerMist, StartWorkerKube
<1> QED BY <1>2, <1>3, NextSteps

\* Jobs are made and deleted at their steps alone.
LEMMA JobsStep == IInv /\ [Next]_vars => JobsInv'
<1> SUFFICES ASSUME IInv, [Next]_vars PROVE JobsInv'
  OBVIOUS
<1>1. Manager' = Manager /\ Kube' = Kube /\ Manager \in Managers /\ DriverInv /\ JobsInv
  BY ConfigStays, ConfigType DEF IInv, TypeOK
<1>2. CASE Others
  BY <1>1, <1>2, OthersFrame DEF driver, JobsInv
<1>3. CASE Driver
  <2>1. Leads
    BY <1>3, DriverLeads
  <2>2. CASE CacheWorker \/ DeleteCached \/ StartWorkerKube
    BY <1>1, <2>2 DEF CacheWorker, DeleteCached, StartWorkerKube, Goto, JobsInv, DriverInv, Kube, AfterReady, Ends,
       Managers
  <2>3. CASE ~(CacheWorker \/ DeleteCached \/ StartWorkerKube)
    <3>1. jobs' = jobs
      BY <1>3, <2>3, DriverFrame
    <3> QED BY <1>1, <2>1, <2>3, <3>1 DEF Leads, JobsInv, DriverInv, Kube, AfterReady, Ends, Managers
  <2> QED BY <2>2, <2>3
<1> QED BY <1>2, <1>3, NextSteps

-------------------------------------------------------------------------------
(* Pods *)

\* A pod of the benchmark neither goes nor goes back, and one that has ended
\* well stays so; a new one is of a Job that there is.
PodsMove ==
    /\ pods' \in [Pods -> {"absent", "created", "assigned", "Running", "Succeeded", "Failed"}]
    /\ \A p \in Pods :
          /\ pods'[p] # "absent" => pods[p] # "absent" \/ (p \in PodsOf(p[1]) /\ p[1] \in jobs)
          /\ p[1] = "work" =>
                /\ pods[p] # "absent" => pods'[p] # "absent"
                /\ Begun(p) => Begun(p)'
                /\ pods[p] = "Succeeded" => pods'[p] = "Succeeded"

\* Where pods change.
LEMMA PodsChange ==
    Others => \/ UNCHANGED pods
              \/ \E p \in Pods : PodSteps(p) \/ PodFails(p)
              \/ \E w \in Workers : Terminate(w)
BY DEF Others, NodeReady, PublisherSubscribes, SendsAll, Send, AllReceived, Combine, Classifies, EndpointFails,
   Generate, QueueEmpty, Take, Classify, CombinedBecomes, Outside, cluster, Main, GetItem, Tflite, WorkerSubscribes,
   AllDisconnected, ClientDisconnected, Reply, vars

\* One pod changes, and not back.
LEMMA OnePodMoves ==
    ASSUME TypeOK, NEW p \in Pods, NEW status, pods' = [pods EXCEPT ![p] = status],
           status \in {"absent", "created", "assigned", "Running", "Succeeded", "Failed"},
           pods[p] # "absent" \/ status = "absent" \/ (p \in PodsOf(p[1]) /\ p[1] \in jobs),
           p[1] = "work" => /\ (status # "absent" /\ pods[p] # "Succeeded") \/ status = "Succeeded"
                            /\ Begun(p) => status \in {"Running", "Succeeded", "Failed"}
    PROVE  PodsMove
<1>1. /\ pods \in [Pods -> {"absent", "created", "assigned", "Running", "Succeeded", "Failed"}]
      /\ \A q \in Pods : pods'[q] = IF q = p THEN status ELSE pods[q]
  BY DEF TypeOK
<1> QED BY <1>1 DEF PodsMove, Begun

\* Pods move forward, whoever acts on them: only those of a deleted Job go.
LEMMA OthersPods == IInv /\ Others => PodsMove
<1> SUFFICES ASSUME IInv, Others PROVE PodsMove
  OBVIOUS
<1>1. TypeOK
  BY DEF IInv
<1>2. CASE UNCHANGED pods
  BY <1>1, <1>2 DEF TypeOK, PodsMove, Begun
<1>3. ASSUME NEW p \in Pods, PodSteps(p) \/ PodFails(p) PROVE PodsMove
  <2>1. CASE PodAppears(p)
    BY <1>1, <2>1, OnePodMoves DEF PodAppears, PodBecomes, Begun
  <2>2. CASE PodAssigned(p)
    BY <1>1, <2>2, OnePodMoves DEF PodAssigned, PodBecomes, Begun
  <2>3. CASE PodRuns(p)
    BY <1>1, <2>3, OnePodMoves DEF PodRuns, PodBecomes, Begun
  <2>4. CASE PodSleeps(p)
    BY <1>1, <2>4, OnePodMoves DEF PodSleeps, PodBecomes, Begun
  <2>5. CASE PodFails(p)
    BY <1>1, <2>5, OnePodMoves DEF PodFails, PodBecomes, Begun
  <2>6. CASE PodRemoved(p)
    <3>1. p[1] # "work"
      BY <2>6 DEF PodRemoved, IInv, PodsInv, Listed
    <3> QED BY <1>1, <2>6, <3>1, OnePodMoves DEF PodRemoved, PodBecomes
  <2> QED BY <1>3, <2>1, <2>2, <2>3, <2>4, <2>5, <2>6 DEF PodSteps
<1>4. ASSUME NEW w \in Workers, Terminate(w) PROVE PodsMove
  <2>1. subscriber[w].state # "absent" /\ pods' = [pods EXCEPT ![<<"work", w>>] = "Succeeded"]
    BY <1>4 DEF Terminate
  <2>2. Mqtt /\ w <= config.workers /\ Begun(<<"work", w>>)
    BY <2>1 DEF IInv, MessagesInv
  <2>3. <<"work", w>> \in Pods
    <3>1. w \in Nat \ {0}
      BY ApplicationAssumption DEF Workers
    <3>2. Manager # "none" /\ config \in Configs
      BY <1>1, <2>2 DEF Mqtt, TypeOK
    <3> QED BY <2>2, <3>1, <3>2, PodsOfJob
  <2> QED BY <1>1, <2>1, <2>2, <2>3, OnePodMoves DEF Begun
<1> QED BY <1>2, <1>3, <1>4, PodsChange

\* Each pod is one of a Job that its phase allows, and the benchmark goes on
\* when all of its pods have been started.
LEMMA PodsStep == IInv /\ [Next]_vars => PodsInv'
<1> SUFFICES ASSUME IInv, [Next]_vars PROVE PodsInv'
  OBVIOUS
<1>1. /\ Manager' = Manager /\ (\A job : PodsOf(job)' = PodsOf(job)) /\ Manager \in Managers
      /\ TypeOK /\ config \in Configs /\ JobsInv /\ PodsInv /\ DriverInv
  BY ConfigStays, ConfigType DEF IInv, TypeOK
<1>2. \A job \in {"cache", "work"} : Manager # "none" => PodsOf(job) \subseteq Pods
  BY <1>1, PodsOfJob
<1>3. \A p \in PodsOf("work") : p[1] = "work"
  BY DEF PodsOf
<1>4. CASE Others
  <2>1. UNCHANGED <<pc, jobs>> /\ PodsMove
    BY <1>4, OthersFrame, OthersPods DEF driver
  <2>2. \A p \in Listed' : p \in PodsOf(p[1]) /\ (p[1] = "work" => "work" \in jobs \/ Manager = "mist")
                           /\ (p[1] = "cache" => p \in Listed \/ "cache" \in jobs)
    BY <1>1, <2>1 DEF PodsMove, PodsInv, Listed
  <2>3. \A p \in Pods : p[1] = "work" /\ Begun(p) => Begun(p)'
    BY <2>1 DEF PodsMove
  <2> QED BY <1>1, <1>2, <1>3, <2>1, <2>2, <2>3 DEF PodsInv, JobsInv, AfterReady
<1>5. CASE Driver
  <2>1. Leads
    BY <1>5, DriverLeads
  <2>2. CASE StartWorkerMist
    <3>1. /\ pods' = [p \in Pods |-> IF p \in PodsOf("work") THEN "Running" ELSE pods[p]]
          /\ Manager = "mist" /\ pc' = "deployed" /\ jobs' = jobs
      BY <2>2 DEF StartWorkerMist, Goto
    <3>2. \A p \in PodsOf("work") : Begun(p)'
      BY <1>1, <1>2, <3>1 DEF Begun
    <3>3. \A p \in Listed' : p \in PodsOf(p[1]) /\ (p[1] = "cache" => p \in Listed)
      BY <1>1, <1>3, <3>1 DEF Listed, PodsInv
    <3> QED BY <1>1, <3>1, <3>2, <3>3 DEF PodsInv
  <2>3. CASE ~StartWorkerMist
    <3>1. pods' = pods /\ Listed' = Listed /\ \A p : Begun(p)' = Begun(p)
      BY <1>5, <2>3, DriverFrame DEF Listed, Begun
    <3>2. \A p \in Listed : p[1] = "work" => "work" \in jobs' \/ Manager = "mist"
      BY <1>1, <1>5, DriverFrame DEF PodsInv, CacheWorker, DeleteCached, StartWorkerKube
    <3>3. \A p \in Listed : p[1] = "cache" => pc' \in {"cache", "deleted", "stopped", "raised"}
      BY <1>1, <2>1 DEF Leads, PodsInv, SleepDeleted
    <3>4. pc = "ready" /\ pc' \in AfterReady => \A p \in PodsOf("work") : Begun(p)
      <4> SUFFICES ASSUME pc = "ready", pc' \in AfterReady PROVE \A p \in PodsOf("work") : Begun(p)
        OBVIOUS
      <4>1. WaitWorkerReady /\ Manager \in {"kubernetes", "kubecontrol"}
        BY <1>1, <2>1 DEF Leads, DriverInv, Ends, Managers, AfterReady
      <4>2. Cardinality(InPhase({"Running", "Succeeded"})) = Replicas("work")
        BY <4>1 DEF WaitWorkerReady, Goto, AfterReady
      <4>3. InPhase({"Running", "Succeeded"}) \subseteq PodsOf("work")
        BY <1>1 DEF InPhase, Listed, PodsInv, Pods
      <4>4. IsFiniteSet(PodsOf("work")) /\ Cardinality(PodsOf("work")) = Replicas("work")
        BY <1>1, <4>1, PodsOfJob
      <4>5. InPhase({"Running", "Succeeded"}) = PodsOf("work")
        BY <4>2, <4>3, <4>4, FS_Subset
      <4> QED BY <4>5 DEF InPhase, Begun
    <3>5. pc' \in AfterReady /\ Manager # "none" => pc \in AfterReady \cup {"ready"} \/ Manager = "mist"
      BY <1>1, <2>1 DEF Leads, AfterReady, DriverInv, Ends, Managers
    <3>6. Manager = "mist" /\ pc = "start_worker" => FALSE
      BY <1>5, <2>3, LookAtSteps DEF Driver, ListNodes, VerifyNode, ClusterRuns, ListPods, CacheWorker, CachedPod,
         DeleteCached, SleepDeleted, StartWorkerKube, WaitWorkerReady, WorkerDeployed, StartEndpoint,
         WaitEndpointCompletion, WaitMistCompletion, Finished, WorkerCompleted, AllCompleted, GetEndpointOutput,
         GetWorkerOutput
    <3> QED BY <1>1, <3>1, <3>2, <3>3, <3>4, <3>5, <3>6 DEF PodsInv, AfterReady
  <2> QED BY <2>2, <2>3
<1> QED BY <1>4, <1>5, NextSteps

-------------------------------------------------------------------------------
(* The list of pods *)

SortOrder == {b \in Listed \X Listed : Before(b[1], b[2])}

\* kubectl lists all pods there are, each once.
LEMMA SortedPods ==
    ASSUME TypeOK, PodsInv, Manager # "none"
    PROVE  /\ IsFiniteSet(Listed) /\ Cardinality(Listed) \in Nat
           /\ Sorted \in [1 .. Cardinality(Listed) -> Listed]
           /\ \A p \in Listed : \E k \in 1 .. Cardinality(Listed) : Sorted[k] = p
<1>1. config \in Configs /\ config.workers \in Nat \ {0}
  <2>1. config \in Configs
    BY DEF TypeOK
  <2> QED BY <2>1, ConfigType
<1>2. \A p \in Pods : p[1] \in {"cache", "work"} /\ p[2] \in Nat /\ p = <<p[1], p[2]>>
  BY ApplicationAssumption DEF Pods
<1>3. Listed \subseteq PodsOf("cache") \cup PodsOf("work") /\ Listed \subseteq Pods
  BY <1>2 DEF PodsInv, Listed
<1>4. IsFiniteSet(Listed)
  <2>1. IsFiniteSet(PodsOf("cache")) /\ IsFiniteSet(PodsOf("work"))
    BY <1>1, PodsOfJob
  <2> QED BY <1>3, <2>1, FS_Union, FS_Subset
<1>5. \A p \in Listed : NodeOf(p) \in Int
  BY <1>1, <1>2, <1>3 DEF NodeOf
<1>6. Orders(Listed, SortOrder)
  <2>1. \A p \in Listed : ~Before(p, p)
    BY <1>2, <1>3, <1>5 DEF Before
  <2>2. ASSUME NEW p \in Listed, NEW q \in Listed, p # q PROVE Before(p, q) \/ Before(q, p)
    <3>1. p[1] # q[1] \/ p[2] # q[2]
      BY <1>2, <1>3, <2>2
    <3>2. p \in Pods /\ q \in Pods
      BY <1>3
    <3> HIDE DEF Listed
    <3> QED BY <1>2, <1>5, <3>1, <3>2 DEF Before
  <2>3. ASSUME NEW p \in Listed, NEW q \in Listed, NEW r \in Listed, Before(p, q), Before(q, r) PROVE Before(p, r)
    <3>1. p \in Pods /\ q \in Pods /\ r \in Pods
      BY <1>3
    <3> QED BY <1>2, <1>5, <2>3, <3>1 DEF Before
  <2>4. \A p, q \in Listed : <<p, q>> \in SortOrder <=> Before(p, q)
    BY DEF SortOrder
  <2> QED BY <2>1, <2>2, <2>3, <2>4 DEF Orders
<1>7. Sorted = InOrder(Listed, SortOrder)
  BY DEF Sorted, SortOrder
<1> QED BY <1>4, <1>6, <1>7, InOrderSorts, FS_CardinalityType

\* At the end the list is that of the pods of the benchmark.
LEMMA ListedAtEnd ==
    ASSUME IInv, pc = "completion"
    PROVE  /\ Listed = PodsOf("work") /\ Manager # "none" /\ config \in Configs
           /\ \A p \in Listed : Begun(p)
<1>1. /\ TypeOK /\ PodsInv /\ Manager # "none" /\ config \in Configs
  BY ConfigType DEF IInv, TypeOK, DriverInv, Ends, Managers
<1>2. \A p \in PodsOf("work") : Begun(p) /\ p \in Pods
  BY <1>1, PodsOfJob DEF PodsInv, AfterReady
<1>3. PodsOf("work") \subseteq Listed
  BY <1>2 DEF Begun, Listed
<1>4. \A p \in Listed : p \in PodsOf("work")
  BY <1>1 DEF PodsInv, Listed, Pods
<1> QED BY <1>1, <1>2, <1>3, <1>4

\* Then it stays the same.
LEMMA SortedStays ==
    ASSUME IInv, pc = "completion", config' = config, PodsMove
    PROVE  Listed' = Listed /\ Sorted' = Sorted
<1>1. Listed = PodsOf("work") /\ Manager # "none" /\ \A p \in Listed : Begun(p)
  BY ListedAtEnd
<1>2. \A p \in Listed : p \in Pods /\ p[1] = "work"
  BY <1>1 DEF Listed, PodsOf
<1>3. \A p \in Listed : Begun(p)'
  BY <1>1, <1>2 DEF PodsMove
<1>4. "cache" \notin jobs
  BY DEF IInv, JobsInv
<1>5. Listed' = Listed
  <2>1. \A p \in Listed : p \in Listed'
    BY <1>2, <1>3 DEF Listed, Begun
  <2>2. ASSUME NEW p \in Listed' PROVE p \in Listed
    <3>1. p \in Pods /\ (pods[p] # "absent" \/ (p \in PodsOf(p[1]) /\ p[1] \in jobs))
      BY <2>2 DEF Listed, PodsMove
    <3>2. p[1] # "cache" => p[1] = "work"
      BY <3>1 DEF Pods
    <3> QED BY <1>1, <1>4, <3>1, <3>2 DEF Listed
  <2> QED BY <2>1, <2>2
<1>6. \A p \in Listed : NodeOf(p)' = NodeOf(p)
  BY <1>1, <1>3 DEF NodeOf, Begun
<1>7. SortOrder' = SortOrder
  <2>1. SortOrder' = {b \in Listed' \X Listed' : Before(b[1], b[2])'}
    BY DEF SortOrder
  <2>2. \A p, q \in Listed : Before(p, q)' = Before(p, q)
    BY <1>6 DEF Before
  <2> QED BY <1>5, <2>1, <2>2 DEF SortOrder
<1> QED BY <1>5, <1>7 DEF Sorted, SortOrder

-------------------------------------------------------------------------------
(* The loops of the driver *)

\* Which action waits.
LEMMA DriverAt ==
    Driver => /\ pc = "endpoints" => WaitEndpointCompletion
              /\ pc = "workers" => WaitMistCompletion
              /\ pc = "completion" => ListPods("completion") \/ WorkerCompleted \/ AllCompleted
BY DEF Driver, ListNodes, VerifyNode, ClusterRuns, ListPods, CacheWorker, CachedPod, DeleteCached, SleepDeleted,
   StartWorkerKube, StartWorkerMist, WaitWorkerReady, WorkerDeployed, StartEndpoint, WaitEndpointCompletion,
   WaitMistCompletion, Finished, WorkerCompleted, AllCompleted, GetEndpointOutput, GetWorkerOutput

\* An endpoint that has ended well has, whatever happens; none is started
\* without the driver.
LEMMA OthersContainers ==
    TypeOK /\ Others =>
        /\ container' \in [Endpoints -> {"absent", "Up", "Exited (0)", "Exited (1)"}]
        /\ \A e \in Endpoints : /\ container[e] = "Exited (0)" => container'[e] = "Exited (0)"
                                /\ container'[e] # "absent" => container[e] # "absent"
<1> SUFFICES ASSUME TypeOK, Others
             PROVE  /\ container' \in [Endpoints -> {"absent", "Up", "Exited (0)", "Exited (1)"}]
                    /\ \A e \in Endpoints : /\ container[e] = "Exited (0)" => container'[e] = "Exited (0)"
                                            /\ container'[e] # "absent" => container[e] # "absent"
  OBVIOUS
<1>1. container \in [Endpoints -> {"absent", "Up", "Exited (0)", "Exited (1)"}]
  BY DEF TypeOK
<1>2. UNCHANGED container \/ \E e \in Endpoints : AllReceived(e) \/ QueueEmpty(e) \/ EndpointFails(e)
  BY DEF Others, NodeReady, PodSteps, PodFails, PodAppears, PodAssigned, PodRuns, PodSleeps, PodRemoved, PodBecomes,
     PublisherSubscribes, SendsAll, Send, Combine, Classifies, Generate, Take, Classify, CombinedBecomes, Outside,
     Main, GetItem, Tflite, WorkerSubscribes, AllDisconnected, Terminate, ClientDisconnected, Reply, vars
<1>3. ASSUME NEW e \in Endpoints, AllReceived(e) \/ QueueEmpty(e) \/ EndpointFails(e)
      PROVE  \E status \in {"Exited (0)", "Exited (1)"} :
                container[e] = "Up" /\ container' = [container EXCEPT ![e] = status]
  BY <1>3 DEF AllReceived, QueueEmpty, EndpointFails, Publishing, Combining
<1> QED BY <1>1, <1>2, <1>3

\* While the driver waits, nothing that it has passed changes.
LEMMA OthersLoops == IInv /\ Others => LoopsInv'
<1> SUFFICES ASSUME IInv, Others PROVE LoopsInv'
  OBVIOUS
<1>1. [Next]_vars
  BY DEF Others, Next
<1>2. /\ UNCHANGED driver /\ PodsMove /\ Manager' = Manager /\ Started' = Started
      /\ Replicas("work")' = Replicas("work") /\ PodsOf("work")' = PodsOf("work")
      /\ TypeOK /\ LoopsInv /\ config \in Configs
  BY <1>1, OthersFrame, OthersPods, ConfigStays DEF IInv, TypeOK
<1>3. /\ \A e \in Endpoints : /\ container[e] = "Exited (0)" => container'[e] = "Exited (0)"
                              /\ container'[e] # "absent" => container[e] # "absent"
      /\ Started \subseteq Endpoints
  BY <1>2, OthersContainers, StartedEndpoints
<1>4. UNCHANGED <<config, pc, i, output, pending>>
  BY <1>2 DEF driver
<1>5. Manager # "none" => \A p \in PodsOf("work") :
                              pods[p] = "Succeeded" => pods'[p] = "Succeeded"
  <2> SUFFICES ASSUME Manager # "none", NEW p \in PodsOf("work"), pods[p] = "Succeeded"
               PROVE  pods'[p] = "Succeeded"
    OBVIOUS
  <2>1. p \in Pods /\ p[1] = "work"
    BY <1>2, PodsOfJob DEF PodsOf
  <2> QED BY <1>2, <2>1 DEF PodsMove
<1>6. i \in Nat /\ \A e \in Endpoints : container'[e] # "absent" => e \in Started'
  BY <1>2, <1>3 DEF LoopsInv
<1>7. pc = "endpoints" => \A e \in 1 .. i : e \in Started => container'[e] = "Exited (0)"
  BY <1>2, <1>3 DEF LoopsInv
<1>8. pc \in AfterEndpoints /\ Manager # "kubecontrol" => \A e \in Started : container'[e] = "Exited (0)"
  BY <1>2, <1>3 DEF LoopsInv
<1>9. pc = "workers" => \A w \in 1 .. i : w <= config.workers => pods'[<<"work", w>>] = "Succeeded"
  <2> SUFFICES ASSUME pc = "workers", NEW w \in 1 .. i, w <= config.workers
               PROVE  pods'[<<"work", w>>] = "Succeeded"
    OBVIOUS
  <2>1. Manager = "mist"
    BY <1>2, ConfigType DEF IInv, DriverInv, Ends, Managers
  <2>2. <<"work", w>> \in PodsOf("work")
    BY <1>2, <1>6, <2>1, PodsOfJob, ConfigType DEF Mqtt
  <2> QED BY <1>2, <1>5, <2>1, <2>2 DEF LoopsInv
<1>10. ASSUME pc = "completion"
       PROVE  /\ \A k \in 1 .. i : pods'[Sorted'[k]] = "Succeeded"
              /\ ~pending => /\ Len(output) = Cardinality(Listed')
                             /\ \A k \in DOMAIN output : output[k] = "Succeeded" => pods'[Sorted'[k]] = "Succeeded"
  <2>1. Listed' = Listed /\ Sorted' = Sorted
    BY <1>2, <1>4, <1>10, SortedStays
  <2>2. Listed = PodsOf("work") /\ Manager # "none" /\ Cardinality(Listed) = Replicas("work")
    BY <1>10, ListedAtEnd, PodsOfJob
  <2>3. Cardinality(Listed) \in Nat /\ Sorted \in [1 .. Cardinality(Listed) -> Listed]
    BY <1>2, <2>2, SortedPods DEF IInv
  <2>4. \A k \in 1 .. i : Sorted[k] \in PodsOf("work")
    <3>1. i <= Cardinality(Listed)
      BY <1>2, <1>10, <2>2 DEF LoopsInv
    <3> QED BY <1>6, <2>2, <2>3, <3>1
  <2>5. ~pending => \A k \in DOMAIN output : Sorted[k] \in PodsOf("work")
    <3>1. output \in Seq(Statuses) /\ DOMAIN output = 1 .. Len(output)
      BY <1>2, LenProperties DEF TypeOK
    <3> QED BY <1>2, <1>10, <2>2, <2>3, <3>1 DEF LoopsInv
  <2> QED BY <1>2, <1>5, <1>10, <2>1, <2>2, <2>4, <2>5 DEF LoopsInv
<1>11. pc \in {"output", "worker_output", "ended"} /\ Manager # "none" /\ Replicas("work") = config.workers
          => \A p \in PodsOf("work") : pods'[p] = "Succeeded"
  BY <1>2, <1>5 DEF LoopsInv
<1> QED BY <1>2, <1>4, <1>6, <1>7, <1>8, <1>9, <1>10, <1>11 DEF LoopsInv

\* A loop counts one by one, and starts anew.
Counts == i' \in {0, i, i + 1} /\ (pc' # pc => i' = 0 /\ pending' = TRUE /\ output' = <<>>)

LEMMA DriverCounts == Driver => Counts
<1> SUFFICES ASSUME Driver PROVE Counts
  OBVIOUS
<1>1. CASE VerifyNode \/ CachedPod \/ WorkerCompleted
  <2>1. PICK Wait, Done : LookAt(Wait, Done)
    BY <1>1 DEF VerifyNode, CachedPod, WorkerCompleted
  <2>2. \/ i' = i + 1 /\ pc' = pc
        \/ i' = i /\ pc' = pc
        \/ Goto("raised")
        \/ Goto("stopped")
    BY <2>1, LookAtSteps
  <2> QED BY <2>2 DEF Goto, Counts
<1>2. CASE WaitEndpointCompletion \/ WaitMistCompletion
  <2>1. PICK step, last, status, next : Finished(step, last, status, next)
    BY <1>2 DEF WaitEndpointCompletion, WaitMistCompletion
  <2>2. Goto(next) \/ (i' = i + 1 /\ pc' = pc) \/ Goto("stopped")
    BY <2>1, FinishedSteps
  <2> QED BY <2>2 DEF Goto, Counts
<1>3. CASE ListNodes \/ ListPods("cache") \/ ListPods("completion") \/ WorkerDeployed
  BY <1>3 DEF ListNodes, ListPods, WorkerDeployed, Goto, Counts
<1>4. CASE ClusterRuns \/ CacheWorker \/ DeleteCached \/ SleepDeleted \/ StartWorkerKube \/ StartWorkerMist
  BY <1>4 DEF ClusterRuns, CacheWorker, DeleteCached, SleepDeleted, StartWorkerKube, StartWorkerMist, Goto, Counts
<1>5. CASE WaitWorkerReady \/ StartEndpoint \/ AllCompleted \/ GetEndpointOutput \/ GetWorkerOutput
  BY <1>5 DEF WaitWorkerReady, StartEndpoint, AllCompleted, GetEndpointOutput, GetWorkerOutput, Goto, Counts
<1> QED BY <1>1, <1>2, <1>3, <1>4, <1>5 DEF Driver

\* The driver goes on with an endpoint or a worker after the one before has
\* ended well, and reads the output after the last.
LEMMA DriverLoops == IInv /\ Driver => LoopsInv'
<1> SUFFICES ASSUME IInv, Driver PROVE LoopsInv'
  OBVIOUS
<1>1. [Next]_vars
  BY DEF Next
<1>2. /\ Manager' = Manager /\ Started' = Started /\ config' = config
      /\ Replicas("work")' = Replicas("work") /\ PodsOf("work")' = PodsOf("work")
      /\ TypeOK /\ LoopsInv /\ DriverInv /\ config \in Configs /\ Manager \in Managers
  BY <1>1, ConfigStays, ConfigType DEF IInv, TypeOK
<1>3. Leads /\ i \in Nat
  BY <1>2, DriverLeads DEF LoopsInv
<1>4. i' \in Nat /\ (pc' # pc => i' = 0 /\ pending' = TRUE)
  BY <1>3, DriverCounts DEF Counts
<1>5. container' = container \/ StartEndpoint
  BY DriverFrame
<1>6. pods' = pods \/ StartWorkerMist
  BY DriverFrame
<1>7. Started \subseteq Endpoints /\ Started = 1 .. Cardinality(Started) /\ Cardinality(Started) \in Nat
  BY <1>2, StartedEndpoints
<1>8. \A e \in Endpoints : container'[e] # "absent" => e \in Started
  BY <1>2, <1>5 DEF LoopsInv, StartEndpoint
<1>9. ASSUME pc' = "endpoints", NEW e \in 1 .. i', e \in Started PROVE container'[e] = "Exited (0)"
  <2>1. CASE pc = "endpoints"
    <3> DEFINE next == CASE Manager = "none" -> "output" [] Manager = "mist" -> "workers" [] OTHER -> "completion"
    <3>1. Finished("endpoints", Cardinality(Started), container, next) /\ container' = container
      BY <2>1, <1>5, DriverAt DEF WaitEndpointCompletion, StartEndpoint
    <3>2. next # "endpoints"
      OBVIOUS
    <3> HIDE DEF next
    <3>3. \/ Goto(next)
          \/ i # Cardinality(Started) /\ container[i + 1] \in {"Exited (0)", "Succeeded"} /\ i' = i + 1
          \/ Goto("stopped")
      BY <3>1, FinishedSteps
    <3>4. /\ i' = i + 1 /\ i # Cardinality(Started) /\ container[i + 1] \in {"Exited (0)", "Succeeded"}
      BY <1>9, <3>2, <3>3 DEF Goto
    <3>5. e \in 1 .. i => container[e] = "Exited (0)"
      BY <1>2, <1>9, <2>1 DEF LoopsInv
    <3>6. container[e] \in {"absent", "Up", "Exited (0)", "Exited (1)"}
      BY <1>2, <1>7, <1>9 DEF TypeOK
    <3>7. e \in 1 .. i \/ e = i + 1
      <4>1. i \in Nat /\ i' = i + 1
        BY <1>3, <3>4
      <4> QED BY <1>9, <4>1
    <3>8. CASE e \in 1 .. i
      BY <3>1, <3>5, <3>8
    <3>9. CASE e = i + 1
      <4>1. container[e] \in {"Exited (0)", "Succeeded"}
        BY <3>4, <3>9
      <4> QED BY <3>1, <3>6, <4>1
    <3> QED BY <3>7, <3>8, <3>9
  <2>2. CASE pc # "endpoints"
    <3>1. i' = 0
      BY <1>4, <1>9, <2>2
    <3>2. e \notin 1 .. i'
      BY <3>1
    <3> QED BY <1>9, <3>2
  <2> QED BY <2>1, <2>2
<1>10. ASSUME pc' \in AfterEndpoints, Manager # "kubecontrol", NEW e \in Started PROVE container'[e] = "Exited (0)"
  <2>1. CASE pc \in AfterEndpoints
    <3>1. container' = container
      BY <1>5, <2>1 DEF StartEndpoint, AfterEndpoints
    <3> QED BY <1>2, <1>10, <2>1, <3>1 DEF LoopsInv
  <2>2. CASE pc \notin AfterEndpoints
    <3>1. pc = "endpoints" /\ i = Cardinality(Started)
      BY <1>2, <1>3, <1>10, <2>2 DEF Leads, AfterEndpoints, DriverInv, Managers, Ends
    <3>2. container' = container
      BY <1>5, <3>1 DEF StartEndpoint
    <3> QED BY <1>2, <1>7, <3>1, <3>2 DEF LoopsInv
  <2> QED BY <2>1, <2>2
<1>11. ASSUME pc' = "workers", NEW w \in 1 .. i', w <= config.workers PROVE pods'[<<"work", w>>] = "Succeeded"
  <2>1. CASE pc = "workers"
    <3> DEFINE status == [v \in 1 .. config.workers |-> pods[<<"work", v>>]]
    <3>1. Finished("workers", config.workers, status, "output") /\ pods' = pods
      BY <2>1, <1>6, DriverAt DEF WaitMistCompletion, StartWorkerMist
    <3> HIDE DEF status
    <3>2. \/ Goto("output")
          \/ i # config.workers /\ status[i + 1] \in {"Exited (0)", "Succeeded"} /\ i' = i + 1
          \/ Goto("stopped")
      BY <3>1, FinishedSteps
    <3>3. i' = i + 1 /\ i # config.workers /\ status[i + 1] \in {"Exited (0)", "Succeeded"}
      BY <1>11, <3>2 DEF Goto
    <3>4. config.workers \in Nat /\ Manager = "mist"
      BY <1>2, <2>1, ConfigType DEF DriverInv, Ends, Managers
    <3>5. w \in 1 .. i => pods[<<"work", w>>] = "Succeeded"
      BY <1>2, <1>11, <2>1 DEF LoopsInv
    <3>6. w \in 1 .. i \/ w = i + 1
      <4>1. i \in Nat /\ i' = i + 1
        BY <1>3, <3>3
      <4> QED BY <1>11, <4>1
    <3>7. ASSUME w = i + 1 PROVE pods[<<"work", w>>] = "Succeeded"
      <4>1. w \in 1 .. config.workers
        BY <1>3, <1>11, <3>4, <3>7
      <4>2. <<"work", w>> \in Pods
        BY <1>2, <3>4, <4>1, PodsOfJob DEF Mqtt
      <4>3. status[w] = pods[<<"work", w>>]
        BY <4>1 DEF status
      <4>4. pods[<<"work", w>>] \in {"absent", "created", "assigned", "Running", "Succeeded", "Failed"}
        BY <1>2, <4>2 DEF TypeOK
      <4> QED BY <3>3, <3>7, <4>3, <4>4
    <3> QED BY <3>1, <3>5, <3>6, <3>7
  <2>2. CASE pc # "workers"
    BY <1>4, <1>11, <2>2
  <2> QED BY <2>1, <2>2
<1>12. ASSUME pc' = "completion", pc # "completion"
       PROVE  /\ i' <= Replicas("work") /\ pending'
              /\ \A k \in 1 .. i' : pods'[Sorted'[k]] = "Succeeded"
  <2>1. Manager # "none"
    BY <1>2, <1>3, <1>12 DEF Leads, DriverInv, Ends
  <2> QED BY <1>2, <1>4, <1>12, <2>1, PodsOfJob
<1>13. ASSUME pc' = "completion", pc = "completion"
       PROVE  /\ i' <= Replicas("work")
              /\ \A k \in 1 .. i' : pods'[Sorted'[k]] = "Succeeded"
              /\ ~pending' => /\ Len(output') = Cardinality(Listed')
                              /\ \A k \in DOMAIN output' : output'[k] = "Succeeded" => pods'[Sorted'[k]] = "Succeeded"
  <2>1. pods' = pods /\ PodsMove
    <3>1. pods' = pods
      BY <1>6, <1>13 DEF StartWorkerMist
    <3> QED BY <1>2, <3>1 DEF PodsMove, TypeOK, Begun
  <2>2. Listed' = Listed /\ Sorted' = Sorted
    BY <1>2, <1>13, <2>1, SortedStays
  <2>3. /\ Listed = PodsOf("work") /\ Manager # "none" /\ (\A p \in Listed : Begun(p))
        /\ Cardinality(Listed) = Replicas("work") /\ Cardinality(Listed) \in Nat
    BY <1>13, ListedAtEnd, PodsOfJob
  <2>4. Sorted \in [1 .. Cardinality(Listed) -> Listed]
    BY <2>3, SortedPods DEF IInv
  <2>5. /\ i <= Replicas("work")
        /\ \A k \in 1 .. i : pods[Sorted[k]] = "Succeeded"
        /\ ~pending => /\ Len(output) = Cardinality(Listed)
                       /\ \A k \in DOMAIN output : output[k] = "Succeeded" => pods[Sorted[k]] = "Succeeded"
    BY <1>2, <1>13 DEF LoopsInv
  <2>6. CASE ListPods("completion")
    <3>1. /\ i' = i /\ output' = [n \in DOMAIN Sorted |-> Phase(Sorted[n])]
      BY <2>6 DEF ListPods
    <3>2. DOMAIN Sorted = 1 .. Cardinality(Listed)
      BY <2>4
    <3>3. DOMAIN output' = 1 .. Cardinality(Listed) /\ Len(output') = Cardinality(Listed)
      BY <2>3, <3>1, <3>2
    <3>4. ASSUME NEW k \in DOMAIN output', output'[k] = "Succeeded" PROVE pods[Sorted[k]] = "Succeeded"
      <4>1. Phase(Sorted[k]) = "Succeeded"
        BY <3>1, <3>2, <3>3, <3>4
      <4> QED BY <4>1 DEF Phase
    <3> QED BY <2>1, <2>2, <2>5, <3>1, <3>3, <3>4
  <2>7. CASE WorkerCompleted
    <3>1. LookAt({"Running"}, {"Succeeded"})
      BY <2>7 DEF WorkerCompleted
    <3>2. /\ ~pending
          /\ \/ /\ ~(i >= Len(output)) /\ output[i + 1] = "Succeeded"
                /\ i' = i + 1 /\ UNCHANGED <<pc, output, pending>>
             \/ pending' = TRUE /\ output' = <<>> /\ UNCHANGED <<pc, i>>
             \/ Goto("raised")
             \/ Goto("stopped")
      <4> DEFINE Done == {"Succeeded"}
      <4>1. Done = {"Succeeded"}
        OBVIOUS
      <4> HIDE DEF Done
      <4>2. LookAt({"Running"}, Done)
        BY <3>1, <4>1
      <4>3. /\ ~pending
            /\ \/ /\ ~(i >= Len(output)) /\ output[i + 1] \in Done
                  /\ i' = i + 1 /\ UNCHANGED <<pc, output, pending>>
               \/ pending' = TRUE /\ output' = <<>> /\ UNCHANGED <<pc, i>>
               \/ Goto("raised")
               \/ Goto("stopped")
        BY <4>2, LookAtSteps
      <4>4. output[i + 1] \in Done => output[i + 1] = "Succeeded"
        BY <4>1
      <4> QED BY <4>3, <4>4
    <3>3. CASE pending' = TRUE /\ i' = i
      BY <2>1, <2>2, <2>5, <3>3
    <3>4. CASE ~(i >= Len(output)) /\ output[i + 1] = "Succeeded" /\ i' = i + 1 /\ UNCHANGED <<output, pending>>
      <4>1. i + 1 \in 1 .. Cardinality(Listed)
        BY <1>3, <2>3, <2>5, <3>2, <3>4
      <4>2. DOMAIN output = 1 .. Cardinality(Listed)
        BY <1>2, <2>5, <3>2, LenProperties DEF TypeOK
      <4>3. pods[Sorted[i + 1]] = "Succeeded"
        BY <2>5, <3>2, <3>4, <4>1, <4>2
      <4>4. \A k \in 1 .. i' : k \in 1 .. i \/ k = i + 1
        BY <1>3, <3>4
      <4> QED BY <2>1, <2>2, <2>3, <2>5, <3>2, <3>4, <4>1, <4>3, <4>4
    <3> QED BY <1>13, <3>2, <3>3, <3>4 DEF Goto
  <2>8. CASE AllCompleted
    BY <1>13, <2>8 DEF AllCompleted, Goto
  <2> QED BY <1>13, <2>6, <2>7, <2>8, DriverAt
<1>14. ASSUME pc' \in {"output", "worker_output", "ended"}, Manager # "none", Replicas("work") = config.workers,
              NEW p \in PodsOf("work")
       PROVE  pods'[p] = "Succeeded"
  <2>1. pods' = pods
    BY <1>6, <1>14 DEF StartWorkerMist, Goto
  <2>2. CASE pc \in {"output", "worker_output", "ended"}
    BY <1>2, <1>14, <2>1, <2>2 DEF LoopsInv
  <2>3. CASE pc = "workers" /\ i = config.workers
    <3>1. PICK w \in 1 .. Replicas("work") : p = <<"work", w>>
      BY <1>14 DEF PodsOf
    <3>2. w \in 1 .. i /\ w <= config.workers
      <4>1. config.workers \in Nat
        BY <1>2, ConfigType
      <4> QED BY <1>14, <2>3, <3>1, <4>1
    <3>3. pods[<<"work", w>>] = "Succeeded"
      BY <1>2, <2>3, <3>2 DEF LoopsInv
    <3> QED BY <2>1, <3>1, <3>3
  <2>4. CASE pc = "completion" /\ i = config.workers
    <3>1. Listed = PodsOf("work") /\ Cardinality(Listed) = Replicas("work")
      BY <1>14, <2>4, ListedAtEnd, PodsOfJob
    <3>2. PICK k \in 1 .. Cardinality(Listed) : Sorted[k] = p
      BY <1>14, <3>1, SortedPods DEF IInv
    <3> QED BY <1>2, <1>14, <2>1, <2>4, <3>1, <3>2 DEF LoopsInv
  <2> QED BY <1>2, <1>3, <1>14, <2>2, <2>3, <2>4 DEF Leads, DriverInv, Ends, Managers
<1> QED BY <1>2, <1>4, <1>8, <1>9, <1>10, <1>11, <1>12, <1>13, <1>14 DEF LoopsInv

LEMMA LoopsStep == IInv /\ [Next]_vars => LoopsInv'
BY NextSteps, DriverLoops, OthersLoops

-------------------------------------------------------------------------------
(* combined.py *)

\* An image is in work or not.
LEMMA InWorkType == \A c : InWork(c) \in {0, 1}
BY DEF InWork

\* combined.py has generated what it has classified or is classifying, and the
\* program is told of its end when at most one image is left.
LEMMA CombinedStep == IInv /\ [Next]_vars => CombinedInv'
<1> SUFFICES ASSUME IInv, [Next]_vars PROVE CombinedInv'
  OBVIOUS
<1>1. Manager' = Manager /\ TypeOK /\ CombinedInv /\ MaxImgs \in Nat
  BY ConfigStays, ApplicationAssumption DEF IInv
<1>2. /\ combined \in [Endpoints -> [generated : 0 .. MaxImgs, processed : 0 .. MaxImgs, working : BOOLEAN]]
      /\ container \in [Endpoints -> {"absent", "Up", "Exited (0)", "Exited (1)"}]
  BY <1>1 DEF TypeOK
<1>3. ASSUME combined' = combined,
             \A e \in Endpoints : container'[e] = "Exited (0)" => container[e] = "Exited (0)" \/ Manager # "none"
      PROVE  CombinedInv'
  BY <1>1, <1>3 DEF CombinedInv
<1>4. CASE Driver
  BY <1>1, <1>2, <1>3, <1>4, DriverFrame DEF StartEndpoint
<1>5. CASE Others
  <2>1. ASSUME UNCHANGED <<combined, container>> PROVE CombinedInv'
    BY <1>3, <2>1
  <2>2. CASE \E n \in 1 .. config.workers + 1 : NodeReady(n)
    BY <2>1, <2>2 DEF NodeReady, programs
  <2>3. CASE \E p \in Pods : PodSteps(p) \/ PodFails(p)
    BY <2>1, <2>3 DEF PodSteps, PodFails, PodAppears, PodAssigned, PodRuns, PodSleeps, PodRemoved, PodBecomes
  <2>4. CASE \E w \in Workers : Main(w) \/ GetItem(w) \/ Tflite(w)
    BY <2>1, <2>4 DEF Main, GetItem, Tflite, WorkerSubscribes, AllDisconnected, Terminate, ClientDisconnected, Reply,
       Outside
  <2>5. ASSUME NEW e \in Endpoints,
               PublisherSubscribes(e) \/ SendsAll(e) \/ Combine(e) \/ Classifies(e) \/ EndpointFails(e)
        PROVE  CombinedInv'
    <3>1. CASE PublisherSubscribes(e) \/ Send(e)
      BY <2>1, <3>1 DEF PublisherSubscribes, Send, Outside
    <3>2. CASE AllReceived(e)
      <4>1. combined' = combined /\ Manager # "none"
        BY <3>2 DEF AllReceived, Publishing, Mqtt, Outside
      <4> QED BY <1>3, <4>1
    <3>3. CASE EndpointFails(e)
      <4>1. combined' = combined /\ container' = [container EXCEPT ![e] = "Exited (1)"]
        BY <3>3 DEF EndpointFails, programs
      <4> QED BY <1>2, <1>3, <4>1
    <3> DEFINE c == combined[e]
               States == [generated : 0 .. MaxImgs, processed : 0 .. MaxImgs, working : BOOLEAN]
    <3> HIDE DEF States
    <3>4. c \in States
      BY <1>2 DEF States
    <3>5. c.generated \in 0 .. MaxImgs /\ c.processed \in 0 .. MaxImgs
      BY <3>4 DEF States
    <3>6. c.processed + InWork(c) <= c.generated
      BY <1>1 DEF CombinedInv
    <3>7. CASE QueueEmpty(e)
      <4>1. /\ combined' = combined /\ container' = [container EXCEPT ![e] = "Exited (0)"]
            /\ c.generated = MaxImgs /\ Queued(e) = 0
        BY <3>7 DEF QueueEmpty, programs
      <4>2. Queued(e) = c.generated - c.processed - InWork(c)
        BY DEF Queued, InWork
      <4> HIDE DEF c
      <4>3. c.processed >= MaxImgs - 1
        <5>1. MaxImgs - c.processed - InWork(c) = 0
          BY <4>1, <4>2
        <5>2. InWork(c) \in {0, 1} /\ MaxImgs \in Nat
          BY <1>1, InWorkType
        <5> QED BY <3>5, <5>1, <5>2
      <4>4. \A x \in Endpoints : container'[x] = "Exited (0)" => x = e \/ container[x] = "Exited (0)"
        BY <1>2, <4>1
      <4> QED BY <1>1, <4>1, <4>3, <4>4 DEF CombinedInv, c
    <3>8. ASSUME NEW after, CombinedBecomes(e, after), after.processed \in Int, c.processed <= after.processed,
                 after.processed + InWork(after) <= after.generated
          PROVE  CombinedInv'
      <4>1. combined' = [combined EXCEPT ![e] = after] /\ container' = container
        BY <3>8 DEF CombinedBecomes
      <4>2. \A x \in Endpoints : combined'[x] = IF x = e THEN after ELSE combined[x]
        BY <1>2, <4>1
      <4>3. ASSUME Manager = "none", container[e] = "Exited (0)" PROVE after.processed >= MaxImgs - 1
        <5>1. c.processed >= MaxImgs - 1
          BY <1>1, <4>3 DEF CombinedInv
        <5> QED BY <1>1, <3>5, <3>8, <5>1
      <4>4. ASSUME NEW x \in Endpoints
            PROVE  /\ combined'[x].processed + InWork(combined'[x]) <= combined'[x].generated
                   /\ Manager = "none" /\ container[x] = "Exited (0)" => combined'[x].processed >= MaxImgs - 1
        <5>1. CASE x = e
          <6>1. combined'[x] = after
            BY <4>2, <5>1
          <6> QED BY <3>8, <4>3, <5>1, <6>1
        <5>2. CASE x # e
          <6>1. combined'[x] = combined[x]
            BY <4>2, <5>2
          <6> QED BY <1>1, <6>1 DEF CombinedInv
        <5> QED BY <5>1, <5>2
      <4>5. \A x : InWork(combined[x])' = InWork(combined'[x])
        BY DEF InWork
      <4> QED BY <1>1, <4>1, <4>4, <4>5 DEF CombinedInv
    <3>9. CASE Generate(e)
      <4> DEFINE state == [c EXCEPT !.generated = @ + 1]
      <4>1. CombinedBecomes(e, state) /\ c.generated < MaxImgs
        BY <3>9 DEF Generate
      <4>2. state.generated = c.generated + 1 /\ state.processed = c.processed /\ state.working = c.working
        BY <3>4 DEF States
      <4>3. InWork(state) = InWork(c)
        BY <4>2 DEF InWork
      <4> HIDE DEF c, state
      <4> QED BY <3>5, <3>6, <3>8, <4>1, <4>2, <4>3, InWorkType
    <3>10. CASE Take(e)
      <4> DEFINE state == [c EXCEPT !.working = TRUE]
      <4>1. CombinedBecomes(e, state) /\ ~c.working /\ Queued(e) > 0
        BY <3>10 DEF Take
      <4>2. state.generated = c.generated /\ state.processed = c.processed /\ state.working
        BY <3>4 DEF States
      <4>3. InWork(state) = 1 /\ InWork(c) = 0
        BY <4>1, <4>2 DEF InWork
      <4>4. Queued(e) = c.generated - c.processed - InWork(c)
        BY DEF Queued, InWork
      <4> HIDE DEF c, state
      <4> QED BY <3>5, <3>8, <4>1, <4>2, <4>3, <4>4
    <3>11. CASE Classify(e)
      <4> DEFINE state == [c EXCEPT !.working = FALSE, !.processed = @ + 1]
      <4>1. CombinedBecomes(e, state) /\ c.working
        BY <3>11 DEF Classify
      <4>2. state.generated = c.generated /\ state.processed = c.processed + 1 /\ ~state.working
        BY <3>4 DEF States
      <4>3. InWork(state) = 0 /\ InWork(c) = 1
        BY <4>1, <4>2 DEF InWork
      <4> HIDE DEF c, state
      <4> QED BY <3>5, <3>6, <3>8, <4>1, <4>2, <4>3
    <3> QED BY <2>5, <3>1, <3>2, <3>3, <3>7, <3>9, <3>10, <3>11 DEF SendsAll, Combine, Classifies
  <2> QED BY <1>5, <2>1, <2>2, <2>3, <2>4, <2>5 DEF Others, vars, programs
<1> QED BY <1>4, <1>5, NextSteps

-------------------------------------------------------------------------------
(* Messages *)

\* What a queue with one more item holds, and one with one item less.
LEMMA AppendElements ==
    ASSUME NEW T, NEW q \in Seq(T), NEW x \in T, x \notin Elements(q),
           \A j, k \in DOMAIN q : q[j] = q[k] => j = k
    PROVE  /\ Elements(Append(q, x)) = Elements(q) \cup {x}
           /\ \A j, k \in DOMAIN Append(q, x) : Append(q, x)[j] = Append(q, x)[k] => j = k
<1> DEFINE a == Append(q, x)
<1>1. /\ Len(q) \in Nat /\ DOMAIN q = 1 .. Len(q) /\ DOMAIN a = 1 .. Len(q) + 1
      /\ \A k \in 1 .. Len(q) : a[k] = q[k]
      /\ a[Len(q) + 1] = x
  BY AppendProperties, LenProperties
<1> HIDE DEF a
<1>2. \A k \in DOMAIN a : (k \in DOMAIN q /\ a[k] = q[k]) \/ (k = Len(q) + 1 /\ a[k] = x)
  BY <1>1
<1>3. Elements(a) = Elements(q) \cup {x}
  <2>1. Elements(a) \subseteq Elements(q) \cup {x}
    BY <1>2 DEF Elements
  <2>2. Elements(q) \cup {x} \subseteq Elements(a)
    <3>1. \A k \in DOMAIN q : k \in DOMAIN a /\ a[k] = q[k]
      BY <1>1
    <3>2. Len(q) + 1 \in DOMAIN a
      BY <1>1
    <3> QED BY <1>1, <3>1, <3>2 DEF Elements
  <2> QED BY <2>1, <2>2
<1>4. \A j, k \in DOMAIN a : a[j] = a[k] => j = k
  BY <1>2 DEF Elements
<1> QED BY <1>3, <1>4 DEF a

LEMMA TailElements ==
    ASSUME NEW T, NEW q \in Seq(T), q # <<>>,
           \A j, k \in DOMAIN q : q[j] = q[k] => j = k
    PROVE  /\ Head(q) \in T /\ Tail(q) \in Seq(T)
           /\ Elements(Tail(q)) = Elements(q) \ {Head(q)} /\ Head(q) \in Elements(q)
           /\ \A j, k \in DOMAIN Tail(q) : Tail(q)[j] = Tail(q)[k] => j = k
<1> DEFINE t == Tail(q)
<1>1. /\ Len(q) \in Nat \ {0} /\ DOMAIN q = 1 .. Len(q) /\ Head(q) = q[1] /\ Head(q) \in T
      /\ t \in Seq(T) /\ DOMAIN t = 1 .. Len(q) - 1
      /\ \A k \in 1 .. Len(q) - 1 : t[k] = q[k + 1]
  <2>1. Len(q) \in Nat /\ Len(q) # 0 /\ DOMAIN q = 1 .. Len(q)
    BY EmptySeq, LenProperties
  <2>2. Head(q) = q[1] /\ Head(q) \in T /\ t \in Seq(T) /\ Len(t) = Len(q) - 1
    BY <2>1, HeadTailProperties
  <2> QED BY <2>1, <2>2, LenProperties
<1> HIDE DEF t
<1>2. Elements(t) = Elements(q) \ {Head(q)}
  <2>1. \A k \in DOMAIN t : k + 1 \in DOMAIN q /\ k + 1 # 1 /\ t[k] = q[k + 1]
    BY <1>1
  <2>2. \A k \in DOMAIN q : k # 1 => k - 1 \in DOMAIN t /\ t[k - 1] = q[k]
    BY <1>1
  <2>3. 1 \in DOMAIN q
    BY <1>1
  <2>4. \A y \in Elements(t) : y \in Elements(q) \ {Head(q)}
    BY <1>1, <2>1, <2>3 DEF Elements
  <2>5. \A y \in Elements(q) \ {Head(q)} : y \in Elements(t)
    BY <1>1, <2>2 DEF Elements
  <2> QED BY <2>4, <2>5
<1>3. \A j, k \in DOMAIN t : t[j] = t[k] => j = k
  <2> SUFFICES ASSUME NEW j \in DOMAIN t, NEW k \in DOMAIN t, t[j] = t[k] PROVE j = k
    OBVIOUS
  <2>1. j + 1 = k + 1
    BY <1>1
  <2> QED BY <1>1, <2>1
<1>4. Head(q) \in Elements(q)
  BY <1>1 DEF Elements
<1> QED BY <1>1, <1>2, <1>3, <1>4 DEF t

\* The types of what a subscriber and a publisher keep.
States == {"absent", "connecting", "subscribed", "closing", "ended"}

LEMMA ProgramTypes ==
    ASSUME TypeOK
    PROVE  /\ MaxImgs \in Nat
           /\ \A e \in Endpoints :
                 /\ publisher[e].sent \in Nat /\ publisher[e].sent \in 0 .. MaxImgs + 1
                 /\ publisher[e].RECEIVED \in Nat /\ publisher[e].RECEIVED \in 0 .. MaxImgs
           /\ \A w \in Workers :
                 /\ subscriber[w].state \in States /\ subscriber[w].work_queue \in Seq(Items)
                 /\ subscriber[w].in_work \subseteq Items
                 /\ subscriber[w].endpoints_connected \in 0 .. config.endpoints
                 /\ subscriber[w].endpoints_connected \in Nat
                 /\ subscriber[w].images_processed \in Nat
<1>1. MaxImgs \in Nat
  BY ApplicationAssumption
<1>2. ASSUME NEW e \in Endpoints
      PROVE  publisher[e].sent \in 0 .. MaxImgs + 1 /\ publisher[e].RECEIVED \in 0 .. MaxImgs
  BY DEF TypeOK
<1>3. ASSUME NEW w \in Workers
      PROVE  /\ subscriber[w].state \in States /\ subscriber[w].work_queue \in Seq(Items)
             /\ subscriber[w].in_work \subseteq Items
             /\ subscriber[w].endpoints_connected \in 0 .. config.endpoints
             /\ subscriber[w].images_processed \in Nat
  BY DEF TypeOK, States
<1>4. config.endpoints \in Nat
  <2>1. config \in Configs
    BY DEF TypeOK
  <2> QED BY <2>1, ConfigType
<1>5. \A n \in 0 .. config.endpoints : n \in Nat
  BY <1>4
<1>6. \A e \in Endpoints : publisher[e].sent \in Nat /\ publisher[e].RECEIVED \in Nat
  BY <1>1, <1>2
<1> QED BY <1>1, <1>2, <1>3, <1>5, <1>6

\* A step after which a subscriber holds no more than before, and is right.
Keeps(w) ==
    /\ Tidy(subscriber'[w])
    /\ Held(subscriber'[w]) \subseteq Held(subscriber[w])
    /\ subscriber'[w].state # "absent" => w <= config.workers /\ Begun(<<"work", w>>)'
    /\ subscriber'[w].state \in {"connecting", "subscribed"} =>
          Cardinality(Coming(w)') <= subscriber'[w].endpoints_connected
    /\ subscriber'[w].state = "closing" =>
          subscriber'[w].work_queue = <<>> /\ \A e \in Of(w) : publisher[e].sent = MaxImgs + 1

\* What has been sent stays, and nothing is answered that was not unanswered.
SentStays ==
    \A e \in Started :
        /\ publisher'[e].sent = publisher[e].sent /\ publisher'[e].RECEIVED \in Nat
        /\ publisher'[e].RECEIVED + Cardinality(Unanswered(e)') <= publisher[e].RECEIVED + Cardinality(Unanswered(e))

LEMMA Primes ==
    \A w : /\ Held(subscriber[w])' = Held(subscriber'[w])
           /\ Tidy(subscriber[w])' <=> Tidy(subscriber'[w])
BY DEF Held, Tidy, Elements

\* No more images are unanswered than there are.
LEMMA UnansweredType ==
    \A e : /\ IsFiniteSet(Unanswered(e)) /\ Cardinality(Unanswered(e)) \in Nat
           /\ IsFiniteSet(Unanswered(e)') /\ Cardinality(Unanswered(e)') \in Nat
<1>1. IsFiniteSet(1 .. MaxImgs)
  BY ApplicationAssumption, FS_Interval
<1>2. \A e : Unanswered(e) \subseteq 1 .. MaxImgs /\ Unanswered(e)' \subseteq 1 .. MaxImgs
  BY DEF Unanswered
<1> QED BY <1>1, <1>2, FS_Subset, FS_CardinalityType

LEMMA MessagesKept ==
    ASSUME IInv, [Next]_vars, Mqtt, SentStays, \A w \in Workers : Keeps(w)
    PROVE  MessagesInv'
<1>1. /\ config' = config /\ Mqtt' /\ Started' = Started /\ (\A w : Of(w)' = Of(w)) /\ MessagesInv
      /\ config \in Configs
  BY ConfigStays DEF IInv, TypeOK
<1>2. ASSUME NEW w \in Workers
      PROVE  /\ Tidy(subscriber[w])'
             /\ \A x \in Held(subscriber[w])' :
                   /\ x[1] \in Of(w)' /\ x[2] <= publisher'[x[1]].sent
                   /\ x[2] = 0 => publisher'[x[1]].sent = MaxImgs + 1
             /\ subscriber'[w].state # "absent" => w <= config'.workers /\ Begun(<<"work", w>>)'
             /\ subscriber'[w].state \in {"connecting", "subscribed"} =>
                   Cardinality(Coming(w)') <= subscriber'[w].endpoints_connected
             /\ subscriber'[w].state = "closing" =>
                   subscriber'[w].work_queue = <<>> /\ \A e \in Of(w)' : publisher'[e].sent = MaxImgs + 1
  <2>1. Keeps(w) /\ \A e \in Of(w) : publisher'[e].sent = publisher[e].sent
    BY DEF SentStays, Of
  <2>2. \A x \in Held(subscriber[w]) :
            /\ x[1] \in Of(w) /\ x[2] <= publisher[x[1]].sent
            /\ x[2] = 0 => publisher[x[1]].sent = MaxImgs + 1
    BY <1>1 DEF MessagesInv
  <2> QED BY <1>1, <2>1, <2>2, Primes DEF Keeps
<1>3. ASSUME NEW e \in Started
      PROVE  /\ publisher'[e].RECEIVED + Cardinality(Unanswered(e)') <= publisher'[e].sent
             /\ publisher'[e].RECEIVED + Cardinality(Unanswered(e)') <= MaxImgs
  <2>1. Started \subseteq Endpoints
    BY <1>1, StartedEndpoints
  <2>2. publisher[e].RECEIVED \in Nat /\ publisher[e].sent \in Nat /\ MaxImgs \in Nat
    BY <2>1, ProgramTypes DEF IInv
  <2>3. /\ publisher[e].RECEIVED + Cardinality(Unanswered(e)) <= publisher[e].sent
        /\ publisher[e].RECEIVED + Cardinality(Unanswered(e)) <= MaxImgs
    BY <1>1 DEF MessagesInv
  <2>4. /\ publisher'[e].sent = publisher[e].sent /\ publisher'[e].RECEIVED \in Nat
        /\ publisher'[e].RECEIVED + Cardinality(Unanswered(e)') <= publisher[e].RECEIVED + Cardinality(Unanswered(e))
    BY DEF SentStays
  <2>5. Cardinality(Unanswered(e)) \in Nat /\ Cardinality(Unanswered(e)') \in Nat
    BY UnansweredType
  <2> QED BY <2>2, <2>3, <2>4, <2>5
<1> QED BY <1>1, <1>2, <1>3 DEF MessagesInv

\* A subscriber that does not change stays right.
LEMMA SameKeeps ==
    ASSUME IInv, [Next]_vars, Mqtt, PodsMove, NEW w \in Workers, subscriber'[w] = subscriber[w],
           \A e \in Endpoints : publisher'[e].sent = publisher[e].sent
    PROVE  Keeps(w)
<1>1. /\ Started' = Started /\ Of(w)' = Of(w) /\ config \in Configs /\ Started \subseteq Endpoints
      /\ Manager # "none"
  BY ConfigStays, StartedEndpoints DEF IInv, TypeOK, Mqtt
<1>2. /\ Tidy(subscriber[w])
      /\ subscriber[w].state # "absent" => w <= config.workers /\ Begun(<<"work", w>>)
      /\ subscriber[w].state \in {"connecting", "subscribed"} =>
            Cardinality(Coming(w)) <= subscriber[w].endpoints_connected
      /\ subscriber[w].state = "closing" =>
            subscriber[w].work_queue = <<>> /\ \A e \in Of(w) : publisher[e].sent = MaxImgs + 1
  BY DEF IInv, MessagesInv
<1>3. Coming(w)' = Coming(w)
  <2>1. \A e \in Of(w) : publisher'[e].sent = publisher[e].sent
    BY <1>1 DEF Of
  <2>2. Held(subscriber[w])' = Held(subscriber[w])
    BY Primes
  <2> QED BY <1>1, <2>1, <2>2 DEF Coming
<1>4. ASSUME w <= config.workers, Begun(<<"work", w>>) PROVE Begun(<<"work", w>>)'
  <2>1. w \in Nat \ {0}
    BY ApplicationAssumption DEF Workers
  <2>2. <<"work", w>> \in Pods
    BY <1>1, <1>4, <2>1, PodsOfJob, ConfigType
  <2> QED BY <1>4, <2>2 DEF PodsMove
<1> QED BY <1>2, <1>3, <1>4 DEF Keeps

\* Steps in which a subscriber changes and nothing is sent or answered.
LEMMA SubscriberKeeps ==
    ASSUME IInv, [Next]_vars, Mqtt, \A w \in Workers : Keeps(w),
           \A e \in Endpoints : publisher'[e].sent = publisher[e].sent /\ publisher'[e].RECEIVED = publisher[e].RECEIVED
    PROVE  MessagesInv'
<1>1. /\ config' = config /\ Started' = Started /\ (\A w : Of(w)' = Of(w)) /\ (\A e : RemoteOf(e)' = RemoteOf(e))
      /\ config \in Configs /\ Started \subseteq Endpoints /\ Manager # "none"
  BY ConfigStays, StartedEndpoints DEF IInv, TypeOK, Mqtt
<1>2. \A e \in Started : RemoteOf(e) \in Workers
  BY <1>1, StartedEndpoints, ConfigType
<1>3. SentStays
  <2> SUFFICES ASSUME NEW e \in Started
               PROVE  /\ publisher'[e].sent = publisher[e].sent /\ publisher'[e].RECEIVED \in Nat
                      /\ publisher'[e].RECEIVED + Cardinality(Unanswered(e)') <=
                            publisher[e].RECEIVED + Cardinality(Unanswered(e))
    BY DEF SentStays
  <2>1. /\ publisher'[e].sent = publisher[e].sent /\ publisher'[e].RECEIVED = publisher[e].RECEIVED
        /\ publisher[e].RECEIVED \in Nat
    BY <1>1, ProgramTypes DEF IInv
  <2>2. Unanswered(e)' \subseteq Unanswered(e)
    <3>1. Held(subscriber'[RemoteOf(e)]) \subseteq Held(subscriber[RemoteOf(e)])
      BY <1>2 DEF Keeps
    <3>2. Held(subscriber[RemoteOf(e)])' = Held(subscriber'[RemoteOf(e)])
      BY <1>1 DEF Held, Elements
    <3> QED BY <3>1, <3>2 DEF Unanswered
  <2>3. Cardinality(Unanswered(e)') <= Cardinality(Unanswered(e))
    BY <2>2, UnansweredType, FS_Subset
  <2> QED BY <2>1, <2>3, UnansweredType
<1> QED BY <1>3, MessagesKept

\* No more endpoints have yet to end than before, and never more than are sent
\* to the worker.
LEMMA ComingShrinks ==
    ASSUME IInv, [Next]_vars, Mqtt, NEW w \in Workers,
           \A e \in Endpoints : publisher'[e].sent = publisher[e].sent,
           Held(subscriber'[w]) \subseteq Held(subscriber[w])
    PROVE  /\ Coming(w)' \subseteq Coming(w) /\ IsFiniteSet(Coming(w))
           /\ Cardinality(Coming(w)) \in Nat /\ Cardinality(Coming(w)') \in Nat
           /\ Cardinality(Coming(w)') <= Cardinality(Coming(w))
           /\ Cardinality(Coming(w)') <= ENDPOINT_CONNECTED /\ ENDPOINT_CONNECTED \in 0 .. config.endpoints
           /\ config.endpoints \in Nat
<1>1. config \in Configs /\ config' = config /\ Started' = Started /\ Of(w)' = Of(w)
  BY ConfigStays DEF IInv, TypeOK
<1>2. /\ Started \subseteq Endpoints /\ IsFiniteSet(Of(w)) /\ Cardinality(Of(w)) <= ENDPOINT_CONNECTED
      /\ ENDPOINT_CONNECTED \in 0 .. config.endpoints /\ config.endpoints \in Nat
  BY <1>1, StartedEndpoints, ConfigType
<1>3. Coming(w)' \subseteq Coming(w) /\ Coming(w) \subseteq Of(w)
  <2>1. Coming(w) \subseteq Of(w) /\ Coming(w)' \subseteq Of(w)
    BY <1>1 DEF Coming
  <2>2. \A e \in Of(w) : publisher'[e].sent = publisher[e].sent
    BY <1>2 DEF Of
  <2>3. \A e \in Coming(w)' : publisher'[e].sent <= MaxImgs \/ <<e, 0>> \in Held(subscriber'[w])
    BY Primes DEF Coming
  <2> QED BY <2>1, <2>2, <2>3 DEF Coming
<1>4. /\ IsFiniteSet(Coming(w)) /\ Cardinality(Coming(w)) <= Cardinality(Of(w))
      /\ IsFiniteSet(Coming(w)') /\ Cardinality(Coming(w)') <= Cardinality(Coming(w))
  BY <1>2, <1>3, FS_Subset
<1>5. Cardinality(Coming(w)) \in Nat /\ Cardinality(Coming(w)') \in Nat /\ Cardinality(Of(w)) \in Nat
  BY <1>2, <1>4, FS_CardinalityType
<1> QED BY <1>2, <1>3, <1>4, <1>5

\* What a subscriber has.
Subscribers == [state : States, work_queue : Seq(Items), in_work : SUBSET Items,
                endpoints_connected : 0 .. config.endpoints, images_processed : Nat]

LEMMA SubscriberRecords == TypeOK => subscriber \in [Workers -> Subscribers]
BY DEF TypeOK, Subscribers, States

\* A subscriber goes on to its next state.
LEMMA StateKeeps ==
    ASSUME IInv, [Next]_vars, Mqtt, NEW w \in Workers, NEW state,
           subscriber' = [subscriber EXCEPT ![w].state = state],
           \A e \in Endpoints : publisher'[e].sent = publisher[e].sent,
           w <= config.workers /\ Begun(<<"work", w>>)',
           state \in {"connecting", "subscribed"} => subscriber[w].state \in {"connecting", "subscribed"},
           state = "closing" => /\ subscriber[w].work_queue = <<>>
                                /\ \A e \in Of(w) : publisher[e].sent = MaxImgs + 1
    PROVE  Keeps(w) /\ subscriber'[w].state = state
<1>1. /\ subscriber'[w].state = state /\ subscriber'[w].work_queue = subscriber[w].work_queue
      /\ subscriber'[w].in_work = subscriber[w].in_work
      /\ subscriber'[w].endpoints_connected = subscriber[w].endpoints_connected
  BY SubscriberRecords DEF IInv, Subscribers
<1>2. /\ Tidy(subscriber[w])
      /\ subscriber[w].state \in {"connecting", "subscribed"} =>
              Cardinality(Coming(w)) <= subscriber[w].endpoints_connected
  BY DEF IInv, MessagesInv
<1>3. Held(subscriber'[w]) = Held(subscriber[w]) /\ Tidy(subscriber'[w])
  BY <1>1, <1>2 DEF Held, Tidy
<1>4. Cardinality(Coming(w)) \in Nat /\ Cardinality(Coming(w)') <= Cardinality(Coming(w))
      /\ Cardinality(Coming(w)') \in Nat
  BY <1>3, ComingShrinks
<1>5. subscriber[w].endpoints_connected \in Nat
  BY ProgramTypes DEF IInv
<1>6. state \in {"connecting", "subscribed"} => Cardinality(Coming(w)') <= subscriber'[w].endpoints_connected
  BY <1>1, <1>2, <1>4, <1>5
<1> QED BY <1>1, <1>3, <1>6 DEF Keeps

\* A pod and its subscriber start.
LEMMA LaunchKeeps ==
    ASSUME IInv, [Next]_vars, Mqtt, NEW w \in Workers, subscriber'[w] = Launched,
           \A e \in Endpoints : publisher'[e].sent = publisher[e].sent,
           w <= config.workers /\ Begun(<<"work", w>>)'
    PROVE  Keeps(w)
<1>1. /\ subscriber'[w].state = "connecting" /\ subscriber'[w].work_queue = <<>> /\ subscriber'[w].in_work = {}
      /\ subscriber'[w].endpoints_connected = ENDPOINT_CONNECTED
  BY DEF Launched
<1>2. DOMAIN subscriber'[w].work_queue = {}
  BY <1>1
<1>3. Held(subscriber'[w]) = {} /\ Tidy(subscriber'[w])
  BY <1>1, <1>2 DEF Held, Tidy, Elements
<1>4. Cardinality(Coming(w)') <= ENDPOINT_CONNECTED
  BY <1>3, ComingShrinks
<1> QED BY <1>1, <1>3, <1>4 DEF Keeps

\* A process of the Pool takes the next item.
LEMMA GetItemKeeps ==
    ASSUME IInv, [Next]_vars, Mqtt, NEW w \in Workers, GetItem(w)
    PROVE  Keeps(w) /\ \A v \in Workers : v # w => subscriber'[v] = subscriber[v]
<1> DEFINE s == subscriber[w]
<1>1. /\ s.state \in {"connecting", "subscribed", "closing"} /\ s.work_queue # <<>> /\ publisher' = publisher
      /\ s.work_queue \in Seq(Items) /\ s.in_work \subseteq Items
      /\ UNCHANGED pods
  BY ProgramTypes DEF GetItem, Processing, Outside, IInv
<1>2. /\ subscriber'[w].state = s.state /\ subscriber'[w].endpoints_connected = s.endpoints_connected
      /\ subscriber'[w].work_queue = Tail(s.work_queue)
      /\ subscriber'[w].in_work = s.in_work \cup {Head(s.work_queue)}
      /\ \A v \in Workers : v # w => subscriber'[v] = subscriber[v]
  <2>1. subscriber \in [Workers -> Subscribers]
    BY SubscriberRecords DEF IInv
  <2> QED BY <2>1 DEF GetItem, Subscribers
<1>3. /\ Tidy(s) /\ w <= config.workers /\ Begun(<<"work", w>>)
      /\ s.state # "closing"
      /\ Cardinality(Coming(w)) <= s.endpoints_connected
  BY <1>1 DEF IInv, MessagesInv
<1>4. Begun(<<"work", w>>)'
  BY <1>1, <1>3 DEF Begun
<1>5. /\ Elements(Tail(s.work_queue)) = Elements(s.work_queue) \ {Head(s.work_queue)}
      /\ Head(s.work_queue) \in Elements(s.work_queue)
      /\ \A j, k \in DOMAIN Tail(s.work_queue) : Tail(s.work_queue)[j] = Tail(s.work_queue)[k] => j = k
  BY <1>1, <1>3, TailElements DEF Tidy
<1>6. Held(subscriber'[w]) = Held(s) /\ Tidy(subscriber'[w])
  <2>1. Elements(s.work_queue) \cap s.in_work = {}
    BY <1>3 DEF Tidy
  <2> QED BY <1>2, <1>5, <2>1 DEF Held, Tidy
<1>7. Cardinality(Coming(w)') \in Nat /\ Cardinality(Coming(w)') <= Cardinality(Coming(w))
      /\ Cardinality(Coming(w)) \in Nat
  BY <1>1, <1>6, ComingShrinks
<1>8. s.endpoints_connected \in Nat
  BY ProgramTypes DEF IInv
<1>9. Cardinality(Coming(w)') <= subscriber'[w].endpoints_connected
  BY <1>2, <1>3, <1>7, <1>8
<1> QED BY <1>1, <1>2, <1>3, <1>4, <1>6, <1>9 DEF Keeps

\* What is not sent is not counted as sent.
LEMMA SentUnchanged ==
    ASSUME TypeOK, NEW w \in Workers, NEW item, ClientDisconnected(w, item) \/ Reply(w, item)
    PROVE  /\ \A e \in Endpoints : publisher'[e].sent = publisher[e].sent
           /\ \A e \in Endpoints : /\ publisher'[e].RECEIVED = publisher[e].RECEIVED
                                         \/ (Reply(w, item) /\ e = item[1]
                                              /\ publisher'[e].RECEIVED = publisher[e].RECEIVED + 1)
<1>1. publisher \in [Endpoints -> [subscribed : BOOLEAN, sent : 0 .. MaxImgs + 1, RECEIVED : 0 .. MaxImgs]]
  BY DEF TypeOK
<1>2. CASE publisher' = publisher
  BY <1>2
<1>3. CASE Reply(w, item) /\ publisher' = [publisher EXCEPT ![item[1]].RECEIVED = @ + 1]
  BY <1>1, <1>3
<1> QED BY <1>2, <1>3 DEF ClientDisconnected, Reply

\* A process of the Pool has dealt with an item: of the end of an endpoint the
\* count is one less, and so are the endpoints that have yet to end.
LEMMA DoneKeeps ==
    ASSUME IInv, [Next]_vars, Mqtt, NEW w \in Workers, NEW item, ClientDisconnected(w, item) \/ Reply(w, item)
    PROVE  /\ Keeps(w) /\ Held(subscriber'[w]) = Held(subscriber[w]) \ {item}
           /\ item \in Held(subscriber[w]) /\ item \in Items
           /\ ClientDisconnected(w, item) => subscriber[w].endpoints_connected > 0
           /\ \A v \in Workers : v # w => subscriber'[v] = subscriber[v]
<1> DEFINE s == subscriber[w]
<1>1. /\ s.state \in {"connecting", "subscribed", "closing"} /\ item \in s.in_work
      /\ ClientDisconnected(w, item) => s.state # "closing" /\ item[2] = 0
      /\ s.work_queue \in Seq(Items) /\ s.in_work \subseteq Items /\ s.endpoints_connected \in Nat
      /\ UNCHANGED pods
  BY ProgramTypes DEF ClientDisconnected, Reply, Processing, Outside, IInv
<1>2. /\ subscriber'[w].state = s.state /\ subscriber'[w].work_queue = s.work_queue
      /\ subscriber'[w].in_work = s.in_work \ {item}
      /\ \/ Reply(w, item) /\ subscriber'[w].endpoints_connected = s.endpoints_connected
         \/ ClientDisconnected(w, item) /\ subscriber'[w].endpoints_connected = s.endpoints_connected - 1
      /\ \A v \in Workers : v # w => subscriber'[v] = subscriber[v]
  <2>1. subscriber \in [Workers -> Subscribers]
    BY SubscriberRecords DEF IInv
  <2>2. CASE ClientDisconnected(w, item)
    BY <2>1, <2>2 DEF ClientDisconnected, Subscribers
  <2>3. CASE Reply(w, item)
    BY <2>1, <2>3 DEF Reply, Subscribers
  <2> QED BY <2>2, <2>3
<1>3. /\ Tidy(s) /\ w <= config.workers /\ Begun(<<"work", w>>)'
      /\ item[1] \in Of(w) /\ item[2] <= publisher[item[1]].sent
      /\ item[2] = 0 => publisher[item[1]].sent = MaxImgs + 1
      /\ s.state # "closing" => Cardinality(Coming(w)) <= s.endpoints_connected
      /\ s.state = "closing" => s.work_queue = <<>> /\ \A e \in Of(w) : publisher[e].sent = MaxImgs + 1
  <2>1. item \in Held(s)
    BY <1>1 DEF Held
  <2> QED BY <1>1, <2>1 DEF IInv, MessagesInv, Begun
<1>4. Held(subscriber'[w]) = Held(s) \ {item} /\ Tidy(subscriber'[w])
  BY <1>1, <1>2, <1>3 DEF Held, Tidy
<1>5. \A e \in Endpoints : publisher'[e].sent = publisher[e].sent
  BY SentUnchanged DEF IInv
<1>6. /\ Cardinality(Coming(w)') \in Nat /\ Cardinality(Coming(w)') <= Cardinality(Coming(w))
      /\ Cardinality(Coming(w)) \in Nat /\ Coming(w)' \subseteq Coming(w) /\ IsFiniteSet(Coming(w))
  BY <1>4, <1>5, ComingShrinks
<1>7. ASSUME ClientDisconnected(w, item)
      PROVE  Cardinality(Coming(w)') < Cardinality(Coming(w))
  <2> DEFINE e == item[1]
  <2>1. item = <<e, 0>>
    BY <1>1, <1>7 DEF Items
  <2>2. e \in Coming(w)
    BY <1>1, <1>3, <2>1 DEF Coming, Held
  <2>3. e \notin Coming(w)'
    <3>1. e \in Endpoints
      <4>1. config \in Configs
        BY DEF IInv, TypeOK
      <4> QED BY <1>3, <4>1, StartedEndpoints DEF Of
    <3>2. publisher'[e].sent = MaxImgs + 1 /\ MaxImgs \in Nat
      BY <1>1, <1>3, <1>5, <1>7, <3>1, ProgramTypes DEF IInv
    <3>3. <<e, 0>> \notin Held(subscriber[w])'
      BY <1>4, <2>1, Primes
    <3> QED BY <3>2, <3>3 DEF Coming
  <2>4. Coming(w)' # Coming(w)
    BY <2>2, <2>3
  <2>5. Cardinality(Coming(w)') # Cardinality(Coming(w))
    BY <1>6, <2>4, FS_Subset
  <2> QED BY <1>6, <2>5
<1>8. ClientDisconnected(w, item) => s.endpoints_connected > 0
  BY <1>1, <1>3, <1>6, <1>7
<1>9. s.state # "closing" => Cardinality(Coming(w)') <= subscriber'[w].endpoints_connected
  BY <1>1, <1>2, <1>3, <1>6, <1>7
<1>10. item \in Held(s) /\ item \in Items
  BY <1>1 DEF Held
<1> QED BY <1>1, <1>2, <1>3, <1>4, <1>8, <1>9, <1>10 DEF Keeps

\* A reply is counted, if at all, when an image is no longer unanswered.
LEMMA ReplyMessages ==
    ASSUME IInv, [Next]_vars, Mqtt, PodsMove, NEW w \in Workers, NEW item, Reply(w, item)
    PROVE  MessagesInv'
<1>1. /\ config' = config /\ Started' = Started /\ (\A e : RemoteOf(e)' = RemoteOf(e))
      /\ config \in Configs /\ Started \subseteq Endpoints
      /\ \A e \in Started : RemoteOf(e) \in Workers
  <2>1. config \in Configs
    BY DEF IInv, TypeOK
  <2> QED BY <2>1, ConfigStays, StartedEndpoints, ConfigType
<1>2. /\ Keeps(w) /\ Held(subscriber'[w]) = Held(subscriber[w]) \ {item}
      /\ item \in Held(subscriber[w]) /\ item \in Items /\ item[2] # 0
      /\ \A v \in Workers : v # w => subscriber'[v] = subscriber[v]
  BY DoneKeeps DEF Reply
<1>3. /\ \A e \in Endpoints : publisher'[e].sent = publisher[e].sent
      /\ \A e \in Endpoints : publisher'[e].RECEIVED = publisher[e].RECEIVED
                               \/ (e = item[1] /\ publisher'[e].RECEIVED = publisher[e].RECEIVED + 1)
  BY SentUnchanged DEF IInv
<1>4. \A v \in Workers : Keeps(v)
  BY <1>2, <1>3, SameKeeps
<1>5. item = <<item[1], item[2]>> /\ item[2] \in 1 .. MaxImgs /\ item[1] \in Of(w)
  <2>1. item[1] \in Of(w)
    BY <1>2 DEF IInv, MessagesInv
  <2> QED BY <1>2, <2>1, ApplicationAssumption DEF Items
<1>6. ASSUME NEW e \in Started
      PROVE  /\ publisher'[e].sent = publisher[e].sent /\ publisher'[e].RECEIVED \in Nat
             /\ publisher'[e].RECEIVED + Cardinality(Unanswered(e)') <=
                   publisher[e].RECEIVED + Cardinality(Unanswered(e))
  <2>1. publisher'[e].sent = publisher[e].sent /\ publisher[e].RECEIVED \in Nat
    BY <1>1, <1>3, ProgramTypes DEF IInv
  <2>2. Unanswered(e)' = {n \in 1 .. MaxImgs : <<e, n>> \in Held(subscriber'[RemoteOf(e)])}
    BY <1>1 DEF Unanswered, Held, Elements
  <2>3. Unanswered(e)' \subseteq Unanswered(e)
    BY <1>1, <1>4, <2>2 DEF Keeps, Unanswered
  <2>4. Cardinality(Unanswered(e)') <= Cardinality(Unanswered(e))
    BY <2>3, UnansweredType, FS_Subset
  <2>5. CASE e = item[1]
    <3>1. RemoteOf(e) = w
      BY <1>5, <2>5 DEF Of
    <3>2. item[2] \in Unanswered(e) /\ item[2] \notin Unanswered(e)'
      BY <1>2, <1>5, <2>2, <2>5, <3>1 DEF Unanswered
    <3>3. Cardinality(Unanswered(e)') # Cardinality(Unanswered(e))
      BY <2>3, <3>2, UnansweredType, FS_Subset
    <3>4. \/ publisher'[e].RECEIVED = publisher[e].RECEIVED
          \/ publisher'[e].RECEIVED = publisher[e].RECEIVED + 1
      BY <1>1, <1>3
    <3> QED BY <2>1, <2>4, <3>3, <3>4, UnansweredType
  <2>6. CASE e # item[1]
    <3>1. publisher'[e].RECEIVED = publisher[e].RECEIVED
      BY <1>1, <1>3, <2>6
    <3> QED BY <2>1, <2>4, <3>1, UnansweredType
  <2> QED BY <2>5, <2>6
<1>7. SentStays
  BY <1>6 DEF SentStays
<1> QED BY <1>4, <1>7, MessagesKept

\* An endpoint sends what it has not sent before, to a subscriber that does not
\* end before that endpoint.
LEMMA SendMessages ==
    ASSUME IInv, [Next]_vars, Mqtt, NEW e \in Endpoints, Send(e)
    PROVE  MessagesInv'
<1> DEFINE w == RemoteOf(e)
           m == Message(e, publisher[e].sent + 1)
           n == publisher[e].sent + 1
<1>1. /\ config' = config /\ Mqtt' /\ Started' = Started /\ (\A v : Of(v)' = Of(v))
      /\ (\A x : RemoteOf(x)' = RemoteOf(x)) /\ TypeOK /\ MessagesInv
      /\ config \in Configs /\ Started \subseteq Endpoints
      /\ \A x \in Started : RemoteOf(x) \in Workers
  <2>1. config \in Configs
    BY DEF IInv, TypeOK
  <2> QED BY <2>1, ConfigStays, StartedEndpoints, ConfigType DEF IInv
<1>2. /\ container[e] = "Up" /\ publisher[e].sent <= MaxImgs /\ UNCHANGED pods
      /\ publisher[e].sent \in Nat /\ MaxImgs \in Nat
  BY <1>1, ProgramTypes DEF Send, Publishing
<1>3. e \in Started /\ w \in Workers /\ e \in Of(w)
  BY <1>1, <1>2 DEF IInv, LoopsInv, Of
<1>4. \A x \in Endpoints : /\ publisher'[x].RECEIVED = publisher[x].RECEIVED
                           /\ publisher'[x].sent = IF x = e THEN n ELSE publisher[x].sent
  <2>1. publisher \in [Endpoints -> [subscribed : BOOLEAN, sent : 0 .. MaxImgs + 1, RECEIVED : 0 .. MaxImgs]]
    BY <1>1 DEF TypeOK
  <2>2. publisher' = [publisher EXCEPT ![e].sent = @ + 1]
    BY DEF Send
  <2> QED BY <2>1, <2>2
<1>5. \A x \in Held(subscriber[w]) : /\ x[2] <= publisher[x[1]].sent
                                     /\ x[2] = 0 => publisher[x[1]].sent = MaxImgs + 1
  BY <1>1, <1>3 DEF MessagesInv
<1>6. m \in Items /\ m[1] = e /\ m[2] = (IF n <= MaxImgs THEN n ELSE 0) /\ m \notin Held(subscriber[w])
  <2>1. m = IF n <= MaxImgs THEN <<e, n>> ELSE <<e, 0>>
    BY DEF Message
  <2>2. m \in Items /\ m[1] = e /\ m[2] = IF n <= MaxImgs THEN n ELSE 0
    BY <1>2, <2>1 DEF Items
  <2>3. ASSUME m \in Held(subscriber[w]) PROVE FALSE
    <3>1. m[2] <= publisher[e].sent /\ (m[2] = 0 => publisher[e].sent = MaxImgs + 1)
      BY <1>5, <2>2, <2>3
    <3> QED BY <1>2, <2>2, <3>1
  <2> QED BY <2>2, <2>3
<1>7. subscriber[w].state # "closing" /\ Tidy(subscriber[w])
  <2>1. publisher[e].sent # MaxImgs + 1
    BY <1>2
  <2> QED BY <1>1, <1>3, <2>1 DEF MessagesInv
<1> HIDE DEF w, m, n
<1>8. /\ \A v \in Workers : /\ subscriber'[v].state = subscriber[v].state
                            /\ subscriber'[v].endpoints_connected = subscriber[v].endpoints_connected
                            /\ v # w => subscriber'[v] = subscriber[v]
      /\ \/ subscriber'[w] = subscriber[w]
         \/ /\ subscriber'[w].work_queue = Append(subscriber[w].work_queue, m)
            /\ subscriber'[w].in_work = subscriber[w].in_work
  <2>1. subscriber \in [Workers -> Subscribers]
    BY <1>1, SubscriberRecords
  <2>2. subscriber' = subscriber \/ subscriber' = [subscriber EXCEPT ![w].work_queue = Append(@, m)]
    BY DEF Send, w, m
  <2> QED BY <1>3, <2>1, <2>2 DEF Subscribers
<1>9. /\ Tidy(subscriber'[w])
      /\ Held(subscriber'[w]) \in {Held(subscriber[w]), Held(subscriber[w]) \cup {m}}
  <2>1. CASE subscriber'[w] = subscriber[w]
    BY <1>7, <2>1
  <2>2. CASE /\ subscriber'[w].work_queue = Append(subscriber[w].work_queue, m)
             /\ subscriber'[w].in_work = subscriber[w].in_work
    <3> DEFINE q == subscriber[w].work_queue
    <3>1. q \in Seq(Items) /\ m \notin Elements(q) /\ \A j, k \in DOMAIN q : q[j] = q[k] => j = k
      BY <1>1, <1>3, <1>6, <1>7, ProgramTypes DEF Tidy, Held
    <3> HIDE DEF q
    <3>2. /\ Elements(Append(q, m)) = Elements(q) \cup {m}
          /\ \A j, k \in DOMAIN Append(q, m) : Append(q, m)[j] = Append(q, m)[k] => j = k
      BY <1>6, <3>1, AppendElements
    <3> QED BY <1>6, <1>7, <2>2, <3>2 DEF Held, Tidy, q
  <2> QED BY <1>8, <2>1, <2>2
<1>10. \A v \in Workers : v # w => e \notin Of(v)
  BY DEF Of, w
<1>11. ASSUME NEW v \in Workers
       PROVE  /\ Tidy(subscriber[v])'
              /\ \A x \in Held(subscriber[v])' :
                    /\ x[1] \in Of(v)' /\ x[2] <= publisher'[x[1]].sent
                    /\ x[2] = 0 => publisher'[x[1]].sent = MaxImgs + 1
              /\ subscriber'[v].state # "absent" => v <= config'.workers /\ Begun(<<"work", v>>)'
              /\ subscriber'[v].state \in {"connecting", "subscribed"} =>
                    Cardinality(Coming(v)') <= subscriber'[v].endpoints_connected
              /\ subscriber'[v].state = "closing" =>
                    subscriber'[v].work_queue = <<>> /\ \A x \in Of(v)' : publisher'[x].sent = MaxImgs + 1
  <2>1. /\ Tidy(subscriber[v])
        /\ \A x \in Held(subscriber[v]) :
              /\ x[1] \in Of(v) /\ x[2] <= publisher[x[1]].sent
              /\ x[2] = 0 => publisher[x[1]].sent = MaxImgs + 1
        /\ subscriber[v].state # "absent" => v <= config.workers /\ Begun(<<"work", v>>)
        /\ subscriber[v].state \in {"connecting", "subscribed"} =>
              Cardinality(Coming(v)) <= subscriber[v].endpoints_connected
        /\ subscriber[v].state = "closing" =>
              subscriber[v].work_queue = <<>> /\ \A x \in Of(v) : publisher[x].sent = MaxImgs + 1
    BY <1>1 DEF MessagesInv
  <2>2. Tidy(subscriber'[v]) /\ (Held(subscriber'[v]) = Held(subscriber[v])
                                 \/ (v = w /\ Held(subscriber'[v]) = Held(subscriber[v]) \cup {m}))
    <3>1. CASE v = w
      BY <1>9, <3>1
    <3>2. CASE v # w
      <4>1. subscriber'[v] = subscriber[v]
        BY <1>8, <3>2
      <4> QED BY <2>1, <4>1
    <3> QED BY <3>1, <3>2
  <2>3. Begun(<<"work", v>>)' <=> Begun(<<"work", v>>)
    BY <1>2 DEF Begun
  <2>4. \A x \in Of(v) : x \in Endpoints
    BY <1>1 DEF Of
  <2>5. ASSUME NEW x \in Held(subscriber'[v])
        PROVE  /\ x[1] \in Of(v) /\ x[2] <= publisher'[x[1]].sent
               /\ x[2] = 0 => publisher'[x[1]].sent = MaxImgs + 1
    <3>1. CASE x \in Held(subscriber[v])
      <4>1. x[1] \in Of(v) /\ x[2] <= publisher[x[1]].sent /\ (x[2] = 0 => publisher[x[1]].sent = MaxImgs + 1)
        BY <2>1, <3>1
      <4>2. CASE x[1] = e
        <5>1. x[2] <= publisher[e].sent /\ x[2] # 0 /\ publisher'[e].sent = publisher[e].sent + 1
          BY <1>2, <1>4, <4>1, <4>2 DEF n
        <5>2. x[2] \in Nat
          <6>1. \A y \in Held(subscriber[v]) : y \in Items
            <7>1. subscriber[v].work_queue \in Seq(Items) /\ subscriber[v].in_work \subseteq Items
              BY <1>1, ProgramTypes
            <7>2. \A k \in DOMAIN subscriber[v].work_queue : subscriber[v].work_queue[k] \in Items
              BY <7>1, ElementOfSeq, LenProperties
            <7> QED BY <7>1, <7>2 DEF Held, Elements
          <6> QED BY <1>2, <3>1, <6>1 DEF Items
        <5> QED BY <1>2, <4>1, <4>2, <5>1, <5>2
      <4>3. CASE x[1] # e
        BY <1>4, <2>4, <4>1, <4>3
      <4> QED BY <4>2, <4>3
    <3>2. CASE v = w /\ x = m
      <4>1. x[1] = e /\ x[2] = (IF n <= MaxImgs THEN n ELSE 0) /\ publisher'[e].sent = n
        BY <1>4, <1>6, <3>2
      <4> QED BY <1>2, <1>3, <3>2, <4>1 DEF n
    <3> QED BY <2>2, <3>1, <3>2
  <2>6. Coming(v)' \subseteq Coming(v)
    <3> SUFFICES ASSUME NEW x \in Coming(v)' PROVE x \in Coming(v)
      OBVIOUS
    <3>1. /\ x \in Of(v) /\ x \in Endpoints
          /\ publisher'[x].sent <= MaxImgs \/ <<x, 0>> \in Held(subscriber'[v])
      BY <1>1, <2>4, Primes DEF Coming
    <3>2. CASE x = e
      BY <1>2, <3>1, <3>2 DEF Coming
    <3>3. CASE x # e
      <4>1. publisher'[x].sent = publisher[x].sent
        BY <1>4, <3>1, <3>3
      <4>2. <<x, 0>> # m
        BY <1>6, <3>3
      <4>3. <<x, 0>> \in Held(subscriber'[v]) => <<x, 0>> \in Held(subscriber[v])
        BY <2>2, <4>2
      <4> QED BY <3>1, <4>1, <4>3 DEF Coming
    <3> QED BY <3>2, <3>3
  <2>7. /\ Cardinality(Coming(v)) \in Nat /\ Cardinality(Coming(v)') \in Nat
        /\ Cardinality(Coming(v)') <= Cardinality(Coming(v))
    <3>1. IsFiniteSet(Coming(v))
      BY <1>1, StartedEndpoints, FS_Subset DEF Coming
    <3> QED BY <2>6, <3>1, FS_Subset, FS_CardinalityType
  <2>8. subscriber'[v].state \in {"connecting", "subscribed"} =>
           Cardinality(Coming(v)') <= subscriber'[v].endpoints_connected
    <3>1. subscriber[v].endpoints_connected \in Nat
      BY <1>1, ProgramTypes
    <3>2. /\ subscriber'[v].state = subscriber[v].state
          /\ subscriber'[v].endpoints_connected = subscriber[v].endpoints_connected
      BY <1>8
    <3>3. subscriber[v].state \in {"connecting", "subscribed"} =>
              Cardinality(Coming(v)) <= subscriber[v].endpoints_connected
      BY <2>1
    <3> QED BY <2>7, <3>1, <3>2, <3>3
  <2>9. ASSUME subscriber'[v].state = "closing"
        PROVE  subscriber'[v].work_queue = <<>> /\ \A x \in Of(v) : publisher'[x].sent = MaxImgs + 1
    <3>1. subscriber[v].state = "closing"
      BY <1>8, <2>9
    <3>2. v # w
      BY <1>7, <3>1
    <3>3. subscriber'[v] = subscriber[v] /\ e \notin Of(v)
      BY <1>8, <1>10, <3>2
    <3>4. \A x \in Of(v) : publisher'[x].sent = publisher[x].sent
      BY <1>4, <2>4, <3>3
    <3> QED BY <2>1, <3>1, <3>3, <3>4
  <2>10. subscriber'[v].state # "absent" => v <= config'.workers /\ Begun(<<"work", v>>)'
    <3>1. subscriber'[v].state = subscriber[v].state /\ config' = config
      BY <1>1, <1>8
    <3>2. subscriber[v].state # "absent" => v <= config.workers /\ Begun(<<"work", v>>)
      BY <2>1
    <3> QED BY <2>3, <3>1, <3>2
  <2>11. Of(v)' = Of(v)
    BY <1>1
  <2> QED BY <2>2, <2>5, <2>8, <2>9, <2>10, <2>11, Primes
<1>12. ASSUME NEW x \in Started
       PROVE  /\ publisher'[x].RECEIVED + Cardinality(Unanswered(x)') <= publisher'[x].sent
              /\ publisher'[x].RECEIVED + Cardinality(Unanswered(x)') <= MaxImgs
  <2>1. /\ publisher[x].RECEIVED + Cardinality(Unanswered(x)) <= publisher[x].sent
        /\ publisher[x].RECEIVED + Cardinality(Unanswered(x)) <= MaxImgs
        /\ x \in Endpoints /\ publisher[x].RECEIVED \in Nat /\ publisher[x].sent \in Nat
        /\ publisher'[x].RECEIVED = publisher[x].RECEIVED
    BY <1>1, <1>4, ProgramTypes DEF MessagesInv
  <2>2. Unanswered(x)' = {k \in 1 .. MaxImgs : <<x, k>> \in Held(subscriber'[RemoteOf(x)])}
    BY <1>1 DEF Unanswered, Held, Elements
  <2>3. Held(subscriber'[RemoteOf(x)]) \subseteq Held(subscriber[RemoteOf(x)]) \cup {m}
    <3>1. RemoteOf(x) \in Workers
      BY <1>1
    <3>2. CASE RemoteOf(x) = w
      BY <1>9, <3>2
    <3>3. CASE RemoteOf(x) # w
      <4>1. subscriber'[RemoteOf(x)] = subscriber[RemoteOf(x)]
        BY <1>8, <3>1, <3>3
      <4> QED BY <4>1
    <3> QED BY <3>2, <3>3
  <2>4. CASE x # e
    <3>1. Unanswered(x)' \subseteq Unanswered(x)
      BY <1>6, <2>2, <2>3, <2>4 DEF Unanswered
    <3>2. Cardinality(Unanswered(x)') <= Cardinality(Unanswered(x))
      BY <3>1, UnansweredType, FS_Subset
    <3>3. publisher'[x].sent = publisher[x].sent
      BY <1>4, <2>1, <2>4
    <3> QED BY <1>2, <2>1, <3>2, <3>3, UnansweredType
  <2>5. CASE x = e /\ n <= MaxImgs
    <3>1. Unanswered(x)' \subseteq Unanswered(x) \cup {n}
      BY <1>6, <2>2, <2>3, <2>5 DEF Unanswered
    <3>2. /\ IsFiniteSet(Unanswered(x) \cup {n})
          /\ Cardinality(Unanswered(x) \cup {n}) <= Cardinality(Unanswered(x)) + 1
          /\ Cardinality(Unanswered(x) \cup {n}) \in Nat
      <4>1. /\ IsFiniteSet(Unanswered(x) \cup {n})
            /\ Cardinality(Unanswered(x) \cup {n}) =
                 IF n \in Unanswered(x) THEN Cardinality(Unanswered(x)) ELSE Cardinality(Unanswered(x)) + 1
        BY UnansweredType, FS_AddElement
      <4> QED BY <4>1, UnansweredType
    <3>3. Cardinality(Unanswered(x)') <= Cardinality(Unanswered(x) \cup {n})
      BY <3>1, <3>2, FS_Subset
    <3>4. publisher'[x].sent = publisher[x].sent + 1 /\ publisher[x].sent + 1 <= MaxImgs
      BY <1>4, <2>1, <2>5 DEF n
    <3> QED BY <1>2, <2>1, <3>2, <3>3, <3>4, UnansweredType
  <2>6. CASE x = e /\ ~(n <= MaxImgs)
    <3>1. m[2] = 0
      BY <1>6, <2>6
    <3>2. Unanswered(x)' \subseteq Unanswered(x)
      BY <2>2, <2>3, <3>1 DEF Unanswered
    <3>3. Cardinality(Unanswered(x)') <= Cardinality(Unanswered(x))
      BY <3>2, UnansweredType, FS_Subset
    <3>4. publisher'[x].sent = publisher[x].sent + 1
      BY <1>4, <2>1, <2>6 DEF n
    <3> QED BY <1>2, <2>1, <3>3, <3>4, UnansweredType
  <2> QED BY <2>4, <2>5, <2>6
<1> QED BY <1>1, <1>11, <1>12 DEF MessagesInv

\* Without image classification on workers nothing is subscribed.
LEMMA NoSubscriber == IInv /\ [Next]_vars /\ ~Mqtt => subscriber' = subscriber
<1> SUFFICES ASSUME IInv, [Next]_vars, ~Mqtt PROVE subscriber' = subscriber
  OBVIOUS
<1>1. CASE Driver
  BY <1>1, DriverFrame DEF StartWorkerMist, Mqtt
<1>2. CASE Others
  <2>1. ASSUME NEW p \in Pods, PodSteps(p) \/ PodFails(p) PROVE subscriber' = subscriber
    BY <2>1 DEF PodSteps, PodFails, PodAppears, PodAssigned, PodRuns, PodSleeps, PodRemoved, PodBecomes
  <2>2. ASSUME NEW e \in Endpoints,
               PublisherSubscribes(e) \/ SendsAll(e) \/ Combine(e) \/ Classifies(e) \/ EndpointFails(e)
        PROVE  subscriber' = subscriber
    BY <2>2 DEF PublisherSubscribes, SendsAll, Send, AllReceived, Publishing, Combine, Classifies, Generate, QueueEmpty,
       Take, Classify, CombinedBecomes, EndpointFails, programs
  <2>3. ASSUME NEW w \in Workers, Main(w) \/ GetItem(w) \/ Tflite(w) PROVE FALSE
    <3>1. subscriber[w].state = "absent" /\ subscriber[w].work_queue = <<>> /\ subscriber[w].in_work = {}
      BY DEF IInv, MessagesInv
    <3> QED BY <2>3, <3>1 DEF Main, GetItem, Tflite, WorkerSubscribes, AllDisconnected, Terminate, Processing
  <2> QED BY <1>2, <2>1, <2>2, <2>3 DEF Others, NodeReady, vars, programs
<1> QED BY <1>1, <1>2, NextSteps

\* The containers of mist are started together.
LEMMA LaunchMessages ==
    ASSUME IInv, [Next]_vars, StartWorkerMist
    PROVE  MessagesInv'
<1>1. /\ Mqtt /\ Manager = "mist" /\ publisher' = publisher /\ config \in Configs
      /\ pods' = [p \in Pods |-> IF p \in PodsOf("work") THEN "Running" ELSE pods[p]]
      /\ subscriber' = [w \in Workers |-> IF w <= config.workers THEN Launched ELSE subscriber[w]]
  BY DEF StartWorkerMist, Mqtt, IInv, TypeOK
<1>2. ASSUME NEW w \in Workers, w <= config.workers PROVE Keeps(w)
  <2>1. w \in 1 .. config.workers
    <3>1. w \in Nat \ {0} /\ config.workers \in Nat
      BY <1>1, ApplicationAssumption DEF Workers
    <3> QED BY <1>2, <3>1
  <2>2. <<"work", w>> \in PodsOf("work") /\ PodsOf("work") \subseteq Pods
    BY <1>1, <2>1, PodsOfJob
  <2>3. Begun(<<"work", w>>)'
    BY <1>1, <2>2 DEF Begun
  <2>4. subscriber'[w] = Launched
    BY <1>1, <1>2
  <2> QED BY <1>1, <1>2, <2>3, <2>4, LaunchKeeps
<1>3. ASSUME NEW w \in Workers, ~(w <= config.workers) PROVE Keeps(w)
  <2>1. subscriber'[w] = subscriber[w] /\ subscriber[w].state = "absent" /\ Tidy(subscriber[w])
    BY <1>1, <1>3 DEF IInv, MessagesInv
  <2> QED BY <2>1 DEF Keeps
<1> QED BY <1>1, <1>2, <1>3, SubscriberKeeps

\* The messages stay right in every step.
LEMMA MessagesStep == IInv /\ [Next]_vars => MessagesInv'
<1> SUFFICES ASSUME IInv, [Next]_vars PROVE MessagesInv'
  OBVIOUS
<1>1. TypeOK /\ config \in Configs /\ Mqtt' = Mqtt /\ MessagesInv
  BY ConfigStays DEF IInv, TypeOK
<1>2. CASE ~Mqtt
  BY <1>1, <1>2, NoSubscriber DEF MessagesInv
<1>3. CASE Mqtt /\ Driver
  <2>1. CASE StartWorkerMist
    BY <2>1, LaunchMessages
  <2>2. CASE ~StartWorkerMist
    <3>1. UNCHANGED <<pods, subscriber, publisher>>
      BY <1>3, <2>2, DriverFrame
    <3>2. PodsMove
      BY <1>1, <3>1 DEF TypeOK, PodsMove, Begun
    <3> QED BY <1>3, <3>1, <3>2, SameKeeps, SubscriberKeeps
  <2> QED BY <2>1, <2>2
<1>4. ASSUME Mqtt, Others PROVE MessagesInv'
  <2>1. PodsMove
    BY <1>4, OthersPods
  <2>2. ASSUME subscriber' = subscriber,
               \A e \in Endpoints : publisher'[e].sent = publisher[e].sent
                                   /\ publisher'[e].RECEIVED = publisher[e].RECEIVED
        PROVE  MessagesInv'
    BY <1>4, <2>1, <2>2, SameKeeps, SubscriberKeeps
  <2>3. ASSUME NEW w \in Workers, Keeps(w), \A v \in Workers : v # w => subscriber'[v] = subscriber[v],
               publisher' = publisher
        PROVE  MessagesInv'
    BY <1>4, <2>1, <2>3, SameKeeps, SubscriberKeeps
  <2>4. ASSUME NEW w \in Workers, NEW state,
               subscriber' = [subscriber EXCEPT ![w].state = state], publisher' = publisher,
               w <= config.workers /\ Begun(<<"work", w>>)',
               state \in {"connecting", "subscribed"} => subscriber[w].state \in {"connecting", "subscribed"},
               state = "closing" => /\ subscriber[w].work_queue = <<>>
                                    /\ \A e \in Of(w) : publisher[e].sent = MaxImgs + 1
        PROVE  MessagesInv'
    <3>1. Keeps(w)
      BY <1>4, <2>4, StateKeeps
    <3>2. \A v \in Workers : v # w => subscriber'[v] = subscriber[v]
      BY <1>1, <2>4, SubscriberRecords
    <3> QED BY <2>3, <2>4, <3>1, <3>2
  <2>5. CASE \E n \in 1 .. config.workers + 1 : NodeReady(n)
    BY <2>2, <2>5 DEF NodeReady, programs
  <2>6. ASSUME NEW p \in Pods, PodSteps(p) \/ PodFails(p) PROVE MessagesInv'
    <3>1. ASSUME pods[p] # "absent"
          PROVE  p = <<"work", p[2]>> /\ p[2] \in 1 .. config.workers /\ p[2] \in Workers
      <4>1. p \in Listed /\ p[1] \in {"cache", "work"} /\ Manager # "none" /\ Manager # "kubecontrol"
        BY <1>4, <3>1 DEF Listed, Pods, Mqtt
      <4>2. p[1] = "work" /\ p \in PodsOf("work")
        BY <4>1 DEF IInv, PodsInv
      <4>3. Replicas("work") = config.workers
        BY <1>1, <1>4, <4>1, PodsOfJob
      <4> QED BY <1>1, <4>2, <4>3, ConfigType DEF PodsOf
    <3>2. CASE PodRuns(p)
      <4>1. /\ pods[p] = "assigned" /\ pods' = [pods EXCEPT ![p] = "Running"] /\ publisher' = publisher
            /\ subscriber' = [subscriber EXCEPT ![p[2]] = Launched]
        BY <1>4, <3>2 DEF PodRuns, PodBecomes
      <4>2. p = <<"work", p[2]>> /\ p[2] \in 1 .. config.workers /\ p[2] \in Workers /\ config.workers \in Nat
        BY <1>1, <3>1, <4>1, ConfigType
      <4>3. Begun(<<"work", p[2]>>)'
        <5>1. pods'[p] \in {"Running", "Failed"}
          BY <1>1, <4>1 DEF TypeOK
        <5> QED BY <4>2, <5>1 DEF Begun
      <4>4. subscriber'[p[2]] = Launched /\ \A v \in Workers : v # p[2] => subscriber'[v] = subscriber[v]
        BY <1>1, <4>1, <4>2, SubscriberRecords
      <4>5. Keeps(p[2])
        <5>1. p[2] <= config.workers
          BY <4>2
        <5> QED BY <1>4, <4>1, <4>2, <4>3, <4>4, <5>1, LaunchKeeps
      <4> QED BY <2>3, <4>1, <4>2, <4>4, <4>5
    <3>3. CASE PodFails(p)
      <4>1. /\ pods[p] = "Running" /\ pods' = [pods EXCEPT ![p] = "Failed"] /\ publisher' = publisher
            /\ subscriber' = [subscriber EXCEPT ![p[2]].state = "ended"]
        BY <1>4, <3>3 DEF PodFails, PodBecomes
      <4>2. p = <<"work", p[2]>> /\ p[2] \in 1 .. config.workers /\ p[2] \in Workers /\ config.workers \in Nat
        BY <1>1, <3>1, <4>1, ConfigType
      <4>3. Begun(<<"work", p[2]>>)'
        <5>1. pods'[p] \in {"Running", "Failed"}
          BY <1>1, <4>1 DEF TypeOK
        <5> QED BY <4>2, <5>1 DEF Begun
      <4>4. p[2] <= config.workers
        BY <4>2
      <4> QED BY <2>4, <4>1, <4>2, <4>3, <4>4
    <3>4. CASE PodAppears(p) \/ PodAssigned(p) \/ PodSleeps(p) \/ PodRemoved(p)
      BY <2>2, <3>4 DEF PodAppears, PodAssigned, PodSleeps, PodRemoved, PodBecomes
    <3> QED BY <2>6, <3>2, <3>3, <3>4 DEF PodSteps
  <2>7. ASSUME NEW e \in Endpoints,
               PublisherSubscribes(e) \/ SendsAll(e) \/ Combine(e) \/ Classifies(e) \/ EndpointFails(e)
        PROVE  MessagesInv'
    <3>1. CASE PublisherSubscribes(e)
      <4>1. publisher \in [Endpoints -> [subscribed : BOOLEAN, sent : 0 .. MaxImgs + 1, RECEIVED : 0 .. MaxImgs]]
        BY <1>1 DEF TypeOK
      <4>2. subscriber' = subscriber /\ publisher' = [publisher EXCEPT ![e].subscribed = TRUE]
        BY <3>1 DEF PublisherSubscribes
      <4>3. \A x \in Endpoints : publisher'[x].sent = publisher[x].sent /\ publisher'[x].RECEIVED = publisher[x].RECEIVED
        BY <4>1, <4>2
      <4> QED BY <2>2, <4>2, <4>3
    <3>2. CASE Send(e)
      BY <1>4, <3>2, SendMessages
    <3>3. CASE AllReceived(e) \/ Combine(e) \/ Classifies(e) \/ EndpointFails(e)
      <4>1. UNCHANGED <<subscriber, publisher>>
        BY <3>3 DEF AllReceived, Combine, Classifies, Generate, QueueEmpty, Take, Classify, CombinedBecomes,
           EndpointFails, programs
      <4> QED BY <2>2, <4>1
    <3> QED BY <2>7, <3>1, <3>2, <3>3 DEF SendsAll
  <2>8. ASSUME NEW w \in Workers, Main(w) \/ GetItem(w) \/ Tflite(w) PROVE MessagesInv'
    <3>1. /\ subscriber[w].state # "absent" => w <= config.workers /\ Begun(<<"work", w>>)
          /\ subscriber[w].state \in {"connecting", "subscribed"} =>
                Cardinality(Coming(w)) <= subscriber[w].endpoints_connected
          /\ subscriber[w].state = "closing" =>
                subscriber[w].work_queue = <<>> /\ \A e \in Of(w) : publisher[e].sent = MaxImgs + 1
      BY <1>1, <1>4 DEF MessagesInv
    <3>2. CASE WorkerSubscribes(w)
      <4>1. /\ subscriber' = [subscriber EXCEPT ![w].state = "subscribed"] /\ publisher' = publisher /\ pods' = pods
            /\ subscriber[w].state = "connecting"
        BY <3>2 DEF WorkerSubscribes
      <4> QED BY <2>4, <3>1, <4>1 DEF Begun
    <3>3. CASE AllDisconnected(w)
      <4>1. /\ subscriber' = [subscriber EXCEPT ![w].state = "closing"] /\ publisher' = publisher /\ pods' = pods
            /\ subscriber[w].state = "subscribed" /\ subscriber[w].endpoints_connected = 0
            /\ subscriber[w].work_queue = <<>>
        BY <3>3 DEF AllDisconnected
      <4>2. Coming(w) = {}
        <5>1. IsFiniteSet(Coming(w)) /\ Cardinality(Coming(w)) \in Nat
          <6>1. IsFiniteSet(Of(w))
            BY <1>1, <1>4, StartedEndpoints
          <6>2. Coming(w) \subseteq Of(w)
            BY DEF Coming
          <6> QED BY <6>1, <6>2, FS_Subset, FS_CardinalityType
        <5>2. Cardinality(Coming(w)) = 0
          BY <3>1, <4>1, <5>1
        <5> QED BY <5>1, <5>2, FS_EmptySet
      <4>3. ASSUME NEW e \in Of(w) PROVE publisher[e].sent = MaxImgs + 1
        <5>1. ~(publisher[e].sent <= MaxImgs)
          BY <4>2 DEF Coming
        <5>2. e \in Endpoints
          BY <1>1, StartedEndpoints DEF Of
        <5> QED BY <1>1, <5>1, <5>2, ProgramTypes
      <4> QED BY <2>4, <3>1, <4>1, <4>3 DEF Begun
    <3>4. CASE Terminate(w)
      <4>1. /\ subscriber' = [subscriber EXCEPT ![w].state = "ended"] /\ publisher' = publisher
            /\ pods' = [pods EXCEPT ![<<"work", w>>] = "Succeeded"]
            /\ subscriber[w].state = "closing"
        BY <3>4 DEF Terminate
      <4>2. w <= config.workers /\ Begun(<<"work", w>>)
        BY <3>1, <4>1
      <4>3. Begun(<<"work", w>>)'
        <5>1. <<"work", w>> \in Pods
          <6>1. w \in Nat \ {0} /\ Manager # "none"
            BY <1>4, ApplicationAssumption DEF Workers, Mqtt
          <6> QED BY <1>1, <1>4, <4>2, <6>1, PodsOfJob, ConfigType
        <5> QED BY <1>1, <4>1, <5>1 DEF TypeOK, Begun
      <4> QED BY <2>4, <4>1, <4>2, <4>3
    <3>5. CASE GetItem(w)
      <4>1. publisher' = publisher
        BY <3>5 DEF GetItem
      <4> QED BY <1>4, <2>3, <3>5, <4>1, GetItemKeeps
    <3>6. ASSUME NEW item, ClientDisconnected(w, item) PROVE MessagesInv'
      <4>1. publisher' = publisher
        BY <3>6 DEF ClientDisconnected
      <4> QED BY <1>4, <2>3, <3>6, <4>1, DoneKeeps
    <3>7. ASSUME NEW item, Reply(w, item) PROVE MessagesInv'
      BY <1>4, <2>1, <3>7, ReplyMessages
    <3> QED BY <2>8, <3>2, <3>3, <3>4, <3>5, <3>6, <3>7 DEF Main, Tflite
  <2> QED BY <1>4, <2>2, <2>5, <2>6, <2>7, <2>8 DEF Others, vars, programs
<1> QED BY <1>2, <1>3, <1>4, NextSteps

-------------------------------------------------------------------------------
(* Types *)

\* Records of a program in which one field changes.
LEMMA FieldsOfSubscriber ==
    ASSUME NEW S, NEW Q, NEW W, NEW C, NEW N,
           NEW s \in [state : S, work_queue : Q, in_work : W, endpoints_connected : C, images_processed : N]
    PROVE  /\ \A x \in S : [s EXCEPT !.state = x] \in
                [state : S, work_queue : Q, in_work : W, endpoints_connected : C, images_processed : N]
           /\ \A x \in Q : [s EXCEPT !.work_queue = x] \in
                [state : S, work_queue : Q, in_work : W, endpoints_connected : C, images_processed : N]
           /\ \A x \in W : [s EXCEPT !.in_work = x] \in
                [state : S, work_queue : Q, in_work : W, endpoints_connected : C, images_processed : N]
           /\ \A x \in C : [s EXCEPT !.endpoints_connected = x] \in
                [state : S, work_queue : Q, in_work : W, endpoints_connected : C, images_processed : N]
           /\ \A x \in N : [s EXCEPT !.images_processed = x] \in
                [state : S, work_queue : Q, in_work : W, endpoints_connected : C, images_processed : N]
OBVIOUS

LEMMA FieldsOfPublisher ==
    ASSUME NEW B, NEW S, NEW R, NEW p \in [subscribed : B, sent : S, RECEIVED : R]
    PROVE  /\ \A x \in B : [p EXCEPT !.subscribed = x] \in [subscribed : B, sent : S, RECEIVED : R]
           /\ \A x \in S : [p EXCEPT !.sent = x] \in [subscribed : B, sent : S, RECEIVED : R]
           /\ \A x \in R : [p EXCEPT !.RECEIVED = x] \in [subscribed : B, sent : S, RECEIVED : R]
OBVIOUS

LEMMA FieldsOfCombined ==
    ASSUME NEW G, NEW B, NEW c \in [generated : G, processed : G, working : B]
    PROVE  /\ \A x \in G : [c EXCEPT !.generated = x] \in [generated : G, processed : G, working : B]
           /\ \A x \in B : [c EXCEPT !.working = x] \in [generated : G, processed : G, working : B]
           /\ \A x \in G, b \in B : [c EXCEPT !.working = b, !.processed = x]
                                        \in [generated : G, processed : G, working : B]
OBVIOUS

\* What the driver can have read.
LEMMA DriverOutput ==
    Driver => /\ output' = output \/ output' = <<>> \/ ListNodes \/ ListPods("cache") \/ ListPods("completion")
              /\ pending' = pending \/ pending' = TRUE \/ pending' = FALSE
<1> SUFFICES ASSUME Driver
             PROVE  /\ output' = output \/ output' = <<>> \/ ListNodes \/ ListPods("cache") \/ ListPods("completion")
                    /\ pending' = pending \/ pending' = TRUE \/ pending' = FALSE
  OBVIOUS
<1>1. CASE VerifyNode \/ CachedPod \/ WorkerCompleted
  <2>1. PICK Wait, Done : LookAt(Wait, Done)
    BY <1>1 DEF VerifyNode, CachedPod, WorkerCompleted
  <2>2. \/ UNCHANGED <<output, pending>>
        \/ output' = <<>> /\ pending' = TRUE
        \/ Goto("raised")
        \/ Goto("stopped")
    BY <2>1, LookAtSteps
  <2> QED BY <2>2 DEF Goto
<1>2. CASE WaitEndpointCompletion \/ WaitMistCompletion
  <2>1. PICK step, last, status, next : Finished(step, last, status, next)
    BY <1>2 DEF WaitEndpointCompletion, WaitMistCompletion
  <2>2. Goto(next) \/ UNCHANGED <<output, pending>> \/ Goto("stopped")
    BY <2>1, FinishedSteps
  <2> QED BY <2>2 DEF Goto
<1>3. CASE ListNodes \/ ListPods("cache") \/ ListPods("completion") \/ WorkerDeployed
  BY <1>3 DEF ListNodes, ListPods, WorkerDeployed, Goto
<1>4. CASE ClusterRuns \/ CacheWorker \/ DeleteCached \/ SleepDeleted \/ StartWorkerKube \/ StartWorkerMist
  BY <1>4 DEF ClusterRuns, CacheWorker, DeleteCached, SleepDeleted, StartWorkerKube, StartWorkerMist, Goto
<1>5. CASE WaitWorkerReady \/ StartEndpoint \/ AllCompleted \/ GetEndpointOutput \/ GetWorkerOutput
  BY <1>5 DEF WaitWorkerReady, StartEndpoint, AllCompleted, GetEndpointOutput, GetWorkerOutput, Goto
<1> QED BY <1>1, <1>2, <1>3, <1>4, <1>5 DEF Driver

\* The driver: its own variables, and those it sets for others.
LEMMA DriverTypes ==
    IInv /\ [Next]_vars =>
        /\ config' \in Configs /\ pc' \in Steps /\ i' \in Nat /\ output' \in Seq(Statuses) /\ pending' \in BOOLEAN
        /\ ready' \subseteq 1 .. config'.workers + 1 /\ jobs' \subseteq {"cache", "work"}
        /\ pods' \in [Pods -> {"absent", "created", "assigned", "Running", "Succeeded", "Failed"}]
        /\ container' \in [Endpoints -> {"absent", "Up", "Exited (0)", "Exited (1)"}]
<1> SUFFICES ASSUME IInv, [Next]_vars
             PROVE  /\ config' \in Configs /\ pc' \in Steps /\ i' \in Nat /\ output' \in Seq(Statuses)
                    /\ pending' \in BOOLEAN
                    /\ ready' \subseteq 1 .. config'.workers + 1 /\ jobs' \subseteq {"cache", "work"}
                    /\ pods' \in [Pods -> {"absent", "created", "assigned", "Running", "Succeeded", "Failed"}]
                    /\ container' \in [Endpoints -> {"absent", "Up", "Exited (0)", "Exited (1)"}]
  OBVIOUS
<1>1. config' = config /\ config \in Configs /\ Manager' = Manager /\ TypeOK
  BY ConfigStays DEF IInv, TypeOK
<1>2. pc' \in Steps
  <2>1. Manager' \in Managers
    BY <1>1, ConfigType
  <2> QED BY <2>1, DriverStep DEF DriverInv, Managers, Steps, Ends
<1>3. i' \in Nat
  BY LoopsStep DEF LoopsInv
<1>4. output' \in Seq(Statuses)
  <2>1. output \in Seq(Statuses) /\ <<>> \in Seq(Statuses)
    BY <1>1, EmptySeq DEF TypeOK
  <2>2. ASSUME ListNodes PROVE output' \in Seq(Statuses)
    <3>1. config.workers + 1 \in Nat
      BY <1>1, ConfigType
    <3>2. output' \in [1 .. config.workers + 1 -> Statuses]
      BY <2>2 DEF ListNodes, Statuses
    <3> QED BY <3>1, <3>2, IsASeq
  <2>3. ASSUME NEW step \in {"cache", "completion"}, ListPods(step) PROVE output' \in Seq(Statuses)
    <3>1. Manager # "none"
      BY <1>1, <2>3, ConfigType DEF ListPods, IInv, DriverInv, Managers, Ends
    <3>2. Sorted \in [1 .. Cardinality(Listed) -> Listed] /\ Cardinality(Listed) \in Nat
      BY <1>1, <3>1, SortedPods DEF IInv
    <3>3. \A p \in Listed : Phase(p) \in Statuses
      BY <1>1 DEF TypeOK, Listed, Phase, Statuses
    <3>4. output' \in [1 .. Cardinality(Listed) -> Statuses]
      BY <2>3, <3>2, <3>3 DEF ListPods
    <3> QED BY <3>2, <3>4, IsASeq
  <2>4. CASE Driver
    BY <2>1, <2>2, <2>3, <2>4, DriverOutput
  <2>5. CASE Others
    BY <2>1, <2>5, OthersFrame DEF driver
  <2> QED BY <2>4, <2>5, NextSteps
<1>5. pending' \in BOOLEAN
  BY <1>1, NextSteps, OthersFrame, DriverOutput DEF driver, TypeOK
<1>6. ready' \subseteq 1 .. config'.workers + 1
  <2>1. ready \subseteq 1 .. config.workers + 1
    BY <1>1 DEF TypeOK
  <2>2. ready' = ready \/ \E n \in 1 .. config.workers + 1 : ready' = ready \cup {n}
    <3>1. CASE Driver
      BY <3>1, DriverFrame
    <3>2. CASE Others
      BY <3>2 DEF Others, NodeReady, PodSteps, PodFails, PodAppears, PodAssigned, PodRuns, PodSleeps, PodRemoved,
         PodBecomes, PublisherSubscribes, SendsAll, Send, AllReceived, Combine, Classifies, Generate, QueueEmpty, Take,
         Classify, CombinedBecomes, EndpointFails, Main, GetItem, Tflite, WorkerSubscribes, AllDisconnected,
         Terminate, ClientDisconnected, Reply, Outside, cluster, vars
    <3> QED BY <3>1, <3>2, NextSteps
  <2> QED BY <1>1, <2>1, <2>2
<1>7. jobs' \subseteq {"cache", "work"}
  <2>1. jobs \subseteq {"cache", "work"}
    BY <1>1 DEF TypeOK
  <2>2. CASE Driver
    BY <2>1, <2>2, DriverFrame DEF CacheWorker, DeleteCached, StartWorkerKube
  <2> QED BY <2>1, <2>2, NextSteps, OthersFrame
<1>8. pods' \in [Pods -> {"absent", "created", "assigned", "Running", "Succeeded", "Failed"}]
  <2>1. CASE Driver
    BY <1>1, <2>1, DriverFrame DEF StartWorkerMist, TypeOK
  <2>2. CASE Others
    BY <2>2, OthersPods DEF PodsMove
  <2> QED BY <2>1, <2>2, NextSteps
<1>9. container' \in [Endpoints -> {"absent", "Up", "Exited (0)", "Exited (1)"}]
  <2>1. CASE Driver
    BY <1>1, <2>1, DriverFrame DEF StartEndpoint, TypeOK
  <2> QED BY <1>1, <2>1, NextSteps, OthersContainers
<1> QED BY <1>1, <1>2, <1>3, <1>4, <1>5, <1>6, <1>7, <1>8, <1>9

\* A subscriber counts down to no less than zero.
LEMMA SubscriberStep == IInv /\ [Next]_vars => subscriber' \in [Workers -> Subscribers]
<1> SUFFICES ASSUME IInv, [Next]_vars PROVE subscriber' \in [Workers -> Subscribers]
  OBVIOUS
<1>1. TypeOK /\ config \in Configs /\ subscriber \in [Workers -> Subscribers]
  BY SubscriberRecords DEF IInv, TypeOK
<1>2. CASE subscriber' = subscriber
  BY <1>1, <1>2
<1>3. ASSUME NEW w \in Workers, NEW s \in Subscribers, subscriber' = [subscriber EXCEPT ![w] = s]
      PROVE  subscriber' \in [Workers -> Subscribers]
  BY <1>1, <1>3
<1>4. ASSUME Mqtt PROVE Launched \in Subscribers
  <2>1. ENDPOINT_CONNECTED \in 0 .. config.endpoints
    BY <1>1, <1>4, StartedEndpoints
  <2>2. <<>> \in Seq(Items)
    BY EmptySeq
  <2> QED BY <2>1, <2>2 DEF Launched, Subscribers, States
<1>5. ASSUME NEW w \in Workers, NEW state \in States, subscriber' = [subscriber EXCEPT ![w].state = state]
      PROVE  subscriber' \in [Workers -> Subscribers]
  <2> DEFINE s == [subscriber[w] EXCEPT !.state = state]
  <2>1. subscriber[w] \in Subscribers
    BY <1>1
  <2>2. s \in Subscribers
    BY <2>1, FieldsOfSubscriber DEF Subscribers
  <2>3. subscriber' = [subscriber EXCEPT ![w] = s]
    BY <1>5
  <2> HIDE DEF s
  <2> QED BY <1>3, <2>2, <2>3
<1>6. CASE Driver
  <2>1. CASE StartWorkerMist
    <3>1. /\ Mqtt
          /\ subscriber' = [w \in Workers |-> IF w <= config.workers THEN Launched ELSE subscriber[w]]
      BY <2>1 DEF StartWorkerMist, Mqtt
    <3> QED BY <1>1, <1>4, <3>1
  <2> QED BY <1>2, <1>6, <2>1, DriverFrame
<1>7. ASSUME NEW p \in Pods, PodSteps(p) \/ PodFails(p) PROVE subscriber' \in [Workers -> Subscribers]
  <2>1. CASE PodAppears(p) \/ PodAssigned(p) \/ PodSleeps(p) \/ PodRemoved(p)
    BY <1>2, <2>1 DEF PodAppears, PodAssigned, PodSleeps, PodRemoved
  <2>2. CASE PodRuns(p) \/ PodFails(p)
    <3>1. pods[p] \in {"assigned", "Running"}
      BY <2>2 DEF PodRuns, PodFails
    <3>2. CASE ~Mqtt
      BY <1>2, <3>2, NoSubscriber
    <3>3. CASE Mqtt
      <4>1. p \in Listed /\ p[1] \in {"cache", "work"} /\ Manager # "none" /\ Manager # "kubecontrol"
        BY <3>1, <3>3 DEF Listed, Pods, Mqtt
      <4>2. p[1] = "work" /\ p \in PodsOf("work")
        BY <4>1 DEF IInv, PodsInv
      <4>3. p[2] \in Workers
        BY <1>1, <3>3, <4>1, <4>2, ConfigType, PodsOfJob DEF PodsOf
      <4>4. CASE PodRuns(p)
        <5>1. subscriber' = [subscriber EXCEPT ![p[2]] = Launched]
          BY <3>3, <4>4 DEF PodRuns
        <5> QED BY <1>3, <1>4, <3>3, <4>3, <5>1
      <4>5. CASE PodFails(p)
        <5>1. subscriber' = [subscriber EXCEPT ![p[2]].state = "ended"]
          BY <3>3, <4>5 DEF PodFails
        <5>2. "ended" \in States
          BY DEF States
        <5> QED BY <1>5, <4>3, <5>1, <5>2
      <4> QED BY <2>2, <4>4, <4>5
    <3> QED BY <3>2, <3>3
  <2> QED BY <1>7, <2>1, <2>2 DEF PodSteps
<1>8. ASSUME NEW e \in Endpoints,
             PublisherSubscribes(e) \/ SendsAll(e) \/ Combine(e) \/ Classifies(e) \/ EndpointFails(e)
      PROVE  subscriber' \in [Workers -> Subscribers]
  <2>1. CASE Send(e)
    <3> DEFINE w == RemoteOf(e)
               m == Message(e, publisher[e].sent + 1)
    <3>1. e \in Started /\ Mqtt /\ publisher[e].sent \in Nat /\ publisher[e].sent <= MaxImgs /\ MaxImgs \in Nat
      BY <1>1, <2>1, ProgramTypes DEF Send, Publishing, IInv, LoopsInv
    <3>2. w \in Workers
      BY <1>1, <3>1, StartedEndpoints, ConfigType
    <3>3. m \in Items
      BY <3>1 DEF Message, Items
    <3>4. subscriber' = subscriber \/ subscriber' = [subscriber EXCEPT ![w].work_queue = Append(@, m)]
      BY <2>1 DEF Send
    <3> HIDE DEF w, m
    <3>5. ASSUME subscriber' = [subscriber EXCEPT ![w].work_queue = Append(@, m)]
          PROVE  subscriber' \in [Workers -> Subscribers]
      <4> DEFINE q == Append(subscriber[w].work_queue, m)
                 s == [subscriber[w] EXCEPT !.work_queue = q]
      <4>1. subscriber[w] \in Subscribers
        BY <1>1, <3>2
      <4>2. q \in Seq(Items)
        BY <1>1, <3>2, <3>3, ProgramTypes, AppendProperties
      <4>3. subscriber' = [subscriber EXCEPT ![w] = s]
        BY <3>5
      <4> HIDE DEF q
      <4>4. s \in Subscribers
        BY <4>1, <4>2, FieldsOfSubscriber DEF Subscribers
      <4> HIDE DEF s
      <4> QED BY <1>3, <3>2, <4>3, <4>4
    <3> QED BY <1>2, <3>4, <3>5
  <2>2. CASE PublisherSubscribes(e) \/ AllReceived(e) \/ Combine(e) \/ Classifies(e) \/ EndpointFails(e)
    BY <1>2, <2>2 DEF PublisherSubscribes, AllReceived, Combine, Classifies, Generate, QueueEmpty,
       Take, Classify, CombinedBecomes, EndpointFails, programs
  <2> QED BY <1>8, <2>1, <2>2 DEF SendsAll
<1>9. ASSUME NEW w \in Workers, Main(w) \/ GetItem(w) \/ Tflite(w) PROVE subscriber' \in [Workers -> Subscribers]
  <2> DEFINE s == subscriber[w]
  <2>1. /\ s \in Subscribers /\ s.work_queue \in Seq(Items) /\ s.in_work \subseteq Items
        /\ s.endpoints_connected \in 0 .. config.endpoints /\ s.images_processed \in Nat
    BY <1>1, ProgramTypes
  <2>2. CASE WorkerSubscribes(w) \/ AllDisconnected(w) \/ Terminate(w)
    <3>1. \E state \in States : subscriber' = [subscriber EXCEPT ![w].state = state]
      BY <2>2 DEF WorkerSubscribes, AllDisconnected, Terminate, States
    <3> QED BY <1>5, <3>1
  <2>3. ASSUME NEW item, ClientDisconnected(w, item) \/ Reply(w, item) PROVE subscriber' \in [Workers -> Subscribers]
    <3>1. Mqtt
      <4>1. s.in_work # {}
        BY <2>3 DEF ClientDisconnected, Reply
      <4> QED BY <4>1 DEF IInv, MessagesInv
    <3> DEFINE a == s.in_work \ {item}
               t == [s EXCEPT !.in_work = a]
    <3>2. a \in SUBSET Items
      BY <2>1
    <3> HIDE DEF a
    <3>3. t \in Subscribers /\ t.endpoints_connected = s.endpoints_connected
      BY <2>1, <3>2, FieldsOfSubscriber DEF Subscribers
    <3>4. CASE Reply(w, item)
      <4>1. subscriber' = [subscriber EXCEPT ![w] = t]
        BY <3>4 DEF Reply, a
      <4> HIDE DEF t
      <4> QED BY <1>3, <3>3, <4>1
    <3>5. CASE ClientDisconnected(w, item)
      <4> DEFINE n == s.endpoints_connected - 1
                 u == [t EXCEPT !.endpoints_connected = n]
      <4>1. subscriber' = [subscriber EXCEPT ![w] = u]
        BY <3>5 DEF ClientDisconnected, a
      <4>2. n \in 0 .. config.endpoints
        <5>1. s.endpoints_connected > 0
          BY <3>1, <3>5, DoneKeeps
        <5>2. config.endpoints \in Nat
          BY <1>1, ConfigType
        <5> QED BY <2>1, <5>1, <5>2
      <4> HIDE DEF n, t
      <4>3. u \in Subscribers
        BY <3>3, <4>2, FieldsOfSubscriber DEF Subscribers
      <4> HIDE DEF u
      <4> QED BY <1>3, <4>1, <4>3
    <3> QED BY <2>3, <3>4, <3>5
  <2>4. CASE GetItem(w)
    <3> DEFINE q == Tail(s.work_queue)
               a == s.in_work \cup {Head(s.work_queue)}
               n == IF Head(s.work_queue)[2] = 0 THEN s.images_processed ELSE s.images_processed + 1
               t == [s EXCEPT !.work_queue = q]
               u == [t EXCEPT !.in_work = a]
               v == [u EXCEPT !.images_processed = n]
    <3>1. q \in Seq(Items) /\ Head(s.work_queue) \in Items
      BY <2>1, <2>4, HeadTailProperties DEF GetItem
    <3>2. a \in SUBSET Items /\ n \in Nat
      BY <2>1, <3>1
    <3>3. subscriber' = [subscriber EXCEPT ![w] = v]
      BY <2>4 DEF GetItem
    <3> HIDE DEF q, a, n
    <3>4. t \in Subscribers
      BY <2>1, <3>1, FieldsOfSubscriber DEF Subscribers
    <3> HIDE DEF t
    <3>5. u \in Subscribers
      BY <3>2, <3>4, FieldsOfSubscriber DEF Subscribers
    <3> HIDE DEF u
    <3>6. v \in Subscribers
      BY <3>2, <3>5, FieldsOfSubscriber DEF Subscribers
    <3> HIDE DEF v
    <3> QED BY <1>3, <3>3, <3>6
  <2> QED BY <1>9, <2>2, <2>3, <2>4 DEF Main, Tflite
<1>10. CASE Others
  BY <1>2, <1>7, <1>8, <1>9, <1>10 DEF Others, NodeReady, vars, programs
<1> QED BY <1>6, <1>10, NextSteps

\* A publisher sends no more than its images and their end, and counts no more
\* replies than it has sent images.
Publishers == [subscribed : BOOLEAN, sent : 0 .. MaxImgs + 1, RECEIVED : 0 .. MaxImgs]

LEMMA PublisherStep == IInv /\ [Next]_vars => publisher' \in [Endpoints -> Publishers]
<1> SUFFICES ASSUME IInv, [Next]_vars PROVE publisher' \in [Endpoints -> Publishers]
  OBVIOUS
<1>1. TypeOK /\ config \in Configs /\ publisher \in [Endpoints -> Publishers]
  BY DEF IInv, TypeOK, Publishers
<1>2. CASE publisher' = publisher
  BY <1>1, <1>2
<1>3. ASSUME NEW e \in Endpoints, NEW p \in Publishers, publisher' = [publisher EXCEPT ![e] = p]
      PROVE  publisher' \in [Endpoints -> Publishers]
  BY <1>1, <1>3
<1>4. CASE Driver
  BY <1>2, <1>4, DriverFrame
<1>5. ASSUME NEW p \in Pods, PodSteps(p) \/ PodFails(p) PROVE publisher' = publisher
  BY <1>5 DEF PodSteps, PodFails, PodAppears, PodAssigned, PodRuns, PodSleeps, PodRemoved, PodBecomes
<1>6. ASSUME NEW e \in Endpoints,
             PublisherSubscribes(e) \/ SendsAll(e) \/ Combine(e) \/ Classifies(e) \/ EndpointFails(e)
      PROVE  publisher' \in [Endpoints -> Publishers]
  <2>1. publisher[e] \in Publishers /\ TRUE \in BOOLEAN
    BY <1>1
  <2>2. CASE PublisherSubscribes(e)
    <3> DEFINE p == [publisher[e] EXCEPT !.subscribed = TRUE]
    <3>1. p \in Publishers
      BY <2>1, FieldsOfPublisher DEF Publishers
    <3>2. publisher' = [publisher EXCEPT ![e] = p]
      BY <2>2 DEF PublisherSubscribes
    <3> HIDE DEF p
    <3> QED BY <1>3, <3>1, <3>2
  <2>3. CASE Send(e)
    <3> DEFINE n == publisher[e].sent + 1
               p == [publisher[e] EXCEPT !.sent = n]
    <3>1. publisher' = [publisher EXCEPT ![e] = p]
      BY <2>3 DEF Send
    <3>2. n \in 0 .. MaxImgs + 1
      <4>1. publisher[e].sent \in Nat /\ publisher[e].sent <= MaxImgs /\ MaxImgs \in Nat
        BY <1>1, <2>3, ProgramTypes DEF Send
      <4> QED BY <4>1
    <3> HIDE DEF n
    <3>3. p \in Publishers
      BY <2>1, <3>2, FieldsOfPublisher DEF Publishers
    <3> HIDE DEF p
    <3> QED BY <1>3, <3>1, <3>3
  <2>4. CASE AllReceived(e) \/ Combine(e) \/ Classifies(e) \/ EndpointFails(e)
    BY <1>2, <2>4 DEF AllReceived, Combine, Classifies, Generate, QueueEmpty, Take, Classify, CombinedBecomes,
       EndpointFails, programs
  <2> QED BY <1>6, <2>2, <2>3, <2>4 DEF SendsAll
<1>7. ASSUME NEW w \in Workers, Main(w) \/ GetItem(w) \/ Tflite(w) PROVE publisher' \in [Endpoints -> Publishers]
  <2>1. CASE Main(w) \/ GetItem(w)
    BY <1>2, <2>1 DEF Main, GetItem, WorkerSubscribes, AllDisconnected, Terminate
  <2>2. ASSUME NEW item, ClientDisconnected(w, item) PROVE publisher' = publisher
    BY <2>2 DEF ClientDisconnected
  <2>3. ASSUME NEW item, Reply(w, item) PROVE publisher' \in [Endpoints -> Publishers]
    <3> DEFINE e == item[1]
               n == publisher[e].RECEIVED + 1
               p == [publisher[e] EXCEPT !.RECEIVED = n]
    <3>1. Mqtt
      <4>1. subscriber[w].in_work # {}
        BY <2>3 DEF Reply
      <4> QED BY <4>1 DEF IInv, MessagesInv
    <3>2. item \in Held(subscriber[w])
      BY <3>1, <2>3, DoneKeeps
    <3>3. e \in Started /\ e \in Endpoints
      BY <1>1, <3>1, <3>2, StartedEndpoints DEF IInv, MessagesInv, Of
    <3>4. publisher' = publisher \/ publisher' = [publisher EXCEPT ![e] = p]
      BY <2>3 DEF Reply
    <3>5. ASSUME publisher' = [publisher EXCEPT ![e] = p] PROVE n \in 0 .. MaxImgs
      <4>1. publisher[e].RECEIVED \in Nat /\ MaxImgs \in Nat
        BY <1>1, <3>3, ProgramTypes
      <4>2. publisher'[e].RECEIVED = n
        BY <1>1, <3>3, <3>5 DEF Publishers
      <4>3. publisher'[e].RECEIVED + Cardinality(Unanswered(e)') <= MaxImgs
        <5>1. Mqtt' /\ Started' = Started
          BY <3>1, ConfigStays
        <5> QED BY <3>3, <5>1, MessagesStep DEF MessagesInv
      <4>4. Cardinality(Unanswered(e)') \in Nat
        BY UnansweredType
      <4> QED BY <4>1, <4>2, <4>3, <4>4
    <3> HIDE DEF n
    <3>6. ASSUME publisher' = [publisher EXCEPT ![e] = p] PROVE p \in Publishers
      <4>1. publisher[e] \in Publishers
        BY <1>1, <3>3
      <4> QED BY <3>5, <3>6, <4>1, FieldsOfPublisher DEF Publishers
    <3> HIDE DEF p, e
    <3> QED BY <1>2, <1>3, <3>3, <3>4, <3>6
  <2> QED BY <1>2, <1>7, <2>1, <2>2, <2>3 DEF Tflite
<1>8. CASE Others
  BY <1>2, <1>5, <1>6, <1>7, <1>8 DEF Others, NodeReady, vars, programs
<1> QED BY <1>4, <1>8, NextSteps

\* combined.py has generated and classified no more than its images.
Combiners == [generated : 0 .. MaxImgs, processed : 0 .. MaxImgs, working : BOOLEAN]

LEMMA CombinerStep == IInv /\ [Next]_vars => combined' \in [Endpoints -> Combiners]
<1> SUFFICES ASSUME IInv, [Next]_vars PROVE combined' \in [Endpoints -> Combiners]
  OBVIOUS
<1>1. combined \in [Endpoints -> Combiners]
  BY DEF IInv, TypeOK, Combiners
<1>2. CASE combined' = combined
  BY <1>1, <1>2
<1>3. ASSUME NEW e \in Endpoints, NEW c \in Combiners, CombinedBecomes(e, c)
      PROVE  combined' \in [Endpoints -> Combiners]
  BY <1>1, <1>3 DEF CombinedBecomes
<1>4. CASE Driver
  BY <1>2, <1>4, DriverFrame
<1>5. ASSUME NEW e \in Endpoints, Combine(e) \/ Classifies(e) PROVE combined' \in [Endpoints -> Combiners]
  <2> DEFINE c == combined[e]
  <2>1. c \in Combiners
    BY <1>1
  <2>2. c.generated \in 0 .. MaxImgs /\ c.processed \in 0 .. MaxImgs /\ MaxImgs \in Nat
    <3>1. c.generated \in 0 .. MaxImgs /\ c.processed \in 0 .. MaxImgs
      BY <2>1 DEF Combiners
    <3> QED BY <3>1, ApplicationAssumption
  <2>3. TRUE \in BOOLEAN /\ FALSE \in BOOLEAN
    OBVIOUS
  <2>4. CASE Generate(e)
    <3> DEFINE n == c.generated + 1
               d == [c EXCEPT !.generated = n]
    <3>1. CombinedBecomes(e, d) /\ c.generated < MaxImgs
      BY <2>4 DEF Generate
    <3>2. n \in 0 .. MaxImgs
      BY <2>2, <3>1
    <3> HIDE DEF n
    <3>3. d \in Combiners
      BY <2>1, <3>2, FieldsOfCombined DEF Combiners
    <3> HIDE DEF d
    <3> QED BY <1>3, <3>1, <3>3
  <2>5. CASE QueueEmpty(e)
    BY <1>2, <2>5 DEF QueueEmpty, programs
  <2>6. CASE Take(e)
    <3> DEFINE d == [c EXCEPT !.working = TRUE]
    <3>1. CombinedBecomes(e, d)
      BY <2>6 DEF Take
    <3>2. d \in Combiners
      BY <2>1, <2>3, FieldsOfCombined DEF Combiners
    <3> HIDE DEF d
    <3> QED BY <1>3, <3>1, <3>2
  <2>7. CASE Classify(e)
    <3> DEFINE n == c.processed + 1
               d == [c EXCEPT !.working = FALSE, !.processed = n]
    <3>1. CombinedBecomes(e, d) /\ c.working
      BY <2>7 DEF Classify
    <3>2. InWork(c) = 1
      BY <3>1 DEF InWork
    <3>3. c.processed + InWork(c) <= c.generated
      BY DEF IInv, CombinedInv
    <3>4. n \in 0 .. MaxImgs
      BY <2>2, <3>2, <3>3
    <3> HIDE DEF n
    <3>5. d \in Combiners
      BY <2>1, <2>3, <3>4, FieldsOfCombined DEF Combiners
    <3> HIDE DEF d
    <3> QED BY <1>3, <3>1, <3>5
  <2> QED BY <1>5, <2>4, <2>5, <2>6, <2>7 DEF Combine, Classifies
<1>6. CASE Others
  <2>1. ASSUME NEW p \in Pods, PodSteps(p) \/ PodFails(p) PROVE combined' = combined
    BY <2>1 DEF PodSteps, PodFails, PodAppears, PodAssigned, PodRuns, PodSleeps, PodRemoved, PodBecomes
  <2>2. ASSUME NEW e \in Endpoints, PublisherSubscribes(e) \/ SendsAll(e) \/ EndpointFails(e)
        PROVE  combined' = combined
    BY <2>2 DEF PublisherSubscribes, SendsAll, Send, AllReceived, EndpointFails, Outside, programs
  <2>3. ASSUME NEW w \in Workers, Main(w) \/ GetItem(w) \/ Tflite(w) PROVE combined' = combined
    BY <2>3 DEF Main, GetItem, Tflite, WorkerSubscribes, AllDisconnected, Terminate, ClientDisconnected, Reply, Outside
  <2> QED BY <1>2, <1>5, <1>6, <2>1, <2>2, <2>3 DEF Others, NodeReady, vars, programs
<1> QED BY <1>4, <1>6, NextSteps

\* Containers that fail are counted up to the bound.
LEMMA FlagsStep ==
    IInv /\ [Next]_vars => early' \in BOOLEAN /\ slow' \in BOOLEAN /\ faults' \in 0 .. MaxFaults
<1> SUFFICES ASSUME IInv, [Next]_vars PROVE early' \in BOOLEAN /\ slow' \in BOOLEAN /\ faults' \in 0 .. MaxFaults
  OBVIOUS
<1>1. early \in BOOLEAN /\ slow \in BOOLEAN /\ faults \in 0 .. MaxFaults /\ MaxFaults \in Nat
  BY ApplicationAssumption DEF IInv, TypeOK
<1>2. CASE UNCHANGED <<early, slow, faults>>
  BY <1>1, <1>2
<1>3. CASE Driver
  BY <1>2, <1>3, DriverFrame DEF environment
<1>4. ASSUME UNCHANGED <<early, slow>>, faults < MaxFaults, faults' = faults + 1
      PROVE  early' \in BOOLEAN /\ slow' \in BOOLEAN /\ faults' \in 0 .. MaxFaults
  <2>1. faults' \in 0 .. MaxFaults
    BY <1>1, <1>4
  <2> QED BY <1>1, <1>4, <2>1
<1>5. ASSUME NEW p \in Pods, PodSteps(p) \/ PodFails(p)
      PROVE  early' \in BOOLEAN /\ slow' \in BOOLEAN /\ faults' \in 0 .. MaxFaults
  BY <1>2, <1>4, <1>5 DEF PodSteps, PodFails, PodAppears, PodAssigned, PodRuns, PodSleeps, PodRemoved, PodBecomes
<1>6. ASSUME UNCHANGED faults, early' = early \/ (\E a \in BOOLEAN : early' = a),
             slow' = slow \/ (\E a \in BOOLEAN : slow' = a)
      PROVE  early' \in BOOLEAN /\ slow' \in BOOLEAN /\ faults' \in 0 .. MaxFaults
  <2>1. faults' \in 0 .. MaxFaults
    BY <1>1, <1>6
  <2> QED BY <1>1, <1>6, <2>1
<1>7. ASSUME NEW e \in Endpoints,
             PublisherSubscribes(e) \/ SendsAll(e) \/ Combine(e) \/ Classifies(e) \/ EndpointFails(e)
      PROVE  early' \in BOOLEAN /\ slow' \in BOOLEAN /\ faults' \in 0 .. MaxFaults
  <2>1. CASE Send(e)
    <3> DEFINE a == early \/ subscriber[RemoteOf(e)].state \in {"absent", "connecting"}
    <3>1. a \in BOOLEAN /\ early' = a /\ UNCHANGED <<slow, faults>>
      BY <2>1, Zenon DEF Send, Outside
    <3> QED BY <1>6, <3>1, Zenon
  <2>2. CASE EndpointFails(e)
    BY <1>4, <2>2 DEF EndpointFails
  <2>3. CASE PublisherSubscribes(e) \/ AllReceived(e) \/ Combine(e) \/ Classifies(e)
    BY <1>2, <2>3 DEF PublisherSubscribes, AllReceived, Combine, Classifies, Generate, QueueEmpty, Take, Classify,
       CombinedBecomes, Outside, environment
  <2> QED BY <1>7, <2>1, <2>2, <2>3 DEF SendsAll
<1>8. ASSUME NEW w \in Workers, Main(w) \/ GetItem(w) \/ Tflite(w)
      PROVE  early' \in BOOLEAN /\ slow' \in BOOLEAN /\ faults' \in 0 .. MaxFaults
  <2>1. CASE Terminate(w)
    <3> DEFINE a == slow \/ subscriber[w].in_work # {}
    <3>1. a \in BOOLEAN /\ slow' = a /\ UNCHANGED <<early, faults>>
      BY <2>1, Zenon DEF Terminate, Outside
    <3> QED BY <1>6, <3>1, Zenon
  <2>2. ASSUME NEW item, Reply(w, item) PROVE early' \in BOOLEAN /\ slow' \in BOOLEAN /\ faults' \in 0 .. MaxFaults
    <3> DEFINE a == early \/ ~publisher[item[1]].subscribed
    <3>1. a \in BOOLEAN /\ early' = a /\ UNCHANGED <<slow, faults>>
      BY <2>2, Zenon DEF Reply, Outside
    <3> QED BY <1>6, <3>1, Zenon
  <2>3. CASE WorkerSubscribes(w) \/ AllDisconnected(w) \/ GetItem(w)
    BY <1>2, <2>3 DEF WorkerSubscribes, AllDisconnected, GetItem, Outside
  <2>4. ASSUME NEW item, ClientDisconnected(w, item) PROVE UNCHANGED <<early, slow, faults>>
    BY <2>4 DEF ClientDisconnected, Outside
  <2> QED BY <1>2, <1>8, <2>1, <2>2, <2>3, <2>4 DEF Main, Tflite
<1>9. CASE Others
  BY <1>2, <1>5, <1>7, <1>8, <1>9 DEF Others, NodeReady, vars, environment
<1> QED BY <1>3, <1>9, NextSteps

LEMMA TypeStep == IInv /\ [Next]_vars => TypeOK'
<1> SUFFICES ASSUME IInv, [Next]_vars PROVE TypeOK'
  OBVIOUS
<1>1. config' = config
  BY ConfigStays
<1>2. subscriber' \in [Workers -> [state : {"absent", "connecting", "subscribed", "closing", "ended"},
                                   work_queue : Seq(Items), in_work : SUBSET Items,
                                   endpoints_connected : 0 .. config'.endpoints, images_processed : Nat]]
  BY <1>1, SubscriberStep DEF Subscribers, States
<1>3. publisher' \in [Endpoints -> [subscribed : BOOLEAN, sent : 0 .. MaxImgs + 1, RECEIVED : 0 .. MaxImgs]]
  BY PublisherStep DEF Publishers
<1>4. combined' \in [Endpoints -> [generated : 0 .. MaxImgs, processed : 0 .. MaxImgs, working : BOOLEAN]]
  BY CombinerStep DEF Combiners
<1> QED BY <1>2, <1>3, <1>4, DriverTypes, FlagsStep, Zenon DEF TypeOK

-------------------------------------------------------------------------------
(* Matching lines with containers *)

\* No two arguments of f have one value.
Apart(f, S) == \A x, y \in S : f[x] = f[y] => x = y

\* k is not among the first j values of a.
Free(a, j, k) == \A l \in 1..j : a[l] # k

\* f has one value more than a.
HasMore(j, m, V, f, a) ==
    /\ j \in Nat /\ m = j + 1
    /\ f \in [1..m -> V] /\ Apart(f, 1..m) /\ a \in [1..j -> V]

\* So one of its values is not among those of a.
LEMMA OneIsFree ==
    \A j, m, V, f, a : HasMore(j, m, V, f, a) => \E x \in 1..m : Free(a, j, f[x])
<1> SUFFICES ASSUME NEW j, NEW m, NEW V, NEW f, NEW a, HasMore(j, m, V, f, a), ~\E x \in 1..m : Free(a, j, f[x])
             PROVE  FALSE
  OBVIOUS
<1> DEFINE S == 1..m
           T == 1..j
           of(x) == CHOOSE l \in T : a[l] = f[x]
           g == [x \in S |-> of(x)]
<1>1. IsFiniteSet(S) /\ IsFiniteSet(T) /\ Cardinality(S) = j + 1 /\ Cardinality(T) = j /\ j \in Nat
  <2>1. j \in Nat /\ m \in Nat /\ m = j + 1
    BY DEF HasMore
  <2> QED BY <2>1, FS_Interval
<1>2. /\ \A x \in S : of(x) \in T /\ a[of(x)] = f[x]
      /\ \A x, y \in S : f[x] = f[y] => x = y
  BY DEF Free, HasMore, Apart
<1> HIDE DEF of
<1>3. g \in [S -> T] /\ \A x \in S : g[x] = of(x)
  BY <1>2
<1> HIDE DEF g, S, T
<1>4. PICK x, y \in S : x # y /\ g[x] = g[y]
  <2>1. Cardinality(T) < Cardinality(S)
    BY <1>1
  <2> QED BY <1>1, <1>3, <2>1, FS_PigeonHole
<1>5. f[x] = f[y]
  BY <1>2, <1>3, <1>4
<1> QED BY <1>2, <1>4, <1>5

\* A function of 1..n that keeps its arguments apart reaches all of 1..n.
LEMMA ReachesAll ==
    \A n \in Nat : \A f \in [1..n -> 1..n] : Apart(f, 1..n) => \A y \in 1..n : \E x \in 1..n : f[x] = y
<1> SUFFICES ASSUME NEW n \in Nat, NEW f \in [1..n -> 1..n], Apart(f, 1..n), NEW y \in 1..n
             PROVE  \E x \in 1..n : f[x] = y
  OBVIOUS
<1> SUFFICES ASSUME \A x \in 1..n : f[x] # y PROVE FALSE
  OBVIOUS
<1> DEFINE value(x) == IF x \in 1..n THEN f[x] ELSE y
           g == [x \in 1..(n + 1) |-> value(x)]
           a == [x \in 1..n |-> x]
<1>1. \A x \in 1..(n + 1) : x \in 1..n \/ x = n + 1
  OBVIOUS
<1>2. n + 1 \notin 1..n
  OBVIOUS
<1>3. \A x \in 1..(n + 1) : value(x) \in 1..n
  OBVIOUS
<1>4. \A x, z \in 1..(n + 1) : value(x) = value(z) => x = z
  BY <1>1, <1>2 DEF Apart
<1> HIDE DEF value
<1>5. g \in [1..(n + 1) -> 1..n] /\ \A x \in 1..(n + 1) : g[x] = value(x)
  BY <1>3
<1>6. a \in [1..n -> 1..n] /\ \A x \in 1..n : a[x] = x
  OBVIOUS
<1> HIDE DEF g, a
<1>7. HasMore(n, n + 1, 1..n, g, a)
  <2>1. \A x, z \in 1..(n + 1) : g[x] = g[z] => x = z
    BY <1>4, <1>5
  <2>2. Apart(g, 1..(n + 1))
    BY <2>1 DEF Apart
  <2> QED BY <1>5, <1>6, <2>2 DEF HasMore
<1>8. PICK x \in 1..(n + 1) : Free(a, n, g[x])
  BY <1>7, OneIsFree
<1> QED BY <1>3, <1>5, <1>6, <1>8 DEF Free

\* n lines with the times h, the j-th that of s[j]; each has another time g
\* before or after it, and the container k has that of p[k].
Matching(n, h, g, s, p, future) ==
    /\ n \in Nat /\ h \in [1..n -> Nat] /\ g \in [1..n -> Nat]
    /\ s \in [1..n -> 1..n] /\ Apart(s, 1..n) /\ p \in [1..n -> 1..n] /\ Apart(p, 1..n)
    /\ \A j, l \in 1..n : j <= l => h[s[j]] <= h[s[l]]
    /\ \A q \in 1..n : IF future THEN h[q] < g[q] ELSE g[q] < h[q]

\* With a, the first j lines are with containers whose other time is not after that of
\* those without.
Taken(n, g, p, a, j) ==
    /\ j \in Nat /\ j <= n /\ a \in [1..j -> 1..n] /\ Apart(a, 1..j)
    /\ \A l \in 1..j : \A k \in 1..n : Free(a, j, k) => g[p[a[l]]] <= g[p[k]]

\* u is a container without a line whose other time is the first.
First(n, g, p, a, j, u) ==
    u \in 1..n /\ Free(a, j, u) /\ \A k \in 1..n : Free(a, j, k) => g[p[u]] <= g[p[k]]

\* The lines from the j-th on.
LEMMA LaterLines ==
    \A n, h, g, s, p, future : Matching(n, h, g, s, p, future) =>
        \A j \in Nat : j < n =>
           \A q \in 1..n : (\A l \in 1..j : s[l] # q) => h[s[j + 1]] <= h[q]
<1> SUFFICES ASSUME NEW n, NEW h, NEW g, NEW s, NEW p, NEW future, Matching(n, h, g, s, p, future),
                    NEW j \in Nat, j < n, NEW q \in 1..n, \A l \in 1..j : s[l] # q
             PROVE  h[s[j + 1]] <= h[q]
  OBVIOUS
<1>1. n \in Nat /\ s \in [1..n -> 1..n] /\ Apart(s, 1..n)
  BY DEF Matching
<1>2. PICK l \in 1..n : s[l] = q
  <2>1. \A y \in 1..n : \E x \in 1..n : s[x] = y
    BY ONLY <1>1, ReachesAll
  <2> QED BY <2>1
<1>3. j + 1 <= l /\ j + 1 \in 1..n
  BY <1>1, <1>2
<1> QED BY <1>2, <1>3 DEF Matching

\* The next line fits in the first container without one.
LEMMA FirstFits ==
    \A n, h, g, s, p, future, a, j, u :
        Matching(n, h, g, s, p, future) /\ Taken(n, g, p, a, j) /\ First(n, g, p, a, j, u) /\ j < n
        => IF future THEN h[s[j + 1]] < g[p[u]] ELSE g[p[u]] < h[s[j + 1]]
<1> SUFFICES ASSUME NEW n, NEW h, NEW g, NEW s, NEW p, NEW future, NEW a, NEW j, NEW u,
                    Matching(n, h, g, s, p, future), Taken(n, g, p, a, j), First(n, g, p, a, j, u), j < n
             PROVE  IF future THEN h[s[j + 1]] < g[p[u]] ELSE g[p[u]] < h[s[j + 1]]
  OBVIOUS
<1> DEFINE m == j + 1
           t == h[s[m]]
<1>1. /\ n \in Nat /\ h \in [1..n -> Nat] /\ g \in [1..n -> Nat]
      /\ s \in [1..n -> 1..n] /\ Apart(s, 1..n) /\ p \in [1..n -> 1..n] /\ Apart(p, 1..n)
      /\ \A k, l \in 1..n : k <= l => h[s[k]] <= h[s[l]]
      /\ \A q \in 1..n : IF future THEN h[q] < g[q] ELSE g[q] < h[q]
  BY DEF Matching
<1>2. /\ j \in Nat /\ a \in [1..j -> 1..n] /\ Apart(a, 1..j)
      /\ \A l \in 1..j : \A k \in 1..n : Free(a, j, k) => g[p[a[l]]] <= g[p[k]]
  BY DEF Taken
<1>3. u \in 1..n /\ Free(a, j, u) /\ \A k \in 1..n : Free(a, j, k) => g[p[u]] <= g[p[k]]
  BY DEF First
<1>4. m \in 1..n /\ m = j + 1 /\ (\A x \in 1..m : x \in 1..n /\ (x \in 1..j \/ x = m)) /\ m \notin 1..j
      /\ \A x \in 1..j : x \in 1..n
  BY <1>1, <1>2
<1>5. \A q \in 1..n : Free(s, j, q) => t <= h[q]
  BY <1>2, LaterLines DEF Free
<1> HIDE DEF m
<1>6. CASE future
  <2> SUFFICES ASSUME ~(t < g[p[u]]) PROVE FALSE
    BY <1>6 DEF m
  <2> DEFINE value(x) == IF x = m THEN p[u] ELSE p[a[x]]
             f == [x \in 1..m |-> value(x)]
             r == [x \in 1..j |-> s[x]]
  <2>1. \A x \in 1..m : value(x) \in 1..n
    BY <1>1, <1>2, <1>3, <1>4
  <2>2. \A x, y \in 1..m : value(x) = value(y) => x = y
    <3>1. \A x \in 1..j : a[x] \in 1..n /\ a[x] # u
      BY <1>2, <1>3 DEF Free
    <3>2. \A x, y \in 1..n : p[x] = p[y] => x = y
      BY <1>1 DEF Apart
    <3>3. \A x, y \in 1..j : a[x] = a[y] => x = y
      BY <1>2 DEF Apart
    <3>4. (\A x \in 1..j : p[a[x]] # p[u]) /\ \A x, y \in 1..j : p[a[x]] = p[a[y]] => x = y
      BY <1>3, <3>1, <3>2, <3>3
    <3> QED BY <1>4, <3>4
  <2>3. \A x \in 1..m : g[value(x)] <= g[p[u]]
    <3>1. g[p[u]] \in Nat
      BY <1>1, <1>3
    <3> QED BY <1>2, <1>3, <1>4, <3>1
  <2> HIDE DEF value
  <2>4. f \in [1..m -> 1..n] /\ Apart(f, 1..m) /\ \A x \in 1..m : f[x] = value(x)
    BY <2>1, <2>2 DEF Apart
  <2>5. r \in [1..j -> 1..n] /\ \A x \in 1..j : r[x] = s[x]
    BY <1>1, <1>4
  <2> HIDE DEF f, r
  <2>6. HasMore(j, m, 1..n, f, r)
    BY <1>2, <1>4, <2>4, <2>5 DEF HasMore
  <2>7. PICK x \in 1..m : Free(r, j, f[x])
    BY <2>6, OneIsFree
  <2> DEFINE q == f[x]
  <2>8. q \in 1..n /\ Free(s, j, q) /\ g[q] <= g[p[u]]
    BY <2>3, <2>4, <2>5, <2>7 DEF Free
  <2> HIDE DEF q
  <2>9. t <= h[q] /\ h[q] < g[q] /\ t \in Nat /\ h[q] \in Nat /\ g[q] \in Nat /\ g[p[u]] \in Nat
    BY <1>1, <1>3, <1>4, <1>5, <1>6, <2>8
  <2> HIDE DEF t
  <2> QED BY <2>8, <2>9
<1>7. CASE ~future
  <2> DEFINE at(y) == CHOOSE x \in 1..n : p[x] = y
             f == [x \in 1..m |-> at(s[x])]
  <2>1. \A y \in 1..n : at(y) \in 1..n /\ p[at(y)] = y
    BY <1>1, ReachesAll
  <2> HIDE DEF at
  <2>2. f \in [1..m -> 1..n] /\ \A x \in 1..m : p[f[x]] = s[x]
    BY <1>1, <1>4, <2>1
  <2> HIDE DEF f
  <2>3. Apart(f, 1..m)
    <3>1. \A x, y \in 1..n : s[x] = s[y] => x = y
      BY <1>1 DEF Apart
    <3>2. \A x, y \in 1..m : f[x] = f[y] => s[x] = s[y]
      BY <2>2
    <3>3. \A x, y \in 1..m : f[x] = f[y] => x = y
      BY <1>4, <3>1, <3>2
    <3> QED BY <3>3 DEF Apart
  <2>4. HasMore(j, m, 1..n, f, a)
    BY <1>2, <1>4, <2>2, <2>3 DEF HasMore
  <2>5. PICK x \in 1..m : Free(a, j, f[x])
    BY <2>4, OneIsFree
  <2>6. g[p[u]] <= g[s[x]]
    BY <1>3, <2>2, <2>5
  <2> DEFINE q == s[x]
  <2>7. q \in 1..n /\ x <= m /\ x \in 1..n
    BY <1>1, <1>4
  <2>8. h[q] <= t
    BY <1>1, <1>4, <2>7
  <2> HIDE DEF q
  <2>9. g[q] < h[q] /\ t \in Nat /\ h[q] \in Nat /\ g[q] \in Nat /\ g[p[u]] \in Nat
    BY <1>1, <1>3, <1>4, <1>7, <2>7
  <2>10. g[p[u]] <= g[q]
    BY <2>6 DEF q
  <2> HIDE DEF t
  <2>11. g[p[u]] < t
    BY <2>8, <2>9, <2>10
  <2> QED BY <1>7, <2>11 DEF t, m
<1> QED BY <1>6, <1>7

\* No line passes another, and every container has its own other time.
InOwnOrder(n, h, g, p) ==
    /\ \A q, r \in 1..n : h[q] < h[r] <=> g[q] < g[r]
    /\ \A k \in 1..n : g[p[k]] = g[k]

\* If no pod passes another and the other times are the containers' own, it
\* is the container's own line or one of the same time.
LEMMA FirstIsOwn ==
    \A n, h, g, s, p, future, a, j, u :
        /\ Matching(n, h, g, s, p, future) /\ Taken(n, g, p, a, j) /\ First(n, g, p, a, j, u) /\ j < n
        /\ InOwnOrder(n, h, g, p)
        => h[u] = h[s[j + 1]]
<1> SUFFICES ASSUME NEW n, NEW h, NEW g, NEW s, NEW p, NEW future, NEW a, NEW j, NEW u,
                    Matching(n, h, g, s, p, future), Taken(n, g, p, a, j), First(n, g, p, a, j, u), j < n,
                    InOwnOrder(n, h, g, p)
             PROVE  h[u] = h[s[j + 1]]
  OBVIOUS
<1> (\A q, r \in 1..n : h[q] < h[r] <=> g[q] < g[r]) /\ \A k \in 1..n : g[p[k]] = g[k]
  BY DEF InOwnOrder
<1> DEFINE m == j + 1
           t == h[s[m]]
<1>1. /\ n \in Nat /\ h \in [1..n -> Nat] /\ g \in [1..n -> Nat]
      /\ s \in [1..n -> 1..n] /\ Apart(s, 1..n)
      /\ \A k, l \in 1..n : k <= l => h[s[k]] <= h[s[l]]
  BY DEF Matching
<1>2. /\ j \in Nat /\ a \in [1..j -> 1..n] /\ Apart(a, 1..j)
      /\ \A l \in 1..j : \A k \in 1..n : Free(a, j, k) => g[a[l]] <= g[k]
  BY DEF Taken
<1>3. u \in 1..n /\ Free(a, j, u) /\ \A k \in 1..n : Free(a, j, k) => g[u] <= g[k]
  BY DEF First
<1>4. m \in 1..n /\ m = j + 1 /\ (\A x \in 1..m : x \in 1..n /\ (x \in 1..j \/ x = m)) /\ m \notin 1..j
      /\ \A x \in 1..j : x \in 1..n
  BY <1>1, <1>2
<1>5. \A q \in 1..n : Free(s, j, q) => t <= h[q]
  BY <1>2, LaterLines DEF Free
<1>6. h[u] \in Nat /\ t \in Nat
  BY <1>1, <1>3, <1>4
<1> HIDE DEF m
<1>7. ASSUME h[u] < t PROVE FALSE
  <2> DEFINE value(x) == IF x = m THEN u ELSE a[x]
             f == [x \in 1..m |-> value(x)]
             r == [x \in 1..j |-> s[x]]
  <2>1. \A x \in 1..m : value(x) \in 1..n
    BY <1>2, <1>3, <1>4
  <2>2. \A x, y \in 1..m : value(x) = value(y) => x = y
    BY <1>2, <1>3, <1>4 DEF Apart, Free
  <2>3. \A x \in 1..m : g[value(x)] <= g[u]
    <3>1. g[u] \in Nat
      BY <1>1, <1>3
    <3> QED BY <1>2, <1>3, <1>4, <3>1
  <2> HIDE DEF value
  <2>4. f \in [1..m -> 1..n] /\ Apart(f, 1..m) /\ \A x \in 1..m : f[x] = value(x)
    BY <2>1, <2>2 DEF Apart
  <2>5. r \in [1..j -> 1..n] /\ \A x \in 1..j : r[x] = s[x]
    BY <1>1, <1>4
  <2> HIDE DEF f, r
  <2>6. HasMore(j, m, 1..n, f, r)
    BY <1>2, <1>4, <2>4, <2>5 DEF HasMore
  <2>7. PICK x \in 1..m : Free(r, j, f[x])
    BY <2>6, OneIsFree
  <2> DEFINE q == f[x]
  <2>8. q \in 1..n /\ Free(s, j, q) /\ g[q] <= g[u]
    BY <2>3, <2>4, <2>5, <2>7 DEF Free
  <2> HIDE DEF q
  <2>9. t <= h[q] /\ h[q] \in Nat /\ g[q] \in Nat /\ g[u] \in Nat /\ (h[u] < h[q] => g[u] < g[q])
    BY <1>1, <1>3, <1>5, <2>8
  <2> HIDE DEF t
  <2> QED BY <1>6, <1>7, <2>8, <2>9
<1>8. ASSUME t < h[u] PROVE FALSE
  <2> DEFINE f == [x \in 1..m |-> s[x]]
  <2>1. f \in [1..m -> 1..n] /\ \A x \in 1..m : f[x] = s[x]
    BY <1>1, <1>4
  <2> HIDE DEF f
  <2>2. Apart(f, 1..m)
    BY <1>1, <1>4, <2>1 DEF Apart
  <2>3. HasMore(j, m, 1..n, f, a)
    BY <1>2, <1>4, <2>1, <2>2 DEF HasMore
  <2>4. PICK x \in 1..m : Free(a, j, f[x])
    BY <2>3, OneIsFree
  <2> DEFINE q == s[x]
  <2>5. q \in 1..n /\ x \in 1..n /\ x <= m
    BY <1>1, <1>4
  <2>6. g[u] <= g[q]
    BY <1>3, <2>1, <2>4, <2>5
  <2>7. h[q] <= t
    BY <1>1, <1>4, <2>5
  <2> HIDE DEF q
  <2>8. h[q] \in Nat /\ g[q] \in Nat /\ g[u] \in Nat /\ (h[q] < h[u] => g[q] < g[u])
    BY <1>1, <1>3, <2>5
  <2> HIDE DEF t
  <2> QED BY <1>6, <1>8, <2>6, <2>7, <2>8
<1>9. t = h[s[j + 1]]
  BY DEF m
<1> HIDE DEF t
<1> QED BY <1>6, <1>7, <1>8, <1>9

-----------------------------------------------------------------------------
(* Metrics, and what one line does *)

\* The metrics of n containers.
Metrics(n) == [1..n -> [Phases -> Nat]]

\* They are a list of length n.
LEMMA MetricsLen ==
    ASSUME NEW n \in Nat \ {0}, NEW M \in Metrics(n)
    PROVE  M # Exited /\ DOMAIN M = 1..n /\ Len(M) = n
<1>1. M \in Seq([Phases -> Nat]) /\ DOMAIN M = 1..n
  BY SeqDef DEF Metrics
<1>2. Len(M) = n
  BY <1>1, LenProperties
<1>3. M # <<>>
  BY <1>1, <1>2, EmptySeq
<1> QED BY <1>1, <1>2, <1>3 DEF Exited

\* N is M but for the time of one container.
Puts(N, M, n, k, tag, t) ==
    /\ N \in Metrics(n) /\ N[k][tag] = t
    /\ \A l \in 1..n : \A x \in Phases : l # k \/ x # tag => N[l][x] = M[l][x]

\* What the EXCEPT of SortOnTime does.
LEMMA PutsOne ==
    ASSUME NEW n, NEW M \in Metrics(n), NEW k \in 1..n, NEW tag \in Phases, NEW t \in Nat
    PROVE  Puts([M EXCEPT ![k][tag] = t], M, n, k, tag, t)
<1> DEFINE m == [M[k] EXCEPT ![tag] = t]
           N == [M EXCEPT ![k] = m]
<1>1. M[k] \in [Phases -> Nat] /\ \A l \in 1..n : M[l] \in [Phases -> Nat]
  BY DEF Metrics
<1>2. m \in [Phases -> Nat] /\ m[tag] = t /\ \A x \in Phases : x # tag => m[x] = M[k][x]
  BY <1>1
<1> HIDE DEF m
<1>3. N \in Metrics(n) /\ N[k] = m /\ \A l \in 1..n : l # k => N[l] = M[l]
  BY <1>2 DEF Metrics
<1> HIDE DEF N
<1>4. Puts(N, M, n, k, tag, t)
  BY <1>2, <1>3 DEF Puts
<1> QED BY <1>4 DEF N, m

\* A set of natural numbers has a minimum.
LEMMA MinIs ==
    ASSUME NEW S \in SUBSET Nat, S # {}
    PROVE  Min(S) \in S /\ \A y \in S : Min(S) <= y
<1>1. \E x \in S : \A y \in S : x <= y
  BY LeastNatural
<1> QED BY <1>1 DEF Min

\* Sorting on time gives the line to the first open container.
LEMMA SortOnTimeIs ==
    ASSUME NEW n \in Nat \ {0}, NEW M \in Metrics(n), NEW phase, NEW t \in Nat,
           phase.tag \in Phases, phase.compare \in Phases,
           \A k \in 1..n : M[k][phase.compare] # Unset, Open(M, phase, t) # {}
    PROVE  \E u \in Open(M, phase, t) :
              /\ \A k \in Open(M, phase, t) : /\ M[u][phase.compare] <= M[k][phase.compare]
                                              /\ M[u][phase.compare] = M[k][phase.compare] => u <= k
              /\ Puts(SortOnTime(M, phase, t), M, n, u, phase.tag, t)
<1> DEFINE open == Open(M, phase, t)
           cmp == phase.compare
           times == {M[k][cmp] : k \in open}
           time == Min(times)
           firsts == {k \in open : M[k][cmp] = time}
           u == Min(firsts)
<1>1. DOMAIN M = 1..n
  BY MetricsLen
<1>2. open \subseteq 1..n /\ \A k \in 1..n : M[k][cmp] \in Nat
  <2>1. open \subseteq 1..n
    BY <1>1 DEF Open
  <2>2. \A k \in 1..n : M[k] \in [Phases -> Nat]
    BY DEF Metrics
  <2> QED BY <2>1, <2>2
<1>3. SortOnTime(M, phase, t) = [M EXCEPT ![u][phase.tag] = t]
  BY <1>1 DEF SortOnTime
<1> HIDE DEF open
<1>4. times \in SUBSET Nat /\ times # {}
  BY <1>2 DEF open
<1> HIDE DEF times
<1>5. time \in times /\ \A y \in times : time <= y
  BY <1>4, MinIs
<1> HIDE DEF time
<1>6. firsts \in SUBSET Nat /\ firsts # {}
  <2>1. PICK k \in open : time = M[k][cmp]
    BY <1>5 DEF times
  <2>2. k \in firsts /\ firsts \subseteq open
    BY <2>1
  <2> HIDE DEF firsts
  <2>3. 1..n \subseteq Nat
    OBVIOUS
  <2> QED BY <1>2, <2>2, <2>3
<1> HIDE DEF firsts
<1>7. u \in firsts /\ \A k \in firsts : u <= k
  BY <1>6, MinIs
<1> HIDE DEF u
<1>8. u \in open /\ M[u][cmp] = time /\ u \in 1..n
  BY <1>2, <1>7 DEF firsts
<1>9. \A k \in open : M[u][cmp] <= M[k][cmp] /\ (M[u][cmp] = M[k][cmp] => u <= k)
  BY <1>5, <1>7, <1>8 DEF times, firsts
<1>10. Puts(SortOnTime(M, phase, t), M, n, u, phase.tag, t)
  <2> DEFINE N == [M EXCEPT ![u][phase.tag] = t]
  <2>1. Puts(N, M, n, u, phase.tag, t)
    BY <1>8, PutsOne
  <2> HIDE DEF N
  <2> QED BY <1>3, <2>1 DEF N
<1>11. /\ u \in Open(M, phase, t)
       /\ \A k \in Open(M, phase, t) : /\ M[u][phase.compare] <= M[k][phase.compare]
                                       /\ M[u][phase.compare] = M[k][phase.compare] => u <= k
  BY <1>8, <1>9 DEF open
<1> QED BY <1>10, <1>11

\* Inserting gives it to all its containers without a time.
LEMMA InsertIs ==
    ASSUME NEW n \in Nat \ {0}, NEW M \in Metrics(n), NEW phase, NEW line, phase.tag \in Phases, line.time \in Nat
    PROVE  LET N == Insert(M, phase, line)
           IN /\ N \in Metrics(n)
              /\ \A k \in 1..n : \A x \in Phases :
                    N[k][x] = IF x = phase.tag /\ k \in line.of /\ M[k][x] = Unset THEN line.time ELSE M[k][x]
<1> DEFINE tag == phase.tag
           put(k) == [M[k] EXCEPT ![tag] = line.time]
           N == [k \in 1..n |-> IF k \in line.of /\ M[k][tag] = Unset THEN put(k) ELSE M[k]]
<1>1. Insert(M, phase, line) = N
  BY MetricsLen DEF Insert
<1>2. \A k \in 1..n : M[k] \in [Phases -> Nat]
  BY DEF Metrics
<1>3. \A k \in 1..n : /\ put(k) \in [Phases -> Nat]
                      /\ \A x \in Phases : put(k)[x] = IF x = tag THEN line.time ELSE M[k][x]
  BY <1>2
<1> HIDE DEF put
<1>4. N \in Metrics(n)
  BY <1>2, <1>3 DEF Metrics
<1>5. \A k \in 1..n : N[k] = IF k \in line.of /\ M[k][tag] = Unset THEN put(k) ELSE M[k]
  OBVIOUS
<1> HIDE DEF N
<1>6. \A k \in 1..n : \A x \in Phases :
         N[k][x] = IF x = tag /\ k \in line.of /\ M[k][x] = Unset THEN line.time ELSE M[k][x]
  BY <1>3, <1>5
<1> QED BY <1>1, <1>4, <1>6

\* What the lines make of the metrics, one after the other.
Finds(f, metrics, phase, lines, n) ==
    /\ f[0] = [metrics |-> metrics, i |-> 0]
    /\ \A j \in 1..n : f[j] = CheckLine(f[j - 1], phase, lines[j])

LEMMA FindsFirst ==
    ASSUME NEW f, NEW metrics, NEW phase, NEW lines, NEW n, Finds(f, metrics, phase, lines, n)
    PROVE  f[0].metrics = metrics /\ f[0].i = 0
BY DEF Finds

LEMMA FindsNext ==
    ASSUME NEW f, NEW metrics, NEW phase, NEW lines, NEW n, Finds(f, metrics, phase, lines, n), NEW j \in 1..n
    PROVE  f[j] = CheckLine(f[j - 1], phase, lines[j])
BY DEF Finds

\* The recursive function of Check is such a function.
LEMMA CheckFinds ==
    ASSUME NEW metrics, NEW phase, NEW lines, Len(lines) \in Nat
    PROVE  \E f : /\ Finds(f, metrics, phase, lines, Len(lines))
                  /\ Check(metrics, phase, lines) = FillUp(f[Len(lines)], phase)
<1> DEFINE n == Len(lines)
           base == [metrics |-> metrics, i |-> 0]
           is(f, j) == IF j = 0 THEN base ELSE CheckLine(f[j - 1], phase, lines[j])
           Is(f) == f = [j \in 0..n |-> is(f, j)]
           Exists(m) == \E f : Finds(f, metrics, phase, lines, m)
           S == {m \in Nat : m <= n /\ ~Exists(m)}
<1>1. n \in Nat
  OBVIOUS
<1>2. Check(metrics, phase, lines) = FillUp((CHOOSE f : Is(f))[n], phase)
  BY DEF Check
<1> HIDE DEF n
<1>3. ASSUME S # {} PROVE FALSE
  <2>1. PICK m \in S : \A x \in S : m <= x
    <3>1. S \in SUBSET Nat
      OBVIOUS
    <3> HIDE DEF S
    <3> QED BY <1>3, <3>1, LeastNatural
  <2>2. m \in Nat /\ m <= n /\ ~Exists(m) /\ \A x \in Nat : x < m => Exists(x)
    <3>1. m \in Nat /\ m <= n /\ ~Exists(m)
      BY <2>1
    <3>2. ASSUME NEW x \in Nat, x < m PROVE Exists(x)
      <4>1. x \notin S /\ x <= n
        BY <1>1, <2>1, <3>1, <3>2
      <4> HIDE DEF Exists
      <4> QED BY <4>1
    <3> QED BY <3>1, <3>2
  <2>3. CASE m = 0
    <3> DEFINE f == [j \in 0..0 |-> base]
    <3>1. f[0] = base /\ \A j : j \notin 1..0
      OBVIOUS
    <3> HIDE DEF f
    <3>2. Finds(f, metrics, phase, lines, 0)
      BY <3>1 DEF Finds
    <3> QED BY <2>2, <2>3, <3>2
  <2>4. CASE m # 0
    <3>1. m - 1 \in Nat /\ m - 1 < m
      BY <2>2, <2>4
    <3>2. PICK f : Finds(f, metrics, phase, lines, m - 1)
      BY <2>2, <3>1
    <3> DEFINE value(j) == IF j = m THEN CheckLine(f[m - 1], phase, lines[m]) ELSE f[j]
               g == [j \in 0..m |-> value(j)]
    <3>3. \A j \in 0..m : g[j] = value(j)
      OBVIOUS
    <3> HIDE DEF g
    <3>4. g[0] = f[0] /\ g[m] = CheckLine(f[m - 1], phase, lines[m]) /\ \A j \in 0..(m - 1) : g[j] = f[j]
      BY <2>2, <2>4, <3>3
    <3>5. ASSUME NEW j \in 1..m PROVE g[j] = CheckLine(g[j - 1], phase, lines[j])
      <4>1. CASE j = m
        <5>1. m - 1 \in 0..(m - 1)
          BY <3>1
        <5> QED BY <3>4, <4>1, <5>1
      <4>2. CASE j # m
        <5>1. j \in 1..(m - 1) /\ j \in 0..(m - 1) /\ j - 1 \in 0..(m - 1)
          BY <2>2, <4>2
        <5> QED BY <3>2, <3>4, <5>1 DEF Finds
      <4> QED BY <4>1, <4>2
    <3>6. Finds(g, metrics, phase, lines, m)
      BY <3>2, <3>4, <3>5 DEF Finds
    <3> QED BY <2>2, <3>6
  <2> QED BY <2>3, <2>4
<1>4. PICK f : Finds(f, metrics, phase, lines, n)
  <2>1. n \notin S
    BY <1>3
  <2> HIDE DEF Exists
  <2>2. Exists(n)
    BY <1>1, <2>1
  <2> QED BY <2>2 DEF Exists
<1> DEFINE g == [j \in 0..n |-> f[j]]
<1>5. Is(g)
  <2>1. \A j \in 0..n : g[j] = f[j]
    OBVIOUS
  <2>2. \A j \in 0..n : j # 0 => j \in 1..n /\ j - 1 \in 0..n
    BY <1>1
  <2>3. \A j \in 0..n : f[j] = is(g, j)
    <3> HIDE DEF g
    <3> QED BY <1>4, <2>1, <2>2 DEF Finds
  <2>4. g = [j \in 0..n |-> is(g, j)]
    <3> HIDE DEF is
    <3> QED BY <2>3
  <2> QED BY <2>4
<1> HIDE DEF g
<1> DEFINE found == CHOOSE h : Is(h)
<1>6. Is(found)
  <2> HIDE DEF Is
  <2> QED BY <1>5
<1> HIDE DEF found
<1>7. Finds(found, metrics, phase, lines, n)
  <2> DEFINE v(j) == is(found, j)
  <2>1. found = [j \in 0..n |-> v(j)]
    BY <1>6
  <2> HIDE DEF v
  <2>2. \A j \in 0..n : found[j] = v(j)
    BY <2>1
  <2>3. 0 \in 0..n /\ \A j \in 1..n : j \in 0..n /\ j # 0
    BY <1>1
  <2>4. v(0) = base /\ \A j \in 1..n : v(j) = CheckLine(found[j - 1], phase, lines[j])
    BY <2>3 DEF v
  <2> QED BY <2>2, <2>3, <2>4 DEF Finds
<1> QED BY <1>2, <1>7 DEF n, found

-----------------------------------------------------------------------------
(* What Check does with the log of a phase *)

\* got times have been filled in, with these metrics.
FoundIs(found, M, got) == found.metrics = M /\ found.i = got

\* The two kinds of phases.
TaggedIs(phase, tag) == phase.tag = tag /\ phase.compare = "" /\ tag \in Phases

MatchedIs(phase, tag, cmp, future) ==
    /\ phase.tag = tag /\ phase.compare = cmp /\ phase.future = future
    /\ tag \in Phases /\ cmp \in Phases /\ tag # cmp

\* No phase has the name that stands for none.
LEMMA NoPhase == "" \notin Phases
BY DEF Phases

LineIs(line, t, S) == line.time = t /\ line.of = S

\* f is what the n lines make of the metrics, one after the other.
Unfolds(f, metrics, phase, lines, n) ==
    /\ FoundIs(f[0], metrics, 0)
    /\ \A j \in 1..n : f[j] = CheckLine(f[j - 1], phase, lines[j])
    /\ Check(metrics, phase, lines) = FillUp(f[n], phase)

\* So what Check returns is what FillUp makes of its last value.
LEMMA CheckStart ==
    ASSUME NEW metrics, NEW phase, NEW lines, NEW n \in Nat, Len(lines) = n
    PROVE  \E f : Unfolds(f, metrics, phase, lines, n)
<1>1. Len(lines) \in Nat
  OBVIOUS
<1>2. PICK f : /\ Finds(f, metrics, phase, lines, Len(lines))
               /\ Check(metrics, phase, lines) = FillUp(f[Len(lines)], phase)
  BY <1>1, CheckFinds
<1>3. FoundIs(f[0], metrics, 0)
  BY <1>2, FindsFirst DEF FoundIs
<1>4. \A j \in 1..n : f[j] = CheckLine(f[j - 1], phase, lines[j])
  BY <1>2, FindsNext
<1> QED BY <1>2, <1>3, <1>4 DEF Unfolds

\* A line after got of n have been filled in.
NextLine(found, n, M, got, line, t, S) ==
    n \in Nat \ {0} /\ M \in Metrics(n) /\ FoundIs(found, M, got) /\ got # n /\ LineIs(line, t, S)

\* The containers in S without a time.
Missing(M, S, tag) == {k \in S : M[k][tag] = Unset}

\* What it does to the metrics.
LEMMA CheckTagged ==
    \A found, n, M, got, line, t, S, phase, tag : NextLine(found, n, M, got, line, t, S) /\ TaggedIs(phase, tag) =>
        FoundIs(CheckLine(found, phase, line), Insert(M, phase, line),
                got + Cardinality(Missing(M, S, tag)))
<1> SUFFICES ASSUME NEW found, NEW n, NEW M, NEW got, NEW line, NEW t, NEW S, NEW phase, NEW tag,
                    NextLine(found, n, M, got, line, t, S), TaggedIs(phase, tag)
             PROVE  FoundIs(CheckLine(found, phase, line), Insert(M, phase, line),
                            got + Cardinality(Missing(M, S, tag)))
  OBVIOUS
<1> n \in Nat \ {0} /\ M \in Metrics(n) /\ FoundIs(found, M, got) /\ got # n /\ LineIs(line, t, S)
  BY DEF NextLine
<1>1. found.metrics \in Metrics(n) /\ found.i # n
  BY DEF FoundIs
<1> DEFINE N == Insert(found.metrics, phase, line)
           more == Cardinality({k \in line.of : found.metrics[k][phase.tag] = Unset})
<1>2. ~(phase.compare # "")
  BY DEF TaggedIs
<1>3. CheckLine(found, phase, line) = [metrics |-> N, i |-> found.i + more]
  <2>1. found.metrics # Exited /\ found.i # Len(found.metrics)
    BY <1>1, MetricsLen
  <2>2. CheckLine(found, phase, line)
          = IF found.metrics = Exited \/ found.i = Len(found.metrics) THEN found
            ELSE IF phase.compare # ""
            THEN [metrics |-> SortOnTime(found.metrics, phase, line.time), i |-> found.i + 1]
            ELSE [metrics |-> N, i |-> found.i + more]
    BY DEF CheckLine
  <2> HIDE DEF N, more
  <2> QED BY <1>2, <2>1, <2>2
<1>4. N = Insert(M, phase, line) /\ more = Cardinality(Missing(M, S, tag)) /\ found.i = got
  BY DEF FoundIs, TaggedIs, LineIs, Missing
<1> HIDE DEF N, more
<1> DEFINE after == CheckLine(found, phase, line)
<1>5. after = [metrics |-> N, i |-> found.i + more]
  BY <1>3
<1> HIDE DEF after
<1>6. after.metrics = N /\ after.i = found.i + more
  BY <1>5
<1>7. FoundIs(after, Insert(M, phase, line), got + Cardinality(Missing(M, S, tag)))
  BY <1>4, <1>6 DEF FoundIs
<1> QED BY <1>7 DEF after

\* A line without a name is sorted by time, and counts for one container.
LEMMA CheckMatched ==
    \A found, n, M, got, line, t, S, phase, tag, cmp, future :
        NextLine(found, n, M, got, line, t, S) /\ MatchedIs(phase, tag, cmp, future) =>
            FoundIs(CheckLine(found, phase, line), SortOnTime(M, phase, t), got + 1)
<1> SUFFICES ASSUME NEW found, NEW n, NEW M, NEW got, NEW line, NEW t, NEW S,
                    NEW phase, NEW tag, NEW cmp, NEW future,
                    NextLine(found, n, M, got, line, t, S), MatchedIs(phase, tag, cmp, future)
             PROVE  FoundIs(CheckLine(found, phase, line), SortOnTime(M, phase, t), got + 1)
  OBVIOUS
<1> n \in Nat \ {0} /\ M \in Metrics(n) /\ FoundIs(found, M, got) /\ got # n /\ LineIs(line, t, S)
  BY DEF NextLine
<1>1. found.metrics \in Metrics(n) /\ found.i # n
  BY DEF FoundIs
<1> DEFINE N == SortOnTime(found.metrics, phase, line.time)
<1>2. phase.compare # ""
  BY NoPhase DEF MatchedIs
<1>3. CheckLine(found, phase, line) = [metrics |-> N, i |-> found.i + 1]
  <2>1. found.metrics # Exited /\ found.i # Len(found.metrics)
    BY <1>1, MetricsLen
  <2> QED BY <1>2, <2>1 DEF CheckLine
<1>4. N = SortOnTime(M, phase, t) /\ found.i = got
  BY DEF FoundIs, LineIs
<1> HIDE DEF N
<1> DEFINE after == CheckLine(found, phase, line)
<1>5. after = [metrics |-> N, i |-> found.i + 1]
  BY <1>3
<1> HIDE DEF after
<1>6. after.metrics = N /\ after.i = found.i + 1
  BY <1>5
<1>7. FoundIs(after, SortOnTime(M, phase, t), got + 1)
  BY <1>4, <1>6 DEF FoundIs
<1> QED BY <1>7 DEF after

\* All have been filled in.
LEMMA FillUpDone ==
    ASSUME NEW n \in Nat \ {0}, NEW M \in Metrics(n), NEW found, FoundIs(found, M, n), NEW phase
    PROVE  FillUp(found, phase) = M
<1>1. found.metrics = M /\ found.i = n
  BY DEF FoundIs
<1>2. found.i = Len(found.metrics)
  BY <1>1, MetricsLen
<1> QED BY <1>1, <1>2 DEF FillUp

\* The first container's time is that of all.
AsFirst(M, n, tag) == [k \in 1..n |-> [M[k] EXCEPT ![tag] = M[1][tag]]]

\* One line has been matched, of several containers: it is that of all.
FirstFound(found, M, n, phase, tag, cmp, future) ==
    /\ n \in Nat \ {0, 1} /\ M \in Metrics(n)
    /\ FoundIs(found, M, 1) /\ MatchedIs(phase, tag, cmp, future)

LEMMA FillUpOne ==
    \A found, M, n, phase, tag, cmp, future :
        FirstFound(found, M, n, phase, tag, cmp, future) => FillUp(found, phase) = AsFirst(M, n, tag)
<1> SUFFICES ASSUME NEW found, NEW M, NEW n, NEW phase, NEW tag, NEW cmp, NEW future,
                    FirstFound(found, M, n, phase, tag, cmp, future)
             PROVE  FillUp(found, phase) = AsFirst(M, n, tag)
  OBVIOUS
<1>1. n \in Nat \ {0, 1} /\ M \in Metrics(n) /\ found.metrics = M /\ found.i = 1 /\ phase.tag = tag
  BY DEF FirstFound, FoundIs, MatchedIs
<1>2. found.metrics # Exited /\ found.i # Len(found.metrics) /\ DOMAIN found.metrics = 1..n
  BY <1>1, MetricsLen
<1>3. phase.compare # ""
  BY NoPhase DEF FirstFound, MatchedIs
<1>4. FillUp(found, phase)
        = [k \in DOMAIN found.metrics |-> [found.metrics[k] EXCEPT ![phase.tag] = found.metrics[1][phase.tag]]]
  BY <1>1, <1>2, <1>3 DEF FillUp
<1> QED BY <1>1, <1>2, <1>4 DEF AsFirst

\* The containers a line may be matched with.
LEMMA OpenIs ==
    ASSUME NEW n \in Nat \ {0}, NEW M \in Metrics(n), NEW t,
           NEW phase, NEW tag, NEW cmp, NEW future, MatchedIs(phase, tag, cmp, future)
    PROVE  Open(M, phase, t) = {k \in 1..n : /\ M[k][tag] = Unset
                                             /\ IF future THEN t < M[k][cmp] ELSE t > M[k][cmp]}
<1>1. DOMAIN M = 1..n
  BY MetricsLen
<1>2. phase.tag = tag /\ phase.compare = cmp /\ phase.future = future
  BY DEF MatchedIs
<1> QED BY <1>1, <1>2 DEF Open

\* N is M with the times t in one phase.
IsFilled(N, M, n, tag, t) ==
    /\ N \in Metrics(n)
    /\ \A k \in 1..n : N[k][tag] = t[k]
    /\ \A k \in 1..n : \A x \in Phases : x # tag => N[k][x] = M[k][x]

\* There are no times of the phase yet.
NoTimes(M, n, tag) == n \in Nat \ {0} /\ M \in Metrics(n) /\ \A k \in 1..n : M[k][tag] = Unset

\* One line that names all containers.
LEMMA OneTagged ==
    ASSUME NEW n, NEW M, NEW tag, NoTimes(M, n, tag), NEW phase, TaggedIs(phase, tag),
           NEW lines, Len(lines) = 1, NEW t \in Nat, LineIs(lines[1], t, 1..n)
    PROVE  IsFilled(Check(M, phase, lines), M, n, tag, [k \in 1..n |-> t])
<1>1. n \in Nat \ {0} /\ M \in Metrics(n) /\ tag \in Phases /\ \A k \in 1..n : M[k][tag] = Unset
  BY DEF NoTimes, TaggedIs
<1>2. PICK f : Unfolds(f, M, phase, lines, 1)
  <2>1. 1 \in Nat
    OBVIOUS
  <2> QED BY <2>1, CheckStart
<1>3. FoundIs(f[0], M, 0) /\ Check(M, phase, lines) = FillUp(f[1], phase)
  BY <1>2 DEF Unfolds
<1>4. f[1] = CheckLine(f[0], phase, lines[1])
  BY <1>2 DEF Unfolds
<1> DEFINE N == Insert(M, phase, lines[1])
           S == Missing(M, 1..n, tag)
<1>5. S = 1..n /\ Cardinality(S) = n
  <2>1. S = 1..n
    BY <1>1 DEF Missing
  <2>2. 1 \in Int /\ n \in Int /\ 1 <= n /\ n - 1 + 1 = n
    BY <1>1
  <2> HIDE DEF S
  <2> QED BY <2>1, <2>2, FS_Interval
<1>6. FoundIs(f[1], N, 0 + Cardinality(S))
  <2>1. NextLine(f[0], n, M, 0, lines[1], t, 1..n)
    BY <1>1, <1>3 DEF NextLine
  <2> QED BY <1>4, <2>1, CheckTagged
<1>7. N \in Metrics(n) /\ \A k \in 1..n : \A x \in Phases :
         N[k][x] = IF x = tag /\ M[k][x] = Unset THEN t ELSE M[k][x]
  <2>1. phase.tag = tag /\ lines[1].time = t /\ lines[1].of = 1..n
    BY DEF TaggedIs, LineIs
  <2> QED BY <1>1, <2>1, InsertIs
<1> HIDE DEF N, S
<1>8. FoundIs(f[1], N, n)
  BY <1>1, <1>5, <1>6
<1>9. Check(M, phase, lines) = N
  BY <1>1, <1>3, <1>7, <1>8, FillUpDone
<1> DEFINE T == [k \in 1..n |-> t]
<1>10. \A k \in 1..n : N[k][tag] = T[k]
  BY <1>1, <1>7
<1> HIDE DEF T
<1>11. IsFilled(N, M, n, tag, T)
  BY <1>7, <1>10 DEF IsFilled
<1> QED BY <1>9, <1>11 DEF T

\* A log with one line for each container, the j-th that of s[j], at the times h.
LogIs(lines, n, h, s) ==
    /\ n \in Nat \ {0} /\ Len(lines) = n /\ h \in [1..n -> Nat]
    /\ s \in [1..n -> 1..n] /\ Apart(s, 1..n)
    /\ \A j \in 1..n : LineIs(lines[j], h[s[j]], {s[j]})

\* One value more.
LEMMA FreeNext ==
    \A a, j, m, k : j \in Nat /\ m = j + 1 => (Free(a, m, k) <=> Free(a, j, k) /\ a[m] # k)
<1> SUFFICES ASSUME NEW a, NEW j \in Nat, NEW m, m = j + 1, NEW k
             PROVE  Free(a, m, k) <=> Free(a, j, k) /\ a[m] # k
  OBVIOUS
<1>1. \A l : l \in 1..m <=> l \in 1..j \/ l = m
  OBVIOUS
<1> QED BY <1>1 DEF Free

\* The first j lines have given their containers their times.
Told(found, M, n, tag, h, s, j) ==
    \E N \in Metrics(n) :
        /\ FoundIs(found, N, j)
        /\ \A k \in 1..n : N[k][tag] = IF Free(s, j, k) THEN Unset ELSE h[k]
        /\ \A k \in 1..n : \A x \in Phases : x # tag => N[k][x] = M[k][x]

\* The next line goes to the container it names, which has no time yet.
LEMMA ToldNext ==
    ASSUME NEW n, NEW lines, NEW h, NEW s, LogIs(lines, n, h, s), NEW M, NEW tag,
           NEW phase, TaggedIs(phase, tag),
           NEW found, NEW j \in Nat, NEW m \in 1..n, m = j + 1, Told(found, M, n, tag, h, s, j)
    PROVE  Told(CheckLine(found, phase, lines[m]), M, n, tag, h, s, m)
<1>1. /\ n \in Nat \ {0} /\ h \in [1..n -> Nat] /\ s \in [1..n -> 1..n] /\ Apart(s, 1..n)
      /\ LineIs(lines[m], h[s[m]], {s[m]}) /\ tag \in Phases /\ phase.tag = tag
  BY DEF LogIs, TaggedIs
<1>2. PICK N \in Metrics(n) :
        /\ FoundIs(found, N, j)
        /\ \A k \in 1..n : N[k][tag] = IF Free(s, j, k) THEN Unset ELSE h[k]
        /\ \A k \in 1..n : \A x \in Phases : x # tag => N[k][x] = M[k][x]
  BY DEF Told
<1> DEFINE c == s[m]
           t == h[c]
           T == Missing(N, {c}, tag)
           line == lines[m]
           P == Insert(N, phase, line)
<1>3. c \in 1..n /\ t \in Nat
  BY <1>1
<1>4. Free(s, j, c)
  <2>1. \A l \in 1..j : l \in 1..n /\ l # m
    BY <1>1
  <2> QED BY <1>1, <2>1 DEF Free, Apart
<1>5. T = {c} /\ Cardinality(T) = 1
  <2>1. T = {c}
    BY <1>2, <1>3, <1>4 DEF Missing
  <2> HIDE DEF T
  <2>2. Cardinality({c}) = 1
    BY FS_Singleton
  <2> QED BY <2>1, <2>2
<1>6. lines[m].time = t /\ lines[m].of = {c}
  BY <1>1 DEF LineIs
<1>7. j # n
  BY <1>1
<1>8. LineIs(line, t, {c}) /\ FoundIs(found, N, j)
  BY <1>1, <1>2
<1>9. FoundIs(CheckLine(found, phase, line), P, j + Cardinality(T))
  <2>1. NextLine(found, n, N, j, line, t, {c})
    BY <1>1, <1>7, <1>8 DEF NextLine
  <2> HIDE DEF t, c, line
  <2> QED BY <2>1, CheckTagged
<1>10. P \in Metrics(n) /\ \A k \in 1..n : \A x \in Phases :
          P[k][x] = IF x = tag /\ k \in {c} /\ N[k][x] = Unset THEN t ELSE N[k][x]
  <2>1. phase.tag \in Phases /\ line.time \in Nat
    BY <1>1, <1>3, <1>6
  <2>2. line.time = t /\ line.of = {c}
    BY <1>6
  <2> HIDE DEF t, c, line
  <2>3. P \in Metrics(n) /\ \A k \in 1..n : \A x \in Phases :
         P[k][x] = IF x = phase.tag /\ k \in line.of /\ N[k][x] = Unset THEN line.time ELSE N[k][x]
    <3>1. n \in Nat \ {0} /\ N \in Metrics(n)
      BY <1>1
    <3> QED BY ONLY <2>1, <3>1, InsertIs
  <2> HIDE DEF P
  <2> QED BY <1>1, <2>3, <2>2
<1> HIDE DEF P, T
<1>11. FoundIs(CheckLine(found, phase, lines[m]), P, m)
  BY <1>5, <1>9
<1>12. \A k \in 1..n : P[k][tag] = IF Free(s, m, k) THEN Unset ELSE h[k]
  <2> SUFFICES ASSUME NEW k \in 1..n PROVE P[k][tag] = IF Free(s, m, k) THEN Unset ELSE h[k]
    OBVIOUS
  <2>1. Free(s, m, k) <=> Free(s, j, k) /\ c # k
    BY FreeNext
  <2>2. N[k][tag] = IF Free(s, j, k) THEN Unset ELSE h[k]
    BY <1>2
  <2>3. P[k][tag] = IF k = c /\ N[k][tag] = Unset THEN t ELSE N[k][tag]
    BY <1>1, <1>10
  <2> QED BY <1>4, <2>1, <2>2, <2>3
<1>13. \A k \in 1..n : \A x \in Phases : x # tag => P[k][x] = M[k][x]
  BY <1>2, <1>10
<1> QED BY <1>10, <1>11, <1>12, <1>13 DEF Told

\* The lines of a phase in which every line names its container.
LEMMA ManyTagged ==
    ASSUME NEW n, NEW lines, NEW h, NEW s, LogIs(lines, n, h, s),
           NEW M, NEW tag, NoTimes(M, n, tag), NEW phase, TaggedIs(phase, tag)
    PROVE  IsFilled(Check(M, phase, lines), M, n, tag, h)
<1>1. /\ n \in Nat \ {0} /\ Len(lines) = n /\ s \in [1..n -> 1..n] /\ Apart(s, 1..n)
      /\ M \in Metrics(n) /\ \A k \in 1..n : M[k][tag] = Unset
  BY DEF LogIs, NoTimes
<1>2. PICK f : Unfolds(f, M, phase, lines, n)
  BY <1>1, CheckStart
<1>3. /\ FoundIs(f[0], M, 0) /\ Check(M, phase, lines) = FillUp(f[n], phase)
      /\ \A j \in 1..n : f[j] = CheckLine(f[j - 1], phase, lines[j])
  BY <1>2 DEF Unfolds
<1> DEFINE Holds(j) == Told(f[j], M, n, tag, h, s, j)
           S == {j \in Nat : j <= n /\ ~Holds(j)}
<1>4. Holds(0)
  <2>1. \A k : Free(s, 0, k)
    BY DEF Free
  <2> QED BY <1>1, <1>3, <2>1 DEF Told
<1>5. S = {}
  <2> SUFFICES ASSUME S # {} PROVE FALSE
    OBVIOUS
  <2>1. PICK m \in S : \A j \in S : m <= j
    BY LeastNatural
  <2> DEFINE j == m - 1
  <2>2. m \in Nat /\ m <= n /\ ~Holds(m) /\ m # 0
    <3> HIDE DEF Holds
    <3> QED BY <1>4, <2>1
  <2>3. j \in Nat /\ m \in 1..n /\ m = j + 1 /\ j <= n /\ j < m
    BY <1>1, <2>2
  <2>4. Holds(j)
    <3> HIDE DEF Holds
    <3>1. j \notin S
      BY <2>1, <2>3
    <3> QED BY <2>3, <3>1
  <2>5. f[m] = CheckLine(f[j], phase, lines[m])
    BY <1>3, <2>3
  <2> HIDE DEF j
  <2>6. Holds(m)
    BY <2>3, <2>4, <2>5, ToldNext
  <2> HIDE DEF Holds
  <2> QED BY <2>2, <2>6
<1>6. Holds(n)
  <2> HIDE DEF Holds
  <2> QED BY <1>1, <1>5
<1>7. PICK N \in Metrics(n) :
        /\ FoundIs(f[n], N, n)
        /\ \A k \in 1..n : N[k][tag] = IF Free(s, n, k) THEN Unset ELSE h[k]
        /\ \A k \in 1..n : \A x \in Phases : x # tag => N[k][x] = M[k][x]
  BY <1>6 DEF Told
<1>8. \A k \in 1..n : ~Free(s, n, k)
  <2>1. n \in Nat
    BY <1>1
  <2>2. \A k \in 1..n : \E x \in 1..n : s[x] = k
    BY <1>1, <2>1, ReachesAll
  <2> QED BY <2>2 DEF Free
<1>9. Check(M, phase, lines) = N
  BY <1>1, <1>3, <1>7, FillUpDone
<1> QED BY <1>7, <1>8, <1>9 DEF IsFilled

-----------------------------------------------------------------------------
(* The lines that are matched *)

\* The line at time x may be that of a container with the other time y.
Fits(future, x, y) == IF future THEN x < y ELSE x > y

\* Some container without a line has the first time.
LEMMA FirstExists ==
    \A n, h, g, s, p, future, a, j : Matching(n, h, g, s, p, future) /\ Taken(n, g, p, a, j) /\ j < n
        => \E u : First(n, g, p, a, j, u)
<1> SUFFICES ASSUME NEW n, NEW h, NEW g, NEW s, NEW p, NEW future, NEW a, NEW j,
                    Matching(n, h, g, s, p, future), Taken(n, g, p, a, j), j < n
             PROVE  \E u : First(n, g, p, a, j, u)
  OBVIOUS
<1>1. /\ n \in Nat /\ j \in Nat /\ g \in [1..n -> Nat] /\ p \in [1..n -> 1..n]
      /\ a \in [1..j -> 1..n]
  BY DEF Matching, Taken
<1> DEFINE m == j + 1
           f == [x \in 1..m |-> x]
           Z == {k \in 1..n : Free(a, j, k)}
           times == {g[p[k]] : k \in Z}
<1>2. HasMore(j, m, 1..n, f, a)
  <2>1. m <= n /\ \A x \in 1..m : x \in 1..n
    BY <1>1
  <2>2. f \in [1..m -> 1..n] /\ \A x \in 1..m : f[x] = x
    BY <2>1
  <2> HIDE DEF f
  <2>3. Apart(f, 1..m)
    BY <2>2 DEF Apart
  <2> QED BY <1>1, <2>2, <2>3 DEF HasMore
<1>3. PICK x \in 1..m : Free(a, j, f[x])
  <2> HIDE DEF f, m
  <2> QED BY <1>2, OneIsFree
<1>4. x \in Z
  BY <1>1, <1>3
<1> HIDE DEF Z
<1>5. times \in SUBSET Nat /\ times # {}
  <2>1. Z \subseteq 1..n
    BY DEF Z
  <2> QED BY <1>1, <1>4, <2>1
<1>6. PICK y \in times : \A z \in times : y <= z
  <2> HIDE DEF times
  <2> QED BY <1>5, LeastNatural
<1>7. PICK u \in Z : y = g[p[u]]
  BY <1>6
<1>8. \A k \in Z : g[p[u]] <= g[p[k]]
  BY <1>6, <1>7
<1> QED BY <1>7, <1>8 DEF First, Z

\* The first of those that fit is the first of all.
LEMMA FirstOpen ==
    \A n, h, g, s, p, future, a, j, u :
        /\ Matching(n, h, g, s, p, future) /\ Taken(n, g, p, a, j) /\ j < n
        /\ u \in 1..n /\ Free(a, j, u)
        /\ \A k \in 1..n : Free(a, j, k) /\ Fits(future, h[s[j + 1]], g[p[k]]) => g[p[u]] <= g[p[k]]
        => First(n, g, p, a, j, u)
<1> SUFFICES ASSUME NEW n, NEW h, NEW g, NEW s, NEW p, NEW future, NEW a, NEW j, NEW u,
                    Matching(n, h, g, s, p, future), Taken(n, g, p, a, j), j < n,
                    u \in 1..n, Free(a, j, u),
                    \A k \in 1..n : Free(a, j, k) /\ Fits(future, h[s[j + 1]], g[p[k]]) => g[p[u]] <= g[p[k]]
             PROVE  First(n, g, p, a, j, u)
  OBVIOUS
<1> DEFINE t == h[s[j + 1]]
<1>1. /\ n \in Nat /\ j \in Nat /\ g \in [1..n -> Nat] /\ p \in [1..n -> 1..n] /\ t \in Nat
  <2>1. /\ n \in Nat /\ j \in Nat /\ g \in [1..n -> Nat] /\ h \in [1..n -> Nat]
        /\ p \in [1..n -> 1..n] /\ s \in [1..n -> 1..n]
    BY DEF Matching, Taken
  <2>2. j + 1 \in 1..n
    BY <2>1
  <2> QED BY <2>1, <2>2
<1>2. \A k \in 1..n : Free(a, j, k) /\ Fits(future, t, g[p[k]]) => g[p[u]] <= g[p[k]]
  OBVIOUS
<1>3. PICK v : First(n, g, p, a, j, v)
  BY FirstExists
<1>4. IF future THEN t < g[p[v]] ELSE g[p[v]] < t
  BY <1>3, FirstFits
<1> HIDE DEF t
<1>5. v \in 1..n /\ Free(a, j, v) /\ \A k \in 1..n : Free(a, j, k) => g[p[v]] <= g[p[k]]
  BY <1>3 DEF First
<1>6. Fits(future, t, g[p[v]])
  BY <1>1, <1>4, <1>5 DEF Fits
<1>7. g[p[u]] <= g[p[v]]
  BY <1>2, <1>5, <1>6
<1>8. \A k \in 1..n : g[p[k]] \in Nat
  BY <1>1
<1>9. \A k \in 1..n : Free(a, j, k) => g[p[u]] <= g[p[k]]
  BY <1>5, <1>7, <1>8
<1> QED BY <1>9 DEF First

\* b is a, and then u.
Adds(b, a, j, m, n, u) ==
    j \in Nat /\ m = j + 1 /\ b \in [1..m -> 1..n] /\ b[m] = u /\ \A l \in 1..j : b[l] = a[l]

\* The first of those left is taken next.
LEMMA TakenNext ==
    \A n, g, p, a, j, u, m, b :
        Taken(n, g, p, a, j) /\ First(n, g, p, a, j, u) /\ Adds(b, a, j, m, n, u) /\ m <= n => Taken(n, g, p, b, m)
<1> SUFFICES ASSUME NEW n, NEW g, NEW p, NEW a, NEW j, NEW u, NEW m, NEW b,
                    Taken(n, g, p, a, j), First(n, g, p, a, j, u), Adds(b, a, j, m, n, u), m <= n
             PROVE  Taken(n, g, p, b, m)
  OBVIOUS
<1>1. j \in Nat /\ m = j + 1 /\ b \in [1..m -> 1..n] /\ b[m] = u /\ \A l \in 1..j : b[l] = a[l]
  BY DEF Adds
<1>2. \A l : l \in 1..m <=> l \in 1..j \/ l = m
  BY <1>1
<1>3. Apart(a, 1..j) /\ \A l \in 1..j : \A k \in 1..n : Free(a, j, k) => g[p[a[l]]] <= g[p[k]]
  BY DEF Taken
<1>4. Free(a, j, u) /\ \A k \in 1..n : Free(a, j, k) => g[p[u]] <= g[p[k]]
  BY DEF First
<1>5. Apart(b, 1..m)
  BY <1>1, <1>2, <1>3, <1>4 DEF Apart, Free
<1>6. \A k : Free(b, m, k) => Free(a, j, k)
  BY <1>1, <1>2 DEF Free
<1>7. ASSUME NEW l \in 1..m, NEW k \in 1..n, Free(b, m, k) PROVE g[p[b[l]]] <= g[p[k]]
  <2>1. Free(a, j, k)
    BY <1>6, <1>7
  <2>2. CASE l = m
    BY <1>1, <1>4, <2>1, <2>2
  <2>3. CASE l \in 1..j
    BY <1>1, <1>3, <2>1, <2>3
  <2> QED BY <1>2, <2>2, <2>3
<1> QED BY <1>1, <1>5, <1>7 DEF Taken

\* A list of j containers can be made one longer.
LEMMA AddsExists ==
    \A n, a, j, u, m : n \in Nat /\ j \in Nat /\ m = j + 1 /\ a \in [1..j -> 1..n] /\ u \in 1..n
        => \E b : Adds(b, a, j, m, n, u)
<1> SUFFICES ASSUME NEW n \in Nat, NEW a, NEW j \in Nat, NEW u \in 1..n, NEW m, m = j + 1, a \in [1..j -> 1..n]
             PROVE  \E b : Adds(b, a, j, m, n, u)
  OBVIOUS
<1> DEFINE value(l) == IF l = m THEN u ELSE a[l]
           b == [l \in 1..m |-> value(l)]
<1>1. \A l \in 1..m : l = m \/ l \in 1..j
  OBVIOUS
<1>2. \A l \in 1..m : value(l) \in 1..n
  BY <1>1
<1>3. m \in 1..m /\ \A l \in 1..j : l \in 1..m /\ l # m
  OBVIOUS
<1>4. value(m) = u /\ \A l \in 1..j : value(l) = a[l]
  BY <1>3
<1> HIDE DEF value
<1>5. b \in [1..m -> 1..n] /\ \A l \in 1..m : b[l] = value(l)
  BY <1>2
<1> HIDE DEF b
<1>6. Adds(b, a, j, m, n, u)
  BY <1>3, <1>4, <1>5 DEF Adds
<1> QED BY <1>6

\* What is known of the lines of a phase that is matched with another, where M
\* are the metrics before.
MatchedLog(lines, n, h, s, g, p, M, phase, tag, cmp, future) ==
    /\ LogIs(lines, n, h, s) /\ Matching(n, h, g, s, p, future)
    /\ NoTimes(M, n, tag) /\ MatchedIs(phase, tag, cmp, future)
    /\ \A q \in 1..n : h[q] # Unset /\ g[q] # Unset
    /\ \A k \in 1..n : M[k][cmp] = g[p[k]]

\* The l-th line has been given to a[l], to whose other time it fits.
GivenTo(N, n, tag, h, s, g, p, future, a, j) ==
    \A l \in 1..j : /\ N[a[l]][tag] = h[s[l]] /\ Fits(future, h[s[l]], g[p[a[l]]])
                    /\ InOwnOrder(n, h, g, p) => h[a[l]] = h[s[l]]

\* With a, the first j lines have been given, and the others have no time.
GivenWith(N, a, M, n, tag, h, s, g, p, future, j) ==
    /\ Taken(n, g, p, a, j) /\ GivenTo(N, n, tag, h, s, g, p, future, a, j)
    /\ \A k \in 1..n : Free(a, j, k) => N[k][tag] = Unset
    /\ \A k \in 1..n : \A x \in Phases : x # tag => N[k][x] = M[k][x]

\* The first j lines have been given to containers.
Given(found, M, n, tag, h, s, g, p, future, j) ==
    \E N \in Metrics(n) : \E a \in [1..j -> 1..n] :
        FoundIs(found, N, j) /\ GivenWith(N, a, M, n, tag, h, s, g, p, future, j)

\* The containers that are open to a line at t.
OpenTo(n, a, j, future, t, g, p) == {k \in 1..n : Free(a, j, k) /\ Fits(future, t, g[p[k]])}

\* Those are what Open finds.
LEMMA OpenAre ==
    \A lines, n, h, s, g, p, M, phase, tag, cmp, future, j, N, a, t :
        /\ MatchedLog(lines, n, h, s, g, p, M, phase, tag, cmp, future)
        /\ N \in Metrics(n) /\ GivenWith(N, a, M, n, tag, h, s, g, p, future, j)
        => Open(N, phase, t) = OpenTo(n, a, j, future, t, g, p)
<1> SUFFICES ASSUME NEW lines, NEW n, NEW h, NEW s, NEW g, NEW p, NEW M, NEW phase, NEW tag, NEW cmp, NEW future,
                    MatchedLog(lines, n, h, s, g, p, M, phase, tag, cmp, future),
                    NEW j, NEW N \in Metrics(n), NEW a, GivenWith(N, a, M, n, tag, h, s, g, p, future, j), NEW t
             PROVE  Open(N, phase, t) = OpenTo(n, a, j, future, t, g, p)
  OBVIOUS
<1> /\ Taken(n, g, p, a, j) /\ GivenTo(N, n, tag, h, s, g, p, future, a, j)
    /\ \A k \in 1..n : Free(a, j, k) => N[k][tag] = Unset
    /\ \A k \in 1..n : \A x \in Phases : x # tag => N[k][x] = M[k][x]
  BY DEF GivenWith
<1>1. /\ n \in Nat \ {0} /\ MatchedIs(phase, tag, cmp, future) /\ tag \in Phases /\ cmp \in Phases /\ cmp # tag
      /\ s \in [1..n -> 1..n] /\ j \in Nat /\ j <= n
      /\ \A q \in 1..n : h[q] # Unset
      /\ \A k \in 1..n : M[k][cmp] = g[p[k]]
  BY DEF MatchedLog, LogIs, MatchedIs, Taken
<1>2. \A k \in 1..n : N[k][cmp] = g[p[k]]
  BY <1>1
<1>3. ASSUME NEW k \in 1..n PROVE N[k][tag] = Unset <=> Free(a, j, k)
  <2>1. ASSUME ~Free(a, j, k) PROVE N[k][tag] # Unset
    <3>1. PICK l \in 1..j : a[l] = k
      BY <2>1 DEF Free
    <3>2. N[k][tag] = h[s[l]]
      BY <3>1 DEF GivenTo
    <3>3. l \in 1..n
      BY <1>1
    <3> QED BY <1>1, <3>2, <3>3
  <2> QED BY <2>1
<1>4. Open(N, phase, t) = {k \in 1..n : N[k][tag] = Unset /\ IF future THEN t < N[k][cmp] ELSE t > N[k][cmp]}
  BY <1>1, OpenIs
<1> QED BY <1>2, <1>3, <1>4 DEF Fits, OpenTo

\* The next line goes to the first container that is left: it fits that one.
LEMMA GivenNext ==
    ASSUME NEW lines, NEW n, NEW h, NEW s, NEW g, NEW p, NEW M, NEW phase, NEW tag, NEW cmp, NEW future,
           MatchedLog(lines, n, h, s, g, p, M, phase, tag, cmp, future),
           NEW found, NEW j \in Nat, NEW m \in 1..n, m = j + 1,
           Given(found, M, n, tag, h, s, g, p, future, j)
    PROVE  Given(CheckLine(found, phase, lines[m]), M, n, tag, h, s, g, p, future, m)
<1>1. PICK N \in Metrics(n) : \E a \in [1..j -> 1..n] :
        FoundIs(found, N, j) /\ GivenWith(N, a, M, n, tag, h, s, g, p, future, j)
  BY DEF Given
<1>2. PICK a \in [1..j -> 1..n] :
        FoundIs(found, N, j) /\ GivenWith(N, a, M, n, tag, h, s, g, p, future, j)
  BY <1>1
<1>3. /\ FoundIs(found, N, j) /\ Taken(n, g, p, a, j)
      /\ GivenTo(N, n, tag, h, s, g, p, future, a, j)
      /\ \A k \in 1..n : Free(a, j, k) => N[k][tag] = Unset
      /\ \A k \in 1..n : \A x \in Phases : x # tag => N[k][x] = M[k][x]
  BY <1>2 DEF GivenWith
<1> DEFINE line == lines[m]
           t == h[s[m]]
           P == SortOnTime(N, phase, t)
<1>4. /\ Matching(n, h, g, s, p, future) /\ MatchedIs(phase, tag, cmp, future)
      /\ LineIs(line, t, {s[m]}) /\ n \in Nat \ {0} /\ h \in [1..n -> Nat] /\ s \in [1..n -> 1..n]
      /\ p \in [1..n -> 1..n]
      /\ tag \in Phases /\ cmp \in Phases /\ cmp # tag
      /\ phase.tag = tag /\ phase.compare = cmp
      /\ \A q \in 1..n : g[q] # Unset
      /\ \A k \in 1..n : M[k][cmp] = g[p[k]]
  BY DEF MatchedLog, LogIs, MatchedIs, Matching
<1>5. t \in Nat /\ j < n /\ j # n
  <2>1. s[m] \in 1..n
    BY <1>4
  <2>2. t \in Nat
    BY <1>4, <2>1
  <2>3. j < n
    BY <1>4
  <2> QED BY <2>2, <2>3
<1>6. Open(N, phase, t) = {k \in 1..n : Free(a, j, k) /\ Fits(future, t, g[p[k]])}
  <2> HIDE DEF t
  <2>1. Open(N, phase, t) = OpenTo(n, a, j, future, t, g, p)
    BY <1>2, OpenAre
  <2> QED BY <2>1 DEF OpenTo
<1>7. \A k \in 1..n : N[k][cmp] = g[p[k]] /\ N[k][cmp] # Unset
  <2>1. \A k \in 1..n : p[k] \in 1..n
    BY <1>4
  <2>2. \A k \in 1..n : N[k][cmp] = M[k][cmp]
    BY <1>4, <1>3
  <2>3. (\A k \in 1..n : M[k][cmp] = g[p[k]]) /\ \A q \in 1..n : g[q] # Unset
    BY <1>4
  <2> QED BY ONLY <2>1, <2>2, <2>3
<1>8. PICK v : First(n, g, p, a, j, v)
  BY <1>3, <1>4, <1>5, FirstExists
<1>9. t = h[s[j + 1]]
  OBVIOUS
<1>10. v \in Open(N, phase, t)
  <2>1. IF future THEN h[s[j + 1]] < g[p[v]] ELSE g[p[v]] < h[s[j + 1]]
    BY <1>3, <1>4, <1>5, <1>8, FirstFits
  <2> HIDE DEF t
  <2>2. v \in 1..n /\ Free(a, j, v)
    BY <1>8 DEF First
  <2>3. g[p[v]] \in Nat
    BY <1>4, <2>2 DEF Matching
  <2>4. Fits(future, t, g[p[v]])
    BY <1>5, <1>9, <2>1, <2>3 DEF Fits
  <2> QED BY <1>6, <2>2, <2>4
<1>11. PICK u \in Open(N, phase, t) :
           /\ \A k \in Open(N, phase, t) : N[u][cmp] <= N[k][cmp]
           /\ Puts(P, N, n, u, tag, t)
  <2> HIDE DEF t
  <2>1. \A k \in 1..n : N[k][phase.compare] # Unset
    BY <1>4, <1>7
  <2>2. phase.tag \in Phases /\ phase.compare \in Phases /\ Open(N, phase, t) # {}
    BY <1>4, <1>10
  <2>3. \E w \in Open(N, phase, t) :
              /\ \A k \in Open(N, phase, t) : /\ N[w][phase.compare] <= N[k][phase.compare]
                                              /\ N[w][phase.compare] = N[k][phase.compare] => w <= k
              /\ Puts(SortOnTime(N, phase, t), N, n, w, phase.tag, t)
    BY <1>4, <1>5, <2>1, <2>2, SortOnTimeIs
  <2> QED BY <1>4, <2>3
<1> HIDE DEF P
<1>12. u \in 1..n /\ Free(a, j, u) /\ Fits(future, t, g[p[u]])
  <2> HIDE DEF t
  <2> QED BY <1>6
<1>13. First(n, g, p, a, j, u)
  <2>1. ASSUME NEW k \in 1..n, Free(a, j, k), Fits(future, t, g[p[k]]) PROVE g[p[u]] <= g[p[k]]
    <3> HIDE DEF t
    <3>1. k \in Open(N, phase, t)
      BY <1>6, <2>1
    <3> QED BY <1>7, <1>11, <1>12, <3>1
  <2>2. \A k \in 1..n : Free(a, j, k) /\ Fits(future, h[s[j + 1]], g[p[k]]) => g[p[u]] <= g[p[k]]
    BY <1>9, <2>1
  <2> HIDE DEF t
  <2> QED BY <1>3, <1>4, <1>5, <1>12, <2>2, FirstOpen
<1>14. FoundIs(CheckLine(found, phase, line), P, j + 1)
  <2>1. NextLine(found, n, N, j, line, t, {s[m]})
    BY <1>3, <1>4, <1>5 DEF NextLine
  <2> HIDE DEF t, line
  <2> QED BY <1>4, <2>1, CheckMatched DEF P
<1>15. PICK b : Adds(b, a, j, m, n, u)
  BY <1>4, <1>12, AddsExists
<1>16. b \in [1..m -> 1..n] /\ b[m] = u /\ (\A l \in 1..j : b[l] = a[l]) /\ m = j + 1
  BY <1>15 DEF Adds
<1>17. Taken(n, g, p, b, m)
  <2>1. m <= n
    BY <1>5
  <2> QED BY <1>3, <1>13, <1>15, <2>1, TakenNext
<1>18. P \in Metrics(n) /\ P[u][tag] = t /\ \A l \in 1..n : \A x \in Phases : l # u \/ x # tag => P[l][x] = N[l][x]
  BY <1>11 DEF Puts
<1>19. InOwnOrder(n, h, g, p) => h[u] = t
  <2>1. SUFFICES ASSUME InOwnOrder(n, h, g, p) PROVE h[u] = t
    OBVIOUS
  <2> HIDE DEF t
  <2>2. h[u] = h[s[j + 1]]
    <3>1. Matching(n, h, g, s, p, future) /\ Taken(n, g, p, a, j) /\ First(n, g, p, a, j, u) /\ j < n
      BY <1>4, <1>5, <1>13, <1>3
    <3> QED BY ONLY <2>1, <3>1, FirstIsOwn
  <2> QED BY <1>9, <2>2
<1>20. GivenTo(P, n, tag, h, s, g, p, future, b, m)
  <2> SUFFICES ASSUME NEW l \in 1..m
               PROVE  /\ P[b[l]][tag] = h[s[l]] /\ Fits(future, h[s[l]], g[p[b[l]]])
                      /\ InOwnOrder(n, h, g, p) => h[b[l]] = h[s[l]]
    BY DEF GivenTo
  <2>1. CASE l = m
    BY <1>12, <1>16, <1>18, <1>19, <2>1
  <2>2. CASE l \in 1..j
    <3>1. b[l] = a[l] /\ a[l] \in 1..n /\ a[l] # u
      BY <1>12, <1>16, <2>2 DEF Free
    <3>2. /\ N[a[l]][tag] = h[s[l]] /\ Fits(future, h[s[l]], g[p[a[l]]])
          /\ InOwnOrder(n, h, g, p) => h[a[l]] = h[s[l]]
      BY <1>3, <2>2 DEF GivenTo
    <3>3. P[a[l]][tag] = N[a[l]][tag]
      BY <1>4, <1>18, <3>1
    <3> QED BY <3>1, <3>2, <3>3
  <2> QED BY <1>16, <2>1, <2>2
<1>21. ASSUME NEW k \in 1..n, Free(b, m, k) PROVE P[k][tag] = Unset
  <2>1. Free(b, j, k) /\ k # u
    BY <1>16, <1>21, FreeNext
  <2>2. Free(a, j, k)
    BY <1>16, <2>1 DEF Free
  <2> QED BY <1>3, <1>4, <1>18, <2>1, <2>2
<1>22. \A k \in 1..n : \A x \in Phases : x # tag => P[k][x] = M[k][x]
  BY <1>3, <1>18
<1>23. FoundIs(CheckLine(found, phase, line), P, m)
  BY <1>14, <1>16
<1> QED BY <1>16, <1>17, <1>18, <1>20, <1>21, <1>22, <1>23 DEF Given, GivenWith

\* Every container gets the time of one line, which fits to its other time, and
\* with lines in order that of its own.
Matched(N, M, n, tag, h, g, p, future) ==
    \E r \in [1..n -> 1..n] :
        /\ IsFilled(N, M, n, tag, [k \in 1..n |-> h[r[k]]])
        /\ Apart(r, 1..n)
        /\ \A k \in 1..n : Fits(future, h[r[k]], g[p[k]])
        /\ InOwnOrder(n, h, g, p) => \A k \in 1..n : h[r[k]] = h[k]

\* The lines of a phase that is matched with another.
LEMMA ManyMatched ==
    ASSUME NEW lines, NEW n, NEW h, NEW s, NEW g, NEW p, NEW M, NEW phase, NEW tag, NEW cmp, NEW future,
           MatchedLog(lines, n, h, s, g, p, M, phase, tag, cmp, future)
    PROVE  Matched(Check(M, phase, lines), M, n, tag, h, g, p, future)
<1>1. /\ n \in Nat \ {0} /\ Len(lines) = n /\ s \in [1..n -> 1..n] /\ Apart(s, 1..n)
      /\ M \in Metrics(n) /\ \A k \in 1..n : M[k][tag] = Unset
  BY DEF LogIs, NoTimes, MatchedLog
<1>2. PICK f : Unfolds(f, M, phase, lines, n)
  BY <1>1, CheckStart
<1>3. /\ FoundIs(f[0], M, 0) /\ Check(M, phase, lines) = FillUp(f[n], phase)
      /\ \A j \in 1..n : f[j] = CheckLine(f[j - 1], phase, lines[j])
  BY <1>2 DEF Unfolds
<1> DEFINE Holds(j) == Given(f[j], M, n, tag, h, s, g, p, future, j)
           S == {j \in Nat : j <= n /\ ~Holds(j)}
<1>4. Holds(0)
  <2> DEFINE none == [l \in 1..0 |-> 1]
  <2>1. none \in [1..0 -> 1..n]
    BY <1>1
  <2> HIDE DEF none
  <2>2. Apart(none, 1..0)
    BY DEF Apart
  <2>3. Taken(n, g, p, none, 0)
    BY <1>1, <2>1, <2>2 DEF Taken
  <2>4. GivenTo(M, n, tag, h, s, g, p, future, none, 0)
    BY DEF GivenTo
  <2>5. GivenWith(M, none, M, n, tag, h, s, g, p, future, 0)
    BY <1>1, <2>3, <2>4 DEF GivenWith
  <2> QED BY <1>1, <1>3, <2>1, <2>5 DEF Given
<1>5. S = {}
  <2> SUFFICES ASSUME S # {} PROVE FALSE
    OBVIOUS
  <2>1. PICK m \in S : \A j \in S : m <= j
    BY LeastNatural
  <2> DEFINE j == m - 1
  <2>2. m \in Nat /\ m <= n /\ ~Holds(m) /\ m # 0
    <3> HIDE DEF Holds
    <3> QED BY <1>4, <2>1
  <2>3. j \in Nat /\ m \in 1..n /\ m = j + 1 /\ j <= n /\ j < m
    BY <1>1, <2>2
  <2>4. Holds(j)
    <3> HIDE DEF Holds
    <3>1. j \notin S
      BY <2>1, <2>3
    <3> QED BY <2>3, <3>1
  <2>5. f[m] = CheckLine(f[j], phase, lines[m])
    BY <1>3, <2>3
  <2> HIDE DEF j
  <2>6. Holds(m)
    BY <2>3, <2>4, <2>5, GivenNext
  <2> HIDE DEF Holds
  <2> QED BY <2>2, <2>6
<1>6. Holds(n)
  <2> HIDE DEF Holds
  <2> QED BY <1>1, <1>5
<1>7. PICK N \in Metrics(n) : \E a \in [1..n -> 1..n] :
        FoundIs(f[n], N, n) /\ GivenWith(N, a, M, n, tag, h, s, g, p, future, n)
  BY <1>6 DEF Given
<1>8. PICK a \in [1..n -> 1..n] :
        FoundIs(f[n], N, n) /\ GivenWith(N, a, M, n, tag, h, s, g, p, future, n)
  BY <1>7
<1>9. Check(M, phase, lines) = N
  BY <1>1, <1>3, <1>8, FillUpDone
<1>10. /\ Apart(a, 1..n) /\ GivenTo(N, n, tag, h, s, g, p, future, a, n)
       /\ \A k \in 1..n : \A x \in Phases : x # tag => N[k][x] = M[k][x]
  BY <1>8 DEF GivenWith, Taken
<1>11. \A k \in 1..n : \E l \in 1..n : a[l] = k
  <2>1. n \in Nat
    BY <1>1
  <2> QED BY <1>10, <2>1, ReachesAll
<1> DEFINE lineOf(k) == CHOOSE l \in 1..n : a[l] = k
           r == [k \in 1..n |-> s[lineOf(k)]]
           t == [k \in 1..n |-> h[r[k]]]
<1>12. \A k \in 1..n : lineOf(k) \in 1..n /\ a[lineOf(k)] = k
  BY <1>11
<1> HIDE DEF lineOf
<1>13. r \in [1..n -> 1..n] /\ \A k \in 1..n : r[k] = s[lineOf(k)]
  BY <1>1, <1>12
<1>14. Apart(r, 1..n)
  <2> HIDE DEF r
  <2> SUFFICES ASSUME NEW k \in 1..n, NEW l \in 1..n, r[k] = r[l] PROVE k = l
    BY DEF Apart
  <2>1. lineOf(k) = lineOf(l)
    <3>1. s[lineOf(k)] = s[lineOf(l)]
      BY <1>13
    <3>2. lineOf(k) \in 1..n /\ lineOf(l) \in 1..n
      BY <1>12
    <3>3. \A x, y \in 1..n : s[x] = s[y] => x = y
      BY <1>1 DEF Apart
    <3> QED BY ONLY <3>1, <3>2, <3>3
  <2> QED BY <1>12, <2>1
<1>15. \A k \in 1..n : /\ N[k][tag] = h[r[k]] /\ Fits(future, h[r[k]], g[p[k]])
                       /\ InOwnOrder(n, h, g, p) => h[r[k]] = h[k]
  <2> SUFFICES ASSUME NEW k \in 1..n
               PROVE  /\ N[k][tag] = h[r[k]] /\ Fits(future, h[r[k]], g[p[k]])
                      /\ InOwnOrder(n, h, g, p) => h[r[k]] = h[k]
    OBVIOUS
  <2> HIDE DEF r
  <2>1. PICK l \in 1..n : a[l] = k /\ r[k] = s[l]
    BY <1>12, <1>13
  <2> QED BY <1>10, <2>1 DEF GivenTo
<1>16. \A k \in 1..n : t[k] = h[r[k]]
  OBVIOUS
<1> HIDE DEF r, t
<1>17. IsFilled(N, M, n, tag, t)
  BY <1>10, <1>15, <1>16 DEF IsFilled
<1> QED BY <1>9, <1>13, <1>14, <1>15, <1>17 DEF Matched, t

-----------------------------------------------------------------------------
(* The logs *)

\* A function on 1..m is a list of length m.
LEMMA ListOn ==
    ASSUME NEW m \in Nat, NEW T, NEW f \in [1..m -> T]
    PROVE  Len(f) = m
<1>1. f \in Seq(T) /\ DOMAIN f = 1..m
  BY SeqDef
<1> QED BY <1>1, LenProperties

\* What came earlier, in the log of a phase.
EarlierPods(history, tag, S) == {b \in S \X S : Earlier(history, tag, b[1], b[2])}

\* Times, and then numbers, put pods in one order.
LEMMA EarlierOrders ==
    ASSUME NEW S \in SUBSET Nat, NEW history, NEW tag, \A p \in S : history[p][tag] \in Nat
    PROVE  Orders(S, EarlierPods(history, tag, S))
<1> DEFINE R == EarlierPods(history, tag, S)
<1>1. \A x, y \in S : <<x, y>> \in R <=>
         \/ history[x][tag] < history[y][tag]
         \/ history[x][tag] = history[y][tag] /\ x < y
  BY DEF EarlierPods, Earlier
<1> HIDE DEF R
<1>2. \A x \in S : <<x, x>> \notin R
  <2> SUFFICES ASSUME NEW x \in S, <<x, x>> \in R PROVE FALSE
    OBVIOUS
  <2>1. x \in Nat /\ history[x][tag] \in Nat
    OBVIOUS
  <2>2. history[x][tag] < history[x][tag] \/ x < x
    BY <1>1
  <2> QED BY <2>1, <2>2
<1>3. \A x, y \in S : x # y => <<x, y>> \in R \/ <<y, x>> \in R
  <2> SUFFICES ASSUME NEW x \in S, NEW y \in S, x # y PROVE <<x, y>> \in R \/ <<y, x>> \in R
    OBVIOUS
  <2>1. x \in Nat /\ y \in Nat /\ history[x][tag] \in Nat /\ history[y][tag] \in Nat
    OBVIOUS
  <2> QED BY <1>1, <2>1
<1>4. ASSUME NEW x \in S, NEW y \in S, NEW z \in S, <<x, y>> \in R, <<y, z>> \in R PROVE <<x, z>> \in R
  <2>1. x \in Nat /\ y \in Nat /\ z \in Nat
        /\ history[x][tag] \in Nat /\ history[y][tag] \in Nat /\ history[z][tag] \in Nat
    OBVIOUS
  <2> QED BY <1>1, <1>4, <2>1
<1> QED BY <1>2, <1>3, <1>4 DEF Orders, R

\* The pods in the order of their times.
PodsInOrder(history, podOf, tag) == InOrder(Range(podOf), EarlierPods(history, tag, Range(podOf)))

LineOf(history, podOf, tag, p) == [time |-> history[p][tag], of |-> {k \in DOMAIN podOf : podOf[k] = p}]

LEMMA LogOfPods ==
    ASSUME NEW history, NEW podOf, NEW tag, tag \notin JobPhases
    PROVE  Log(history, podOf, tag)
              = [j \in DOMAIN PodsInOrder(history, podOf, tag) |->
                    LineOf(history, podOf, tag, PodsInOrder(history, podOf, tag)[j])]
BY DEF Log, PodsInOrder, EarlierPods, LineOf

\* One line tells of a Job, and is that of all containers.
LEMMA LogOfJob ==
    ASSUME NEW history, NEW podOf, NEW tag \in JobPhases
    PROVE  /\ Len(Log(history, podOf, tag)) = 1
           /\ LineIs(Log(history, podOf, tag)[1], history[podOf[1]][tag], DOMAIN podOf)
<1> DEFINE line == [time |-> history[podOf[1]][tag], of |-> DOMAIN podOf]
<1>1. Log(history, podOf, tag) = <<line>>
  BY DEF Log
<1>2. line.time = history[podOf[1]][tag] /\ line.of = DOMAIN podOf
  OBVIOUS
<1> HIDE DEF line
<1> QED BY <1>1, <1>2 DEF LineIs

\* With one pod, its line is that of all containers.
LEMMA LogOfOne ==
    ASSUME NEW n \in Nat \ {0}, NEW history, history[1] \in [Phases -> Nat],
           NEW tag \in Phases, tag \notin JobPhases
    PROVE  LET podOf == [k \in 1..n |-> 1]
           IN /\ Len(Log(history, podOf, tag)) = 1
              /\ LineIs(Log(history, podOf, tag)[1], history[1][tag], 1..n)
<1> DEFINE podOf == [k \in 1..n |-> 1]
           order == PodsInOrder(history, podOf, tag)
           R == EarlierPods(history, tag, {1})
<1>1. DOMAIN podOf = 1..n /\ \A k \in 1..n : podOf[k] = 1
  OBVIOUS
<1> HIDE DEF podOf
<1>2. Range(podOf) = {1}
  BY <1>1 DEF Range
<1>3. IsFiniteSet({1}) /\ Cardinality({1}) = 1
  BY FS_Singleton
<1>4. Orders({1}, R)
  <2>1. {1} \in SUBSET Nat /\ \A p \in {1} : history[p][tag] \in Nat
    OBVIOUS
  <2> HIDE DEF R
  <2> QED BY <2>1, EarlierOrders DEF R
<1>5. order = InOrder({1}, R)
  BY <1>2 DEF PodsInOrder
<1> HIDE DEF R
<1>6. InOrder({1}, R) \in [1..Cardinality({1}) -> {1}]
  BY <1>3, <1>4, InOrderSorts
<1> HIDE DEF order
<1>7. order \in [1..1 -> {1}]
  BY <1>3, <1>5, <1>6
<1> DEFINE line(j) == LineOf(history, podOf, tag, order[j])
           log == [j \in 1..1 |-> line(j)]
<1>8. DOMAIN order = 1..1 /\ order[1] = 1
  BY <1>7
<1>9. Log(history, podOf, tag) = log
  BY <1>8, LogOfPods DEF order
<1>10. LineIs(line(1), history[1][tag], 1..n)
  <2>1. {k \in DOMAIN podOf : podOf[k] = 1} = 1..n
    BY <1>1
  <2>2. line(1) = [time |-> history[1][tag], of |-> 1..n]
    BY <1>8, <2>1 DEF LineOf
  <2> QED BY <2>2 DEF LineIs
<1> HIDE DEF line
<1>11. log \in [1..1 -> {line(1)}] /\ log[1] = line(1)
  OBVIOUS
<1> HIDE DEF log
<1>12. Len(log) = 1
  <2>1. 1 \in Nat
    OBVIOUS
  <2> QED BY <1>11, <2>1, ListOn
<1> QED BY <1>9, <1>10, <1>11, <1>12 DEF podOf

\* With one container per pod, there is a line for each, in the order of their times.
LEMMA LogOfEach ==
    ASSUME NEW n \in Nat \ {0}, NEW history, \A p \in 1..n : history[p] \in [Phases -> Nat],
           NEW tag \in Phases, tag \notin JobPhases
    PROVE  LET log == Log(history, [k \in 1..n |-> k], tag)
               h == [p \in 1..n |-> history[p][tag]]
           IN \E s : LogIs(log, n, h, s) /\ \A j, l \in 1..n : j <= l => h[s[j]] <= h[s[l]]
<1> DEFINE podOf == [k \in 1..n |-> k]
           s == PodsInOrder(history, podOf, tag)
           S == 1..n
           R == EarlierPods(history, tag, S)
           h == [p \in 1..n |-> history[p][tag]]
<1>1. DOMAIN podOf = 1..n /\ \A k \in 1..n : podOf[k] = k
  OBVIOUS
<1>2. \A p \in 1..n : history[p][tag] \in Nat
  OBVIOUS
<1>3. h \in [1..n -> Nat] /\ \A p \in 1..n : h[p] = history[p][tag]
  BY <1>2
<1> HIDE DEF podOf, h
<1>4. Range(podOf) = S
  BY <1>1 DEF Range
<1>5. S \in SUBSET Nat /\ IsFiniteSet(S) /\ Cardinality(S) = n
  <2>1. 1 \in Int /\ n \in Int /\ 1 <= n /\ n - 1 + 1 = n
    OBVIOUS
  <2> QED BY <2>1, FS_Interval
<1>6. \A x, y \in S : <<x, y>> \in R => h[x] <= h[y] /\ x # y
  <2> SUFFICES ASSUME NEW x \in S, NEW y \in S, <<x, y>> \in R PROVE h[x] <= h[y] /\ x # y
    OBVIOUS
  <2>1. history[x][tag] < history[y][tag] \/ (history[x][tag] = history[y][tag] /\ x < y)
    <3> DEFINE b == <<x, y>>
    <3>1. Earlier(history, tag, b[1], b[2])
      <4> HIDE DEF b
      <4> QED BY DEF EarlierPods, b
    <3>2. b[1] = x /\ b[2] = y
      OBVIOUS
    <3> HIDE DEF b
    <3> QED BY <3>1, <3>2 DEF Earlier
  <2>2. h[x] = history[x][tag] /\ h[y] = history[y][tag] /\ h[x] \in Nat /\ h[y] \in Nat /\ x \in Nat /\ y \in Nat
    BY <1>3
  <2> QED BY <2>1, <2>2
<1>7. Orders(S, R)
  <2> HIDE DEF S
  <2>1. \A p \in S : history[p][tag] \in Nat
    BY <1>2 DEF S
  <2> QED BY <1>5, <2>1, EarlierOrders
<1>8. s = InOrder(S, R)
  BY <1>4 DEF PodsInOrder
<1> HIDE DEF R, s
<1>9. s \in [1..n -> S] /\ \A j, l \in 1..n : j < l => <<s[j], s[l]>> \in R
  <2> HIDE DEF S
  <2> QED BY <1>5, <1>7, <1>8, InOrderSorts
<1>10. \A j, l \in 1..n : j < l => h[s[j]] <= h[s[l]] /\ s[j] # s[l]
  BY <1>6, <1>9
<1>11. Apart(s, 1..n)
  BY <1>10 DEF Apart
<1>12. \A j, l \in 1..n : j <= l => h[s[j]] <= h[s[l]]
  <2> SUFFICES ASSUME NEW j \in 1..n, NEW l \in 1..n, j <= l PROVE h[s[j]] <= h[s[l]]
    OBVIOUS
  <2>1. h[s[j]] \in Nat
    BY <1>3, <1>9
  <2> QED BY <1>10, <2>1
<1> DEFINE line(j) == LineOf(history, podOf, tag, s[j])
           log == [j \in 1..n |-> line(j)]
<1>13. Log(history, podOf, tag) = log
  <2>1. DOMAIN s = 1..n
    BY <1>9
  <2> QED BY <2>1, LogOfPods DEF s
<1>14. \A j \in 1..n : LineIs(line(j), h[s[j]], {s[j]})
  <2> SUFFICES ASSUME NEW j \in 1..n PROVE LineIs(line(j), h[s[j]], {s[j]})
    OBVIOUS
  <2>1. s[j] \in 1..n
    BY <1>9
  <2>2. {k \in DOMAIN podOf : podOf[k] = s[j]} = {s[j]}
    BY <1>1, <2>1
  <2>3. line(j) = [time |-> history[s[j]][tag], of |-> {s[j]}]
    BY <2>2 DEF LineOf
  <2> HIDE DEF line
  <2> QED BY <1>3, <2>1, <2>3 DEF LineIs
<1> HIDE DEF line
<1>15. log \in [1..n -> {line(j) : j \in 1..n}] /\ \A j \in 1..n : log[j] = line(j)
  OBVIOUS
<1> HIDE DEF log
<1>16. Len(log) = n
  BY <1>15, ListOn
<1>17. LogIs(log, n, h, s)
  BY <1>3, <1>9, <1>11, <1>14, <1>15, <1>16 DEF LogIs
<1> QED BY <1>12, <1>13, <1>17 DEF podOf, h

-----------------------------------------------------------------------------
(* All phases *)

\* The phases in the order of Mapping.
LEMMA MappingIs ==
    /\ Len(Mapping) = 6
    /\ TaggedIs(Mapping[1], "2_kubectl_send")
    /\ MatchedIs(Mapping[2], "3_api_receive_job", "2_kubectl_send", FALSE)
    /\ TaggedIs(Mapping[3], "7_scheduler_start")
    /\ MatchedIs(Mapping[4], "6_api_receive_pod", "7_scheduler_start", TRUE)
    /\ MatchedIs(Mapping[5], "5_pod_object_create", "6_api_receive_pod", TRUE)
    /\ MatchedIs(Mapping[6], "8_api_receive_pod", "7_scheduler_start", FALSE)
<1> DEFINE first == [tag |-> "2_kubectl_send", compare |-> "", future |-> FALSE]
           second == [tag |-> "3_api_receive_job", compare |-> "2_kubectl_send", future |-> FALSE]
           third == [tag |-> "7_scheduler_start", compare |-> "", future |-> FALSE]
           fourth == [tag |-> "6_api_receive_pod", compare |-> "7_scheduler_start", future |-> TRUE]
           fifth == [tag |-> "5_pod_object_create", compare |-> "6_api_receive_pod", future |-> TRUE]
           sixth == [tag |-> "8_api_receive_pod", compare |-> "7_scheduler_start", future |-> FALSE]
<1>1. Mapping = <<first, second, third, fourth, fifth, sixth>>
  BY DEF Mapping
<1>2. TaggedIs(first, "2_kubectl_send") /\ TaggedIs(third, "7_scheduler_start")
  BY DEF TaggedIs, Phases
<1>3. /\ MatchedIs(second, "3_api_receive_job", "2_kubectl_send", FALSE)
      /\ MatchedIs(fourth, "6_api_receive_pod", "7_scheduler_start", TRUE)
      /\ MatchedIs(fifth, "5_pod_object_create", "6_api_receive_pod", TRUE)
      /\ MatchedIs(sixth, "8_api_receive_pod", "7_scheduler_start", FALSE)
  BY DEF MatchedIs, Phases
<1> HIDE DEF first, second, third, fourth, fifth, sixth
<1> QED BY <1>1, <1>2, <1>3

\* The recursive function of FillControl is a function of the phase.
LEMMA FillControlIs ==
    ASSUME NEW history, NEW podOf
    PROVE  \E f : /\ f[0] = ControlObject(Len(podOf))
                  /\ \A k \in 1..6 : f[k] = Check(f[k - 1], Mapping[k], Log(history, podOf, Mapping[k].tag))
                  /\ FillControl(history, podOf) = f[6]
<1> DEFINE next(M, k) == Check(M, Mapping[k], Log(history, podOf, Mapping[k].tag))
           m0 == ControlObject(Len(podOf))
           m1 == next(m0, 1)
           m2 == next(m1, 2)
           m3 == next(m2, 3)
           m4 == next(m3, 4)
           m5 == next(m4, 5)
           m6 == next(m5, 6)
           is(f, k) == IF k = 0 THEN m0 ELSE next(f[k - 1], k)
           Is(f) == f = [k \in 0..6 |-> is(f, k)]
           value(k) == IF k = 0 THEN m0 ELSE IF k = 1 THEN m1 ELSE IF k = 2 THEN m2 ELSE IF k = 3 THEN m3
                       ELSE IF k = 4 THEN m4 ELSE IF k = 5 THEN m5 ELSE m6
           g == [k \in 0..6 |-> value(k)]
           filled == CHOOSE f : Is(f)
<1>1. FillControl(history, podOf) = filled[6]
  <2>1. Len(Mapping) = 6
    BY MappingIs
  <2> QED BY <2>1 DEF FillControl
<1>2. Is(g)
  <2>1. \A k \in 0..6 : k \in {0, 1, 2, 3, 4, 5, 6}
    OBVIOUS
  <2>2. g[0] = m0 /\ g[1] = m1 /\ g[2] = m2 /\ g[3] = m3 /\ g[4] = m4 /\ g[5] = m5
    <3> HIDE DEF m0, m1, m2, m3, m4, m5, m6
    <3> QED OBVIOUS
  <2>3. /\ value(0) = m0 /\ value(1) = m1 /\ value(2) = m2 /\ value(3) = m3 /\ value(4) = m4 /\ value(5) = m5
        /\ value(6) = m6
    <3> HIDE DEF m0, m1, m2, m3, m4, m5, m6
    <3> QED OBVIOUS
  <2>4. /\ m1 = next(m0, 1) /\ m2 = next(m1, 2) /\ m3 = next(m2, 3)
        /\ m4 = next(m3, 4) /\ m5 = next(m4, 5) /\ m6 = next(m5, 6)
    OBVIOUS
  <2> HIDE DEF m0, m1, m2, m3, m4, m5, m6, next
  <2>5. /\ is(g, 0) = m0 /\ is(g, 1) = next(g[0], 1) /\ is(g, 2) = next(g[1], 2) /\ is(g, 3) = next(g[2], 3)
        /\ is(g, 4) = next(g[3], 4) /\ is(g, 5) = next(g[4], 5) /\ is(g, 6) = next(g[5], 6)
    <3> HIDE DEF g
    <3> QED OBVIOUS
  <2>6. \A k \in 0..6 : value(k) = is(g, k)
    <3> HIDE DEF value, g, is
    <3> QED BY <2>1, <2>2, <2>3, <2>4, <2>5
  <2> HIDE DEF value, is
  <2>7. g = [k \in 0..6 |-> is(g, k)]
    <3> DEFINE v(k) == is(g, k)
    <3>1. \A k \in 0..6 : value(k) = v(k)
      BY <2>6
    <3> HIDE DEF v
    <3>2. g = [k \in 0..6 |-> v(k)]
      BY <3>1
    <3> QED BY <3>2 DEF v
  <2> QED BY <2>7
<1> HIDE DEF g
<1>3. Is(filled)
  <2> HIDE DEF Is
  <2> QED BY <1>2
<1> HIDE DEF filled
<1>4. \A k \in 0..6 : filled[k] = is(filled, k)
  <2> DEFINE v(k) == is(filled, k)
  <2>1. filled = [k \in 0..6 |-> v(k)]
    BY <1>3
  <2> HIDE DEF v
  <2>2. \A k \in 0..6 : filled[k] = v(k)
    BY <2>1
  <2> QED BY <2>2 DEF v
<1>5. filled[0] = m0
  <2> HIDE DEF m0
  <2> QED BY <1>4
<1>6. \A k \in 1..6 : filled[k] = next(filled[k - 1], k)
  <2>1. \A k \in 1..6 : k \in 0..6 /\ k # 0
    OBVIOUS
  <2> HIDE DEF next, m0
  <2> QED BY <1>4, <2>1
<1> QED BY <1>1, <1>5, <1>6

\* Before the first phase.
LEMMA NothingFilled ==
    ASSUME NEW n \in Nat \ {0}
    PROVE  ControlObject(n) \in Metrics(n) /\ \A x \in Phases : NoTimes(ControlObject(n), n, x)
<1> DEFINE M == ControlObject(n)
<1>1. \A k \in 1..n : M[k] = [x \in Phases |-> 0]
  BY DEF ControlObject, Unset
<1>2. M \in Metrics(n)
  BY DEF ControlObject, Metrics, Unset
<1> HIDE DEF M
<1>3. \A k \in 1..n : \A x \in Phases : M[k][x] = 0
  BY <1>1
<1>4. \A x \in Phases : NoTimes(M, n, x)
  BY <1>2, <1>3 DEF NoTimes, Unset
<1> QED BY <1>2, <1>4 DEF M

\* The other phases have as few times as before.
LEMMA StillNoTimes ==
    \A N, M, n, tag, t, x : IsFilled(N, M, n, tag, t) /\ NoTimes(M, n, x) /\ x \in Phases /\ x # tag
        => NoTimes(N, n, x)
BY DEF IsFilled, NoTimes

\* A history has times in all phases, in order.
LEMMA HistoryIs ==
    ASSUME NEW H \in History
    PROVE  /\ H \in [Phases -> Nat] /\ \A x \in Phases : H[x] \in Nat \ {Unset}
           /\ H["2_kubectl_send"] = 1 /\ H["3_api_receive_job"] = 2
           /\ 2 < H["5_pod_object_create"] /\ H["5_pod_object_create"] < H["6_api_receive_pod"]
           /\ H["6_api_receive_pod"] < H["7_scheduler_start"]
           /\ H["7_scheduler_start"] < H["8_api_receive_pod"]
           /\ H \in [Phases -> 1 .. LastEvent]
<1>1. H \in [Phases -> 1 .. LastEvent]
  BY DEF History
<1>2. LastEvent \in Nat
  BY ApplicationAssumption
<1>3. \A x \in Phases : H[x] \in Nat \ {Unset}
  BY <1>1, <1>2 DEF Unset
<1>4. H \in [Phases -> Nat]
  BY <1>1, <1>3
<1> QED BY <1>1, <1>3, <1>4 DEF History

\* f goes through the phases.
Fills(f, history, podOf, n) ==
    /\ n \in Nat \ {0} /\ podOf \in [1..n -> 1..n]
    /\ f[0] = ControlObject(n)
    /\ \A k \in 1..6 : f[k] = Check(f[k - 1], Mapping[k], Log(history, podOf, Mapping[k].tag))
    /\ FillControl(history, podOf) = f[6]

\* There is one for every history.
LEMMA FillsExists ==
    ASSUME NEW n \in Nat \ {0}, NEW podOf \in [1..n -> 1..n], NEW history
    PROVE  \E f : Fills(f, history, podOf, n)
<1>1. Len(podOf) = n
  BY ListOn
<1>2. PICK f : /\ f[0] = ControlObject(Len(podOf))
               /\ \A k \in 1..6 : f[k] = Check(f[k - 1], Mapping[k], Log(history, podOf, Mapping[k].tag))
               /\ FillControl(history, podOf) = f[6]
  BY FillControlIs
<1>3. Fills(f, history, podOf, n)
  BY <1>1, <1>2 DEF Fills
<1> QED BY <1>3

\* One step.
LEMMA FillsStep ==
    \A f, history, podOf, n, k, tag : Fills(f, history, podOf, n) /\ k \in 1..6 /\ Mapping[k].tag = tag =>
        f[k] = Check(f[k - 1], Mapping[k], Log(history, podOf, tag))
<1> SUFFICES ASSUME NEW f, NEW history, NEW podOf, NEW n, NEW k \in 1..6, NEW tag,
                    Fills(f, history, podOf, n), Mapping[k].tag = tag
             PROVE  f[k] = Check(f[k - 1], Mapping[k], Log(history, podOf, tag))
  OBVIOUS
<1>1. f[k] = Check(f[k - 1], Mapping[k], Log(history, podOf, Mapping[k].tag))
  BY DEF Fills
<1> QED BY <1>1

\* Its steps, phase by phase.
LEMMA FillsSteps ==
    ASSUME NEW f, NEW history, NEW podOf, NEW n, Fills(f, history, podOf, n)
    PROVE  /\ f[1] = Check(f[0], Mapping[1], Log(history, podOf, "2_kubectl_send"))
           /\ f[2] = Check(f[1], Mapping[2], Log(history, podOf, "3_api_receive_job"))
           /\ f[3] = Check(f[2], Mapping[3], Log(history, podOf, "7_scheduler_start"))
           /\ f[4] = Check(f[3], Mapping[4], Log(history, podOf, "6_api_receive_pod"))
           /\ f[5] = Check(f[4], Mapping[5], Log(history, podOf, "5_pod_object_create"))
           /\ f[6] = Check(f[5], Mapping[6], Log(history, podOf, "8_api_receive_pod"))
<1>1. /\ Mapping[1].tag = "2_kubectl_send" /\ Mapping[2].tag = "3_api_receive_job"
      /\ Mapping[3].tag = "7_scheduler_start" /\ Mapping[4].tag = "6_api_receive_pod"
      /\ Mapping[5].tag = "5_pod_object_create" /\ Mapping[6].tag = "8_api_receive_pod"
  BY MappingIs DEF TaggedIs, MatchedIs
<1>2. /\ 1 \in 1..6 /\ 2 \in 1..6 /\ 3 \in 1..6 /\ 4 \in 1..6 /\ 5 \in 1..6 /\ 6 \in 1..6
      /\ 1 - 1 = 0 /\ 2 - 1 = 1 /\ 3 - 1 = 2 /\ 4 - 1 = 3 /\ 5 - 1 = 4 /\ 6 - 1 = 5
  OBVIOUS
<1>3. f[1] = Check(f[0], Mapping[1], Log(history, podOf, "2_kubectl_send"))
  BY <1>1, <1>2, FillsStep
<1>4. f[2] = Check(f[1], Mapping[2], Log(history, podOf, "3_api_receive_job"))
  BY <1>1, <1>2, FillsStep
<1>5. f[3] = Check(f[2], Mapping[3], Log(history, podOf, "7_scheduler_start"))
  BY <1>1, <1>2, FillsStep
<1>6. f[4] = Check(f[3], Mapping[4], Log(history, podOf, "6_api_receive_pod"))
  BY <1>1, <1>2, FillsStep
<1>7. f[5] = Check(f[4], Mapping[5], Log(history, podOf, "5_pod_object_create"))
  BY <1>1, <1>2, FillsStep
<1>8. f[6] = Check(f[5], Mapping[6], Log(history, podOf, "8_api_receive_pod"))
  BY <1>1, <1>2, FillsStep
<1> QED BY <1>3, <1>4, <1>5, <1>6, <1>7, <1>8

\* The time t for every container.
Same(n, t) == [k \in 1..n |-> t]

\* A log of one line, and a phase with one time.
OneLine(lines, t, of) == t \in Nat /\ Len(lines) = 1 /\ LineIs(lines[1], t, of)
OneTime(M, n, tag, t) == t \in Nat \ {Unset} /\ \A k \in 1..n : M[k][tag] = t

\* A line that names all containers fills the phase.
LEMMA TaggedAtOnce ==
    \A M, n, tag, phase, lines, t : NoTimes(M, n, tag) /\ TaggedIs(phase, tag) /\ OneLine(lines, t, 1..n)
        => IsFilled(Check(M, phase, lines), M, n, tag, Same(n, t))
<1> SUFFICES ASSUME NEW M, NEW n, NEW tag, NEW phase, NEW lines, NEW t,
                    NoTimes(M, n, tag), TaggedIs(phase, tag), OneLine(lines, t, 1..n)
             PROVE  IsFilled(Check(M, phase, lines), M, n, tag, Same(n, t))
  OBVIOUS
<1>1. t \in Nat /\ Len(lines) = 1 /\ LineIs(lines[1], t, 1..n)
  BY DEF OneLine
<1> QED BY <1>1, OneTagged DEF Same

\* So does a line that names nothing, if all containers are in one pod.
LEMMA MatchedAtOnce ==
    \A M, n, tag, phase, cmp, future, lines, t, of, c :
        /\ NoTimes(M, n, tag) /\ MatchedIs(phase, tag, cmp, future) /\ OneLine(lines, t, of)
        /\ OneTime(M, n, cmp, c) /\ Fits(future, t, c)
        => IsFilled(Check(M, phase, lines), M, n, tag, Same(n, t))
<1> SUFFICES ASSUME NEW M, NEW n, NEW tag, NEW phase, NEW cmp, NEW future, NEW lines, NEW t, NEW of, NEW c,
                    NoTimes(M, n, tag), MatchedIs(phase, tag, cmp, future), OneLine(lines, t, of),
                    OneTime(M, n, cmp, c), Fits(future, t, c)
             PROVE  IsFilled(Check(M, phase, lines), M, n, tag, Same(n, t))
  OBVIOUS
<1> t \in Nat /\ Len(lines) = 1 /\ LineIs(lines[1], t, of)
  BY DEF OneLine
<1> c \in Nat \ {Unset} /\ \A k \in 1..n : M[k][cmp] = c
  BY DEF OneTime
<1> IF future THEN t < c ELSE t > c
  BY DEF Fits
<1>1. /\ n \in Nat \ {0} /\ M \in Metrics(n) /\ tag \in Phases /\ \A k \in 1..n : M[k][tag] = Unset
      /\ cmp \in Phases /\ phase.tag = tag /\ phase.compare = cmp
  BY DEF NoTimes, MatchedIs
<1>2. PICK f : Unfolds(f, M, phase, lines, 1)
  <2>1. 1 \in Nat
    OBVIOUS
  <2> QED BY <2>1, CheckStart
<1>3. FoundIs(f[0], M, 0) /\ Check(M, phase, lines) = FillUp(f[1], phase)
  BY <1>2 DEF Unfolds
<1>4. f[1] = CheckLine(f[0], phase, lines[1])
  BY <1>2 DEF Unfolds
<1> DEFINE N == SortOnTime(M, phase, t)
<1>5. FoundIs(f[1], N, 0 + 1)
  <2>1. NextLine(f[0], n, M, 0, lines[1], t, of)
    BY <1>1, <1>3 DEF NextLine
  <2> QED BY <1>4, <2>1, CheckMatched
<1>6. 1 \in 1..n
  BY <1>1
<1>7. Open(M, phase, t) = 1..n
  <2>1. Open(M, phase, t) = {k \in 1..n : M[k][tag] = Unset /\ IF future THEN t < M[k][cmp] ELSE t > M[k][cmp]}
    BY <1>1, OpenIs
  <2> QED BY <1>1, <2>1
<1>8. PICK u \in 1..n : /\ \A k \in 1..n : M[u][cmp] = M[k][cmp] => u <= k
                        /\ Puts(N, M, n, u, tag, t)
  <2>1. \A k \in 1..n : M[k][phase.compare] # Unset
    BY <1>1
  <2>2. \E u \in Open(M, phase, t) :
              /\ \A k \in Open(M, phase, t) : /\ M[u][phase.compare] <= M[k][phase.compare]
                                              /\ M[u][phase.compare] = M[k][phase.compare] => u <= k
              /\ Puts(SortOnTime(M, phase, t), M, n, u, phase.tag, t)
    BY <1>1, <1>6, <1>7, <2>1, SortOnTimeIs
  <2> QED BY <1>1, <1>7, <2>2
<1> HIDE DEF N
<1>9. u = 1
  <2>1. u <= 1
    BY <1>6, <1>8
  <2> QED BY <2>1
<1>10. N \in Metrics(n) /\ N[1][tag] = t /\ \A l \in 1..n : \A x \in Phases : l # 1 \/ x # tag => N[l][x] = M[l][x]
  BY <1>8, <1>9 DEF Puts
<1>11. FoundIs(f[1], N, 1)
  BY <1>5
<1>12. CASE n = 1
  <2>1. Check(M, phase, lines) = N
    BY <1>1, <1>3, <1>10, <1>11, <1>12, FillUpDone
  <2> DEFINE T == Same(n, t)
  <2>2. \A k \in 1..n : k = 1 /\ T[k] = t
    BY <1>12 DEF Same
  <2> HIDE DEF T
  <2>3. IsFilled(N, M, n, tag, T)
    BY <1>10, <2>2 DEF IsFilled
  <2> QED BY <2>1, <2>3 DEF T
<1>13. CASE n # 1
  <2> DEFINE put(k) == [N[k] EXCEPT ![tag] = N[1][tag]]
             P == AsFirst(N, n, tag)
             T == Same(n, t)
  <2>1. FillUp(f[1], phase) = P
    <3>1. n \in Nat \ {0, 1}
      BY <1>1, <1>13
    <3>2. FirstFound(f[1], N, n, phase, tag, cmp, future)
      BY <1>10, <1>11, <3>1 DEF FirstFound
    <3> QED BY <3>2, FillUpOne
  <2>2. \A k \in 1..n : N[k] \in [Phases -> Nat]
    BY <1>10 DEF Metrics
  <2>3. \A k \in 1..n : /\ put(k) \in [Phases -> Nat] /\ put(k)[tag] = t
                        /\ \A x \in Phases : x # tag => put(k)[x] = N[k][x]
    BY <1>1, <1>10, <2>2
  <2>4. P = [k \in 1..n |-> put(k)]
    BY DEF AsFirst
  <2> HIDE DEF put
  <2>5. \A k \in 1..n : P[k] = put(k) /\ T[k] = t
    BY <2>4 DEF Same
  <2>6. P \in Metrics(n)
    BY <2>3, <2>4 DEF Metrics
  <2> HIDE DEF P, T
  <2>7. \A k \in 1..n : P[k][tag] = T[k]
    BY <2>3, <2>5
  <2>8. \A k \in 1..n : \A x \in Phases : x # tag => P[k][x] = M[k][x]
    BY <1>10, <2>3, <2>5
  <2>9. IsFilled(P, M, n, tag, T)
    BY <2>6, <2>7, <2>8 DEF IsFilled
  <2> QED BY <1>3, <2>1, <2>9 DEF T
<1> QED BY <1>12, <1>13

\* The phases of a Job.
LEMMA JobFilled ==
    ASSUME NEW f, NEW history, NEW podOf, NEW n, Fills(f, history, podOf, n), history[podOf[1]] \in History
    PROVE  /\ IsFilled(f[1], f[0], n, "2_kubectl_send", Same(n, 1))
           /\ IsFilled(f[2], f[1], n, "3_api_receive_job", Same(n, 2))
           /\ \A x \in Phases \ JobPhases : NoTimes(f[2], n, x)
<1>1. n \in Nat \ {0} /\ podOf \in [1..n -> 1..n] /\ f[0] = ControlObject(n)
  BY DEF Fills
<1>2. \A x \in Phases : NoTimes(f[0], n, x)
  BY <1>1, NothingFilled
<1>3. DOMAIN podOf = 1..n
  BY <1>1
<1>4. /\ "2_kubectl_send" \in JobPhases /\ "3_api_receive_job" \in JobPhases
      /\ "2_kubectl_send" \in Phases /\ "3_api_receive_job" \in Phases
      /\ \A x \in Phases \ JobPhases : x # "2_kubectl_send" /\ x # "3_api_receive_job"
      /\ "2_kubectl_send" # "3_api_receive_job"
  BY DEF JobPhases, Phases
<1>5. history[podOf[1]]["2_kubectl_send"] = 1 /\ history[podOf[1]]["3_api_receive_job"] = 2
  BY HistoryIs
<1>6. IsFilled(f[1], f[0], n, "2_kubectl_send", Same(n, 1))
  <2> DEFINE log == Log(history, podOf, "2_kubectl_send")
  <2>1. OneLine(log, 1, 1..n)
    BY <1>3, <1>4, <1>5, LogOfJob DEF OneLine
  <2> HIDE DEF log
  <2>2. TaggedIs(Mapping[1], "2_kubectl_send") /\ NoTimes(f[0], n, "2_kubectl_send")
    BY <1>2, <1>4, MappingIs
  <2>3. IsFilled(Check(f[0], Mapping[1], log), f[0], n, "2_kubectl_send", Same(n, 1))
    BY <2>1, <2>2, TaggedAtOnce
  <2> QED BY <2>3, FillsSteps DEF log
<1>7. OneTime(f[1], n, "2_kubectl_send", 1)
  BY <1>6 DEF IsFilled, Same, OneTime, Unset
<1>8. IsFilled(f[2], f[1], n, "3_api_receive_job", Same(n, 2))
  <2> DEFINE log == Log(history, podOf, "3_api_receive_job")
  <2>1. OneLine(log, 2, 1..n)
    BY <1>3, <1>4, <1>5, LogOfJob DEF OneLine
  <2> HIDE DEF log
  <2>2. MatchedIs(Mapping[2], "3_api_receive_job", "2_kubectl_send", FALSE)
    BY MappingIs
  <2>3. NoTimes(f[1], n, "3_api_receive_job")
    BY <1>2, <1>4, <1>6, StillNoTimes
  <2>4. Fits(FALSE, 2, 1)
    BY DEF Fits
  <2>5. IsFilled(Check(f[1], Mapping[2], log), f[1], n, "3_api_receive_job", Same(n, 2))
    BY <1>7, <2>1, <2>2, <2>3, <2>4, MatchedAtOnce
  <2> QED BY <2>5, FillsSteps DEF log
<1>9. \A x \in Phases \ JobPhases : NoTimes(f[2], n, x)
  <2> SUFFICES ASSUME NEW x \in Phases \ JobPhases PROVE NoTimes(f[2], n, x)
    OBVIOUS
  <2>1. NoTimes(f[1], n, x)
    BY <1>2, <1>4, <1>6, StillNoTimes
  <2> QED BY <1>4, <1>8, <2>1, StillNoTimes
<1> QED BY <1>6, <1>8, <1>9

\* The time of x stays when another phase is filled in.
LEMMA OneTimeIs ==
    \A N, M, n, tag, t : IsFilled(N, M, n, tag, Same(n, t)) /\ t \in Nat \ {Unset} => OneTime(N, n, tag, t)
BY DEF IsFilled, Same, OneTime

\* The time is not changed by another phase.
LEMMA OneTimeStays ==
    \A N, M, n, tag, t, x, c : IsFilled(N, M, n, tag, t) /\ OneTime(M, n, x, c) /\ x \in Phases /\ x # tag
        => OneTime(N, n, x, c)
BY DEF IsFilled, OneTime

\* With one pod, every container has its history.
LEMMA OnePod ==
    ASSUME NEW n \in Nat \ {0}, NEW history, history[1] \in History
    PROVE  LET filled == FillControl(history, [k \in 1..n |-> 1])
           IN filled \in Metrics(n) /\ \A k \in 1..n : filled[k] = history[1]
<1> DEFINE podOf == [k \in 1..n |-> 1]
           H == history[1]
<1>1. 1 \in 1..n /\ podOf \in [1..n -> 1..n] /\ podOf[1] = 1
  OBVIOUS
<1>2. ASSUME NEW tag \in Phases, tag \notin JobPhases
      PROVE  OneLine(Log(history, podOf, tag), H[tag], 1..n) /\ H[tag] \in Nat \ {Unset}
  <2>1. H \in [Phases -> Nat] /\ H[tag] \in Nat \ {Unset}
    BY HistoryIs
  <2>2. /\ Len(Log(history, podOf, tag)) = 1
        /\ LineIs(Log(history, podOf, tag)[1], H[tag], 1..n)
    BY <1>2, <2>1, LogOfOne
  <2> HIDE DEF podOf
  <2> QED BY <2>1, <2>2 DEF OneLine
<1> HIDE DEF podOf
<1>3. PICK f : Fills(f, history, podOf, n)
  BY <1>1, FillsExists
<1>4. /\ IsFilled(f[1], f[0], n, "2_kubectl_send", Same(n, 1))
      /\ IsFilled(f[2], f[1], n, "3_api_receive_job", Same(n, 2))
      /\ \A x \in Phases \ JobPhases : NoTimes(f[2], n, x)
  BY <1>1, <1>3, JobFilled
<1> DEFINE t5 == H["5_pod_object_create"]
           t6 == H["6_api_receive_pod"]
           t7 == H["7_scheduler_start"]
           t8 == H["8_api_receive_pod"]
<1>5. /\ {"5_pod_object_create", "6_api_receive_pod", "7_scheduler_start", "8_api_receive_pod"}
           \subseteq Phases \ JobPhases
      /\ "2_kubectl_send" \in Phases /\ "3_api_receive_job" \in Phases
  BY DEF Phases, JobPhases
<1>6. /\ {t5, t6, t7, t8} \subseteq Nat \ {Unset} /\ t5 < t6 /\ t6 < t7 /\ t7 < t8
      /\ H["2_kubectl_send"] = 1 /\ H["3_api_receive_job"] = 2
  BY <1>5, HistoryIs
<1>7. /\ OneLine(Log(history, podOf, "5_pod_object_create"), t5, 1..n)
      /\ OneLine(Log(history, podOf, "6_api_receive_pod"), t6, 1..n)
      /\ OneLine(Log(history, podOf, "7_scheduler_start"), t7, 1..n)
      /\ OneLine(Log(history, podOf, "8_api_receive_pod"), t8, 1..n)
  BY <1>2, <1>5
<1> HIDE DEF t5, t6, t7, t8, H
<1>8. Fits(TRUE, t6, t7) /\ Fits(TRUE, t5, t6) /\ Fits(FALSE, t8, t7)
  BY <1>6 DEF Fits
<1>9. IsFilled(f[3], f[2], n, "7_scheduler_start", Same(n, t7))
  <2>1. NoTimes(f[2], n, "7_scheduler_start")
    BY <1>4, <1>5
  <2> QED BY <1>3, <1>7, <2>1, FillsSteps, MappingIs, TaggedAtOnce
<1>10. OneTime(f[3], n, "7_scheduler_start", t7)
  BY <1>6, <1>9, OneTimeIs
<1>11. \A x \in Phases \ JobPhases : x # "7_scheduler_start" => NoTimes(f[3], n, x)
  BY <1>4, <1>9, StillNoTimes
<1>12. IsFilled(f[4], f[3], n, "6_api_receive_pod", Same(n, t6))
  <2>1. NoTimes(f[3], n, "6_api_receive_pod")
    BY <1>5, <1>11
  <2> DEFINE log == Log(history, podOf, "6_api_receive_pod")
  <2>2. f[4] = Check(f[3], Mapping[4], log)
    BY <1>3, FillsSteps
  <2>3. MatchedIs(Mapping[4], "6_api_receive_pod", "7_scheduler_start", TRUE)
    BY MappingIs
  <2>4. OneLine(log, t6, 1..n)
    BY <1>7
  <2> HIDE DEF log
  <2>5. IsFilled(Check(f[3], Mapping[4], log), f[3], n, "6_api_receive_pod", Same(n, t6))
    BY <1>8, <1>10, <2>1, <2>2, <2>4, <2>3, MatchedAtOnce
  <2> QED BY <2>2, <2>5
<1>13. OneTime(f[4], n, "6_api_receive_pod", t6) /\ OneTime(f[4], n, "7_scheduler_start", t7)
  BY <1>5, <1>6, <1>10, <1>12, OneTimeIs, OneTimeStays
<1>14. NoTimes(f[4], n, "5_pod_object_create") /\ NoTimes(f[4], n, "8_api_receive_pod")
  BY <1>5, <1>11, <1>12, StillNoTimes
<1>15. IsFilled(f[5], f[4], n, "5_pod_object_create", Same(n, t5))
  <2> DEFINE log == Log(history, podOf, "5_pod_object_create")
  <2>1. f[5] = Check(f[4], Mapping[5], log)
    BY <1>3, FillsSteps
  <2>2. MatchedIs(Mapping[5], "5_pod_object_create", "6_api_receive_pod", TRUE)
    BY MappingIs
  <2>3. OneLine(log, t5, 1..n)
    BY <1>7
  <2> HIDE DEF log
  <2>4. IsFilled(Check(f[4], Mapping[5], log), f[4], n, "5_pod_object_create", Same(n, t5))
    BY <1>8, <1>13, <1>14, <2>1, <2>3, <2>2, MatchedAtOnce
  <2> QED BY <2>1, <2>4
<1>16. OneTime(f[5], n, "7_scheduler_start", t7) /\ NoTimes(f[5], n, "8_api_receive_pod")
  BY <1>5, <1>13, <1>14, <1>15, OneTimeStays, StillNoTimes
<1>17. IsFilled(f[6], f[5], n, "8_api_receive_pod", Same(n, t8))
  <2> DEFINE log == Log(history, podOf, "8_api_receive_pod")
  <2>1. f[6] = Check(f[5], Mapping[6], log)
    BY <1>3, FillsSteps
  <2>2. MatchedIs(Mapping[6], "8_api_receive_pod", "7_scheduler_start", FALSE)
    BY MappingIs
  <2>3. OneLine(log, t8, 1..n)
    BY <1>7
  <2> HIDE DEF log
  <2>4. IsFilled(Check(f[5], Mapping[6], log), f[5], n, "8_api_receive_pod", Same(n, t8))
    BY <1>8, <1>16, <2>1, <2>3, <2>2, MatchedAtOnce
  <2> QED BY <2>1, <2>4
<1>18. f[6] \in Metrics(n)
  BY <1>17 DEF IsFilled
<1>19. ASSUME NEW k \in 1..n PROVE f[6][k] = H
  <2>1. \A x : Same(n, x)[k] = x
    BY DEF Same
  <2>2. /\ f[6][k]["8_api_receive_pod"] = t8 /\ f[6][k]["5_pod_object_create"] = t5
        /\ f[6][k]["6_api_receive_pod"] = t6 /\ f[6][k]["7_scheduler_start"] = t7
        /\ f[6][k]["3_api_receive_job"] = 2 /\ f[6][k]["2_kubectl_send"] = 1
    BY <1>4, <1>5, <1>9, <1>12, <1>15, <1>17, <2>1 DEF IsFilled
  <2>3. f[6][k] \in [Phases -> Nat] /\ H \in [Phases -> Nat]
    BY <1>18, HistoryIs DEF Metrics, H
  <2>4. \A x \in Phases : f[6][k][x] = H[x]
    BY <1>6, <2>2 DEF Phases, t5, t6, t7, t8
  <2> QED BY <2>3, <2>4
<1>20. FillControl(history, podOf) = f[6]
  BY <1>3 DEF Fills
<1> QED BY <1>18, <1>19, <1>20 DEF podOf, H

\* When each pod has passed a phase, and a pod for each container.
Times(history, n, tag) == [p \in 1..n |-> history[p][tag]]
Each(n) == [k \in 1..n |-> k]

\* Before a phase is matched: container k has the other time of p[k].
BeforeMatched(history, n, M, phase, tag, cmp, future, p) ==
    /\ n \in Nat \ {0} /\ history \in [1..n -> History]
    /\ tag \in Phases \ JobPhases /\ cmp \in Phases \ JobPhases /\ MatchedIs(phase, tag, cmp, future)
    /\ \A q \in 1..n : Fits(future, history[q][tag], history[q][cmp])
    /\ p \in [1..n -> 1..n] /\ Apart(p, 1..n) /\ NoTimes(M, n, tag)
    /\ \A k \in 1..n : M[k][cmp] = Times(history, n, cmp)[p[k]]

\* They are times of a history.
LEMMA TimesAre ==
    ASSUME NEW n \in Nat \ {0}, NEW history \in [1..n -> History], NEW x \in Phases
    PROVE  /\ \A p \in 1..n : history[p] \in [Phases -> Nat]
           /\ Times(history, n, x) \in [1..n -> Nat]
           /\ \A p \in 1..n : Times(history, n, x)[p] = history[p][x] /\ history[p][x] \in Nat \ {Unset}
<1>1. \A p \in 1..n : history[p] \in [Phases -> Nat] /\ history[p][x] \in Nat \ {Unset}
  <2> SUFFICES ASSUME NEW p \in 1..n PROVE history[p] \in [Phases -> Nat] /\ history[p][x] \in Nat \ {Unset}
    OBVIOUS
  <2> DEFINE H == history[p]
  <2>1. H \in History
    OBVIOUS
  <2> HIDE DEF H
  <2>2. H \in [Phases -> Nat] /\ \A y \in Phases : H[y] \in Nat \ {Unset}
    BY <2>1, HistoryIs
  <2> QED BY <2>2 DEF H
<1> QED BY <1>1 DEF Times

\* The log of a phase has one line for each pod, in the order of time.
LEMMA EachLog ==
    \A n, history, tag : n \in Nat \ {0} /\ history \in [1..n -> History] /\ tag \in Phases \ JobPhases =>
        \E s : LET h == Times(history, n, tag)
               IN LogIs(Log(history, Each(n), tag), n, h, s) /\ \A j, l \in 1..n : j <= l => h[s[j]] <= h[s[l]]
<1> SUFFICES ASSUME NEW n \in Nat \ {0}, NEW history \in [1..n -> History], NEW tag \in Phases \ JobPhases
             PROVE  \E s : LET h == Times(history, n, tag)
                           IN /\ LogIs(Log(history, Each(n), tag), n, h, s)
                              /\ \A j, l \in 1..n : j <= l => h[s[j]] <= h[s[l]]
  OBVIOUS
<1>1. \A p \in 1..n : history[p] \in [Phases -> Nat]
  BY TimesAre
<1> QED BY <1>1, LogOfEach DEF Times, Each

\* Its lines are matched with the containers.
LEMMA EachMatched ==
    \A history, n, M, phase, tag, cmp, future, p : BeforeMatched(history, n, M, phase, tag, cmp, future, p) =>
        Matched(Check(M, phase, Log(history, Each(n), tag)), M, n, tag,
                Times(history, n, tag), Times(history, n, cmp), p, future)
<1> SUFFICES ASSUME NEW history, NEW n, NEW M, NEW phase, NEW tag, NEW cmp, NEW future, NEW p,
                    BeforeMatched(history, n, M, phase, tag, cmp, future, p)
             PROVE  Matched(Check(M, phase, Log(history, Each(n), tag)), M, n, tag,
                            Times(history, n, tag), Times(history, n, cmp), p, future)
  OBVIOUS
<1>1. /\ n \in Nat \ {0} /\ history \in [1..n -> History]
      /\ tag \in Phases \ JobPhases /\ cmp \in Phases \ JobPhases /\ MatchedIs(phase, tag, cmp, future)
      /\ \A q \in 1..n : Fits(future, history[q][tag], history[q][cmp])
      /\ p \in [1..n -> 1..n] /\ Apart(p, 1..n) /\ NoTimes(M, n, tag)
      /\ \A k \in 1..n : M[k][cmp] = Times(history, n, cmp)[p[k]]
  BY DEF BeforeMatched
<1> DEFINE h == Times(history, n, tag)
           g == Times(history, n, cmp)
           lines == Log(history, Each(n), tag)
<1>2. /\ h \in [1..n -> Nat] /\ g \in [1..n -> Nat]
      /\ \A q \in 1..n : h[q] = history[q][tag] /\ h[q] # Unset /\ g[q] = history[q][cmp] /\ g[q] # Unset
  <2>1. h \in [1..n -> Nat] /\ \A q \in 1..n : h[q] = history[q][tag] /\ history[q][tag] \in Nat \ {Unset}
    BY <1>1, TimesAre
  <2>2. g \in [1..n -> Nat] /\ \A q \in 1..n : g[q] = history[q][cmp] /\ history[q][cmp] \in Nat \ {Unset}
    BY <1>1, TimesAre
  <2> HIDE DEF h, g
  <2> QED BY <2>1, <2>2
<1>3. PICK s : LogIs(lines, n, h, s) /\ \A j, l \in 1..n : j <= l => h[s[j]] <= h[s[l]]
  BY <1>1, EachLog
<1>4. \A k \in 1..n : M[k][cmp] = g[p[k]]
  BY <1>1
<1> HIDE DEF h, g, lines
<1>5. \A q \in 1..n : IF future THEN h[q] < g[q] ELSE g[q] < h[q]
  <2> SUFFICES ASSUME NEW q \in 1..n PROVE IF future THEN h[q] < g[q] ELSE g[q] < h[q]
    OBVIOUS
  <2>1. h[q] \in Nat /\ g[q] \in Nat /\ Fits(future, h[q], g[q])
    BY <1>1, <1>2
  <2> QED BY <2>1 DEF Fits
<1>6. Matching(n, h, g, s, p, future)
  BY <1>1, <1>2, <1>3, <1>5 DEF Matching, LogIs
<1>7. MatchedLog(lines, n, h, s, g, p, M, phase, tag, cmp, future)
  BY <1>1, <1>2, <1>3, <1>6, <1>4 DEF MatchedLog
<1> QED BY <1>7, ManyMatched DEF h, g, lines

\* With a pod for each container, the timelines are possible histories, and
\* those of the pods if no pod passes another.
LEMMA EachPod ==
    ASSUME NEW n \in Nat \ {0}, NEW history \in [1..n -> History]
    PROVE  LET filled == FillControl(history, [k \in 1..n |-> k])
           IN filled \in Metrics(n) /\ \A k \in 1..n : /\ filled[k] \in History
                                                       /\ InStep(history) => filled[k] = history[k]
<1> DEFINE podOf == Each(n)
           h5 == Times(history, n, "5_pod_object_create")
           h6 == Times(history, n, "6_api_receive_pod")
           h7 == Times(history, n, "7_scheduler_start")
           h8 == Times(history, n, "8_api_receive_pod")
<1>1. 1 \in 1..n /\ podOf \in [1..n -> 1..n] /\ podOf[1] = 1 /\ Apart(podOf, 1..n) /\ \A k \in 1..n : podOf[k] = k
  BY DEF Each, Apart
<1> HIDE DEF podOf
<1>2. PICK f : Fills(f, history, podOf, n)
  BY <1>1, FillsExists
<1>3. /\ IsFilled(f[1], f[0], n, "2_kubectl_send", Same(n, 1))
      /\ IsFilled(f[2], f[1], n, "3_api_receive_job", Same(n, 2))
      /\ \A x \in Phases \ JobPhases : NoTimes(f[2], n, x)
  <2>1. history[podOf[1]] \in History
    BY <1>1
  <2> QED BY <1>2, <2>1, JobFilled
<1>4. /\ {"5_pod_object_create", "6_api_receive_pod", "7_scheduler_start", "8_api_receive_pod"}
           \subseteq Phases \ JobPhases
      /\ "2_kubectl_send" \in Phases /\ "3_api_receive_job" \in Phases
  BY DEF Phases, JobPhases
<1>5. ASSUME NEW q \in 1..n
      PROVE  /\ Fits(TRUE, history[q]["6_api_receive_pod"], history[q]["7_scheduler_start"])
             /\ Fits(TRUE, history[q]["5_pod_object_create"], history[q]["6_api_receive_pod"])
             /\ Fits(FALSE, history[q]["8_api_receive_pod"], history[q]["7_scheduler_start"])
  <2> DEFINE H == history[q]
  <2>1. H \in History
    OBVIOUS
  <2> HIDE DEF H
  <2>2. /\ H["5_pod_object_create"] < H["6_api_receive_pod"]
        /\ H["6_api_receive_pod"] < H["7_scheduler_start"] /\ H["7_scheduler_start"] < H["8_api_receive_pod"]
        /\ \A x \in Phases : H[x] \in Nat
    BY <2>1, HistoryIs
  <2>3. H["8_api_receive_pod"] \in Nat /\ H["7_scheduler_start"] \in Nat
    BY <1>4, <2>2
  <2> QED BY <2>2, <2>3 DEF Fits, H
<1>6. /\ \A x \in Phases : /\ Times(history, n, x) \in [1..n -> Nat]
                           /\ \A p \in 1..n : Times(history, n, x)[p] = history[p][x]
  BY TimesAre
<1>7. IsFilled(f[3], f[2], n, "7_scheduler_start", h7)
  <2> DEFINE log == Log(history, podOf, "7_scheduler_start")
  <2>1. PICK s : LogIs(log, n, h7, s)
    BY <1>4, EachLog DEF podOf
  <2>2. f[3] = Check(f[2], Mapping[3], log)
    BY <1>2, FillsSteps
  <2>3. TaggedIs(Mapping[3], "7_scheduler_start") /\ NoTimes(f[2], n, "7_scheduler_start")
    BY <1>3, <1>4, MappingIs
  <2> HIDE DEF log, h7
  <2> QED BY <2>1, <2>2, <2>3, ManyTagged
<1>8. \A x \in Phases \ JobPhases : x # "7_scheduler_start" => NoTimes(f[3], n, x)
  BY <1>3, <1>7, StillNoTimes
<1>9. \A k \in 1..n : f[3][k]["7_scheduler_start"] = h7[podOf[k]]
  BY <1>1, <1>7 DEF IsFilled
<1>10. Matched(f[4], f[3], n, "6_api_receive_pod", h6, h7, podOf, TRUE)
  <2>1. BeforeMatched(history, n, f[3], Mapping[4], "6_api_receive_pod", "7_scheduler_start", TRUE, podOf)
    <3>1. MatchedIs(Mapping[4], "6_api_receive_pod", "7_scheduler_start", TRUE)
      BY MappingIs
    <3>2. NoTimes(f[3], n, "6_api_receive_pod")
      BY <1>4, <1>8
    <3> QED BY <1>1, <1>4, <1>5, <1>9, <3>1, <3>2 DEF BeforeMatched
  <2>2. f[4] = Check(f[3], Mapping[4], Log(history, podOf, "6_api_receive_pod"))
    BY <1>2, FillsSteps
  <2> QED BY <2>1, <2>2, EachMatched DEF podOf
<1> HIDE DEF h5, h6, h7, h8
<1>11. PICK r6 \in [1..n -> 1..n] :
          /\ IsFilled(f[4], f[3], n, "6_api_receive_pod", [k \in 1..n |-> h6[r6[k]]])
          /\ Apart(r6, 1..n) /\ \A k \in 1..n : Fits(TRUE, h6[r6[k]], h7[podOf[k]])
          /\ InOwnOrder(n, h6, h7, podOf) => \A k \in 1..n : h6[r6[k]] = h6[k]
  BY <1>10 DEF Matched
<1>12. \A k \in 1..n : f[4][k]["6_api_receive_pod"] = h6[r6[k]]
  BY <1>11 DEF IsFilled
<1>13. NoTimes(f[4], n, "5_pod_object_create") /\ NoTimes(f[4], n, "8_api_receive_pod")
  BY <1>4, <1>8, <1>11, StillNoTimes
<1>14. Matched(f[5], f[4], n, "5_pod_object_create", h5, h6, r6, TRUE)
  <2>1. BeforeMatched(history, n, f[4], Mapping[5], "5_pod_object_create", "6_api_receive_pod", TRUE, r6)
    <3>1. MatchedIs(Mapping[5], "5_pod_object_create", "6_api_receive_pod", TRUE)
      BY MappingIs
    <3> QED BY <1>4, <1>5, <1>11, <1>12, <1>13, <3>1 DEF BeforeMatched, h6
  <2>2. f[5] = Check(f[4], Mapping[5], Log(history, podOf, "5_pod_object_create"))
    BY <1>2, FillsSteps
  <2> QED BY <2>1, <2>2, EachMatched DEF podOf, h5, h6
<1>15. PICK r5 \in [1..n -> 1..n] :
          /\ IsFilled(f[5], f[4], n, "5_pod_object_create", [k \in 1..n |-> h5[r5[k]]])
          /\ Apart(r5, 1..n) /\ \A k \in 1..n : Fits(TRUE, h5[r5[k]], h6[r6[k]])
          /\ InOwnOrder(n, h5, h6, r6) => \A k \in 1..n : h5[r5[k]] = h5[k]
  BY <1>14 DEF Matched
<1>16. NoTimes(f[5], n, "8_api_receive_pod")
  BY <1>4, <1>13, <1>15, StillNoTimes
<1>17. \A k \in 1..n : f[5][k]["7_scheduler_start"] = h7[podOf[k]]
  <2>1. /\ "7_scheduler_start" \in Phases
        /\ "7_scheduler_start" # "6_api_receive_pod" /\ "7_scheduler_start" # "5_pod_object_create"
    BY DEF Phases
  <2>2. \A k \in 1..n : f[3][k]["7_scheduler_start"] = h7[podOf[k]]
    BY <1>9 DEF IsFilled
  <2>3. \A k \in 1..n : f[4][k]["7_scheduler_start"] = h7[podOf[k]]
    BY <1>11, <2>1, <2>2 DEF IsFilled
  <2> QED BY <1>15, <2>1, <2>3 DEF IsFilled
<1>18. Matched(f[6], f[5], n, "8_api_receive_pod", h8, h7, podOf, FALSE)
  <2>1. BeforeMatched(history, n, f[5], Mapping[6], "8_api_receive_pod", "7_scheduler_start", FALSE, podOf)
    <3>1. MatchedIs(Mapping[6], "8_api_receive_pod", "7_scheduler_start", FALSE)
      BY MappingIs
    <3> QED BY <1>1, <1>4, <1>5, <1>16, <1>17, <3>1 DEF BeforeMatched, h7
  <2>2. f[6] = Check(f[5], Mapping[6], Log(history, podOf, "8_api_receive_pod"))
    BY <1>2, FillsSteps
  <2> QED BY <2>1, <2>2, EachMatched DEF podOf, h7, h8
<1>19. PICK r8 \in [1..n -> 1..n] :
          /\ IsFilled(f[6], f[5], n, "8_api_receive_pod", [k \in 1..n |-> h8[r8[k]]])
          /\ Apart(r8, 1..n) /\ \A k \in 1..n : Fits(FALSE, h8[r8[k]], h7[podOf[k]])
          /\ InOwnOrder(n, h8, h7, podOf) => \A k \in 1..n : h8[r8[k]] = h8[k]
  BY <1>18 DEF Matched

<1>20. ASSUME NEW k \in 1..n
       PROVE  /\ f[6][k]["5_pod_object_create"] = h5[r5[k]] /\ f[6][k]["6_api_receive_pod"] = h6[r6[k]]
              /\ f[6][k]["7_scheduler_start"] = h7[k] /\ f[6][k]["8_api_receive_pod"] = h8[r8[k]]
              /\ f[6][k]["2_kubectl_send"] = 1 /\ f[6][k]["3_api_receive_job"] = 2
  <2>1. Same(n, 1)[k] = 1 /\ Same(n, 2)[k] = 2 /\ podOf[k] = k
    BY <1>1 DEF Same
  <2>2. /\ \A x \in Phases : x # "8_api_receive_pod" => f[6][k][x] = f[5][k][x]
        /\ f[6][k]["8_api_receive_pod"] = h8[r8[k]]
    BY <1>19 DEF IsFilled
  <2>3. /\ \A x \in Phases : x # "5_pod_object_create" => f[5][k][x] = f[4][k][x]
        /\ f[5][k]["5_pod_object_create"] = h5[r5[k]]
    BY <1>15 DEF IsFilled
  <2>4. \A x \in Phases : x # "6_api_receive_pod" => f[4][k][x] = f[3][k][x]
    BY <1>11 DEF IsFilled
  <2>5. \A x \in Phases : x # "7_scheduler_start" => f[3][k][x] = f[2][k][x]
    BY <1>7 DEF IsFilled
  <2>6. /\ \A x \in Phases : x # "3_api_receive_job" => f[2][k][x] = f[1][k][x]
        /\ f[2][k]["3_api_receive_job"] = 2 /\ f[1][k]["2_kubectl_send"] = 1
    BY <1>3, <2>1 DEF IsFilled
  <2>7. /\ "5_pod_object_create" \in Phases /\ "6_api_receive_pod" \in Phases /\ "7_scheduler_start" \in Phases
        /\ "8_api_receive_pod" \in Phases /\ "2_kubectl_send" \in Phases /\ "3_api_receive_job" \in Phases
    BY <1>4
  <2>8. f[6][k]["5_pod_object_create"] = h5[r5[k]] /\ f[6][k]["6_api_receive_pod"] = h6[r6[k]]
    BY <1>12, <2>2, <2>3, <2>7
  <2>9. f[6][k]["7_scheduler_start"] = h7[k]
    BY <1>17, <2>1, <2>2, <2>7
  <2>10. f[6][k]["2_kubectl_send"] = 1 /\ f[6][k]["3_api_receive_job"] = 2
    <3>1. ASSUME NEW x \in Phases, x = "2_kubectl_send" \/ x = "3_api_receive_job" PROVE f[6][k][x] = f[2][k][x]
      <4>1. /\ x # "8_api_receive_pod" /\ x # "5_pod_object_create"
            /\ x # "6_api_receive_pod" /\ x # "7_scheduler_start"
        BY <3>1
      <4>2. f[6][k][x] = f[5][k][x]
        BY <2>2, <4>1
      <4>3. f[5][k][x] = f[4][k][x]
        BY <2>3, <4>1
      <4>4. f[4][k][x] = f[3][k][x]
        BY <2>4, <4>1
      <4>5. f[3][k][x] = f[2][k][x]
        BY <2>5, <4>1
      <4> QED BY ONLY <4>2, <4>3, <4>4, <4>5
    <3>2. f[2][k]["2_kubectl_send"] = 1
      BY <2>6, <2>7
    <3> QED BY <2>6, <2>7, <3>1, <3>2
  <2> QED BY <2>2, <2>8, <2>9, <2>10
<1>21. f[6] \in Metrics(n)
  BY <1>19 DEF IsFilled
<1>22. ASSUME NEW x \in Phases, NEW p \in 1..n
       PROVE  Times(history, n, x)[p] = history[p][x] /\ history[p][x] \in 1 .. LastEvent
  <2> DEFINE H == history[p]
  <2>1. H \in History
    OBVIOUS
  <2> HIDE DEF H
  <2>2. H[x] \in 1 .. LastEvent
    BY <2>1 DEF History
  <2> QED BY <1>6, <2>2 DEF H
<1>23. ASSUME NEW p \in 1..n
       PROVE  /\ h5[p] \in 1 .. LastEvent /\ h6[p] \in 1 .. LastEvent
              /\ h7[p] \in 1 .. LastEvent /\ h8[p] \in 1 .. LastEvent
              /\ h5[p] = history[p]["5_pod_object_create"] /\ h6[p] = history[p]["6_api_receive_pod"]
              /\ h7[p] = history[p]["7_scheduler_start"] /\ h8[p] = history[p]["8_api_receive_pod"]
              /\ history[p]["2_kubectl_send"] = 1 /\ history[p]["3_api_receive_job"] = 2
              /\ 2 < history[p]["5_pod_object_create"] /\ 2 \in 1 .. LastEvent /\ 1 \in 1 .. LastEvent
  <2> DEFINE H == history[p]
  <2>1. H \in History
    OBVIOUS
  <2> HIDE DEF H
  <2>2. H["2_kubectl_send"] = 1 /\ H["3_api_receive_job"] = 2 /\ 2 < H["5_pod_object_create"]
    BY <2>1, HistoryIs
  <2>3. \A x \in Phases : H[x] \in 1 .. LastEvent
    BY <2>1 DEF History
  <2>4. 1 \in 1 .. LastEvent /\ 2 \in 1 .. LastEvent
    BY <1>4, <2>2, <2>3
  <2>5. /\ h5[p] = history[p]["5_pod_object_create"] /\ h5[p] \in 1 .. LastEvent
        /\ h6[p] = history[p]["6_api_receive_pod"] /\ h6[p] \in 1 .. LastEvent
    BY <1>4, <1>22 DEF h5, h6
  <2>6. /\ h7[p] = history[p]["7_scheduler_start"] /\ h7[p] \in 1 .. LastEvent
        /\ h8[p] = history[p]["8_api_receive_pod"] /\ h8[p] \in 1 .. LastEvent
    BY <1>4, <1>22 DEF h7, h8
  <2> QED BY <2>2, <2>4, <2>5, <2>6 DEF H
<1>24. ASSUME NEW k \in 1..n PROVE f[6][k] \in History
  <2> DEFINE F == f[6][k]
  <2>1. F \in [Phases -> Nat]
    BY <1>21 DEF Metrics
  <2>2. r5[k] \in 1..n /\ r6[k] \in 1..n /\ r8[k] \in 1..n /\ podOf[k] = k
    BY <1>1
  <2>3. /\ F["5_pod_object_create"] = h5[r5[k]] /\ F["6_api_receive_pod"] = h6[r6[k]]
        /\ F["7_scheduler_start"] = h7[k] /\ F["8_api_receive_pod"] = h8[r8[k]]
        /\ F["2_kubectl_send"] = 1 /\ F["3_api_receive_job"] = 2
    BY <1>20
  <2> HIDE DEF F
  <2>4. /\ F["5_pod_object_create"] \in 1 .. LastEvent /\ F["6_api_receive_pod"] \in 1 .. LastEvent
        /\ F["7_scheduler_start"] \in 1 .. LastEvent /\ F["8_api_receive_pod"] \in 1 .. LastEvent
        /\ F["2_kubectl_send"] \in 1 .. LastEvent /\ F["3_api_receive_job"] \in 1 .. LastEvent
        /\ 2 < F["5_pod_object_create"]
    <3>1. /\ h5[r5[k]] \in 1 .. LastEvent /\ h6[r6[k]] \in 1 .. LastEvent /\ h7[k] \in 1 .. LastEvent
          /\ h8[r8[k]] \in 1 .. LastEvent /\ 2 \in 1 .. LastEvent /\ 1 \in 1 .. LastEvent
      BY <1>23, <2>2
    <3>2. 2 < h5[r5[k]]
      BY <1>23, <2>2
    <3> QED BY <2>3, <3>1, <3>2
  <2>5. \A x \in Phases : F[x] \in 1 .. LastEvent
    BY <2>4 DEF Phases
  <2>6. F \in [Phases -> 1 .. LastEvent]
    BY <2>1, <2>5
  <2>7. /\ F["5_pod_object_create"] < F["6_api_receive_pod"]
        /\ F["6_api_receive_pod"] < F["7_scheduler_start"]
        /\ F["7_scheduler_start"] < F["8_api_receive_pod"]
    <3>1. Fits(TRUE, F["5_pod_object_create"], F["6_api_receive_pod"])
      BY <1>15, <2>3
    <3>2. Fits(TRUE, F["6_api_receive_pod"], F["7_scheduler_start"])
      BY <1>11, <2>2, <2>3
    <3>3. Fits(FALSE, F["8_api_receive_pod"], F["7_scheduler_start"])
      BY <1>19, <2>2, <2>3
    <3> QED BY <2>4, <3>1, <3>2, <3>3 DEF Fits
  <2>8. F \in History
    BY <2>3, <2>4, <2>6, <2>7 DEF History
  <2> QED BY <2>8 DEF F
<1>25. ASSUME InStep(history), NEW k \in 1..n PROVE f[6][k] = history[k]
  <2>1. ASSUME NEW a \in Phases \ JobPhases, NEW b \in Phases \ JobPhases, NEW p \in 1..n, NEW q \in 1..n
        PROVE  Times(history, n, a)[p] < Times(history, n, a)[q] <=> Times(history, n, b)[p] < Times(history, n, b)[q]
    <3>1. DOMAIN history = 1..n
      OBVIOUS
    <3>2. history[p][a] < history[q][a] <=> history[p][b] < history[q][b]
      BY <1>25, <3>1 DEF InStep
    <3> QED BY <1>22, <3>2
  <2>2. InOwnOrder(n, h6, h7, podOf) /\ InOwnOrder(n, h8, h7, podOf)
    BY <1>1, <1>4, <2>1 DEF InOwnOrder, h6, h7, h8
  <2>3. \A p \in 1..n : h6[r6[p]] = h6[p] /\ h8[r8[p]] = h8[p]
    BY <1>11, <1>19, <2>2
  <2>4. InOwnOrder(n, h5, h6, r6)
    <3>1. \A q, r \in 1..n : h5[q] < h5[r] <=> h6[q] < h6[r]
      BY <1>4, <2>1 DEF h5, h6
    <3> QED BY <2>3, <3>1 DEF InOwnOrder
  <2>5. h5[r5[k]] = h5[k]
    BY <1>15, <2>4
  <2> DEFINE F == f[6][k]
             H == history[k]
  <2>6. F \in [Phases -> Nat] /\ H \in [Phases -> Nat]
    <3>1. F \in [Phases -> Nat]
      BY <1>21 DEF Metrics
    <3> HIDE DEF F
    <3>2. \A p \in 1..n : history[p] \in [Phases -> Nat]
      BY <1>4, TimesAre
    <3> QED BY <3>1, <3>2
  <2>7. /\ F["5_pod_object_create"] = H["5_pod_object_create"] /\ F["6_api_receive_pod"] = H["6_api_receive_pod"]
        /\ F["7_scheduler_start"] = H["7_scheduler_start"] /\ F["8_api_receive_pod"] = H["8_api_receive_pod"]
        /\ F["2_kubectl_send"] = H["2_kubectl_send"] /\ F["3_api_receive_job"] = H["3_api_receive_job"]
    <3>1. /\ f[6][k]["5_pod_object_create"] = h5[r5[k]] /\ f[6][k]["6_api_receive_pod"] = h6[r6[k]]
          /\ f[6][k]["7_scheduler_start"] = h7[k] /\ f[6][k]["8_api_receive_pod"] = h8[r8[k]]
          /\ f[6][k]["2_kubectl_send"] = 1 /\ f[6][k]["3_api_receive_job"] = 2
      BY <1>20
    <3>2. /\ h5[k] = history[k]["5_pod_object_create"] /\ h6[k] = history[k]["6_api_receive_pod"]
          /\ h7[k] = history[k]["7_scheduler_start"] /\ h8[k] = history[k]["8_api_receive_pod"]
          /\ history[k]["2_kubectl_send"] = 1 /\ history[k]["3_api_receive_job"] = 2
      BY <1>23
    <3>3. h6[r6[k]] = h6[k] /\ h8[r8[k]] = h8[k]
      BY <2>3
    <3> QED BY ONLY <2>5, <3>1, <3>2, <3>3
  <2> HIDE DEF F, H
  <2>8. \A x \in Phases : F[x] = H[x]
    BY <2>7 DEF Phases
  <2>9. F = H
    BY <2>6, <2>8
  <2> QED BY <2>9 DEF F, H
<1>26. FillControl(history, podOf) = f[6]
  BY <1>2 DEF Fills
<1> QED BY <1>21, <1>24, <1>25, <1>26 DEF podOf, Each

-----------------------------------------------------------------------------
(* Which times are kept *)

\* Whole hours do not change the rest.
LEMMA RestIs ==
    ASSUME NEW S \in Nat \ {0}, NEW a \in Int, NEW q \in Int, NEW r \in 0 .. S - 1, a = S * q + r
    PROVE  a % S = r
<1> DEFINE m == a % S
           d == a \div S
           e == d - q
<1>1. m \in 0 .. S - 1 /\ a = S * d + m /\ d \in Int
  OBVIOUS
<1> HIDE DEF m, d
<1>2. S * e = r - m /\ e \in Int
  BY <1>1
<1> HIDE DEF e
<1>3. -S < S * e /\ S * e < S
  BY <1>1, <1>2
<1>4. e = 0
  <2>1. ASSUME e >= 1 PROVE FALSE
    <3>1. S * e >= S * 1
      BY <1>2, <2>1
    <3> QED BY <1>2, <1>3, <3>1
  <2>2. ASSUME e <= -1 PROVE FALSE
    <3>1. S * e <= S * (-1)
      BY <1>2, <2>2
    <3> QED BY <1>2, <1>3, <3>1
  <2> QED BY <1>2, <2>1, <2>2
<1> QED BY <1>1, <1>2, <1>4 DEF m

\* What is kept of the log, with whole hours between the clocks.
LEMMA KeptIs ==
    ASSUME NEW endtime \in 1 .. SecondsPerHour - 1, NEW zone \in -2 .. 2,
           NEW time \in endtime - SecondsPerHour + 1 .. SecondsPerHour
    PROVE  Kept(time + zone * SecondsPerHour, 0, endtime) <=> time \in 1 .. endtime
<1> DEFINE S == SecondsPerHour
           a == (time + zone * S) - 0 - 1
<1>1. S \in Nat \ {0}
  BY ApplicationAssumption
<1>2. Kept(time + zone * S, 0, endtime) <=> 0 + 1 + (a % S) \in 0 .. endtime
  <2> DEFINE x == time + zone * S
  <2> HIDE DEF x
  <2>1. Kept(x, 0, endtime) <=> 0 + 1 + ((x - 0 - 1) % S) \in 0 .. endtime
    BY DEF Kept, Normalized
  <2> HIDE DEF S
  <2>2. x - 0 - 1 = a
    BY DEF x
  <2> HIDE DEF a
  <2>3. Kept(x, 0, endtime) <=> 0 + 1 + (a % S) \in 0 .. endtime
    BY <2>1, <2>2
  <2> QED BY <2>3 DEF x
<1> HIDE DEF S
<1>3. endtime \in 1 .. S - 1 /\ time \in endtime - S + 1 .. S /\ zone \in Int /\ time \in Int /\ endtime \in Int
  BY <1>1 DEF S
<1>4. zone * S \in Int /\ S * zone = zone * S /\ S * (zone - 1) = zone * S - S /\ zone - 1 \in Int
  BY <1>1, <1>3
<1> DEFINE hours == zone * S
<1> HIDE DEF hours
<1>5. a \in Int /\ a = hours + time - 1
  BY <1>3, <1>4 DEF hours
<1> HIDE DEF a
<1>6. CASE time >= 1
  <2>1. a = S * zone + (time - 1) /\ time - 1 \in 0 .. S - 1
    BY <1>1, <1>3, <1>4, <1>5, <1>6 DEF hours
  <2>2. a % S = time - 1
    BY <1>1, <1>3, <1>5, <2>1, RestIs
  <2> QED BY <1>2, <1>3, <1>6, <2>2 DEF S
<1>7. CASE time < 1
  <2>1. a = S * (zone - 1) + (time - 1 + S) /\ time - 1 + S \in 0 .. S - 1
    BY <1>1, <1>3, <1>4, <1>5, <1>7 DEF hours
  <2> DEFINE q == zone - 1
             r == time - 1 + S
  <2>2. a = S * q + r /\ r \in 0 .. S - 1 /\ q \in Int
    BY <1>4, <2>1
  <2> HIDE DEF q, r
  <2>3. a % S = r
    BY <1>1, <1>5, <2>2, RestIs
  <2>4. a % S = time - 1 + S
    BY <2>3 DEF r
  <2> QED BY <1>1, <1>2, <1>3, <1>7, <2>4 DEF S
<1> QED BY <1>3, <1>6, <1>7

\* A benchmark of kubecontrol has a container.
LEMMA HasContainers ==
    ASSUME config \in Configs, Manager = "kubecontrol"
    PROVE  WorkerApps \in Nat \ {0} /\ config.kube_deployment \in {"pod", "container"}
<1>1. /\ WorkerApps \in Nat /\ config.workers \in Nat
      /\ config.workers > 0 /\ config.workers <= WorkerApps
  BY ConfigType
<1>2. config.kube_deployment \in {"pod", "container"}
  BY ApplicationAssumption
<1> QED BY <1>1, <1>2

\* The timelines of a benchmark of kubecontrol are in order.
LEMMA EventsHold ==
    ASSUME config \in Configs, Manager = "kubecontrol"
    PROVE  EventsInOrder
<1> DEFINE n == WorkerApps
           podOf == [k \in 1 .. n |-> IF config.kube_deployment = "container" THEN 1 ELSE k]
<1>1. n \in Nat \ {0} /\ config.kube_deployment \in {"pod", "container"}
  BY HasContainers
<1> HIDE DEF n
<1>2. 1 \in 1 .. n /\ Range(podOf) = {podOf[k] : k \in 1 .. n}
  BY <1>1 DEF Range
<1> SUFFICES ASSUME NEW histories \in [Range(podOf) -> History]
             PROVE  LET filled == FillControl(histories, podOf)
                    IN /\ Len(filled) = n
                       /\ \A k \in DOMAIN filled :
                             /\ filled[k] \in History
                             /\ InStep(histories) => filled[k] = histories[podOf[k]]
  BY DEF EventsInOrder, n
<1> DEFINE filled == FillControl(histories, podOf)
<1>3. filled \in Metrics(n) /\ \A k \in 1 .. n : /\ filled[k] \in History
                                                 /\ InStep(histories) => filled[k] = histories[podOf[k]]
  <2>1. CASE config.kube_deployment = "container"
    <3>1. podOf = [k \in 1 .. n |-> 1] /\ 1 \in Range(podOf)
      BY <1>2, <2>1
    <3>2. histories[1] \in History /\ \A k \in 1 .. n : podOf[k] = 1
      BY <3>1
    <3> HIDE DEF podOf
    <3>3. filled \in Metrics(n) /\ \A k \in 1 .. n : filled[k] = histories[1]
      BY <1>1, <3>1, <3>2, OnePod
    <3> HIDE DEF filled
    <3> QED BY <3>2, <3>3
  <2>2. CASE config.kube_deployment = "pod"
    <3>1. podOf = [k \in 1 .. n |-> k] /\ \A k \in 1 .. n : podOf[k] = k
      BY <2>2
    <3>2. Range(podOf) = 1 .. n
      BY <1>2, <3>1
    <3> HIDE DEF podOf
    <3>3. histories \in [1 .. n -> History]
      BY <3>2
    <3>4. filled \in Metrics(n) /\ \A k \in 1 .. n : /\ filled[k] \in History
                                                     /\ InStep(histories) => filled[k] = histories[k]
      BY <1>1, <3>1, <3>3, EachPod
    <3> HIDE DEF filled
    <3> QED BY <3>1, <3>4
  <2> QED BY <1>1, <2>1, <2>2
<1> HIDE DEF filled, podOf
<1>4. Len(filled) = n /\ DOMAIN filled = 1 .. n
  BY <1>1, <1>3, MetricsLen DEF Metrics
<1> QED BY <1>3, <1>4 DEF filled

-----------------------------------------------------------------------------
(* The invariant *)

LEMMA InitIInv == Init => IInv
<1> SUFFICES ASSUME Init PROVE IInv
  OBVIOUS
<1>1. /\ config \in Configs /\ Manager \in Managers /\ MaxImgs \in Nat /\ MaxFaults \in Nat
      /\ config.endpoints \in Nat
  BY ConfigType, ApplicationAssumption DEF Init
<1>2. pc = (IF Kube THEN "cluster" ELSE IF Manager = "mist" THEN "start_worker" ELSE "start_endpoint")
  <2>1. pc = CASE Manager \in {"kubernetes", "kubecontrol"} -> "cluster"
               [] Manager = "mist" -> "start_worker"
               [] Manager = "none" -> "start_endpoint"
    BY DEF Init
  <2> QED BY <1>1, <2>1 DEF Kube, Managers
<1>3. subscriber = [w \in Workers |-> [state |-> "absent", work_queue |-> <<>>, in_work |-> {},
                                        endpoints_connected |-> 0, images_processed |-> 0]]
  BY DEF Init
<1>4. publisher = [e \in Endpoints |-> [subscribed |-> FALSE, sent |-> 0, RECEIVED |-> 0]]
  BY DEF Init
<1>5. combined = [e \in Endpoints |-> [generated |-> 0, processed |-> 0, working |-> FALSE]]
  BY DEF Init
<1>6. i = 0 /\ output = <<>> /\ pending = TRUE /\ ready = {} /\ jobs = {} /\ faults = 0 /\ early = FALSE /\ slow = FALSE
  BY DEF Init
<1>7. (\A p \in Pods : pods[p] = "absent") /\ Listed = {} /\ \A e \in Endpoints : container[e] = "absent"
  BY DEF Init, Listed
<1>8. TypeOK
  <2>1. config \in Configs /\ pc \in Steps
    BY <1>1, <1>2 DEF Steps
  <2>2. i \in Nat /\ output \in Seq(Statuses)
    BY <1>6, EmptySeq
  <2>3. pending \in BOOLEAN /\ early \in BOOLEAN /\ slow \in BOOLEAN
    BY <1>6
  <2>4. ready \subseteq 1 .. config.workers + 1 /\ jobs \subseteq {"cache", "work"} /\ faults \in 0 .. MaxFaults
    BY <1>1, <1>6
  <2>5. /\ pods \in [Pods -> {"absent", "created", "assigned", "Running", "Succeeded", "Failed"}]
        /\ container \in [Endpoints -> {"absent", "Up", "Exited (0)", "Exited (1)"}]
    BY DEF Init
  <2>6. 0 \in 0 .. config.endpoints /\ 0 \in 0 .. MaxImgs /\ 0 \in 0 .. MaxImgs + 1 /\ 0 \in Nat
    BY <1>1
  <2>7. <<>> \in Seq(Items)
    BY EmptySeq
  <2>8. subscriber \in [Workers -> [state : {"absent", "connecting", "subscribed", "closing", "ended"},
                                    work_queue : Seq(Items), in_work : SUBSET Items,
                                    endpoints_connected : 0 .. config.endpoints, images_processed : Nat]]
    BY <1>3, <2>6, <2>7
  <2>9. publisher \in [Endpoints -> [subscribed : BOOLEAN, sent : 0 .. MaxImgs + 1, RECEIVED : 0 .. MaxImgs]]
    <3> DEFINE S == 0 .. MaxImgs + 1
               R == 0 .. MaxImgs
    <3>1. 0 \in S /\ 0 \in R /\ FALSE \in BOOLEAN
      BY <2>6
    <3> HIDE DEF S, R
    <3>2. publisher \in [Endpoints -> [subscribed : BOOLEAN, sent : S, RECEIVED : R]]
      BY <1>4, <3>1
    <3> QED BY <3>2 DEF S, R
  <2>10. combined \in [Endpoints -> [generated : 0 .. MaxImgs, processed : 0 .. MaxImgs, working : BOOLEAN]]
    <3> DEFINE R == 0 .. MaxImgs
    <3>1. 0 \in R /\ FALSE \in BOOLEAN
      BY <2>6
    <3> HIDE DEF R
    <3>2. combined \in [Endpoints -> [generated : R, processed : R, working : BOOLEAN]]
      BY <1>5, <3>1
    <3> QED BY <3>2 DEF R
  <2> QED BY <2>1, <2>2, <2>3, <2>4, <2>5, <2>8, <2>9, <2>10, Zenon DEF TypeOK
<1>9. DriverInv /\ JobsInv
  BY <1>1, <1>2, <1>6 DEF DriverInv, JobsInv, Kube, AfterReady, Managers
<1>10. PodsInv
  BY <1>1, <1>2, <1>7 DEF PodsInv, AfterReady, Kube, Managers
<1>11. LoopsInv
  BY <1>2, <1>6, <1>7 DEF LoopsInv, AfterEndpoints
<1>12. MessagesInv
  <2>1. ASSUME NEW w \in Workers
        PROVE  /\ subscriber[w].state = "absent" /\ subscriber[w].work_queue = <<>> /\ subscriber[w].in_work = {}
               /\ Tidy(subscriber[w]) /\ Held(subscriber[w]) = {}
    <3>1. subscriber[w].state = "absent" /\ subscriber[w].work_queue = <<>> /\ subscriber[w].in_work = {}
      BY <1>3
    <3>2. DOMAIN subscriber[w].work_queue = {}
      BY <3>1
    <3> QED BY <3>1, <3>2 DEF Tidy, Held, Elements
  <2>2. ASSUME Mqtt, NEW e \in Started
        PROVE  /\ publisher[e].RECEIVED + Cardinality(Unanswered(e)) <= publisher[e].sent
               /\ publisher[e].RECEIVED + Cardinality(Unanswered(e)) <= MaxImgs
    <3>1. e \in Endpoints /\ RemoteOf(e) \in Workers
      BY <1>1, <2>2, StartedEndpoints, ConfigType
    <3>2. publisher[e].RECEIVED = 0 /\ publisher[e].sent = 0
      BY <1>4, <3>1
    <3>3. Unanswered(e) = {}
      BY <2>1, <3>1 DEF Unanswered
    <3>4. Cardinality(Unanswered(e)) = 0
      BY <3>3, FS_EmptySet
    <3> QED BY <1>1, <3>2, <3>4
  <2> QED BY <2>1, <2>2 DEF MessagesInv
<1>13. CombinedInv
  <2>1. ASSUME NEW e \in Endpoints
        PROVE  combined[e].processed = 0 /\ combined[e].generated = 0 /\ InWork(combined[e]) = 0
    <3>1. combined[e].processed = 0 /\ combined[e].generated = 0
      BY <1>5
    <3>2. combined[e].working = FALSE
      BY <1>5
    <3>3. InWork(combined[e]) = 0
      BY <3>2 DEF InWork
    <3> QED BY <3>1, <3>3
  <2>2. \A e \in Endpoints : combined[e].processed + InWork(combined[e]) <= combined[e].generated
    BY <2>1
  <2>3. \A e \in Endpoints : container[e] # "Exited (0)"
    BY <1>7
  <2> QED BY <2>2, <2>3, Zenon DEF CombinedInv
<1> QED BY <1>8, <1>9, <1>10, <1>11, <1>12, <1>13 DEF IInv

LEMMA InvariantStep == IInv /\ [Next]_vars => IInv'
BY TypeStep, DriverStep, JobsStep, PodsStep, LoopsStep, MessagesStep, CombinedStep DEF IInv

LEMMA InvariantHolds == Spec => []IInv
BY InitIInv, InvariantStep, PTL DEF Spec

\* Types: a subscriber does not count its endpoints below zero, at which alone
\* it ends (subscriber.py), and no endpoint gets more replies than it sends images.
THEOREM TypesHold == Spec => []TypeOK
<1>1. IInv => TypeOK
  BY DEF IInv
<1> QED BY <1>1, InvariantHolds, PTL

\* Once wait_worker_ready has returned, every pod of the benchmark has been
\* started, though it only counts pods: the Job that cached the image has none
\* left by then (kubernetes.py, kubecontrol.py).
THEOREM WorkersAreReady == Spec => []WorkersReady
<1>1. IInv => WorkersReady
  BY DEF IInv, PodsInv, WorkersReady, AfterReady, Begun
<1> QED BY <1>1, InvariantHolds, PTL

\* The output is read when every endpoint has ended well and, with one pod on a
\* worker, every worker, although the loops that wait for them read a list,
\* pass its lines one by one and read it anew in between (application.py).
THEOREM OutputIsOfTheEnd == Spec => []OutputIsFinal
<1>1. IInv => OutputIsFinal
  BY DEF IInv, LoopsInv, OutputIsFinal, AfterEndpoints
<1> QED BY <1>1, InvariantHolds, PTL

\* When a subscriber decides to end, all its endpoints have sent all they have
\* and its queue is empty, though the count and the queue are not looked at
\* together with the processes that change them; combined.py ends with at most
\* the image in work unprocessed.
THEOREM NothingIsLeftQueued == Spec => []NothingLeftQueued
<1>1. ASSUME IInv PROVE NothingLeftQueued
  <2>1. ASSUME NEW w \in Workers, subscriber[w].state = "closing"
        PROVE  /\ subscriber[w].work_queue = <<>>
               /\ \A e \in Started : RemoteOf(e) = w => publisher[e].sent = MaxImgs + 1
    BY <1>1, <2>1 DEF IInv, MessagesInv, Of
  <2>2. \A e \in Endpoints : Manager = "none" /\ container[e] = "Exited (0)"
          => combined[e].processed >= MaxImgs - 1
    BY <1>1 DEF IInv, CombinedInv
  <2> QED BY <2>1, <2>2 DEF NothingLeftQueued
<1> QED BY <1>1, InvariantHolds, PTL

\* Of the control plane's log, a benchmark of less than an hour keeps what lies
\* between its start and its end, in any of the time zones; and whatever the
\* pods of its containers do, of which there may be any number, fill_control
\* ends with a timeline for each, which is its own if no pod passes another
\* (empty.py:202-482), though most lines do not say whose they are.
THEOREM TimelineIsTheRunsAlways == Spec => []TimelineIsTheRuns
<1>1. ASSUME IInv PROVE TimelineIsTheRuns
  <2>1. config \in Configs
    BY <1>1 DEF IInv, TypeOK
  <2>2. ASSUME Manager = "kubecontrol" PROVE EventsInOrder
    BY <2>1, <2>2, EventsHold
  <2> QED BY <2>2, KeptIs DEF TimelineIsTheRuns
<1> QED BY <1>1, InvariantHolds, PTL
===============================================================================
