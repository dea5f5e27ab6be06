# Energy-aware scheduler and benchmark pipeline: verification

TLA+ models, TLC runs and TLAPS proofs for the repository. The centre is
`src/escheduler`, a Kubernetes scheduler in Go that places a pod on the node
that draws the least power. Around it is Continuum (`src/continuum`, Python),
which places and launches VMs, installs a cluster on them, runs a benchmark
application, and is itself driven by scripts that repeat experiments.

## 1. Inventory

| Component | State | Operations | Interacts with |
|---|---|---|---|
| main (`main.go`) | `done`, `wg` | start three goroutines, stop on SIGINT/SIGTERM | the three loops, by `done` and `wg` |
| gatherEnergyMetrics (`processor.go`, `energy_collect_metrics.go`) | locals only | every second: node query, then pod query | writes node data, pod labels, pod power |
| checkUnscheduled (`processor.go`) | holds `processorLock` while scheduling | receive an event or an error, `schedulePod` | reads the channels of the watcher |
| scheduleUnscheduled (`processor.go`) | holds `processorLock` for a whole round | every 30 s: list, `schedulePod` each | API server |
| watcher (`kubernetes.go:97`) | one connection | connect, decode, send on `pods` or `errc` | API server, checkUnscheduled |
| schedulePod (`processor.go:81`) | locals | fit, selectNode, bind, postEvent, queueBindOperation | API server, shared energy data |
| selectNode, getNodeCorrections (`bestpod.go`, `energy_correction.go`) | locals | pick a node | reads all the energy data |
| energy data (`energy_node.go`, `energy_pod.go`) | `ndContainer` (with a mutex), `ScaphPodLabels`, `microWatts`, `avgPodMicroWatts` (without) | replace, update | collector writes, selectNode reads |
| bind queue (`energy_correction.go`) | `pendingPods` | append, prune | written by schedulePod |
| IP map (`ip_to_nodename.go`) | `cachedIpToNodeMap` | build once | selectNode |
| API client (`service_account_client.go`) | cached client and token | request | all goroutines |
| benchmark driver (`continuum/energy_metrics.py`) | result files, child processes, pods on the VMs | runs with resume, setup, measurement, pod killer, clean-up | ssh, Scaphandre, kubectl, VMs |
| placement (`continuum/infrastructure/infrastructure.py`) | VMs left to place, cores used or left, VMs per machine | place a VM, turn to the next machine, refuse, drop idle machines | the configuration; read by the providers |
| machines (`machine.py`, `ansible.py`, `infrastructure.py`) | names and addresses of VMs and base images, registry | gather lists, write inventories, `docker_registry`, `docker_pull` | providers, Ansible, Docker |
| QEMU provider (`continuum/infrastructure/qemu`) | names, addresses, disks, pinned cores, images, running VMs | name, write inventory and domain files, OS and base images, launch, repeat | Ansible, libvirt over ssh |
| GCP and AWS providers (`gcp`, `aws`) | names, addresses from Terraform | name, apply, read the output, move the registry, install | Terraform, Ansible |
| network (`network.py`) | tc filters in the VMs | emulate latency and throughput, measure | all VMs, over ssh |
| resource manager (`kubernetes.py`, `endpoint.py`) | nodes, Jobs, pods, containers | check the cluster, cache, start workers, wait, read the output | kubectl, Docker |
| applications (`continuum/application`) | processes, queues, MQTT subscriptions | publish images, classify, reply, end | MQTT brokers |
| entry point (`continuum.py`) | the log of a run | infrastructure, resource manager, application, deletion | all of Continuum |
| evaluation scripts (`continuum/scripts/replicate_*.py`) | list of runs, outputs, position | start runs, resume, destroy VMs, remove images | the entry point, logs, hosts |
| plots | none | offline | result files |

What is hard: two loops that deliver the same pod; requests whose response is
lost after they took effect; a watch that breaks and replays; channels that
block; panics that lose all memory; data read under no lock while another
goroutine writes them; two queries of one collection with a scrape in between;
caches that are never refreshed. In Continuum, four functions in four files
count the same VMs and must agree; commands go by position to a list of hosts
that another function gathered; waits count what they see in lists that are
read again and again; subscribers end by counters that other processes change;
and every run finds what earlier runs, complete or not, have left behind.
`PROJECT.json` lists each at its line, with the properties that would catch it.

## 2. Modules

| Module | Models |
|---|---|
| `PodBinding` | the contract: a pod is assigned once and keeps its node, workers only, CPU not over-granted unless the API server hides pods; written without loops, locks or retries |
| `Escheduler` | the whole process with the cluster around it; implements `PodBinding` (`Binding == INSTANCE PodBinding WITH ...`) |
| `NodeSelection` | one call of `selectNode`, one loop iteration per step |
| `EnergyMetrics` | the collector and a scheduling goroutine on the shared energy data |
| `Placement` | the VMs of a configuration placed on physical machines: `schedule_equal`, `schedule_pin`, `remove_idle` |
| `Machines` | extends `Placement` by what the providers share: VMs and base images of a machine, `gather_ips`, `gather_ssh`, the inventory of the VMs, the registry |
| `Provisioning` | extends `Machines` by the QEMU provider: names and addresses, inventory, domain files, base images, launch |
| `Terraform` | extends `Machines` by the GCP and AWS providers |
| `Infrastructure` | composes `Provisioning` and `Terraform` and adds the network: emulation and measurement |
| `Application` | the benchmark of Continuum: workers and endpoints, Kubernetes Jobs and pods, the programs of image classification, the output that is read |
| `Benchmark` | the driver `energy_metrics.py` with the VMs, pods and kubectl it talks to |
| `Reruns` | what runs of Continuum leave for one another, and the scripts that start them |
| `Timeline` | how the application `empty` puts together, from lines of logs, when each container passed each phase; used by `Application` |
| `Orders` | sorting a set and choosing elements of a list, by definitions that can be proved about; used by `Application`, `Reruns` and `Placement` |
| `EschedulerProofs`, `NodeSelectionProofs`, `EnergyMetricsProofs`, `InfrastructureProofs`, `ApplicationProofs`, `BenchmarkProofs`, `RerunsProofs` | theorems about the module they are named after |
| `SetLemmas` | sums over finite sets, sorted sets, and lists that are gathered step by step, for the proofs |
| `MCEscheduler`, `MCNodeSelection`, `MCEnergyMetrics`, `MCInfrastructure`, `MCApplication`, `MCBenchmark`, `MCReruns` | instances for TLC |

`Escheduler` keeps all of the control and no watts: its `SelectNode` picks any
node that passes the tests of the loop in `selectNode`. `NodeSelection` refines
that choice for fixed inputs, and `EnergyMetrics` says which inputs a call can
meet. The three modules meet at `measured` (nodes with an entry in the node
data), `ipMap` and the candidates of `selectNode`.

In Continuum a run is `Infrastructure`, then `Application`; `Reruns` takes a run
as a sequence of coarse steps and looks at what stays behind; `Benchmark` works
on the VMs of a finished run. `infrastructure.delete`, `continuum.py` and the
log of a run are in `Reruns`.

### Escheduler and the code

* `pc["check"]` and `pc["retry"]` follow the two loops through `schedulePod`:
  `lock`, `nodes` (getNodes of fit), `pods` (getPods of fit), `select`, `bind`,
  `event` (postEvent), `queue`. `list` and `next` are the list request and the
  `range` loop of `schedulePods`. `pc["metrics"]`, `pc["watch"]` and
  `pc["main"]` follow the other goroutines.
* `task[t]` holds the locals of `schedulePod`: the pod, the node list (first as
  read, then as fitting) and the chosen node. Its `hidden` is for history: the
  nodes with pods that the list of `getPods` lacked.
* `stream` is what the open watch connection has yet to deliver, `event` the
  pod offered on the unbuffered channel `pods`, `errc` the channel of capacity 1.
* `Fault` is a request, response or connection that fails, or an answer with an
  error status; `BindFails` also covers a bind that is carried out while its
  response is lost. The list requests do not look at the status
  (kubernetes.go:84-94, 169-176, 206-214), so an error is an empty list: no
  nodes (`FitReadsNoNodes`), no unscheduled pods (`ListAnswersError`), no pods
  at all (`GetPods`), an empty map of addresses (`IpMapStaysEmpty`).
* `Panic` is the end of the process: nil dereference in `fit`
  (kubernetes.go:249), a failed request in `buildIpToNodeMap`
  (ip_to_nodename.go:28), division by zero (energy_pod.go:148). `Restart` is
  the Deployment starting the container again with empty memory.
* The cluster acts on its own: pods are created, started and deleted, another
  scheduler binds its pods, nodes join and leave, Scaphandre starts.

Simplifications: `selectNode` is one step, so the node data, the map and the
pod list are taken at one moment (`EnergyMetrics` separates them); an IP address
stands for the node of its pod; `fit` sees a CPU request as the number
`Counted`; the sleeps are left out, as a timer may fire at any time; the clock
of `pendingPods` is left out, so pruning keeps any suffix that pruning can keep.

`getPods` gives two parameters `fieldSelector`, Running and Pending
(kubernetes.go:191-192). The API server takes the first, so `Listed` is the pods
that run, and `fit` does not see those that are bound and have not started.
**So this scheduler does overcommit nodes**, also after an error that is read as
an empty list. What `OvercommittedOnlyBlind` and the contract say is how far
that goes: `blind` holds the nodes whose last pod was placed while a pod of this
scheduler was missing from the list. All other nodes are within their CPU, a pod
never goes to a node that is too small for it alone, and the next pod that is
placed on a full list finds no room on a node that has too many.

### EnergyMetrics and the code

* `cpc` follows the collector from query to query, `spc` a call of `selectNode`.
  A sample is the set of pods that ran, and stands for its time.
* A pod has three names: `MetricPod` labels it (energy_pod.go:65), `MetricJob`
  is the key of its estimate (energy_pod.go:106), `App` is what the estimate is
  looked up by (energy_correction.go:113). In the run one pod has its job as its
  app, the other has not and is always corrected by the average.
* A query may be answered by an older sample (`Answers`): the node data are then
  replaced by it and only the error at energy_node.go:54 is written.

### Placement, Provisioning, Terraform, Infrastructure and the code

* A step of `Placement` is an iteration of a placement loop; `SkipTier` is the
  iteration that only changes `machine_type`. `perMachine` is
  `machines_per_node` with an entry for every machine.
* `pc` names what comes next: `placed`, `registry`, `inventory`, `generate`,
  `base`, `launch`, `running` with QEMU; `placed`, `registry`, `apply`,
  `install`, `running` with GCP and AWS; then `shaped` and `ready`. `failed` is
  an error the program makes itself, `aborted` one that comes from outside or
  that it reports for good reason.
* A step of `Provisioning` is an iteration over the machines in `set_ip_names`
  (`SetIpNames`), `create_inventory_machine` (`CreateInventory`) or
  `generate.start` (`Generate`); `NextStage` is the call of the next function.
  `index` is the counters by tier of the function that runs, which each start
  at 0. `disks` is what Ansible creates from the ranges in the inventory
  (cloud_start.yml, edge_start.yml, endpoint_start.yml).
* The base images are installed by groups that `create_inventory_vm` fills by
  parts of names (`software`); the registry may hold any of the images before,
  and any base images may be missing. What is there is taken for complete:
  `Reruns` looks at that.
* `LaunchVms` is a round of `launch_vms` in which any VMs meet the connection
  error that is repeated once; `LaunchFails` is a round with any other error.
* `add_ssh` comes after VMs were started: base VMs (`StartBases`, then
  `BaseImage`), the VMs of QEMU (`LaunchVms`) or of Terraform (`Apply`).
  `waiting` is its loop over `ssh-keyscan`, which has no limit, `VmsAnswer` its
  end. `looked` keeps over that wait which base images were missing.
* `Terraform` has one definition for the functions that gcp.py and aws.py
  share, and `CloudName` for the difference in names. `set_ips` reads addresses
  by their line in the output of Terraform; a line that belongs to another VM
  would give its address.
* `Infrastructure` gives the tc filters of every VM (`filters`) by going through
  the commands and the hosts by position, as network.py does, and the pairs
  `netperf` measures.
* `Accepted` is what the parser and the resource managers accept. Of resource
  manager `none` the parser asks nothing. template.cfg:151 gives its use as
  local processing on endpoints, and the model follows it. With edges and no
  clouds, `set_ip_names` would name a controller that has no disk.

What the code does and the properties except: all AWS clouds are named `ubuntu`,
so a group of the inventory reaches one of them only; AWS is modelled with cloud
VMs and `infra_only`, as in its only configuration (configuration/tests/aws),
and `SoftwareOfTier` and `NetworkShaped` leave it out. With virtiofsd the
emulation cannot work, as the interface has another name (ens2 for ens3);
`FailsOnlyOnVirtiofs` says that this is the only failure of its own.
`check_output` does not see UNREACHABLE of Ansible. The sleep of five seconds
after the base images are shut down is taken to be long enough. tc is taken to
find the device ens2 (network.py:25) on AWS. Left out:
kubecontrol and kube_kata among the resource managers of this module,
`resource_manager_only`, user names that contain the name of a tier, the copying
of files and ssh keys, and the batches of `Machine.process`. Nobody passes its
parameter `retryonoutput`, so that its repetitions never happen.

### Application and the code

* The driver is `pc` and `i`: the cluster check, caching Jobs and their deletion,
  the start of workers and endpoints and the waits for all of them. `output` is
  the list that a wait has read last, `pending` that it is to be read again.
  `raised` is an exception, `stopped` a sys.exit. `Manager` is kubernetes,
  kubecontrol (benchmarks of the control plane), mist or none.
* `subscriber[w]` has the main process, its queue and its pool; `publisher[e]`
  and `combined[e]` the programs on the endpoints. A message at QoS 0 is lost
  if its receiver has not subscribed (`early`); the last message of an endpoint
  has QoS 2 and is delivered. A subscriber that ends while an image is still in
  work (join with a timeout of ten seconds) is `slow`.
* A pod is on a node of its own. That the Job controller starts another pod for
  one that failed is left out.
* `Timeline` is fill_control of the application `empty` (empty.py): the lines of
  a log in the order of their times, each given to the containers it names, or,
  as most name none, to the container whose time of another phase comes first.
  It has the phases that are matched so and those they are matched with.
* Several subscribers on a node "won't work" (kubernetes.py:580), and the parser
  does not refuse them; `ApplicationAssumption` does for kubernetes and mist.

What the code does and the properties except: with more than one application
per worker `wait_worker_completion` waits for as many pods as there are
workers, although its comment (kubernetes.py:860) says all, so `OutputIsFinal`
leaves that case out. A pod that lost messages, was cut off or failed may hang,
so `ApplicationEnds` leaves those behaviours out. `TimelineIsTheRuns` leaves out
times that equal the start, and benchmarks of an hour or more, which fold. The
sleep of ten seconds after the caching Job is deleted is the guard of
`SleepDeleted`: nothing else keeps its pods out of the count of workers.

What cannot work is in the model and ends in `raised`: caching the image of
image classification under Kubernetes, an AttributeError since `verify` compares
a Boolean with "True"; all containers in one pod with several workers, an
IndexError in the loops over the pods; and every mist run, while its output is
printed. Baremetal is not modelled, as its `verify_options` refuses every
configuration (`edge_nodes != 0 or edge_nodes < 1`). Out of scope: several
applications per worker for image classification (a comment, kubernetes.py:580),
kubeedge with the extra job of its playbook (`seq 0 N`), OpenFaaS.

### Benchmark and the code

* The driver is `pc`. `Setup` gives the functions that set up a VM for an
  experiment, `done` and `stage` where each VM is in them, one after the other or
  all at once in a Pool. `metrics` and `metadata` are the result directory,
  `procs` the processes on the host that this driver has started, and `killer`
  the Python process that kills pods.
* Two functions call `input()` (energy_metrics.py:478, 516): stage `prompt`, from
  which only the operator goes on.
* kubectl answers when it likes: `AskAgain` is the next command of the wait for
  pods, which is typed while the last one may still run (at most `MaxQueued`).
  A pod is a name and the number of a replica: `block-cpu` has two, the
  DaemonSet of Scaphandre one per VM. A name leaves the list of the wait at its
  first replica that is ready (energy_metrics.py:340-346), and that is all that
  `StackIsReady` says; for the other Scaphandres the code waits one second more
  (line 434).
* The ssh of the pod killer (line 840) is in a session of its own and in no
  `pids`: it stays in `procs` when the killer is terminated. `kill()` passes
  over every error (lines 167-175), and Scaphandre is started by sudo, so `Kill`
  may leave it (`refused`). The other processes belong to the user, and a
  SIGTERM of the user ends them. Line 954 says "always killed";
  `OnlyRefusedRemain` says what is guaranteed instead.
* An invocation may end by an exception or a signal at any point; the next one
  finds its files. `OnlyRefusedRemain` speaks of runs that came to their end:
  after an exception Scaphandre and the load go on, and the interpreter then
  waits for the pod killer, which has no end. What goes on then is of no account
  for a later driver, which has process numbers of its own, so `procs` starts
  empty.
* A file counts as the result of a run by a substring: 0_6 is in 0_60, and a
  file with only METADATA counts. `MetricsAreKept` is the other direction, that
  nothing measured is lost.
* Left out: `run_continuum`, which a literal True keeps from being called, so
  that without `--keep-vms` a second run waits for VMs that are gone (the model
  has it: the wait does not end, and `DriverEnds` excepts it). The pod killer
  spins without pods to kill and dies without any pods. Applications that an
  earlier experiment deployed stay on VMs that are kept.

### Reruns and the code

* A script is its list of runs, the position and the outputs it has read.
  `StartPaper` covers replicate_paper with and without `--resume`,
  `StartKubecontrol` replicate_kubecontrol with and without `--remove_base`,
  `StartByHand` the operator.
* A run is a sequence of coarse steps; `domains`, `os`, `images`, `joinFile`
  and `logs` are what it leaves. `since` is a history variable that says what
  has happened to the images since there were none.
* A run may end anywhere (`RunFails`): with sys.exit there is nothing on stderr
  and the script takes the log for an output; with an exception the script ends
  too. A wrong token lets the playbook of the workers fail (`JoinFails`).
* One tier and one base image per machine. The ssh commands of `_kill_all` are
  taken to work, their errors are swallowed, and `self.nodes` to name all hosts.
  The csv files that a docstring says are moved (replicate_kubecontrol.py:258)
  are not moved by the script. No liveness is stated: whoever starts a script
  may stop it.

## 3. Runs

| Run | Checks | Shows |
|---|---|---|
| `safety` | `TypeOK`, `LockDiscipline`, `OvercommittedOnlyBlind`, `QueueSound`, `ImplementsBinding` | two pods (1 and 2 units), two workers of 2 units: one node takes either pod and not both, unless the first has not started when the second is placed. One fault, also an error read as an empty list, one signal, one worker may leave; one pod is annotated and so retried, the other is not |
| `grows` | `ImplementsBinding` | a controller with room that must not be chosen, a worker that joins and gets Scaphandre later, a pod of another scheduler; the nil dereference in `fit` is reachable and harmless to the contract |
| `live` | `EventuallyBound`, `WatcherMovesOn` | one pod, one measured worker, two faults: none of them, in any place, loses the pod or blocks the watcher for good |
| `shutdown` (violation) | `ShutdownCompletes` | main waits for ever after a signal |
| `selection` | `ChoiceIsCandidate`, `ChoiceBound`, `LeastWithoutCorrections`, `FirstPodCorrects` | all lists of up to three nodes (one a controller) and two pods of two apps |
| `all_pods_correct` (violation) | `AllPodsCorrect` | the second unknown pod of a node adds nothing |
| `metrics` | `LabelsKeepUp`, `KnownIsEstimated` | two pods of one job with different app labels, three samples, one failed query, error or older answer, or end of the series |
| `labelled_is_measured` (violation) | `LabelledIsMeasured` | a pod in neither the node data nor the corrections |
| `infrastructure` | `WithinCores`, `Balanced`, `RefusedWhenFull`, `EveryVmNamed`, `DisksMatchVms`, `PinsDisjoint`, `AddressesKnown`, `LaunchedOnce`, `SoftwareOfTier`, `NetworkShaped`, `FailsOnlyOnVirtiofs`, `InfrastructureEnds` | every accepted configuration with up to two VMs of a tier, of one or two cores, on one or two machines of 1 or 4 cores with QEMU, and on GCP and AWS; any base images and any images of the registry missing; VMs that never answer |
| `application` | `TypeOK`, `WorkersReady`, `OutputIsFinal`, `NothingLeftQueued`, `TimelineIsTheRuns`, `ApplicationEnds` | two endpoints that share a worker of two processes or have one each, mist computing, endpoints alone, control plane benchmarks with and without cached images; one container may fail |
| `benchmark` | `OnlyRefusedRemain`, `StackIsReady`, `MetricsAreKept`, `DriverEnds` | a driver started twice with any of three command lines, one fault anywhere, a controller and a worker, two replicas of Scaphandre, prompts, a Scaphandre that may not be killed |
| `reruns` | `OwnCluster`, `ConsistentImages`, `OutputOfItsRun` | up to three scripts on two hosts, one failed run, two OS images and two Kubernetes versions |

The bounds. Two pods and two nodes are the least in which the loops race for
one pod, for one node, and for different nodes; a third pod adds nothing a lock
or a capacity could tell apart. One fault suffices for each lost response or
panic, and `live` takes two so that a fault can hit the recovery from another.
Two samples are the least that make data stale; the third is one that comes after
an older answer. `MaxFaults`, `MaxSignals` and
`MaxTime` are the only counters of the scheduler that are bounded.

In `infrastructure`, machines of unequal size, VMs that fill one exactly, a
first machine left idle and configurations that do not fit all occur; two
addresses with one third part (`PostfixLower`, `PostfixUpper`) make the
addresses wrap. With `infra_only` up to four VMs (`MaxPlain`) are enough, as the
resource manager is of no account. The base images are below the VMs, as the
defaults 90 and 100 are; with adjacent third parts, as many configurations have
(214 and 215), the VMs reach the base images from the 251st on. GCP and AWS have
one machine with as many cores as wanted, or a second by mistake.

`application` has two images per endpoint, the least that are in a queue
together, `SecondsPerHour` = 4, so that
the times around an hour are few, and `LastEvent` = 8, so that the events of two
pods in a timeline can come in every order. `benchmark` has the intervals 6 and 60, of which one begins
the other in decimal, an experiment that is named twice, and a run that is
repeated; one DeathStarBench pod may be killed, and one command may be typed
ahead (`MaxQueued`). `reruns` has configurations for both hosts, for the local
one alone and for the other one alone; three scripts are the least for a state
that one leaves, a second changes and a third finds.

Deadlock is checked in the runs of `Escheduler` and `EnergyMetrics`. A call of
`selectNode` ends (`selection`, `all_pods_correct`), and so do the programs in
`infrastructure`, `application`, `benchmark` and, by its bounds, `reruns`.

Fairness (`Escheduler!Fairness`): weak for each goroutine, as the Go scheduler
and the timers of the loops justify; weak for the restart of the container and
the start of Scaphandre on a node (Deployment and DaemonSet); strong for taking
`processorLock`, since `sync.Mutex` hands the lock to a waiter it has starved
for a millisecond, and for the send on `done`, since `select` picks at random
among ready channels. Of Continuum: `InfrastructureSpec` has weak fairness of
the next step of the program, as it is one thread, and none of `VmsAnswer`:
`InfrastructureEnds` excepts a VM that never answers. `Benchmark!FairSpec` has
it of the driver, of kubectl, of the clock of 120 seconds (`AskAgain`), and of
Kubernetes starting pods, and none of the operator: `DriverEnds` excepts a
prompt that stays unanswered. `Application!FairSpec` of the driver, of every
process of a program, of the pods and of the nodes. Nothing is assumed of
faults, signals, users or other schedulers.

The violations are disagreements between the code and what its comments say;
`PROJECT.json` quotes the lines under `findings`. Two more facts shape `live`.
A pod that is to be retried needs an annotation (kubernetes.go:179) that the
README of the scheduler does not mention; without it a pod gets one attempt per
watch connection. And the map of addresses is built once (ip_to_nodename.go:46),
so a node whose Scaphandre starts later is never chosen. The run takes an
annotated pod and a node that is measured from the start.

Every property of a passing run has a mutant: an operator next to the mapped
definition (comment `Mutant:`) with a bug that the property catches.

## 4. Proofs

Each of these modules proves an inductive invariant, `IInv` or another name, by
one lemma per action or group of actions, and then the properties from it.

`EschedulerProofs`, for all pods, nodes, requests and any number of faults,
signals and restarts, from `EschedulerAssumption` only:

* `TypeCorrect`, `LockIsDisciplined`, `QueueIsSound`, `NeverExits`.
* The invariant is `IInv == TypeOK /\ LockDiscipline /\ TaskOK /\ WatchOK /\
  MainOK /\ QueueSound`. `QueueSound` alone is not inductive: between the bind and
  `queueBindOperation` a loop holds a pod that is bound and not in the queue.
  `TaskOK` records that, and needs `LockDiscipline`: with both loops in their
  critical sections each could queue the pod of the other. That no other step
  disturbs a queued pod needs that a bound pod never changes its node, which
  every action gives. `MainOK` ties `wg` to the place of main.
* One lemma per group of actions; `AdvanceIInv`, `ReturnIInv` and `QuietIInv`
  treat the many steps that go on, give up, or touch neither loop.

The second part of `EschedulerProofs`, for finitely many pods:

* `OvercommittedOnlyBlindAlways` and `ContractIsImplemented`, the refinement of
  `PodBinding`.
* `OvercommittedOnlyBlind` is not inductive: `fit` looks at the room several steps
  before `bind` takes it. `TaskRoomOK` keeps that every node left in
  `task[t].nodes` has room for the pod, as long as the pod has no node; if pods of
  the node were hidden, at least for the pod alone. It survives the steps
  between because own pods of a node only get fewer (`NothingGranted`) except by
  a bind, and the other loop cannot bind (`LockDiscipline`). `UnbornOK` says a
  pod has no node before it exists.
* A step of the process maps to `Assign` or, on a node with hidden pods, to
  `AssignBlind`, to `PlacedByOther` if the pod belongs
  to another scheduler, or to nothing. `BindFails` is an assignment whenever the
  API server carried the request out.
* The sums rest on `SetLemmas`: the sum of F over S is the number of pairs of an x of
  S and a number of 1..F[x], so that what is known of `Cardinality` gives
  `SumOverSet` and `SumMonotone`. `LeastSubset` (a set of subsets of a finite
  set has a least one) takes the place of an induction.

`NodeSelectionProofs`, for lists of any length and any readings, from
`NodeSelectionAssumption` (readings stay below `math.MaxInt64` also when a
correction is added):

* `TypeCorrect`, `ChoiceIsACandidate`, `ChoiceIsBounded`, `LeastIsChosen`,
  `FirstPodDecides`. The invariant says of both loops what holds of the prefix
  looked at so far (`CorrectInv`, `ChooseInv`, `LeastInv`).

`EnergyMetricsProofs`, for any pods, names, samples, failed queries and older
answers:

* `TypeCorrect`, `LabelsAlwaysKeepUp`, `KnownIsAlwaysEstimated`. `KeepUpInv` and
  `LearnedInv` say what holds within a collection of what the properties say
  between two: after the node query the labels are behind, until a pod query,
  which may be answered by a newer sample and, if nothing goes wrong, by none
  that is older; a job is known only when the loop over all jobs has come to its
  end.

`InfrastructureProofs`, for any number of machines, VMs and cores and any
configuration that is accepted, from `PlacementAssumption`,
`ProvisioningAssumption` and `TerraformAssumption`; theorems of
`InfrastructureSpec`, hence of every run through placement, QEMU or Terraform,
the network and the failures between:

* `WithinCoresAlways`, `BalancedAlways`, `RefusedWhenFullAlways`, from
  `PlacementInv`. `schedule_pin` forgets a machine when it turns to the next;
  `PinInv` keeps that the machines behind are within their cores and lack room
  for some VM, that the machine being filled has exactly `left` cores free, and
  that the machines ahead are empty. `Balanced` is inductive: the VM that
  unbalances two machines went to the one that was used less.
* `EveryVmNamedAlways`, `DisksMatchVmsAlways`, `PinsDisjointAlways`: three
  functions count the same VMs independently, each from the numbers per machine.
  The invariant says of each loop what it has made of the machines before `at`,
  in a form that does not mention the loop: `NamesInv` that the list of the i-th
  machine is `NameList(i)`, which begins where the sum over the machines before
  it ends (`Start`), `DisksInv` that its disks are `DiskList(i)`, `PinsInv` that
  its cores are `PinsOf` its VMs. `StageInv` says that the index a loop carries
  along is that sum, which fails if a loop starts without resetting it.
* From there the names are without gaps because the sums over all machines
  are what was asked for: `CountInv` says that no VM is lost in the placement,
  `MachinesInv` that remove_idle keeps all machines with VMs
  (`EndOfNumbers`, `NumbersCover`). The controller has a VM and a disk only
  because some cloud VM is on the first machine in use, which `CountInv` gives:
  the cloud VMs are placed first (`ControllerHasCloud`). The pinned
  cores exist because a machine's ranges end at the sum of its VMs' cores
  (`ConsecutiveRanges`), which is its `Load` (`CoresAreLoad`), and
  `WithinCores` bounds that.
* `LaunchedOnceAlways`, from `LaunchInv`: between the rounds of a launch each
  VM runs or is in `commands`, never both.
* `ProviderInvariant` adds to `IInv` what each provider does; TLC checked
  `AddressInv`, `StoreInv` and `SoftwareInv` before they were proved.
* `AddressesKnownAlways` from `AddressInv` with QEMU and `CloudInv` with GCP and AWS.
  With QEMU a call of `update_ip` goes one `Position` on, also over the end of
  a third part (`UpdateIpSteps`); `AddressInv` says at which position the VMs of a
  machine start, the sum of the numbers of VMs before it, so that no two have
  the same (`OwnAddresses`). VMs and base images count from two third parts,
  `middleIP` and `middleIPBase`, and nothing in the code keeps the lower range
  from running into the higher: `RangesApart` is the hypothesis of the theorem.
  It asks for room for three base images per machine, or for all VMs, between
  the two; the defaults (100 and 90, 250 addresses each) are apart for up to 833
  machines, and it holds of the run (3 * 2 <= 10 * 2).
  With GCP and AWS `ReadAddressIs` is the theorem about `set_ips`: the line
  it computes for a VM, by skipping four lines and each category it takes to be
  there, is where Terraform prints that VM's address (`LineOfIs`, `OutputIs`).
* `FailsOnlyOnVirtiofsAlways` from `StoreInv`. As long as images are to be pulled
  or moved the registry holds all of them, whatever it held before; that
  `move_registry` finds the registry where `set_registry` announced it needs that
  `gather_ssh`, which joins lists, begins with the VM that is first in the list
  of its role (`RegistryVmIs`), and that tc never lacks a root needs that the
  classes of a VM are numbered without gaps over the tiers that have VMs
  (`RootFirst`).
* `SoftwareOfTierAlways` from `SoftwareInv`: once installed, a base image has the
  software of the tier in its name. The inventory knows hosts by names and
  chooses those of a tier by words in them, so this needs that no two lines give
  one name two addresses (`ReachedIs`), that a base image is alone with its name
  and its address, and that a word of one tier is never taken for that of another,
  kubeedge included (`NameTells`). `Recognised` states what follows from that for
  the groups; `QemuNames` and `CloudNames` show its premises (`NamesTell`) for
  the names that the providers give. `Started` makes the playbooks run on every
  base image with the name of a missing one, and the others keep what an earlier
  run installed (`BaseImageInstalls`). With QEMU a VM has this from the disk that
  the inventory made for it, which is from the base image of its tier (`QemuDisk`).
* `NetworkShapedAlways` from the same invariants. Hosts and peers of the network
  are paired by their places in two lists: gather_ips joins all controllers and
  then all clouds, gather_ssh both for each machine. They agree because only the
  first machine in use has a controller (`VmsOfMachines`, `JoinsFirst`,
  `NetworkListsAre`), and no two VMs have one address (`VmsApart`). What the
  loops over tiers set is then one filter for each host and peer (`ShapedBy`),
  in the class that was numbered for the peer's tier, with that pair's values
  (`ClassesAre`).
* The steps of `add_ssh` change nothing that these invariants speak of
  (`AnswersChangeWaits`).
* `OverMachines` and `Chosen` are recursive functions: that they have the
  values their definition gives is shown in `SetLemmas` (`JoinsExists`,
  `ChoosesExists`), by a least number at which they would not.

`BenchmarkProofs`, for any VMs, pods, command lines, invocations and faults:

* `MetricsAreAlwaysKept`, `OnlyRefusedAlwaysRemain`, `StackIsAlwaysReady`.
* `KeptInv` needs `PlaceOK`: that the run whose files are written is one that
  was not skipped, hence has no metrics file. `ProcsInv` says that the processes
  of this invocation are leftovers (a refused Scaphandre, the ssh of a pod
  killer), or will be killed by the driver, or belong to a function that still
  runs. `ReadyInv` says of the functions of the controller that are behind that
  each name they waited for had a ready pod (`Reached`).

`RerunsProofs`, for any hosts, configurations, scripts and failed runs:

* `ImagesAreConsistent`, `ClusterIsOwn` and `OutputsAreTheRuns`. `PlaceInv`, `InstalledInv` and `OnOsInv` follow the images
  through a run, the last one with two cases, before and after the first run has
  made them.
* `VmsInv` says whose VMs can be where, `OwnVmsInv` that those of the run are its
  base VMs or its VMs, `TokenInv` whose token is where. That the addresses of one
  run differ uses the sums of `SetLemmas`: the VMs of a host come after those of all
  hosts before it (`BeforeGrows`).

* `SeriesInv` is the invariant of `OutputsAreTheRuns`: since a series of the
  paper started, log number k is that of its k-th run, and what the scripts have
  taken for outputs is the first of them, wherever a script ended. The logs are
  sorted by `InOrder` of `Orders`, which leaves consecutive numbers as they are
  (`SortedInterval`). In general it sorts, by `InOrderSorts` of `SetLemmas`: by a
  strict total order, the element at place k is the one that k - 1 others come
  before. `SetToSortSeq` rests on `SortSeq`, which the provers cannot expand.

`ApplicationProofs`, for any number of workers, endpoints, processes, images and
failures, from `ApplicationAssumption`:

* `TypesHold`, `WorkersAreReady`, `OutputIsOfTheEnd`, `NothingIsLeftQueued`, from
  `IInv == TypeOK /\ DriverInv /\ JobsInv /\ PodsInv /\ LoopsInv /\ MessagesInv /\
  CombinedInv`, which was model-checked before it was proved.
* `WorkersReady` needs to know which pods can be in the list that
  wait_worker_ready counts in. `DriverInv` (where the driver can be with each
  resource manager), `JobsInv` (which Jobs there are there) and `PodsInv` (every
  listed pod belongs to such a Job) rule out those of the caching Job.
* `OutputIsFinal` needs `LoopsInv`: up to the index of each wait the pods have
  ended well. For pods this speaks of the list sorted by node, which must not
  change while the driver counts in it (`SortedStays`).
* `NothingLeftQueued` needs `MessagesInv`. The counter of a subscriber never
  falls below the number of endpoints whose last message it has not dealt with
  (`Coming`), and what was answered together with what waits or is in work
  (`Unanswered`) never passes what was sent. For both, a message must be in one
  place only (`Tidy`) and come from an endpoint of this worker.
  `CombinedInv` is the same for combined.py.
* `TimelineIsTheRunsAlways` is about `FillControl` and `Kept`, for any number of
  containers. `sort_on_time` gives a line to the first container that is open to
  it, with its other time the least. So it could give away a container that a
  later line needs, and the program would end. It does not: lines come in the
  order of time, hence whenever j are matched the least time that is left fits
  the next line (`FirstFits`): were it not so, j + 1 pods would have to share j
  lines or j times (`OneIsFree`, the pigeonhole principle). And the match is a
  pod's own line if no pod passed another (`FirstIsOwn`). With one pod the
  single line fills the first container and then all (`OnePod`).
* The log is sorted by `InOrder` (`EarlierOrders`, `LogOfEach`). `Check` and
  `FillControl` are recursive functions over the lines and the phases, which
  have the values that their definition gives (`CheckFinds`, `FillControlIs`, by
  `SetLemmas`). That whole hours do not matter for `Kept` is `RestIs`: the rest
  of a division is the only one in range.

Model-checked only: liveness, which the provers cannot treat.

## 5. Not modelled

* The command line, the reading of the configuration except what `Accepted`
  says of it, ssh keys and the copying of files: input and output without
  state that the properties depend on.
* The JSON types of Scaphandre's responses, the CPU load generator, the metrics
  computed from output, plots: sequential arithmetic, parsing and layout.
* The OpenFaaS playbooks and those that install a cluster: sequences of Ansible
  tasks. kube_kata, empty_kata, mem_usage, stress and signal_classification
  beyond the launch they share with the others.
* Baremetal, which its own `verify_options` always refuses.
* The values of the energy data (moving average, replicas), the clock of the
  bind queue, and `correctForPendingPods`, which nothing calls; see the plan.

`PROJECT.json` has the status of every component.

## 6. Plan

1. `PodPower`: `updatePodMicroWatts` with its values (replicas, moving average,
   average of all pods); `PendingPods`: the queue with its clock, so that
   `prunePendingPods` is exact; the lazy initialisation of the API client.
2. `CommandBatch`: `Machine.process` with its batches.
3. kubeedge and OpenFaaS in `Application`; AWS with more than cloud VMs once its
   names tell them apart.
4. Proofs: every invariant and action property of section 3 has one; what comes
   with 1 to 3 needs its own.
