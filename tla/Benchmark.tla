------------------------------ MODULE Benchmark ------------------------------
(***************************************************************************)
(* The benchmark driver, energy_metrics.py: for every experiment named on  *)
(* the command line a number of runs, each of which starts Scaphandre on   *)
(* the host, sets up every VM over ssh, starts a load and a process that   *)
(* kills pods, measures, and stops what it has started.  A run of which    *)
(* the result directory shows a file is skipped, so that a driver that     *)
(* failed can be started again.                                            *)
(*                                                                         *)
(* The VMs, their pods and kubectl act on their own, and so does the       *)
(* operator, whom two functions of the setup ask to press enter.  A pod is *)
(* a replica of the name that a list of pods holds.                        *)
(***************************************************************************)
EXTENDS Naturals, Sequences, FiniteSets

CONSTANTS
    VmNames,        \* the VMs of the last log of Continuum, the controller first
    DsbPods,        \* the names of the pods of DeathStarBench that vm_setup_dsb waits for
    KillablePods,   \* those of them that may be killed
    Arguments,      \* the command lines that may be given
    MaxInvocations, MaxFaults, MaxQueued

Controller == VmNames[1]
Vms == {VmNames[v] : v \in DOMAIN VmNames}

ASSUME BenchmarkAssumption ==
    /\ VmNames \in Seq(STRING) /\ VmNames # <<>>
    /\ \A v, w \in DOMAIN VmNames : VmNames[v] = VmNames[w] => v = w
    /\ KillablePods \subseteq DsbPods
    /\ \A a \in Arguments :
          /\ a.names \in Seq(STRING) /\ a.names # <<>>
          /\ a.runs \in 0..1000 /\ a.measure_interval \in Nat \ {0}
    /\ {MaxInvocations, MaxFaults, MaxQueued} \subseteq Nat

-----------------------------------------------------------------------------
(* setup_by_name: which functions set up which VM *)

Baselines == {"baseline1", "baseline4", "baseline8", "baseline12", "baseline16", "baseline20"}
Kube == {"kube_cpu100", "kube_sca", "kube_sca_sched", "kube_sca_dsb", "kube_sca_dsb_sched",
         "kube-scheduler", "esched"}

\* What every VM of an experiment goes through.
VmSetup(name) ==
    CASE name \in Baselines \cup {"qemu", "kube", "kube_prom"} -> <<"qemu">>
      [] name \in {"qemu_virtiofsd"} \cup Kube -> <<"qemu", "virtiofs">>
      [] name = "qemu_cpu100" -> <<"qemu", "virtiofs", "cpu_load_no_kube">>
      [] OTHER -> <<>>

\* What the controller goes through after that.
ControllerSetup(name) ==
    CASE name = "kube_cpu100" -> <<"cpu_load_kube">>
      [] name = "kube_sca" -> <<"scaphandre">>
      [] name = "kube_sca_sched" -> <<"scaphandre", "sched">>
      [] name = "kube_sca_dsb" -> <<"scaphandre", "dsb">>
      [] name = "kube_sca_dsb_sched" -> <<"scaphandre", "sched", "dsb">>
      [] name = "kube-scheduler" -> <<"scaphandre", "dsb", "wrk_from_dsb">>
      [] name = "esched" -> <<"scaphandre", "sched", "dsb", "wrk_from_dsb">>
      [] OTHER -> <<>>

Setup(name, vm) == VmSetup(name) \o (IF vm = Controller THEN ControllerSetup(name) ELSE <<>>)

\* The experiments of which a Pool sets up all VMs at once.
ParallelSetup == {"qemu", "qemu_virtiofsd", "qemu_cpu100", "kube", "kube_prom", "kube_cpu100", "kube_sca"}

\* The names of the pods a function installs and waits for.
Awaited(function) ==
    CASE function = "cpu_load_kube" -> {"block-cpu"}
      [] function = "scaphandre" -> {"scaphandre"}
      [] function = "sched" -> {"escheduler"}
      [] function = "dsb" -> DsbPods
      [] OTHER -> {}

AwaitedBy(name) ==
    UNION {Awaited(ControllerSetup(name)[n]) : n \in DOMAIN ControllerSetup(name)}

\* The functions that return the process they leave running; the others kill
\* their own and return -1.
Lasting == {"cpu_load_no_kube", "cpu_load_kube", "scaphandre", "wrk_from_dsb"}

\* The functions that call input().
Prompting == {"dsb", "wrk_from_dsb"}

\* block-cpu has two replicas, the DaemonSet of Scaphandre one on every VM.
Replicas(name) ==
    CASE name = "block-cpu" -> 2
      [] name = "scaphandre" -> Len(VmNames)
      [] OTHER -> 1

Names == UNION {{a.names[n] : n \in DOMAIN a.names} : a \in Arguments}
Pods == UNION {{name} \X (1 .. Replicas(name)) : name \in UNION {AwaitedBy(n) : n \in Names}}
PodsOf(names) == {p \in Pods : p[1] \in names}
Intervals == {a.measure_interval : a \in Arguments}
Runs == UNION {0 .. a.runs - 1 : a \in Arguments}

VARIABLES
    \* the driver
    pc, args, invocation,
    exp,        \* the number of the experiment
    run,        \* i, the number of the run
    prev,       \* prev_runs: the result files when the experiment began, by run and interval
    done,       \* by VM, how many of its setup functions have ended
    stage,      \* by VM, where in such a function it is
    remaining,  \* pods of wait_for_kube_pods: the names not yet reported
    pids,       \* the processes it is to kill
    \* the disk
    metrics,    \* the state of each metrics file
    metadata,   \* the runs that have a METADATA file
    \* processes of the host that this driver has started: over ssh or by sudo, and the
    \* pod killer; what earlier drivers have left is not kept, as no driver looks at it
    procs, killer,
    refused,    \* those of procs that kill() was called on and that did not end
    \* the VMs and their cluster
    up, pods,
    asked,      \* the pods on which the kubectl wait that runs has yet to report
    queued,     \* such commands typed but not begun
    late,       \* pods that the pod killer has told kubectl to delete
    hit,        \* pods it has deleted since the run began
    faults

driver == <<args, invocation, exp, run, prev>>
setup == <<done, stage, remaining>>
disk == <<metrics, metadata>>
shell == <<asked, queued>>
cluster == <<pods, late, hit>>
processes == <<procs, killer, refused>>
vars == <<pc, driver, setup, pids, disk, processes, up, cluster, shell, faults>>

None == "none"
NoArguments == [names |-> <<>>, runs |-> 0, measure_interval |-> 1, keep_vms |-> FALSE]
Files == Names \X Runs \X Intervals

Init ==
    /\ pc = "ended" /\ args = NoArguments /\ invocation = 0
    /\ exp = 1 /\ run = 0 /\ prev = {}
    /\ done = [v \in Vms |-> 0] /\ stage = [v \in Vms |-> "call"]
    /\ remaining = {} /\ pids = {}
    /\ metrics = [f \in Files |-> None] /\ metadata = {}
    /\ procs = {} /\ killer = None /\ refused = {}
    /\ up = Vms /\ pods = [p \in Pods |-> "absent"]
    /\ asked = {} /\ queued = 0 /\ late = {} /\ hit = {}
    /\ faults = 0

Name == args.names[exp]
File == <<Name, run, args.measure_interval>>

Process(what, vm) == [what |-> what, vm |-> vm, of |-> <<exp, run>>]
HostScaphandre == Process("host_scaphandre", None)

-----------------------------------------------------------------------------
(* The command line, the experiments and their runs *)

Invoke(a) ==
    /\ pc = "ended" /\ invocation < MaxInvocations
    /\ args' = a /\ invocation' = invocation + 1
    /\ exp' = 1 /\ run' = 0 /\ prev' = {}
    /\ pc' = "experiment" /\ pids' = {}
    /\ procs' = {} /\ refused' = {}
    /\ UNCHANGED <<setup, disk, killer, up, cluster, shell, faults>>

\* Mutant: the files are listed once, before the first experiment.
ListRunsOnce ==
    /\ pc = "experiment" /\ exp <= Len(args.names)
    /\ prev' = IF exp > 1 THEN prev
               ELSE {<<f[2], f[3]>> : f \in {f \in Files : f[1] = Name /\ (metrics[f] # None \/ f \in metadata)}}
    /\ run' = 0
    /\ pc' = "run"
    /\ UNCHANGED <<args, invocation, exp, setup, pids, disk, processes, up, cluster, shell, faults>>

\* The files of an experiment, listed once before its runs.
ListRuns ==
    /\ pc = "experiment" /\ exp <= Len(args.names)
    /\ prev' = {<<f[2], f[3]>> : f \in {f \in Files : f[1] = Name /\ (metrics[f] # None \/ f \in metadata)}}
    /\ run' = 0
    /\ pc' = "run"
    /\ UNCHANGED <<args, invocation, exp, setup, pids, disk, processes, up, cluster, shell, faults>>

Ends ==
    /\ pc = "experiment" /\ exp > Len(args.names)
    /\ pc' = "ended"
    /\ UNCHANGED <<driver, setup, pids, disk, processes, up, cluster, shell, faults>>

NextExperiment ==
    /\ pc = "run" /\ run = args.runs
    /\ exp' = exp + 1
    /\ pc' = "experiment"
    /\ UNCHANGED <<args, invocation, run, prev, setup, pids, disk, processes, up, cluster, shell, faults>>

\* Of two numbers of at most three and four digits, the second ends or begins
\* the first in decimal.
EndsWith(j, i) == \E d \in {10, 100, 1000} : i < d /\ (d = 10 \/ i >= d \div 10) /\ j % d = i
BeginsWith(n, m) == \E d \in {1, 10, 100, 1000} : n \div d = m

\* "{i}_{interval}" is a part of the name of one of the files.
AlreadyRan == \E f \in prev : EndsWith(f[1], run) /\ BeginsWith(f[2], args.measure_interval)

SkipRun ==
    /\ pc = "run" /\ run < args.runs /\ AlreadyRan
    /\ run' = run + 1
    /\ UNCHANGED <<pc, args, invocation, exp, prev, setup, pids, disk, processes, up, cluster, shell, faults>>

\* Continuum is taken to have run: infra_already_running is a literal True.
StartRun ==
    /\ pc = "run" /\ run < args.runs /\ ~AlreadyRan
    /\ pids' = {} /\ hit' = {}
    /\ pc' = "scaphandre"
    /\ UNCHANGED <<driver, setup, disk, processes, up, pods, late, shell, faults>>

RunScaphandre ==
    /\ pc = "scaphandre"
    /\ procs' = procs \cup {HostScaphandre}
    /\ pc' = "setup"
    /\ UNCHANGED <<driver, setup, pids, disk, killer, refused, up, cluster, shell, faults>>

-----------------------------------------------------------------------------
(* Setup *)

Function(v) == Setup(Name, v)[done[v] + 1]

\* A VM is set up when its turn has come; all have at once in a Pool.
Turn(v) ==
    /\ pc = "setup"
    /\ done[v] < Len(Setup(Name, v))
    /\ \/ Name \in ParallelSetup
       \/ \A n \in DOMAIN VmNames : VmNames[n] = v =>
              \A m \in 1 .. n - 1 : done[VmNames[m]] = Len(Setup(Name, VmNames[m]))

\* create_ssh_process:
OpenSsh(v) ==
    /\ Turn(v) /\ stage[v] = "call"
    /\ procs' = procs \cup {Process(Function(v), v)}
    /\ stage' = [stage EXCEPT ![v] = "commands"]
    /\ UNCHANGED <<pc, driver, done, remaining, pids, disk, killer, refused, up, cluster, shell, faults>>

\* input(): once DeathStarBench is installed, or with nothing read before.
Prompt(v) ==
    /\ Turn(v) /\ stage[v] = "commands" /\ Function(v) \in Prompting
    /\ Function(v) = "dsb" => v \in up
    /\ stage' = [stage EXCEPT ![v] = "prompt"]
    /\ UNCHANGED <<pc, driver, done, remaining, pids, disk, processes, up, cluster, shell, faults>>

OperatorAnswers(v) ==
    /\ stage[v] = "prompt"
    /\ stage' = [stage EXCEPT ![v] = "answered"]
    /\ UNCHANGED <<pc, driver, done, remaining, pids, disk, processes, up, cluster, shell, faults>>

\* The commands of a function up to the output it reads for.  A VM that is down
\* never gives that output, and the read of its end of file is repeated for ever.
RunCommands(v) ==
    /\ Turn(v)
    /\ stage[v] = IF Function(v) \in Prompting THEN "answered" ELSE "commands"
    /\ v \in up \/ Function(v) = "wrk_from_dsb"
    /\ pods' = [p \in Pods |-> IF p[1] \in Awaited(Function(v)) /\ pods[p] = "absent"
                               THEN "created" ELSE pods[p]]
    /\ remaining' = IF v = Controller THEN Awaited(Function(v)) ELSE remaining
    /\ stage' = [stage EXCEPT ![v] = IF Awaited(Function(v)) = {} THEN "return" ELSE "ask"]
    /\ UNCHANGED <<pc, driver, done, pids, disk, processes, up, late, hit, shell, faults>>

\* wait_for_kube_pods types a kubectl wait.
AskKubectl ==
    /\ Turn(Controller) /\ stage[Controller] = "ask" /\ queued < MaxQueued
    /\ queued' = queued + 1
    /\ stage' = [stage EXCEPT ![Controller] = "read"]
    /\ UNCHANGED <<pc, driver, done, remaining, pids, disk, processes, up, cluster, asked, faults>>

Reading == Turn(Controller) /\ stage[Controller] = "read"

\* Mutant: the command is typed once.
AskOnce == FALSE

\* The two minutes are over, or the timeouts counted are as many as the names
\* that remain: the outer loop types the command again.  The last one may still run.
AskAgain ==
    /\ Reading /\ remaining # {}
    /\ stage' = [stage EXCEPT ![Controller] = "ask"]
    /\ UNCHANGED <<pc, driver, done, remaining, pids, disk, processes, up, cluster, shell, faults>>

AllReported ==
    /\ Reading /\ remaining = {}
    /\ stage' = [stage EXCEPT ![Controller] = "return"]
    /\ UNCHANGED <<pc, driver, done, remaining, pids, disk, processes, up, cluster, shell, faults>>

\* What a shell has yet to do or to print is read by nobody.
Unread == asked' = {} /\ queued' = 0

Unstarted ==
    /\ done' = [v \in Vms |-> 0] /\ stage' = [v \in Vms |-> "call"]
    /\ remaining' = {}

\* A function returns its process, or kills it.
Return(v) ==
    /\ Turn(v) /\ stage[v] = "return"
    /\ done' = [done EXCEPT ![v] = @ + 1]
    /\ stage' = [stage EXCEPT ![v] = "call"]
    /\ IF Function(v) \in Lasting
       THEN /\ pids' = pids \cup {Process(Function(v), v)}
            /\ UNCHANGED procs
       ELSE /\ procs' = procs \ {Process(Function(v), v)}
            /\ UNCHANGED pids
    /\ IF v = Controller THEN Unread ELSE UNCHANGED shell
    /\ UNCHANGED <<pc, driver, remaining, disk, killer, refused, up, cluster, faults>>

SetUp ==
    /\ pc = "setup"
    /\ \A v \in Vms : done[v] = Len(Setup(Name, v))
    /\ Unstarted
    /\ pc' = "wrk"
    /\ UNCHANGED <<driver, pids, disk, processes, up, cluster, shell, faults>>

-----------------------------------------------------------------------------
(* kubectl and the pods *)

Made == {p \in Pods : pods[p] \in {"starting", "ready"}}

\* A kubectl wait takes the pods that exist when it begins.
KubectlBegins ==
    /\ queued > 0 /\ asked = {} /\ Controller \in up
    /\ asked' = Made
    /\ queued' = queued - 1
    /\ UNCHANGED <<pc, driver, setup, pids, disk, processes, up, cluster, faults>>

\* The line "condition met" takes the name of the pod from the list, whatever
\* its other replicas are.
ConditionMet(p) ==
    /\ p \in asked /\ pods[p] = "ready" /\ Controller \in up
    /\ asked' = asked \ {p}
    /\ remaining' = remaining \ {p[1]}
    /\ UNCHANGED <<pc, driver, done, stage, pids, disk, processes, up, cluster, queued, faults>>

\* Mutant: any line that names a pod takes it from the list.
TimedOutTaken(p) ==
    /\ p \in asked /\ pods[p] # "ready" /\ Controller \in up
    /\ asked' = asked \ {p}
    /\ remaining' = remaining \ {p[1]}
    /\ UNCHANGED <<pc, driver, done, stage, pids, disk, processes, up, cluster, queued, faults>>

\* A line of a timeout is counted or not (it names "pods/", the code looks for
\* "pod/"); the count only makes the loop ask again.
TimedOut(p) ==
    /\ p \in asked /\ pods[p] # "ready" /\ Controller \in up
    /\ asked' = asked \ {p}
    /\ UNCHANGED <<pc, driver, setup, pids, disk, processes, up, cluster, queued, faults>>

\* The controllers of the cluster make the pod; then it becomes ready.
PodAdvances(p) ==
    /\ up = Vms /\ pods[p] \in {"created", "starting"}
    /\ pods' = [pods EXCEPT ![p] = IF @ = "created" THEN "starting" ELSE "ready"]
    /\ UNCHANGED <<pc, driver, setup, pids, disk, processes, up, late, hit, shell, faults>>

\* kubectl deletes the pod; its Deployment makes another.
PodDeleted(p) ==
    /\ p \in late /\ Controller \in up
    /\ late' = late \ {p}
    /\ hit' = hit \cup {p}
    /\ pods' = [pods EXCEPT ![p] = "starting"]
    /\ UNCHANGED <<pc, driver, setup, pids, disk, processes, up, shell, faults>>

-----------------------------------------------------------------------------
(* Load, pod killer and measurement *)

StartWrk2 ==
    /\ pc = "wrk" /\ Controller \in up
    /\ procs' = procs \cup {Process("wrk2", Controller)}
    /\ pids' = pids \cup {Process("wrk2", Controller)}
    /\ killer' = "started"
    /\ pc' = "measure"
    /\ UNCHANGED <<driver, setup, disk, refused, up, cluster, shell, faults>>

\* The ssh of the pod killer has a session of its own, and its number is known
\* to the pod killer alone.
KillerConnects ==
    /\ killer = "started"
    /\ killer' = "running"
    /\ procs' = procs \cup {Process("killer", Controller)}
    /\ UNCHANGED <<pc, driver, setup, pids, disk, refused, up, cluster, shell, faults>>

\* What kubectl get lists as running: a pod that is not ready may be.
Lists(running) ==
    /\ killer = "running" /\ Controller \in up
    /\ {p \in Made : pods[p] = "ready"} \ PodsOf({"escheduler"}) \subseteq running
    /\ running \subseteq Made \ PodsOf({"escheduler"})

\* Three times a pod is chosen at random among those that run, a pod that may
\* not be killed does not count, and one may be chosen twice.
KillPods(running) ==
    /\ Lists(running)
    /\ \E chosen \in SUBSET (PodsOf(KillablePods) \cap running) :
          /\ chosen # {} /\ Cardinality(chosen) <= 3
          /\ late' = late \cup chosen
    /\ UNCHANGED <<pc, driver, setup, pids, disk, processes, up, pods, hit, shell, faults>>

\* Without running pods randrange raises; without one that may be killed the
\* choice never ends.
KillerStops(running) ==
    /\ Lists(running)
    /\ PodsOf(KillablePods) \cap running = {}
    /\ killer' = IF running = {} THEN "dead" ELSE "spinning"
    /\ UNCHANGED <<pc, driver, setup, pids, disk, procs, refused, up, cluster, shell, faults>>

\* save_synced_resource_usage opens the metrics file, if every VM has a process.
OpenMetrics ==
    /\ pc = "measure" /\ up = Vms
    /\ metrics' = [metrics EXCEPT ![File] = "open"]
    /\ pc' = "sample"
    /\ UNCHANGED <<driver, setup, pids, metadata, processes, up, cluster, shell, faults>>

PidsNotValid ==
    /\ pc = "measure" /\ up # Vms
    /\ pc' = "stop"
    /\ UNCHANGED <<driver, setup, pids, disk, processes, up, cluster, shell, faults>>

\* The loop over the VMs until the time is over; it reads their /proc entries.
Measured ==
    /\ pc = "sample" /\ up = Vms
    /\ metrics' = [metrics EXCEPT ![File] = "complete"]
    /\ pc' = "stop"
    /\ UNCHANGED <<driver, setup, pids, metadata, processes, up, cluster, shell, faults>>

\* The pod killer is terminated; its ssh is not, and may carry out what was typed.
\* It ends at some time or never, which this leaves out: the more goes on.
StopKiller ==
    /\ pc = "stop"
    /\ killer' = None
    /\ metadata' = metadata \cup {File}
    /\ pc' = "kill"
    /\ UNCHANGED <<driver, setup, pids, metrics, procs, refused, up, cluster, shell, faults>>

\* Mutant: the loop over pids, which assigns pid, comes first, so that Scaphandre
\* is not killed unless there was nothing else to kill.
KillSetupFirst ==
    /\ pc = "kill"
    /\ procs' = procs \ (IF pids = {} THEN {HostScaphandre} ELSE pids)
    /\ pids' = {}
    /\ pc' = IF args.keep_vms THEN "next" ELSE "destroy"
    /\ UNCHANGED <<driver, setup, disk, killer, refused, up, cluster, shell, faults>>

\* Scaphandre, then the processes of the setup.  kill() goes on when the signal
\* is not permitted, as it may not be to what sudo has started.
Kill ==
    /\ pc = "kill"
    /\ \E stays \in SUBSET {HostScaphandre} :
          /\ procs' = procs \ (({HostScaphandre} \cup pids) \ stays)
          /\ refused' = refused \cup stays
    /\ pids' = {}
    /\ pc' = IF args.keep_vms THEN "next" ELSE "destroy"
    /\ UNCHANGED <<driver, setup, disk, killer, up, cluster, shell, faults>>

\* virsh destroy of each VM; of one that does not run it fails (see Raise).
DestroyVms ==
    /\ pc = "destroy" /\ up = Vms
    /\ up' = {}
    /\ pc' = "next"
    /\ UNCHANGED <<driver, setup, pids, disk, processes, cluster, shell, faults>>

NextRun ==
    /\ pc = "next"
    /\ run' = run + 1
    /\ pc' = "run"
    /\ UNCHANGED <<args, invocation, exp, prev, setup, pids, disk, processes, up, cluster, shell, faults>>

-----------------------------------------------------------------------------
(* What goes wrong *)

\* An uncaught exception.  The interpreter joins the pod killer before it exits,
\* and the pod killer has no end.
Exception ==
    /\ IF killer \in {"started", "running", "spinning"}
       THEN pc' = "join" /\ UNCHANGED killer
       ELSE pc' = "ended" /\ killer' = None
    /\ pids' = {} /\ Unstarted /\ Unread
    /\ UNCHANGED <<driver, disk, procs, refused, up, cluster>>

\* Commands that are run with check=True, files and pipes that are not there.
Raise ==
    \/ /\ pc = "sample" /\ up # Vms
       /\ Exception /\ UNCHANGED faults
    \/ /\ pc = "destroy" /\ up # Vms
       /\ Exception /\ UNCHANGED faults
    \/ /\ pc \notin {"ended", "join"} /\ faults < MaxFaults
       /\ Exception /\ faults' = faults + 1

Joined ==
    /\ pc = "join" /\ killer = "dead"
    /\ pc' = "ended" /\ killer' = None
    /\ UNCHANGED <<driver, setup, pids, disk, procs, refused, up, cluster, shell, faults>>

\* The operator interrupts a driver, and with it the pod killer; the other
\* processes have sessions of their own.
Interrupt ==
    /\ pc # "ended" /\ faults < MaxFaults
    /\ pc' = "ended" /\ killer' = None
    /\ faults' = faults + 1
    /\ pids' = {} /\ Unstarted /\ Unread
    /\ UNCHANGED <<driver, disk, procs, refused, up, cluster>>

VmStops(v) ==
    /\ v \in up /\ faults < MaxFaults
    /\ up' = up \ {v}
    /\ faults' = faults + 1
    /\ UNCHANGED <<pc, driver, setup, pids, disk, processes, cluster, shell>>

\* The operator has Continuum deploy the VMs anew.
Deploy ==
    /\ pc = "ended" /\ up # Vms /\ invocation < MaxInvocations
    /\ up' = Vms
    /\ pods' = [p \in Pods |-> "absent"]
    /\ late' = {} /\ hit' = {}
    /\ UNCHANGED <<pc, driver, setup, pids, disk, processes, shell, faults>>

-----------------------------------------------------------------------------
Driver ==
    \/ ListRuns \/ Ends \/ NextExperiment \/ SkipRun \/ StartRun \/ RunScaphandre
    \/ \E v \in Vms : OpenSsh(v) \/ Prompt(v) \/ RunCommands(v) \/ Return(v)
    \/ AskKubectl \/ AllReported
    \/ SetUp \/ StartWrk2 \/ OpenMetrics \/ PidsNotValid \/ Measured
    \/ StopKiller \/ Kill \/ DestroyVms \/ NextRun \/ Joined

Kubectl ==
    KubectlBegins \/ \E p \in Pods : ConditionMet(p) \/ TimedOut(p)

Next ==
    \/ \E a \in Arguments : Invoke(a)
    \/ Driver \/ AskAgain
    \/ Kubectl
    \/ \E p \in Pods : PodAdvances(p) \/ PodDeleted(p)
    \/ KillerConnects
    \/ \E running \in SUBSET Made : KillPods(running) \/ KillerStops(running)
    \/ Raise \/ Interrupt \/ Deploy
    \/ \E v \in Vms : OperatorAnswers(v) \/ VmStops(v)

Spec == Init /\ [][Next]_vars

Fairness ==
    /\ WF_vars(Driver)
    /\ WF_vars(AskAgain)
    /\ WF_vars(Kubectl)
    /\ WF_vars(\E p \in Pods : PodAdvances(p))

FairSpec == Spec /\ Fairness

-----------------------------------------------------------------------------
(* Properties *)

\* What a driver has measured to the end is never written over: not by a later
\* run, not by an experiment named twice, not by a driver started again after
\* another has failed (energy_metrics.py:878-889; the file is opened with "w" at line 213).
MetricsAreKept ==
    [][\A f \in Files : metrics[f] = "complete" => metrics'[f] = "complete"]_vars

\* A run starts on a host where little of the earlier runs of this driver goes
\* on: a Scaphandre that kill() was called on and that did not heed it ("always
\* killed", energy_metrics.py:954, but see lines 157 and 167-175), and the ssh of
\* a pod killer (line 840).  No process of the setup, no load and no pod killer.
OnlyRefusedRemain ==
    /\ \A p \in procs :
          \/ pc \in {"destroy", "next", "experiment", "run"}
          \/ pc \in {"scaphandre", "setup", "wrk", "measure", "sample"} /\ p.of # <<exp, run>>
          => p \in refused \/ p.what = "killer"
    /\ pc \in {"experiment", "run", "scaphandre", "setup", "wrk", "kill", "destroy", "next"} =>
          killer = None

\* When the measurement starts, every name that the setup of the experiment waits
\* for has had a ready pod, which still is or has been deleted by a command that
\* the pod killer of an earlier run has left to kubectl; other replicas of the
\* name need not be ready (wait_for_kube_pods, energy_metrics.py:301-357).
StackIsReady ==
    pc \in {"wrk", "measure"} /\ up = Vms =>
        \A name \in AwaitedBy(Name) : \E p \in PodsOf({name}) : pods[p] = "ready" \/ p \in hit

\* While the VMs run and nothing fails, a driver comes to its end or to a prompt
\* that nobody answers: no wait for pods, no read of a shell goes on for ever.  A
\* driver without --keep-vms destroys the VMs at the end of its first run, and what
\* it does after that is not covered: it does not start Continuum again
\* (energy_metrics.py:869, 896; input() at lines 478 and 516).
DriverEnds ==
    pc # "ended" ~>
        \/ pc = "ended" \/ faults > 0 \/ up # Vms
        \/ \E v \in Vms : stage[v] = "prompt"

=============================================================================
