---------------------------- MODULE BenchmarkProofs ----------------------------
(***************************************************************************)
(* Theorems about the benchmark driver, for any VMs, pods and command      *)
(* lines, and any number of invocations and faults.                        *)
(***************************************************************************)
EXTENDS Benchmark, SequenceTheorems, TLAPS

Preparing == {"scaphandre", "setup", "wrk", "measure", "sample"}
Stopping == {"stop", "kill", "destroy", "next"}

Stages == {"call", "commands", "prompt", "answered", "ask", "read", "return"}

TypeOK ==
    /\ pc \in {"ended", "join", "experiment", "run"} \cup Preparing \cup Stopping
    /\ args \in Arguments \cup {NoArguments}
    /\ invocation \in Nat /\ exp \in Nat \ {0} /\ run \in Nat
    /\ metrics \in [Files -> {None, "open", "complete"}]
    /\ done \in [Vms -> Nat]
    /\ stage \in [Vms -> Stages]
    /\ pods \in [Pods -> {"absent", "created", "starting", "ready"}]

\* Where the driver is, as numbers of experiments and runs.
PlaceOK ==
    /\ pc \notin {"ended", "join"} => args \in Arguments
    /\ pc \in {"run"} \cup Preparing \cup Stopping => exp <= Len(args.names)
    /\ pc = "run" => run <= args.runs
    /\ pc \in Preparing \cup Stopping => run < args.runs

\* What is complete of the experiment is of a run before the n-th, or was
\* listed when the experiment began.
Before(n) ==
    \A f \in Files :
        f[1] = Name /\ f[3] = args.measure_interval /\ metrics[f] = "complete" =>
            f[2] < n \/ <<f[2], f[3]>> \in prev

KeptInv ==
    /\ pc \in {"run"} \cup Preparing => Before(run)
    /\ pc \in Stopping => Before(run + 1)
    /\ pc \in Preparing => ~AlreadyRan

\* Functions are called during the setup alone.
SetupInv ==
    /\ pc # "setup" => \A v \in Vms : done[v] = 0 /\ stage[v] = "call"
    /\ \A v \in Vms : stage[v] # "call" => done[v] < Len(Setup(Name, v))
    /\ pc = "setup" => done[Controller] <= Len(Setup(Name, Controller))

\* The processes of this driver: those left of earlier runs, those it is going to
\* kill, and during the setup those of the functions that run.
Leftover(p) == p \in refused \/ p.what = "killer"
Current == <<exp, run>>
ProcsInv ==
    /\ pc \in {"experiment", "run", "scaphandre", "destroy", "next"} =>
          \A p \in procs : Leftover(p)
    /\ pc = "setup" =>
          \A p \in procs : \/ Leftover(p) \/ p = HostScaphandre \/ p \in pids
                           \/ \E v \in Vms : stage[v] # "call" /\ p = Process(Function(v), v)
    /\ pc \in {"wrk", "measure", "sample", "stop", "kill"} =>
          \A p \in procs : Leftover(p) \/ p = HostScaphandre \/ p \in pids
    /\ pc \in Preparing \cup Stopping => \A p \in pids : p.of = Current
    /\ pc \notin {"measure", "sample", "stop", "join"} => killer = None

\* A name of which a pod was ready that can only have been deleted since.
Reached(name) == \E p \in PodsOf({name}) : pods[p] = "ready" \/ p \in hit

ReadyInv ==
    LET functions == Setup(Name, Controller)
    IN /\ pc = "setup" =>
             /\ \A k \in 1..done[Controller] : \A p \in Awaited(functions[k]) : Reached(p)
             /\ stage[Controller] \in {"ask", "read"} =>
                   \A p \in Awaited(Function(Controller)) \ remaining : Reached(p)
             /\ stage[Controller] = "return" => \A p \in Awaited(Function(Controller)) : Reached(p)
       /\ pc \in {"wrk", "measure"} => \A p \in AwaitedBy(Name) : Reached(p)

-------------------------------------------------------------------------------
\* Steps of the setup, the cluster and the pod killer: the driver stays where
\* it is and touches no file.
Aside ==
    \/ \E v \in Vms : \/ OpenSsh(v) \/ Prompt(v) \/ OperatorAnswers(v) \/ RunCommands(v)
                    \/ Return(v) \/ VmStops(v)
    \/ AskKubectl \/ AskAgain \/ AllReported
    \/ KubectlBegins \/ \E p \in Pods : ConditionMet(p) \/ TimedOut(p)
    \/ \E p \in Pods : PodAdvances(p) \/ PodDeleted(p)
    \/ KillerConnects \/ \E running \in SUBSET Made : KillPods(running) \/ KillerStops(running)
    \/ Deploy

\* Steps of the driver from one place to the next.
Control ==
    \/ \E a \in Arguments : Invoke(a)
    \/ ListRuns \/ Ends \/ NextExperiment \/ SkipRun \/ StartRun \/ RunScaphandre
    \/ SetUp \/ StartWrk2 \/ OpenMetrics \/ PidsNotValid \/ Measured
    \/ StopKiller \/ Kill \/ DestroyVms \/ NextRun
    \/ Raise \/ Joined \/ Interrupt

LEMMA Steps == Next => Aside \/ Control
BY DEF Next, Driver, Kubectl, Aside, Control

LEMMA AsideFrame == Aside => UNCHANGED <<pc, driver, disk>>
BY DEF Aside, OpenSsh, Prompt, OperatorAnswers, RunCommands, Return, VmStops,
       AskKubectl, AskAgain, AllReported, KubectlBegins, ConditionMet, TimedOut, PodAdvances,
       PodDeleted, KillerConnects, KillPods, KillerStops,
       Deploy, setup

\* A driver that ends after an error leaves the files as they are.
LEMMA ErrorFrame ==
    Raise \/ Joined \/ Interrupt =>
        /\ pc' \in {"ended", "join"} /\ UNCHANGED <<driver, disk, procs, up, cluster>>
        /\ pc' = "ended" => killer' = None
        /\ Unstarted \/ (pc = "join" /\ UNCHANGED setup)
BY DEF Raise, Joined, Interrupt, Exception

\* The names and numbers of a driver that runs are those of its arguments.
LEMMA ArgumentTypes ==
    ASSUME NEW a \in Arguments
    PROVE  /\ a.runs \in Nat /\ a.runs <= 1000 /\ a.measure_interval \in Nat
           /\ Len(a.names) \in Nat /\ DOMAIN a.names = 1..Len(a.names)
<1>1. a.runs \in 0..1000 /\ a.measure_interval \in Nat
  BY BenchmarkAssumption DEF BenchmarkAssumption
<1>2. a.runs \in Nat /\ a.runs <= 1000
  BY <1>1
<1>3. Len(a.names) \in Nat /\ DOMAIN a.names = 1..Len(a.names)
  BY BenchmarkAssumption, LenProperties DEF BenchmarkAssumption
<1> QED BY <1>1, <1>2, <1>3

LEMMA ControllerIsVm == Controller \in Vms
<1>1. VmNames \in Seq(STRING) /\ VmNames # <<>>
  BY BenchmarkAssumption DEF BenchmarkAssumption
<1>2. 1 \in DOMAIN VmNames
  BY <1>1
<1> QED BY <1>2 DEF Controller, Vms

\* What a VM goes through is a sequence, the controller's after the common one.
SetupFunctions == {"qemu", "virtiofs", "cpu_load_no_kube", "cpu_load_kube", "scaphandre", "sched",
                   "dsb", "wrk_from_dsb"}

LEMMA SetupLength ==
    ASSUME NEW name, NEW v
    PROVE  /\ VmSetup(name) \in Seq(SetupFunctions) /\ ControllerSetup(name) \in Seq(SetupFunctions)
           /\ Setup(name, v) \in Seq(SetupFunctions) /\ Len(Setup(name, v)) \in Nat
<1> DEFINE S == Seq(SetupFunctions)
<1>1. /\ <<>> \in S /\ <<"qemu">> \in S /\ <<"qemu", "virtiofs">> \in S
      /\ <<"qemu", "virtiofs", "cpu_load_no_kube">> \in S
  BY DEF SetupFunctions
<1>2. /\ <<"cpu_load_kube">> \in S /\ <<"scaphandre">> \in S /\ <<"scaphandre", "sched">> \in S
      /\ <<"scaphandre", "dsb">> \in S /\ <<"scaphandre", "sched", "dsb">> \in S
      /\ <<"scaphandre", "dsb", "wrk_from_dsb">> \in S
      /\ <<"scaphandre", "sched", "dsb", "wrk_from_dsb">> \in S
  BY DEF SetupFunctions
<1>3. VmSetup(name) \in S
  <2> HIDE DEF S
  <2> QED BY <1>1, Zenon DEF VmSetup
<1>4. ControllerSetup(name) \in S
  <2> HIDE DEF S
  <2> QED BY <1>1, <1>2, Zenon DEF ControllerSetup
<1>5. Setup(name, v) \in S
  BY <1>1, <1>3, <1>4, ConcatProperties DEF Setup
<1> QED BY <1>3, <1>4, <1>5, LenProperties

\* The file of a run is one of the files.
LEMMA FileType ==
    ASSUME TypeOK, PlaceOK, pc \in Preparing \cup Stopping
    PROVE  File \in Files
<1>1. args \in Arguments /\ exp \in DOMAIN args.names /\ run \in 0 .. args.runs - 1
  BY ArgumentTypes DEF TypeOK, PlaceOK, Preparing, Stopping
<1>2. Name \in Names
  BY <1>1 DEF Name, Names
<1>3. run \in Runs /\ args.measure_interval \in Intervals
  BY <1>1 DEF Runs, Intervals
<1> QED BY <1>2, <1>3 DEF File, Files

-------------------------------------------------------------------------------
(* Types and places *)

LEMMA AsideTypes == TypeOK /\ Aside => TypeOK'
<1> SUFFICES ASSUME TypeOK, Aside PROVE TypeOK'
  OBVIOUS
<1>1. UNCHANGED <<pc, driver, disk>>
  BY AsideFrame
<1>2. /\ done' \in [Vms -> Nat]
      /\ stage' \in [Vms -> Stages]
  BY DEF Aside, OpenSsh, Prompt, OperatorAnswers, RunCommands, Return, VmStops,
         AskKubectl, AskAgain, AllReported, KubectlBegins, ConditionMet, TimedOut, PodAdvances,
         PodDeleted, KillerConnects, KillPods, KillerStops,
         Deploy, setup, TypeOK, Stages
<1>3. pods' \in [Pods -> {"absent", "created", "starting", "ready"}]
  BY DEF Aside, OpenSsh, Prompt, OperatorAnswers, RunCommands, Return, VmStops,
         AskKubectl, AskAgain, AllReported, KubectlBegins, ConditionMet, TimedOut, PodAdvances,
         PodDeleted, KillerConnects, KillPods, KillerStops,
         Deploy, cluster, TypeOK
<1> QED BY <1>1, <1>2, <1>3 DEF TypeOK, Preparing, Stopping, driver, disk

LEMMA ControlTypes == TypeOK /\ PlaceOK /\ Control => TypeOK'
<1> SUFFICES ASSUME TypeOK, PlaceOK, Control PROVE TypeOK'
  OBVIOUS
<1> USE DEF TypeOK, Stages, Preparing, Stopping
<1>1. ASSUME NEW a \in Arguments, Invoke(a) PROVE TypeOK'
  BY <1>1 DEF Invoke, setup, disk, cluster
<1>2. CASE ListRuns \/ Ends \/ NextExperiment \/ SkipRun \/ NextRun
  BY <1>2 DEF ListRuns, Ends, NextExperiment, SkipRun, NextRun, driver, setup, disk, cluster
<1>3. CASE StartRun \/ RunScaphandre \/ StartWrk2 \/ PidsNotValid \/ StopKiller \/ Kill \/ DestroyVms
  BY <1>3 DEF StartRun, RunScaphandre, StartWrk2, PidsNotValid, StopKiller, Kill, DestroyVms,
              driver, setup, disk, cluster
<1>4. CASE SetUp
  BY <1>4 DEF SetUp, Unstarted, driver, disk, cluster
<1>5. CASE OpenMetrics \/ Measured
  <2>1. metrics' \in [Files -> {None, "open", "complete"}]
    BY <1>5 DEF OpenMetrics, Measured
  <2> QED BY <1>5, <2>1 DEF OpenMetrics, Measured, driver, setup, cluster
<1>6. CASE Raise \/ Joined \/ Interrupt
  BY <1>6, ErrorFrame DEF Unstarted, setup, driver, disk, cluster
<1> QED BY <1>1, <1>2, <1>3, <1>4, <1>5, <1>6 DEF Control

LEMMA Places == TypeOK /\ PlaceOK /\ (Aside \/ Control) => PlaceOK'
<1> SUFFICES ASSUME TypeOK, PlaceOK, Aside \/ Control PROVE PlaceOK'
  OBVIOUS
<1> USE DEF PlaceOK, Preparing, Stopping
<1>1. CASE Aside
  BY <1>1, AsideFrame DEF driver
<1>2. ASSUME NEW a \in Arguments, Invoke(a) PROVE PlaceOK'
  BY <1>2 DEF Invoke
<1>3. CASE ListRuns \/ NextExperiment \/ SkipRun \/ NextRun \/ StartRun
  BY <1>3, ArgumentTypes DEF TypeOK, ListRuns, NextExperiment, SkipRun, NextRun, StartRun, driver
<1>4. CASE \/ Ends \/ RunScaphandre \/ SetUp \/ StartWrk2 \/ OpenMetrics \/ PidsNotValid
           \/ Measured \/ StopKiller \/ Kill \/ DestroyVms
  BY <1>4 DEF Ends, RunScaphandre, SetUp, StartWrk2, OpenMetrics, PidsNotValid, Measured,
              StopKiller, Kill, DestroyVms, driver
<1>5. CASE Raise \/ Joined \/ Interrupt
  BY <1>5, ErrorFrame DEF driver
<1> QED BY <1>1, <1>2, <1>3, <1>4, <1>5 DEF Control

-------------------------------------------------------------------------------
(* Files *)

\* The number of a run ends itself, the interval begins itself.
LEMMA OwnName ==
    ASSUME NEW j \in 0..999, NEW n \in Nat
    PROVE  EndsWith(j, j) /\ BeginsWith(n, n)
<1>1. CASE j < 10
  <2>1. j % 10 = j
    BY <1>1
  <2> QED BY <1>1, <2>1 DEF EndsWith, BeginsWith
<1>2. CASE j >= 10 /\ j < 100
  <2>1. j % 100 = j /\ 100 \div 10 = 10
    BY <1>2
  <2> QED BY <1>2, <2>1 DEF EndsWith, BeginsWith
<1>3. CASE j >= 100
  <2>1. j % 1000 = j /\ 1000 \div 10 = 100
    BY <1>3
  <2> QED BY <1>3, <2>1 DEF EndsWith, BeginsWith
<1> QED BY <1>1, <1>2, <1>3

\* A run that is not skipped has no complete file.
LEMMA NotYetMeasured ==
    ASSUME TypeOK, PlaceOK, KeptInv, pc \in Preparing
    PROVE  File \in Files /\ metrics[File] # "complete"
<1>1. File \in Files
  BY FileType
<1>2. args \in Arguments /\ run \in 0..999 /\ args.measure_interval \in Nat
  BY ArgumentTypes DEF TypeOK, PlaceOK, Preparing
<1>3. SUFFICES ASSUME metrics[File] = "complete" PROVE FALSE
  BY <1>1
<1>4. <<run, args.measure_interval>> \in prev
  BY <1>1, <1>2, <1>3 DEF KeptInv, Before, File
<1> QED BY <1>2, <1>4, OwnName DEF KeptInv, AlreadyRan

LEMMA Later == TypeOK /\ Before(run) => Before(run + 1)
BY DEF TypeOK, Before, Files, Runs

\* The steps between the start of a run and its end keep what names the run.
LEMMA FilesKept == TypeOK /\ PlaceOK /\ KeptInv /\ (Aside \/ Control) => KeptInv'
<1> SUFFICES ASSUME TypeOK, PlaceOK, KeptInv, Aside \/ Control PROVE KeptInv'
  OBVIOUS
<1> USE DEF Preparing, Stopping
<1>1. ASSUME UNCHANGED <<args, exp, prev>>
      PROVE  /\ Name' = Name
             /\ run' = run => AlreadyRan' = AlreadyRan
  BY <1>1 DEF Name, AlreadyRan
<1>2. ASSUME UNCHANGED <<driver, metrics>>
      PROVE  /\ Before(run)' <=> Before(run)
             /\ Before(run + 1)' <=> Before(run + 1)
             /\ AlreadyRan' <=> AlreadyRan
  BY <1>1, <1>2 DEF Before, driver
<1>3. CASE Aside
  BY <1>2, <1>3, AsideFrame DEF KeptInv, disk
<1>4. CASE \/ Ends \/ RunScaphandre \/ SetUp \/ StartWrk2 \/ PidsNotValid
           \/ StopKiller \/ Kill \/ DestroyVms \/ StartRun
  <2>1. UNCHANGED <<driver, metrics>>
    BY <1>4 DEF Ends, RunScaphandre, SetUp, StartWrk2, PidsNotValid, StopKiller, Kill,
                DestroyVms, StartRun, disk
  <2>2. CASE Ends \/ RunScaphandre \/ SetUp \/ StartWrk2
    BY <1>2, <2>1, <2>2 DEF KeptInv, Ends, RunScaphandre, SetUp, StartWrk2
  <2>3. CASE PidsNotValid
    BY <1>2, <2>1, <2>3, Later DEF KeptInv, PidsNotValid
  <2>4. CASE StopKiller \/ Kill \/ DestroyVms
    BY <1>2, <2>1, <2>4 DEF KeptInv, StopKiller, Kill, DestroyVms
  <2>5. CASE StartRun
    BY <1>2, <2>1, <2>5 DEF KeptInv, StartRun
  <2> QED BY <1>4, <2>2, <2>3, <2>4, <2>5
<1>5. ASSUME NEW a \in Arguments, Invoke(a) PROVE KeptInv'
  BY <1>5 DEF KeptInv, Invoke
<1>6. CASE NextExperiment \/ Raise \/ Joined \/ Interrupt
  BY <1>6, ErrorFrame DEF KeptInv, NextExperiment
<1>7. CASE ListRuns
  <2>1. pc' = "run" /\ UNCHANGED <<args, exp, metrics>>
        /\ prev' = {<<f[2], f[3]>> :
                      f \in {f \in Files : f[1] = Name /\ (metrics[f] # None \/ f \in metadata)}}
    BY <1>7 DEF ListRuns, disk
  <2>2. Before(run)'
    BY <2>1 DEF Before, Name, None
  <2> QED BY <2>1, <2>2 DEF KeptInv
<1>8. CASE SkipRun \/ NextRun
  <2>1. pc' = "run" /\ run' = run + 1 /\ UNCHANGED <<args, exp, prev, metrics>> /\ run \in Nat
    BY <1>8 DEF SkipRun, NextRun, disk, TypeOK
  <2>2. CASE SkipRun
    <3>1. Before(run + 1)
      BY <2>2, Later DEF SkipRun, KeptInv
    <3> QED BY <1>1, <2>1, <3>1 DEF KeptInv, Before
  <2>3. CASE NextRun
    <3>1. Before(run + 1)
      BY <2>3 DEF NextRun, KeptInv
    <3> QED BY <1>1, <2>1, <3>1 DEF KeptInv, Before
  <2> QED BY <1>8, <2>2, <2>3
<1>9. CASE OpenMetrics
  <2>1. /\ pc = "measure" /\ pc' = "sample" /\ UNCHANGED driver
        /\ metrics' = [metrics EXCEPT ![File] = "open"]
    BY <1>9 DEF OpenMetrics
  <2>2. Before(run)'
    BY <1>1, <2>1 DEF KeptInv, Before, TypeOK, driver
  <2> QED BY <1>1, <2>1, <2>2 DEF KeptInv, driver
<1>10. CASE Measured
  <2>1. /\ pc = "sample" /\ pc' = "stop" /\ UNCHANGED driver
        /\ metrics' = [metrics EXCEPT ![File] = "complete"]
    BY <1>10 DEF Measured
  <2>2. \A f \in Files : f # File => metrics'[f] = metrics[f]
    BY <2>1 DEF TypeOK
  <2>3. ASSUME NEW f \in Files, f[1] = Name, f[3] = args.measure_interval, metrics'[f] = "complete"
        PROVE  f[2] < run + 1 \/ <<f[2], f[3]>> \in prev
    <3>1. CASE f = File
      BY <3>1 DEF File, TypeOK
    <3>2. CASE f # File
      <4>1. f[2] < run \/ <<f[2], f[3]>> \in prev
        BY <2>1, <2>2, <2>3, <3>2 DEF KeptInv, Before
      <4> QED BY <4>1 DEF TypeOK, Files, Runs
    <3> QED BY <3>1, <3>2
  <2>4. Before(run + 1)'
    BY <1>1, <2>1, <2>3 DEF Before, driver
  <2> QED BY <2>1, <2>4 DEF KeptInv
<1> QED BY <1>3, <1>4, <1>5, <1>6, <1>7, <1>8, <1>9, <1>10 DEF Control

-------------------------------------------------------------------------------
(* Processes *)

LEMMA Setups == TypeOK /\ SetupInv /\ (Aside \/ Control) => SetupInv'
<1> SUFFICES ASSUME TypeOK, SetupInv, Aside \/ Control PROVE SetupInv'
  OBVIOUS
<1> USE DEF SetupInv
<1>1. ASSUME UNCHANGED <<args, exp>>
      PROVE  \A v : Setup(Name, v)' = Setup(Name, v)
  BY <1>1 DEF Name
<1>2. ASSUME NEW v \in Vms, OpenSsh(v) \/ Prompt(v) \/ OperatorAnswers(v) \/ RunCommands(v)
      PROVE  SetupInv'
  <2>1. /\ pc = "setup" /\ done[v] < Len(Setup(Name, v)) /\ UNCHANGED <<pc, driver, done>>
        /\ \A w \in Vms : w # v => stage'[w] = stage[w]
    BY <1>2 DEF OpenSsh, Prompt, OperatorAnswers, RunCommands, Turn, TypeOK
  <2> QED BY <1>1, <2>1 DEF driver
<1>3. ASSUME NEW v \in Vms, Return(v) PROVE SetupInv'
  <2>1. /\ pc = "setup" /\ done[v] < Len(Setup(Name, v)) /\ UNCHANGED <<pc, driver>>
        /\ done' = [done EXCEPT ![v] = @ + 1] /\ stage' = [stage EXCEPT ![v] = "call"]
    BY <1>3 DEF Return, Turn
  <2>2. \A w \in Vms : stage'[w] # "call" => w # v /\ stage[w] # "call" /\ done'[w] = done[w]
    BY <2>1 DEF TypeOK
  <2>3. done'[Controller] <= Len(Setup(Name, Controller))
    BY <2>1, ControllerIsVm, SetupLength DEF TypeOK
  <2> QED BY <1>1, <2>1, <2>2, <2>3 DEF driver
<1>4. CASE AskKubectl \/ AskAgain \/ AllReported
  <2>1. /\ pc = "setup" /\ done[Controller] < Len(Setup(Name, Controller))
        /\ UNCHANGED <<pc, driver, done>>
        /\ \A w \in Vms : w # Controller => stage'[w] = stage[w]
    BY <1>4 DEF AskKubectl, AskAgain, AllReported, Reading, Turn, TypeOK
  <2> QED BY <1>1, <2>1 DEF driver
<1>5. ASSUME UNCHANGED <<pc, driver, done, stage>> PROVE SetupInv'
  BY <1>1, <1>5 DEF driver
<1>6. CASE \/ \E v \in Vms : VmStops(v)
           \/ KubectlBegins \/ \E p \in Pods : ConditionMet(p) \/ TimedOut(p)
           \/ \E p \in Pods : PodAdvances(p) \/ PodDeleted(p)
           \/ KillerConnects \/ (\E running \in SUBSET Made : KillPods(running) \/ KillerStops(running))
           \/ Deploy
  BY <1>5, <1>6 DEF VmStops, KubectlBegins, ConditionMet, TimedOut, PodAdvances, PodDeleted,
                    KillerConnects, KillPods, KillerStops, Deploy, setup
<1>7. CASE Aside
  BY <1>2, <1>3, <1>4, <1>6, <1>7 DEF Aside
<1>8. ASSUME \A v \in Vms : done'[v] = 0 /\ stage'[v] = "call" PROVE SetupInv'
  BY <1>8, ControllerIsVm, SetupLength
<1>9. CASE SetUp \/ Raise \/ Joined \/ Interrupt
  <2>1. Unstarted \/ (pc = "join" /\ UNCHANGED setup)
    BY <1>9, ErrorFrame DEF SetUp
  <2> QED BY <1>8, <2>1 DEF Unstarted, setup
<1>10. CASE \/ \E a \in Arguments : Invoke(a)
            \/ ListRuns \/ Ends \/ NextExperiment \/ SkipRun \/ StartRun \/ RunScaphandre
            \/ StartWrk2 \/ OpenMetrics \/ PidsNotValid \/ Measured
            \/ StopKiller \/ Kill \/ DestroyVms \/ NextRun
  <2>1. pc # "setup" /\ UNCHANGED <<done, stage>>
    BY <1>10 DEF Invoke, ListRuns, Ends, NextExperiment, SkipRun, StartRun, RunScaphandre,
                 StartWrk2, OpenMetrics, PidsNotValid, Measured, StopKiller, Kill, DestroyVms,
                 NextRun, setup
  <2> QED BY <1>8, <2>1
<1> QED BY <1>7, <1>9, <1>10 DEF Control

LEMMA ProcessOf ==
    /\ \A what, vm : Process(what, vm).of = Current /\ Process(what, vm).what = what
    /\ HostScaphandre.of = Current
BY DEF Process, HostScaphandre, Current

\* What is left over stays so.
LEMMA LeftoverKept ==
    ASSUME refused \subseteq refused', NEW p, Leftover(p)
    PROVE  Leftover(p)'
BY DEF Leftover

\* What names the processes of a run.
LEMMA SameNames ==
    ASSUME UNCHANGED driver
    PROVE  /\ Name' = Name /\ Current' = Current /\ HostScaphandre' = HostScaphandre
           /\ \A v \in Vms : done'[v] = done[v] => Process(Function(v), v)' = Process(Function(v), v)
BY DEF driver, Name, Current, HostScaphandre, Process, Function

\* A function that runs goes on running, and no other one starts; a process that
\* starts meanwhile is one that is left over.
LEMMA SameFunctions ==
    ASSUME ProcsInv, UNCHANGED <<pc, driver, done, pids, refused>>,
           \A p \in procs' : p \in procs \/ Leftover(p),
           \A v \in Vms : stage[v] # "call" => stage'[v] # "call",
           killer' = None \/ killer # None
    PROVE  ProcsInv'
<1>1. \A p : Leftover(p)' <=> Leftover(p)
  BY DEF Leftover
<1>2. /\ HostScaphandre' = HostScaphandre /\ Current' = Current
      /\ \A v \in Vms : Process(Function(v), v)' = Process(Function(v), v)
  BY SameNames
<1> HIDE DEF Leftover
<1> QED BY <1>1, <1>2 DEF ProcsInv

LEMMA AsideProcs == TypeOK /\ ProcsInv /\ Aside => ProcsInv'
<1> SUFFICES ASSUME TypeOK, ProcsInv, Aside PROVE ProcsInv'
  OBVIOUS
<1>1. UNCHANGED <<pc, driver>>
  BY AsideFrame
<1>2. CASE \/ \E v \in Vms : VmStops(v)
           \/ KubectlBegins \/ \E p \in Pods : ConditionMet(p) \/ TimedOut(p)
           \/ \E p \in Pods : PodAdvances(p) \/ PodDeleted(p)
           \/ (\E running \in SUBSET Made : KillPods(running) \/ KillerStops(running))
           \/ Deploy
  <2>1. UNCHANGED <<done, stage, procs, pids, refused>> /\ (killer' = killer \/ killer = "running")
    BY <1>2 DEF VmStops, KubectlBegins, ConditionMet, TimedOut, PodAdvances, PodDeleted,
                KillPods, KillerStops, Lists, Deploy, setup, processes
  <2> QED BY <1>1, <2>1, SameFunctions DEF None
<1>3. CASE \/ \E v \in Vms : Prompt(v) \/ OperatorAnswers(v) \/ RunCommands(v)
           \/ AskKubectl \/ AskAgain \/ AllReported
  <2>1. UNCHANGED <<done, procs, pids, killer, refused>>
    BY <1>3 DEF Prompt, OperatorAnswers, RunCommands, AskKubectl, AskAgain, AllReported, processes
  <2>2. \A v \in Vms : stage[v] # "call" => stage'[v] # "call"
    BY <1>3 DEF Prompt, OperatorAnswers, RunCommands, AskKubectl, AskAgain, AllReported, TypeOK
  <2> QED BY <1>1, <2>1, <2>2, SameFunctions
<1>4. CASE KillerConnects
  <2>1. /\ killer = "started" /\ procs' = procs \cup {Process("killer", Controller)}
        /\ UNCHANGED <<done, stage, pids, refused>>
    BY <1>4 DEF KillerConnects, setup
  <2>2. Leftover(Process("killer", Controller))
    BY ProcessOf DEF Leftover
  <2> QED BY <1>1, <2>1, <2>2, SameFunctions DEF None
<1>5. ASSUME NEW v \in Vms, OpenSsh(v) PROVE ProcsInv'
  <2> DEFINE new == Process(Function(v), v)
  <2>1. /\ pc = "setup" /\ stage[v] = "call" /\ procs' = procs \cup {new}
        /\ stage' = [stage EXCEPT ![v] = "commands"] /\ UNCHANGED <<done, pids, killer, refused>>
    BY <1>5 DEF OpenSsh, Turn
  <2>2. /\ HostScaphandre' = HostScaphandre /\ Current' = Current
        /\ \A w \in Vms : Process(Function(w), w)' = Process(Function(w), w)
    BY <1>1, <2>1, SameNames
  <2>3. \A w \in Vms : w = v \/ stage[w] # "call" => stage'[w] # "call"
    BY <2>1 DEF TypeOK
  <2>4. \A p : Leftover(p)' <=> Leftover(p)
    BY <2>1 DEF Leftover
  <2> HIDE DEF new
  <2>5. \A p \in procs' : \/ Leftover(p)' \/ p = HostScaphandre' \/ p \in pids'
                          \/ \E w \in Vms : stage'[w] # "call" /\ p = Process(Function(w), w)'
    <3>1. ASSUME NEW p \in procs
          PROVE  \/ Leftover(p)' \/ p = HostScaphandre' \/ p \in pids'
                 \/ \E w \in Vms : stage'[w] # "call" /\ p = Process(Function(w), w)'
      BY <2>1, <2>2, <2>3, <2>4, <3>1 DEF ProcsInv
    <3>2. new = Process(Function(v), v)'
      BY <2>2 DEF new
    <3> QED BY <2>1, <2>3, <3>1, <3>2
  <2> QED BY <1>1, <2>1, <2>2, <2>5 DEF ProcsInv, Preparing, Stopping
<1>6. ASSUME NEW v \in Vms, Return(v) PROVE ProcsInv'
  <2> DEFINE old == Process(Function(v), v)
  <2>1. /\ pc = "setup" /\ UNCHANGED <<killer, refused>>
        /\ done' = [done EXCEPT ![v] = @ + 1] /\ stage' = [stage EXCEPT ![v] = "call"]
        /\ \/ pids' = pids \cup {old} /\ procs' = procs
           \/ pids' = pids /\ procs' = procs \ {old}
    BY <1>6 DEF Return, Turn
  <2>2. HostScaphandre' = HostScaphandre /\ Current' = Current
    BY <1>1, SameNames
  <2>3. \A w \in Vms : w # v => /\ stage'[w] = stage[w]
                                /\ Process(Function(w), w)' = Process(Function(w), w)
    BY <1>1, <2>1, SameNames DEF TypeOK
  <2>4. \A p : Leftover(p)' <=> Leftover(p)
    BY <2>1 DEF Leftover
  <2>5. \A p \in pids' : p.of = Current
    BY <2>1, ProcessOf DEF ProcsInv, Preparing
  <2>6. /\ pids \subseteq pids' /\ procs' \subseteq procs
        /\ \A p \in procs' : p = old => old \in pids'
    BY <2>1
  <2>7. ASSUME NEW p \in procs'
        PROVE  \/ Leftover(p)' \/ p = HostScaphandre' \/ p \in pids'
               \/ \E w \in Vms : stage'[w] # "call" /\ p = Process(Function(w), w)'
    <3>1. \/ Leftover(p) \/ p = HostScaphandre \/ p \in pids
          \/ \E w \in Vms : stage[w] # "call" /\ p = Process(Function(w), w)
      BY <2>1, <2>6 DEF ProcsInv
    <3> QED BY <2>2, <2>3, <2>4, <2>6, <3>1
  <2> QED BY <1>1, <2>1, <2>2, <2>5, <2>7 DEF ProcsInv, Preparing, Stopping
<1> QED BY <1>2, <1>3, <1>4, <1>5, <1>6 DEF Aside

LEMMA ControlProcs == TypeOK /\ SetupInv /\ ProcsInv /\ Control => ProcsInv'
<1> SUFFICES ASSUME TypeOK, SetupInv, ProcsInv, Control PROVE ProcsInv'
  OBVIOUS
<1> USE DEF Preparing, Stopping
<1>1. ASSUME UNCHANGED refused PROVE \A p : Leftover(p)' <=> Leftover(p)
  BY <1>1 DEF Leftover
<1>2. ASSUME UNCHANGED driver PROVE UNCHANGED <<Current, HostScaphandre>>
  BY <1>2, SameNames
<1>3. ASSUME NEW a \in Arguments, Invoke(a) PROVE ProcsInv'
  BY <1>3 DEF Invoke, ProcsInv
<1>4. CASE ListRuns \/ Ends \/ NextExperiment \/ SkipRun \/ NextRun
  <2>1. /\ pc \in {"experiment", "run", "next"} /\ pc' \in {"experiment", "run", "ended"}
        /\ UNCHANGED <<procs, killer, refused>>
    BY <1>4 DEF ListRuns, Ends, NextExperiment, SkipRun, NextRun, processes
  <2> QED BY <1>1, <2>1 DEF ProcsInv
<1>5. CASE StartRun
  BY <1>1, <1>2, <1>5 DEF StartRun, ProcsInv, processes
<1>6. CASE RunScaphandre
  <2>1. /\ pc = "scaphandre" /\ pc' = "setup" /\ procs' = procs \cup {HostScaphandre}
        /\ UNCHANGED <<driver, pids, killer, refused>>
    BY <1>6 DEF RunScaphandre
  <2>2. \A p \in procs' : Leftover(p)' \/ p = HostScaphandre'
    BY <1>1, <1>2, <2>1 DEF ProcsInv
  <2> QED BY <1>2, <2>1, <2>2 DEF ProcsInv
<1>7. CASE SetUp
  <2>1. /\ pc = "setup" /\ pc' = "wrk" /\ UNCHANGED <<driver, procs, pids, killer, refused>>
        /\ \A v \in Vms : done[v] = Len(Setup(Name, v))
    BY <1>7 DEF SetUp, processes
  <2>2. \A v \in Vms : stage[v] = "call"
    BY <2>1, SetupLength DEF SetupInv
  <2>3. \A p \in procs : Leftover(p) \/ p = HostScaphandre \/ p \in pids
    BY <2>1, <2>2 DEF ProcsInv
  <2> QED BY <1>1, <1>2, <2>1, <2>3 DEF ProcsInv
<1>8. CASE StartWrk2
  <2> DEFINE new == Process("wrk2", Controller)
  <2>1. /\ pc = "wrk" /\ pc' = "measure" /\ UNCHANGED <<driver, refused>>
        /\ procs' = procs \cup {new} /\ pids' = pids \cup {new}
    BY <1>8 DEF StartWrk2
  <2>2. new.of = Current
    BY ProcessOf
  <2> HIDE DEF new
  <2>3. \A p \in procs' : Leftover(p)' \/ p = HostScaphandre' \/ p \in pids'
    BY <1>1, <1>2, <2>1 DEF ProcsInv
  <2>4. \A p \in pids' : p.of = Current
    BY <2>1, <2>2 DEF ProcsInv
  <2> QED BY <1>2, <2>1, <2>3, <2>4 DEF ProcsInv
<1>9. CASE OpenMetrics \/ PidsNotValid \/ Measured \/ StopKiller
  <2>1. /\ pc \in {"measure", "sample", "stop"} /\ pc' \in {"sample", "stop", "kill"}
        /\ UNCHANGED <<driver, procs, pids, refused>> /\ (pc' = "kill" => killer' = None)
    BY <1>9 DEF OpenMetrics, PidsNotValid, Measured, StopKiller, processes
  <2> QED BY <1>1, <1>2, <2>1 DEF ProcsInv
<1>10. CASE Kill
  <2>1. /\ pc = "kill" /\ pc' \in {"next", "destroy"} /\ pids' = {} /\ UNCHANGED <<driver, killer>>
    BY <1>10 DEF Kill
  <2>2. PICK stays \in SUBSET {HostScaphandre} :
            /\ procs' = procs \ (({HostScaphandre} \cup pids) \ stays)
            /\ refused' = refused \cup stays
    BY <1>10 DEF Kill
  <2>3. ASSUME NEW p \in procs' PROVE Leftover(p)'
    <3>1. p \in procs /\ (p \in stays \/ (p # HostScaphandre /\ p \notin pids))
      BY <2>2
    <3>2. CASE p \in stays
      BY <2>2, <3>2 DEF Leftover
    <3>3. CASE p # HostScaphandre /\ p \notin pids
      <4>1. Leftover(p)
        BY <2>1, <3>1, <3>3 DEF ProcsInv
      <4> QED BY <2>2, <4>1, LeftoverKept
    <3> QED BY <3>1, <3>2, <3>3
  <2> QED BY <1>2, <2>1, <2>3 DEF ProcsInv
<1>11. CASE DestroyVms
  BY <1>1, <1>2, <1>11 DEF DestroyVms, ProcsInv, processes
<1>12. CASE Raise \/ Joined \/ Interrupt
  BY <1>12, ErrorFrame DEF ProcsInv
<1> QED BY <1>3, <1>4, <1>5, <1>6, <1>7, <1>8, <1>9, <1>10, <1>11, <1>12 DEF Control

-------------------------------------------------------------------------------
(* Pods *)

\* Nothing but the start of a run and a deployment makes a pod one that was not reached.
LEMMA ReachedKept ==
    ASSUME TypeOK, Aside, pc # "ended", NEW name, Reached(name)
    PROVE  Reached(name)'
<1> PICK p \in PodsOf({name}) : pods[p] = "ready" \/ p \in hit
  BY DEF Reached
<1>p. p \in Pods
  BY DEF PodsOf
<1> SUFFICES pods'[p] = "ready" \/ p \in hit'
  BY DEF Reached
<1>1. CASE \E v \in Vms : RunCommands(v)
  BY <1>1, <1>p DEF RunCommands
<1>2. CASE \E q \in Pods : PodAdvances(q) \/ PodDeleted(q)
  BY <1>2, <1>p DEF PodAdvances, PodDeleted, TypeOK
<1>3. CASE \/ \E v \in Vms : \/ OpenSsh(v) \/ Prompt(v) \/ OperatorAnswers(v) \/ Return(v)
                             \/ VmStops(v)
           \/ AskKubectl \/ AskAgain \/ AllReported
           \/ KubectlBegins \/ \E q \in Pods : ConditionMet(q) \/ TimedOut(q)
           \/ KillerConnects \/ \E running \in SUBSET Made : KillPods(running) \/ KillerStops(running)
  <2>1. UNCHANGED <<pods, hit>>
    BY <1>3 DEF OpenSsh, Prompt, OperatorAnswers, Return, VmStops, AskKubectl,
                AskAgain, AllReported, KubectlBegins,
                ConditionMet, TimedOut, KillerConnects, KillPods, KillerStops, cluster
  <2> QED BY <2>1
<1> QED BY <1>1, <1>2, <1>3 DEF Aside, Deploy

\* What a function of the controller awaits, and how far that is, while the
\* driver stays in the setup.
LEMMA AsideReady == TypeOK /\ SetupInv /\ ReadyInv /\ Aside => ReadyInv'
<1> SUFFICES ASSUME TypeOK, SetupInv, ReadyInv, Aside PROVE ReadyInv'
  OBVIOUS
<1> DEFINE functions == Setup(Name, Controller)
           c == Controller
<1>1. UNCHANGED <<pc, args, exp>> /\ Name' = Name /\ functions' = functions
  BY AsideFrame DEF driver, Name
<1>2. CASE pc \notin {"setup", "wrk", "measure"}
  BY <1>1, <1>2 DEF ReadyInv
<1>3. ASSUME pc \in {"setup", "wrk", "measure"}
      PROVE  \A p : Reached(p) => Reached(p)'
  BY <1>3, ReachedKept
<1>4. CASE pc \in {"wrk", "measure"}
  BY <1>1, <1>3, <1>4 DEF ReadyInv
<1>5. CASE pc = "setup"
  <2>1. c \in Vms /\ done[c] \in Nat
    BY ControllerIsVm DEF TypeOK
  <2> DEFINE now == functions[done[c] + 1]
  <2>2. Function(c) = now
    BY DEF Function
  <2>3. /\ \A k \in 1..done[c] : \A p \in Awaited(functions[k]) : Reached(p)'
        /\ stage[c] \in {"ask", "read"} => \A p \in Awaited(now) \ remaining : Reached(p)'
        /\ stage[c] = "return" => \A p \in Awaited(now) : Reached(p)'
    BY <1>3, <1>5, <2>2 DEF ReadyInv
  <2> SUFFICES
        /\ \A k \in 1..done'[c] : \A p \in Awaited(functions[k]) : Reached(p)'
        /\ stage'[c] \in {"ask", "read"} =>
              \A p \in Awaited(functions[done'[c] + 1]) \ remaining' : Reached(p)'
        /\ stage'[c] = "return" => \A p \in Awaited(functions[done'[c] + 1]) : Reached(p)'
    BY <1>1, <1>5 DEF ReadyInv, Function
  <2> HIDE DEF functions, c, now
  <2>4. CASE /\ UNCHANGED <<done, remaining>>
             /\ stage'[c] \in {stage[c], "call", "commands", "prompt", "answered"}
    BY <2>3, <2>4 DEF now
  <2>5. CASE \/ \E v \in Vms : VmStops(v)
             \/ KubectlBegins \/ \E p \in Pods : TimedOut(p)
             \/ \E p \in Pods : PodAdvances(p) \/ PodDeleted(p)
             \/ KillerConnects \/ (\E running \in SUBSET Made : KillPods(running) \/ KillerStops(running))
             \/ Deploy
    <3>1. UNCHANGED setup
      BY <2>5 DEF VmStops, KubectlBegins, TimedOut, PodAdvances, PodDeleted, KillerConnects,
                  KillPods, KillerStops, Deploy
    <3> QED BY <2>4, <3>1 DEF setup
  <2>6. ASSUME NEW v \in Vms, OpenSsh(v) \/ Prompt(v) \/ OperatorAnswers(v)
        PROVE  stage'[c] \in {stage[c], "commands", "prompt", "answered"}
    BY <2>1, <2>6 DEF OpenSsh, Prompt, OperatorAnswers, TypeOK
  <2>7. ASSUME NEW v \in Vms, OpenSsh(v) \/ Prompt(v) \/ OperatorAnswers(v)
        PROVE  UNCHANGED <<done, remaining>>
    BY <2>7 DEF OpenSsh, Prompt, OperatorAnswers
  <2>8. ASSUME NEW v \in Vms, v # c, RunCommands(v)
        PROVE  UNCHANGED <<done, remaining>> /\ stage'[c] = stage[c]
    BY <2>1, <2>8 DEF RunCommands, TypeOK, c
  <2>9. CASE RunCommands(c)
    <3>1. /\ remaining' = Awaited(now) /\ done' = done
          /\ stage'[c] = IF Awaited(now) = {} THEN "return" ELSE "ask"
      BY <2>1, <2>2, <2>9 DEF RunCommands, TypeOK, c
    <3> QED BY <2>3, <3>1 DEF now
  <2>10. CASE AskKubectl \/ AskAgain
    <3>1. /\ stage[c] \in {"ask", "read"} /\ stage'[c] \in {"ask", "read"}
          /\ UNCHANGED <<done, remaining>>
      BY <2>1, <2>10 DEF AskKubectl, AskAgain, Reading, TypeOK, c
    <3> QED BY <2>3, <3>1 DEF now
  <2>11. CASE AllReported
    <3>1. stage[c] = "read" /\ stage'[c] = "return" /\ remaining = {} /\ done' = done
      BY <2>1, <2>11 DEF AllReported, Reading, TypeOK, c
    <3> QED BY <2>3, <3>1 DEF now
  <2>12. ASSUME NEW p \in Pods, ConditionMet(p)
         PROVE  /\ Reached(p[1])' /\ remaining' = remaining \ {p[1]} /\ UNCHANGED <<done, stage>>
    BY <2>12 DEF ConditionMet, Reached, PodsOf, cluster
  <2>13. CASE \E p \in Pods : ConditionMet(p)
    BY <2>3, <2>12, <2>13 DEF now
  <2>14. ASSUME NEW v \in Vms, v # c, Return(v)
         PROVE  remaining' = remaining /\ done'[c] = done[c] /\ stage'[c] = stage[c]
    BY <2>1, <2>14 DEF Return, TypeOK
  <2>15. CASE \E v \in Vms : v # c /\ Return(v)
    BY <2>3, <2>14, <2>15 DEF now
  <2>16. CASE Return(c)
    <3>1. stage[c] = "return" /\ stage'[c] = "call" /\ done'[c] = done[c] + 1
      BY <2>1, <2>16 DEF Return, TypeOK
    <3>2. \A k \in 1..(done[c] + 1) : \A p \in Awaited(functions[k]) : Reached(p)'
      BY <2>1, <2>3, <3>1 DEF now
    <3> QED BY <3>1, <3>2
  <2> QED BY <2>4, <2>5, <2>6, <2>7, <2>8, <2>9, <2>10, <2>11, <2>13, <2>15, <2>16 DEF Aside
<1> QED BY <1>2, <1>4, <1>5

\* The functions of the controller are the last of what it goes through.
LEMMA ControllerLast ==
    ASSUME NEW n \in DOMAIN ControllerSetup(Name)
    PROVE  \E k \in 1..Len(Setup(Name, Controller)) :
               Setup(Name, Controller)[k] = ControllerSetup(Name)[n]
<1> DEFINE a == VmSetup(Name)
           b == ControllerSetup(Name)
<1>1. a \in Seq(SetupFunctions) /\ b \in Seq(SetupFunctions)
  BY SetupLength
<1>2. Setup(Name, Controller) = a \o b
  BY DEF Setup
<1> HIDE DEF a, b
<1>3. Len(a) \in Nat /\ Len(b) \in Nat /\ DOMAIN b = 1..Len(b)
  BY <1>1, LenProperties
<1>4. n \in 1..Len(b)
  BY <1>3 DEF b
<1>5. /\ Len(a \o b) = Len(a) + Len(b)
      /\ \A i \in 1 .. Len(a) + Len(b) : (a \o b)[i] = IF i <= Len(a) THEN a[i] ELSE b[i - Len(a)]
  BY <1>1, ConcatProperties
<1>6. Len(a) + n \in 1 .. Len(a) + Len(b) /\ ~(Len(a) + n <= Len(a)) /\ (Len(a) + n) - Len(a) = n
  BY <1>3, <1>4
<1>7. (a \o b)[Len(a) + n] = b[n]
  BY <1>5, <1>6
<1> QED BY <1>2, <1>5, <1>6, <1>7 DEF b

LEMMA ControlReady == TypeOK /\ SetupInv /\ ReadyInv /\ Control => ReadyInv'
<1> SUFFICES ASSUME TypeOK, SetupInv, ReadyInv, Control PROVE ReadyInv'
  OBVIOUS
<1>1. CASE pc' \notin {"setup", "wrk", "measure"}
  BY <1>1 DEF ReadyInv
<1>2. CASE RunScaphandre
  <2>1. pc = "scaphandre" /\ pc' = "setup" /\ UNCHANGED <<done, stage>>
    BY <1>2 DEF RunScaphandre, setup
  <2>2. done'[Controller] = 0 /\ stage'[Controller] = "call"
    BY <2>1, ControllerIsVm DEF SetupInv
  <2> QED BY <2>1, <2>2 DEF ReadyInv
<1>3. CASE SetUp
  <2>1. /\ pc = "setup" /\ pc' = "wrk" /\ UNCHANGED <<args, exp, pods, hit>>
        /\ done[Controller] = Len(Setup(Name, Controller))
    BY <1>3, ControllerIsVm DEF SetUp, driver, cluster
  <2>2. \A n \in DOMAIN ControllerSetup(Name) :
            \A p \in Awaited(ControllerSetup(Name)[n]) : Reached(p)
    BY <2>1, ControllerLast DEF ReadyInv
  <2>3. \A p \in AwaitedBy(Name) : Reached(p)
    BY <2>2 DEF AwaitedBy
  <2>4. AwaitedBy(Name)' = AwaitedBy(Name) /\ \A p : Reached(p)' = Reached(p)
    BY <2>1 DEF Name, Reached
  <2> QED BY <2>1, <2>3, <2>4 DEF ReadyInv
<1>4. CASE StartWrk2
  <2>1. pc = "wrk" /\ pc' = "measure" /\ UNCHANGED <<args, exp, pods, hit>>
    BY <1>4 DEF StartWrk2, driver, cluster
  <2>2. AwaitedBy(Name)' = AwaitedBy(Name) /\ \A p : Reached(p)' = Reached(p)
    BY <2>1 DEF Name, Reached
  <2> QED BY <2>1, <2>2 DEF ReadyInv
<1>5. CASE \/ \E a \in Arguments : Invoke(a)
           \/ ListRuns \/ Ends \/ NextExperiment \/ SkipRun \/ StartRun
           \/ OpenMetrics \/ PidsNotValid \/ Measured
           \/ StopKiller \/ Kill \/ DestroyVms \/ NextRun
  BY <1>1, <1>5 DEF Invoke, ListRuns, Ends, NextExperiment, SkipRun, StartRun, OpenMetrics,
                    PidsNotValid, Measured, StopKiller, Kill, DestroyVms, NextRun
<1>6. CASE Raise \/ Joined \/ Interrupt
  BY <1>1, <1>6, ErrorFrame
<1> QED BY <1>2, <1>3, <1>4, <1>5, <1>6 DEF Control

-------------------------------------------------------------------------------
(* The inductive invariant *)

IInv == TypeOK /\ PlaceOK /\ KeptInv /\ SetupInv /\ ProcsInv /\ ReadyInv

\* Before the first invocation there is nothing.
THEOREM InitIInv == Init => IInv
<1> SUFFICES ASSUME Init PROVE IInv
  OBVIOUS
<1>1. \A v \in Vms : Len(Setup(Name, v)) \in Nat
  BY SetupLength
<1>2. TypeOK
  BY DEF Init, TypeOK, Stages, None
<1>3. PlaceOK /\ KeptInv /\ ReadyInv
  BY DEF Init, PlaceOK, KeptInv, ReadyInv, Preparing, Stopping
<1>4. SetupInv
  BY <1>1 DEF Init, SetupInv
<1>5. ProcsInv
  BY DEF Init, ProcsInv, Preparing, Stopping
<1> QED BY <1>2, <1>3, <1>4, <1>5 DEF IInv

\* Every step of the driver, its cluster, its operator and its faults keeps it.
THEOREM NextIInv == IInv /\ [Next]_vars => IInv'
<1>1. ASSUME IInv, Next PROVE IInv'
  <2>1. Aside \/ Control
    BY <1>1, Steps
  <2>2. TypeOK'
    BY <1>1, <2>1, AsideTypes, ControlTypes DEF IInv
  <2>3. PlaceOK' /\ KeptInv' /\ SetupInv'
    BY <1>1, <2>1, Places, FilesKept, Setups DEF IInv
  <2>4. ProcsInv'
    BY <1>1, <2>1, AsideProcs, ControlProcs DEF IInv
  <2>5. ReadyInv'
    BY <1>1, <2>1, AsideReady, ControlReady DEF IInv
  <2> QED BY <2>2, <2>3, <2>4, <2>5 DEF IInv
<1>2. ASSUME IInv, UNCHANGED vars PROVE IInv'
  <2> USE <1>2 DEF vars, driver, setup, disk, shell, processes, cluster
  <2>1. TypeOK' /\ PlaceOK'
    BY DEF IInv, TypeOK, PlaceOK
  <2>2. KeptInv'
    BY DEF IInv, KeptInv, Before, Name, AlreadyRan
  <2>3. SetupInv'
    BY DEF IInv, SetupInv, Name
  <2>4. ProcsInv'
    BY DEF IInv, ProcsInv, Leftover, Current, Process, HostScaphandre, Function, Name
  <2>5. ReadyInv'
    BY DEF IInv, ReadyInv, Reached, Function, Name, AwaitedBy
  <2> QED BY <2>1, <2>2, <2>3, <2>4, <2>5 DEF IInv
<1> QED BY <1>1, <1>2

\* So it holds in every state of the driver.
THEOREM SpecIInv == Spec => []IInv
BY InitIInv, NextIInv, PTL DEF Spec

-------------------------------------------------------------------------------
\* Every variable of the driver, its files and its cluster keeps its type, for
\* command lines with at most a thousand runs (energy_metrics.py:763-1010).
THEOREM TypeCorrect == Spec => []TypeOK
<1>1. IInv => TypeOK
  BY DEF IInv
<1> QED BY <1>1, SpecIInv, PTL

\* What has been measured to the end is never opened for writing again: a run
\* whose file is complete was listed in prev_runs or comes after it, and its name
\* holds its own number and interval (energy_metrics.py:878-889).
THEOREM MetricsAreAlwaysKept == Spec => MetricsAreKept
<1> DEFINE Kept == \A f \in Files : metrics[f] = "complete" => metrics'[f] = "complete"
<1>1. ASSUME IInv, Next PROVE Kept
  <2> USE DEF Preparing, Stopping
  <2>1. CASE Aside
    BY <2>1, AsideFrame DEF disk
  <2>2. CASE OpenMetrics
    <3>1. pc = "measure" /\ metrics' = [metrics EXCEPT ![File] = "open"]
      BY <2>2 DEF OpenMetrics
    <3>2. metrics[File] # "complete"
      BY <1>1, <3>1, NotYetMeasured DEF IInv
    <3> QED BY <1>1, <3>1, <3>2 DEF IInv, TypeOK
  <2>3. CASE Measured
    BY <1>1, <2>3 DEF Measured, IInv, TypeOK
  <2>4. CASE \/ \E a \in Arguments : Invoke(a)
             \/ ListRuns \/ Ends \/ NextExperiment \/ SkipRun \/ StartRun \/ RunScaphandre
             \/ SetUp \/ StartWrk2 \/ PidsNotValid
             \/ StopKiller \/ Kill \/ DestroyVms \/ NextRun
    BY <2>4 DEF Invoke, ListRuns, Ends, NextExperiment, SkipRun, StartRun, RunScaphandre,
                SetUp, StartWrk2, PidsNotValid, StopKiller, Kill, DestroyVms, NextRun, disk
  <2>5. CASE Raise \/ Joined \/ Interrupt
    BY <2>5, ErrorFrame DEF disk
  <2> QED BY <1>1, <2>1, <2>2, <2>3, <2>4, <2>5, Steps DEF Control
<1>2. IInv /\ [Next]_vars => [Kept]_vars
  BY <1>1
<1> QED BY <1>2, SpecIInv, PTL DEF Spec, MetricsAreKept

\* What a run leaves to the next one has refused to end, or is the ssh of a pod
\* killer: the driver's list of what it is to kill is complete otherwise
\* (energy_metrics.py:930-960).
THEOREM OnlyRefusedAlwaysRemain == Spec => []OnlyRefusedRemain
<1>1. IInv => OnlyRefusedRemain
  <2> SUFFICES ASSUME IInv PROVE OnlyRefusedRemain
    OBVIOUS
  <2>1. ASSUME pc \in Preparing, NEW p \in procs PROVE Leftover(p) \/ p.of = Current
    <3>1. \A v \in Vms : Process(Function(v), v).of = Current
      BY ProcessOf
    <3>2. HostScaphandre.of = Current /\ \A q \in pids : q.of = Current
      BY <2>1, ProcessOf DEF IInv, ProcsInv
    <3> QED BY <2>1, <3>1, <3>2 DEF IInv, ProcsInv, Preparing
  <2>2. \A p \in procs : pc \in {"destroy", "next", "experiment", "run"} => Leftover(p)
    BY DEF IInv, ProcsInv
  <2>3. pc \in {"experiment", "run", "scaphandre", "setup", "wrk", "kill", "destroy", "next"} => killer = None
    BY DEF IInv, ProcsInv
  <2> QED BY <2>1, <2>2, <2>3 DEF OnlyRefusedRemain, Leftover, Current, Preparing
<1> QED BY <1>1, SpecIInv, PTL

\* Whatever pods, time-outs and repeated commands there are, the measurement
\* starts when a pod of each name awaited was ready (energy_metrics.py:301-357).
THEOREM StackIsAlwaysReady == Spec => []StackIsReady
<1>1. IInv => StackIsReady
  BY DEF IInv, ReadyInv, StackIsReady, Reached
<1> QED BY <1>1, SpecIInv, PTL
===============================================================================
