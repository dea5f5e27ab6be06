-------------------------------- MODULE Reruns --------------------------------
(***************************************************************************)
(* What runs of Continuum leave behind for the next one, and the scripts   *)
(* that start them one after the other (replicate_paper.py with --resume,  *)
(* replicate_kubecontrol.py with -r).  VMs go on running, images stay on   *)
(* the disks of the hosts, the log of every run stays in logs/.  A run may *)
(* end anywhere, by sys.exit, which leaves nothing on stderr, or by an     *)
(* exception or a signal, which ends the script too.                       *)
(*                                                                         *)
(* A configuration is the result of its placement, the VMs per host, and a *)
(* Kubernetes version; all VMs are of the cloud tier.  Logs are known by   *)
(* their numbers, in the order of the times in their names.                *)
(***************************************************************************)
EXTENDS Naturals, Sequences, FiniteSets, SequencesExt, FiniteSetsExt, Orders

CONSTANTS
    Hosts,           \* the physical machines, 1 is the local one
    Experiments,     \* the configurations of replicate_paper's runs, in order
    MicroBenchmarks, \* the sequences of configurations for replicate_kubecontrol
    ByHand,          \* the configurations the operator runs without a script
    MaxScripts, MaxUpstream, MaxFaults

Used == ToSet(Experiments) \cup ByHand \cup UNION {ToSet(s) : s \in MicroBenchmarks}

ASSUME RerunsAssumption ==
    /\ IsFiniteSet(Hosts) /\ Hosts = 1..Cardinality(Hosts)
    /\ Experiments \in Seq(ToSet(Experiments))
    /\ \A c \in Used : c.vms \in [Hosts -> Nat] /\ \E h \in Hosts : c.vms[h] > 0

VARIABLES
    script, list, at, \* the script, its runs, and the position of the next one
    output,           \* run["output"]: the number of the log it was read from, or 0
    pc, config,       \* the run of Continuum
    domains,          \* the VMs that run
    os, images,       \* the OS image and the base images of a host
    joinFile, joined, \* the run whose token is in join-command.txt, which workers used
    logs,             \* logs/
    series, foreign,  \* the first log of replicate_paper, and whether others came after it
    since,            \* what has happened since there were no images
    upstream, scripts, faults

scripting == <<script, list, at, output, scripts>>
past == <<logs, series, foreign>>
join == <<joinFile, joined>>
disks == <<os, images, since>>
limits == <<upstream, faults>>
vars == <<scripting, pc, config, domains, disks, join, past, limits>>

-----------------------------------------------------------------------------
None == "none"
Absent == [state |-> "absent"]
Fresh == [first |-> {}, versions |-> {}, faulty |-> FALSE]

\* remove_idle: the machines of a run, in their order, and the number of one.
Kept(c) == {h \in Hosts : c.vms[h] > 0}
Number(c, h) == Cardinality({g \in Kept(c) : g <= h})

Run == Len(logs)

Init ==
    /\ script = None /\ list = <<>> /\ at = 1 /\ output = <<>> /\ scripts = 0
    /\ pc = "idle" /\ config = None
    /\ domains = {}
    /\ os = [h \in Hosts |-> Absent]
    /\ images = [h \in Hosts |-> [n \in Hosts |-> Absent]]
    /\ joinFile = 0 /\ joined = 0
    /\ logs = <<>> /\ series = 0 /\ foreign = FALSE
    /\ since = Fresh
    /\ upstream = 1 /\ faults = 0

-----------------------------------------------------------------------------
(* Scripts *)

\* Mutant: the files are taken as os.listdir returns them, newest first.
NewestFirst(numbers) == InOrder(numbers, {p \in numbers \X numbers : p[1] > p[2]})

\* logs.sort()
Sorted(numbers) == InOrder(numbers, {p \in numbers \X numbers : p[1] < p[2]})

\* check_resume: the logs from the resume date on are the outputs of the runs.
Resumed(resume) ==
    LET found == Sorted({k \in DOMAIN logs : k >= resume})
    IN [i \in DOMAIN Experiments |-> IF i \in DOMAIN found THEN found[i] ELSE 0]

\* replicate_paper: anew, or with the date of the first log of its series.
StartPaper ==
    /\ script = None /\ pc = "idle" /\ scripts < MaxScripts
    /\ \/ /\ output' = [i \in DOMAIN Experiments |-> 0]
          /\ series' = Run + 1
          /\ foreign' = FALSE
       \/ /\ series \in DOMAIN logs
          /\ output' = Resumed(series)
          /\ UNCHANGED <<series, foreign>>
    /\ script' = "paper" /\ list' = Experiments /\ at' = 1
    /\ scripts' = scripts + 1
    /\ UNCHANGED <<pc, config, domains, disks, join, logs, limits>>

\* _remove_base: all of .continuum, on all nodes.
RemoveBase ==
    /\ os' = [h \in Hosts |-> Absent]
    /\ images' = [h \in Hosts |-> [n \in Hosts |-> Absent]]
    /\ joinFile' = 0
    /\ since' = Fresh
    /\ UNCHANGED joined

\* replicate_kubecontrol, with or without --remove_base.
StartKubecontrol ==
    /\ script = None /\ pc = "idle" /\ scripts < MaxScripts
    /\ \E s \in MicroBenchmarks : list' = s /\ output' = [i \in DOMAIN s |-> 0]
    /\ script' = "kubecontrol" /\ at' = 1
    /\ scripts' = scripts + 1
    /\ \/ UNCHANGED <<disks, join>>
       \/ RemoveBase
    /\ UNCHANGED <<pc, config, domains, past, limits>>

\* The operator runs continuum.py.
StartByHand ==
    /\ script = None /\ pc = "idle" /\ scripts < MaxScripts
    /\ \E c \in ByHand : list' = <<c>>
    /\ script' = "hand" /\ at' = 1 /\ output' = <<0>>
    /\ scripts' = scripts + 1
    /\ UNCHANGED <<pc, config, domains, disks, join, past, limits>>

SkipRun ==
    /\ script # None /\ pc = "idle" /\ at \in DOMAIN list /\ output[at] # 0
    /\ at' = at + 1
    /\ UNCHANGED <<script, list, output, scripts, pc, config, domains, disks, join, past, limits>>

ScriptEnds ==
    /\ script # None /\ pc = "idle" /\ at > Len(list)
    /\ script' = None /\ list' = <<>> /\ at' = 1 /\ output' = <<>>
    /\ UNCHANGED <<scripts, pc, config, domains, disks, join, past, limits>>

\* _kill_all on all nodes, by replicate_kubecontrol alone.
KillAll(d) == IF script = "kubecontrol" THEN {} ELSE d

\* The next run starts, and its log.
StartRun ==
    /\ script # None /\ pc = "idle" /\ at \in DOMAIN list /\ output[at] = 0
    /\ config' = list[at]
    /\ domains' = KillAll(domains)
    /\ logs' = Append(logs, [script |-> script, run |-> at])
    /\ foreign' = (foreign \/ script # "paper")
    /\ joined' = 0
    /\ since' = [since EXCEPT !.first = IF @ = {} THEN Kept(list[at]) ELSE @,
                              !.versions = @ \cup {list[at].version}]
    /\ pc' = "delete"
    /\ UNCHANGED <<scripting, os, images, joinFile, series, limits>>

-----------------------------------------------------------------------------
(* A run *)

\* delete_vms
DeleteVms ==
    /\ pc = "delete"
    /\ domains' = {d \in domains : d.host \notin Kept(config)}
    /\ pc' = "clean"
    /\ UNCHANGED <<scripting, config, disks, join, past, limits>>

\* Mutant: files of the local machine are left.
NothingCleaned == joinFile

\* What delete_old_content leaves of join-command.txt, a file of the local machine.
Cleaned == IF 1 \in Kept(config) THEN 0 ELSE joinFile

\* delete_old_content; the images stay.
DeleteOldContent ==
    /\ pc = "clean"
    /\ joinFile' = Cleaned
    /\ pc' = "os"
    /\ UNCHANGED <<scripting, config, domains, disks, joined, past, limits>>

\* os_image: where one machine lacks the image, all of them get the newest.
\* It is stored by qemu-img convert, and then resized.
OsImage ==
    /\ pc = "os"
    /\ LET need == \E h \in Kept(config) : os[h] = Absent
       IN /\ os' = [h \in Hosts |-> IF need /\ h \in Kept(config)
                                    THEN [state |-> "small", edition |-> upstream] ELSE os[h]]
          /\ pc' = IF need THEN "resize" ELSE "find"
    /\ UNCHANGED <<scripting, config, domains, images, since, join, past, limits>>

Resize ==
    /\ pc = "resize"
    /\ os' = [h \in Hosts |-> IF h \in Kept(config) THEN [os[h] EXCEPT !.state = "full"] ELSE os[h]]
    /\ pc' = "find"
    /\ UNCHANGED <<scripting, config, domains, images, since, join, past, limits>>

\* Mutant: the first machine speaks for all.
LacksFirst(h) == h = Min(Kept(config)) /\ images[h][Number(config, h)] = Absent

Lacks(h) == images[h][Number(config, h)] = Absent

\* base_image: where an image lacks on one machine, that of its tier is made
\* anew on all of them, on top of the OS image.
CreateBase ==
    /\ pc = "find"
    /\ IF \E h \in Kept(config) : Lacks(h)
       THEN /\ images' = [h \in Hosts |->
                            IF h \in Kept(config)
                            THEN [images[h] EXCEPT ![Number(config, h)] =
                                    [state |-> "blank", on |-> os[h], version |-> None]]
                            ELSE images[h]]
            /\ pc' = "base"
       ELSE pc' = "launch" /\ UNCHANGED images
    /\ UNCHANGED <<scripting, config, domains, os, since, join, past, limits>>

\* The base VMs, by machine.  Their addresses are another range.
BaseVms ==
    {[host |-> h, address |-> <<"base", Number(config, h)>>, run |-> Run] : h \in Kept(config)}

LaunchBase ==
    /\ pc = "base"
    /\ domains' = domains \cup BaseVms
    /\ pc' = "install"
    /\ UNCHANGED <<scripting, config, disks, join, past, limits>>

\* The playbooks and docker_pull; then the base VMs are shut down.
InstallBase ==
    /\ pc = "install"
    /\ domains' = domains \ BaseVms
    /\ images' = [h \in Hosts |->
                    IF h \in Kept(config)
                    THEN [images[h] EXCEPT ![Number(config, h)] =
                            [@ EXCEPT !.state = "installed", !.version = config.version]]
                    ELSE images[h]]
    /\ pc' = "launch"
    /\ UNCHANGED <<scripting, config, os, since, join, past, limits>>

\* set_ip_names: the addresses are counted over all machines of a run.
Vms ==
    LET before(h) == MapThenSumSet(LAMBDA g : config.vms[g], {g \in Hosts : g < h})
        of(h) == {[host |-> h, address |-> <<"vm", before(h) + k>>, run |-> Run] :
                     k \in 1..config.vms[h]}
    IN UNION {of(h) : h \in Hosts}

LaunchVms ==
    /\ pc = "launch"
    /\ domains' = domains \cup Vms
    /\ pc' = "cluster"
    /\ UNCHANGED <<scripting, config, disks, join, past, limits>>

\* The two playbooks of the resource manager run at once: the controller's
\* leaves a token on the local machine, that of the workers waits for it.
ControlInstall ==
    /\ pc = "cluster" /\ joinFile # Run
    /\ joinFile' = Run
    /\ UNCHANGED <<scripting, pc, config, domains, disks, joined, past, limits>>

WorkersJoin ==
    /\ pc = "cluster" /\ joined = 0 /\ joinFile # 0
    /\ joined' = joinFile
    /\ UNCHANGED <<scripting, pc, config, domains, disks, joinFile, past, limits>>

\* With a token of another cluster the playbook fails.
ClusterReady ==
    /\ pc = "cluster" /\ joinFile = Run /\ joined = Run
    /\ pc' = "ready"
    /\ UNCHANGED <<scripting, config, domains, disks, join, past, limits>>

JoinFails ==
    /\ pc = "cluster" /\ joinFile = Run /\ joined \notin {0, Run}
    /\ pc' = "idle" /\ output' = [output EXCEPT ![at] = Run] /\ at' = at + 1
    /\ UNCHANGED <<script, list, scripts, config, domains, disks, join, past, limits>>

\* The application has run; infrastructure.delete is an option.  The script
\* reads the log.
RunEnds ==
    /\ pc = "ready"
    /\ \/ UNCHANGED domains
       \/ domains' = {d \in domains : d.host \notin Kept(config)}
    /\ output' = [output EXCEPT ![at] = Run]
    /\ at' = at + 1
    /\ pc' = "idle"
    /\ UNCHANGED <<script, list, scripts, config, disks, join, past, limits>>

\* An error: what runs goes on, what is half done stays.  After sys.exit there
\* is nothing on stderr and the script takes the log for the output of a run
\* that has ended; after an exception it ends.
RunFails ==
    /\ pc # "idle" /\ faults < MaxFaults
    /\ faults' = faults + 1
    /\ since' = [since EXCEPT !.faulty = TRUE]
    /\ pc' = "idle"
    /\ \/ /\ output' = [output EXCEPT ![at] = Run] /\ at' = at + 1
          /\ UNCHANGED <<script, list>>
       \/ script' = None /\ list' = <<>> /\ at' = 1 /\ output' = <<>>
    /\ UNCHANGED <<scripts, config, domains, os, images, join, past, upstream>>

\* cloud-images.ubuntu.com publishes a new image.
NewRelease ==
    /\ upstream < MaxUpstream
    /\ upstream' = upstream + 1
    /\ UNCHANGED <<scripting, pc, config, domains, disks, join, past, faults>>

Script == StartPaper \/ StartKubecontrol \/ StartByHand \/ SkipRun \/ ScriptEnds \/ StartRun

Continuum ==
    \/ DeleteVms \/ DeleteOldContent \/ OsImage \/ Resize \/ CreateBase \/ LaunchBase \/ InstallBase
    \/ LaunchVms \/ ControlInstall \/ WorkersJoin \/ ClusterReady \/ JoinFails \/ RunEnds

Next == Script \/ Continuum \/ RunFails \/ NewRelease

Spec == Init /\ [][Next]_vars

-----------------------------------------------------------------------------
(* Correctness *)

\* What a run takes for its own is its own.  No VM of another run answers at
\* one of its addresses: delete_vms has destroyed those on the machines it
\* uses, and before replicate_kubecontrol's runs _kill_all those on the other
\* nodes ("to kill all VMs to preven IP clashing", replicate_kubecontrol.py:40),
\* also what a run that failed has left.  And workers join the cluster of
\* their run, although the file by which they learn of it is that of every run
\* (delete_old_content), except where the local machine has no VMs.
OwnCluster ==
    pc # "idle" =>
        /\ \A d, e \in domains :
              d.run = Run /\ e # d /\ e.address = d.address =>
                  e.host \notin Kept(config) /\ script # "kubecontrol"
        /\ 1 \in Kept(config) => joined \in {0, Run}

\* The image a VM starts from is complete; it has the version of its run as
\* long as no other one was asked for; and the OS image below it is the one it
\* was made on, when the first run used all machines ("start with all local
\* nodes -> forces consistent images", replicate_kubecontrol.py:54).  All that
\* since the images were removed, and unless a run has failed since: the names
\* of images do not tell versions, a half-made image has its name, and
\* os_image replaces images below those that exist (qemu.py:311-402).
ConsistentImages ==
    pc = "ready" /\ ~since.faulty =>
        \A h \in Kept(config) :
            LET image == images[h][Number(config, h)]
            IN /\ image.state = "installed"
               /\ since.versions = {config.version} => image.version = config.version
               /\ since.first = Hosts => image.on = os[h]

\* What replicate_paper takes for the output of a run is the log of that run,
\* also after it was resumed several times and whatever has failed, as long
\* as nothing else has written logs since the date it resumes from
\* (replicate_paper.py:80-144).
OutputOfItsRun ==
    script = "paper" /\ ~foreign =>
        \A i \in DOMAIN output : output[i] # 0 => logs[output[i]] = [script |-> "paper", run |-> i]
===============================================================================
