----------------------------- MODULE Provisioning -----------------------------
(***************************************************************************)
(* What Continuum does with a placement when QEMU is the provider: it      *)
(* names the VMs and gives them addresses (set_ip_names), writes the       *)
(* inventory by which Ansible creates their disks on the physical machines *)
(* (create_inventory_machine), writes their domain files with the cores    *)
(* they are pinned to (generate.start), installs the base images they      *)
(* start from (base_image) and launches them (start_vms, launch_vms).  The *)
(* functions count the same VMs independently, each from numbers of VMs    *)
(* per machine; the properties say that they agree.                        *)
(*                                                                         *)
(* One step per machine of each loop over the machines.                    *)
(***************************************************************************)
EXTENDS Machines

CONSTANTS
    MiddleIP, MiddleIPBase, \* third part of the address of the first VM and base image
    PostfixLower, PostfixUpper

\* What the parser and the resource managers accept.  Nothing checks that only
\* endpoints are asked for without a resource manager, but template.cfg:151
\* says what "none" is for: local processing on endpoints.
Accepted(c) ==
    /\ c.nodes["cloud"] + c.nodes["edge"] + c.nodes["endpoint"] > 0
    /\ ~c.infra_only =>
          CASE c.resource_manager = "kubernetes" ->
                 /\ c.nodes["cloud"] >= 2 /\ c.nodes["edge"] = 0
                 /\ c.nodes["endpoint"] % (c.nodes["cloud"] - 1) = 0
            [] c.resource_manager = "kubeedge" ->
                 /\ c.nodes["cloud"] = 1 /\ c.nodes["edge"] > 0
                 /\ c.nodes["endpoint"] % c.nodes["edge"] = 0
            [] c.resource_manager = "mist" ->
                 /\ c.nodes["cloud"] = 0 /\ c.nodes["edge"] > 0 /\ c.nodes["endpoint"] > 0
                 /\ c.nodes["endpoint"] % c.nodes["edge"] = 0
            [] c.resource_manager = "none" ->
                 c.nodes["cloud"] = 0 /\ c.nodes["edge"] = 0

ASSUME ProvisioningAssumption ==
    /\ ResourceManagers = {"kubernetes", "kubeedge", "mist", "none"}
    /\ \A c \in Configurations : Accepted(c)
    /\ {MiddleIP, MiddleIPBase, PostfixLower, PostfixUpper} \subseteq Nat
    /\ PostfixLower < PostfixUpper
    /\ MiddleIP # MiddleIPBase

VARIABLES
    index,      \* cloud_index, edge_index, endpoint_index; clouds, edges, endpoints
    ip, ipBase, \* the next address of a VM, of a base image
    clouds,     \* cloud_controller and clouds of a machine
    disks,      \* the disks that Ansible creates on it, each with its base image
    pins,       \* the cores each of its VMs is pinned to
    commands,   \* the VMs that launch_vms is to start
    round,      \* i of start_vms
    looked      \* while base_image waits: the set of the base images it has found
                \* missing, as a set of one element

provision == <<index, ip, ipBase, clouds, disks, pins, commands, round>>
allVars == <<vars, machineObjects, provision>>
waits == <<waiting, looked>>

ProvisionInit ==
    /\ MachinesInit
    /\ index = None
    /\ ip = <<MiddleIP, PostfixLower>>
    /\ ipBase = <<MiddleIPBase, PostfixLower>>
    /\ clouds = [m \in Hosts |-> [controller |-> 0, workers |-> 0]]
    /\ disks = [m \in Hosts |-> {}]
    /\ pins = [m \in Hosts |-> <<>>]
    /\ commands = {}
    /\ round = 0
    /\ looked = {}

Place == Next /\ UNCHANGED <<machineObjects, provision>>

Qemu == config.provider = "qemu"

-----------------------------------------------------------------------------
(* Names and addresses *)

\* Mutant: the third part stays as it is when the last part wraps.
UpdateIpWraps(a) ==
    IF a[2] + 1 = PostfixUpper THEN <<a[1], PostfixLower>> ELSE <<a[1], a[2] + 1>>

UpdateIp(a) ==
    IF a[2] + 1 = PostfixUpper THEN <<a[1] + 1, PostfixLower>> ELSE <<a[1], a[2] + 1>>

\* n consecutive addresses from a on, and the next.
Addresses(a, n) ==
    LET address[k \in 1..(n + 1)] == IF k = 1 THEN a ELSE UpdateIp(address[k - 1])
    IN [k \in 1..(n + 1) |-> address[k]]

Names(t, from, n) == [k \in 1..n |-> [role |-> t, name |-> <<t, from + k - 1>>]]
Controller == [role |-> "controller", name |-> <<"controller", 0>>]

\* The controller is the first machine's business, and only there where one
\* is needed.
HasController(m) ==
    /\ m = machines[1]
    /\ ~config.infra_only
    /\ Mode # "endpoint"
    /\ config.resource_manager # "mist"

Clouds(m) ==
    LET controller == IF HasController(m) /\ perMachine[m]["cloud"] > 0 THEN 1 ELSE 0
    IN [controller |-> controller, workers |-> perMachine[m]["cloud"] - controller]

TierOrder == {<<"cloud", "edge">>, <<"cloud", "endpoint">>, <<"edge", "endpoint">>}

\* The base images of the i-th machine.
BaseImages(i) ==
    IF config.infra_only THEN <<<<"base", i>>>>
    ELSE LET here == InOrder({t \in Tiers : perMachine[machines[i]][t] > 0}, TierOrder)
         IN [k \in DOMAIN here |-> <<BaseWord[here[k]], i>>]

\* The controller's name and address depend on HasController alone.
SetIpNames ==
    /\ pc = "placed" /\ Qemu
    /\ at <= Len(machines)
    /\ LET m == machines[at]
           here == [perMachine[m] EXCEPT !["cloud"] = Clouds(m).workers]
           list == (IF HasController(m) THEN <<Controller>> ELSE <<>>)
                   \o Names("cloud", index["cloud"], here["cloud"])
                   \o Names("edge", index["edge"], here["edge"])
                   \o Names("endpoint", index["endpoint"], here["endpoint"])
           address == Addresses(ip, Len(list))
           images == BaseImages(at)
           baseAddress == Addresses(ipBase, Len(images))
       IN /\ vms' = [vms EXCEPT ![m] =
                       [k \in DOMAIN list |-> [role |-> list[k].role, name |-> list[k].name,
                                               ip |-> address[k], internal |-> address[k]]]]
          /\ ip' = address[Len(address)]
          /\ bases' = [bases EXCEPT ![m] =
                         [k \in DOMAIN images |-> [name |-> images[k], ip |-> baseAddress[k]]]]
          /\ ipBase' = baseAddress[Len(baseAddress)]
          /\ clouds' = [clouds EXCEPT ![m] = Clouds(m)]
          /\ index' = [t \in Tiers |-> index[t] + here[t]]
    /\ at' = at + 1
    /\ UNCHANGED <<vars, software, registry, stored, created, disks, pins, commands, round>>

-----------------------------------------------------------------------------
(* Inventory and domain files *)

\* Mutant: the numbers of the clouds go on after the controller.
CountWithController(m) ==
    [perMachine[m] EXCEPT !["cloud"] = clouds[m].workers + clouds[m].controller]

\* The VMs of machine m that the inventory counts in each tier.
Counted(m) == [perMachine[m] EXCEPT !["cloud"] = clouds[m].workers]

\* The base image that the inventory names for a tier on machine m: the first
\* with the tier between underscores in its name.
BaseFor(m, t) ==
    IF config.infra_only THEN bases[m][1].name
    ELSE LET ofTier == {k \in DOMAIN bases[m] : bases[m][k].name[1] = BaseWord[t]}
         IN bases[m][Min(ofTier)].name

\* A group of the inventory lists the machines with VMs of its tier; Ansible
\* creates a disk for each number from its start to its end.
CreateInventory ==
    /\ pc = "inventory"
    /\ at <= Len(machines)
    /\ LET m == machines[at]
           numbers(t) == index[t]..(index[t] + Counted(m)[t] - 1)
           ofTier(t) == {[name |-> <<t, k>>, base |-> BaseFor(m, t)] : k \in numbers(t)}
           controller == {[name |-> Controller.name, base |-> BaseFor(m, "cloud")] :
                            k \in 1..clouds[m].controller}
       IN /\ disks' = [disks EXCEPT ![m] = controller \cup UNION {ofTier(t) : t \in Tiers}]
          /\ index' = [t \in Tiers |-> index[t] + Counted(m)[t]]
    /\ at' = at + 1
    /\ UNCHANGED <<vars, vms, bases, software, registry, stored, created,
                   ip, ipBase, clouds, pins, commands, round>>

\* Mutant: the VMs before are taken to have as many cores as this one.
StartCoreOfEqual(s, k) == (k - 1) * config.vmCores[TierOf(s[k])]

\* start_core when the domain file of the k-th VM is written.
StartCore(s, k) ==
    LET cores == [j \in DOMAIN s |-> config.vmCores[TierOf(s[j])]]
    IN MapThenSumSet(LAMBDA j : cores[j], 1..(k - 1))

Generate ==
    /\ pc = "generate"
    /\ at <= Len(machines)
    /\ LET m == machines[at]
           s == vms[m]
           from(k) == StartCore(s, k)
       IN pins' = [pins EXCEPT ![m] =
                     [k \in DOMAIN s |->
                        IF config.cpu_pin
                        THEN from(k)..(from(k) + config.vmCores[TierOf(s[k])] - 1)
                        ELSE {}]]
    /\ at' = at + 1
    /\ UNCHANGED <<vars, vms, bases, software, registry, stored, created,
                   index, ip, ipBase, clouds, disks, commands, round>>

\* The loop that runs is done, the next function starts.
NextStage ==
    /\ Qemu
    /\ at > Len(machines)
    /\ \/ pc = "placed" /\ pc' = "registry"
       \/ pc = "inventory" /\ pc' = "generate"
       \/ pc = "generate" /\ pc' = "base"
    /\ at' = 1
    /\ index' = None
    /\ UNCHANGED <<placement, vms, bases, software, registry, stored, created,
                   ip, ipBase, clouds, disks, pins, commands, round>>

-----------------------------------------------------------------------------
(* Base images and launch *)

\* The playbooks for the base images of these names, and netperf for all.
BasePlays(words) ==
    {[group |-> BaseWord[t], item |-> t] : t \in {u \in Tiers : BaseWord[u] \in words}}
    \cup {[group |-> "base", item |-> "netperf"]}

WordsOf(places) == {bases[b[1]][b[2]].name[1] : b \in places}
OfWords(words) == {b \in Places(bases) : bases[b[1]][b[2]].name[1] \in words}

\* Mutant: only the base VMs of images that were missing are started.
StartedMissing(missing) == missing

\* The base VMs that are started to install software: where one image is
\* missing, those of every machine with an image of that name.
Started(missing) == OfWords(WordsOf(missing))

\* base_image: any of the images may be missing; the others are from an earlier
\* run.  The base VMs started, add_ssh waits for them.
StartBases ==
    /\ pc = "base" /\ looked = {}
    /\ \E missing \in SUBSET Places(bases) :
          /\ looked' = {missing}
          /\ waiting' = (Started(missing) # {})

\* The rest of base_image.  The playbook that creates an image does so on every machine.
BaseImage ==
    /\ pc = "base" /\ ~waiting
    /\ \E missing \in SUBSET Places(bases), entries \in {Entries} :
          /\ missing \in looked
          /\ LET every == Places(bases)
                 before == Installed(entries, BasePlays(WordsOf(every)), every)
                 started == Started(missing)
                 made == OfWords(WordsOf(missing))
                 now == Installed(entries, BasePlays(WordsOf(missing)), started)
             IN IF PullWorks(started, stored)
                THEN /\ software' = [b \in every |->
                                       IF b \in started THEN now[b]
                                       ELSE IF b \in made THEN {} ELSE before[b]]
                     /\ pc' = "launch"
                ELSE pc' = "failed" /\ UNCHANGED software
    /\ commands' = AllVms
    /\ looked' = {}
    /\ UNCHANGED <<placement, at, vms, bases, registry, stored, created,
                   index, ip, ipBase, clouds, disks, pins, round, waiting>>

HasDisk(v) == \E d \in disks[v[1]] : d.name = Vm(v).name

\* Mutant: a launch that failed for one VM is repeated for all of them.
RepeatAll(failed) == IF failed = {} THEN {} ELSE commands

\* The commands of this round to be executed again.
Repeat(failed) == failed

\* launch_vms: virsh creates the VMs, except those whose ssh connection is
\* refused (kex_exchange_identification).  When all run, add_ssh waits for them.
LaunchVms ==
    /\ pc = "launch"
    /\ \E failed \in SUBSET commands :
          /\ \A v \in commands \ failed : HasDisk(v)
          /\ created' = created \cup (commands \ failed)
          /\ commands' = Repeat(failed)
          /\ pc' = IF commands' = {} THEN "running"
                   ELSE IF round = 1 THEN "aborted" ELSE "launch"
    /\ round' = round + 1
    /\ waiting' = (pc' = "running")
    /\ UNCHANGED <<placement, at, vms, bases, software, registry, stored,
                   index, ip, ipBase, clouds, disks, pins, looked>>

\* Any other error of virsh, sys.exit after all commands were run.
LaunchFails ==
    /\ pc = "launch"
    /\ \E started \in SUBSET commands :
          /\ started # commands
          /\ \A v \in started : HasDisk(v)
          /\ created' = created \cup started
    /\ pc' = "aborted"
    /\ UNCHANGED <<placement, at, vms, bases, software, registry, stored,
                   index, ip, ipBase, clouds, disks, pins, commands, round>>

ProvisionNext ==
    \/ ((Place \/ SetIpNames \/ CreateInventory \/ Generate \/ NextStage) /\ UNCHANGED waits)
    \/ (DockerRegistry /\ UNCHANGED <<provision, waits>>)
    \/ BaseImage
    \/ LaunchVms
    \/ (LaunchFails /\ UNCHANGED waits)

-----------------------------------------------------------------------------
(* Correctness *)

Named(s) == {s[k].name : k \in DOMAIN s}

\* Every VM of the configuration gets one name on one machine, numbered from
\* 0 without gaps; where a controller is needed it is one of the clouds, not
\* one more, and it is on the machine that create_inventory_vm takes it from
\* (qemu.py:121-192, ansible.py:220-234).  It depends on the order in which
\* the tiers are placed and on remove_idle.
EveryVmNamed ==
    Qemu /\ pc \in {"registry", "inventory", "generate", "base", "launch", "running"} =>
        LET needed == \E m \in Hosts : HasController(m)
            numbered(t, n) == {<<t, k>> : k \in 0..(n - 1)}
            workers == config.nodes["cloud"] - (IF needed THEN 1 ELSE 0)
        IN /\ UNION {Named(vms[m]) : m \in Hosts} =
                numbered("controller", IF needed THEN 1 ELSE 0) \cup numbered("cloud", workers)
                \cup numbered("edge", config.nodes["edge"])
                \cup numbered("endpoint", config.nodes["endpoint"])
           /\ Cardinality(AllVms) = Total(config.nodes)
           /\ needed => Controller.name \in Named(vms[machines[1]])

\* Ansible creates on each machine the disks of the VMs that are launched
\* there, no more and no fewer, each from a base image that the machine has
\* (ansible.py:82-191 counts what qemu.py:121-249 has named).
DisksMatchVms ==
    Qemu /\ pc \in {"generate", "base", "launch", "running"} =>
        \A m \in Hosts :
            /\ {d.name : d \in disks[m]} = Named(vms[m])
            /\ {d.base : d \in disks[m]} \subseteq Named(bases[m])

\* With cpu_pin no two VMs of a machine share a core, and every core exists
\* (generate.py:247-377, template.cfg:47: VM cores will be pinned to physical
\* CPU cores): the ranges generate.start counts out are those schedule_pin
\* reserved.
PinsDisjoint ==
    Qemu /\ pc \in {"base", "launch", "running"} /\ config.cpu_pin =>
        \A m \in Hosts : \A k \in DOMAIN pins[m] :
            /\ pins[m][k] \subseteq 0..(config.cores[m] - 1)
            /\ Cardinality(pins[m][k]) = config.vmCores[TierOf(vms[m][k])]
            /\ \A l \in 1..(k - 1) : pins[m][k] \cap pins[m][l] = {}

\* No two VMs or base images have the same address, also when their number
\* passes that of the addresses with one third part, and the last part stays
\* below its upper bound (qemu.py:80-98).
AddressesDistinct ==
    Qemu =>
        LET addresses(f) == {f[v[1]][v[2]].ip : v \in Places(f)}
        IN /\ Cardinality(addresses(vms)) = Cardinality(AllVms)
           /\ Cardinality(addresses(bases)) = Cardinality(Places(bases))
           /\ addresses(vms) \cap addresses(bases) = {}
           /\ \A a \in addresses(vms) \cup addresses(bases) : a[2] < PostfixUpper

\* No VM that runs is created again when a round of launches is repeated, and
\* all of them run when start_vms returns (qemu.py:640-782).
LaunchedOnce ==
    /\ pc = "launch" => commands \cap created = {}
    /\ pc = "running" => created = AllVms
=============================================================================
