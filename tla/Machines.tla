------------------------------- MODULE Machines -------------------------------
(***************************************************************************)
(* What the providers share: the Machine objects with the VMs and base     *)
(* images of each machine, the lists gathered from them (gather_ips,       *)
(* gather_ssh), the inventory by which Ansible reaches the VMs             *)
(* (create_inventory_vm), the Docker registry (docker_registry) and what   *)
(* is installed from both.                                                 *)
(*                                                                         *)
(* A name is a word and a number.  An address is its last two parts, or the *)
(* network and the VM where the provider chooses it.                       *)
(***************************************************************************)
EXTENDS Placement, FiniteSetsExt

VARIABLES
    at,       \* position in machines of the loop that runs
    vms,      \* the VMs of a machine, in the order of its lists
    bases,    \* its base_names and base_ips
    software, \* what is installed on the base images, by machine and position
    registry, \* config["registry"], the address of the Docker registry
    stored,   \* the images a registry holds, by its address
    created,  \* the VMs that run, by machine and position
    waiting   \* add_ssh waits for VMs just started to answer ssh-keyscan

placement == <<config, tier, toGo, node, left, used, perMachine, machines>>
machineObjects == <<at, vms, bases, software, registry, stored, created>>

Images == {"worker image", "endpoint image", "combined image"}
LocalRegistry == <<"local">>

MachinesInit ==
    /\ Init
    /\ at = 1
    /\ vms = [m \in Hosts |-> <<>>]
    /\ bases = [m \in Hosts |-> <<>>]
    /\ software = <<>>
    /\ registry = LocalRegistry
    /\ stored = {}
    /\ created = {}
    /\ waiting = FALSE

Mode ==
    IF config.nodes["edge"] > 0 THEN "edge"
    ELSE IF config.nodes["cloud"] > 0 THEN "cloud" ELSE "endpoint"

\* The VMs, the base images, each as its machine and its place there.
Places(f) == {v \in Hosts \X (1..Total(config.nodes)) : v[2] \in DOMAIN f[v[1]]}
AllVms == Places(vms)
Vm(v) == vms[v[1]][v[2]]
TierOf(vm) == IF vm.role = "controller" THEN "cloud" ELSE vm.role

-----------------------------------------------------------------------------
(* Lists and inventory *)

WithRole(list, role) == Chosen(list, LAMBDA vm : vm.role = role)
OfRole(m, role) == WithRole(vms[m], role)
OverMachines(list(_)) ==
    LET upTo[i \in 0..Len(machines)] ==
            IF i = 0 THEN <<>> ELSE upTo[i - 1] \o list(machines[i])
    IN upTo[Len(machines)]

\* gather_ips: all machines for one role after the other.
Ips(role) == OverMachines(LAMBDA m : OfRole(m, role))
CloudIps == Ips("controller") \o Ips("cloud")

\* gather_ssh: machine by machine.
CloudSsh == OverMachines(LAMBDA m : OfRole(m, "controller") \o OfRole(m, "cloud"))

BaseWord == [cloud |-> "base_cloud", edge |-> "base_edge", endpoint |-> "base_endpoint"]
NamedKubeedge == config.resource_manager \in {"kubeedge", "mist"}

\* How often a name has the word of a tier in it.  The names of the base images
\* of clouds and edges have that of the resource manager in them too, for mist
\* that of kubeedge.
Occurrences(t, name) ==
    (IF name[1] \in {t, BaseWord[t]} THEN 1 ELSE 0)
    + (IF t = "edge" /\ NamedKubeedge /\ name[1] \in {"base_cloud", "base_edge"} THEN 1 ELSE 0)

EdgeBase(name) ==
    Occurrences("edge", name) = (IF config.provider = "qemu" /\ NamedKubeedge THEN 2 ELSE 1)

\* The base images that the inventory takes for those of a tier.
Tells(t, name) == IF t = "edge" THEN EdgeBase(name) ELSE Occurrences(t, name) > 0
AllBases == OverMachines(LAMBDA m : bases[m])
Telling(list, t) == Chosen(list, LAMBDA base : Tells(t, base.name))
BasesFor(t) == OverMachines(LAMBDA m : Telling(bases[m], t))

\* The lines of inventory_vms.
Entries ==
    LET lines(group, list) ==
            [k \in DOMAIN list |-> [group |-> group, name |-> list[k].name, ip |-> list[k].ip]]
        when(condition, s) == IF condition THEN s ELSE <<>>
        benchmark == ~config.infra_only
    IN when(benchmark /\ Mode # "endpoint" /\ config.resource_manager # "mist",
            lines("cloudcontroller", OfRole(machines[1], "controller")))
       \o when(Mode = "cloud", lines("clouds", Ips("cloud")))
       \o when(Mode = "edge", lines("edges", Ips("edge")))
       \o lines("endpoints", Ips("endpoint"))
       \o lines("base", AllBases)
       \o when(benchmark /\ Mode # "endpoint", lines("base_cloud", BasesFor("cloud")))
       \o when(benchmark /\ Mode = "edge", lines("base_edge", BasesFor("edge")))
       \o when(benchmark, lines("base_endpoint", BasesFor("endpoint")))

\* The addresses at which Ansible finds the hosts of a group: a name has one
\* address, the one its last line gives.
Reached(entries, group) ==
    LET last(name) == CHOOSE k \in DOMAIN entries :
                        /\ entries[k].name = name
                        /\ \A l \in (k + 1)..Len(entries) : entries[l].name # name
    IN {entries[last(entries[k].name)].ip : k \in {l \in DOMAIN entries : entries[l].group = group}}

-----------------------------------------------------------------------------
(* Keys *)

\* add_ssh asks one VM after the other until it answers, however long that takes;
\* the last of them has.  Nothing makes a VM answer.
VmsAnswer ==
    /\ waiting
    /\ waiting' = FALSE

-----------------------------------------------------------------------------
(* Registry and installation *)

\* Mutant: a registry that answers is taken to hold the images.
NeedPullWhenDown(up, present, image) == ~up

\* An image that the registry holds is left, unless docker_pull asks for it.
NeedPull(up, present, image) == ~up \/ image \notin present

\* docker_registry: fills the registry of the local machine, which may be up
\* and hold the images of earlier runs.
DockerRegistry ==
    /\ pc = "registry"
    /\ IF config.infra_only
       THEN UNCHANGED stored
       ELSE \E up \in BOOLEAN, present \in SUBSET Images :
               LET held == (IF up THEN present ELSE {})
                           \cup {image \in Images : NeedPull(up, present, image)}
               IN stored' = {registry} \X held
    /\ pc' = IF config.provider = "qemu" THEN "inventory" ELSE "apply"
    /\ UNCHANGED <<placement, at, vms, bases, software, registry, created>>

\* The images that docker_pull pulls into a base image.
ImagesFor(name) ==
    IF Occurrences("cloud", name) + Occurrences("edge", name) > 0 THEN {"worker image"}
    ELSE IF Occurrences("endpoint", name) > 0 THEN {"endpoint image", "combined image"}
    ELSE {}

\* Kubernetes and KubeEdge pull the images of their workers themselves.
DockerBases(places) ==
    IF config.infra_only THEN {}
    ELSE IF config.resource_manager \in {"kubernetes", "kubeedge"}
    THEN {b \in places : Occurrences("endpoint", bases[b[1]][b[2]].name) > 0}
    ELSE places

\* Every image is found at the address of the registry.
PullWorks(places, holds) ==
    \A b \in DockerBases(places) : {registry} \X ImagesFor(bases[b[1]][b[2]].name) \subseteq holds

\* What the base images of places have after plays, each on the hosts that the
\* lines of the inventory give its group, and docker_pull.
Installed(entries, plays, places) ==
    LET played == {[item |-> p.item, reached |-> Reached(entries, p.group)] : p \in plays}
        pulling == DockerBases(places)
    IN [b \in places |->
          {p.item : p \in {q \in played : bases[b[1]][b[2]].ip \in q.reached}}
          \cup (IF b \in pulling THEN ImagesFor(bases[b[1]][b[2]].name) ELSE {})]
=============================================================================
