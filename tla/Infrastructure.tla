---------------------------- MODULE Infrastructure ----------------------------
(***************************************************************************)
(* infrastructure.start as a whole: placement, one of the providers, the   *)
(* emulation of the network between the VMs (network.start) and its        *)
(* measurement (network.benchmark).                                        *)
(*                                                                         *)
(* Latency and throughput between two tiers are the pair of the tiers.     *)
(***************************************************************************)
EXTENDS Provisioning, Terraform

VARIABLES
    filters,  \* the tc filters: in which VM, of which class, with which values, for whom
    measured  \* the pairs of VMs between which netperf has run

network == <<filters, measured>>
everything == <<allVars, network>>

InfrastructureInit ==
    /\ ProvisionInit
    /\ filters = {}
    /\ measured = {}

-----------------------------------------------------------------------------
(* Emulation *)

InternalOf(s) == {s[k].internal : k \in DOMAIN s}

\* Mutant: a VM of the cloud is limited towards itself too.
OthersAndSelf(s, vm) == InternalOf(s)

\* The VMs of the list but the VM itself.
Others(s, vm) == InternalOf(s) \ {vm.internal}

\* tc_values: what holds between two tiers.
Values(t, u) == {t, u}

\* The targets of a VM in the order of their classes, with the values.
Targets(vm) ==
    LET t == TierOf(vm)
        to(u, addresses) == [values |-> Values(t, u), addresses |-> addresses]
        cloud == to("cloud", InternalOf(CloudIps))
        edge == to("edge", InternalOf(Ips("edge")))
        endpoint == to("endpoint", InternalOf(Ips("endpoint")))
    IN CASE t = "cloud" -> <<to("cloud", Others(CloudIps, vm)), edge, endpoint>>
         [] t = "edge" -> <<to("edge", Others(Ips("edge"), vm)), cloud, endpoint>>
         [] t = "endpoint" -> <<cloud, edge>>

\* The classes of a VM, numbered from 1; class 1 comes with the root qdisc.
Classes(vm) ==
    LET s == Chosen(Targets(vm), LAMBDA target : target.addresses # {})
    IN UNION {[disk : {k}, values : {s[k].values}, to : s[k].addresses] : k \in DOMAIN s}

\* generate_tc_commands: without the root qdisc a class cannot be added, and
\* the network device of cloud VMs with virtiofs has another name.
TcWorks(vm) ==
    Classes(vm) # {} =>
        /\ \E f \in Classes(vm) : f.disk = 1
        /\ ~(config.virtiofsd /\ TierOf(vm) = "cloud" /\ Qemu)

\* network.start: the commands for the k-th address run on the k-th VM.
NetworkStart ==
    /\ pc = "running" /\ ~waiting
    /\ LET ips == CloudIps \o Ips("edge") \o Ips("endpoint")
           ssh == CloudSsh \o Ips("edge") \o Ips("endpoint")
           runs == {<<ssh[k].ip, ips[k]>> : k \in DOMAIN ips}
           filter(r, f) == [at |-> r[1], disk |-> f.disk, values |-> f.values, to |-> f.to]
       IN IF ~config.network_emulation
          THEN pc' = "shaped" /\ UNCHANGED filters
          ELSE /\ filters' = UNION {{filter(r, f) : f \in Classes(r[2])} : r \in runs}
               /\ pc' = IF \A r \in runs : TcWorks(r[2]) THEN "shaped" ELSE "failed"
    /\ UNCHANGED <<placement, machineObjects, provision, measured, waits>>

-----------------------------------------------------------------------------
(* Measurement *)

\* What a VM has from the base image of its disk; a VM of Terraform is its own.
SoftwareOf(v) ==
    IF Qemu
    THEN LET disk == CHOOSE d \in disks[v[1]] : d.name = Vm(v).name
             k == CHOOSE j \in DOMAIN bases[v[1]] : bases[v[1]][j].name = disk.base
         IN software[<<v[1], k>>]
    ELSE software[v]

HasNetperf(a) == \E v \in AllVms : Vm(v).ip = a /\ "netperf" \in SoftwareOf(v)
ServesNetperf(a) == \E v \in AllVms : Vm(v).internal = a /\ "netperf" \in SoftwareOf(v)

Pairs(from, to) ==
    {<<from[k].ip, a>> : k \in DOMAIN from, a \in InternalOf(to)}

\* Between the VMs of one list: the k-th address is left out for the k-th VM.
PairsWithin(ips, ssh) ==
    UNION {{<<ssh[k].ip, a>> : a \in Others(ips, ips[k])} : k \in DOMAIN ips}

\* network.benchmark: netperf fails silently where it is not installed.
NetworkBenchmark ==
    /\ pc = "shaped"
    /\ LET edge == Ips("edge")
           endpoint == Ips("endpoint")
           pairs == PairsWithin(CloudIps, CloudSsh) \cup Pairs(CloudSsh, edge)
                    \cup Pairs(CloudSsh, endpoint)
                    \cup PairsWithin(edge, edge) \cup Pairs(edge, CloudIps) \cup Pairs(edge, endpoint)
                    \cup Pairs(endpoint, CloudIps) \cup Pairs(endpoint, edge)
       IN measured' = IF config.netperf
                      THEN {p \in pairs : HasNetperf(p[1]) /\ ServesNetperf(p[2])} ELSE {}
    /\ pc' = "ready"
    /\ UNCHANGED <<placement, machineObjects, provision, filters, waits>>

InfrastructureNext ==
    \/ (ProvisionNext /\ UNCHANGED network)
    \/ (TerraformNext /\ UNCHANGED <<provision, looked, network>>)
    \/ (StartBases /\ UNCHANGED everything)
    \/ NetworkStart
    \/ NetworkBenchmark

\* The VMs answer on their own.
WithAnswers == InfrastructureNext \/ (VmsAnswer /\ UNCHANGED <<everything, looked>>)

\* The program is one sequential thread.
InfrastructureSpec ==
    /\ InfrastructureInit
    /\ [][WithAnswers]_<<everything, waits>>
    /\ WF_<<everything, waits>>(InfrastructureNext)

-----------------------------------------------------------------------------
(* Correctness *)

\* Every VM is reached at an address of its own, whether Continuum chooses it
\* (qemu.py:80-98) or the provider (gcp.py:120-208, aws.py:122-210).
AddressesKnown == AddressesDistinct /\ AddressesReported

\* When all is set up a VM has the software of its tier, and not that of
\* another: what the playbooks install by the groups of the inventory, which
\* are told from names (ansible.py:282-344), the images that docker_pull
\* chooses by names again (infrastructure.py:547-559), and netperf.  On AWS
\* all clouds have one name, see the README.
SoftwareOfTier ==
    pc \in {"running", "shaped", "ready"} /\ config.provider # "aws" =>
        \A v \in AllVms :
            LET t == TierOf(Vm(v))
                rm == config.resource_manager
                containers ==
                    IF t = "endpoint" THEN {"endpoint image", "combined image"}
                    ELSE IF rm = "mist" \/ rm = "none" THEN {"worker image"} ELSE {}
            IN SoftwareOf(v) =
                 (IF config.infra_only THEN {} ELSE {t} \cup containers)
                 \cup (IF Qemu \/ config.netperf THEN {"netperf"} ELSE {})

\* Every two VMs, except two endpoints, are kept apart by one filter in each
\* direction, with the values of their tiers, in a class of a VM that has a
\* root; netperf measures the same pairs (network.py:176-286, 342-470).  On
\* each VM run the commands made for it: gather_ips and gather_ssh list the
\* VMs in the same order.
NetworkShaped ==
    pc \in {"shaped", "ready"} =>
        LET linked == {l \in AllVms \X AllVms :
                         /\ l[1] # l[2]
                         /\ ~(TierOf(Vm(l[1])) = "endpoint" /\ TierOf(Vm(l[2])) = "endpoint")}
            ends == {<<Vm(l[1]).ip, Vm(l[2]).internal>> : l \in linked}
        IN /\ config.network_emulation =>
                /\ {<<f.at, f.to>> : f \in filters} = ends
                /\ Cardinality(filters) = Cardinality(ends)
                /\ \A l \in linked : \E f \in filters :
                     /\ f.at = Vm(l[1]).ip /\ f.to = Vm(l[2]).internal
                     /\ f.values = Values(TierOf(Vm(l[1])), TierOf(Vm(l[2])))
                /\ \A f, g \in filters :
                     f.at = g.at => ((f.disk = g.disk) <=> (f.values = g.values))
           /\ pc = "ready" /\ config.netperf /\ config.provider # "aws" => measured = ends

\* Continuum does not trip over its own steps: it never pushes an image to an
\* address where no registry is, nor pulls one that the registry lacks, nor
\* gives tc a class without its root.  Only the network device of a VM with
\* virtiofs is not the one network.py:25 names (generate.py:292).
FailsOnlyOnVirtiofs ==
    pc = "failed" => config.virtiofsd /\ config.network_emulation

\* Whatever the configuration, Continuum places and starts its VMs or gives
\* up (infrastructure.py:91, 146: the loops end), unless a VM that it has started
\* never answers ssh-keyscan: add_ssh asks for ever (infrastructure.py:394-403).
InfrastructureEnds == <>(pc \in {"ready", "refused", "aborted", "failed"}) \/ <>[]waiting
=============================================================================
