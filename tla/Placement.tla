------------------------------- MODULE Placement -------------------------------
(***************************************************************************)
(* Continuum's placement of the virtual machines of a configuration on the *)
(* physical machines: schedule_equal, schedule_pin and remove_idle, as     *)
(* infrastructure.start calls them.  One iteration of a loop is one step.  *)
(*                                                                         *)
(* schedule_equal compares the quotients of the cores used and the cores   *)
(* of a machine as floating point numbers; for numbers of cores these      *)
(* compare as the quotients do.  schedule_pin appends an entry to          *)
(* machines_per_node when it turns to a machine; here every machine has    *)
(* one from the start, which remove_idle treats as it treats a missing     *)
(* one.                                                                    *)
(***************************************************************************)
EXTENDS Integers, Sequences, Orders

CONSTANTS
    Configurations,   \* the configurations that may be started
    ResourceManagers

Tiers == {"cloud", "edge", "endpoint"}

\* A configuration, and the cores check_hardware finds on the machines, the
\* local one first.
Configuration ==
    [cores : Seq(Nat \ {0}), nodes : [Tiers -> Nat], vmCores : [Tiers -> Nat],
     cpu_pin : BOOLEAN, infra_only : BOOLEAN, resource_manager : ResourceManagers,
     provider : {"qemu", "gcp", "aws"}, virtiofsd : BOOLEAN,
     network_emulation : BOOLEAN, netperf : BOOLEAN]

ASSUME PlacementAssumption ==
    /\ Configurations \subseteq Configuration
    /\ \A c \in Configurations :
          /\ c.cores # <<>>
          /\ \A t \in Tiers : c.nodes[t] > 0 => c.vmCores[t] > 0

VARIABLES
    config,
    pc,         \* "equal", "pin", "idle", the function reached, "placed" or "refused"
    tier,       \* machine_type
    toGo,       \* types_to_go
    node,       \* schedule_pin: the machine being filled, counted from 1
    left,       \* schedule_pin: machine_cores_left
    used,       \* schedule_equal: machines_cores_used
    perMachine, \* machines_per_node
    machines    \* the machines that remove_idle keeps

vars == <<config, pc, tier, toGo, node, left, used, perMachine, machines>>

Total(count) == count["cloud"] + count["edge"] + count["endpoint"]
Hosts == DOMAIN config.cores
None == [t \in Tiers |-> 0]

Init ==
    /\ config \in Configurations
    /\ pc = IF config.cpu_pin THEN "pin" ELSE "equal"
    /\ tier = "cloud"
    /\ toGo = config.nodes
    /\ node = 1
    /\ left = config.cores[1]
    /\ used = [m \in Hosts |-> 0]
    /\ perMachine = [m \in Hosts |-> None]
    /\ machines = <<>>

\* Mutant: the endpoints follow the clouds.
NextTierForgetsEdge(t) == "endpoint"

NextTier(t) == IF t = "cloud" THEN "edge" ELSE "endpoint"

\* Nothing of the current tier is left to place.
SkipTier ==
    /\ pc \in {"pin", "equal"}
    /\ Total(toGo) # 0
    /\ pc = "pin" => node <= Len(config.cores)
    /\ toGo[tier] = 0
    /\ tier' = NextTier(tier)
    /\ UNCHANGED <<config, pc, toGo, node, left, used, perMachine, machines>>

PlaceOn(m) ==
    /\ perMachine' = [perMachine EXCEPT ![m][tier] = @ + 1]
    /\ toGo' = [toGo EXCEPT ![tier] = @ - 1]

\* Mutant: the machine with the fewest cores used, whatever it has.
LeastCoresUsed(m) ==
    /\ \A k \in Hosts : used[m] <= used[k]
    /\ \A k \in 1..(m - 1) : used[m] < used[k]

\* m is the first machine with the least part of its cores used.
LeastUsed(m) ==
    /\ \A k \in Hosts : used[m] * config.cores[k] <= used[k] * config.cores[m]
    /\ \A k \in 1..(m - 1) : used[m] * config.cores[k] < used[k] * config.cores[m]

PlaceEqual ==
    /\ pc = "equal"
    /\ toGo[tier] > 0
    /\ \E m \in Hosts :
          /\ LeastUsed(m)
          /\ used' = [used EXCEPT ![m] = @ + config.vmCores[tier]]
          /\ PlaceOn(m)
    /\ UNCHANGED <<config, pc, tier, node, left, machines>>

\* Mutant: a machine is never filled up.
FitsWithRoom == config.vmCores[tier] < left

Fits == config.vmCores[tier] <= left

\* Mutant: every machine is taken to have the cores of the first.
AdvanceNodeSameCores(cores) ==
    /\ node' = node + 1
    /\ left' = IF node = Len(config.cores) THEN cores ELSE config.cores[1]

\* The next machine and its cores, if there is one.
AdvanceNode(cores) ==
    /\ node' = node + 1
    /\ left' = IF node = Len(config.cores) THEN cores ELSE config.cores[node + 1]

\* A machine that is full is left at once, except after the last endpoint.
PlacePin ==
    /\ pc = "pin"
    /\ node <= Len(config.cores)
    /\ toGo[tier] > 0
    /\ Fits
    /\ PlaceOn(node)
    /\ tier' = IF toGo'[tier] = 0 THEN NextTier(tier) ELSE tier
    /\ LET cores == left - config.vmCores[tier]
       IN IF cores = 0 /\ ~(tier = "endpoint" /\ toGo'[tier] = 0)
          THEN AdvanceNode(cores)
          ELSE /\ left' = cores
               /\ UNCHANGED node
    /\ UNCHANGED <<config, pc, used, machines>>

\* The machine cannot take the VM; it is never considered again.
LeaveNode ==
    /\ pc = "pin"
    /\ node <= Len(config.cores)
    /\ toGo[tier] > 0
    /\ ~Fits
    /\ AdvanceNode(left)
    /\ UNCHANGED <<config, pc, tier, toGo, used, perMachine, machines>>

\* The message "Not all VMs or containers fit", and sys.exit.
Refuse ==
    /\ pc = "pin"
    /\ node > Len(config.cores)
    /\ Total(toGo) # 0
    /\ pc' = "refused"
    /\ UNCHANGED <<config, tier, toGo, node, left, used, perMachine, machines>>

ScheduleDone ==
    /\ pc \in {"pin", "equal"}
    /\ Total(toGo) = 0
    /\ pc' = "idle"
    /\ UNCHANGED <<config, tier, toGo, node, left, used, perMachine, machines>>

\* Mutant: every machine the user offers is kept.
KeepsIdle(m) == TRUE

InUse(m) == Total(perMachine[m]) > 0

RemoveIdle ==
    /\ pc = "idle"
    /\ machines' = InOrder({m \in Hosts : InUse(m)}, {b \in Hosts \X Hosts : b[1] < b[2]})
    /\ pc' = "placed"
    /\ UNCHANGED <<config, tier, toGo, node, left, used, perMachine>>

Next ==
    \/ SkipTier \/ PlaceEqual \/ PlacePin \/ LeaveNode
    \/ Refuse \/ ScheduleDone \/ RemoveIdle

Spec == Init /\ [][Next]_vars

-----------------------------------------------------------------------------
(* Correctness *)

\* The cores that the VMs placed on machine m occupy.
Load(m) ==
      perMachine[m]["cloud"] * config.vmCores["cloud"]
    + perMachine[m]["edge"] * config.vmCores["edge"]
    + perMachine[m]["endpoint"] * config.vmCores["endpoint"]

\* The cores that schedule_pin hands out exist: the VMs of a machine need no
\* more cores than it has (infrastructure.py:146-181), although the count of
\* free cores is kept for one machine at a time and forgotten with the next.
WithinCores == config.cpu_pin => \A m \in Hosts : Load(m) <= config.cores[m]

\* Placement by utilisation is fair: a machine uses at most one VM more, in
\* proportion to its cores, than any other (infrastructure.py:100-108).
Balanced ==
    \A m, k \in Hosts : \E t \in Tiers :
        (used[m] - config.vmCores[t]) * config.cores[k] <= used[k] * config.cores[m]

\* "Not all VMs or containers fit" (infrastructure.py:188) is never said with
\* much room to spare: when schedule_pin gives up, every machine lacks the
\* cores for some VM of the configuration.
RefusedWhenFull ==
    pc = "refused" =>
        \A m \in Hosts : \E t \in Tiers :
            /\ config.nodes[t] > 0
            /\ Load(m) + config.vmCores[t] > config.cores[m]
=============================================================================
