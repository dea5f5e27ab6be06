--------------------------- MODULE MCInfrastructure ---------------------------
(***************************************************************************)
(* QEMU: one or two machines of 1 or 4 cores and at most two VMs of a      *)
(* tier, of one or two cores.  GCP and AWS: one machine of as many cores   *)
(* as wanted, or a second by mistake.                                      *)
(***************************************************************************)
EXTENDS Infrastructure

CONSTANTS MaxMachines, MachineCores, MaxNodes, VmCores, CloudCores, MaxPlain

Sizes == {<<0, 0>>} \cup ((1..MaxNodes) \X VmCores)

Configured(c) ==
    [cores |-> c.cores, nodes |-> [t \in Tiers |-> c.size[t][1]],
     vmCores |-> [t \in Tiers |-> c.size[t][2]],
     cpu_pin |-> c.cpu_pin, infra_only |-> c.infra_only, resource_manager |-> c.resource_manager,
     provider |-> IF c.kind = "virtiofsd" THEN "qemu" ELSE c.kind, virtiofsd |-> c.kind = "virtiofsd",
     network_emulation |-> c.measured, netperf |-> c.measured]

\* With infra_only the resource manager is of no account, and MaxPlain VMs are
\* enough.  Emulation and netperf are asked for together, and always with two
\* machines.  AWS has cloud VMs alone, as in its only configuration
\* (configuration/tests/aws).
Wanted(c) ==
    /\ Accepted(Configured(c))
    /\ c.infra_only =>
          /\ c.resource_manager = "none"
          /\ Total(Configured(c).nodes) <= MaxPlain
    /\ c.measured \/ Len(c.cores) = 1
    /\ c.kind \in {"gcp", "aws"} <=> c.cores[1] = CloudCores
    /\ c.kind \in {"gcp", "aws"} => ~c.cpu_pin /\ \A t \in Tiers : c.size[t][2] < 2
    /\ c.kind = "aws" => c.infra_only /\ c.size["edge"][1] + c.size["endpoint"][1] = 0
    /\ c.kind = "virtiofsd" => c.resource_manager = "kubernetes" /\ Len(c.cores) = 1

MCConfigurations ==
    {Configured(c) : c \in
        {d \in [cores : UNION {[1..n -> MachineCores] : n \in 1..MaxMachines}
                        \cup {<<CloudCores>>, <<CloudCores, CloudCores>>},
                size : [Tiers -> Sizes], cpu_pin : BOOLEAN, infra_only : BOOLEAN,
                resource_manager : ResourceManagers, measured : BOOLEAN,
                kind : {"qemu", "virtiofsd", "gcp", "aws"}] : Wanted(d)}}
=============================================================================
