------------------------------- MODULE Terraform -------------------------------
(***************************************************************************)
(* What Continuum does when GCP or AWS is the provider: it names the VMs   *)
(* (set_ip_names), has Terraform create them and reads their addresses     *)
(* from its output (start_vms, set_ips), moves the registry to the first   *)
(* of them (set_registry, move_registry) and installs software on each, as *)
(* every VM is its own base image (base_install).                          *)
(***************************************************************************)
EXTENDS Machines

CONSTANTS External, Internal \* the two networks in which the provider gives addresses

ASSUME TerraformAssumption == External # Internal

Cloud == config.provider \in {"gcp", "aws"}
M == machines[1]

-----------------------------------------------------------------------------
(* Names *)

\* AWS knows clouds by one user name only.
CloudName(k) == IF config.provider = "aws" THEN <<"ubuntu", 0>> ELSE <<"cloud", k>>

NewVm(role, name) == [role |-> role, name |-> name, ip |-> <<>>, internal |-> <<>>]

NewVms ==
    LET count == perMachine[M]
        rest(t) == [k \in 1..count[t] |-> NewVm(t, <<t, k - 1>>)]
    IN (IF count["cloud"] = 0 THEN <<>>
        ELSE <<NewVm("controller", CloudName(0))>>
             \o [k \in 1..(count["cloud"] - 1) |-> NewVm("cloud", CloudName(k))])
       \o rest("edge") \o rest("endpoint")

SetNames ==
    /\ pc = "placed" /\ Cloud
    /\ IF Len(machines) > 1
       THEN pc' = "aborted" /\ UNCHANGED <<vms, bases>>
       ELSE /\ vms' = [vms EXCEPT ![M] = NewVms]
            /\ bases' = [bases EXCEPT ![M] =
                           [k \in DOMAIN NewVms |-> [name |-> NewVms[k].name, ip |-> <<>>]]]
            /\ pc' = "registry"
    /\ UNCHANGED <<placement, at, software, registry, stored, created>>

-----------------------------------------------------------------------------
(* Addresses *)

\* The address that the provider gives to the k-th VM of a tier.
Given(net, t, k) == <<net, t, k>>

\* The VMs of a tier that the Terraform files declare.
Declared(t) == 1..config.nodes[t]

\* The places of a tier's VMs in the lists of the machine.
OfTier(t) == {k \in DOMAIN vms[M] : TierOf(vms[M][k]) = t}
First(t) == CHOOSE k \in OfTier(t) : \A l \in OfTier(t) : k <= l

\* What terraform apply prints after the line Outputs: an empty line, and for
\* every tier with VMs its addresses, external before internal, each in a list
\* in a list.
TerraformOutput ==
    LET text == <<>>
        block(t, net) ==
            <<text, text>> \o [k \in Declared(t) |-> Given(net, t, k)] \o <<text, text>>
        both(t) == IF config.nodes[t] = 0 THEN <<>> ELSE block(t, External) \o block(t, Internal)
    IN <<text>> \o both("cloud") \o both("edge") \o both("endpoint")

\* The categories in the order in which set_ips reads them.
Categories ==
    <<<<"cloud", External>>, <<"cloud", Internal>>, <<"edge", External>>,
      <<"edge", Internal>>, <<"endpoint", External>>, <<"endpoint", Internal>>>>

OffsetBetweenCategories == 4

\* The line of a category's first address, counted after the line Outputs:
\* lines are skipped at the start and after each category that is not empty.
LineOf(i) ==
    LET lines == [j \in DOMAIN Categories |->
                    IF OfTier(Categories[j][1]) = {} THEN 0
                    ELSE Cardinality(OfTier(Categories[j][1])) + OffsetBetweenCategories]
    IN OffsetBetweenCategories + MapThenSumSet(LAMBDA j : lines[j], 1..(i - 1))

\* The address that set_ips reads for the k-th VM, or a line without one.
ReadAddress(k, net) ==
    LET t == TierOf(vms[M][k])
        i == CHOOSE j \in DOMAIN Categories : Categories[j] = <<t, net>>
        line == LineOf(i) + k - First(t)
    IN IF line \in DOMAIN TerraformOutput THEN TerraformOutput[line] ELSE <<>>

\* The first VM of the first tier there is: lists of config or of the machine.
FirstOf(cloud, edge, endpoint) ==
    IF cloud # <<>> THEN cloud[1] ELSE IF edge # <<>> THEN edge[1] ELSE endpoint[1]

\* set_registry: the address the registry will have.
SetRegistry(list) ==
    FirstOf(WithRole(list, "controller"), WithRole(list, "edge"), WithRole(list, "endpoint")).internal

\* start_vms: all VMs run and add_ssh waits for them, or Terraform fails.
Apply ==
    /\ pc = "apply"
    /\ \/ /\ pc' = "aborted"
          /\ \E some \in SUBSET AllVms : created' = some
          /\ UNCHANGED <<vms, bases, registry>>
       \/ LET read == [k \in DOMAIN vms[M] |->
                         [vms[M][k] EXCEPT !.ip = ReadAddress(k, External),
                                           !.internal = ReadAddress(k, Internal)]]
          IN /\ created' = AllVms
             /\ vms' = [vms EXCEPT ![M] = read]
             /\ bases' = [bases EXCEPT ![M] =
                            [k \in DOMAIN read |-> [name |-> read[k].name, ip |-> read[k].ip]]]
             /\ registry' = IF config.infra_only THEN registry ELSE SetRegistry(read)
             /\ pc' = IF \E k \in DOMAIN read : <<>> \in {read[k].ip, read[k].internal}
                      THEN "failed" ELSE "install"
    /\ waiting' = (pc' = "install")
    /\ UNCHANGED <<placement, at, software, stored>>

-----------------------------------------------------------------------------
(* Software *)

\* move_registry starts a registry on this VM, and pushes the images from
\* there to the address set_registry has chosen.
RegistryVm ==
    FirstOf(CloudSsh, Ips("edge"), Ips("endpoint"))

\* The playbooks for the tiers that a name of a VM tells.
VmPlays ==
    (IF config.infra_only THEN {}
     ELSE {[group |-> BaseWord[t], item |-> t] :
             t \in {u \in Tiers : \E k \in DOMAIN bases[M] : Occurrences(u, bases[M][k].name) > 0}})
    \cup (IF config.netperf THEN {[group |-> "base", item |-> "netperf"]} ELSE {})

BaseInstall ==
    /\ pc = "install" /\ ~waiting
    /\ LET held == IF config.infra_only THEN stored
                   ELSE stored \cup {<<RegistryVm.internal, image>> :
                                       image \in {i \in Images : <<LocalRegistry, i>> \in stored}}
       IN IF config.infra_only
             \/ (registry = RegistryVm.internal /\ PullWorks(Places(bases), held))
          THEN /\ software' = Installed(Entries, VmPlays, Places(bases))
               /\ stored' = held
               /\ pc' = "running"
          ELSE pc' = "failed" /\ UNCHANGED <<software, stored>>
    /\ UNCHANGED <<placement, at, vms, bases, registry, created, waiting>>

TerraformNext == (SetNames /\ UNCHANGED waiting) \/ Apply \/ BaseInstall

-----------------------------------------------------------------------------
(* Correctness *)

\* Each VM is reached at its own address and knows the others by their
\* internal ones: set_ips finds them by counting the lines of terraform's
\* output, which leaves out tiers without VMs and puts the categories in
\* another order than outputs.tf (gcp.py:120-208, aws.py:122-210).
AddressesReported ==
    Cloud /\ pc \in {"failed", "install", "running", "shaped", "ready"} =>
        \A t \in Tiers : \A k \in OfTier(t) :
            LET number == k - First(t) + 1
            IN /\ vms[M][k].ip = Given(External, t, number)
               /\ vms[M][k].internal = Given(Internal, t, number)
=============================================================================
