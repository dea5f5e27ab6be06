------------------------------- MODULE MCReruns -------------------------------
(***************************************************************************)
(* Two machines; configurations with both, with the local one alone and    *)
(* with the other one alone, and two Kubernetes versions.                  *)
(***************************************************************************)
EXTENDS Reruns

Both(v) == [vms |-> <<1, 1>>, version |-> v]
Local(v) == [vms |-> <<2, 0>>, version |-> v]
Remote(v) == [vms |-> <<0, 1>>, version |-> v]

MCExperiments == <<Local("v1"), Both("v1")>>
MCMicroBenchmarks == {<<Both("v1"), Local("v1")>>, <<Local("v1"), Both("v1")>>}
MCByHand == {Both("v2"), Remote("v1")}
=============================================================================
