--------------------------- MODULE MCEnergyMetrics ---------------------------
(***************************************************************************)
(* Two pods that come and go, three samples, one fault.  Both are replicas *)
(* of one job j; q has an app label that is not its job.                   *)
(***************************************************************************)
EXTENDS EnergyMetrics

CONSTANTS p, q, j

PodNames == {p, q, j}
OwnName == [x \in Pods |-> x]
OneJob == [x \in Pods |-> j]
AppLabels == [x \in Pods |-> IF x = p THEN j ELSE q]
==============================================================================
