---------------------------- MODULE MCEscheduler ----------------------------
(***************************************************************************)
(* Instances of Escheduler for TLC: two or three pods, two worker nodes    *)
(* and, where it matters, a controller node.                               *)
(***************************************************************************)
EXTENDS Escheduler

CONSTANTS p1, p2, f, n1, n2, c

\* Millicores in units of the smallest request.
MCCounted == [p \in Pods |-> IF p = p2 THEN 2 ELSE 1]

\* n1 is too small for p1 and p2 together; the controller could take both.
MCAllocatable == [n \in Nodes |-> IF n = c THEN 4 ELSE 2]

\* Both nodes hold one unit: every pod fits only if the other one is elsewhere.
UnitRequests == [p \in Pods |-> 1]
UnitNodes == [n \in Nodes |-> 1]
=============================================================================
