------------------------------ MODULE PodBinding ------------------------------
(***************************************************************************)
(* What a scheduler promises to the cluster, whatever loops, locks and     *)
(* retries it is built from: a pod that exists is assigned to a node at    *)
(* most once and keeps that node for as long as it lives, and only worker  *)
(* nodes are chosen.  A pod is assigned to a node with room for it beside  *)
(* the pods there, unless the scheduler is blind for the node: some of the *)
(* pods it has placed there are missing from what the API server tells it. *)
(* That never happens to the first pod of a node, and no pod goes to a     *)
(* node that is too small for it alone.  Pods that another scheduler owns  *)
(* (Foreign) may in addition be placed by that scheduler, which follows    *)
(* rules of its own and whose pods are therefore not counted in Load.      *)
(*                                                                         *)
(* Escheduler implements this specification; see Escheduler!Binding.       *)
(***************************************************************************)
EXTENDS Naturals, FiniteSetsExt

CONSTANTS
    Pods, Nodes, NoNode,
    Controllers,    \* nodes no pod is assigned to
    Foreign,        \* pods another scheduler may place
    Counted,        \* [Pods -> Nat], the CPU request the scheduler sees
    Allocatable     \* [Nodes -> Nat], the CPU a node offers

VARIABLES
    life,       \* [Pods -> {"none", "live", "gone"}]
    assigned,   \* [Pods -> Nodes \cup {NoNode}]
    blind       \* nodes whose last assignment was a blind one

vars == <<life, assigned, blind>>

Init ==
    /\ life = [p \in Pods |-> "none"]
    /\ assigned = [p \in Pods |-> NoNode]
    /\ blind = {}

\* CPU claimed on node n by the live pods of this scheduler, and by pod p.
LoadWith(p, n) ==
    MapThenSumSet(LAMBDA q : Counted[q],
                  {p} \cup {q \in Pods \ Foreign :
                              life[q] = "live" /\ assigned[q] = n})

Create(p) ==
    /\ life[p] = "none"
    /\ life' = [life EXCEPT ![p] = "live"]
    /\ UNCHANGED <<assigned, blind>>

Remove(p) ==
    /\ life[p] = "live"
    /\ life' = [life EXCEPT ![p] = "gone"]
    /\ UNCHANGED <<assigned, blind>>

Place(p, n) ==
    /\ life[p] = "live"
    /\ assigned[p] = NoNode
    /\ assigned' = [assigned EXCEPT ![p] = n]
    /\ UNCHANGED life

Assign(p, n) ==
    /\ Place(p, n)
    /\ n \notin Controllers
    /\ LoadWith(p, n) <= Allocatable[n]
    /\ blind' = blind \ {n}

AssignBlind(p, n) ==
    /\ Place(p, n)
    /\ n \notin Controllers
    /\ \E q \in (Pods \ Foreign) \ {p} : assigned[q] = n
    /\ Counted[p] <= Allocatable[n]
    /\ blind' = blind \cup {n}

PlacedByOther(p, n) ==
    /\ p \in Foreign
    /\ Place(p, n)
    /\ UNCHANGED blind

Next ==
    \E p \in Pods :
        \/ Create(p)
        \/ Remove(p)
        \/ \E n \in Nodes : Assign(p, n) \/ AssignBlind(p, n) \/ PlacedByOther(p, n)

Spec == Init /\ [][Next]_vars
===============================================================================
