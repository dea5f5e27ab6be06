--------------------------- MODULE MCNodeSelection ---------------------------
(***************************************************************************)
(* All calls of selectNode on three nodes, one of them a controller, and   *)
(* at most two listed pods of two apps, one of which microWatts knows.     *)
(***************************************************************************)
EXTENDS NodeSelection, SequencesExt

CONSTANTS a, b, c, x, y

MCFitLists == UNION {SetToSeqs(S) : S \in SUBSET Nodes}
MCPodLists == SeqOf([node : {a, b, Unbound}, app : Apps, labelled : {FALSE}]
                        \cup {[node |-> a, app |-> x, labelled |-> TRUE]}, 2)
MCNodeWatts == [{a, b} -> 1..3] \cup [{a} -> 1..2] \cup {[n \in Nodes |-> 1]}
MCPodWatts == {[p \in {x} |-> 2], [p \in {} |-> 0]}
MCAverages == {1}
==============================================================================
