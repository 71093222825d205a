----------------------------- MODULE MCTaskGraph -----------------------------
(***************************************************************************)
(* TaskGraph for TLC: all but one edge at most go from a node to a later   *)
(* one, so that every graph without cycles is there in some numbering, and *)
(* every one that an edge can be taken from to leave no cycle.             *)
(***************************************************************************)
EXTENDS TaskGraph

OneEdgeBack == Cardinality({e \in Edges : Target(e) <= e[1]}) <= 1
=============================================================================
