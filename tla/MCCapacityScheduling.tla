------------------------ MODULE MCCapacityScheduling ------------------------
(***************************************************************************)
(* Instances of CapacityScheduling: p1 and p2 share the quota of namespace *)
(* a, p3 is charged to namespace b.                                        *)
(***************************************************************************)
EXTENDS CapacityScheduling, TLC

CONSTANTS a, b, p1, p2, p3

MCNsOf == [p \in Pods |-> IF p = p3 THEN b ELSE a]
MCReq == [p \in Pods |-> IF p = p1 THEN 1 ELSE 2]
MCPrio == [p \in Pods |-> IF p = p2 THEN 1 ELSE 0]

MCSpecs == {[min |-> 2, max |-> 2], [min |-> Unset, max |-> Unset]}
\* A quota that borrows, and one that shuts its namespace.
MCTightSpecs == {[min |-> 1, max |-> 3], [min |-> Unset, max |-> 0]}
=============================================================================
