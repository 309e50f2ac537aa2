----------------------------- MODULE MCNeilats -----------------------------
(***************************************************************************)
(* Instance of Neilats: two configured nodes and one that is not, a pod    *)
(* with an SLA towards n1 and a pod without.                               *)
(***************************************************************************)
EXTENDS Neilats

CONSTANTS n1, n2, n3, p1, p2

MCLabels ==
    [p \in Pods |-> IF p = p1 THEN [nei |-> n1, sla |-> 50] ELSE [nei |-> None, sla |-> None]]

Load(idle, free) ==
    [cpuIdle |-> idle, memAvailable |-> 5, received |-> 1, sent |-> 1, diskFree |-> free,
     request |-> 1]
MCMetrics == {Load(9, 5), Load(2, 5)}
=============================================================================
