------------------------- MODULE MCSchedulerCaches -------------------------
(***************************************************************************)
(* Instance of SchedulerCaches: pods with calls of their own, in common    *)
(* and with the default profile only.                                      *)
(***************************************************************************)
EXTENDS SchedulerCaches

CONSTANTS p1, p2, n1, read, write, mount

MCNameOf == [p \in Pods |-> p]
MCSyscalls == [p \in Pods |-> IF p = p1 THEN {read, write} ELSE {}]
=============================================================================
