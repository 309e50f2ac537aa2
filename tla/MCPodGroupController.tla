------------------------ MODULE MCPodGroupController ------------------------
(***************************************************************************)
(* Instance of PodGroupController: p1 and p2 are in the namespace of the   *)
(* group, p3 carries the same label in another one.                        *)
(***************************************************************************)
EXTENDS PodGroupController

CONSTANTS p1, p2, p3
=============================================================================
