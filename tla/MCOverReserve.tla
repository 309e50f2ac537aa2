--------------------------- MODULE MCOverReserve ----------------------------
(***************************************************************************)
(* Instances of OverReserve: p1 and p2 are scheduled here, f1 is foreign,  *)
(* and s shares resources instead of owning them.                          *)
(***************************************************************************)
EXTENDS OverReserve, TLC

CONSTANTS n1, z1, z2, p1, p2, f1, s

MCReq == [p \in Pods |-> 1]
=============================================================================
