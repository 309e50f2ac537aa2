--------------------------- MODULE MCCoscheduling ---------------------------
(***************************************************************************)
(* Instance of Coscheduling: p1, p2 and p3 are members of group g1, p4 is  *)
(* of no group.                                                            *)
(***************************************************************************)
EXTENDS Coscheduling

CONSTANTS p1, p2, p3, p4, g1

MCGroupOf == [p \in Pods |-> IF p = p4 THEN NoGroup ELSE g1]

\* A group of ten with eight members bound: one more member is within the 10%
\* of PostFilter, none is not.
MCMinMemberTen == [x \in Groups |-> 10]
MCEightPreassigned == [x \in Groups |-> 8]
=============================================================================
