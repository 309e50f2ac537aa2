--------------------------- MODULE VictimSelection ---------------------------
(***************************************************************************)
(* What a preemption plugin promises of SelectVictimsOnNode, whichever way *)
(* it finds the victims: pods it may take, which make room for the         *)
(* preemptor, and none of which could have been kept.                      *)
(***************************************************************************)

CONSTANT Pods

VARIABLES
    stage,   \* "idle", or "selecting" for one preemptor and node
    allowed, \* the pods the preemptor may take
    makes,   \* the sets of victims that make the room it needs
    keeps,   \* the sets of victims that leave room enough for other nominated
             \* pods too: a victim is kept when the set without it is one
    victims  \* the victims of the last selection

vars == <<stage, allowed, makes, keeps, victims>>

Init ==
    /\ stage = "idle"
    /\ allowed = {} /\ makes = {} /\ keeps = {} /\ victims = {}

\* A selection starts on a snapshot of the node and the quotas.
Start ==
    /\ stage = "idle" /\ stage' = "selecting"
    /\ allowed' \subseteq Pods
    /\ makes' \subseteq SUBSET Pods /\ keeps' \subseteq makes'
    /\ victims' = {}

\* It ends with victims.
Select ==
    /\ stage = "selecting" /\ stage' = "idle"
    /\ \E V \in (SUBSET allowed) \ {{}} :
          /\ V \in makes
          /\ \A v \in V : V \ {v} \notin keeps
          /\ victims' = V
    /\ allowed' = {} /\ makes' = {} /\ keeps' = {}

\* Or without.
GiveUp ==
    /\ stage = "selecting" /\ stage' = "idle"
    /\ victims' = {}
    /\ allowed' = {} /\ makes' = {} /\ keeps' = {}

Next == Start \/ Select \/ GiveUp

Spec == Init /\ [][Next]_vars
=============================================================================
