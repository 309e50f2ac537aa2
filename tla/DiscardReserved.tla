-------------------------- MODULE DiscardReserved --------------------------
(***************************************************************************)
(* The DiscardReserved cache of NodeResourceTopologyMatch                  *)
(* (cache/discardreserved.go): a node is closed while a pod is between its *)
(* Reserve and its PostBind or Unreserve, and NRTs are read from the API   *)
(* server.  The scheduling cycle is the framework's; the pods are those    *)
(* whose Filter consults the cache, which a best-effort pod without        *)
(* devices does not.                                                       *)
(***************************************************************************)
EXTENDS PodEvents

VARIABLES
    reservationMap, \* node -> the pods reserved there
    step,           \* of a pod: "queued", "filtered", "reserved", "bound" or "done"
    target          \* the node of its cycle, or None

drVars == <<reservationMap, step, target>>

\* Mutant: the cache of passthrough.go, which has no reservations.
MutGetCachedNRTCopy(n) == TRUE

\* GetCachedNRTCopy: does it hand out the NRT of the node?
GetCachedNRTCopy(n) == reservationMap[n] = {}

\* The cycle of a pod: Filter passes on a node and the framework takes it.  One
\* cycle is under way at a time.
Filter(p, n) ==
    /\ step[p] = "queued" /\ p \notin gone /\ version[p] = Unassigned
    /\ \A q \in Pods : step[q] # "filtered"
    /\ GetCachedNRTCopy(n)
    /\ step' = [step EXCEPT ![p] = "filtered"]
    /\ target' = [target EXCEPT ![p] = n]
    /\ UNCHANGED <<api, reservationMap>>

ReserveNodeResources(p) ==
    /\ step[p] = "filtered"
    /\ step' = [step EXCEPT ![p] = "reserved"]
    /\ reservationMap' = [reservationMap EXCEPT ![target[p]] = @ \cup {p}]
    /\ UNCHANGED <<api, target>>

removeReservationForNode(p) ==
    reservationMap' = [reservationMap EXCEPT ![target[p]] = @ \ {p}]

\* The pod is bound.
Bind(p) ==
    /\ step[p] = "reserved" /\ p \notin gone
    /\ version' = [version EXCEPT ![p] = Assigned]
    /\ node' = [node EXCEPT ![p] = target[p]]
    /\ step' = [step EXCEPT ![p] = "bound"]
    /\ UNCHANGED <<gone, faults, reservationMap, target>>

PostBind(p) ==
    /\ step[p] = "bound"
    /\ step' = [step EXCEPT ![p] = "done"]
    /\ removeReservationForNode(p)
    /\ UNCHANGED <<api, target>>

\* The binding cycle fails: the pod is gone, or a fault.
UnreserveNodeResources(p) ==
    /\ step[p] = "reserved"
    /\ IF p \in gone THEN faults' = faults ELSE Fault
    /\ step' = [step EXCEPT ![p] = "queued"]
    /\ removeReservationForNode(p)
    /\ UNCHANGED <<version, node, gone, target>>

DiscardReservedStep(p) ==
    \/ \E n \in Nodes : Filter(p, n)
    \/ ReserveNodeResources(p) \/ Bind(p) \/ PostBind(p) \/ UnreserveNodeResources(p)

InitDiscardReserved ==
    /\ reservationMap = [n \in Nodes |-> {}]
    /\ step = [p \in Pods |-> "queued"] /\ target = [p \in Pods |-> None]

\* A new scheduler has no cycles under way.
NewDiscardReserved ==
    /\ reservationMap' = [n \in Nodes |-> {}]
    /\ step' = [p \in Pods |-> "queued"] /\ target' = [p \in Pods |-> None]

-----------------------------------------------------------------------------
(* Properties *)

\* An NRT is used for a decision only when no other pod is on its way to the
\* node: at most one pod is between its filter and the end of its binding
\* cycle on any node; and a closed node has such a pod, so no deletion, failed
\* bind or restart closes a node for good.
OneOnItsWay ==
    \A n \in Nodes :
        LET way == {p \in Pods : target[p] = n /\ step[p] \in {"filtered", "reserved", "bound"}}
        IN  Cardinality(way) <= 1 /\ reservationMap[n] \subseteq way
=============================================================================
