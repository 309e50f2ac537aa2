----------------------------- MODULE PodEvents -----------------------------
(***************************************************************************)
(* What the plugins with caches of their own see of a pod: the versions    *)
(* the API server stores, in order, and the pods a restarted scheduler     *)
(* lists.  None of this is code of the repository.                         *)
(***************************************************************************)
EXTENDS Integers, Sequences, FiniteSets

CONSTANTS Pods, Nodes, None,
    MaxFaults   \* bound: failed reads and binds, reconnected watches, restarts

\* None is the empty spec.nodeName, a node without a cache entry and a time that
\* is not set.
ASSUME NoneAssumption ==
    None \notin Nodes /\ None \notin Nat /\ \A S \in SUBSET Pods : None # S

VARIABLES
    version,    \* the number of the latest version of a pod
    node,       \* spec.nodeName of the versions from Assigned on
    gone,       \* the deleted pods
    faults

api == <<version, node, gone, faults>>

\* The versions of a pod: pending, assigned to a node, pending with a host IP,
\* running, and succeeded or failed.
Unassigned == 0
Assigned == 1
WithHostIP == 2
Running == 3
Finished == 4

\* The kubelet reports what became of an assigned pod.
Report(p) ==
    /\ p \notin gone /\ version[p] \in Assigned .. Running
    /\ version' = [version EXCEPT ![p] = @ + 1]
    /\ UNCHANGED <<node, gone, faults>>

Delete(p) ==
    /\ p \notin gone
    /\ gone' = gone \cup {p}
    /\ UNCHANGED <<version, node, faults>>

Fault == faults < MaxFaults /\ faults' = faults + 1

\* A listener of the shared informer: the version of each pod it was told of,
\* the pods it has still to be told of as additions and the deletions it was
\* told of.
NewListener == [seen |-> version, added |-> Pods \ gone, deleted |-> gone]

\* The next event of a pod: the addition of the listed version, an update to
\* the next version, or to a later one when a watch was reconnected.
NextAdded(l, p) == p \in l.added
NextUpdated(l, p, v) == p \notin l.added /\ l.seen[p] < v /\ v <= version[p]
NextDeleted(l, p) ==
    p \in gone \ (l.added \cup l.deleted) /\ l.seen[p] = version[p]

InitEvents ==
    /\ version = [p \in Pods |-> Unassigned]
    /\ node = [p \in Pods |-> None]
    /\ gone = {} /\ faults = 0
=============================================================================
