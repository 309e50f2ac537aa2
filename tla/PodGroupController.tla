------------------------- MODULE PodGroupController -------------------------
(***************************************************************************)
(* The PodGroup controller (pkg/controllers/podgroup_controller.go): its   *)
(* Reconcile keeps the status of one PodGroup from the pods that carry its *)
(* label.                                                                  *)
(*                                                                         *)
(* Reconcile reads the group and the pods from the informer cache, each at *)
(* its own time and each possibly behind the API server, and writes the    *)
(* difference between what it read and what it computed as a merge patch.  *)
(* The work queue runs one Reconcile of a key at a time.                   *)
(***************************************************************************)
EXTENDS Integers, FiniteSets

CONSTANTS
    Pods,       \* the pods that carry the group's label, in any namespace
    Foreign,    \* those in another namespace: the List of Reconcile has no
                \* namespace, so it counts them too
    MinMember,  \* spec.minMember
    Idle,       \* no Reconcile is under way
    MaxErrors   \* bound: API calls that fail

ASSUME PodGroupAssumption ==
    /\ IsFiniteSet(Pods) /\ Foreign \subseteq Pods
    /\ MinMember \in Nat \ {0}
    /\ MaxErrors \in Nat

VARIABLES
    pods,     \* API server: the phase of each pod
    seenPods, \* the pods as the cache has them
    pg,       \* API server: the status of the group
    seenPG,   \* the status as the cache has it
    behind,   \* has the group changed since? (a change back is a change)
    queued,   \* is the key of the group in the work queue?
    rec,      \* the Reconcile under way, or Idle
    errors,
    evSucceeded \* history: the pods that succeeded at some time

vars == <<pods, seenPods, pg, seenPG, behind, queued, rec, errors, evSucceeded>>

-----------------------------------------------------------------------------
(* Types and helpers *)

PodPhases == {"absent", "Pending", "Running", "Succeeded", "Failed", "gone"}
Phases == {"", "Pending", "Scheduling", "Running", "Finished", "Failed"}
Final == {"Finished", "Failed"}

Status == [phase : Phases, running : Nat, succeeded : Nat, failed : Nat]

NewStatus == [phase |-> "", running |-> 0, succeeded |-> 0, failed |-> 0]

\* The pods a List returns, and those of them in a phase.
Exist(ps) == {p \in Pods : ps[p] \notin {"absent", "gone"}}
In(ps, phase) == {p \in Pods : ps[p] = phase}
Num(ps, phase) == Cardinality(In(ps, phase))

\* getCurrentPodStats
getCurrentPodStats(status, ps) ==
    [phase |-> status.phase, running |-> Num(ps, "Running"),
     succeeded |-> Num(ps, "Succeeded"), failed |-> Num(ps, "Failed")]

\* Mutant: succeeded and running pods together finish the group.
MutPhaseOf(s, n) ==
    IF n < MinMember THEN "Pending"
    ELSE IF s.succeeded + s.running >= MinMember THEN "Finished"
    ELSE IF s.failed # 0 /\ s.failed + s.running + s.succeeded >= MinMember THEN "Failed"
    ELSE "Scheduling"

\* Mutant: the phase of the pods for the phase of the group.
MutPodPhase(s, n) ==
    IF n < MinMember THEN "Pending"
    ELSE IF s.succeeded >= MinMember THEN "Succeeded"
    ELSE IF s.failed # 0 /\ s.failed + s.running + s.succeeded >= MinMember THEN "Failed"
    ELSE IF s.succeeded + s.running >= MinMember THEN "Running"
    ELSE "Scheduling"

\* The phase the default branch gives a status with counts s, of a group
\* with n pods.  Later assignments override earlier ones.
PhaseOf(s, n) ==
    IF n < MinMember THEN "Pending"
    ELSE IF s.succeeded >= MinMember THEN "Finished"
    ELSE IF s.failed # 0 /\ s.failed + s.running + s.succeeded >= MinMember THEN "Failed"
    ELSE IF s.succeeded + s.running >= MinMember THEN "Running"
    ELSE "Scheduling"

\* What Reconcile makes of the status it read and the pods it listed.
NextStatus(old, ps) ==
    LET n == Cardinality(Exist(ps))
        counted == getCurrentPodStats(old, ps)
    IN  CASE old.phase = "" -> [old EXCEPT !.phase = "Pending"]
          [] old.phase = "Pending" ->
                 [old EXCEPT !.phase = IF n >= MinMember THEN "Scheduling" ELSE "Pending"]
          [] OTHER -> [counted EXCEPT !.phase = PhaseOf(counted, n)]

\* client.MergeFrom(old): only the fields that changed between what was read
\* and what was computed are written.
MergePatch(current, old, new) ==
    [f \in DOMAIN current |-> IF new[f] # old[f] THEN new[f] ELSE current[f]]

-----------------------------------------------------------------------------
(* The environment: pods, the informers *)

PodStep(from, to) ==
    \/ from = "absent" /\ to = "Pending"
    \/ from = "Pending" /\ to \in {"Running", "Failed"}
    \/ from = "Running" /\ to \in {"Succeeded", "Failed"}
    \/ from \notin {"absent", "gone"} /\ to = "gone"

\* The kubelet, or whoever deletes the pod.
PodChanges(p) ==
    /\ \E to \in PodPhases :
          /\ PodStep(pods[p], to)
          /\ pods' = [pods EXCEPT ![p] = to]
          /\ evSucceeded' = IF to = "Succeeded" THEN evSucceeded \cup {p} ELSE evSucceeded
    /\ UNCHANGED <<seenPods, pg, seenPG, behind, queued, rec, errors>>

\* An event of a pod reaches the cache; podToPodGroup enqueues the group of
\* the pod's own namespace.
podToPodGroup(p) ==
    /\ seenPods[p] # pods[p]
    /\ seenPods' = [seenPods EXCEPT ![p] = pods[p]]
    /\ queued' = (queued \/ p \notin Foreign)
    /\ UNCHANGED <<pods, pg, seenPG, behind, rec, errors, evSucceeded>>

\* Mutant: the controller watches pods only.
MutPodGroupEvent ==
    /\ behind
    /\ seenPG' = pg /\ behind' = FALSE
    /\ UNCHANGED <<pods, seenPods, pg, queued, rec, errors, evSucceeded>>

\* An event of the group itself: For(&PodGroup{}).  Changes made before it is
\* delivered are delivered as one.
PodGroupEvent ==
    /\ behind
    /\ seenPG' = pg /\ behind' = FALSE
    /\ queued' = TRUE
    /\ UNCHANGED <<pods, seenPods, pg, rec, errors, evSucceeded>>

-----------------------------------------------------------------------------
(* Reconcile *)

\* The group is read; a final phase ends the reconcile.
ReconcileGet ==
    /\ queued /\ rec = Idle
    /\ queued' = FALSE
    /\ rec' = IF seenPG.phase \in Final THEN Idle
              ELSE [step |-> "list", old |-> seenPG, new |-> seenPG]
    /\ UNCHANGED <<pods, seenPods, pg, seenPG, behind, errors, evSucceeded>>

\* The pods are listed and the new status is computed.
ReconcileList ==
    /\ rec # Idle /\ rec.step = "list"
    /\ rec' = [rec EXCEPT !.step = "status", !.new = NextStatus(rec.old, seenPods)]
    /\ UNCHANGED <<pods, seenPods, pg, seenPG, behind, queued, errors, evSucceeded>>

\* patchPodGroup: the status patch.
PatchStatus ==
    /\ rec # Idle /\ rec.step = "status"
    /\ pg' = MergePatch(pg, rec.old, rec.new)
    /\ behind' = (behind \/ pg' # pg)
    /\ rec' = [step |-> "object", old |-> NewStatus, new |-> NewStatus]
    /\ UNCHANGED <<pods, seenPods, seenPG, queued, errors, evSucceeded>>

\* The patch of the object holds the same status fields, which the API server
\* ignores outside the status resource: it changes nothing.
PatchObject ==
    /\ rec # Idle /\ rec.step = "object"
    /\ rec' = Idle
    /\ UNCHANGED <<pods, seenPods, pg, seenPG, behind, queued, errors, evSucceeded>>

\* A call of Reconcile fails: the key is queued again.
ReconcileFails ==
    /\ rec # Idle /\ errors < MaxErrors
    /\ errors' = errors + 1
    /\ rec' = Idle
    /\ queued' = TRUE
    /\ UNCHANGED <<pods, seenPods, pg, seenPG, behind, evSucceeded>>

\* The manager restarts: the cache is filled from the API server and every
\* object is queued.
Restart ==
    /\ errors < MaxErrors
    /\ errors' = errors + 1
    /\ seenPods' = pods /\ seenPG' = pg /\ behind' = FALSE
    /\ rec' = Idle /\ queued' = TRUE
    /\ UNCHANGED <<pods, pg, evSucceeded>>

Reconcile == ReconcileGet \/ ReconcileList \/ PatchStatus \/ PatchObject

-----------------------------------------------------------------------------
\* The pods of the other namespace have run before.
Init ==
    /\ pods = [p \in Pods |-> IF p \in Foreign THEN "Succeeded" ELSE "absent"]
    /\ seenPods = pods
    /\ pg = NewStatus /\ seenPG = NewStatus /\ behind = FALSE
    /\ queued = TRUE /\ rec = Idle /\ errors = 0
    /\ evSucceeded = Foreign

Next ==
    \/ \E p \in Pods : PodChanges(p) \/ podToPodGroup(p)
    \/ PodGroupEvent \/ Reconcile \/ ReconcileFails \/ Restart

\* The informers deliver and the worker runs; nothing makes a pod move.
Fairness ==
    /\ \A p \in Pods : WF_vars(podToPodGroup(p))
    /\ WF_vars(PodGroupEvent)
    /\ WF_vars(Reconcile)

Spec == Init /\ [][Next]_vars /\ Fairness

-----------------------------------------------------------------------------
(* Properties *)

\* The status holds counts and the phases of a PodGroup, which are not those of
\* its pods.
TypeOK ==
    /\ pods \in [Pods -> PodPhases] /\ seenPods \in [Pods -> PodPhases]
    /\ pg \in Status /\ seenPG \in Status
    /\ queued \in BOOLEAN /\ behind \in BOOLEAN
    /\ rec \in [step : {"list", "status", "object"}, old : Status, new : Status]
             \cup {Idle}
    /\ errors \in 0..MaxErrors
    /\ evSucceeded \subseteq Pods

\* A group is Finished only if minMember pods with its label did succeed,
\* however stale the cache is from which Reconcile computes the phase and
\* whatever of its patch overwrites.
FinishedJustified == pg.phase = "Finished" => Cardinality(evSucceeded) >= MinMember

\* While enough pods of its own namespace stay succeeded, a group ends in a
\* final phase and keeps it: no stale patch, failed call or restart leaves it
\* behind.
EventuallyFinal ==
    <>[](Cardinality(In(pods, "Succeeded") \ Foreign) >= MinMember)
        => <>[](pg.phase \in Final)
=============================================================================
