---------------------------- MODULE Coscheduling ----------------------------
(***************************************************************************)
(* Gang scheduling: the Coscheduling plugin (pkg/coscheduling) and its     *)
(* PodGroupManager (pkg/coscheduling/core).                                *)
(*                                                                         *)
(* The scheduling framework is the environment.  One scheduling cycle runs *)
(* at a time: it takes a snapshot of the assumed and bound pods and calls  *)
(* PreFilter, the filters, PostFilter or Permit.  A pod that waits on      *)
(* Permit stays assumed; its goroutine takes the first signal (Allow,      *)
(* Reject or the timer), and a rejected pod is unreserved and only then    *)
(* forgotten by the scheduler's cache.                                     *)
(***************************************************************************)
EXTENDS Integers, FiniteSets

CONSTANTS
    Pods,
    Groups,
    NoGroup,
    GroupOf,        \* GroupOf[p]: the PodGroup label of pod p, or NoGroup
    MinMember,      \* MinMember[g]
    Preassigned,    \* Preassigned[g]: members bound before the model starts
    HasMinResources, \* the groups with spec.minResources
    PgBackoff,      \* is PodGroupBackoffSeconds set?
    None,
    MaxFaults,      \* bound: timeouts, failed filters, checks and binds
    MaxDeletes      \* bound: deletions of pods and groups

\* Where a scheduling cycle is.
Steps == {"filter", "postfilter", "permit", "wait", "undo"}

ASSUME GroupAssumption ==
    /\ IsFiniteSet(Pods)
    /\ {NoGroup, None} \cap Groups = {} /\ NoGroup # None
    /\ GroupOf \in [Pods -> Groups \cup {NoGroup}]
    /\ MinMember \in [Groups -> Nat \ {0}]
    /\ Preassigned \in [Groups -> Nat]
    /\ HasMinResources \subseteq Groups
    /\ PgBackoff \in BOOLEAN
    /\ None \notin Pods \cup [pod : Pods, step : Steps, activate : BOOLEAN]
    /\ MaxFaults \in Nat
    /\ MaxDeletes \in Nat

VARIABLES
    group,       \* API server: the PodGroups that exist
    stage,       \* where the scheduler has a pod
    deleted,     \* API server: pods deleted while the scheduler holds them
    cycle,       \* the scheduling cycle: [pod, step, activate], or None
    snapshot,    \* the pods with a node in the cycle's snapshot
    permittedPG, \* groups that passed the resource check, a TTL cache
    backedOffPG, \* groups that failed recently, a TTL cache
    faults,
    deletes,
    lost         \* history: the groups that ever lost a pod on its way or bound

state == <<group, stage, deleted, cycle, snapshot, permittedPG, backedOffPG,
           faults, deletes>>
vars == <<state, lost>>

-----------------------------------------------------------------------------
(* Types and helpers *)

Stages == {"absent", "pool", "active", "cycle", "waiting", "allowed",
           "rejected", "forgetting", "bound", "gone"}

Members(g) == {p \in Pods : GroupOf[p] = g}

\* The pods the scheduler's cache has on a node: assumed or bound.
Assumed == {p \in Pods : stage[p] \in {"waiting", "allowed", "rejected", "forgetting", "bound"}}

\* The pods of a group the lister returns.
Listed(g) == {p \in Members(g) \ deleted : stage[p] \notin {"absent", "gone"}}
NumListed(g) == Cardinality(Listed(g)) + Preassigned[g]

\* The members of a group that run or may still come to run.
Kept == {"waiting", "allowed", "bound"}
Live(g) == {p \in Members(g) : stage[p] \in Kept}
NumLive(g) == Cardinality(Live(g)) + Preassigned[g]

WaitingOf(g) == {p \in Members(g) : stage[p] = "waiting"}

\* Mutant: the snapshot is taken to include the pod itself.
MutCalculateAssignedPods(g) == Cardinality(snapshot \cap Members(g)) + Preassigned[g] + 1

\* CalculateAssignedPods counts in the snapshot of the cycle.
CalculateAssignedPods(g) == Cardinality(snapshot \cap Members(g)) + Preassigned[g]

\* GetPodGroup: the PodGroup of a pod, or None when it has no label or the
\* PodGroup does not exist.
GetPodGroup(p) == IF GroupOf[p] \in group THEN GroupOf[p] ELSE None

\* What a pod goes back to when the scheduler gives it up.
Requeued(p) == IF p \in deleted THEN "gone" ELSE "pool"

Fault == faults < MaxFaults /\ faults' = faults + 1

\* The stage function with every waiting pod of a group signalled.
Signalled(s, g, to) ==
    [p \in Pods |-> IF p \in WaitingOf(g) THEN to ELSE s[p]]

-----------------------------------------------------------------------------
(* The scheduling cycle *)

StartCycle(p, step) ==
    cycle' = [pod |-> p, step |-> step, activate |-> FALSE]

InCycle(p, step) == cycle # None /\ cycle.pod = p /\ cycle.step = step

\* Mutant: a group needs one pod more than minMember to pass.
MutPreFilter(p) ==
    /\ cycle = None
    /\ stage[p] = "active"
    /\ stage' = [stage EXCEPT ![p] = "cycle"]
    /\ snapshot' = Assumed
    /\ LET g == GetPodGroup(p)
       IN  StartCycle(p, IF g = None THEN "filter"
                         ELSE IF g \in backedOffPG \/ NumListed(g) <= MinMember[g]
                         THEN "postfilter" ELSE "filter")
    /\ UNCHANGED <<group, deleted, permittedPG, backedOffPG, faults, deletes>>

\* A cycle starts: the snapshot is taken and PreFilter runs.
PreFilter(p) ==
    /\ cycle = None
    /\ stage[p] = "active"
    /\ stage' = [stage EXCEPT ![p] = "cycle"]
    /\ snapshot' = Assumed
    /\ LET g == GetPodGroup(p)
           denied == g \in backedOffPG \/ NumListed(g) < MinMember[g]
           unchecked == g \in HasMinResources \ permittedPG
       IN  \/ /\ g = None \/ (g # None /\ ~ denied /\ ~ unchecked)
              /\ StartCycle(p, "filter")
              /\ UNCHANGED <<permittedPG, faults>>
           \/ /\ g # None /\ denied
              /\ StartCycle(p, "postfilter")
              /\ UNCHANGED <<permittedPG, faults>>
           \* CheckClusterResource finds room for the group ...
           \/ /\ g # None /\ ~ denied /\ unchecked
              /\ StartCycle(p, "filter")
              /\ permittedPG' = permittedPG \cup {g}
              /\ UNCHANGED faults
           \* ... or a gap.
           \/ /\ g # None /\ ~ denied /\ unchecked
              /\ StartCycle(p, "postfilter")
              /\ Fault
              /\ UNCHANGED permittedPG
    /\ UNCHANGED <<group, deleted, backedOffPG, deletes>>

\* The filter plugins find a node, and the pod is assumed, or they do not.
Filter(p) ==
    /\ InCycle(p, "filter")
    /\ \/ cycle' = [cycle EXCEPT !.step = "permit"] /\ UNCHANGED faults
       \/ cycle' = [cycle EXCEPT !.step = "postfilter"] /\ Fault
    /\ UNCHANGED <<group, stage, deleted, snapshot, permittedPG, backedOffPG, deletes>>

\* A gap of at most 10% of the group.
SmallGap(g) == (MinMember[g] - CalculateAssignedPods(g)) * 10 <= MinMember[g]

BackoffPodGroup(g) == IF PgBackoff THEN backedOffPG \cup {g} ELSE backedOffPG

\* Mutant: the early returns leave the pod behind.
MutPostFilter(p) ==
    /\ InCycle(p, "postfilter")
    /\ LET g == GetPodGroup(p)
       IN  stage' = IF g = None THEN stage
                    ELSE [Signalled(stage, g, "rejected") EXCEPT ![p] = Requeued(p)]
    /\ cycle' = None
    /\ snapshot' = {}
    /\ UNCHANGED <<group, deleted, permittedPG, backedOffPG, faults, deletes>>

\* PostFilter rejects the waiting pods of the group, unless the group has its
\* quorum or nearly so, and ends the cycle.
PostFilter(p) ==
    /\ InCycle(p, "postfilter")
    /\ LET g == GetPodGroup(p)
       IN  IF g = None \/ CalculateAssignedPods(g) >= MinMember[g] \/ SmallGap(g)
           THEN /\ stage' = [stage EXCEPT ![p] = Requeued(p)]
                /\ UNCHANGED <<permittedPG, backedOffPG>>
           ELSE /\ stage' = [Signalled(stage, g, "rejected") EXCEPT ![p] = Requeued(p)]
                /\ backedOffPG' = IF NumListed(g) >= MinMember[g]
                                  THEN BackoffPodGroup(g) ELSE backedOffPG
                /\ permittedPG' = permittedPG \ {g}
    /\ cycle' = None
    /\ snapshot' = {}
    /\ UNCHANGED <<group, deleted, faults, deletes>>

\* Mutant: the quorum lets only the last pod go.
MutPermitAlone(p) ==
    /\ InCycle(p, "permit")
    /\ LET g == GetPodGroup(p)
       IN  \/ /\ g = None \/ (g # None /\ CalculateAssignedPods(g) + 1 >= MinMember[g])
              /\ stage' = [stage EXCEPT ![p] = "allowed"]
              /\ cycle' = None
           \/ /\ g # None /\ CalculateAssignedPods(g) + 1 < MinMember[g]
              /\ cycle' = [cycle EXCEPT !.step = "wait"]
              /\ UNCHANGED stage
    /\ UNCHANGED <<group, deleted, snapshot, permittedPG, backedOffPG, faults, deletes>>

\* Permit: let the pod and its waiting siblings go on when the group has its
\* quorum, reject it when its PodGroup is gone, or make it wait.
Permit(p) ==
    /\ InCycle(p, "permit")
    /\ LET g == GetPodGroup(p)
           assigned == CalculateAssignedPods(g)
       IN  \/ /\ GroupOf[p] = NoGroup
              /\ stage' = [stage EXCEPT ![p] = "allowed"]
              /\ cycle' = None
           \/ /\ GroupOf[p] # NoGroup /\ g = None
              /\ stage' = [stage EXCEPT ![p] = "rejected"]
              /\ cycle' = [cycle EXCEPT !.step = "undo"]
           \/ /\ g # None /\ assigned + 1 >= MinMember[g]
              /\ stage' = [Signalled(stage, g, "allowed") EXCEPT ![p] = "allowed"]
              /\ cycle' = None
           \/ /\ g # None /\ assigned + 1 < MinMember[g]
              /\ cycle' = [cycle EXCEPT !.step = "wait", !.activate = (assigned = 0)]
              /\ UNCHANGED stage
    /\ snapshot' = IF cycle' = None THEN {} ELSE snapshot
    /\ UNCHANGED <<group, deleted, permittedPG, backedOffPG, faults, deletes>>

\* After Permit returned Wait the framework adds the pod to its waiting pods,
\* ends the cycle and activates the siblings ActivateSiblings stashed.
AddWaitingPod(p) ==
    /\ InCycle(p, "wait")
    /\ stage' = [q \in Pods |->
                   IF q = p THEN "waiting"
                   ELSE IF cycle.activate /\ GroupOf[q] = GroupOf[p] /\ stage[q] = "pool"
                   THEN "active" ELSE stage[q]]
    /\ cycle' = None
    /\ snapshot' = {}
    /\ UNCHANGED <<group, deleted, permittedPG, backedOffPG, faults, deletes>>

-----------------------------------------------------------------------------
(* The binding goroutines, one per assumed pod *)

\* The Permit timer of a waiting pod fires.
PermitTimeout(p) ==
    /\ stage[p] = "waiting"
    /\ stage' = [stage EXCEPT ![p] = "rejected"]
    /\ Fault
    /\ UNCHANGED <<group, deleted, cycle, snapshot, permittedPG, backedOffPG, deletes>>

Bind(p) ==
    /\ stage[p] = "allowed"
    /\ \/ /\ p \notin deleted
          /\ stage' = [stage EXCEPT ![p] = "bound"]
          /\ UNCHANGED faults
       \/ /\ p \notin deleted
          /\ stage' = [stage EXCEPT ![p] = "rejected"]
          /\ Fault
       \/ /\ p \in deleted
          /\ stage' = [stage EXCEPT ![p] = "rejected"]
          /\ UNCHANGED faults
    /\ UNCHANGED <<group, deleted, cycle, snapshot, permittedPG, backedOffPG, deletes>>

\* Unreserve rejects the waiting pods of the group, while its PodGroup exists.
Unreserve(p) ==
    /\ stage[p] = "rejected"
    /\ LET g == GetPodGroup(p)
       IN  IF g = None
           THEN /\ stage' = [stage EXCEPT ![p] = "forgetting"]
                /\ UNCHANGED permittedPG
           ELSE /\ stage' = [Signalled(stage, g, "rejected") EXCEPT ![p] = "forgetting"]
                /\ permittedPG' = permittedPG \ {g}
    /\ UNCHANGED <<group, deleted, cycle, snapshot, backedOffPG, faults, deletes>>

\* The scheduler's cache forgets the pod, and the queue takes it back.
ForgetPod(p) ==
    /\ stage[p] = "forgetting"
    /\ stage' = [stage EXCEPT ![p] = Requeued(p)]
    /\ IF InCycle(p, "undo")
       THEN cycle' = None /\ snapshot' = {}
       ELSE UNCHANGED <<cycle, snapshot>>
    /\ UNCHANGED <<group, deleted, permittedPG, backedOffPG, faults, deletes>>

-----------------------------------------------------------------------------
(* The queue, the TTL caches and the API server *)

CreatePod(p) ==
    /\ stage[p] = "absent"
    /\ stage' = [stage EXCEPT ![p] = "active"]
    /\ UNCHANGED <<group, deleted, cycle, snapshot, permittedPG, backedOffPG, faults, deletes>>

\* A cluster event or the queue's periodic flush.
Activate(p) ==
    /\ stage[p] = "pool"
    /\ stage' = [stage EXCEPT ![p] = "active"]
    /\ UNCHANGED <<group, deleted, cycle, snapshot, permittedPG, backedOffPG, faults, deletes>>

ExpirePermitted(g) ==
    /\ g \in permittedPG
    /\ permittedPG' = permittedPG \ {g}
    /\ UNCHANGED <<group, stage, deleted, cycle, snapshot, backedOffPG, faults, deletes>>

ExpireBackoff(g) ==
    /\ g \in backedOffPG
    /\ backedOffPG' = backedOffPG \ {g}
    /\ UNCHANGED <<group, stage, deleted, cycle, snapshot, permittedPG, faults, deletes>>

\* A deleted pod leaves the queue or the cache; a waiting one is rejected.
DeletePod(p) ==
    /\ deletes < MaxDeletes /\ deletes' = deletes + 1
    /\ p \notin deleted /\ stage[p] \notin {"absent", "gone"}
    /\ deleted' = deleted \cup {p}
    /\ stage' = [stage EXCEPT ![p] =
                   IF @ = "waiting" THEN "rejected"
                   ELSE IF @ \in {"pool", "active", "bound"} THEN "gone" ELSE @]
    /\ UNCHANGED <<group, cycle, snapshot, permittedPG, backedOffPG, faults>>

DeleteGroup(g) ==
    /\ deletes < MaxDeletes /\ deletes' = deletes + 1
    /\ g \in group
    /\ group' = group \ {g}
    /\ UNCHANGED <<stage, deleted, cycle, snapshot, permittedPG, backedOffPG, faults>>

CreateGroup(g) ==
    /\ g \in Groups \ group
    /\ group' = group \cup {g}
    /\ UNCHANGED <<stage, deleted, cycle, snapshot, permittedPG, backedOffPG, faults, deletes>>

-----------------------------------------------------------------------------
Init ==
    /\ group \in SUBSET Groups
    /\ stage = [p \in Pods |-> "absent"]
    /\ deleted = {}
    /\ cycle = None
    /\ snapshot = {}
    /\ permittedPG = {}
    /\ backedOffPG = {}
    /\ faults = 0
    /\ deletes = 0
    /\ lost = {}

SchedulingCycle(p) ==
    PreFilter(p) \/ Filter(p) \/ PostFilter(p) \/ Permit(p) \/ AddWaitingPod(p)

BindingCycle(p) == Bind(p) \/ Unreserve(p) \/ ForgetPod(p)

Step ==
    \/ \E p \in Pods : \/ SchedulingCycle(p) \/ BindingCycle(p)
                       \/ PermitTimeout(p) \/ CreatePod(p) \/ Activate(p) \/ DeletePod(p)
    \/ \E g \in Groups : \/ ExpirePermitted(g) \/ ExpireBackoff(g)
                         \/ DeleteGroup(g) \/ CreateGroup(g)

\* A pod that was rejected, not bound or deleted is lost to its group.
Next ==
    /\ Step
    /\ lost' = lost \cup {g \in Groups : \E p \in Members(g) : stage[p] \in Kept /\ stage'[p] \notin Kept}

\* The scheduler works through its queue, cycles end, binding goroutines run,
\* the queue is flushed, and pods and groups get created.  A backoff does not
\* always run out in the middle of a cycle: it is the PostFilter of the very
\* cycle it denied that would arm it again.
Fairness ==
    /\ \A p \in Pods : /\ SF_state(PreFilter(p))
                       /\ WF_state(Filter(p) \/ PostFilter(p) \/ Permit(p) \/ AddWaitingPod(p))
                       /\ WF_state(BindingCycle(p))
                       /\ WF_state(CreatePod(p))
                       /\ WF_state(Activate(p))
    /\ \A g \in Groups : /\ SF_state(ExpireBackoff(g) /\ cycle = None)
                         /\ WF_state(CreateGroup(g))

Spec == Init /\ [][Next]_vars /\ Fairness

-----------------------------------------------------------------------------
(* Properties *)

TypeOK ==
    /\ group \subseteq Groups
    /\ stage \in [Pods -> Stages]
    /\ deleted \subseteq Pods
    /\ cycle \in [pod : Pods, step : Steps, activate : BOOLEAN] \cup {None}
    /\ snapshot \subseteq Pods
    /\ permittedPG \subseteq Groups
    /\ backedOffPG \subseteq Groups
    /\ faults \in 0 .. MaxFaults
    /\ deletes \in 0 .. MaxDeletes
    /\ lost \subseteq Groups
    /\ \A p \in Pods : stage[p] = "cycle" => cycle # None /\ cycle.pod = p

\* No group that has reached its quorum is kept waiting: with MinMember
\* members waiting, permitted or bound, none of them is still held by Permit.
\* Permit counts in a snapshot taken before the pod was assumed and signals
\* only the pods waiting at that moment; nobody else would wake the others.
NoQuorateWait ==
    \A g \in Groups : NumLive(g) >= MinMember[g] => WaitingOf(g) = {}

\* All or nothing: a member of a group is permitted or bound only together with
\* a quorum of its group, unless the group lost a pod before.  (Permit counts the
\* pods of the snapshot, so one that was rejected and is not forgotten yet makes
\* the quorum of its siblings.)
NoPartialGroup ==
    \A g \in Groups \ lost :
        LET permitted == {p \in Members(g) : stage[p] \in {"allowed", "bound"}}
        IN  permitted # {} => Cardinality(permitted) + Preassigned[g] >= MinMember[g]

\* Once timers, filters and binds stop failing, every group that keeps enough
\* members is eventually bound: neither the backoff, the permit cache nor a
\* half-rejected group keeps it from its quorum.
GangScheduled ==
    \A g \in Groups :
        <>(\/ Cardinality({p \in Members(g) : stage[p] = "bound"})
                + Preassigned[g] >= MinMember[g]
           \/ Cardinality(Members(g) \ deleted) + Preassigned[g] < MinMember[g])

=============================================================================
