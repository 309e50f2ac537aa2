------------------------ MODULE Coscheduling_proofs ------------------------
(***************************************************************************)
(* Type correctness of gang scheduling, and its two promises: no group     *)
(* with a quorum is kept waiting, and no group runs in part unless it lost *)
(* a pod.  For any pods, groups, sizes of groups and numbers of failures.  *)
(***************************************************************************)
EXTENDS Coscheduling, FiniteSetTheorems, TLAPS

-----------------------------------------------------------------------------
(* Operators *)

Cycles == [pod : Pods, step : Steps, activate : BOOLEAN]

LEMMA NoneIsNoCycle == None \notin Cycles
    BY GroupAssumption DEF GroupAssumption, Cycles

\* The PodGroup of a pod is its label, if such a PodGroup exists.
LEMMA PodGroupOf ==
    ASSUME TypeOK, NEW p \in Pods
    PROVE  /\ GetPodGroup(p) \in Groups \cup {None}
           /\ GetPodGroup(p) # None => GetPodGroup(p) = GroupOf[p] /\ GroupOf[p] \in Groups
BY GroupAssumption DEF GroupAssumption, GetPodGroup, TypeOK

LEMMA RequeuedType == \A p : Requeued(p) \in {"gone", "pool"}
    BY DEF Requeued

\* Signalling a group moves its waiting pods, and no other.
LEMMA SignalledType ==
    ASSUME TypeOK, NEW g, NEW to \in Stages
    PROVE  /\ Signalled(stage, g, to) \in [Pods -> Stages]
           /\ \A p \in Pods : Signalled(stage, g, to)[p] =
                 IF stage[p] = "waiting" /\ GroupOf[p] = g THEN to ELSE stage[p]
BY DEF Signalled, WaitingOf, Members, TypeOK

\* What PostFilter, Permit and Unreserve make of the stages: the waiting pods of
\* a group are signalled and pod p goes on.
LEMMA SignalledExcept ==
    ASSUME TypeOK, NEW g, NEW to \in Stages, NEW p \in Pods, NEW x \in Stages,
           stage' = [Signalled(stage, g, to) EXCEPT ![p] = x]
    PROVE  /\ stage' \in [Pods -> Stages]
           /\ \A q \in Pods : stage'[q] =
                 IF q = p THEN x
                 ELSE IF stage[q] = "waiting" /\ GroupOf[q] = g THEN to ELSE stage[q]
<1> HIDE DEF Signalled
<1> QED BY SignalledType

-----------------------------------------------------------------------------
(* Type correctness *)

\* A step that leaves only the pod of its cycle in the stage "cycle".
InCycleOnly == \A p \in Pods : stage[p] = "cycle" => cycle # None /\ cycle.pod = p

LEMMA TypeStep == TypeOK /\ Step => stage' \in [Pods -> Stages] /\ InCycleOnly'
<1> SUFFICES ASSUME TypeOK, Step
             PROVE  stage' \in [Pods -> Stages] /\ InCycleOnly'
    OBVIOUS
<1> USE DEF InCycleOnly
<1>0. cycle \in Cycles \cup {None}
    BY DEF TypeOK, Cycles
<1>1. ASSUME NEW p \in Pods, PreFilter(p)
      PROVE  stage' \in [Pods -> Stages] /\ InCycleOnly'
    <2>1. /\ cycle = None /\ stage' = [stage EXCEPT ![p] = "cycle"]
          /\ \E s \in Steps : cycle' = [pod |-> p, step |-> s, activate |-> FALSE]
        BY <1>1 DEF PreFilter, StartCycle, Steps
    <2>2. cycle' \in Cycles /\ cycle'.pod = p
        BY <2>1 DEF Cycles
    <2> QED
        BY <2>1, <2>2, NoneIsNoCycle DEF TypeOK, Stages
<1>2. ASSUME NEW p \in Pods, Filter(p)
      PROVE  stage' \in [Pods -> Stages] /\ InCycleOnly'
    <2>1. cycle \in Cycles /\ cycle.pod = p /\ stage' = stage
        BY <1>0, <1>2 DEF Filter, InCycle
    <2>2. cycle' \in Cycles /\ cycle'.pod = p
        BY <1>2, <2>1 DEF Filter, Cycles, Steps
    <2> QED
        BY <2>1, <2>2, NoneIsNoCycle DEF TypeOK
<1>3. ASSUME NEW p \in Pods, PostFilter(p)
      PROVE  stage' \in [Pods -> Stages] /\ InCycleOnly'
    <2>1. cycle.pod = p /\ Requeued(p) \in Stages \ {"cycle"}
        BY <1>3, RequeuedType DEF PostFilter, InCycle, Stages
    <2>2. CASE stage' = [stage EXCEPT ![p] = Requeued(p)]
        BY <2>1, <2>2 DEF TypeOK
    <2>3. CASE stage' = [Signalled(stage, GetPodGroup(p), "rejected") EXCEPT ![p] = Requeued(p)]
        <3>1. "rejected" \in Stages BY DEF Stages
        <3> QED BY <2>1, <2>3, <3>1, SignalledExcept DEF TypeOK
    <2> QED
        BY <1>3, <2>2, <2>3 DEF PostFilter
<1>4. ASSUME NEW p \in Pods, Permit(p)
      PROVE  stage' \in [Pods -> Stages] /\ InCycleOnly'
    <2>1. cycle \in Cycles /\ cycle.pod = p
        BY <1>0, <1>4 DEF Permit, InCycle
    <2>2. "allowed" \in Stages \ {"cycle"} /\ "rejected" \in Stages \ {"cycle"}
        BY DEF Stages
    <2>3. CASE \E x \in {"allowed", "rejected"} : stage' = [stage EXCEPT ![p] = x]
        BY <2>1, <2>2, <2>3 DEF TypeOK
    <2>4. CASE stage' = [Signalled(stage, GetPodGroup(p), "allowed") EXCEPT ![p] = "allowed"]
        BY <2>1, <2>2, <2>4, SignalledExcept DEF TypeOK
    <2>5. CASE /\ stage' = stage
               /\ cycle' = [cycle EXCEPT !.step = "wait",
                                         !.activate = (CalculateAssignedPods(GetPodGroup(p)) = 0)]
        <3>1. cycle' \in Cycles /\ cycle'.pod = p
            BY <2>1, <2>5 DEF Cycles, Steps
        <3> QED BY <2>1, <2>5, <3>1, NoneIsNoCycle DEF TypeOK
    <2> QED
        BY <1>4, <2>3, <2>4, <2>5 DEF Permit
<1>5. ASSUME NEW p \in Pods, AddWaitingPod(p)
      PROVE  stage' \in [Pods -> Stages] /\ InCycleOnly'
    BY <1>5 DEF AddWaitingPod, InCycle, TypeOK, Stages
<1>6. ASSUME NEW p \in Pods, BindingCycle(p) \/ PermitTimeout(p) \/ CreatePod(p)
                               \/ Activate(p) \/ DeletePod(p)
      PROVE  stage' \in [Pods -> Stages] /\ InCycleOnly'
    <2>1. CASE Unreserve(p)
        <3>1. "rejected" \in Stages \ {"cycle"} /\ "forgetting" \in Stages \ {"cycle"}
            BY DEF Stages
        <3>2. cycle' = cycle
            BY <2>1 DEF Unreserve
        <3>3. CASE stage' = [stage EXCEPT ![p] = "forgetting"]
            BY <3>1, <3>2, <3>3 DEF TypeOK
        <3>4. CASE stage' = [Signalled(stage, GetPodGroup(p), "rejected") EXCEPT ![p] = "forgetting"]
            BY <3>1, <3>2, <3>4, SignalledExcept DEF TypeOK
        <3> QED
            BY <2>1, <3>3, <3>4 DEF Unreserve
    <2>2. CASE ForgetPod(p)
        <3>1. Requeued(p) \in Stages \ {"cycle"}
            BY RequeuedType DEF Stages
        <3>2. stage' = [stage EXCEPT ![p] = Requeued(p)] /\ stage[p] = "forgetting"
            BY <2>2 DEF ForgetPod
        <3>3. cycle' = cycle \/ (cycle.pod = p /\ cycle' = None)
            BY <2>2 DEF ForgetPod, InCycle
        <3> QED
            BY <3>1, <3>2, <3>3 DEF TypeOK
    <2>3. CASE Bind(p) \/ PermitTimeout(p)
        BY <2>3 DEF Bind, PermitTimeout, TypeOK, Stages
    <2>4. CASE CreatePod(p) \/ Activate(p) \/ DeletePod(p)
        BY <2>4 DEF CreatePod, Activate, DeletePod, TypeOK, Stages
    <2> QED
        BY <1>6, <2>1, <2>2, <2>3, <2>4 DEF BindingCycle
<1>7. ASSUME NEW g \in Groups,
             ExpirePermitted(g) \/ ExpireBackoff(g) \/ DeleteGroup(g) \/ CreateGroup(g)
      PROVE  stage' \in [Pods -> Stages] /\ InCycleOnly'
    BY <1>7 DEF ExpirePermitted, ExpireBackoff, DeleteGroup, CreateGroup, TypeOK
<1> QED
    BY <1>1, <1>2, <1>3, <1>4, <1>5, <1>6, <1>7 DEF Step, SchedulingCycle

\* The cycle a step starts or goes on with is one.
LEMMA CycleType == TypeOK /\ Step => cycle' \in Cycles \cup {None}
<1> SUFFICES ASSUME TypeOK, Step
             PROVE  cycle' \in Cycles \cup {None}
    OBVIOUS
<1>0. cycle \in Cycles \cup {None}
    BY DEF TypeOK, Cycles
<1>1. ASSUME NEW p \in Pods, PreFilter(p)
      PROVE  cycle' \in Cycles \cup {None}
    <2>1. \E s \in Steps : cycle' = [pod |-> p, step |-> s, activate |-> FALSE]
        BY <1>1 DEF PreFilter, StartCycle, Steps
    <2> QED BY <2>1 DEF Cycles
<1>2. ASSUME NEW p \in Pods, Filter(p)
      PROVE  cycle' \in Cycles \cup {None}
    <2>1. cycle \in Cycles
        BY <1>0, <1>2 DEF Filter, InCycle
    <2> QED BY <1>2, <2>1 DEF Filter, Cycles, Steps
<1>3. ASSUME NEW p \in Pods, Permit(p)
      PROVE  cycle' \in Cycles \cup {None}
    <2>1. cycle \in Cycles
        BY <1>0, <1>3 DEF Permit, InCycle
    <2>2. \A b \in BOOLEAN, x \in Steps : [cycle EXCEPT !.step = x, !.activate = b] \in Cycles
        BY <2>1 DEF Cycles
    <2>3. \A x \in Steps : [cycle EXCEPT !.step = x] \in Cycles
        BY <2>1 DEF Cycles
    <2>4. {"wait", "undo"} \subseteq Steps
        BY DEF Steps
    <2>5. (CalculateAssignedPods(GetPodGroup(p)) = 0) \in BOOLEAN
        OBVIOUS
    <2>6. \/ cycle' = None
          \/ cycle' = [cycle EXCEPT !.step = "undo"]
          \/ cycle' = [cycle EXCEPT !.step = "wait",
                                    !.activate = (CalculateAssignedPods(GetPodGroup(p)) = 0)]
        BY <1>3, Zenon DEF Permit
    <2>7. /\ [cycle EXCEPT !.step = "undo"] \in Cycles
          /\ [cycle EXCEPT !.step = "wait",
                           !.activate = (CalculateAssignedPods(GetPodGroup(p)) = 0)] \in Cycles
        BY <2>2, <2>3, <2>4, <2>5, Zenon
    <2> QED BY <2>6, <2>7, Zenon
<1>4. ASSUME NEW p \in Pods, PostFilter(p) \/ AddWaitingPod(p) \/ BindingCycle(p)
                               \/ PermitTimeout(p) \/ CreatePod(p) \/ Activate(p) \/ DeletePod(p)
      PROVE  cycle' \in Cycles \cup {None}
    BY <1>0, <1>4 DEF PostFilter, AddWaitingPod, BindingCycle, Bind, Unreserve, ForgetPod,
                      PermitTimeout, CreatePod, Activate, DeletePod
<1>5. ASSUME NEW g \in Groups,
             ExpirePermitted(g) \/ ExpireBackoff(g) \/ DeleteGroup(g) \/ CreateGroup(g)
      PROVE  cycle' \in Cycles \cup {None}
    BY <1>0, <1>5 DEF ExpirePermitted, ExpireBackoff, DeleteGroup, CreateGroup
<1> QED
    BY <1>1, <1>2, <1>3, <1>4, <1>5 DEF Step, SchedulingCycle

\* What the plugin, the API server and the bounds keep next to the stages.
Rest ==
    /\ group \subseteq Groups /\ deleted \subseteq Pods /\ snapshot \subseteq Pods
    /\ permittedPG \subseteq Groups /\ backedOffPG \subseteq Groups
    /\ faults \in 0 .. MaxFaults /\ deletes \in 0 .. MaxDeletes

LEMMA RestStep == TypeOK /\ Step => Rest'
<1> SUFFICES ASSUME TypeOK, Step
             PROVE  Rest'
    OBVIOUS
<1>0. Rest /\ MaxFaults \in Nat /\ MaxDeletes \in Nat
    BY GroupAssumption DEF GroupAssumption, TypeOK, Rest
<1>1. ASSUME NEW p \in Pods, SchedulingCycle(p)
      PROVE  Rest'
    <2>0. GetPodGroup(p) # None => GetPodGroup(p) \in Groups
        BY PodGroupOf
    <2>1. CASE PreFilter(p)
        BY <1>0, <2>0, <2>1 DEF PreFilter, Fault, Rest, Assumed
    <2>2. CASE Filter(p)
        BY <1>0, <2>2 DEF Filter, Fault, Rest
    <2>3. CASE PostFilter(p)
        BY <1>0, <2>0, <2>3 DEF PostFilter, BackoffPodGroup, Rest
    <2>4. CASE Permit(p)
        <3>1. snapshot' \in {{}, snapshot}
            BY <2>4 DEF Permit
        <3>2. UNCHANGED <<group, deleted, permittedPG, backedOffPG, faults, deletes>>
            BY <2>4 DEF Permit
        <3> QED BY <1>0, <3>1, <3>2 DEF Rest
    <2>5. CASE AddWaitingPod(p)
        BY <1>0, <2>5 DEF AddWaitingPod, Rest
    <2> QED
        BY <1>1, <2>1, <2>2, <2>3, <2>4, <2>5 DEF SchedulingCycle
<1>2. ASSUME NEW p \in Pods, BindingCycle(p)
      PROVE  Rest'
    BY <1>0, <1>2 DEF BindingCycle, Bind, Unreserve, ForgetPod, Fault, Rest
<1>3. ASSUME NEW p \in Pods, PermitTimeout(p) \/ CreatePod(p) \/ Activate(p) \/ DeletePod(p)
      PROVE  Rest'
    BY <1>0, <1>3 DEF PermitTimeout, CreatePod, Activate, DeletePod, Fault, Rest
<1>4. ASSUME NEW g \in Groups,
             ExpirePermitted(g) \/ ExpireBackoff(g) \/ DeleteGroup(g) \/ CreateGroup(g)
      PROVE  Rest'
    BY <1>0, <1>4 DEF ExpirePermitted, ExpireBackoff, DeleteGroup, CreateGroup, Rest
<1> QED
    BY <1>1, <1>2, <1>3, <1>4 DEF Step

\* The stages, the cycle and the plugin's caches are well typed for any pods and
\* groups, and a pod is in a cycle only if the scheduler works on it: none is
\* left behind by an early return of PostFilter or Permit.
THEOREM TypeCorrect == Spec => []TypeOK
<1>1. Init => TypeOK
    BY GroupAssumption DEF GroupAssumption, Init, TypeOK, Stages
<1>2. TypeOK /\ [Next]_vars => TypeOK'
    <2> SUFFICES ASSUME TypeOK, [Next]_vars
                 PROVE  TypeOK'
        OBVIOUS
    <2>1. CASE Next
        <3>1. lost' \subseteq Groups
            BY <2>1 DEF Next, TypeOK
        <3>2. Rest' /\ cycle' \in Cycles \cup {None} /\ stage' \in [Pods -> Stages] /\ InCycleOnly'
            BY <2>1, RestStep, CycleType, TypeStep DEF Next
        <3> QED BY <3>1, <3>2 DEF TypeOK, Rest, Cycles, InCycleOnly
    <2>2. CASE UNCHANGED vars
        BY <2>2 DEF TypeOK, vars, state
    <2> QED BY <2>1, <2>2
<1> QED
    BY <1>1, <1>2, PTL DEF Spec

-----------------------------------------------------------------------------
(* What a step can do to the stages and the cycle *)

Permitted == {"allowed", "bound"}
Undone == {"rejected", "forgetting"}

\* A step that starts no cycle, lets no pod go and makes none wait: pods only
\* leave, and the cycle goes on with its snapshot or ends.
Calm ==
    /\ \A q \in Pods :
          /\ stage'[q] \in Kept => stage[q] \in Kept
          /\ stage'[q] = "waiting" => stage[q] = "waiting"
          /\ stage'[q] \in Permitted => stage[q] \in Permitted
          /\ stage'[q] \in Undone => stage[q] \in Kept \cup Undone
          /\ InCycle(q, "undo") => cycle' = cycle \/ stage'[q] \notin Undone
    /\ cycle' # None => /\ cycle # None /\ cycle'.pod = cycle.pod /\ snapshot' = snapshot
                        /\ cycle'.step = "wait" => cycle.step = "wait"

Starts(p) ==
    /\ cycle = None /\ cycle' # None /\ cycle'.pod = p /\ cycle'.step # "wait"
    /\ stage[p] = "active" /\ stage' = [stage EXCEPT ![p] = "cycle"]
    /\ snapshot' = Assumed

LEMMA StepKinds ==
    ASSUME TypeOK, TypeOK', Step
    PROVE  Calm \/ \E p \in Pods : Starts(p) \/ Permit(p) \/ AddWaitingPod(p)
<1> USE DEF Kept, Permitted, Undone
<1>0. cycle \in Cycles \cup {None} /\ stage \in [Pods -> Stages] /\ stage' \in [Pods -> Stages]
    BY DEF TypeOK, Cycles
<1>1. ASSUME NEW p \in Pods, PreFilter(p)
      PROVE  Starts(p)
    <2>1. \E s \in {"filter", "postfilter"} : cycle' = [pod |-> p, step |-> s, activate |-> FALSE]
        BY <1>1 DEF PreFilter, StartCycle
    <2>2. cycle' \in Cycles /\ cycle'.pod = p /\ cycle'.step # "wait"
        BY <2>1 DEF Cycles, Steps
    <2> QED
        BY <1>1, <2>2, NoneIsNoCycle DEF PreFilter, Starts
<1>2. ASSUME NEW p \in Pods, Filter(p)
      PROVE  Calm
    <2>1. cycle \in Cycles /\ cycle # None /\ cycle.pod = p /\ cycle.step = "filter"
          /\ stage' = stage /\ snapshot' = snapshot
        BY <1>0, <1>2 DEF Filter, InCycle
    <2>2. cycle'.pod = cycle.pod /\ cycle'.step # "wait"
        BY <1>2, <2>1 DEF Filter, Cycles
    <2> QED BY <2>1, <2>2 DEF Calm, InCycle
<1>3. ASSUME NEW p \in Pods, PostFilter(p)
      PROVE  Calm
    <2>1. cycle.step = "postfilter" /\ cycle' = None
        BY <1>3 DEF PostFilter, InCycle
    <2>2. Requeued(p) \in Stages /\ Requeued(p) \notin Kept \cup Undone /\ "rejected" \in Stages
        BY RequeuedType DEF Stages
    <2>3. \A q \in Pods : \/ stage'[q] \in {stage[q], Requeued(p)}
                          \/ (stage[q] = "waiting" /\ stage'[q] = "rejected")
        <3>1. CASE stage' = [stage EXCEPT ![p] = Requeued(p)]
            BY <1>0, <3>1
        <3>2. CASE stage' = [Signalled(stage, GetPodGroup(p), "rejected") EXCEPT ![p] = Requeued(p)]
            BY <2>2, <3>2, SignalledExcept
        <3> QED BY <1>3, <3>1, <3>2 DEF PostFilter
    <2> QED BY <2>1, <2>2, <2>3 DEF Calm, InCycle
<1>4. ASSUME NEW p \in Pods, Unreserve(p)
      PROVE  Calm
    <2>1. cycle' = cycle /\ snapshot' = snapshot /\ stage[p] = "rejected"
        BY <1>4 DEF Unreserve
    <2>2. "rejected" \in Stages /\ "forgetting" \in Stages
        BY DEF Stages
    <2>3. \A q \in Pods : \/ stage'[q] = stage[q]
                          \/ stage[q] \in {"rejected", "waiting"} /\ stage'[q] \in Undone
        <3>1. CASE stage' = [stage EXCEPT ![p] = "forgetting"]
            BY <1>0, <2>1, <3>1
        <3>2. CASE stage' = [Signalled(stage, GetPodGroup(p), "rejected") EXCEPT ![p] = "forgetting"]
            BY <2>1, <2>2, <3>2, SignalledExcept
        <3> QED BY <1>4, <3>1, <3>2 DEF Unreserve
    <2> QED BY <2>1, <2>3 DEF Calm, InCycle
<1>5. ASSUME NEW p \in Pods, ForgetPod(p)
      PROVE  Calm
    <2>1. Requeued(p) \notin Kept \cup Undone
        BY RequeuedType
    <2>2. stage' = [stage EXCEPT ![p] = Requeued(p)]
        BY <1>5 DEF ForgetPod
    <2>3. \/ InCycle(p, "undo") /\ cycle' = None
          \/ cycle' = cycle /\ snapshot' = snapshot
        BY <1>5 DEF ForgetPod
    <2> QED BY <1>0, <2>1, <2>2, <2>3 DEF Calm, InCycle
<1>6. ASSUME NEW p \in Pods,
             Bind(p) \/ PermitTimeout(p) \/ CreatePod(p) \/ Activate(p) \/ DeletePod(p)
      PROVE  Calm
    BY <1>0, <1>6 DEF Bind, PermitTimeout, CreatePod, Activate, DeletePod, Calm, InCycle
<1>7. ASSUME NEW g \in Groups,
             ExpirePermitted(g) \/ ExpireBackoff(g) \/ DeleteGroup(g) \/ CreateGroup(g)
      PROVE  Calm
    BY <1>7 DEF ExpirePermitted, ExpireBackoff, DeleteGroup, CreateGroup, Calm, InCycle
<1> QED
    BY <1>1, <1>2, <1>3, <1>4, <1>5, <1>6, <1>7 DEF Step, SchedulingCycle, BindingCycle

\* The four outcomes of Permit.
LEMMA PermitKinds ==
    ASSUME TypeOK, NEW p \in Pods, Permit(p)
    PROVE  LET g == GroupOf[p]
               need == CalculateAssignedPods(g) + 1
           IN  /\ cycle # None /\ cycle.pod = p /\ cycle.step = "permit"
               /\ \/ /\ g \notin Groups
                     /\ stage' = [stage EXCEPT ![p] = "allowed"] /\ cycle' = None
                  \/ /\ stage' = [stage EXCEPT ![p] = "rejected"]
                     /\ cycle' # None /\ cycle'.pod = p /\ cycle'.step = "undo"
                     /\ snapshot' = snapshot
                  \/ /\ g \in Groups /\ need >= MinMember[g] /\ cycle' = None
                     /\ \A q \in Pods : stage'[q] =
                           IF q = p \/ (stage[q] = "waiting" /\ GroupOf[q] = g)
                           THEN "allowed" ELSE stage[q]
                  \/ /\ g \in Groups /\ need < MinMember[g] /\ stage' = stage
                     /\ cycle' # None /\ cycle'.pod = p /\ cycle'.step = "wait"
                     /\ snapshot' = snapshot
<1> DEFINE g == GroupOf[p]
           assigned == CalculateAssignedPods(GetPodGroup(p))
<1>1. cycle \in Cycles /\ cycle # None /\ cycle.pod = p /\ cycle.step = "permit"
    BY DEF TypeOK, Cycles, Permit, InCycle
<1>2. /\ [cycle EXCEPT !.step = "undo"] \in Cycles
      /\ [cycle EXCEPT !.step = "undo"].pod = p
      /\ [cycle EXCEPT !.step = "undo"].step = "undo"
    BY <1>1 DEF Cycles, Steps
<1>3. ASSUME NEW b \in BOOLEAN
      PROVE  /\ [cycle EXCEPT !.step = "wait", !.activate = b] \in Cycles
             /\ [cycle EXCEPT !.step = "wait", !.activate = b].pod = p
             /\ [cycle EXCEPT !.step = "wait", !.activate = b].step = "wait"
    BY <1>1 DEF Cycles, Steps
<1>4. NoGroup \notin Groups /\ g \in Groups \cup {NoGroup}
    BY GroupAssumption DEF GroupAssumption
<1>5. GetPodGroup(p) # None => GetPodGroup(p) = g /\ g \in Groups
    BY PodGroupOf
<1>6. CASE g = NoGroup /\ stage' = [stage EXCEPT ![p] = "allowed"] /\ cycle' = None
    BY <1>1, <1>4, <1>6
<1>7. CASE stage' = [stage EXCEPT ![p] = "rejected"] /\ cycle' = [cycle EXCEPT !.step = "undo"]
    <2>1. cycle' \in Cycles /\ cycle' # None /\ cycle'.pod = p /\ cycle'.step = "undo"
        BY <1>2, <1>7, NoneIsNoCycle
    <2>2. snapshot' = snapshot
        BY <2>1 DEF Permit
    <2> QED BY <1>1, <1>7, <2>1, <2>2
<1>8. CASE /\ GetPodGroup(p) # None /\ assigned + 1 >= MinMember[GetPodGroup(p)]
           /\ stage' = [Signalled(stage, GetPodGroup(p), "allowed") EXCEPT ![p] = "allowed"]
           /\ cycle' = None
    <2>1. "allowed" \in Stages
        BY DEF Stages
    <2>2. \A q \in Pods : stage'[q] = IF q = p THEN "allowed"
                 ELSE IF stage[q] = "waiting" /\ GroupOf[q] = GetPodGroup(p) THEN "allowed" ELSE stage[q]
        BY <1>8, <2>1, SignalledExcept
    <2> QED BY <1>1, <1>5, <1>8, <2>2
<1>9. CASE /\ GetPodGroup(p) # None /\ assigned + 1 < MinMember[GetPodGroup(p)]
           /\ cycle' = [cycle EXCEPT !.step = "wait", !.activate = (assigned = 0)]
           /\ stage' = stage
    <2>0. (assigned = 0) \in BOOLEAN
        OBVIOUS
    <2>1. cycle' \in Cycles /\ cycle'.pod = p /\ cycle'.step = "wait"
        BY <1>3, <1>9, <2>0, Zenon
    <2>2. cycle' # None
        BY <2>1, NoneIsNoCycle
    <2>3. snapshot' = snapshot
        BY <2>2 DEF Permit
    <2> QED BY <1>1, <1>5, <1>9, <2>1, <2>2, <2>3
<1> HIDE DEF assigned
<1>10. \/ g = NoGroup /\ stage' = [stage EXCEPT ![p] = "allowed"] /\ cycle' = None
       \/ stage' = [stage EXCEPT ![p] = "rejected"] /\ cycle' = [cycle EXCEPT !.step = "undo"]
       \/ /\ GetPodGroup(p) # None /\ assigned + 1 >= MinMember[GetPodGroup(p)]
          /\ stage' = [Signalled(stage, GetPodGroup(p), "allowed") EXCEPT ![p] = "allowed"]
          /\ cycle' = None
       \/ /\ GetPodGroup(p) # None /\ assigned + 1 < MinMember[GetPodGroup(p)]
          /\ cycle' = [cycle EXCEPT !.step = "wait", !.activate = (assigned = 0)]
          /\ stage' = stage
    BY Zenon DEF Permit, assigned
<1> QED BY <1>6, <1>7, <1>8, <1>9, <1>10

-----------------------------------------------------------------------------
(* No group with a quorum is kept waiting *)

\* The snapshot of a cycle holds every pod that is live, and not the cycle's own.
Snap ==
    cycle # None => /\ cycle.pod \notin snapshot
                    /\ \A p \in Pods : stage[p] \in Kept => p \in snapshot

\* A pod that Permit makes wait is of a group that is short of its quorum.
Short ==
    cycle # None /\ cycle.step = "wait" =>
        /\ GroupOf[cycle.pod] \in Groups
        /\ CalculateAssignedPods(GroupOf[cycle.pod]) + 1 < MinMember[GroupOf[cycle.pod]]

\* Sets of members can be counted.
LEMMA Counting ==
    ASSUME NEW g \in Groups, NEW S, S \subseteq Members(g)
    PROVE  /\ IsFiniteSet(S) /\ Cardinality(S) \in Nat
           /\ \A T \in SUBSET S : IsFiniteSet(T) /\ Cardinality(T) \in Nat /\ Cardinality(T) <= Cardinality(S)
           /\ Preassigned[g] \in Nat /\ MinMember[g] \in Nat
<1>1. IsFiniteSet(S)
    BY FS_Subset, GroupAssumption DEF GroupAssumption, Members
<1>2. \A T \in SUBSET S : IsFiniteSet(T) /\ Cardinality(T) <= Cardinality(S)
    BY <1>1, FS_Subset
<1>3. Preassigned[g] \in Nat /\ MinMember[g] \in Nat
    BY GroupAssumption DEF GroupAssumption
<1> QED BY <1>1, <1>2, <1>3, FS_CardinalityType

LEMMA SnapStep ==
    ASSUME TypeOK, TypeOK', Step, Snap
    PROVE  Snap'
<1>1. CASE Calm
    BY <1>1 DEF Calm, Snap
<1>2. ASSUME NEW p \in Pods, Starts(p)
      PROVE  Snap'
    BY <1>2 DEF Starts, Snap, Assumed, Kept, TypeOK
<1>3. ASSUME NEW p \in Pods, Permit(p)
      PROVE  Snap'
    <2>1. cycle # None /\ cycle.pod = p
        BY <1>3, PermitKinds
    <2>2. cycle' # None => /\ cycle'.pod = p /\ snapshot' = snapshot
                           /\ stage' = stage \/ stage' = [stage EXCEPT ![p] = "rejected"]
        BY <1>3, PermitKinds
    <2> QED BY <2>1, <2>2 DEF Snap, Kept, TypeOK
<1>4. ASSUME NEW p \in Pods, AddWaitingPod(p)
      PROVE  Snap'
    BY <1>4 DEF AddWaitingPod, Snap
<1> QED
    BY <1>1, <1>2, <1>3, <1>4, StepKinds

LEMMA ShortStep ==
    ASSUME TypeOK, TypeOK', Step, Short
    PROVE  Short'
<1>1. CASE Calm
    BY <1>1 DEF Calm, Short, CalculateAssignedPods
<1>2. ASSUME NEW p \in Pods, Starts(p)
      PROVE  Short'
    BY <1>2 DEF Starts, Short
<1>3. ASSUME NEW p \in Pods, Permit(p)
      PROVE  Short'
    <2>1. cycle' # None /\ cycle'.step = "wait" =>
             /\ cycle'.pod = p /\ snapshot' = snapshot /\ GroupOf[p] \in Groups
             /\ CalculateAssignedPods(GroupOf[p]) + 1 < MinMember[GroupOf[p]]
        BY <1>3, PermitKinds
    <2> QED BY <2>1 DEF Short, CalculateAssignedPods
<1>4. ASSUME NEW p \in Pods, AddWaitingPod(p)
      PROVE  Short'
    BY <1>4 DEF AddWaitingPod, Short
<1> QED
    BY <1>1, <1>2, <1>3, <1>4, StepKinds

QuorateWait(g) == NumLive(g) >= MinMember[g] => WaitingOf(g) = {}

\* A group that gains no live pod and no waiting one keeps what it has.
LEMMA FewerWait ==
    ASSUME NEW g \in Groups, QuorateWait(g),
           Live(g)' \subseteq Live(g), WaitingOf(g)' \subseteq WaitingOf(g)
    PROVE  QuorateWait(g)'
<1>1. Live(g) \subseteq Members(g)
    BY DEF Live
<1>2. /\ Cardinality(Live(g)) \in Nat /\ Cardinality(Live(g)') \in Nat
      /\ Cardinality(Live(g)') <= Cardinality(Live(g))
      /\ Preassigned[g] \in Nat /\ MinMember[g] \in Nat
    BY <1>1, Counting
<1> HIDE DEF Live, WaitingOf
<1>3. NumLive(g)' >= MinMember[g] => NumLive(g) >= MinMember[g]
    BY <1>2 DEF NumLive
<1> QED BY <1>3 DEF QuorateWait

LEMMA QuorateStep ==
    ASSUME TypeOK, TypeOK', Step, Snap, Short, NEW g \in Groups, QuorateWait(g)
    PROVE  QuorateWait(g)'
<1>0. stage \in [Pods -> Stages] /\ stage' \in [Pods -> Stages]
    BY DEF TypeOK
<1>1. CASE Calm
    BY <1>1, FewerWait DEF Calm, Live, WaitingOf, Members
<1>2. ASSUME NEW p \in Pods, Starts(p)
      PROVE  QuorateWait(g)'
    <2>1. Live(g)' \subseteq Live(g) /\ WaitingOf(g)' \subseteq WaitingOf(g)
        BY <1>0, <1>2 DEF Starts, Live, WaitingOf, Members, Kept
    <2> QED BY <2>1, FewerWait
<1>3. ASSUME NEW p \in Pods, Permit(p)
      PROVE  QuorateWait(g)'
    <2>1. \/ GroupOf[p] \notin Groups /\ stage' = [stage EXCEPT ![p] = "allowed"]
          \/ stage' = [stage EXCEPT ![p] = "rejected"]
          \/ \A q \in Pods : stage'[q] = IF q = p \/ (stage[q] = "waiting" /\ GroupOf[q] = GroupOf[p])
                                         THEN "allowed" ELSE stage[q]
          \/ stage' = stage
        BY <1>3, PermitKinds
    <2>2. CASE GroupOf[p] = g /\ \A q \in Pods :
                 stage'[q] = IF q = p \/ (stage[q] = "waiting" /\ GroupOf[q] = GroupOf[p])
                             THEN "allowed" ELSE stage[q]
        <3>1. WaitingOf(g)' = {}
            BY <2>2 DEF WaitingOf, Members
        <3> QED BY <3>1 DEF QuorateWait
    <2>3. CASE ~ (GroupOf[p] = g /\ \A q \in Pods :
                    stage'[q] = IF q = p \/ (stage[q] = "waiting" /\ GroupOf[q] = GroupOf[p])
                                THEN "allowed" ELSE stage[q])
        <3>1. Live(g)' \subseteq Live(g) /\ WaitingOf(g)' \subseteq WaitingOf(g)
            BY <1>0, <2>1, <2>3 DEF Live, WaitingOf, Members, Kept
        <3> QED BY <3>1, FewerWait
    <2> QED BY <2>2, <2>3
<1>4. ASSUME NEW p \in Pods, AddWaitingPod(p)
      PROVE  QuorateWait(g)'
    <2>1. /\ cycle # None /\ cycle.pod = p /\ cycle.step = "wait" /\ stage'[p] = "waiting"
          /\ \A q \in Pods \ {p} : stage'[q] = stage[q] \/ (stage[q] = "pool" /\ stage'[q] = "active")
        BY <1>4 DEF AddWaitingPod, InCycle
    <2>2. CASE GroupOf[p] # g
        <3>1. Live(g)' \subseteq Live(g) /\ WaitingOf(g)' \subseteq WaitingOf(g)
            BY <2>1, <2>2 DEF Live, WaitingOf, Members, Kept
        <3> QED BY <3>1, FewerWait
    <2>3. CASE GroupOf[p] = g
        <3> DEFINE S == snapshot \cap Members(g)
        <3>1. Live(g)' \subseteq S \cup {p}
            BY <2>1 DEF Live, Members, Kept, Snap
        <3>2. S \subseteq Members(g) /\ S \cup {p} \subseteq Members(g)
            BY <2>3 DEF Members
        <3>3. p \notin S
            BY <2>1 DEF Snap
        <3> HIDE DEF S
        <3>4. Cardinality(S \cup {p}) = Cardinality(S) + 1
            BY <3>2, <3>3, Counting, FS_AddElement
        <3>5. Cardinality(Live(g)') <= Cardinality(S) + 1
            BY <3>1, <3>2, <3>4, Counting
        <3>6. Cardinality(S) + Preassigned[g] + 1 < MinMember[g]
            BY <2>1, <2>3 DEF Short, CalculateAssignedPods, S
        <3>7. Cardinality(Live(g)') \in Nat /\ Cardinality(S) \in Nat
              /\ Preassigned[g] \in Nat /\ MinMember[g] \in Nat
            BY <3>1, <3>2, Counting
        <3> HIDE DEF Live
        <3>8. ~ (NumLive(g)' >= MinMember[g])
            BY <3>5, <3>6, <3>7 DEF NumLive
        <3> QED BY <3>8 DEF QuorateWait
    <2> QED BY <2>2, <2>3
<1> QED
    BY <1>1, <1>2, <1>3, <1>4, StepKinds

\* No interleaving of cycles, timers, failures and deletions leaves a group
\* with MinMember live members while one of them is held by Permit, although
\* Permit counts in a snapshot and wakes only the pods that wait at that moment.
THEOREM NoQuorumWaits == Spec => []NoQuorateWait
<1> DEFINE Inv == Snap /\ Short /\ NoQuorateWait
<1>1. Init => Inv
    <2> SUFFICES ASSUME Init PROVE Inv
        OBVIOUS
    <2>1. cycle = None /\ \A g : WaitingOf(g) = {}
        BY DEF Init, WaitingOf, Members
    <2> QED BY <2>1 DEF Snap, Short, NoQuorateWait
<1>2. TypeOK /\ TypeOK' /\ Inv /\ [Next]_vars => Inv'
    <2> SUFFICES ASSUME TypeOK, TypeOK', Inv, [Next]_vars
                 PROVE  Inv'
        OBVIOUS
    <2>1. CASE Next
        <3>1. Step
            BY <2>1 DEF Next
        <3>2. \A g \in Groups : QuorateWait(g)
            BY DEF NoQuorateWait, QuorateWait
        <3>3. \A g \in Groups : QuorateWait(g)'
            BY <3>1, <3>2, QuorateStep
        <3>4. NoQuorateWait'
            BY <3>3 DEF NoQuorateWait, QuorateWait
        <3> QED BY <3>1, <3>4, SnapStep, ShortStep
    <2>2. CASE UNCHANGED vars
        BY <2>2 DEF vars, state, Snap, Short, NoQuorateWait, CalculateAssignedPods,
                    NumLive, Live, WaitingOf, Members
    <2> QED BY <2>1, <2>2
<1> QED
    BY <1>1, <1>2, TypeCorrect, PTL DEF Spec

-----------------------------------------------------------------------------
(* No group runs in part, unless it lost a pod *)

PermittedOf(g) == {p \in Members(g) : stage[p] \in Permitted}
Enough(g) == PermittedOf(g) # {} => Cardinality(PermittedOf(g)) + Preassigned[g] >= MinMember[g]

\* A group that lost no pod: only the pod of a cycle that is being undone is on
\* its way out, and what the cycle's snapshot counts is live.
Whole(g) ==
    /\ \A p \in Members(g) : stage[p] \in Undone => InCycle(p, "undo")
    /\ cycle # None => \A p \in Members(g) \cap snapshot : stage[p] \in Kept
    /\ Enough(g)

LEMMA SamePermitted ==
    ASSUME NEW g \in Groups, Enough(g), PermittedOf(g)' = PermittedOf(g)
    PROVE  Enough(g)'
BY DEF Enough

LEMMA WholeStep ==
    ASSUME TypeOK, TypeOK', Step, Snap, NEW g \in Groups, Whole(g),
           \A p \in Members(g) : stage[p] \in Kept => stage'[p] \in Kept
    PROVE  Whole(g)'
<1> USE DEF Kept, Permitted, Undone
<1>0. stage \in [Pods -> Stages] /\ stage' \in [Pods -> Stages] /\ Members(g) \subseteq Pods
      /\ Members(g)' = Members(g)
    BY DEF TypeOK, Members
<1>1. CASE Calm
    <2>1. PermittedOf(g)' = PermittedOf(g)
        BY <1>0, <1>1 DEF Calm, PermittedOf
    <2>2. \A p \in Members(g) : stage'[p] \in Undone => InCycle(p, "undo")'
        BY <1>0, <1>1 DEF Calm, Whole, InCycle
    <2>3. cycle' # None => \A p \in Members(g) \cap snapshot' : stage'[p] \in Kept
        BY <1>0, <1>1 DEF Calm, Whole
    <2> QED BY <1>0, <2>1, <2>2, <2>3, SamePermitted DEF Whole
<1>2. ASSUME NEW p \in Pods, Starts(p)
      PROVE  Whole(g)'
    <2>1. /\ cycle = None /\ stage[p] = "active" /\ snapshot' = Assumed
          /\ stage'[p] = "cycle" /\ \A q \in Pods \ {p} : stage'[q] = stage[q]
        BY <1>0, <1>2 DEF Starts
    <2>2. PermittedOf(g)' = PermittedOf(g)
        BY <1>0, <2>1 DEF PermittedOf
    <2>3. \A q \in Members(g) : stage[q] \notin Undone
        BY <2>1 DEF Whole, InCycle
    <2>4. \A q \in Members(g) \cap snapshot' : stage'[q] \in Kept
        BY <1>0, <2>1, <2>3 DEF Assumed
    <2>5. \A q \in Members(g) : stage'[q] \notin Undone
        BY <1>0, <2>1, <2>3
    <2> QED BY <1>0, <2>2, <2>4, <2>5, SamePermitted DEF Whole
<1>3. ASSUME NEW p \in Pods, Permit(p)
      PROVE  Whole(g)'
    <2> DEFINE Quorum == /\ GroupOf[p] \in Groups
                         /\ CalculateAssignedPods(GroupOf[p]) + 1 >= MinMember[GroupOf[p]]
                         /\ cycle' = None
                         /\ \A q \in Pods : stage'[q] =
                               IF q = p \/ (stage[q] = "waiting" /\ GroupOf[q] = GroupOf[p])
                               THEN "allowed" ELSE stage[q]
    <2>1. cycle # None /\ cycle.pod = p /\ cycle.step = "permit"
        BY <1>3, PermitKinds
    <2>2. \A q \in Members(g) : stage[q] \notin Undone
        BY <2>1 DEF Whole, InCycle
    <2>3. p \notin snapshot /\ stage[p] \notin Kept
        BY <2>1 DEF Snap
    <2>4. \/ Quorum
          \/ /\ \A q \in Pods \ {p} : stage'[q] = stage[q]
             /\ \/ GroupOf[p] \notin Groups /\ cycle' = None
                \/ stage'[p] = "rejected" /\ cycle' # None /\ cycle'.pod = p
                   /\ cycle'.step = "undo" /\ snapshot' = snapshot
                \/ stage'[p] = stage[p] /\ snapshot' = snapshot
        BY <1>0, <1>3, PermitKinds
    <2>5. CASE Quorum /\ GroupOf[p] = g
        <3> DEFINE S == snapshot \cap Members(g)
        <3>1. S \cup {p} \subseteq PermittedOf(g)'
            BY <1>0, <2>1, <2>5 DEF PermittedOf, Members, Whole
        <3>2. PermittedOf(g)' \subseteq Members(g) /\ S \subseteq Members(g)
            BY <1>0 DEF PermittedOf
        <3>3. p \notin S
            BY <2>3
        <3>4. CalculateAssignedPods(g) = Cardinality(S) + Preassigned[g]
            BY DEF CalculateAssignedPods
        <3> HIDE DEF S
        <3>5. Cardinality(S \cup {p}) = Cardinality(S) + 1
            BY <3>2, <3>3, Counting, FS_AddElement
        <3>6. Cardinality(S) + 1 <= Cardinality(PermittedOf(g)')
            BY <3>1, <3>2, <3>5, Counting
        <3>7. Cardinality(S) \in Nat /\ Cardinality(PermittedOf(g)') \in Nat
              /\ Preassigned[g] \in Nat /\ MinMember[g] \in Nat
            BY <3>2, Counting
        <3>8. Cardinality(PermittedOf(g)') + Preassigned[g] >= MinMember[g]
            BY <2>5, <3>4, <3>6, <3>7
        <3>9. Enough(g)'
            BY <3>8 DEF Enough
        <3>10. \A q \in Members(g) : stage'[q] \notin Undone
            BY <1>0, <2>2, <2>5
        <3> QED BY <1>0, <2>5, <3>9, <3>10 DEF Whole
    <2>6. CASE Quorum /\ GroupOf[p] # g
        <3>1. \A q \in Members(g) : stage'[q] = stage[q]
            BY <1>0, <2>6 DEF Members
        <3>2. PermittedOf(g)' = PermittedOf(g)
            BY <1>0, <3>1 DEF PermittedOf
        <3> QED BY <1>0, <2>2, <2>6, <3>1, <3>2, SamePermitted DEF Whole
    <2>7. CASE ~ Quorum
        <3>1. PermittedOf(g)' = PermittedOf(g)
            BY <1>0, <2>3, <2>4, <2>7 DEF PermittedOf, Members
        <3>2. \A q \in Members(g) : stage'[q] \in Undone => InCycle(q, "undo")'
            BY <1>0, <2>2, <2>4, <2>7 DEF Members, InCycle
        <3>3. cycle' # None => \A q \in Members(g) \cap snapshot' : stage'[q] \in Kept
            BY <1>0, <2>1, <2>4, <2>7 DEF Whole
        <3> QED BY <1>0, <3>1, <3>2, <3>3, SamePermitted DEF Whole
    <2> QED BY <2>5, <2>6, <2>7
<1>4. ASSUME NEW p \in Pods, AddWaitingPod(p)
      PROVE  Whole(g)'
    <2>1. /\ cycle # None /\ cycle.pod = p /\ cycle.step = "wait" /\ cycle' = None
          /\ stage'[p] = "waiting"
          /\ \A q \in Pods \ {p} : stage'[q] = stage[q] \/ (stage[q] = "pool" /\ stage'[q] = "active")
        BY <1>4 DEF AddWaitingPod, InCycle
    <2>2. \A q \in Members(g) : stage[q] \notin Undone
        BY <2>1 DEF Whole, InCycle
    <2>3. stage[p] \notin Kept
        BY <2>1 DEF Snap
    <2>4. PermittedOf(g)' = PermittedOf(g)
        BY <1>0, <2>1, <2>3 DEF PermittedOf
    <2>5. \A q \in Members(g) : stage'[q] \notin Undone
        BY <1>0, <2>1, <2>2
    <2> QED BY <1>0, <2>1, <2>4, <2>5, SamePermitted DEF Whole
<1> QED
    BY <1>1, <1>2, <1>3, <1>4, StepKinds

\* A group that never lost a pod to a timer, a failed bind, a rejection or a
\* deletion has no member permitted or bound without a quorum of them, whatever
\* comes between the snapshot that Permit counts in and the pods it lets go.
THEOREM NoGroupInPart == Spec => []NoPartialGroup
<1> DEFINE Inv == Snap /\ \A g \in Groups \ lost : Whole(g)
<1>1. Init => Inv
    <2> SUFFICES ASSUME Init PROVE Inv
        OBVIOUS
    <2>1. cycle = None /\ \A p \in Pods : stage[p] = "absent"
        BY DEF Init
    <2>2. \A g : PermittedOf(g) = {}
        BY <2>1 DEF PermittedOf, Members, Permitted
    <2> QED BY <2>1, <2>2 DEF Snap, Whole, Enough, Members, Undone
<1>2. TypeOK /\ TypeOK' /\ Inv /\ [Next]_vars => Inv'
    <2> SUFFICES ASSUME TypeOK, TypeOK', Inv, [Next]_vars
                 PROVE  Inv'
        OBVIOUS
    <2>1. CASE Next
        <3>1. Step /\ lost \subseteq lost'
            BY <2>1 DEF Next
        <3>2. \A g \in Groups \ lost' : \A p \in Members(g) : stage[p] \in Kept => stage'[p] \in Kept
            BY <2>1 DEF Next
        <3>3. \A g \in Groups \ lost' : Whole(g)'
            BY <3>1, <3>2, WholeStep
        <3> QED BY <3>1, <3>3, SnapStep
    <2>2. CASE UNCHANGED vars
        BY <2>2 DEF vars, state, Snap, Whole, Enough, PermittedOf, Members, InCycle
    <2> QED BY <2>1, <2>2
<1>3. Inv => NoPartialGroup
    BY DEF NoPartialGroup, Whole, Enough, PermittedOf, Permitted
<1> QED
    BY <1>1, <1>2, <1>3, TypeCorrect, PTL DEF Spec
=============================================================================
