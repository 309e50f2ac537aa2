----------------------------- MODULE Preemption -----------------------------
(***************************************************************************)
(* Preemption on one node by the CapacityScheduling plugin                 *)
(* (pkg/capacityscheduling/capacity_scheduling.go) or by the               *)
(* PreemptionToleration plugin (pkg/preemptiontoleration), over several    *)
(* scheduling cycles of one preemptor: PodEligibleToPreemptOthers,         *)
(* SelectVictimsOnNode pod by pod, the termination of the victims and the  *)
(* next try.  The two functions share the skeleton of the default plugin.  *)
(*                                                                         *)
(* The framework evicts the victims of a selection and nominates the       *)
(* preemptor; the kubelet ends them in its own time, and other pods may    *)
(* take the room meanwhile.                                                *)
(***************************************************************************)
EXTENDS PreemptionToleration, FiniteSets, Functions

CONSTANTS
    Pods,       \* the pods that are on the node or come to it
    Late,       \* those that come later
    Namespaces,
    NsOf, Prio, Req,
    Rank,       \* the order of MoreImportantPod: higher is more important
    Class,      \* the PriorityClass of a pod, or Unset
    ScheduledAt,
    Preemptor,  \* a record [ns, priority, req]
    Configs,    \* the configurations Init chooses from: the plugin, the
                \* quotas, the requests of other nominated pods, the PDBs, the
                \* capacity of the node and whether late pods come
    None,
    MaxNow      \* bound: the clock

Quota == [min : Nat, max : Nat, elsewhere : Nat]
Infos == [Namespaces -> {None} \cup [min : Nat, max : Nat, used : Int]]
Annotation == Int \cup {Unset, Invalid}
PriorityClass ==
    [value : Int, minimumPreemptablePriority : Annotation, tolerationSeconds : Annotation]

\* The state of SelectVictimsOnNode between two of its steps.
Selections ==
    [step : {"remove", "reprieve"}, on : SUBSET Pods, node : SUBSET Pods, left : SUBSET Pods,
     eq : Infos, curTime : Nat, moreThanMin : BOOLEAN, potential : SUBSET Pods,
     violating : SUBSET Pods, victims : SUBSET Pods, count : Nat]

ASSUME PreemptionAssumption ==
    /\ IsFiniteSet(Pods) /\ Late \subseteq Pods /\ IsFiniteSet(Namespaces)
    /\ NsOf \in [Pods -> Namespaces] /\ Prio \in [Pods -> Int] /\ Req \in [Pods -> Nat]
    /\ Rank \in [Pods -> Nat]
    /\ \A p, q \in Pods : /\ Rank[p] = Rank[q] => p = q
                          /\ Prio[p] < Prio[q] => Rank[p] < Rank[q]
    /\ Class \in [Pods -> {Unset, None} \cup PriorityClass]
    /\ ScheduledAt \in [Pods -> Nat \cup {Unset}]
    /\ Preemptor \in [ns : Namespaces, priority : Int, req : Nat]
    /\ \A c \in Configs :
          /\ c.capacity \in Nat /\ c.quotas \in [Namespaces -> {None} \cup Quota]
          /\ c.nominated \in [inEQ : Nat, all : Nat, here : Nat]
    /\ MaxNow \in Nat /\ MaxDuration \in Nat

ASSUME DistinctAssumption ==
    /\ None \notin {Unset} \cup [min : Nat, max : Nat, used : Int] \cup Selections
    /\ Unset \notin Int /\ Invalid \notin Int \cup {Unset} \cup [minimum : Int, seconds : Int]

VARIABLES
    conf,       \* the configuration
    onNode,     \* the pods on the node
    terminating,\* those that are being deleted
    came,       \* the late pods that have come
    nominated,  \* has the preemptor been nominated to the node?
    bound,      \* is it bound to it?
    now,
    sel,        \* the selection under way, or None
    victims,    \* the victims of the last selection
    status      \* its status

vars == <<conf, onNode, terminating, came, nominated, bound, now, sel, victims, status>>

-----------------------------------------------------------------------------
(* The quotas of a cycle: elasticQuotaInfos of the snapshot *)

Capacitated == conf.plugin = "capacity"
WithEQ(eq, n) == eq[n] # None
preemptorWithElasticQuota(eq) == Capacitated /\ WithEQ(eq, Preemptor.ns)

nominatedPodsReqInEQWithPodReq == conf.nominated.inEQ + Preemptor.req
nominatedPodsReqWithPodReq == conf.nominated.all + Preemptor.req

InNs(S, n) == {p \in S : NsOf[p] = n}
TotalReq == [S \in SUBSET Pods |-> SumFunctionOnSet(Req, S)]

\* The snapshot PreFilter takes: what the pods of a namespace use on the node
\* and elsewhere.
Snapshot(S) ==
    [n \in Namespaces |->
        IF conf.quotas[n] = None THEN None
        ELSE [min |-> conf.quotas[n].min, max |-> conf.quotas[n].max,
              used |-> conf.quotas[n].elsewhere + TotalReq[InNs(S, n)]]]

usedOverMin(info) == info.used > info.min
usedOverMinWith(info, request) == info.used + request > info.min
usedOverMaxWith(info, request) == info.used + request > info.max

aggregatedUsedOverMinWith(eq, request) ==
    LET S == {n \in Namespaces : WithEQ(eq, n)}
    IN  SumFunctionOnSet([n \in S |-> eq[n].used], S) + request
            > SumFunctionOnSet([n \in S |-> eq[n].min], S)

\* Do the quotas admit the preemptor with these requests on its account?
QuotaAdmits(eq, inEQ, all) ==
    preemptorWithElasticQuota(eq) =>
        /\ ~usedOverMaxWith(eq[Preemptor.ns], inEQ)
        /\ ~aggregatedUsedOverMinWith(eq, all)

\* RunFilterPluginsWithNominatedPods on a node with the pods S.
Fits(S) == TotalReq[S] + conf.nominated.here + Preemptor.req <= conf.capacity

\* The PreFilter extensions AddPod and RemovePod of the quota plugin.
Charge(eq, p, amount) ==
    IF WithEQ(eq, NsOf[p]) THEN [eq EXCEPT ![NsOf[p]].used = @ + amount] ELSE eq
AddPod(eq, p) == Charge(eq, p, Req[p])
RemovePod(eq, p) == Charge(eq, p, -Req[p])

-----------------------------------------------------------------------------
(* Which pods may be victims *)

\* Mutant: every pod of a quota that borrowed at first.
MutBorrowers(eq, moreThanMin, p) ==
    IF preemptorWithElasticQuota(eq)
    THEN /\ WithEQ(eq, NsOf[p])
         /\ IF moreThanMin THEN NsOf[p] = Preemptor.ns /\ Prio[p] < Preemptor.priority
            ELSE NsOf[p] # Preemptor.ns /\ usedOverMin(Snapshot(sel.on)[NsOf[p]])
    ELSE ~WithEQ(eq, NsOf[p]) /\ Prio[p] < Preemptor.priority

\* SelectVictimsOnNode of CapacityScheduling: pods of lower priority of the
\* preemptor's own quota when that is over its min; otherwise pods of quotas
\* that are over theirs after the removals so far.
CapacityVictim(eq, moreThanMin, p) ==
    IF preemptorWithElasticQuota(eq)
    THEN /\ WithEQ(eq, NsOf[p])
         /\ IF moreThanMin THEN NsOf[p] = Preemptor.ns /\ Prio[p] < Preemptor.priority
            ELSE NsOf[p] # Preemptor.ns /\ usedOverMin(eq[NsOf[p]])
    ELSE ~WithEQ(eq, NsOf[p]) /\ Prio[p] < Preemptor.priority

\* SelectVictimsOnNode of PreemptionToleration.  A class that does not exist
\* (anymore) is an error, not an exemption.
ClassMissing(p) == Prio[p] < Preemptor.priority /\ Class[p] = None
TolerationVictim(p, curTime) ==
    /\ Prio[p] < Preemptor.priority
    /\ Class[p] # Unset =>
          ~ExemptedFromPreemption(Class[p], ScheduledAt[p], Preemptor.priority, curTime)

\* filterPodsWithPDBViolation, in the order of importance: the budget of a PDB
\* is spent by the pods it matches and has not disrupted yet.
Violating(S) ==
    {p \in S : \E pdb \in conf.pdbs :
        LET matched == S \cap (pdb.matches \ pdb.disrupted)
        IN  /\ p \in matched
            /\ Cardinality({q \in matched : Rank[q] >= Rank[p]}) > pdb.allowed}

-----------------------------------------------------------------------------
(* One scheduling cycle of the preemptor *)

\* PodEligibleToPreemptOthers of PreemptionToleration: what a terminating pod of
\* the nominated node must be like.
TolerationEligible(p) == Prio[p] >= Preemptor.priority

\* Mutant: terminating pods of the node are not looked at.
MutEligible(eq) == TRUE

\* PodEligibleToPreemptOthers of either plugin, on the live node and the cycle's
\* snapshot.
PodEligibleToPreemptOthers(eq) ==
    nominated => \A p \in terminating :
        IF ~Capacitated THEN TolerationEligible(p)
        ELSE IF preemptorWithElasticQuota(eq)
        THEN WithEQ(eq, NsOf[p]) =>
                IF NsOf[p] = Preemptor.ns THEN Prio[p] >= Preemptor.priority
                ELSE \/ usedOverMinWith(eq[Preemptor.ns], nominatedPodsReqInEQWithPodReq)
                     \/ ~usedOverMin(eq[NsOf[p]])
        ELSE WithEQ(eq, NsOf[p]) \/ Prio[p] >= Preemptor.priority

Admitted(eq) ==
    /\ QuotaAdmits(eq, nominatedPodsReqInEQWithPodReq, nominatedPodsReqWithPodReq)
    /\ Fits(onNode)

\* PreFilter and Filter pass: the preemptor is bound.
Schedule ==
    /\ ~bound /\ sel = None
    /\ Admitted(Snapshot(onNode))
    /\ bound' = TRUE
    /\ UNCHANGED <<conf, onNode, terminating, came, nominated, now, sel, victims, status>>

\* They do not: PostFilter starts SelectVictimsOnNode on a copy of the node.
PostFilter ==
    /\ ~bound /\ sel = None
    /\ LET eq == Snapshot(onNode)
       IN  /\ ~Admitted(eq)
           /\ PodEligibleToPreemptOthers(eq)
           /\ sel' = [step |-> "remove", left |-> onNode, on |-> onNode, node |-> onNode,
                      eq |-> eq, curTime |-> now,
                      moreThanMin |-> preemptorWithElasticQuota(eq)
                          /\ usedOverMinWith(eq[Preemptor.ns], nominatedPodsReqInEQWithPodReq),
                      potential |-> {}, violating |-> {}, victims |-> {}, count |-> 0]
    /\ victims' = {} /\ status' = ""
    /\ UNCHANGED <<conf, onNode, terminating, came, nominated, bound, now>>

\* The least and the most important pods of a set.
Least(S) == CHOOSE p \in S : \A q \in S : Rank[p] <= Rank[q]
Most(S) == CHOOSE p \in S : \A q \in S : Rank[p] >= Rank[q]

GiveUp(s) == sel' = None /\ status' = s /\ UNCHANGED victims

\* The first loop: potential victims leave the copy, the least important first.
RemoveNext ==
    /\ sel # None /\ sel.step = "remove" /\ sel.left # {}
    /\ LET p == Least(sel.left)
           isVictim == IF Capacitated THEN CapacityVictim(sel.eq, sel.moreThanMin, p)
                       ELSE TolerationVictim(p, sel.curTime)
       IN  IF ~Capacitated /\ ClassMissing(p) THEN GiveUp("Error")
           ELSE /\ sel' = IF ~isVictim THEN [sel EXCEPT !.left = @ \ {p}]
                          ELSE [sel EXCEPT !.left = @ \ {p}, !.node = @ \ {p},
                                           !.eq = RemovePod(@, p), !.potential = @ \cup {p}]
                /\ UNCHANGED <<victims, status>>
    /\ UNCHANGED <<conf, onNode, terminating, came, nominated, bound, now>>

\* Mutant: only the node is checked.
MutCheck ==
    /\ sel # None /\ sel.step = "remove" /\ sel.left = {}
    /\ IF sel.potential = {} THEN GiveUp("UnschedulableAndUnresolvable")
       ELSE IF ~Fits(sel.node)
       THEN GiveUp("Unschedulable")
       ELSE /\ sel' = [sel EXCEPT !.step = "reprieve", !.left = sel.potential,
                                  !.violating = Violating(sel.potential)]
            /\ UNCHANGED <<victims, status>>
    /\ UNCHANGED <<conf, onNode, terminating, came, nominated, bound, now>>

\* With all of them gone the preemptor must fit, its own request must respect
\* the quotas, and there must be somebody to take.
Check ==
    /\ sel # None /\ sel.step = "remove" /\ sel.left = {}
    /\ IF sel.potential = {} THEN GiveUp("UnschedulableAndUnresolvable")
       ELSE IF ~Fits(sel.node) \/ ~QuotaAdmits(sel.eq, Preemptor.req, Preemptor.req)
       THEN GiveUp("Unschedulable")
       ELSE /\ sel' = [sel EXCEPT !.step = "reprieve", !.left = sel.potential,
                                  !.violating = Violating(sel.potential)]
            /\ UNCHANGED <<victims, status>>
    /\ UNCHANGED <<conf, onNode, terminating, came, nominated, bound, now>>

\* Mutant: a victim is not taken off the copy again.
MutReprieveNext ==
    /\ sel # None /\ sel.step = "reprieve" /\ sel.left # {}
    /\ LET first == sel.left \cap sel.violating
           p == Most(IF first # {} THEN first ELSE sel.left)
       IN  sel' = [sel EXCEPT !.left = @ \ {p}, !.node = @ \cup {p}, !.eq = AddPod(@, p),
                              !.victims = IF Fits(sel.node \cup {p}) THEN @ ELSE @ \cup {p}]
    /\ UNCHANGED <<conf, onNode, terminating, came, nominated, bound, now, victims, status>>

\* reprievePod: those whose PDB is violated first, the most important first. A
\* pod that neither fits nor respects the quotas is removed from the copy
\* twice, and the second removal is an error.
ReprieveNext ==
    /\ sel # None /\ sel.step = "reprieve" /\ sel.left # {}
    /\ LET first == sel.left \cap sel.violating
           p == Most(IF first # {} THEN first ELSE sel.left)
           eq == AddPod(sel.eq, p)
           fits == Fits(sel.node \cup {p})
           admitted == QuotaAdmits(eq, nominatedPodsReqInEQWithPodReq,
                                   nominatedPodsReqWithPodReq)
           eqGone == RemovePod(eq, p)
           stillOver == ~QuotaAdmits(eqGone, nominatedPodsReqInEQWithPodReq,
                                     nominatedPodsReqWithPodReq)
       IN  IF ~fits /\ stillOver THEN GiveUp("Error")
           ELSE /\ sel' = IF fits /\ admitted
                          THEN [sel EXCEPT !.left = @ \ {p}, !.node = @ \cup {p}, !.eq = eq]
                          ELSE [sel EXCEPT !.left = @ \ {p}, !.victims = @ \cup {p},
                                           !.count = IF ~fits /\ p \in sel.violating
                                                     THEN @ + 1 ELSE @]
                /\ UNCHANGED <<victims, status>>
    /\ UNCHANGED <<conf, onNode, terminating, came, nominated, bound, now>>

\* The framework deletes the victims and nominates the preemptor; a success
\* without victims is none.
Preempt ==
    /\ sel # None /\ sel.step = "reprieve" /\ sel.left = {}
    /\ sel' = None
    /\ victims' = sel.victims
    /\ status' = IF sel.victims = {} THEN "Error" ELSE "Success"
    /\ terminating' = terminating \cup (sel.victims \cap onNode)
    /\ nominated' = (nominated \/ sel.victims # {})
    /\ UNCHANGED <<conf, onNode, came, bound, now>>

-----------------------------------------------------------------------------
(* The environment *)

\* The kubelet ends a pod that is being deleted.
PodGone(p) ==
    /\ p \in terminating
    /\ onNode' = onNode \ {p} /\ terminating' = terminating \ {p}
    /\ UNCHANGED <<conf, came, nominated, bound, now, sel, victims, status>>

\* Another pod is bound to the node, once.
PodComes(p) ==
    /\ conf.late /\ p \in Late \ came /\ ~bound
    /\ TotalReq[onNode \cup {p}] <= conf.capacity
    /\ onNode' = onNode \cup {p} /\ came' = came \cup {p}
    /\ UNCHANGED <<conf, terminating, nominated, bound, now, sel, victims, status>>

Tick ==
    /\ now < MaxNow /\ now' = now + 1
    /\ UNCHANGED <<conf, onNode, terminating, came, nominated, bound, sel, victims, status>>

-----------------------------------------------------------------------------
Init ==
    /\ conf \in Configs
    /\ onNode = Pods \ Late /\ terminating = {} /\ came = {}
    /\ nominated = FALSE /\ bound = FALSE /\ now = 0
    /\ sel = None /\ victims = {} /\ status = ""

Selection == RemoveNext \/ Check \/ ReprieveNext \/ Preempt

Next ==
    \/ Schedule \/ PostFilter \/ Selection
    \/ \E p \in Pods : PodGone(p) \/ PodComes(p)
    \/ Tick

\* The scheduler retries, and the kubelet ends what is deleted.
Fairness ==
    /\ WF_vars(Schedule \/ PostFilter \/ Selection)
    /\ \A p \in Pods : WF_vars(PodGone(p))

Spec == Init /\ [][Next]_vars /\ Fairness

-----------------------------------------------------------------------------
(* Properties *)

\* During SelectVictimsOnNode the copy of the node, the potential victims and the
\* victims fit together: a victim is a potential one that is off the copy.
TypeOK ==
    /\ conf \in Configs
    /\ terminating \subseteq onNode /\ onNode \subseteq Pods /\ came \subseteq Late
    /\ nominated \in BOOLEAN /\ bound \in BOOLEAN /\ now \in 0..MaxNow
    /\ victims \subseteq Pods
    /\ sel # None =>
          /\ sel \in Selections
          /\ sel.left \subseteq sel.on
          /\ sel.node \subseteq sel.on /\ sel.potential \subseteq sel.on
          /\ sel.victims \subseteq sel.potential \ sel.node

\* What a PriorityClass promises its pods: no preemption by priorities below
\* the minimum until the toleration time is over, for ever if it is negative. A
\* time that no time.Duration can hold promises nothing.
Protected(p, t) ==
    LET pc == Class[p]
        minimum == pc.minimumPreemptablePriority
        seconds == pc.tolerationSeconds
    IN  /\ pc \notin {Unset, None}
        /\ minimum # Invalid /\ seconds \notin {Invalid, Unset}
        /\ Preemptor.priority < IF minimum = Unset THEN pc.value + 1 ELSE minimum
        /\ \/ seconds < 0
           \/ ScheduledAt[p] = Unset
           \/ seconds <= MaxDuration /\ t < ScheduledAt[p] + seconds

\* The pods the preemptor of a selection may take, and what makes room for it,
\* on the snapshot of its cycle.
Allowed ==
    {p \in sel.on :
        LET eq == Snapshot(sel.on)
        IN  IF ~Capacitated THEN Prio[p] < Preemptor.priority /\ ~Protected(p, sel.curTime)
            ELSE IF ~preemptorWithElasticQuota(eq)
            THEN ~WithEQ(eq, NsOf[p]) /\ Prio[p] < Preemptor.priority
            ELSE /\ WithEQ(eq, NsOf[p])
                 /\ NsOf[p] = Preemptor.ns => Prio[p] < Preemptor.priority
                 /\ NsOf[p] # Preemptor.ns => usedOverMin(eq[NsOf[p]])}

Rooms(inEQ, all) ==
    {V \in SUBSET sel.on : /\ Fits(sel.on \ V)
                           /\ QuotaAdmits(Snapshot(sel.on \ V), inEQ, all)}

Abstract == INSTANCE VictimSelection WITH
    stage <- IF sel = None THEN "idle" ELSE "selecting",
    allowed <- IF sel = None THEN {} ELSE Allowed,
    makes <- IF sel = None THEN {} ELSE Rooms(Preemptor.req, Preemptor.req),
    keeps <- IF sel = None THEN {}
             ELSE Rooms(nominatedPodsReqInEQWithPodReq, nominatedPodsReqWithPodReq)

\* SelectVictimsOnNode of either plugin keeps the promise of VictimSelection:
\* it takes only pods it may take, with them gone the preemptor fits and
\* respects its quota, and no victim could have been reprieved.
KeepsPromise == Abstract!Spec

\* Pods of other quotas are taken only as long as those borrow: what a quota
\* keeps falls short of its min by less than one of its victims.
BorrowersOnly ==
    sel # None /\ sel.step = "reprieve" /\ sel.left = {} /\ preemptorWithElasticQuota(sel.eq) =>
        \A n \in Namespaces \ {Preemptor.ns} :
            InNs(sel.victims, n) # {} =>
                \E v \in InNs(sel.victims, n) : sel.eq[n].used + Req[v] > sel.eq[n].min

\* A preemptor that was nominated takes no further pods while one that it took
\* for its priority is terminating: only pods of quotas that borrowed, whose
\* quota may have borrowed no more since, may still be on their way out.
NoSecondPreemption ==
    [][sel = None /\ sel' # None /\ nominated =>
          \A p \in terminating :
              /\ Capacitated /\ conf.quotas[Preemptor.ns] # None
              /\ NsOf[p] # Preemptor.ns]_vars

\* When nobody else comes and no other pod is nominated, a preemptor that was
\* nominated is bound: what its victims leave is enough.
NominatedBinds ==
    (nominated /\ ~conf.late /\ conf.nominated.all = 0 /\ conf.nominated.here = 0) ~> bound
=============================================================================
