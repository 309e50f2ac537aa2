------------------------- MODULE CapacityScheduling -------------------------
(***************************************************************************)
(* The quota accounting of the CapacityScheduling plugin                   *)
(* (pkg/capacityscheduling): the map elasticQuotaInfos from a namespace to *)
(* its ElasticQuotaInfo, the scheduling-cycle calls PreFilter, Reserve and *)
(* Unreserve, and the informer handlers of pods and ElasticQuotas, which   *)
(* run on goroutines of their own.                                         *)
(*                                                                         *)
(* Resources are one dimension: every comparison in elasticquota.go is     *)
(* made dimension by dimension.  The API server, the two informers (one    *)
(* ordered queue each) and the framework's scheduling and binding cycles   *)
(* are the environment.                                                    *)
(***************************************************************************)
EXTENDS Integers, Sequences, FiniteSets, Functions

CONSTANTS
    Namespaces,
    Pods,
    Foreign,         \* the pods another scheduler assigns
    NsOf,            \* NsOf[p]: the namespace of pod p
    Req,             \* Req[p]: computePodResourceRequest(p)
    Prio,            \* Prio[p]: the priority of pod p
    Specs,           \* the ElasticQuota specs: records [min, max]
    Unset,           \* an unset min or max of a spec
    UpperBoundOfMax, \* math.MaxInt64
    None,
    EQInformerRunning, \* does the ElasticQuota informer deliver events?
    MaxQuotaChanges, \* bound: API writes of ElasticQuotas
    MaxFaults        \* bound: restarts, failed lists and lost bind replies

ASSUME PodAssumption ==
    /\ IsFiniteSet(Pods)
    /\ IsFiniteSet(Namespaces)
    /\ Foreign \subseteq Pods
    /\ NsOf \in [Pods -> Namespaces]
    /\ Req \in [Pods -> Nat]
    /\ Prio \in [Pods -> Int]

ASSUME QuotaAssumption ==
    /\ UpperBoundOfMax \in Nat
    /\ Unset \notin Int
    /\ \A s \in Specs : /\ s.min \in Nat \cup {Unset}
                        /\ s.max \in Nat \cup {Unset}
    /\ None \notin Specs
    /\ None \notin Pods
    /\ EQInformerRunning \in BOOLEAN
    /\ MaxQuotaChanges \in Nat
    /\ MaxFaults \in Nat

VARIABLES
    quota,      \* API server: the ElasticQuota spec of a namespace, or None
    pod,        \* API server: the state of a pod
    eqEvents,   \* ElasticQuota informer: events not yet handled
    podEvents,  \* pod informer, behind its assignedPod filter
    infos,      \* elasticQuotaInfos
    eqCheck,    \* addElasticQuota between its unlocked read and its store
    sched,      \* where a pod is in the scheduling and binding cycle
    snapshot,   \* the cycle state's clone of infos
    changes,    \* number of API writes of ElasticQuotas so far
    faults      \* number of faults so far

vars == <<quota, pod, eqEvents, podEvents, infos, eqCheck, sched, snapshot,
          changes, faults>>

-----------------------------------------------------------------------------
(* Types *)

PodStates == {"pending", "assigned", "finished", "deleted"}
SchedStates == {"queued", "prefilter", "filtered", "reserved", "bound", "done"}

EqInfo == [pods : SUBSET Pods, min : Nat, max : Nat, used : Int]
EqInfos == [Namespaces -> EqInfo \cup {None}]
NoInfos == [n \in Namespaces |-> None]

EqEvent == [type : {"add", "update"}, ns : Namespaces, spec : Specs]
             \cup [type : {"delete"}, ns : Namespaces]
PodEvent == [type : {"add", "finish", "delete"}, pod : Pods]
EqCheck == [ns : Namespaces, spec : Specs]

\* None stands for a nil pointer and is no entry.
ASSUME NoneAssumption == None \notin EqInfo /\ None \notin EqCheck

\* A pod is assigned once spec.nodeName is set; it stays so when it terminates.
assignedPod(p) == pod[p] \in {"assigned", "finished"}

-----------------------------------------------------------------------------
(* elasticquota.go *)

\* TotalReq[S]: the requests of the pods of S added up.
TotalReq == [S \in SUBSET Pods |-> SumFunctionOnSet(Req, S)]

\* Mutant: the default of an unset max is forgotten.
MutNoDefaultMax(spec) ==
    [pods |-> {}, min |-> IF spec.min = Unset THEN 0 ELSE spec.min,
     max |-> spec.max, used |-> 0]

newElasticQuotaInfo(spec) ==
    [pods |-> {},
     min  |-> IF spec.min = Unset THEN 0 ELSE spec.min,
     max  |-> IF spec.max = Unset THEN UpperBoundOfMax ELSE spec.max,
     used |-> 0]

\* The entry with its set of pods and its running total replaced.
Recount(info, pods, used) ==
    [pods |-> pods, min |-> info.min, max |-> info.max, used |-> used]

\* Mutant: the presence check is dropped.
MutAddPodAgain(info, p) == Recount(info, info.pods \cup {p}, info.used + Req[p])

addPodIfNotPresent(info, p) ==
    IF p \in info.pods
    THEN info
    ELSE Recount(info, info.pods \cup {p}, info.used + Req[p])

deletePodIfPresent(info, p) ==
    IF p \notin info.pods
    THEN info
    ELSE Recount(info, info.pods \ {p}, info.used - Req[p])

\* Mutant: the request is left out of the comparison.
MutUsedOverMax(info, request) == info.used > info.max

usedOverMaxWith(info, request) == info.used + request > info.max
usedOverMin(info) == info.used > info.min

\* Namespaces that have an entry in a map.
WithInfo(m) == {n \in Namespaces : m[n] # None}

\* The sums over the entries of a map that aggregatedUsedOverMinWith compares.
TotalUsed(m) == SumFunctionOnSet([n \in WithInfo(m) |-> m[n].used], WithInfo(m))
TotalMin(m) == SumFunctionOnSet([n \in WithInfo(m) |-> m[n].min], WithInfo(m))

\* Mutant: the request is left out of the comparison.
MutAggregated(m, request) == TotalUsed(m) > TotalMin(m)

aggregatedUsedOverMinWith(m, request) == TotalUsed(m) + request > TotalMin(m)

-----------------------------------------------------------------------------
(* The API server and its watch events *)

EqAdd(n, spec) == [type |-> "add", ns |-> n, spec |-> spec]
EqUpdate(n, spec) == [type |-> "update", ns |-> n, spec |-> spec]
EqDelete(n) == [type |-> "delete", ns |-> n]

PodAdd(p) == [type |-> "add", pod |-> p]
PodFinish(p) == [type |-> "finish", pod |-> p]
PodDelete(p) == [type |-> "delete", pod |-> p]

\* The initial list of an informer: one add event per object, in any order.
Orders(S) == {o \in [1 .. Cardinality(S) -> S] : \A x \in S : \E i \in DOMAIN o : o[i] = x}

EqListings ==
    {[i \in DOMAIN o |-> EqAdd(o[i], quota[o[i]])] :
        o \in Orders({n \in Namespaces : quota[n] # None})}
PodListings ==
    {[i \in DOMAIN o |-> PodAdd(o[i])] : o \in Orders({p \in Pods : assignedPod(p)})}

\* An administrator creates, changes or deletes the quota of a namespace.
WriteQuota(n) ==
    /\ changes < MaxQuotaChanges
    /\ changes' = changes + 1
    /\ \E spec \in (Specs \cup {None}) \ {quota[n]} :
         /\ quota' = [quota EXCEPT ![n] = spec]
         /\ eqEvents' = Append(eqEvents,
                IF spec = None THEN EqDelete(n)
                ELSE IF quota[n] = None THEN EqAdd(n, spec)
                ELSE EqUpdate(n, spec))
    /\ UNCHANGED <<pod, podEvents, infos, eqCheck, sched, snapshot, faults>>

\* A pod of this scheduler is bound by the binding cycle; others by anyone.
ApiAssign(p) ==
    /\ pod[p] = "pending"
    /\ p \in Foreign \/ sched[p] = "reserved"
    /\ pod' = [pod EXCEPT ![p] = "assigned"]
    /\ podEvents' = Append(podEvents, PodAdd(p))
    /\ sched' = IF p \in Foreign THEN sched ELSE [sched EXCEPT ![p] = "bound"]
    /\ UNCHANGED <<quota, eqEvents, infos, eqCheck, snapshot, changes, faults>>

ApiFinish(p) ==
    /\ pod[p] = "assigned"
    /\ pod' = [pod EXCEPT ![p] = "finished"]
    /\ podEvents' = Append(podEvents, PodFinish(p))
    /\ UNCHANGED <<quota, eqEvents, infos, eqCheck, sched, snapshot, changes, faults>>

\* The filter passes the deletion of assigned pods only.
ApiDelete(p) ==
    /\ pod[p] # "deleted"
    /\ pod' = [pod EXCEPT ![p] = "deleted"]
    /\ podEvents' = IF assignedPod(p) THEN Append(podEvents, PodDelete(p)) ELSE podEvents
    /\ UNCHANGED <<quota, eqEvents, infos, eqCheck, sched, snapshot, changes, faults>>

-----------------------------------------------------------------------------
(* The scheduling cycle: one pod at a time until Reserve *)

\* The requests PreFilter adds up: the pod's own, those of the nominated pods
\* of its quota that are at least as important, and those of the nominated
\* pods of quotas that do not exceed their min.  The entries are the live
\* ones, read without the lock.
nominatedPodsReqInEQWithPodReq(p, nominated) ==
    Req[p] + TotalReq[{q \in nominated : /\ NsOf[q] = NsOf[p]
                                         /\ infos[NsOf[q]] # None
                                         /\ Prio[q] >= Prio[p]}]

nominatedPodsReqWithPodReq(p, nominated) ==
    nominatedPodsReqInEQWithPodReq(p, nominated)
      + TotalReq[{q \in nominated : /\ NsOf[q] # NsOf[p]
                                    /\ infos[NsOf[q]] # None
                                    /\ ~ usedOverMin(infos[NsOf[q]])}]

\* The pods the framework's nominator may hold besides p.
Nominatable(p) == {q \in Pods \ {p} : pod[q] = "pending" /\ sched[q] = "queued"}

\* A scheduling cycle starts with PreFilter's clone of the map.
snapshotElasticQuota(p) ==
    /\ p \notin Foreign
    /\ pod[p] = "pending" /\ sched[p] = "queued"
    /\ \A q \in Pods : sched[q] \notin {"prefilter", "filtered"}
    /\ snapshot' = infos
    /\ sched' = [sched EXCEPT ![p] = "prefilter"]
    /\ UNCHANGED <<quota, pod, eqEvents, podEvents, infos, eqCheck, changes, faults>>

\* The rest of PreFilter compares the snapshot with what is requested.
PreFilter(p) ==
    /\ sched[p] = "prefilter"
    /\ \E nominated \in SUBSET Nominatable(p) :
         LET eq == snapshot[NsOf[p]]
             rejected ==
                /\ eq # None
                /\ \/ usedOverMaxWith(eq, nominatedPodsReqInEQWithPodReq(p, nominated))
                   \/ aggregatedUsedOverMinWith(snapshot,
                          nominatedPodsReqWithPodReq(p, nominated))
         IN  /\ sched' = [sched EXCEPT ![p] = IF rejected THEN "queued" ELSE "filtered"]
             /\ snapshot' = IF rejected THEN NoInfos ELSE snapshot
    /\ UNCHANGED <<quota, pod, eqEvents, podEvents, infos, eqCheck, changes, faults>>

\* No node passes the filters: the cycle ends without a reservation.
FilterFails(p) ==
    /\ sched[p] = "filtered"
    /\ sched' = [sched EXCEPT ![p] = "queued"]
    /\ snapshot' = NoInfos
    /\ UNCHANGED <<quota, pod, eqEvents, podEvents, infos, eqCheck, changes, faults>>

Reserve(p) ==
    /\ sched[p] = "filtered"
    /\ infos' = IF infos[NsOf[p]] = None THEN infos
                ELSE [infos EXCEPT ![NsOf[p]] = addPodIfNotPresent(@, p)]
    /\ sched' = [sched EXCEPT ![p] = "reserved"]
    /\ snapshot' = NoInfos
    /\ UNCHANGED <<quota, pod, eqEvents, podEvents, eqCheck, changes, faults>>

-----------------------------------------------------------------------------
(* The binding cycle: one goroutine per reserved pod *)

\* What Unreserve, updatePod and deletePod do to the map.
Forget(p) ==
    infos' = IF infos[NsOf[p]] = None THEN infos
             ELSE [infos EXCEPT ![NsOf[p]] = deletePodIfPresent(@, p)]

\* Mutant: Unreserve leaves the accounting to the informer.
MutUnreserve(p) ==
    /\ \/ sched[p] = "reserved" /\ UNCHANGED faults
       \/ sched[p] = "bound" /\ faults < MaxFaults /\ faults' = faults + 1
    /\ sched' = [sched EXCEPT ![p] = "queued"]
    /\ UNCHANGED <<quota, pod, eqEvents, podEvents, infos, eqCheck, snapshot, changes>>

\* Permit, PreBind or Bind failed; Bind also fails when the reply is lost
\* although the API server did assign the pod.
Unreserve(p) ==
    /\ \/ sched[p] = "reserved" /\ UNCHANGED faults
       \/ sched[p] = "bound" /\ faults < MaxFaults /\ faults' = faults + 1
    /\ Forget(p)
    /\ sched' = [sched EXCEPT ![p] = "queued"]
    /\ UNCHANGED <<quota, pod, eqEvents, podEvents, eqCheck, snapshot, changes>>

BindReturns(p) ==
    /\ sched[p] = "bound"
    /\ sched' = [sched EXCEPT ![p] = "done"]
    /\ UNCHANGED <<quota, pod, eqEvents, podEvents, infos, eqCheck, snapshot, changes, faults>>

-----------------------------------------------------------------------------
(* The ElasticQuota handlers, one goroutine *)

EqEventIs(type) ==
    /\ EQInformerRunning
    /\ eqCheck = None
    /\ eqEvents # <<>>
    /\ Head(eqEvents).type = type
    /\ eqEvents' = Tail(eqEvents)
    /\ UNCHANGED <<quota, pod, podEvents, sched, snapshot, changes, faults>>

\* addElasticQuota reads the map without the lock and returns when the
\* namespace has an entry ...
addElasticQuota ==
    /\ EqEventIs("add")
    /\ LET e == Head(eqEvents)
       IN  eqCheck' = IF infos[e.ns] # None THEN None
                      ELSE [ns |-> e.ns, spec |-> e.spec]
    /\ UNCHANGED infos

\* ... and otherwise stores a fresh entry under the lock.
addElasticQuotaStore ==
    /\ eqCheck # None
    /\ infos' = [infos EXCEPT ![eqCheck.ns] = newElasticQuotaInfo(eqCheck.spec)]
    /\ eqCheck' = None
    /\ UNCHANGED <<quota, pod, eqEvents, podEvents, sched, snapshot, changes, faults>>

\* Mutant: an update of a quota that has an entry keeps the old entry.
MutUpdateElasticQuota ==
    /\ EqEventIs("update")
    /\ LET e == Head(eqEvents)
       IN  infos' = [infos EXCEPT ![e.ns] = IF @ = None THEN newElasticQuotaInfo(e.spec) ELSE @]
    /\ UNCHANGED eqCheck

updateElasticQuota ==
    /\ EqEventIs("update")
    /\ LET e   == Head(eqEvents)
           new == newElasticQuotaInfo(e.spec)
           old == infos[e.ns]
       IN  infos' = [infos EXCEPT ![e.ns] =
                        IF old = None THEN new
                        ELSE Recount(new, old.pods, old.used)]
    /\ UNCHANGED eqCheck

\* Mutant: the entry of a deleted quota is emptied, not removed.
MutDeleteElasticQuota ==
    /\ EqEventIs("delete")
    /\ infos' = [infos EXCEPT ![Head(eqEvents).ns] =
                   IF @ = None THEN @ ELSE Recount(@, {}, 0)]
    /\ UNCHANGED eqCheck

deleteElasticQuota ==
    /\ EqEventIs("delete")
    /\ infos' = [infos EXCEPT ![Head(eqEvents).ns] = None]
    /\ UNCHANGED eqCheck

-----------------------------------------------------------------------------
(* The pod handlers, one goroutine *)

PodEventIs(type) ==
    /\ podEvents # <<>>
    /\ Head(podEvents).type = type
    /\ podEvents' = Tail(podEvents)
    /\ UNCHANGED <<quota, pod, eqEvents, eqCheck, sched, snapshot, changes>>

\* Mutant: addPod lists the quotas whether or not there is an entry.
MutAddPod ==
    /\ PodEventIs("add")
    /\ LET p == Head(podEvents).pod
           n == NsOf[p]
       IN  /\ infos' = IF quota[n] = None THEN infos
                       ELSE [infos EXCEPT ![n] =
                               addPodIfNotPresent(newElasticQuotaInfo(quota[n]), p)]
           /\ UNCHANGED faults

\* A namespace without an entry gets one from the API server's list, unless
\* the list is empty or fails.
addPod ==
    /\ PodEventIs("add")
    /\ LET p == Head(podEvents).pod
           n == NsOf[p]
       IN  \/ /\ infos[n] # None
              /\ infos' = [infos EXCEPT ![n] = addPodIfNotPresent(@, p)]
              /\ UNCHANGED faults
           \/ /\ infos[n] = None
              /\ quota[n] # None
              /\ infos' = [infos EXCEPT ![n] =
                             addPodIfNotPresent(newElasticQuotaInfo(quota[n]), p)]
              /\ UNCHANGED faults
           \/ /\ infos[n] = None
              /\ quota[n] = None
              /\ UNCHANGED <<infos, faults>>
           \/ /\ infos[n] = None
              /\ faults < MaxFaults
              /\ faults' = faults + 1
              /\ UNCHANGED infos

\* The update that takes an assigned pod to Succeeded or Failed; the other
\* updates of a pod leave the accounting alone.
updatePod ==
    /\ PodEventIs("finish")
    /\ Forget(Head(podEvents).pod)
    /\ UNCHANGED faults

\* Mutant: deletePod trusts the Succeeded update to have released the pod.
MutDeletePod ==
    /\ PodEventIs("delete")
    /\ UNCHANGED <<infos, faults>>

deletePod ==
    /\ PodEventIs("delete")
    /\ Forget(Head(podEvents).pod)
    /\ UNCHANGED faults

-----------------------------------------------------------------------------
(* The process *)

\* New builds an empty map and registers the handlers; the informers list
\* what the API server holds.
New ==
    /\ infos' = NoInfos
    /\ eqCheck' = None
    /\ snapshot' = NoInfos
    /\ eqEvents' \in EqListings
    /\ podEvents' \in PodListings

Init ==
    /\ quota \in [Namespaces -> Specs \cup {None}]
    /\ pod = [p \in Pods |-> "pending"]
    /\ eqEvents \in EqListings
    /\ podEvents = <<>>
    /\ infos = NoInfos
    /\ eqCheck = None
    /\ sched = [p \in Pods |-> "queued"]
    /\ snapshot = NoInfos
    /\ changes = 0
    /\ faults = 0

\* The scheduler stops and starts again; its binding cycles are lost.
Restart ==
    /\ faults < MaxFaults
    /\ faults' = faults + 1
    /\ New
    /\ sched' = [p \in Pods |-> IF pod[p] = "pending" THEN "queued" ELSE "done"]
    /\ UNCHANGED <<quota, pod, changes>>

Next ==
    \/ \E n \in Namespaces : WriteQuota(n)
    \/ \E p \in Pods : \/ ApiAssign(p) \/ ApiFinish(p) \/ ApiDelete(p)
                       \/ snapshotElasticQuota(p) \/ PreFilter(p)
                       \/ FilterFails(p) \/ Reserve(p)
                       \/ Unreserve(p) \/ BindReturns(p)
    \/ addElasticQuota \/ addElasticQuotaStore
    \/ updateElasticQuota \/ deleteElasticQuota
    \/ addPod \/ updatePod \/ deletePod
    \/ Restart

\* The handlers run on goroutines that are always scheduled again, and the
\* framework ends every scheduling and binding cycle it starts.
Fairness ==
    /\ WF_vars(addElasticQuota \/ addElasticQuotaStore
                 \/ updateElasticQuota \/ deleteElasticQuota)
    /\ WF_vars(addPod \/ updatePod \/ deletePod)
    /\ \A p \in Pods :
         /\ WF_vars(PreFilter(p) \/ FilterFails(p) \/ Reserve(p))
         /\ WF_vars((ApiAssign(p) /\ p \notin Foreign) \/ Unreserve(p) \/ BindReturns(p))

Spec == Init /\ [][Next]_vars /\ Fairness

-----------------------------------------------------------------------------
(* Properties *)

TypeOK ==
    /\ quota \in [Namespaces -> Specs \cup {None}]
    /\ pod \in [Pods -> PodStates]
    /\ eqEvents \in Seq(EqEvent)
    /\ podEvents \in Seq(PodEvent)
    /\ infos \in EqInfos
    /\ eqCheck \in EqCheck \cup {None}
    /\ sched \in [Pods -> SchedStates]
    /\ snapshot \in EqInfos
    /\ changes \in 0 .. MaxQuotaChanges
    /\ faults \in 0 .. MaxFaults

Counted(p) == infos[NsOf[p]] # None /\ p \in infos[NsOf[p]].pods

Pending(p, types) ==
    \E i \in 1 .. Len(podEvents) :
        podEvents[i].pod = p /\ podEvents[i].type \in types

\* The running total of a quota is the sum of the requests of the pods it
\* counts, whatever order Reserve, Unreserve and the handlers ran in: no pod is
\* added twice (Reserve and its later informer event) or taken off twice
\* (Unreserve, the Succeeded update, the deletion).
UsedMatchesPods ==
    \A n \in Namespaces :
        infos[n] # None => /\ infos[n].used = TotalReq[infos[n].pods]
                           /\ \A p \in infos[n].pods : NsOf[p] = n

\* A pod is charged to its quota only while it is reserved and not yet bound,
\* the API server has it assigned, or its deletion event is on its way: no
\* order of Reserve, Unreserve, deletion and restart leaves a charge behind.
NoQuotaLeak ==
    \A p \in Pods :
        Counted(p) => \/ sched[p] = "reserved"
                      \/ assignedPod(p)
                      \/ Pending(p, {"delete"})

\* The entries PreFilter and Reserve work with agree with the API server once
\* the ElasticQuota handler is idle: addPod's direct list and the unlocked
\* check of addElasticQuota never leave a stale min or max, a resurrected
\* entry or a missing one.
SpecsConverged ==
    (EQInformerRunning /\ eqEvents = <<>> /\ eqCheck = None) =>
        \A n \in Namespaces :
            /\ (infos[n] = None) = (quota[n] = None)
            /\ infos[n] # None =>
                 /\ infos[n].min = newElasticQuotaInfo(quota[n]).min
                 /\ infos[n].max = newElasticQuotaInfo(quota[n]).max

\* PreFilter decides on a snapshot and Reserve charges the live entry.  With
\* the quota's max unchanged in between, what Reserve adds can exceed the max
\* by no more than what the informer charged to it since the snapshot.
OvershootBounded ==
    \A p \in Pods :
        LET live == infos[NsOf[p]]
            seen == snapshot[NsOf[p]]
        IN  (sched[p] = "filtered" /\ live # None /\ seen # None /\ live.max = seen.max)
              => live.used + Req[p] <= live.max + TotalReq[live.pods \ seen.pods]

Arrived == UNION {infos[n].pods \ snapshot[n].pods : n \in WithInfo(snapshot) \cap WithInfo(infos)}

\* The same for the second check of PreFilter: with the quotas unchanged since
\* the snapshot, the usage of all quotas together exceeds the sum of their
\* mins after Reserve by no more than what the informer charged meanwhile.
AggregateOvershootBounded ==
    \A p \in Pods :
        (/\ sched[p] = "filtered"
         /\ snapshot[NsOf[p]] # None
         /\ WithInfo(snapshot) = WithInfo(infos)
         /\ \A n \in WithInfo(infos) : infos[n].min = snapshot[n].min)
          => TotalUsed(infos) + Req[p] <= TotalMin(infos) + TotalReq[Arrived]

\* A step that takes a pod out of an entry that stays.
Uncounts(p) == Counted(p) /\ ~ Counted(p)' /\ infos'[NsOf[p]] # None

\* The reasons for it: the reservation is undone, or the pod ended.
MayUncount(p) ==
    \/ sched[p] # "queued" /\ sched'[p] = "queued"
    \/ pod[p] \in {"finished", "deleted"}

\* The usage of a quota follows its scheduled pods: but for the store of
\* addElasticQuota no handler, and no step of another pod, drops the charge of
\* a pod whose reservation stands and that still runs.
OnlyAddRaceUncounts ==
    [][\A p \in Pods :
          Uncounts(p) => MayUncount(p) \/ (eqCheck # None /\ eqCheck' = None)]_vars

\* The charge of a deleted pod is eventually taken off, whatever cycle it was
\* in when it was deleted.
DeletedReleased == \A p \in Pods : (pod[p] = "deleted") ~> ~ Counted(p)

\* The entries eventually follow the ElasticQuotas of the API server.
QuotasFollowed ==
    \A n \in Namespaces : <>[]((infos[n] = None) = (quota[n] = None))

=============================================================================
