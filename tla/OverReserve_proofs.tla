------------------------- MODULE OverReserve_proofs -------------------------
(***************************************************************************)
(* Theorems about NodeResourceTopologyMatch: the over-reserving cache, for *)
(* every set of nodes, zones and pods; its filter, the search of the least *)
(* NUMA nodes and its scores, for any NUMA nodes, distances, containers    *)
(* and requests; and with these the problems of Algorithms about it.       *)
(***************************************************************************)
EXTENDS OverReserve, Algorithms, Sums

\* The requests of a set of pods are a number, and grow with the set.
LEMMA TotalReqFacts ==
    /\ \A S \in SUBSET Pods : TotalReq[S] \in Nat
    /\ \A S, T \in SUBSET Pods : S \subseteq T => TotalReq[S] <= TotalReq[T]
    /\ \A S, T \in SUBSET Pods : TotalReq[S \cup T] <= TotalReq[S] + TotalReq[T]
<1> USE PodAssumption DEF PodAssumption
<1>1. ASSUME NEW S \in SUBSET Pods
      PROVE  /\ IsFiniteSet(S) /\ TotalReq[S] = SumFunctionOnSet(Req, S)
             /\ TotalReq[S] \in Nat
  <2>1. IsFiniteSet(S)
    BY FS_Subset
  <2>2. SumFunctionOnSet(Req, S) \in Nat
    BY <2>1, SumNat
  <2> QED BY <2>1, <2>2 DEF TotalReq
<1>2. ASSUME NEW S \in SUBSET Pods, NEW T \in SUBSET Pods, S \subseteq T
      PROVE  TotalReq[T] = TotalReq[S] + TotalReq[T \ S]
  <2>1. \A x \in T : Req[x] \in Int
    OBVIOUS
  <2>2. SumFunctionOnSet(Req, T) = SumFunctionOnSet(Req, S) + SumFunctionOnSet(Req, T \ S)
    BY <1>1, <1>2, <2>1, SumSplit
  <2>3. T \ S \in SUBSET Pods
    OBVIOUS
  <2> QED BY <1>1, <2>2, <2>3
<1>3. ASSUME NEW S \in SUBSET Pods, NEW T \in SUBSET Pods, S \subseteq T
      PROVE  TotalReq[S] <= TotalReq[T]
  <2>1. T \ S \in SUBSET Pods
    OBVIOUS
  <2>2. TotalReq[S] \in Nat /\ TotalReq[T \ S] \in Nat
    BY <1>1, <2>1
  <2>3. TotalReq[T] = TotalReq[S] + TotalReq[T \ S]
    BY <1>2, <1>3
  <2> QED BY <2>2, <2>3
<1>4. ASSUME NEW S \in SUBSET Pods, NEW T \in SUBSET Pods
      PROVE  TotalReq[S \cup T] <= TotalReq[S] + TotalReq[T]
  <2> DEFINE U == S \cup T
             D == U \ S
  <2>1. U \in SUBSET Pods /\ D \in SUBSET Pods /\ S \subseteq U /\ D \subseteq T
    OBVIOUS
  <2> HIDE DEF U, D
  <2>2. TotalReq[U] = TotalReq[S] + TotalReq[U \ S]
    BY <1>2, <2>1
  <2>3. TotalReq[D] <= TotalReq[T]
    BY <1>3, <2>1
  <2>4. TotalReq[S] \in Nat /\ TotalReq[D] \in Nat /\ TotalReq[T] \in Nat
    BY <1>1, <2>1
  <2>5. TotalReq[U] <= TotalReq[S] + TotalReq[T]
    BY <2>2, <2>3, <2>4 DEF D
  <2> QED BY <2>5 DEF U
<1> QED BY <1>1, <1>3, <1>4

\* What an agent publishes is an NRT.
LEMMA ReportType == \A n \in Nodes : Report(n) \in NRT
<1> SUFFICES ASSUME NEW n \in Nodes PROVE Report(n) \in NRT
  OBVIOUS
<1>1. ASSUME NEW z \in Zones PROVE Free(n, z) \in Int
  <2>1. {p \in RunningOn(n) \cap Exclusive : zone[p] = z} \in SUBSET Pods
    BY DEF RunningOn
  <2> QED BY <2>1, TotalReqFacts, NodeAssumption DEF NodeAssumption, Free
<1>2. Fingerprint(RunningOn(n), AgentMethod = "OnlyExclusiveResources") \in SUBSET Pods
  BY DEF Fingerprint, RunningOn
<1> QED BY <1>1, <1>2 DEF Report, NRT

\* A pod has a node from its reservation on, and the informer knows of it only
\* once it is bound.
Placement ==
    \A p \in Pods : /\ stage[p] = "pending" => node[p] = None
                    /\ stage[p] # "pending" => node[p] \in Nodes
                    /\ stage[p] \in {"pending", "reserved"} => seen[p] = "pending"

\* The pod of a scheduling cycle is pending until the cycle reserves it.
CycleOfPending ==
    cycle # None => cycle.pod \notin Foreign /\ stage[cycle.pod] = "pending"

\* What makes AssumedOnNode inductive: a pod that is reserved has no node yet,
\* so no node can have it assumed from an earlier reservation.
IInv == TypeOK /\ AssumedOnNode /\ Placement /\ CycleOfPending

\* The invariant holds initially.
LEMMA InitInv == Init => IInv
<1> SUFFICES ASSUME Init PROVE IInv
  OBVIOUS
<1>1. nrt \in [Nodes -> NRT \cup {None}]
  BY NodeAssumption DEF NodeAssumption, Init, NRT
<1>2. TypeOK
  BY <1>1, NodeAssumption DEF NodeAssumption, Init, TypeOK, Stages
<1> QED BY <1>2 DEF IInv, Init, AssumedOnNode, Placement, CycleOfPending

\* The steps of the scheduling cycle preserve the invariant.
LEMMA CycleStep == IInv /\ SchedulingCycle => IInv'
<1> SUFFICES ASSUME IInv, SchedulingCycle PROVE IInv'
  OBVIOUS
<1> USE NodeAssumption DEF NodeAssumption, IInv, Cycle
<1>1. ASSUME NEW p \in Pods, NEW n \in Nodes, Filter(p, n) PROVE IInv'
  BY <1>1 DEF Filter, env, cache, TypeOK, AssumedOnNode, Placement, CycleOfPending
<1>2. ASSUME NodeMaybeOverReserved PROVE IInv'
  BY <1>2 DEF NodeMaybeOverReserved, Incr, env, TypeOK, AssumedOnNode, Placement, CycleOfPending
<1>3. ASSUME ReserveNodeResources PROVE IInv'
  <2>1. /\ cycle \in Cycle
        /\ stage[cycle.pod] = "pending" /\ node[cycle.pod] = None /\ cycle' = None
    BY <1>3 DEF ReserveNodeResources, TypeOK, CycleOfPending, Placement
  <2>2. TypeOK'
    BY <1>3, <2>1 DEF ReserveNodeResources, AddPod, TypeOK, Stages
  <2>3. AssumedOnNode'
    <3> SUFFICES ASSUME NEW n \in Nodes, NEW p \in assumedResources'[n] PROVE node'[p] = n
      BY DEF AssumedOnNode
    <3>1. CASE p = cycle.pod
      <4>1. p \notin assumedResources[n]
        BY <2>1, <3>1 DEF AssumedOnNode
      <4> QED BY <1>3, <2>1, <3>1, <4>1 DEF ReserveNodeResources, AddPod, TypeOK
    <3>2. CASE p # cycle.pod
      <4>1. p \in assumedResources[n]
        BY <1>3, <2>1, <3>2 DEF ReserveNodeResources, AddPod, TypeOK
      <4> QED BY <1>3, <2>1, <3>2, <4>1 DEF ReserveNodeResources, AssumedOnNode, TypeOK
    <3> QED BY <3>1, <3>2
  <2>4. Placement' /\ CycleOfPending'
    BY <1>3, <2>1 DEF ReserveNodeResources, Placement, CycleOfPending, TypeOK
  <2> QED BY <2>2, <2>3, <2>4
<1> QED BY <1>1, <1>2, <1>3 DEF SchedulingCycle

\* So do the steps of Resync.
LEMMA ResyncStep == IInv /\ Resync => IInv'
<1> SUFFICES ASSUME IInv, Resync PROVE IInv'
  OBVIOUS
<1> USE NodeAssumption DEF NodeAssumption, IInv, Cycle
<1>1. ASSUME ResyncDirty PROVE IInv'
  BY <1>1 DEF ResyncDirty, env, cache, TypeOK, AssumedOnNode, Placement, CycleOfPending
<1>2. ASSUME ResyncList PROVE IInv'
  BY <1>2 DEF ResyncList, env, cache, TypeOK, AssumedOnNode, Placement, CycleOfPending
<1>3. ASSUME NEW n \in Nodes, ResyncGet(n) PROVE IInv'
  <2>1. /\ resync \in [step : {"list", "get"}, todo : SUBSET Nodes, listing : SUBSET Pods,
                        updates : [Nodes -> NRT \cup {None}]]
        /\ (IF Matches(n) THEN nrt[n] ELSE None) \in NRT \cup {None}
    BY <1>3 DEF ResyncGet, TypeOK
  <2> DEFINE kept == [resync.updates EXCEPT ![n] = IF Matches(n) THEN nrt[n] ELSE None]
             rest == resync.todo \ {n}
  <2>2. kept \in [Nodes -> NRT \cup {None}] /\ rest \in SUBSET Nodes
    BY <2>1
  <2>3. \/ resync' = [[resync EXCEPT !.todo = rest] EXCEPT !.updates = kept]
        \/ resync' = [resync EXCEPT !.todo = rest]
    <3> HIDE DEF kept, rest
    <3>1. \/ resync' = [resync EXCEPT !.todo = rest, !.updates = kept]
          \/ resync' = [resync EXCEPT !.todo = rest]
      BY <1>3 DEF ResyncGet, kept, rest
    <3> QED BY <3>1
  <2>4. /\ resync' \in [step : {"list", "get"}, todo : SUBSET Nodes, listing : SUBSET Pods,
                         updates : [Nodes -> NRT \cup {None}]]
        /\ faults' \in 0 .. MaxFaults
    <3> HIDE DEF kept, rest
    <3>1. faults' \in 0 .. MaxFaults
      BY <1>3 DEF ResyncGet, TypeOK
    <3> QED BY <2>1, <2>2, <2>3, <3>1
  <2>5. TypeOK'
    BY <1>3, <2>4 DEF ResyncGet, env, cache, TypeOK
  <2> QED BY <1>3, <2>5 DEF ResyncGet, env, cache, AssumedOnNode, Placement, CycleOfPending
<1>4. ASSUME FlushNodes PROVE IInv'
  <2>1. TypeOK'
    BY <1>4 DEF FlushNodes, Flushed, env, TypeOK
  <2> QED BY <1>4, <2>1 DEF FlushNodes, env, TypeOK, AssumedOnNode, Placement, CycleOfPending
<1> QED BY <1>1, <1>2, <1>3, <1>4 DEF Resync

\* So do the steps of a pod: its binding cycle, its events and its kubelet.
LEMMA PodStep ==
    ASSUME IInv, NEW p \in Pods,
           \/ UnreserveNodeResources(p) \/ Bind(p) \/ PodEvent(p) \/ Start(p) \/ Delete(p)
           \/ \E n \in Nodes : BindForeign(p, n)
    PROVE  IInv'
<1> USE NodeAssumption DEF NodeAssumption, IInv, Cycle
<1>1. CASE UnreserveNodeResources(p)
  <2>1. node[p] \in Nodes /\ seen[p] = "pending"
    BY <1>1 DEF UnreserveNodeResources, Placement
  <2>2. TypeOK'
    BY <1>1, <2>1 DEF UnreserveNodeResources, DeletePod, TypeOK, Stages
  <2>3. AssumedOnNode'
    BY <1>1, <2>1 DEF UnreserveNodeResources, DeletePod, TypeOK, AssumedOnNode
  <2> QED BY <1>1, <2>1, <2>2, <2>3 DEF UnreserveNodeResources, TypeOK, Placement, CycleOfPending
<1>2. CASE Bind(p)
  BY <1>2 DEF Bind, cache, TypeOK, Stages, AssumedOnNode, Placement, CycleOfPending
<1>3. CASE PodEvent(p)
  <2>1. stage[p] # "pending" /\ node[p] \in Nodes
    BY <1>3 DEF PodEvent, Placement
  <2>2. nodesWithForeignPods' \subseteq Nodes
    BY <1>3, <2>1 DEF PodEvent, NodeHasForeignPods, Incr, TypeOK
  <2>3. TypeOK'
    BY <1>3, <2>2 DEF PodEvent, TypeOK
  <2> QED BY <1>3, <2>1, <2>3 DEF PodEvent, TypeOK, AssumedOnNode, Placement, CycleOfPending
<1>4. CASE Start(p)
  <2>1. TypeOK'
    BY <1>4 DEF Start, cache, TypeOK, Stages
  <2> QED BY <1>4, <2>1 DEF Start, cache, TypeOK, AssumedOnNode, Placement, CycleOfPending
<1>5. CASE Delete(p)
  BY <1>5 DEF Delete, cache, TypeOK, Stages, AssumedOnNode, Placement, CycleOfPending
<1>6. ASSUME NEW n \in Nodes, BindForeign(p, n) PROVE IInv'
  <2>1. TypeOK'
    BY <1>6 DEF BindForeign, cache, TypeOK, Stages
  <2>2. \A m \in Nodes : p \notin assumedResources[m]
    BY <1>6 DEF BindForeign, Placement, AssumedOnNode
  <2>3. AssumedOnNode'
    BY <1>6, <2>2 DEF BindForeign, cache, TypeOK, AssumedOnNode
  <2> QED BY <1>6, <2>1, <2>3 DEF BindForeign, cache, TypeOK, Placement, CycleOfPending
<1> QED BY <1>1, <1>2, <1>3, <1>4, <1>5, <1>6

\* So do the agents and a restart.
LEMMA ProcessStep == IInv /\ ((\E n \in Nodes : Publish(n)) \/ Restart) => IInv'
<1> SUFFICES ASSUME IInv, (\E n \in Nodes : Publish(n)) \/ Restart PROVE IInv'
  OBVIOUS
<1> USE NodeAssumption DEF NodeAssumption, IInv, Cycle
<1>1. ASSUME NEW n \in Nodes, Publish(n) PROVE IInv'
  <2>1. Report(n) \in NRT
    BY ReportType
  <2> QED BY <1>1, <2>1 DEF Publish, cache, TypeOK, AssumedOnNode, Placement, CycleOfPending
<1>2. ASSUME Restart PROVE IInv'
  <2>1. TypeOK'
    BY <1>2 DEF Restart, NewOverReserve, TypeOK, Stages
  <2>2. Placement'
    BY <1>2 DEF Restart, TypeOK, Placement, Stages
  <2> QED BY <1>2, <2>1, <2>2 DEF Restart, NewOverReserve, AssumedOnNode, CycleOfPending
<1> QED BY <1>1, <1>2

\* The invariant holds in every reachable state.
LEMMA Inductive == Spec => []IInv
<1>1. IInv /\ UNCHANGED vars => IInv'
  BY DEF vars, IInv, TypeOK, AssumedOnNode, Placement, CycleOfPending
<1>2. IInv /\ [Next]_vars => IInv'
  BY <1>1, CycleStep, ResyncStep, PodStep, ProcessStep DEF Next
<1> QED BY InitInv, <1>2, PTL DEF Spec

\* The cache, the cluster and the Resync under way are well typed: no handler
\* marks or charges a node that does not exist.
THEOREM TypeCorrect == Spec => []TypeOK
<1>1. IInv => TypeOK
  BY DEF IInv
<1> QED BY <1>1, Inductive, PTL

\* ReserveNodeResources, UnreserveNodeResources and FlushNodes leave a pod
\* assumed on no node but the one it was reserved on last.
THEOREM AssumedPodsAreThere == Spec => []AssumedOnNode
<1>1. IInv => AssumedOnNode
  BY DEF IInv
<1> QED BY <1>1, Inductive, PTL

-----------------------------------------------------------------------------
(* Only a flush, a restart or its own Unreserve forgets a pod *)

\* The reasons for which the cache may lose sight of pod p in a step.
MayForget(p) ==
    \/ node'[p] = None
    \/ faults' # faults
    \/ resync # None /\ resync' = None /\ node[p] \in Flushed

\* A step that loses sight of a pod has one of them.
LEMMA ForgetStep ==
    ASSUME IInv, Next, NEW p \in Pods, Accounted(p), ~ Accounted(p)'
    PROVE  MayForget(p)
<1> USE NodeAssumption DEF NodeAssumption, IInv, Cycle
<1>1. /\ node[p] # None /\ node[p] \in Nodes
      /\ node \in [Pods -> Nodes \cup {None}]
      /\ assumedResources \in [Nodes -> SUBSET Pods]
  BY DEF Accounted, TypeOK
<1>2. ASSUME node'[p] = node[p], nrts' = nrts, p \in assumedResources[node[p]] =>
                                                 p \in assumedResources'[node[p]]
      PROVE  FALSE
  BY <1>2 DEF Accounted
<1>3. ASSUME UNCHANGED <<node, nrts, assumedResources>> PROVE FALSE
  BY <1>2, <1>3
<1>4. ASSUME ReserveNodeResources PROVE FALSE
  <2>1. /\ cycle \in Cycle
        /\ node[cycle.pod] = None
    BY <1>4 DEF ReserveNodeResources, TypeOK, CycleOfPending, Placement
  <2>2. node'[p] = node[p]
    BY <1>1, <1>4, <2>1 DEF ReserveNodeResources
  <2>3. p \in assumedResources[node[p]] => p \in assumedResources'[node[p]]
    BY <1>1, <1>4, <2>1 DEF ReserveNodeResources, AddPod
  <2> QED BY <1>2, <1>4, <2>2, <2>3 DEF ReserveNodeResources
<1>5. ASSUME FlushNodes PROVE MayForget(p)
  <2>1. CASE node[p] \in Flushed
    BY <1>5, <2>1 DEF FlushNodes, MayForget
  <2>2. CASE node[p] \notin Flushed
    <3>1. /\ node' = node /\ nrts'[node[p]] = nrts[node[p]]
          /\ assumedResources'[node[p]] = assumedResources[node[p]]
      BY <1>1, <1>5, <2>2 DEF FlushNodes, env
    <3> QED BY <3>1 DEF Accounted
  <2> QED BY <2>1, <2>2
<1>6. ASSUME NEW q \in Pods, UnreserveNodeResources(q) PROVE MayForget(p)
  <2>1. CASE q = p
    BY <1>1, <1>6, <2>1 DEF UnreserveNodeResources, MayForget
  <2>2. CASE q # p
    <3>1. node'[p] = node[p] /\ nrts' = nrts
      BY <1>1, <1>6, <2>2 DEF UnreserveNodeResources
    <3>2. p \in assumedResources[node[p]] => p \in assumedResources'[node[p]]
      BY <1>1, <1>6, <2>2 DEF UnreserveNodeResources, DeletePod
    <3> QED BY <1>2, <3>1, <3>2
  <2> QED BY <2>1, <2>2
<1>7. ASSUME NEW q \in Pods, NEW n \in Nodes, BindForeign(q, n) PROVE FALSE
  <2>1. node[q] = None
    BY <1>7 DEF BindForeign, Placement
  <2>2. node'[p] = node[p]
    BY <1>1, <1>7, <2>1 DEF BindForeign
  <2> QED BY <1>2, <1>7, <2>2 DEF BindForeign, cache
<1>8. ASSUME Restart PROVE MayForget(p)
  BY <1>8 DEF Restart, MayForget, TypeOK
<1> QED
  BY <1>3, <1>4, <1>5, <1>6, <1>7, <1>8
  DEF Next, SchedulingCycle, Filter, NodeMaybeOverReserved, Resync, ResyncDirty, ResyncList,
      ResyncGet, Bind, PodEvent, Start, Delete, Publish, env, cache

\* OnlyFlushForgets: no step of another pod, and no flush of another node,
\* makes the cache lose sight of a pod it accounts for.
THEOREM SightIsKept == Spec => OnlyFlushForgets
<1>1. IInv /\ [Next]_vars =>
        [\A p \in Pods :
            (Accounted(p) /\ ~ Accounted(p)')
              => \/ node'[p] = None
                 \/ faults' # faults
                 \/ resync # None /\ resync' = None /\ node[p] \in Flushed]_vars
  BY ForgetStep DEF MayForget
<1> QED BY <1>1, Inductive, PTL DEF Spec, OnlyFlushForgets


-----------------------------------------------------------------------------
(* Quiet flushes never let a pod in that the node cannot hold *)

Started == {"running", "gone"}

\* The pods an NRT takes into account, going by its fingerprint.
Reported(r) == IF r.pfp = None THEN {} ELSE r.pfp

\* NRT r gives what the exclusive pods of its fingerprint leave of every zone
\* of node n; they started there and have ended at most since.  The pods'
\* nodes, stages and zones are parameters, so that a step can change them.
Describes(n, r, nodeOf, stageOf, zoneOf) ==
    /\ \A q \in Reported(r) : nodeOf[q] = n /\ stageOf[q] \in Started
    /\ \A z \in Zones :
         r.avail[z] = Capacity - TotalReq[{q \in Reported(r) \cap Exclusive : zoneOf[q] = z}]

\* The informer runs behind the cluster.
SeenBehind == \A p \in Pods : seen[p] = "running" => stage[p] \in Started

\* What is published with a fingerprint and what is cached describe their node.
ViewsDescribe ==
    \A n \in Nodes :
        /\ nrt[n] # None /\ nrt[n].pfp # None => Describes(n, nrt[n], node, stage, zone)
        /\ nrts[n] # None => Describes(n, nrts[n], node, stage, zone)

\* What Resync keeps for a node describes it, and its fingerprint is that of
\* the pods listed on the node.
UpdatesDescribe ==
    resync # None =>
        /\ \A p \in resync.listing : stage[p] \in Started
        /\ resync.step = "list" => \A n \in Nodes : resync.updates[n] = None
        /\ \A n \in Nodes :
             resync.updates[n] # None =>
               /\ Describes(n, resync.updates[n], node, stage, zone)
               /\ resync.updates[n].pfp # None
               /\ resync.updates[n].pfp = Fingerprint(ListedOn(n), wantsOnlyExclRes)

\* The cached view of an open node takes every occupant into account.
OccupantsCovered ==
    \A n \in Nodes :
        nrts[n] # None /\ n \notin nodesWithForeignPods
          => \A q \in Occupants(n) : q \in assumedResources[n] \/ q \in Reported(nrts[n])

QuietInv == SeenBehind /\ ViewsDescribe /\ UpdatesDescribe /\ OccupantsCovered

\* A pod that has started keeps its node and its zone.
Steady ==
    \A q \in Pods :
        stage[q] \in Started =>
            node'[q] = node[q] /\ zone'[q] = zone[q] /\ stage'[q] \in Started

LEMMA SteadyStep ==
    ASSUME IInv, Next
    PROVE  Steady
<1> USE NodeAssumption DEF NodeAssumption, IInv, Started
<1>1. /\ stage \in [Pods -> Stages] /\ node \in [Pods -> Nodes \cup {None}]
      /\ zone \in [Pods -> Zones \cup {None}]
  BY DEF TypeOK
<1>2. ASSUME UNCHANGED <<stage, node, zone>> PROVE Steady
  BY <1>2 DEF Steady
<1>3. ASSUME ReserveNodeResources PROVE Steady
  <2>1. cycle \in Cycle /\ stage[cycle.pod] = "pending"
    BY <1>3 DEF ReserveNodeResources, TypeOK, CycleOfPending
  <2> QED BY <1>1, <1>3, <2>1 DEF ReserveNodeResources, Steady
<1>4. ASSUME NEW p \in Pods, UnreserveNodeResources(p) \/ Bind(p) PROVE Steady
  BY <1>1, <1>4 DEF UnreserveNodeResources, Bind, Steady
<1>5. ASSUME NEW p \in Pods, Start(p) PROVE Steady
  <2>1. /\ stage[p] = "bound" /\ node' = node
        /\ \E x : stage' = [stage EXCEPT ![p] = x]
        /\ zone' = zone \/ \E z : zone' = [zone EXCEPT ![p] = z]
    BY <1>5 DEF Start
  <2> QED BY <1>1, <2>1 DEF Steady
<1>6. ASSUME NEW p \in Pods, Delete(p) PROVE Steady
  BY <1>1, <1>6 DEF Delete, Steady
<1>7. ASSUME NEW p \in Pods, NEW n \in Nodes, BindForeign(p, n) PROVE Steady
  BY <1>1, <1>7 DEF BindForeign, Steady
<1>8. ASSUME Restart PROVE Steady
  BY <1>1, <1>8 DEF Restart, Steady
<1> QED
  BY <1>2, <1>3, <1>4, <1>5, <1>6, <1>7, <1>8
  DEF Next, SchedulingCycle, Filter, NodeMaybeOverReserved, Resync, ResyncDirty, ResyncList,
      ResyncGet, FlushNodes, PodEvent, Publish, env, cache

\* An NRT goes on describing its node.
LEMMA StillDescribes ==
    ASSUME Steady, NEW n, NEW r \in NRT, Describes(n, r, node, stage, zone)
    PROVE  Describes(n, r, node', stage', zone')
<1>1. Reported(r) \subseteq Pods
  BY DEF Reported, NRT
<1>2. \A q \in Reported(r) : zone'[q] = zone[q] /\ node'[q] = n /\ stage'[q] \in Started
  BY <1>1 DEF Steady, Describes
<1>3. \A z \in Zones : {q \in Reported(r) \cap Exclusive : zone'[q] = z}
                         = {q \in Reported(r) \cap Exclusive : zone[q] = z}
  BY <1>2
<1> QED BY <1>2, <1>3 DEF Describes

\* What an agent publishes describes its node, when it has a fingerprint.
LEMMA ReportDescribes ==
    ASSUME TypeOK, NEW n \in Nodes, Report(n).pfp # None
    PROVE  Describes(n, Report(n), node, stage, zone)
<1>1. /\ Report(n).pfp = Fingerprint(RunningOn(n), AgentMethod = "OnlyExclusiveResources")
      /\ \A z \in Zones : Report(n).avail[z] = Free(n, z)
  BY DEF Report
<1>2. Reported(Report(n)) = Fingerprint(RunningOn(n), AgentMethod = "OnlyExclusiveResources")
  BY <1>1 DEF Reported
<1>3. /\ Reported(Report(n)) \subseteq RunningOn(n)
      /\ Reported(Report(n)) \cap Exclusive = RunningOn(n) \cap Exclusive
  BY <1>2 DEF Fingerprint
<1>4. \A z \in Zones : Report(n).avail[z] =
         Capacity - TotalReq[{q \in Reported(Report(n)) \cap Exclusive : zone[q] = z}]
  BY <1>1, <1>3 DEF Free
<1>5. \A q \in RunningOn(n) : node[q] = n /\ stage[q] \in Started
  BY DEF RunningOn, Started
<1> QED BY <1>3, <1>4, <1>5 DEF Describes

\* The quiet steps preserve the two invariants on the views of a node.
LEMMA ViewsStep ==
    ASSUME IInv, IInv', SeenBehind, ViewsDescribe, UpdatesDescribe, Next, QuietStep
    PROVE  SeenBehind' /\ ViewsDescribe' /\ UpdatesDescribe'
<1>1. Steady
  BY SteadyStep
<1>2. TypeOK /\ TypeOK'
  BY SMTT(30) DEF IInv
<1>3. SeenBehind'
  <2>1. ASSUME seen' = seen PROVE SeenBehind'
    BY <1>1, <2>1 DEF SeenBehind, Steady
  <2>2. ASSUME NEW p \in Pods, PodEvent(p) PROVE SeenBehind'
    BY <1>2, <2>2 DEF PodEvent, SeenBehind, TypeOK, Started
  <2> QED
    BY <2>1, <2>2
    DEF Next, QuietStep, SchedulingCycle, Filter, NodeMaybeOverReserved, ReserveNodeResources,
        Resync, ResyncDirty, ResyncList, ResyncGet, FlushNodes, UnreserveNodeResources, Bind,
        Start, Delete, BindForeign, Publish, env, cache
<1>4. \A n \in Nodes : /\ nrt[n] \in NRT \cup {None}
                       /\ nrts[n] \in NRT \cup {None}
                       /\ resync # None => resync.updates[n] \in NRT \cup {None}
  BY <1>2 DEF TypeOK
<1>5. ASSUME NEW n \in Nodes, nrt'[n] = nrt[n], nrt[n] # None, nrt[n].pfp # None
      PROVE  Describes(n, nrt'[n], node', stage', zone')
  BY <1>1, <1>4, <1>5, StillDescribes DEF ViewsDescribe
<1>6. ASSUME NEW n \in Nodes, nrts'[n] = nrts[n], nrts[n] # None
      PROVE  Describes(n, nrts'[n], node', stage', zone')
  BY <1>1, <1>4, <1>6, StillDescribes DEF ViewsDescribe
<1>7. ASSUME nrt' = nrt, nrts' = nrts PROVE ViewsDescribe'
  BY <1>5, <1>6, <1>7 DEF ViewsDescribe
<1>8. ASSUME NEW m \in Nodes, Publish(m) PROVE ViewsDescribe'
  <2>1. /\ nrt' = [nrt EXCEPT ![m] = Report(m)] /\ nrts' = nrts
        /\ node' = node /\ stage' = stage /\ zone' = zone
    BY <1>8 DEF Publish, cache
  <2>2. \A n \in Nodes : nrt'[n] = IF n = m THEN Report(m) ELSE nrt[n]
    BY <1>2, <2>1 DEF TypeOK
  <2>3. ASSUME NEW n \in Nodes, nrt'[n] # None, nrt'[n].pfp # None
        PROVE  Describes(n, nrt'[n], node', stage', zone')
    BY <1>2, <1>5, <2>1, <2>2, <2>3, ReportDescribes
  <2> QED BY <1>6, <2>1, <2>3 DEF ViewsDescribe
<1>9. ASSUME FlushNodes PROVE ViewsDescribe'
  <2>1. /\ resync # None /\ nrt' = nrt
        /\ \A n \in Nodes : nrts'[n] = IF resync.updates[n] # None THEN resync.updates[n]
                                      ELSE nrts[n]
    BY <1>9 DEF FlushNodes, Flushed, env
  <2>2. ASSUME NEW n \in Nodes, nrts'[n] # None
        PROVE  Describes(n, nrts'[n], node', stage', zone')
    <3>1. CASE resync.updates[n] # None
      <4>1. Describes(n, resync.updates[n], node, stage, zone) /\ resync.updates[n] \in NRT
        BY <1>4, <2>1, <3>1 DEF UpdatesDescribe
      <4>2. Describes(n, resync.updates[n], node', stage', zone')
        BY <1>1, <4>1, StillDescribes
      <4> QED BY <2>1, <3>1, <4>2
    <3>2. CASE resync.updates[n] = None
      BY <1>6, <2>1, <2>2, <3>2
    <3> QED BY <3>1, <3>2
  <2> QED BY <1>5, <2>1, <2>2 DEF ViewsDescribe
<1>10. ViewsDescribe'
  BY <1>7, <1>8, <1>9
  DEF Next, QuietStep, SchedulingCycle, Filter, NodeMaybeOverReserved, ReserveNodeResources,
      Resync, ResyncDirty, ResyncList, ResyncGet, UnreserveNodeResources, Bind, PodEvent,
      Start, Delete, BindForeign, env, cache
<1>11. ASSUME resync # None, NEW n \in Nodes, resync.updates[n] # None
       PROVE  Describes(n, resync.updates[n], node', stage', zone')
  BY <1>1, <1>4, <1>11, StillDescribes DEF UpdatesDescribe
<1>12. ASSUME resync' = resync PROVE UpdatesDescribe'
  <2> SUFFICES ASSUME resync # None PROVE UpdatesDescribe'
    BY <1>12 DEF UpdatesDescribe
  <2>1. resync.listing \subseteq Pods
    BY <1>2 DEF TypeOK
  <2>2. \A p \in resync.listing : stage'[p] \in Started /\ node'[p] = node[p]
    BY <1>1, <2>1 DEF UpdatesDescribe, Steady
  <2>3. \A n : ListedOn(n)' = ListedOn(n)
    BY <1>12, <2>2 DEF ListedOn
  <2> QED BY <1>11, <1>12, <2>2, <2>3 DEF UpdatesDescribe
<1>13. ASSUME ResyncDirty PROVE UpdatesDescribe'
  BY <1>13 DEF ResyncDirty, UpdatesDescribe
<1>14. ASSUME ResyncList PROVE UpdatesDescribe'
  <2>1. /\ resync # None /\ resync.step = "list" /\ stage' = stage
        /\ resync' = [resync EXCEPT !.step = "get",
                                    !.listing = {p \in Pods : seen[p] = "running"}]
    BY <1>14 DEF ResyncList, env
  <2>2. resync'.listing = {p \in Pods : seen[p] = "running"} /\ resync'.updates = resync.updates
    BY <1>2, <2>1 DEF TypeOK
  <2>3. resync'.step = "get"
    BY <1>2, <2>1 DEF TypeOK
  <2> QED BY <2>1, <2>2, <2>3 DEF UpdatesDescribe, SeenBehind
<1>15. ASSUME NEW m \in Nodes, ResyncGet(m) PROVE UpdatesDescribe'
  <2>1. /\ resync # None /\ resync.step = "get"
        /\ stage' = stage /\ node' = node /\ zone' = zone /\ nrt' = nrt
    BY <1>15 DEF ResyncGet, env
  <2> DEFINE kept == [resync.updates EXCEPT ![m] = IF Matches(m) THEN nrt[m] ELSE None]
             rest == resync.todo \ {m}
  <2>2. \/ resync' = [resync EXCEPT !.todo = rest, !.updates = kept]
        \/ resync' = [resync EXCEPT !.todo = rest]
    BY <1>15 DEF ResyncGet
  <2> HIDE DEF kept, rest
  <2>3. /\ resync'.listing = resync.listing /\ resync'.step = "get"
        /\ resync'.updates = kept \/ resync'.updates = resync.updates
    BY <1>2, <2>1, <2>2 DEF TypeOK
  <2>4. \A n : ListedOn(n)' = ListedOn(n)
    BY <2>1, <2>3 DEF ListedOn
  <2>5. resync.updates \in [Nodes -> NRT \cup {None}]
    BY <1>2, <2>1 DEF TypeOK
  <2>6. ASSUME NEW n \in Nodes, resync'.updates[n] # None
        PROVE  /\ Describes(n, resync'.updates[n], node', stage', zone')
               /\ resync'.updates[n].pfp # None
               /\ resync'.updates[n].pfp = Fingerprint(ListedOn(n), wantsOnlyExclRes)
    <3>1. CASE resync'.updates[n] = resync.updates[n]
      BY <1>11, <2>1, <2>6, <3>1 DEF UpdatesDescribe
    <3>2. CASE resync'.updates[n] # resync.updates[n]
      <4>1. n = m /\ Matches(m) /\ resync'.updates[n] = nrt[n]
        BY <2>3, <2>5, <2>6, <3>2 DEF kept
      <4>2. nrt[n] # None /\ nrt[n].pfp # None
        BY <4>1 DEF Matches
      <4>3. Describes(n, nrt'[n], node', stage', zone')
        BY <1>5, <2>1, <4>2
      <4> QED BY <2>1, <4>1, <4>2, <4>3 DEF Matches
    <3> QED BY <3>1, <3>2
  <2> QED BY <2>1, <2>3, <2>4, <2>6 DEF UpdatesDescribe
<1>16. ASSUME FlushNodes PROVE UpdatesDescribe'
  BY <1>16 DEF FlushNodes, UpdatesDescribe
<1>17. UpdatesDescribe'
  BY <1>12, <1>13, <1>14, <1>15, <1>16
  DEF Next, QuietStep, SchedulingCycle, Filter, NodeMaybeOverReserved, ReserveNodeResources,
      Resync, UnreserveNodeResources, Bind, PodEvent, Start, Delete, BindForeign, Publish,
      env, cache
<1> QED BY <1>3, <1>10, <1>17

\* The quiet steps keep every occupant of an open node covered.
LEMMA CoveredStep ==
    ASSUME IInv, QuietInv, Next, QuietStep
    PROVE  OccupantsCovered'
<1> USE NodeAssumption DEF NodeAssumption, IInv, Cycle
<1>1. /\ stage \in [Pods -> Stages] /\ node \in [Pods -> Nodes \cup {None}]
      /\ assumedResources \in [Nodes -> SUBSET Pods] /\ seen \in [Pods -> Stages \ {"reserved"}]
      /\ nodesWithForeignPods \subseteq Nodes
      /\ Exclusive \subseteq Pods
  BY PodAssumption DEF PodAssumption, TypeOK
<1>2. ASSUME NEW n \in Nodes, NEW q \in Occupants(n), nrts[n] # None, n \notin nodesWithForeignPods
      PROVE  q \in assumedResources[n] \/ q \in Reported(nrts[n])
  BY <1>2 DEF QuietInv, OccupantsCovered
\* It is enough that the step adds no occupant that it does not assume.
<1>3. ASSUME nrts' = nrts, nodesWithForeignPods \subseteq nodesWithForeignPods',
             \A n \in Nodes : n \notin nodesWithForeignPods' /\ nrts[n] # None =>
               \A q \in Occupants(n)' :
                  \/ q \in assumedResources'[n]
                  \/ q \in Occupants(n) /\ (q \in assumedResources[n] => q \in assumedResources'[n])
      PROVE  OccupantsCovered'
  <2> SUFFICES ASSUME NEW n \in Nodes, nrts'[n] # None, n \notin nodesWithForeignPods',
                      NEW q \in Occupants(n)'
               PROVE  q \in assumedResources'[n] \/ q \in Reported(nrts'[n])
    BY DEF OccupantsCovered
  <2>1. CASE q \in assumedResources'[n]
    BY <2>1
  <2>2. CASE q \in Occupants(n) /\ (q \in assumedResources[n] => q \in assumedResources'[n])
    BY <1>2, <1>3, <2>2
  <2> QED BY <1>3, <2>1, <2>2
<1>4. ASSUME nrts' = nrts, nodesWithForeignPods' = nodesWithForeignPods,
             assumedResources' = assumedResources,
             \A n \in Nodes : Occupants(n)' \subseteq Occupants(n)
      PROVE  OccupantsCovered'
  BY <1>3, <1>4
<1>5. ASSUME UNCHANGED <<stage, node, seen, nrts, nodesWithForeignPods, assumedResources>>
      PROVE  OccupantsCovered'
  <2>1. \A n \in Nodes : Occupants(n)' = Occupants(n)
    BY <1>5 DEF Occupants
  <2> QED BY <1>4, <1>5, <2>1
<1>6. ASSUME ReserveNodeResources PROVE OccupantsCovered'
  <2>1. cycle \in Cycle /\ cycle.pod \in Pods /\ cycle.node \in Nodes
    BY <1>6 DEF ReserveNodeResources, TypeOK
  <2>2. /\ nrts' = nrts /\ nodesWithForeignPods' = nodesWithForeignPods /\ seen' = seen
        /\ stage' = [stage EXCEPT ![cycle.pod] = "reserved"]
        /\ node' = [node EXCEPT ![cycle.pod] = cycle.node]
        /\ assumedResources' = [assumedResources EXCEPT ![cycle.node] = @ \cup {cycle.pod}]
    BY <1>6 DEF ReserveNodeResources, AddPod
  <2>3. ASSUME NEW n \in Nodes, NEW q \in Occupants(n)'
        PROVE  \/ q \in assumedResources'[n]
               \/ q \in Occupants(n) /\ (q \in assumedResources[n] => q \in assumedResources'[n])
    <3>1. q \in Pods /\ node'[q] = n
      BY <1>1 DEF Occupants
    <3>2. CASE q = cycle.pod
      BY <1>1, <2>1, <2>2, <3>1, <3>2
    <3>3. CASE q # cycle.pod
      <4>1. node'[q] = node[q] /\ stage'[q] = stage[q]
        BY <1>1, <2>1, <2>2, <3>1, <3>3
      <4>2. q \in Occupants(n)
        BY <2>2, <4>1 DEF Occupants
      <4>3. q \in assumedResources[n] => q \in assumedResources'[n]
        BY <1>1, <2>1, <2>2
      <4> QED BY <4>2, <4>3
    <3> QED BY <3>2, <3>3
  <2> QED BY <1>3, <2>2, <2>3
<1>7. ASSUME NEW p \in Pods, UnreserveNodeResources(p) PROVE OccupantsCovered'
  <2>1. /\ nrts' = nrts /\ nodesWithForeignPods' = nodesWithForeignPods /\ seen' = seen
        /\ stage' = [stage EXCEPT ![p] = "pending"]
        /\ node' = [node EXCEPT ![p] = None]
        /\ assumedResources' = [assumedResources EXCEPT ![node[p]] = @ \ {p}]
    BY <1>7 DEF UnreserveNodeResources, DeletePod
  <2>2. ASSUME NEW n \in Nodes, NEW q \in Occupants(n)'
        PROVE  q \in Occupants(n) /\ (q \in assumedResources[n] => q \in assumedResources'[n])
    <3>1. q \in Pods /\ node'[q] = n /\ stage'[q] # "pending"
      BY <1>1 DEF Occupants
    <3>2. q # p
      BY <1>1, <2>1, <3>1
    <3>3. node'[q] = node[q] /\ stage'[q] = stage[q]
      BY <1>1, <2>1, <3>1, <3>2
    <3>4. q \in Occupants(n)
      BY <2>1, <3>3 DEF Occupants
    <3>5. q \in assumedResources[n] => q \in assumedResources'[n]
      BY <1>1, <2>1, <3>2
    <3> QED BY <3>4, <3>5
  <2> QED BY <1>3, <2>1, <2>2
<1>8. ASSUME NEW p \in Pods, NEW to, stage' = [stage EXCEPT ![p] = to],
             UNCHANGED <<node, seen, nrts, nodesWithForeignPods, assumedResources>>,
             stage[p] \in {"reserved", "bound", "running"}
      PROVE  OccupantsCovered'
  <2>1. \A n \in Nodes : Occupants(n)' \subseteq Occupants(n)
    BY <1>1, <1>8 DEF Occupants
  <2> QED BY <1>4, <1>8, <2>1
<1>9. ASSUME NEW p \in Pods, Bind(p) \/ Delete(p) PROVE OccupantsCovered'
  BY <1>8, <1>9 DEF Bind, Delete, cache
<1>10. ASSUME NEW p \in Pods, Start(p) PROVE OccupantsCovered'
  <2>1. /\ stage[p] = "bound" /\ \E to : stage' = [stage EXCEPT ![p] = to]
        /\ UNCHANGED <<node, seen, nrts, nodesWithForeignPods, assumedResources>>
    BY <1>10 DEF Start, cache
  <2> QED BY <1>8, <2>1
<1>11. ASSUME NEW p \in Pods, NEW m \in Nodes, BindForeign(p, m) PROVE OccupantsCovered'
  <2>1. /\ p \in Foreign /\ seen[p] = "pending"
        /\ UNCHANGED <<seen, nrts, nodesWithForeignPods, assumedResources>>
        /\ stage' = [stage EXCEPT ![p] = "bound"] /\ node' = [node EXCEPT ![p] = m]
    BY <1>11 DEF BindForeign, Placement, cache
  <2>2. \A n \in Nodes : Occupants(n)' \subseteq Occupants(n)
    BY <1>1, <2>1 DEF Occupants
  <2> QED BY <1>4, <2>1, <2>2
<1>12. ASSUME NEW p \in Pods, PodEvent(p) PROVE OccupantsCovered'
  <2>1. /\ UNCHANGED <<stage, node, nrts, assumedResources>>
        /\ seen' = [seen EXCEPT ![p] = stage[p]]
    BY <1>12 DEF PodEvent
  <2>2. nodesWithForeignPods \subseteq nodesWithForeignPods'
    BY <1>12 DEF PodEvent, NodeHasForeignPods, Incr
  <2>3. ASSUME NEW n \in Nodes, n \notin nodesWithForeignPods', nrts[n] # None,
               NEW q \in Occupants(n)'
        PROVE  q \in Occupants(n)
    <3>1. q \in Pods /\ node[q] = n
      BY <1>1, <2>1 DEF Occupants
    <3>2. CASE q = p /\ IsForeignPod(p)
      BY <1>12, <2>3, <3>1, <3>2 DEF PodEvent, NodeHasForeignPods, Incr
    <3>3. CASE q # p \/ ~ IsForeignPod(p)
      <4>1. q # p => seen'[q] = seen[q]
        BY <1>1, <2>1, <3>1
      <4> QED BY <2>1, <3>3, <4>1 DEF Occupants, IsForeignPod
    <3> QED BY <3>2, <3>3
  <2> QED BY <1>3, <2>1, <2>2, <2>3
<1>13. ASSUME FlushNodes PROVE OccupantsCovered'
  <2>1. /\ resync # None /\ UNCHANGED <<stage, node, seen>>
        /\ nodesWithForeignPods' = nodesWithForeignPods \ Flushed
        /\ \A n \in Nodes :
             /\ nrts'[n] = IF n \in Flushed THEN resync.updates[n] ELSE nrts[n]
             /\ assumedResources'[n] = IF n \in Flushed THEN {} ELSE assumedResources[n]
    BY <1>13 DEF FlushNodes, env
  <2>2. \A n : Occupants(n)' = Occupants(n)
    BY <2>1 DEF Occupants
  <2> SUFFICES ASSUME NEW n \in Nodes, nrts'[n] # None, n \notin nodesWithForeignPods',
                      NEW q \in Occupants(n)
               PROVE  q \in assumedResources'[n] \/ q \in Reported(nrts'[n])
    BY <2>2 DEF OccupantsCovered
  <2>3. CASE n \in Flushed
    <3>1. resync.updates[n] # None /\ nrts'[n] = resync.updates[n]
      BY <2>1, <2>3 DEF Flushed
    <3>2. /\ nrts'[n].pfp # None
          /\ nrts'[n].pfp = Fingerprint(ListedOn(n), wantsOnlyExclRes)
      BY <2>1, <3>1 DEF QuietInv, UpdatesDescribe
    <3>3. q \in resync.listing /\ q \in Exclusive /\ node[q] = n
      BY <1>13, <2>3 DEF QuietStep, Occupants
    <3>4. q \in Fingerprint(ListedOn(n), wantsOnlyExclRes)
      BY <3>3 DEF Fingerprint, ListedOn
    <3> QED BY <3>2, <3>4 DEF Reported
  <2>4. CASE n \notin Flushed
    BY <1>2, <2>1, <2>4
  <2> QED BY <2>3, <2>4
<1> QED
  BY <1>5, <1>6, <1>7, <1>9, <1>10, <1>11, <1>12, <1>13
  DEF Next, QuietStep, SchedulingCycle, Filter, NodeMaybeOverReserved, Resync, ResyncDirty,
      ResyncList, ResyncGet, Publish, env, cache

\* A pod that passes the filter of an open node whose view is right fits.
LEMMA FilterIsSafe ==
    ASSUME IInv, QuietInv, NEW p \in Exclusive, NEW n \in Nodes, Req[p] > 0,
           n \notin nodesWithForeignPods, nrts[n] # None,
           Fits(p, UpdateNRT(nrts[n].avail, assumedResources[n]))
    PROVE  CanHold(n, p)
<1> USE NodeAssumption DEF NodeAssumption
<1> DEFINE assumed == assumedResources[n]
           r == nrts[n]
           inFlight == {q \in Occupants(n) : stage[q] # "running"}
<1>1. PICK z \in Zones : UpdateNRT(r.avail, assumed)[z] >= Req[p]
  BY DEF Fits
<1>2. /\ r \in NRT /\ assumed \in SUBSET Pods /\ Occupants(n) \subseteq Pods
      /\ Req[p] \in Nat /\ Capacity \in Nat /\ Exclusive \subseteq Pods
  BY PodAssumption DEF PodAssumption, IInv, TypeOK, Occupants
<1>3. r.avail[z] \in Int /\ TotalReq[assumed] \in Nat /\ Reported(r) \subseteq Pods
  BY <1>2, TotalReqFacts DEF NRT, Reported
<1>4. r.avail[z] - TotalReq[assumed] >= Req[p]
  <2>1. UpdateNRT(r.avail, assumed)[z] = IF r.avail[z] < TotalReq[assumed] THEN 0
                                         ELSE r.avail[z] - TotalReq[assumed]
    BY DEF UpdateNRT
  <2> HIDE DEF assumed, r
  <2> QED BY <1>1, <1>2, <1>3, <2>1
<1> DEFINE reported == {q \in Reported(r) \cap Exclusive : zone[q] = z}
<1>5. /\ r.avail[z] = Capacity - TotalReq[reported]
      /\ \A q \in Reported(r) : stage[q] \in Started
  BY DEF QuietInv, ViewsDescribe, Describes
<1>6. SUFFICES ASSUME NEW place \in [inFlight -> Zones]
               PROVE  Capacity - TotalReq[{q \in Occupants(n) : IF q \in inFlight THEN place[q] = z
                                                               ELSE zone[q] = z}] >= Req[p]
  BY DEF CanHold
<1> DEFINE there == {q \in Occupants(n) : IF q \in inFlight THEN place[q] = z ELSE zone[q] = z}
<1>7. there \subseteq assumed \cup reported
  <2> SUFFICES ASSUME NEW q \in there, q \notin assumed PROVE q \in reported
    OBVIOUS
  <2>1. q \in Reported(r)
    BY DEF QuietInv, OccupantsCovered
  <2>2. stage[q] = "running" /\ q \in Exclusive
    BY <1>5, <2>1 DEF Occupants, Started
  <2> QED BY <2>1, <2>2
<1>8. there \in SUBSET Pods /\ reported \in SUBSET Pods /\ (assumed \cup reported) \in SUBSET Pods
  BY <1>2, <1>3
<1> HIDE DEF there, reported, assumed, r, inFlight
<1>9. /\ TotalReq[there] <= TotalReq[assumed \cup reported]
      /\ TotalReq[assumed \cup reported] <= TotalReq[assumed] + TotalReq[reported]
      /\ TotalReq[there] \in Nat /\ TotalReq[reported] \in Nat
      /\ TotalReq[assumed \cup reported] \in Nat
  BY <1>2, <1>7, <1>8, TotalReqFacts
<1>10. Capacity - TotalReq[there] >= Req[p]
  BY <1>2, <1>3, <1>4, <1>5, <1>9
<1> QED BY <1>10 DEF there

\* NoFalsePositives: without a restart, and with flushes that cover the pods
\* placed on their node, Filter lets no pod on a node with topology data that
\* the node cannot hold; not for one node or two zones but for any cluster,
\* fingerprint method and mode of foreign pod detection.
THEOREM QuietFilterIsSafe == QuietFlushSpec => NoFalsePositives
<1>1. QuietFlushSpec => []IInv
  <2>1. Next /\ QuietStep => Next
    OBVIOUS
  <2>2. QuietFlushSpec => Spec
    BY <2>1, PTL DEF QuietFlushSpec, Spec
  <2> QED BY <2>2, Inductive, PTL
<1>2. Init => QuietInv
  <2> SUFFICES ASSUME Init PROVE QuietInv
    OBVIOUS
  <2>1. SeenBehind /\ UpdatesDescribe /\ OccupantsCovered
    BY PodAssumption DEF PodAssumption, Init, SeenBehind, UpdatesDescribe, OccupantsCovered, Occupants
  <2>2. ASSUME NEW n \in Nodes, nrt[n] # None PROVE Describes(n, nrt[n], node, stage, zone)
    <3>1. /\ \A z \in Zones : nrt[n].avail[z] = Capacity
          /\ nrt[n].pfp = None \/ nrt[n].pfp = {}
      BY <2>2 DEF Init
    <3>2. Reported(nrt[n]) = {}
      BY <3>1 DEF Reported
    <3>3. \A z \in Zones : {q \in Reported(nrt[n]) \cap Exclusive : zone[q] = z} = {}
      BY <3>2
    <3>4. TotalReq[{}] = 0
      BY SumEmpty DEF TotalReq
    <3> QED BY <3>1, <3>2, <3>3, <3>4, NodeAssumption DEF NodeAssumption, Describes
  <2>3. nrts = nrt
    BY DEF Init
  <2>4. ViewsDescribe
    BY <2>2, <2>3 DEF ViewsDescribe
  <2> QED BY <2>1, <2>4 DEF QuietInv
<1>3. IInv /\ IInv' /\ QuietInv /\ [Next /\ QuietStep]_vars => QuietInv'
  <2>1. ASSUME IInv, IInv', QuietInv, Next, QuietStep PROVE QuietInv'
    BY <2>1, ViewsStep, CoveredStep DEF QuietInv
  <2>2. ASSUME QuietInv, UNCHANGED vars PROVE QuietInv'
    BY <2>2
    DEF vars, QuietInv, SeenBehind, ViewsDescribe, UpdatesDescribe, OccupantsCovered, Occupants,
        ListedOn
  <2> QED BY <2>1, <2>2
<1>4. IInv /\ QuietInv /\ [Next /\ QuietStep]_vars =>
        [\A p \in Exclusive, n \in Nodes :
            (/\ Req[p] > 0
             /\ cycle = None /\ cycle' = [pod |-> p, node |-> n, step |-> "reserve"]
             /\ nrts[n] # None)
              => CanHold(n, p)]_vars
  <2> SUFFICES ASSUME IInv, QuietInv, Next, NEW p \in Exclusive, NEW n \in Nodes, Req[p] > 0,
                      cycle = None, cycle' = [pod |-> p, node |-> n, step |-> "reserve"],
                      nrts[n] # None
               PROVE  CanHold(n, p)
    OBVIOUS
  <2>1. cycle' # None
    <3>1. cycle' \in Cycle
      BY PodAssumption DEF PodAssumption, Cycle
    <3> QED BY <3>1, NoneAssumption
  <2>2. PICK p1 \in Pods, n1 \in Nodes : Filter(p1, n1)
    BY <2>1
    DEF Next, SchedulingCycle, NodeMaybeOverReserved, ReserveNodeResources, Resync, ResyncDirty,
        ResyncList, ResyncGet, FlushNodes, UnreserveNodeResources, Bind, PodEvent, Start, Delete,
        BindForeign, Publish, Restart, env, cache
  <2>3. cycle' = [pod |-> p1, node |-> n1,
                  step |-> IF nrts[n1] = None
                                \/ Fits(p1, UpdateNRT(nrts[n1].avail, assumedResources[n1]))
                           THEN "reserve" ELSE "discard"]
    BY <2>2 DEF Filter
  <2>4. p1 = p /\ n1 = n
    BY <2>3
  <2>5. Fits(p, UpdateNRT(nrts[n].avail, assumedResources[n])) /\ n \notin nodesWithForeignPods
    BY <2>2, <2>3, <2>4 DEF Filter
  <2> QED BY <2>5, FilterIsSafe
<1> QED BY <1>1, <1>2, <1>3, <1>4, PTL DEF QuietFlushSpec, NoFalsePositives

-----------------------------------------------------------------------------
(* The filter of one node: what it admits, container by container or as a    *)
(* whole                                                                     *)

\* A resource list over R, and what the filter is given.
Lists(R) == UNION {[D -> Nat] : D \in SUBSET R}
Quantities(list) == \A r \in DOMAIN list : list[r] \in Nat
NUMANodes(nodes) ==
    /\ DOMAIN nodes # {} /\ DOMAIN nodes \subseteq Nat \ {0}
    /\ \A i \in DOMAIN nodes : "res" \in DOMAIN nodes[i] /\ Quantities(nodes[i].res)
PodRequests(pod) ==
    /\ Len(pod.app) \in Nat /\ DOMAIN pod.app = 1 .. Len(pod.app)
    /\ Len(pod.init) \in Nat /\ DOMAIN pod.init = 1 .. Len(pod.init)
    /\ \A i \in DOMAIN pod.app : Quantities(pod.app[i])
    /\ \A i \in DOMAIN pod.init : Quantities(pod.init[i])
    /\ \A i \in DOMAIN pod.app : DOMAIN pod.app[i] \subseteq Numa!Requested(pod)
    /\ \A i \in DOMAIN pod.init : DOMAIN pod.init[i] \subseteq Numa!Requested(pod)

LEMMA GetType ==
    ASSUME NEW list, Quantities(list), NEW r
    PROVE  Numa!Get(list, r) \in Nat
BY DEF Quantities, Numa!Get

LEMMA SameNumaSum ==
    ASSUME NEW f, NEW S
    PROVE  Numa!SumFunctionOnSet(f, S) = SumFunctionOnSet(f, S)
BY DEF Numa!SumFunctionOnSet, Numa!FoldFunctionOnSet, Numa!MapThenFoldSet,
       SumFunctionOnSet, FoldFunctionOnSet, MapThenFoldSet

\* The NUMA nodes every needed resource of a request leaves possible.
Bits(nodes, req, qos) ==
    {i \in DOMAIN nodes : \A r \in {s \in DOMAIN req : req[s] # 0} :
                             i \in Numa!ResourceBits(nodes, r, req[r], qos)}

\* A NUMA node is picked if one is possible, and it is possible.
LEMMA Pick ==
    ASSUME NEW nodes, DOMAIN nodes \subseteq Nat \ {0}, NEW req, NEW qos, NEW nodeRes
    PROVE  LET id == Numa!resourcesAvailableInAnyNUMANodes(nodes, req, qos, nodeRes)
           IN  /\ id # 0 => id \in Bits(nodes, req, qos)
               /\ id # 0 <=> /\ \A r \in DOMAIN req : req[r] # 0 => r \in nodeRes
                             /\ Bits(nodes, req, qos) # {}
<1> DEFINE bits == Bits(nodes, req, qos)
<1>1. bits \subseteq Nat \ {0}
    BY DEF Bits
<1>2. bits # {} => Numa!Min(bits) \in bits
    <2>1. bits # {} => \E x \in bits : \A y \in bits : x <= y
        BY <1>1, LeastNumber
    <2> QED BY <2>1 DEF Numa!Min
<1>3. Numa!resourcesAvailableInAnyNUMANodes(nodes, req, qos, nodeRes) =
        IF ~({r \in DOMAIN req : req[r] # 0} \subseteq nodeRes) \/ bits = {} THEN 0 ELSE Numa!Min(bits)
    BY DEF Numa!resourcesAvailableInAnyNUMANodes, Bits
<1> HIDE DEF bits
<1> QED BY <1>1, <1>2, <1>3 DEF bits

\* What a container leaves: its request is off the node picked for it, which from
\* then on lists all it asked for.
LEMMA AfterOne ==
    ASSUME NEW ns, DOMAIN ns # {}, DOMAIN ns \subseteq Nat \ {0},
           \A i \in DOMAIN ns : "res" \in DOMAIN ns[i],
           \A i \in DOMAIN ns : \A r \in DOMAIN ns[i].res : ns[i].res[r] \in Int,
           NEW req, Quantities(req), NEW qos, NEW nodeRes
    PROVE  LET id == Numa!resourcesAvailableInAnyNUMANodes(ns, req, qos, nodeRes)
               new == Numa!AfterContainer(ns, req, qos, nodeRes)
           IN  /\ id = 0 => new = << >>
               /\ id # 0 =>
                    /\ id \in DOMAIN ns /\ new # << >> /\ DOMAIN new = DOMAIN ns
                    /\ \A i \in DOMAIN ns :
                          /\ "res" \in DOMAIN new[i]
                          /\ DOMAIN new[i].res =
                               IF i = id THEN DOMAIN ns[i].res \cup DOMAIN req ELSE DOMAIN ns[i].res
                          /\ \A r \in DOMAIN new[i].res : new[i].res[r] \in Int
                          /\ \A r : Numa!Get(new[i].res, r) =
                               IF i = id THEN Numa!Get(ns[i].res, r) - Numa!Get(req, r)
                               ELSE Numa!Get(ns[i].res, r)
<1> DEFINE id == Numa!resourcesAvailableInAnyNUMANodes(ns, req, qos, nodeRes)
           new == Numa!AfterContainer(ns, req, qos, nodeRes)
           list == [r \in DOMAIN ns[id].res \cup DOMAIN req |->
                       Numa!Get(ns[id].res, r) - Numa!Get(req, r)]
<1>1. id = 0 => new = << >>
    BY DEF Numa!AfterContainer
<1>2. id # 0 => id \in DOMAIN ns
    BY Pick DEF Bits
<1>3. ns # << >>
    OBVIOUS
<1>4. id # 0 => new = [ns EXCEPT ![id].res = list]
    BY <1>3 DEF Numa!AfterContainer, Numa!subtractFromNUMA
<1>5. \A i \in DOMAIN ns : \A r : Numa!Get(ns[i].res, r) \in Int
    BY DEF Numa!Get
<1>6. \A r : Numa!Get(req, r) \in Nat
    BY GetType
<1> HIDE DEF id, new
<1>7. ASSUME id # 0
      PROVE  /\ DOMAIN list = DOMAIN ns[id].res \cup DOMAIN req
             /\ \A r \in DOMAIN list : list[r] \in Int
             /\ \A r : Numa!Get(list, r) = Numa!Get(ns[id].res, r) - Numa!Get(req, r)
    <2>1. DOMAIN list = DOMAIN ns[id].res \cup DOMAIN req
        OBVIOUS
    <2>2. \A r \in DOMAIN list : list[r] = Numa!Get(ns[id].res, r) - Numa!Get(req, r)
        OBVIOUS
    <2>3. ASSUME NEW r \in DOMAIN list
          PROVE  list[r] \in Int
        <3> HIDE DEF list
        <3>1. list[r] = Numa!Get(ns[id].res, r) - Numa!Get(req, r)
            BY <2>2
        <3>2. Numa!Get(ns[id].res, r) \in Int /\ Numa!Get(req, r) \in Nat
            BY <1>2, <1>5, <1>6, <1>7
        <3> QED BY <3>1, <3>2
    <2>4. ASSUME NEW r
          PROVE  Numa!Get(list, r) = Numa!Get(ns[id].res, r) - Numa!Get(req, r)
        <3>1. CASE r \in DOMAIN list
            BY <2>2, <3>1 DEF Numa!Get
        <3>2. CASE r \notin DOMAIN list
            <4> HIDE DEF list
            <4>1. r \notin DOMAIN ns[id].res /\ r \notin DOMAIN req
                BY <2>1, <3>2
            <4> QED BY <3>2, <4>1 DEF Numa!Get
        <3> QED BY <3>1, <3>2
    <2> QED BY <2>1, <2>3, <2>4
<1> HIDE DEF list
<1>8. ASSUME id # 0
      PROVE  /\ DOMAIN new = DOMAIN ns
             /\ \A i \in DOMAIN ns : "res" \in DOMAIN new[i]
             /\ \A i \in DOMAIN ns : new[i].res = IF i = id THEN list ELSE ns[i].res
    BY <1>2, <1>4, <1>8
<1>9. id # 0 => new # << >>
    BY <1>8
<1>10. ASSUME id # 0, NEW i \in DOMAIN ns
       PROVE  /\ "res" \in DOMAIN new[i]
              /\ DOMAIN new[i].res =
                   IF i = id THEN DOMAIN ns[i].res \cup DOMAIN req ELSE DOMAIN ns[i].res
              /\ \A r \in DOMAIN new[i].res : new[i].res[r] \in Int
              /\ \A r : Numa!Get(new[i].res, r) =
                   IF i = id THEN Numa!Get(ns[i].res, r) - Numa!Get(req, r)
                   ELSE Numa!Get(ns[i].res, r)
    <2>1. CASE i = id
        BY <1>7, <1>8, <1>10, <2>1
    <2>2. CASE i # id
        BY <1>8, <1>10, <2>2
    <2> QED BY <2>1, <2>2
<1> QED BY <1>1, <1>2, <1>8, <1>9, <1>10 DEF id, new

\* What the containers leave, one after the other.
LEMMA LeftUnfolds ==
    ASSUME NEW pod, NEW nodes, NEW nodeRes, Len(pod.app) \in Nat
    PROVE  LET left == Numa!LeftByContainers(pod, nodes, nodeRes)
           IN  /\ left[0] = nodes
               /\ \A k \in 1 .. Len(pod.app) :
                     left[k] = Numa!AfterContainer(left[k - 1], pod.app[k], pod.qos, nodeRes)
<1> DEFINE n == Len(pod.app)
           After(ns, k) == Numa!AfterContainer(ns, pod.app[k], pod.qos, nodeRes)
           Is(g, m) == g = [i \in 0 .. m |-> IF i = 0 THEN nodes ELSE After(g[i - 1], i)]
           Bad == {m \in 0 .. n : ~ \E g : Is(g, m)}
<1> HIDE DEF After
<1>1. Bad = {}
    <2>1. SUFFICES ASSUME Bad # {} PROVE FALSE
        OBVIOUS
    <2>2. Bad \subseteq Nat
        OBVIOUS
    <2>3. PICK m \in Bad : \A k \in Bad : m <= k
        BY <2>1, <2>2, LeastNumber
    <2>4. CASE m = 0
        <3> DEFINE g == [i \in 0 .. 0 |-> nodes]
        <3>1. \A i \in 0 .. 0 : g[i] = IF i = 0 THEN nodes ELSE After(g[i - 1], i)
            OBVIOUS
        <3>2. Is(g, 0)
            BY <3>1
        <3> QED BY <2>3, <2>4, <3>2
    <2>5. CASE m # 0
        <3>1. m \in 1 .. n /\ m - 1 \in 0 .. n /\ m - 1 \notin Bad
            <4>1. m \in 0 .. n
                OBVIOUS
            <4>2. m \in 1 .. n /\ m - 1 \in 0 .. n /\ ~(m <= m - 1)
                BY <2>5, <4>1
            <4> QED BY <2>3, <4>2, Zenon
        <3>2. PICK g : Is(g, m - 1)
            BY <3>1
        <3> DEFINE h == [i \in 0 .. m |-> IF i < m THEN g[i] ELSE After(g[m - 1], m)]
        <3>3. \A i \in 0 .. m - 1 : g[i] = IF i = 0 THEN nodes ELSE After(g[i - 1], i)
            BY <3>2
        <3>4. ASSUME NEW i \in 0 .. m
              PROVE  h[i] = IF i = 0 THEN nodes ELSE After(h[i - 1], i)
            <4>1. CASE i < m
                <5>1. h[i] = g[i]
                    BY <4>1
                <5>2. i \in 0 .. m - 1
                    BY <3>1, <4>1
                <5>3. i # 0 => i - 1 \in 0 .. m /\ i - 1 < m
                    BY <3>1
                <5>4. i # 0 => h[i - 1] = g[i - 1]
                    BY <5>3
                <5> HIDE DEF h
                <5> QED BY <3>3, <5>1, <5>2, <5>4
            <4>2. CASE ~(i < m)
                <5>1. i = m /\ m # 0 /\ m - 1 \in 0 .. m /\ m - 1 < m
                    BY <3>1, <4>2
                <5>2. h[m] = After(g[m - 1], m) /\ h[m - 1] = g[m - 1]
                    BY <5>1
                <5> HIDE DEF h
                <5> QED BY <5>1, <5>2
            <4> QED BY <4>1, <4>2
        <3>5. Is(h, m)
            <4>1. h = [i \in 0 .. m |-> h[i]]
                OBVIOUS
            <4> HIDE DEF h
            <4> QED BY <3>4, <4>1
        <3> QED BY <2>3, <3>5
    <2> QED BY <2>4, <2>5
<1>2. \E g : Is(g, n)
    BY <1>1
<1> DEFINE left == CHOOSE g : Is(g, n)
<1>3. Is(left, n)
    BY <1>2
<1>4. Numa!LeftByContainers(pod, nodes, nodeRes) = left
    BY DEF Numa!LeftByContainers, After
<1> HIDE DEF left
<1>5. left[0] = nodes
    BY <1>3
<1>6. \A k \in 0 .. n : left[k] = IF k = 0 THEN nodes ELSE After(left[k - 1], k)
    BY <1>3, Zenon
<1>7. \A k \in 1 .. n : k \in 0 .. n /\ k # 0
    OBVIOUS
<1>8. \A k \in 1 .. n : left[k] = After(left[k - 1], k)
    BY <1>6, <1>7
<1> QED BY <1>4, <1>5, <1>8 DEF After

\* The NUMA nodes picked for the containers, those of the first k on node i, and
\* the books: what the first k containers leave on a node is what was there less
\* what the containers put there ask for.
Picked(pod, nodes, nodeRes) ==
    [k \in 1 .. Len(pod.app) |->
        Numa!resourcesAvailableInAnyNUMANodes(Numa!LeftByContainers(pod, nodes, nodeRes)[k - 1],
                                              pod.app[k], pod.qos, nodeRes)]
Placed(at, i, k) == {j \in 1 .. k : at[j] = i}
Amounts(cs, r) == [j \in DOMAIN cs |-> Numa!Get(cs[j], r)]
Balanced(pod, nodes, ns, at, k) ==
    /\ DOMAIN ns = DOMAIN nodes
    /\ \A i \in DOMAIN nodes :
          /\ "res" \in DOMAIN ns[i]
          /\ DOMAIN ns[i].res = DOMAIN nodes[i].res \cup UNION {DOMAIN pod.app[j] : j \in Placed(at, i, k)}
          /\ \A r \in DOMAIN ns[i].res : ns[i].res[r] \in Int
          /\ \A r : Numa!Get(ns[i].res, r) =
                       Numa!Get(nodes[i].res, r) - SumFunctionOnSet(Amounts(pod.app, r), Placed(at, i, k))

LEMMA PlacedNext ==
    ASSUME NEW at, NEW i, NEW k \in Nat, k # 0
    PROVE  /\ IsFiniteSet(Placed(at, i, k - 1)) /\ k \notin Placed(at, i, k - 1)
           /\ Placed(at, i, k) = IF at[k] = i THEN Placed(at, i, k - 1) \cup {k} ELSE Placed(at, i, k - 1)
<1>1. IsFiniteSet(1 .. k - 1)
    BY IndicesAreFinite
<1>2. IsFiniteSet(Placed(at, i, k - 1))
    BY <1>1, FS_Subset DEF Placed
<1>3. k \notin 1 .. k - 1 /\ 1 .. k = (1 .. k - 1) \cup {k}
    OBVIOUS
<1> QED BY <1>2, <1>3 DEF Placed

LEMMA AmountsType ==
    ASSUME NEW pod, PodRequests(pod), NEW r
    PROVE  \A j \in 1 .. Len(pod.app) :
              Amounts(pod.app, r)[j] = Numa!Get(pod.app[j], r) /\ Amounts(pod.app, r)[j] \in Nat
BY GetType DEF PodRequests, Amounts

LEMMA BalancedStep ==
    ASSUME NEW pod, PodRequests(pod), NEW nodes, NUMANodes(nodes), NEW nodeRes,
           NEW ns, NEW at, NEW k \in 1 .. Len(pod.app), Balanced(pod, nodes, ns, at, k - 1),
           at[k] = Numa!resourcesAvailableInAnyNUMANodes(ns, pod.app[k], pod.qos, nodeRes)
    PROVE  LET new == Numa!AfterContainer(ns, pod.app[k], pod.qos, nodeRes)
           IN  /\ new # << >> <=> at[k] # 0
               /\ at[k] # 0 => at[k] \in DOMAIN nodes /\ Balanced(pod, nodes, new, at, k)
<1> DEFINE new == Numa!AfterContainer(ns, pod.app[k], pod.qos, nodeRes)
           Before(i) == Placed(at, i, k - 1)
           Names(i, m) == UNION {DOMAIN pod.app[j] : j \in Placed(at, i, m)}
           Sum(i, r, m) == SumFunctionOnSet(Amounts(pod.app, r), Placed(at, i, m))
<1>1. k \in Nat /\ k # 0 /\ Len(pod.app) \in Nat /\ Quantities(pod.app[k])
    BY DEF PodRequests
<1>2. /\ DOMAIN ns # {} /\ DOMAIN ns \subseteq Nat \ {0}
      /\ \A i \in DOMAIN ns : "res" \in DOMAIN ns[i]
      /\ \A i \in DOMAIN ns : \A r \in DOMAIN ns[i].res : ns[i].res[r] \in Int
    BY DEF Balanced, NUMANodes
<1>3. /\ at[k] = 0 => new = << >>
      /\ at[k] # 0 =>
           /\ at[k] \in DOMAIN ns /\ new # << >> /\ DOMAIN new = DOMAIN ns
           /\ \A i \in DOMAIN ns :
                 /\ "res" \in DOMAIN new[i]
                 /\ DOMAIN new[i].res =
                      IF i = at[k] THEN DOMAIN ns[i].res \cup DOMAIN pod.app[k] ELSE DOMAIN ns[i].res
                 /\ \A r \in DOMAIN new[i].res : new[i].res[r] \in Int
                 /\ \A r : Numa!Get(new[i].res, r) =
                      IF i = at[k] THEN Numa!Get(ns[i].res, r) - Numa!Get(pod.app[k], r)
                      ELSE Numa!Get(ns[i].res, r)
    BY <1>1, <1>2, AfterOne
<1> HIDE DEF new
<1>4. ASSUME at[k] # 0, NEW i \in DOMAIN nodes
      PROVE  /\ DOMAIN new[i].res = DOMAIN nodes[i].res \cup Names(i, k)
             /\ \A r : Numa!Get(new[i].res, r) = Numa!Get(nodes[i].res, r) - Sum(i, r, k)
    <2>1. /\ DOMAIN ns[i].res = DOMAIN nodes[i].res \cup Names(i, k - 1)
          /\ \A r : Numa!Get(ns[i].res, r) = Numa!Get(nodes[i].res, r) - Sum(i, r, k - 1)
          /\ i \in DOMAIN ns
        BY DEF Balanced
    <2>2. CASE at[k] = i
        <3>1. Placed(at, i, k) = Before(i) \cup {k} /\ k \notin Before(i) /\ IsFiniteSet(Before(i))
            BY <1>1, <2>2, PlacedNext
        <3>2. Names(i, k) = Names(i, k - 1) \cup DOMAIN pod.app[k]
            BY <3>1
        <3>3. ASSUME NEW r
              PROVE  Numa!Get(new[i].res, r) = Numa!Get(nodes[i].res, r) - Sum(i, r, k)
            <4> DEFINE f == Amounts(pod.app, r)
            <4>1. \A j \in Before(i) \cup {k} : j \in 1 .. Len(pod.app)
                BY <1>1 DEF Placed
            <4>2. \A j \in Before(i) \cup {k} : f[j] \in Nat /\ f[k] = Numa!Get(pod.app[k], r)
                BY <4>1, AmountsType
            <4> HIDE DEF f
            <4>3. SumFunctionOnSet(f, Before(i) \cup {k}) = f[k] + SumFunctionOnSet(f, Before(i))
                BY <3>1, <4>2, SumAdd
            <4>4. Sum(i, r, k) = Numa!Get(pod.app[k], r) + Sum(i, r, k - 1)
                BY <3>1, <4>2, <4>3 DEF f
            <4>5. Sum(i, r, k - 1) \in Int /\ Numa!Get(pod.app[k], r) \in Int
                <5>1. SumFunctionOnSet(f, Before(i)) \in Int
                    BY <3>1, <4>2, SumInt
                <5> QED BY <5>1, <1>1, GetType DEF f
            <4>6. Numa!Get(nodes[i].res, r) \in Int
                BY GetType DEF NUMANodes
            <4>7. Numa!Get(new[i].res, r) = Numa!Get(ns[i].res, r) - Numa!Get(pod.app[k], r)
                BY <1>3, <1>4, <2>1, <2>2
            <4>8. Numa!Get(ns[i].res, r) = Numa!Get(nodes[i].res, r) - Sum(i, r, k - 1)
                BY <2>1
            <4> QED BY <4>4, <4>5, <4>6, <4>7, <4>8
        <3>4. DOMAIN new[i].res = DOMAIN ns[i].res \cup DOMAIN pod.app[k]
            BY <1>3, <1>4, <2>1, <2>2
        <3> HIDE DEF Names
        <3> QED BY <2>1, <3>2, <3>3, <3>4
    <2>3. CASE at[k] # i
        <3>1. Placed(at, i, k) = Before(i)
            BY <1>1, <2>3, PlacedNext
        <3>2. DOMAIN new[i].res = DOMAIN ns[i].res
            BY <1>3, <1>4, <2>1, <2>3
        <3>3. \A r : Numa!Get(new[i].res, r) = Numa!Get(ns[i].res, r)
            BY <1>3, <1>4, <2>1, <2>3
        <3> QED BY <2>1, <3>1, <3>2, <3>3
    <2> QED BY <2>2, <2>3
<1>5. DOMAIN ns = DOMAIN nodes
    BY DEF Balanced
<1>6. at[k] # 0 => Balanced(pod, nodes, new, at, k)
    BY <1>3, <1>4, <1>5 DEF Balanced
<1>7. new # << >> <=> at[k] # 0
    BY <1>3
<1> QED BY <1>3, <1>5, <1>6, <1>7 DEF new

LEMMA BalancedStart ==
    ASSUME NEW pod, NEW nodes, NUMANodes(nodes), NEW at
    PROVE  Balanced(pod, nodes, nodes, at, 0)
<1>1. \A i : Placed(at, i, 0) = {}
    BY DEF Placed
<1>2. \A r, i : SumFunctionOnSet(Amounts(pod.app, r), Placed(at, i, 0)) = 0
    BY <1>1, SumEmpty
<1>3. \A r : \A i \in DOMAIN nodes : Numa!Get(nodes[i].res, r) \in Int
    BY GetType DEF NUMANodes
<1>4. \A i \in DOMAIN nodes : \A r \in DOMAIN nodes[i].res : nodes[i].res[r] \in Int
    BY DEF NUMANodes, Quantities
<1>5. \A i \in DOMAIN nodes : "res" \in DOMAIN nodes[i]
    BY DEF NUMANodes
<1>6. \A i : UNION {DOMAIN pod.app[j] : j \in Placed(at, i, 0)} = {}
    BY <1>1
<1>7. \A r : \A i \in DOMAIN nodes :
         Numa!Get(nodes[i].res, r) =
             Numa!Get(nodes[i].res, r) - SumFunctionOnSet(Amounts(pod.app, r), Placed(at, i, 0))
    <2>1. \A x \in Int : x = x - 0
        OBVIOUS
    <2> QED BY <1>2, <1>3, <2>1
<1> QED BY <1>4, <1>5, <1>6, <1>7 DEF Balanced

\* As long as every container has found a node, the books are balanced.
LEMMA BooksAreBalanced ==
    ASSUME NEW pod, PodRequests(pod), NEW nodes, NUMANodes(nodes), NEW nodeRes
    PROVE  LET left == Numa!LeftByContainers(pod, nodes, nodeRes)
               at == Picked(pod, nodes, nodeRes)
           IN  \A k \in 0 .. Len(pod.app) : left[k] # << >> =>
                  /\ Balanced(pod, nodes, left[k], at, k)
                  /\ \A j \in 1 .. k : left[j - 1] # << >> /\ at[j] # 0 /\ at[j] \in DOMAIN nodes
<1> DEFINE n == Len(pod.app)
           left == Numa!LeftByContainers(pod, nodes, nodeRes)
           at == Picked(pod, nodes, nodeRes)
           Good(k) == /\ Balanced(pod, nodes, left[k], at, k)
                      /\ \A j \in 1 .. k : left[j - 1] # << >> /\ at[j] # 0 /\ at[j] \in DOMAIN nodes
           Bad == {k \in 0 .. n : left[k] # << >> /\ ~Good(k)}
<1>1. n \in Nat
    BY DEF PodRequests
<1>2. /\ left[0] = nodes
      /\ \A k \in 1 .. n : left[k] = Numa!AfterContainer(left[k - 1], pod.app[k], pod.qos, nodeRes)
    BY <1>1, LeftUnfolds
<1>3. \A k \in 1 .. n :
         at[k] = Numa!resourcesAvailableInAnyNUMANodes(left[k - 1], pod.app[k], pod.qos, nodeRes)
    BY DEF Picked
<1>4. \A k \in 1 .. n : left[k] # << >> => left[k - 1] # << >>
    BY <1>2 DEF Numa!AfterContainer
<1>5. SUFFICES ASSUME Bad # {} PROVE FALSE
    <2> HIDE DEF left, at
    <2>1. Bad = {} => \A k \in 0 .. n : left[k] # << >> => Good(k)
        OBVIOUS
    <2> HIDE DEF Bad
    <2> QED BY <1>5, <2>1 DEF left, at
<1> HIDE DEF left, at
<1>6. PICK k \in Bad : \A j \in Bad : k <= j
    <2>1. Bad \subseteq Nat
        BY <1>1
    <2> HIDE DEF Bad
    <2> QED BY <1>5, <2>1, LeastNumber
<1>7. k \in 0 .. n /\ left[k] # << >> /\ ~Good(k)
    OBVIOUS
<1>8. CASE k = 0
    <2>1. Balanced(pod, nodes, left[0], at, 0)
        BY <1>2, BalancedStart
    <2> QED BY <1>7, <1>8, <2>1
<1>9. CASE k # 0
    <2>1. k \in 1 .. n /\ k - 1 \in 0 .. n /\ ~(k <= k - 1)
        BY <1>1, <1>7, <1>9
    <2>2. left[k - 1] # << >>
        BY <1>4, <1>7, <2>1
    <2>3. k - 1 \notin Bad
        BY <1>6, <2>1, Zenon
    <2>4. Good(k - 1)
        BY <2>1, <2>2, <2>3, Zenon
    <2>5. at[k] # 0 /\ at[k] \in DOMAIN nodes /\ Balanced(pod, nodes, left[k], at, k)
        <3> DEFINE ns == left[k - 1]
        <3>1. Balanced(pod, nodes, ns, at, k - 1)
            BY <2>4
        <3>2. at[k] = Numa!resourcesAvailableInAnyNUMANodes(ns, pod.app[k], pod.qos, nodeRes)
            BY <1>3, <2>1
        <3>3. left[k] = Numa!AfterContainer(ns, pod.app[k], pod.qos, nodeRes)
            BY <1>2, <2>1
        <3> HIDE DEF ns
        <3>4. /\ left[k] # << >> <=> at[k] # 0
              /\ at[k] # 0 => at[k] \in DOMAIN nodes /\ Balanced(pod, nodes, left[k], at, k)
            BY <2>1, <3>1, <3>2, <3>3, BalancedStep
        <3> QED BY <1>7, <3>4
    <2>6. \A j \in 1 .. k : j = k \/ j \in 1 .. k - 1
        BY <2>1
    <2>7. Good(k)
        BY <2>2, <2>4, <2>5, <2>6
    <2> QED BY <1>7, <2>7
<1> QED BY <1>8, <1>9

\* No node is overdrawn of a resource some NUMA node lists, if the pod is
\* Guaranteed.
LEMMA NoOverdraft ==
    ASSUME NEW pod, PodRequests(pod), NEW nodes, NUMANodes(nodes), NEW nodeRes,
           pod.qos = "Guaranteed", NEW i \in DOMAIN nodes, NEW r, Numa!Affine(nodes, r)
    PROVE  LET left == Numa!LeftByContainers(pod, nodes, nodeRes)
           IN  \A k \in 0 .. Len(pod.app) : left[k] # << >> => Numa!Get(left[k][i].res, r) >= 0
<1> DEFINE n == Len(pod.app)
           left == Numa!LeftByContainers(pod, nodes, nodeRes)
           at == Picked(pod, nodes, nodeRes)
           Has(k) == Numa!Get(left[k][i].res, r)
           Bad == {k \in 0 .. n : left[k] # << >> /\ ~(Has(k) >= 0)}
<1>1. n \in Nat
    BY DEF PodRequests
<1>2. /\ left[0] = nodes
      /\ \A k \in 1 .. n : left[k] = Numa!AfterContainer(left[k - 1], pod.app[k], pod.qos, nodeRes)
    BY <1>1, LeftUnfolds
<1>3. \A k \in 1 .. n :
         at[k] = Numa!resourcesAvailableInAnyNUMANodes(left[k - 1], pod.app[k], pod.qos, nodeRes)
    BY DEF Picked
<1>4. \A k \in 0 .. n : left[k] # << >> =>
         /\ Balanced(pod, nodes, left[k], at, k)
         /\ \A j \in 1 .. k : left[j - 1] # << >> /\ at[j] # 0 /\ at[j] \in DOMAIN nodes
    BY BooksAreBalanced
<1>5. SUFFICES ASSUME Bad # {} PROVE FALSE
    <2> HIDE DEF left
    <2>1. Bad = {} => \A k \in 0 .. n : left[k] # << >> => Has(k) >= 0
        OBVIOUS
    <2> HIDE DEF Bad
    <2> QED BY <1>5, <2>1 DEF left
<1> HIDE DEF left, at
<1>6. PICK k \in Bad : \A j \in Bad : k <= j
    <2>1. Bad \subseteq Nat
        BY <1>1
    <2> HIDE DEF Bad
    <2> QED BY <1>5, <2>1, LeastNumber
<1>7. k \in 0 .. n /\ left[k] # << >> /\ ~(Has(k) >= 0)
    OBVIOUS
<1>8. CASE k = 0
    <2>1. Has(0) \in Nat
        BY <1>2, GetType DEF NUMANodes
    <2> QED BY <1>7, <1>8, <2>1
<1>9. CASE k # 0
    <2>1. k \in 1 .. n /\ k - 1 \in 0 .. n /\ ~(k <= k - 1) /\ k \in 1 .. k
        BY <1>1, <1>7, <1>9
    <2>2. left[k - 1] # << >> /\ at[k] # 0
        BY <1>4, <1>7, <2>1
    <2>3. k - 1 \notin Bad
        BY <1>6, <2>1, Zenon
    <2>4. Has(k - 1) >= 0
        BY <2>1, <2>2, <2>3, Zenon
    <2> DEFINE ns == left[k - 1]
               req == pod.app[k]
    <2>5. Balanced(pod, nodes, ns, at, k - 1)
        BY <1>4, <2>1, <2>2
    <2>6. /\ DOMAIN ns = DOMAIN nodes /\ DOMAIN ns # {} /\ DOMAIN ns \subseteq Nat \ {0}
          /\ \A j \in DOMAIN ns : "res" \in DOMAIN ns[j]
          /\ \A j \in DOMAIN ns : \A s \in DOMAIN ns[j].res : ns[j].res[s] \in Int
          /\ \A j \in DOMAIN ns : DOMAIN nodes[j].res \subseteq DOMAIN ns[j].res
        BY <2>5 DEF Balanced, NUMANodes
    <2>7. Quantities(req)
        BY <2>1 DEF PodRequests
    <2> HIDE DEF ns, req
    <2>8. at[k] = Numa!resourcesAvailableInAnyNUMANodes(ns, req, pod.qos, nodeRes)
        BY <1>3, <2>1 DEF ns, req
    <2>9. Has(k) = IF i = at[k] THEN Numa!Get(ns[i].res, r) - Numa!Get(req, r) ELSE Numa!Get(ns[i].res, r)
        <3>1. left[k] = Numa!AfterContainer(ns, req, pod.qos, nodeRes)
            BY <1>2, <2>1 DEF ns, req
        <3>2. \A j \in DOMAIN ns : Numa!Get(left[k][j].res, r) =
                 IF j = at[k] THEN Numa!Get(ns[j].res, r) - Numa!Get(req, r) ELSE Numa!Get(ns[j].res, r)
            BY <2>2, <2>6, <2>7, <2>8, <3>1, AfterOne, ZenonT(30)
        <3> QED BY <2>6, <3>2
    <2>10. CASE i = at[k] /\ r \in DOMAIN req /\ req[r] # 0
        <3>1. i \in Numa!ResourceBits(ns, r, req[r], pod.qos)
            <4>1. at[k] \in Bits(ns, req, pod.qos)
                BY <2>2, <2>6, <2>8, Pick
            <4> QED BY <2>10, <4>1 DEF Bits
        <3>2. PICK j \in DOMAIN nodes : r \in DOMAIN nodes[j].res
            BY DEF Numa!Affine
        <3>3. j \in DOMAIN ns /\ r \in DOMAIN ns[j].res
            BY <2>6, <3>2
        <3>4. r \in DOMAIN ns[i].res /\ Numa!isResourceSetSuitable(pod.qos, r, req[r], ns[i].res[r])
            BY <3>1, <3>3 DEF Numa!ResourceBits
        <3>5. ns[i].res[r] >= req[r]
            BY <3>4 DEF Numa!isResourceSetSuitable
        <3>6. Numa!Get(ns[i].res, r) = ns[i].res[r] /\ Numa!Get(req, r) = req[r]
            BY <2>10, <3>4 DEF Numa!Get
        <3>7. ns[i].res[r] \in Int /\ req[r] \in Int
            BY <2>6, <2>7, <2>10, <3>4 DEF Quantities
        <3>8. Has(k) = ns[i].res[r] - req[r]
            BY <2>9, <2>10, <3>6
        <3>9. Has(k) >= 0
            BY <3>5, <3>7, <3>8
        <3> QED BY <1>7, <3>9
    <2>11. CASE ~(i = at[k] /\ r \in DOMAIN req /\ req[r] # 0)
        <3>1. i = at[k] => Numa!Get(req, r) = 0
            BY <2>11 DEF Numa!Get
        <3>2. Numa!Get(ns[i].res, r) \in Int /\ Has(k - 1) = Numa!Get(ns[i].res, r)
            BY <2>6 DEF Numa!Get, ns
        <3>3. Has(k) = Has(k - 1)
            BY <2>9, <3>1, <3>2
        <3> QED BY <1>7, <2>4, <3>3
    <2> QED BY <2>10, <2>11
<1> QED BY <1>8, <1>9

\* The containers of a Guaranteed pod fit where they are put.
LEMMA AdmittedIsPlaceable ==
    ASSUME NEW pod, PodRequests(pod), NEW nodes, NUMANodes(nodes), NEW nodeRes,
           pod.qos = "Guaranteed",
           Numa!LeftByContainers(pod, nodes, nodeRes)[Len(pod.app)] # << >>
    PROVE  Numa!Placeable(pod.app, nodes)
<1> DEFINE n == Len(pod.app)
           left == Numa!LeftByContainers(pod, nodes, nodeRes)
           at == Picked(pod, nodes, nodeRes)
           cs == pod.app
<1>1. n \in Nat /\ n \in 0 .. n /\ DOMAIN cs = 1 .. n
    BY DEF PodRequests
<1>2. Balanced(pod, nodes, left[n], at, n) /\ \A j \in 1 .. n : at[j] \in DOMAIN nodes
    BY <1>1, BooksAreBalanced
<1>3. \A i \in DOMAIN nodes : \A r : Numa!Affine(nodes, r) => Numa!Get(left[n][i].res, r) >= 0
    BY <1>1, NoOverdraft
<1>4. at \in [DOMAIN cs -> DOMAIN nodes]
    BY <1>1, <1>2 DEF Picked
<1> HIDE DEF left, at
<1>5. ASSUME NEW i \in DOMAIN nodes, NEW r, Numa!Affine(nodes, r)
      PROVE  Numa!SumFunctionOnSet([j \in DOMAIN cs |-> Numa!Get(cs[j], r)], {j \in DOMAIN cs : at[j] = i})
               <= Numa!Get(nodes[i].res, r)
    <2> DEFINE sum == SumFunctionOnSet(Amounts(cs, r), Placed(at, i, n))
    <2>1. Numa!SumFunctionOnSet([j \in DOMAIN cs |-> Numa!Get(cs[j], r)], {j \in DOMAIN cs : at[j] = i}) = sum
        BY <1>1, SameNumaSum DEF Amounts, Placed
    <2>2. Numa!Get(left[n][i].res, r) = Numa!Get(nodes[i].res, r) - sum
        BY <1>2 DEF Balanced
    <2>3. sum \in Int
        <3>1. Placed(at, i, n) \subseteq 1 .. n /\ IsFiniteSet(1 .. n)
            BY <1>1, IndicesAreFinite DEF Placed
        <3>2. IsFiniteSet(Placed(at, i, n))
            BY <3>1, FS_Subset
        <3>3. \A j \in 1 .. n : Amounts(cs, r)[j] \in Nat
            BY AmountsType
        <3>4. \A j \in Placed(at, i, n) : Amounts(cs, r)[j] \in Int
            BY <3>1, <3>3
        <3> QED BY <3>2, <3>4, SumInt
    <2>4. Numa!Get(nodes[i].res, r) \in Int
        BY GetType DEF NUMANodes
    <2>5. Numa!Get(left[n][i].res, r) >= 0
        BY <1>3, <1>5
    <2> HIDE DEF sum
    <2>6. sum <= Numa!Get(nodes[i].res, r)
        BY <2>2, <2>3, <2>4, <2>5
    <2> QED BY <2>1, <2>6
<1> QED BY <1>4, <1>5 DEF Numa!Placeable

LEMMA NumaMaxBounds ==
    ASSUME NEW S, S \subseteq Nat, NEW x \in S, \A y \in S : x >= y
    PROVE  Numa!Max(S) \in Nat /\ \A y \in S : Numa!Max(S) >= y
BY DEF Numa!Max

\* The request of a pod as a whole covers all of its containers together and each
\* of its init containers.
LEMMA EffectiveRequest ==
    ASSUME NEW pod, PodRequests(pod), NEW r \in Numa!Requested(pod)
    PROVE  LET eff == Numa!GetPodEffectiveRequest(pod)
           IN  /\ DOMAIN eff = Numa!Requested(pod)
               /\ eff[r] \in Nat
               /\ SumFunctionOnSet(Amounts(pod.app, r), 1 .. Len(pod.app)) <= eff[r]
               /\ \A j \in DOMAIN pod.init : Numa!Get(pod.init[j], r) <= eff[r]
<1> DEFINE n == Len(pod.app)
           sum == SumFunctionOnSet(Amounts(pod.app, r), 1 .. n)
           inits == [j \in DOMAIN pod.init |-> Numa!Get(pod.init[j], r)]
           S == {sum} \cup {Numa!Get(pod.init[j], r) : j \in DOMAIN pod.init}
           eff == Numa!GetPodEffectiveRequest(pod)
<1>1. /\ n \in Nat /\ DOMAIN pod.app = 1 .. n /\ IsFiniteSet(1 .. n)
      /\ IsFiniteSet(DOMAIN pod.init)
    <2>1. \A m \in Nat : IsFiniteSet(1 .. m)
        BY FS_Interval
    <2> QED BY <2>1 DEF PodRequests
<1>2. sum \in Nat
    BY <1>1, AmountsType, SumNat
<1>3. \A j \in DOMAIN pod.init : Numa!Get(pod.init[j], r) \in Nat
    BY GetType DEF PodRequests
<1>4. Numa!SumFunction([i \in DOMAIN pod.app |-> Numa!Get(pod.app[i], r)]) = sum
    BY <1>1, SameNumaSum DEF Numa!SumFunction, Amounts
<1>5. eff[r] = Numa!Max(S) /\ DOMAIN eff = Numa!Requested(pod)
    <2> HIDE DEF sum
    <2> QED BY <1>4 DEF Numa!GetPodEffectiveRequest
<1> HIDE DEF sum, eff
<1>6. S \subseteq Nat
    BY <1>2, <1>3
<1>7. \E x \in S : \A y \in S : x >= y
    <2>1. CASE DOMAIN pod.init = {}
        <3>1. S = {sum}
            BY <2>1
        <3> QED BY <1>2, <3>1
    <2>2. CASE DOMAIN pod.init # {}
        <3>1. \A j \in DOMAIN pod.init : inits[j] = Numa!Get(pod.init[j], r) /\ inits[j] \in Int
            BY <1>3
        <3> HIDE DEF inits
        <3>2. PICK j \in DOMAIN pod.init : \A y \in DOMAIN pod.init : inits[j] >= inits[y]
            BY <1>1, <2>2, <3>1, GreatestValue
        <3>3. CASE inits[j] >= sum
            <4>1. \A y \in S : inits[j] >= y
                BY <3>1, <3>2, <3>3
            <4>2. inits[j] \in S
                BY <3>1
            <4> QED BY <4>1, <4>2
        <3>4. CASE ~(inits[j] >= sum)
            <4>1. \A y \in DOMAIN pod.init : sum >= Numa!Get(pod.init[y], r)
                BY <1>2, <3>1, <3>2, <3>4
            <4> QED BY <1>2, <4>1
        <3> QED BY <3>3, <3>4
    <2> QED BY <2>1, <2>2
<1>8. Numa!Max(S) \in Nat /\ \A y \in S : Numa!Max(S) >= y
    <2> HIDE DEF S
    <2> QED BY <1>6, <1>7, NumaMaxBounds
<1>9. \A y \in S : y <= Numa!Max(S)
    BY <1>6, <1>8
<1>10. sum \in S /\ \A j \in DOMAIN pod.init : Numa!Get(pod.init[j], r) \in S
    OBVIOUS
<1> HIDE DEF S
<1> QED BY <1>5, <1>8, <1>9, <1>10 DEF sum, eff

\* What the containers before k and container k itself ask for is no more than what
\* all ask for together.
LEMMA PlacedWithin ==
    ASSUME NEW pod, PodRequests(pod), NEW r, NEW k \in 1 .. Len(pod.app), NEW at, NEW i
    PROVE  LET f == Amounts(pod.app, r)
               before == SumFunctionOnSet(f, Placed(at, i, k - 1))
           IN  /\ before \in Nat /\ f[k] \in Nat
               /\ before + f[k] <= SumFunctionOnSet(f, 1 .. Len(pod.app))
<1> DEFINE n == Len(pod.app)
           f == Amounts(pod.app, r)
           T == Placed(at, i, k - 1)
<1>1. n \in Nat /\ k \in Nat /\ k # 0 /\ IsFiniteSet(1 .. n)
    <2>1. n \in Nat
        BY DEF PodRequests
    <2>2. IsFiniteSet(1 .. n)
        BY <2>1, IndicesAreFinite
    <2> QED BY <2>1, <2>2
<1>2. IsFiniteSet(T) /\ k \notin T
    BY <1>1, PlacedNext
<1>3. T \cup {k} \in SUBSET (1 .. n)
    BY <1>1 DEF Placed
<1>4. \A j \in 1 .. n : f[j] \in Nat
    BY AmountsType
<1> HIDE DEF f, T
<1>5. \A j \in 1 .. n : f[j] \in Int
    BY <1>4
<1>6. SumFunctionOnSet(f, 1 .. n) =
        SumFunctionOnSet(f, T \cup {k}) + SumFunctionOnSet(f, (1 .. n) \ (T \cup {k}))
    BY <1>1, <1>3, <1>5, SumSplit
<1>7. SumFunctionOnSet(f, T \cup {k}) = f[k] + SumFunctionOnSet(f, T)
    <2>1. \A j \in T \cup {k} : f[j] \in Int
        BY <1>3, <1>5
    <2> QED BY <1>2, <2>1, SumAdd
<1>8. SumFunctionOnSet(f, (1 .. n) \ (T \cup {k})) \in Nat
    <2>1. IsFiniteSet((1 .. n) \ (T \cup {k}))
        BY <1>1, FS_Subset
    <2>2. \A j \in (1 .. n) \ (T \cup {k}) : f[j] \in Nat
        BY <1>4
    <2> QED BY <2>1, <2>2, SumNat
<1>9. SumFunctionOnSet(f, T) \in Nat
    <2>1. \A j \in T : f[j] \in Nat
        BY <1>3, <1>4
    <2> QED BY <1>2, <2>1, SumNat
<1>10. f[k] \in Nat
    BY <1>4
<1>11. SumFunctionOnSet(f, T) + f[k] <= SumFunctionOnSet(f, 1 .. n)
    BY <1>6, <1>7, <1>8, <1>9, <1>10
<1> QED BY <1>9, <1>10, <1>11 DEF f, T

\* Two containers name a resource that no NUMA node lists.
Shared(pod, nodes, r) ==
    /\ ~Numa!Affine(nodes, r)
    /\ \E j, k \in DOMAIN pod.app : j # k /\ r \in DOMAIN pod.app[j] \cap DOMAIN pod.app[k]

\* The node of a pod that fits as a whole has room for the next container.
LEMMA NextFits ==
    ASSUME NEW pod, PodRequests(pod), NEW nodes, NUMANodes(nodes),
           ~(\E r \in Numa!Requested(pod) : Shared(pod, nodes, r)),
           NEW id \in Bits(nodes, Numa!GetPodEffectiveRequest(pod), pod.qos),
           NEW k \in 1 .. Len(pod.app), NEW at, NEW ns, Balanced(pod, nodes, ns, at, k - 1)
    PROVE  id \in Bits(ns, pod.app[k], pod.qos)
<1> DEFINE req == pod.app[k]
           eff == Numa!GetPodEffectiveRequest(pod)
           n == Len(pod.app)
<1>1. n \in Nat /\ DOMAIN pod.app = 1 .. n /\ Quantities(req) /\ DOMAIN req \subseteq Numa!Requested(pod)
    BY DEF PodRequests
<1>2. DOMAIN ns = DOMAIN nodes /\ id \in DOMAIN ns
    BY DEF Balanced, Bits
<1>3. ASSUME NEW r \in DOMAIN req, req[r] # 0
      PROVE  id \in Numa!ResourceBits(ns, r, req[r], pod.qos)
    <2> DEFINE f == Amounts(pod.app, r)
               before == SumFunctionOnSet(f, Placed(at, id, k - 1))
    <2>1. r \in Numa!Requested(pod)
        BY <1>1
    <2>2. before \in Nat /\ f[k] \in Nat /\ before + f[k] <= SumFunctionOnSet(f, 1 .. n)
        BY PlacedWithin
    <2>3. /\ DOMAIN eff = Numa!Requested(pod) /\ eff[r] \in Nat
          /\ SumFunctionOnSet(f, 1 .. n) <= eff[r]
        BY <2>1, EffectiveRequest
    <2>4. SumFunctionOnSet(f, 1 .. n) \in Nat
        <3>1. \A j \in 1 .. n : f[j] \in Nat
            BY AmountsType
        <3>2. IsFiniteSet(1 .. n)
            BY <1>1, IndicesAreFinite
        <3> QED BY <3>1, <3>2, SumNat
    <2>5. f[k] = req[r]
        BY <1>1 DEF Amounts, Numa!Get
    <2> HIDE DEF f, before, eff, req
    <2>6. req[r] \in Nat /\ before + req[r] <= eff[r] /\ eff[r] # 0
        BY <1>3, <2>2, <2>3, <2>4, <2>5
    <2>7. id \in Numa!ResourceBits(nodes, r, eff[r], pod.qos)
        BY <2>1, <2>3, <2>6 DEF Bits, eff
    <2>8. CASE Numa!Affine(nodes, r)
        <3>1. r \in DOMAIN nodes[id].res
              /\ Numa!isResourceSetSuitable(pod.qos, r, eff[r], nodes[id].res[r])
            BY <2>7, <2>8 DEF Numa!ResourceBits, Numa!Affine
        <3>2. r \in DOMAIN ns[id].res /\ ns[id].res[r] \in Int
            BY <1>2, <3>1 DEF Balanced
        <3>3. ns[id].res[r] = nodes[id].res[r] - before
            BY <1>2, <3>1, <3>2 DEF Balanced, Numa!Get, before, f
        <3>4. nodes[id].res[r] \in Nat
            BY <1>2, <3>1 DEF NUMANodes, Quantities
        <3>5. nodes[id].res[r] >= eff[r] => ns[id].res[r] >= req[r]
            <4>1. \A a, b, c, d \in Int : a >= b /\ c + d <= b => a - c >= d
                OBVIOUS
            <4>2. nodes[id].res[r] \in Int /\ eff[r] \in Int /\ before \in Int /\ req[r] \in Int
                BY <2>2, <2>3, <2>6, <3>4
            <4> QED BY <2>6, <3>3, <4>1, <4>2
        <3>6. Numa!isResourceSetSuitable(pod.qos, r, req[r], ns[id].res[r])
            BY <3>1, <3>5 DEF Numa!isResourceSetSuitable
        <3> QED BY <1>2, <3>2, <3>6 DEF Numa!ResourceBits
    <2>9. CASE ~Numa!Affine(nodes, r)
        <3>1. r \notin {"cpu", "memory"}
            BY <2>7, <2>9 DEF Numa!ResourceBits, Numa!Affine
        <3>2. ASSUME NEW i \in DOMAIN ns, r \in DOMAIN ns[i].res
              PROVE  FALSE
            <4>1. r \notin DOMAIN nodes[i].res
                BY <1>2, <2>9 DEF Numa!Affine
            <4>2. PICK j \in Placed(at, i, k - 1) : r \in DOMAIN pod.app[j]
                BY <1>2, <3>2, <4>1 DEF Balanced
            <4>3. j \in 1 .. n /\ k \in 1 .. n /\ j # k
                BY <1>1 DEF Placed
            <4>4. Shared(pod, nodes, r)
                BY <1>1, <1>3, <2>9, <4>2, <4>3 DEF Shared, req
            <4> QED BY <2>1, <4>4
        <3> QED BY <1>2, <3>1, <3>2 DEF Numa!ResourceBits
    <2> QED BY <2>8, <2>9
<1> QED BY <1>2, <1>3 DEF Bits

\* A pod that fits one NUMA node as a whole passes container by container.
LEMMA WholeThenParts ==
    ASSUME NEW pod, PodRequests(pod), NEW nodes, NUMANodes(nodes), NEW nodeRes,
           ~(\E r \in Numa!Requested(pod) : Shared(pod, nodes, r)),
           Numa!singleNUMAPodLevelHandler(pod, nodes, nodeRes)
    PROVE  Numa!singleNUMAContainerLevelHandler(pod, nodes, nodeRes)
<1> DEFINE n == Len(pod.app)
           eff == Numa!GetPodEffectiveRequest(pod)
           left == Numa!LeftByContainers(pod, nodes, nodeRes)
           at == Picked(pod, nodes, nodeRes)
           Bad == {k \in 0 .. n : left[k] = << >>}
<1>1. /\ n \in Nat /\ DOMAIN nodes # {} /\ DOMAIN nodes \subseteq Nat \ {0}
      /\ DOMAIN pod.app = 1 .. n
    BY DEF PodRequests, NUMANodes
<1>2. /\ \A r \in DOMAIN eff : eff[r] # 0 => r \in nodeRes
      /\ Bits(nodes, eff, pod.qos) # {}
    BY <1>1, Pick DEF Numa!singleNUMAPodLevelHandler
<1>3. PICK id \in Bits(nodes, eff, pod.qos) : TRUE
    BY <1>2
<1>4. ASSUME NEW j \in DOMAIN pod.init
      PROVE  Numa!resourcesAvailableInAnyNUMANodes(nodes, pod.init[j], pod.qos, nodeRes) # 0
    <2> DEFINE req == pod.init[j]
    <2>1. Quantities(req) /\ DOMAIN req \subseteq Numa!Requested(pod)
        BY DEF PodRequests
    <2>2. ASSUME NEW r \in DOMAIN req, req[r] # 0
          PROVE  r \in nodeRes /\ id \in Numa!ResourceBits(nodes, r, req[r], pod.qos)
        <3>1. r \in DOMAIN eff /\ eff[r] \in Nat /\ Numa!Get(req, r) <= eff[r]
            BY <2>1, EffectiveRequest
        <3>2. Numa!Get(req, r) = req[r] /\ req[r] \in Nat
            BY <2>1 DEF Numa!Get, Quantities
        <3> HIDE DEF eff, req
        <3>3. eff[r] # 0 /\ req[r] <= eff[r]
            BY <2>2, <3>1, <3>2
        <3>4. id \in Numa!ResourceBits(nodes, r, eff[r], pod.qos)
            BY <3>1, <3>3 DEF Bits
        <3>5. \A i \in DOMAIN nodes : r \in DOMAIN nodes[i].res => nodes[i].res[r] \in Nat
            BY DEF NUMANodes, Quantities
        <3>6. \A x \in Nat : Numa!isResourceSetSuitable(pod.qos, r, eff[r], x)
                               => Numa!isResourceSetSuitable(pod.qos, r, req[r], x)
            BY <3>1, <3>2, <3>3 DEF Numa!isResourceSetSuitable
        <3>7. id \in Numa!ResourceBits(nodes, r, req[r], pod.qos)
            BY <3>4, <3>5, <3>6 DEF Numa!ResourceBits
        <3> QED BY <1>2, <3>1, <3>3, <3>7
    <2>3. id \in Bits(nodes, req, pod.qos)
        BY <2>2 DEF Bits
    <2> HIDE DEF req
    <2>4. Numa!resourcesAvailableInAnyNUMANodes(nodes, req, pod.qos, nodeRes) # 0
        BY <1>1, <2>2, <2>3, Pick
    <2> QED BY <2>4 DEF req
<1>5. left[n] # << >>
    <2>1. /\ left[0] = nodes
          /\ \A k \in 1 .. n : left[k] = Numa!AfterContainer(left[k - 1], pod.app[k], pod.qos, nodeRes)
        BY <1>1, LeftUnfolds
    <2>2. \A k \in 1 .. n :
             at[k] = Numa!resourcesAvailableInAnyNUMANodes(left[k - 1], pod.app[k], pod.qos, nodeRes)
        BY DEF Picked
    <2>3. \A k \in 0 .. n : left[k] # << >> => Balanced(pod, nodes, left[k], at, k)
        BY BooksAreBalanced
    <2> HIDE DEF left, at
    <2>4. SUFFICES ASSUME Bad # {} PROVE FALSE
        BY <1>1
    <2>5. PICK k \in Bad : \A j \in Bad : k <= j
        <3>1. Bad \subseteq Nat
            BY <1>1
        <3> HIDE DEF Bad
        <3> QED BY <2>4, <3>1, LeastNumber
    <2>6. k \in 0 .. n /\ left[k] = << >>
        OBVIOUS
    <2>7. k # 0
        BY <1>1, <2>1, <2>6
    <2>8. k \in 1 .. n /\ k - 1 \in 0 .. n /\ ~(k <= k - 1)
        BY <1>1, <2>6, <2>7
    <2>9. left[k - 1] # << >>
        BY <2>5, <2>8, Zenon
    <2> DEFINE ns == left[k - 1]
               req == pod.app[k]
    <2>10. Balanced(pod, nodes, ns, at, k - 1)
        BY <2>3, <2>8, <2>9
    <2>11. at[k] = Numa!resourcesAvailableInAnyNUMANodes(ns, req, pod.qos, nodeRes)
        BY <2>2, <2>8
    <2>12. left[k] = Numa!AfterContainer(ns, req, pod.qos, nodeRes)
        BY <2>1, <2>8
    <2> HIDE DEF ns
    <2>13. id \in Bits(ns, req, pod.qos)
        BY <2>8, <2>10, NextFits
    <2>14. ASSUME NEW r \in DOMAIN req, req[r] # 0
           PROVE  r \in nodeRes
        <3> DEFINE f == Amounts(pod.app, r)
        <3>1. Quantities(req) /\ r \in Numa!Requested(pod)
            BY <1>1, <2>8 DEF PodRequests
        <3>2. SumFunctionOnSet(f, 1 .. n) <= eff[r] /\ eff[r] \in Nat /\ r \in DOMAIN eff
            BY <3>1, EffectiveRequest
        <3>3. /\ SumFunctionOnSet(f, Placed(at, id, k - 1)) \in Nat /\ f[k] \in Nat
              /\ SumFunctionOnSet(f, Placed(at, id, k - 1)) + f[k] <= SumFunctionOnSet(f, 1 .. n)
            BY <2>8, PlacedWithin
        <3>4. f[k] = req[r]
            BY <1>1, <2>8 DEF Amounts, Numa!Get
        <3>5. SumFunctionOnSet(f, 1 .. n) \in Int
            <4>1. IsFiniteSet(1 .. n)
                BY <1>1, IndicesAreFinite
            <4>2. \A j \in 1 .. n : f[j] \in Nat
                BY AmountsType
            <4> HIDE DEF f
            <4>3. \A j \in 1 .. n : f[j] \in Int
                BY <4>2
            <4> QED BY <4>1, <4>3, SumInt
        <3> HIDE DEF f, eff, req
        <3>6. eff[r] # 0
            BY <2>14, <3>2, <3>3, <3>4, <3>5
        <3> QED BY <1>2, <3>2, <3>6
    <2>15. at[k] # 0
        <3>1. DOMAIN ns \subseteq Nat \ {0}
            BY <1>1, <2>10 DEF Balanced
        <3> HIDE DEF req
        <3> QED BY <2>11, <2>13, <2>14, <3>1, Pick
    <2>16. left[k] # << >>
        BY <2>8, <2>10, <2>11, <2>12, <2>15, BalancedStep
    <2> QED BY <2>6, <2>16
<1> HIDE DEF left
<1> QED BY <1>4, <1>5 DEF Numa!singleNUMAContainerLevelHandler, left

LEMMA InputOfFilter ==
    ASSUME NEW R, NEW C, NEW nodes \in Seq([res : Lists(R), costs : C]), nodes # << >>,
           NEW Q, NEW pod \in [init : Seq(Lists(R)), app : Seq(Lists(R)), qos : Q]
    PROVE  NUMANodes(nodes) /\ PodRequests(pod)
<1>1. \A list \in Lists(R) : Quantities(list)
    BY DEF Lists, Quantities
<1>2. NUMANodes(nodes)
    <2> DEFINE T == [res : Lists(R), costs : C]
    <2>1. DOMAIN nodes = 1 .. Len(nodes) /\ Len(nodes) \in Nat /\ Len(nodes) # 0
        OBVIOUS
    <2>2. \A i \in DOMAIN nodes : nodes[i] \in T
        <3>1. nodes \in Seq(T)
            OBVIOUS
        <3> HIDE DEF T
        <3> QED BY <3>1
    <2>3. \A i \in DOMAIN nodes : "res" \in DOMAIN nodes[i] /\ Quantities(nodes[i].res)
        BY <1>1, <2>2
    <2>4. \A m \in Nat : m # 0 => 1 \in 1 .. m /\ 1 .. m \subseteq Nat \ {0}
        OBVIOUS
    <2>5. DOMAIN nodes # {} /\ DOMAIN nodes \subseteq Nat \ {0}
        BY <2>1, <2>4
    <2> QED BY <2>3, <2>5 DEF NUMANodes
<1>3. PodRequests(pod)
    <2> DEFINE init == pod.init
               app == pod.app
               all == init \o app
    <2>1. init \in Seq(Lists(R)) /\ app \in Seq(Lists(R))
        OBVIOUS
    <2> HIDE DEF init, app
    <2>2. /\ Len(app) \in Nat /\ DOMAIN app = 1 .. Len(app)
          /\ Len(init) \in Nat /\ DOMAIN init = 1 .. Len(init)
          /\ \A i \in DOMAIN app : app[i] \in Lists(R)
          /\ \A i \in DOMAIN init : init[i] \in Lists(R)
        BY <2>1
    <2>3. DOMAIN all = 1 .. Len(init) + Len(app)
        BY <2>1
    <2>4. \A i \in DOMAIN init : i \in DOMAIN all /\ all[i] = init[i]
        BY <2>1, <2>2, <2>3
    <2>5. ASSUME NEW i \in DOMAIN app
          PROVE  Len(init) + i \in DOMAIN all /\ all[Len(init) + i] = app[i]
        BY <2>1, <2>2, <2>3
    <2>6. Numa!Requested(pod) = UNION {DOMAIN all[i] : i \in DOMAIN all}
        BY DEF Numa!Requested, Numa!Containers, init, app
    <2> HIDE DEF all
    <2>7. \A i \in DOMAIN app : DOMAIN app[i] \subseteq Numa!Requested(pod)
        BY <2>5, <2>6
    <2>8. \A i \in DOMAIN init : DOMAIN init[i] \subseteq Numa!Requested(pod)
        BY <2>4, <2>6
    <2> QED BY <1>1, <2>2, <2>7, <2>8 DEF PodRequests, init, app
<1> QED BY <1>2, <1>3

\* What the single-numa-node filter admits container by container the kubelet can
\* place if the pod is Guaranteed, and what it admits as a whole it admits container
\* by container, unless two containers name a resource that only the node lists: for
\* any NUMA nodes, resources, numbers of containers and requests, zero included.
THEOREM FilterIsSound ==
    ASSUME NEW R, NEW C, NEW nodes \in Seq([res : Lists(R), costs : C]), nodes # << >>,
           NEW pod \in [init : Seq(Lists(R)), app : Seq(Lists(R)),
                        qos : {"Guaranteed", "Burstable", "BestEffort"}],
           NEW nodeRes
    PROVE  Numa!FilterSound(pod, nodes, nodeRes)
<1> DEFINE byContainer == Numa!Filter(pod, Numa!topologyManagerConfig(<< >>, "container", "single-numa-node"),
                                      nodes, nodeRes)
           byPod == Numa!Filter(pod, Numa!topologyManagerConfig(
                        <<[scope |-> "pod", policy |-> "single-numa-node"]>>, "", ""), nodes, nodeRes)
           exempt == pod.qos = "BestEffort" /\ ~Numa!IncludeNonNative(pod)
<1>1. NUMANodes(nodes) /\ PodRequests(pod)
    BY InputOfFilter
<1>2. byContainer <=> exempt \/ Numa!singleNUMAContainerLevelHandler(pod, nodes, nodeRes)
    BY DEF Numa!Filter, Numa!topologyManagerConfig
<1>3. byPod <=> exempt \/ Numa!singleNUMAPodLevelHandler(pod, nodes, nodeRes)
    BY DEF Numa!Filter, Numa!topologyManagerConfig
<1> HIDE DEF byContainer, byPod, exempt
<1>4. ASSUME pod.qos = "Guaranteed", byContainer
      PROVE  Numa!Placeable(pod.app, nodes)
    <2>1. Numa!singleNUMAContainerLevelHandler(pod, nodes, nodeRes)
        <3>1. ~exempt
            BY <1>4 DEF exempt
        <3> QED BY <1>2, <1>4, <3>1, Zenon
    <2>2. Numa!LeftByContainers(pod, nodes, nodeRes)[Len(pod.app)] # << >>
        BY <2>1 DEF Numa!singleNUMAContainerLevelHandler
    <2> QED BY <1>1, <1>4, <2>2, AdmittedIsPlaceable
<1>5. ASSUME byPod, ~(\E r \in Numa!Requested(pod) : Shared(pod, nodes, r))
      PROVE  byContainer
    <2>1. CASE exempt
        BY <1>2, <2>1, Zenon
    <2>2. CASE Numa!singleNUMAPodLevelHandler(pod, nodes, nodeRes)
        <3>1. Numa!singleNUMAContainerLevelHandler(pod, nodes, nodeRes)
            BY <1>1, <1>5, <2>2, WholeThenParts
        <3> QED BY <1>2, <3>1, Zenon
    <2> QED BY <1>3, <1>5, <2>1, <2>2, Zenon
<1> QED BY <1>4, <1>5, Zenon DEF Numa!FilterSound, Shared, byContainer, byPod

-----------------------------------------------------------------------------
(* The least NUMA nodes *)

\* A request is taken from some nodes in their order, as much as each has.
LeftOf(f, T, q, i) ==
    LET before == SumFunctionOnSet(f, {j \in T : j < i})
        rest == IF q > before THEN q - before ELSE 0
    IN  IF rest > f[i] THEN 0 ELSE f[i] - rest

\* All of it is taken if they have as much, else all they have.
LEMMA AllIsTaken ==
    ASSUME NEW T, IsFiniteSet(T), T \subseteq Nat, NEW f, \A i \in T : f[i] \in Nat, NEW q \in Nat,
           NEW g, \A i \in T : g[i] = LeftOf(f, T, q, i)
    PROVE  /\ \A i \in T : g[i] \in Nat
           /\ q <= SumFunctionOnSet(f, T) => SumFunctionOnSet(g, T) = SumFunctionOnSet(f, T) - q
<1> DEFINE Upto(n) == {j \in T : j < n}
           F(n) == SumFunctionOnSet(f, Upto(n))
           G(n) == SumFunctionOnSet(g, Upto(n))
           Holds(n) == G(n) = IF F(n) > q THEN F(n) - q ELSE 0
           Bad == {n \in Nat : ~Holds(n)}
<1>1. \A n : IsFiniteSet(Upto(n)) /\ Upto(n) \subseteq T
    BY FS_Subset
<1>2. \A n : F(n) \in Nat
    BY <1>1, SumNat
<1>3. \A i \in T : g[i] = LET rest == IF q > F(i) THEN q - F(i) ELSE 0
                          IN  IF rest > f[i] THEN 0 ELSE f[i] - rest
    BY DEF LeftOf
<1> HIDE DEF F
<1>4. \A i \in T : g[i] \in Nat
    BY <1>2, <1>3
<1>5. \A n : G(n) \in Nat
    BY <1>1, <1>4, SumNat
<1>6. ASSUME NEW n \in Nat, n \in T
      PROVE  F(n + 1) = f[n] + F(n) /\ G(n + 1) = g[n] + G(n)
    <2>0. ~(n < n) /\ (\A j \in T : j < n + 1 <=> (j < n \/ j = n))
        OBVIOUS
    <2>1. \A j : j \in Upto(n + 1) <=> j \in Upto(n) \cup {n}
        BY <1>6, <2>0, Zenon
    <2>3. n \notin Upto(n)
        BY <2>0
    <2>2. \A y \in Upto(n) \cup {n} : f[y] \in Int /\ g[y] \in Int
        BY <1>1, <1>4, <1>6
    <2> HIDE DEF Upto
    <2>4. Upto(n + 1) = Upto(n) \cup {n}
        BY <2>1
    <2> QED BY <1>1, <2>2, <2>3, <2>4, SumAdd DEF F
<1>7. ASSUME NEW n \in Nat, n \notin T
      PROVE  F(n + 1) = F(n) /\ G(n + 1) = G(n)
    <2>0. \A j \in T : j < n + 1 <=> (j < n \/ j = n)
        OBVIOUS
    <2>1. Upto(n + 1) = Upto(n)
        BY <1>7, <2>0
    <2> QED BY <2>1 DEF F
<1>8. F(0) = 0 /\ G(0) = 0
    <2>0. \A j \in T : ~(j < 0)
        OBVIOUS
    <2>1. Upto(0) = {}
        BY <2>0
    <2> HIDE DEF Upto
    <2> QED BY <2>1, SumEmpty DEF F
<1> HIDE DEF G
<1>9. \A n \in Nat : Holds(n) => Holds(n + 1)
    <2> SUFFICES ASSUME NEW n \in Nat, Holds(n) PROVE Holds(n + 1)
        OBVIOUS
    <2>1. CASE n \notin T
        BY <1>7, <2>1
    <2>2. CASE n \in T
        <3>1. F(n + 1) = f[n] + F(n) /\ G(n + 1) = g[n] + G(n)
            BY <1>6, <2>2
        <3>2. f[n] \in Nat /\ F(n) \in Nat
            BY <1>2, <2>2
        <3>3. g[n] = LET rest == IF q > F(n) THEN q - F(n) ELSE 0
                     IN  IF rest > f[n] THEN 0 ELSE f[n] - rest
            BY <1>3, <2>2
        <3>4. G(n) = IF F(n) > q THEN F(n) - q ELSE 0
            OBVIOUS
        <3>5. CASE F(n) > q
            BY <3>1, <3>2, <3>3, <3>4, <3>5
        <3>6. CASE ~(F(n) > q)
            BY <3>1, <3>2, <3>3, <3>4, <3>6
        <3> QED BY <3>5, <3>6
    <2> QED BY <2>1, <2>2
<1>10. Bad = {}
    <2> SUFFICES ASSUME Bad # {} PROVE FALSE
        OBVIOUS
    <2>1. PICK n \in Bad : \A m \in Bad : n <= m
        BY LeastNumber
    <2>2. n # 0
        BY <1>8, <2>1
    <2>3. n - 1 \in Nat /\ n - 1 \notin Bad /\ (n - 1) + 1 = n
        BY <2>1, <2>2
    <2> HIDE DEF Holds
    <2> QED BY <1>9, <2>1, <2>3
<1>11. PICK n \in Nat : Upto(n) = T
    <2>1. CASE T = {}
        <3>1. Upto(0) = T
            BY <2>1
        <3> QED BY <3>1
    <2>2. CASE T # {}
        <3> DEFINE id == [i \in T |-> i]
        <3>1. \A i \in T : id[i] = i /\ id[i] \in Int
            OBVIOUS
        <3> HIDE DEF id
        <3>2. PICK x \in T : \A y \in T : id[x] >= id[y]
            BY <2>2, <3>1, GreatestValue
        <3>3. x + 1 \in Nat /\ (\A y \in T : y < x + 1)
            BY <3>1, <3>2
        <3>4. Upto(x + 1) = T
            BY <3>3
        <3> QED BY <3>3, <3>4
    <2> QED BY <2>1, <2>2
<1>12. q <= F(n) => G(n) = F(n) - q
    BY <1>2, <1>10
<1> QED BY <1>4, <1>11, <1>12 DEF F, G

\* The order of two sets of indices is that of the smallest one they differ in.
Precedes(a, b) == \E i \in a \ b : \A j \in Nat : j < i => (j \in a <=> j \in b)

LEMMA FirstDifference ==
    ASSUME NEW a \in SUBSET Nat, NEW b \in SUBSET Nat, a # b
    PROVE  LET D == (a \cup b) \ (a \cap b)
           IN  /\ Numa!Min(D) \in D
               /\ \A j \in Nat : j < Numa!Min(D) => (j \in a <=> j \in b)
<1> DEFINE D == (a \cup b) \ (a \cap b)
<1>1. D \subseteq Nat /\ D # {}
    OBVIOUS
<1>2. \A j : j \notin D => (j \in a <=> j \in b)
    OBVIOUS
<1> HIDE DEF D
<1>3. \E x \in D : \A y \in D : x <= y
    BY <1>1, LeastNumber
<1>4. Numa!Min(D) \in D /\ \A y \in D : Numa!Min(D) <= y
    BY <1>3 DEF Numa!Min
<1>5. ASSUME NEW j \in Nat, j < Numa!Min(D), j \in D PROVE FALSE
    <2>1. Numa!Min(D) \in Nat /\ Numa!Min(D) <= j
        BY <1>1, <1>4, <1>5
    <2> QED BY <1>5, <2>1
<1>6. /\ Numa!Min(D) \in D
      /\ \A j \in Nat : j < Numa!Min(D) => (j \in a <=> j \in b)
    BY <1>2, <1>4, <1>5
<1> QED BY <1>6 DEF D

LEMMA BeforeIs ==
    ASSUME NEW a \in SUBSET Nat, NEW b \in SUBSET Nat
    PROVE  Numa!Before(a, b) <=> Precedes(a, b)
<1> DEFINE D == (a \cup b) \ (a \cap b)
           m == Numa!Min(D)
<1>1. CASE a = b
    BY <1>1 DEF Numa!Before, Precedes
<1>2. CASE a # b
    <2>1. m \in D /\ \A j \in Nat : j < m => (j \in a <=> j \in b)
        BY <1>2, FirstDifference
    <2>2. Numa!Before(a, b) <=> m \in a
        BY <1>2 DEF Numa!Before
    <2> HIDE DEF m
    <2>3. m \in Nat
        BY <2>1
    <2>4. m \in a => Precedes(a, b)
        BY <2>1 DEF Precedes
    <2>5. ASSUME Precedes(a, b) PROVE m \in a
        <3>1. PICK i \in a \ b : \A j \in Nat : j < i => (j \in a <=> j \in b)
            BY <2>5 DEF Precedes
        <3>2. i \in Nat /\ ~(i < m) /\ ~(m < i)
            BY <2>1, <2>3, <3>1
        <3> QED BY <2>3, <3>1, <3>2
    <2> QED BY <2>2, <2>4, <2>5
<1> QED BY <1>1, <1>2

LEMMA PrecedesIsAnOrder ==
    ASSUME NEW a \in SUBSET Nat, NEW b \in SUBSET Nat
    PROVE  /\ ~Precedes(a, a)
           /\ a = b \/ Precedes(a, b) \/ Precedes(b, a)
           /\ \A c \in SUBSET Nat : Precedes(a, b) /\ Precedes(b, c) => Precedes(a, c)
<1>1. ~Precedes(a, a)
    BY DEF Precedes
<1>2. ASSUME a # b PROVE Precedes(a, b) \/ Precedes(b, a)
    <2> DEFINE D == (a \cup b) \ (a \cap b)
               m == Numa!Min(D)
    <2>1. m \in D /\ \A j \in Nat : j < m => (j \in a <=> j \in b)
        BY <1>2, FirstDifference
    <2> HIDE DEF m
    <2> QED BY <2>1 DEF Precedes
<1>3. ASSUME NEW c \in SUBSET Nat, Precedes(a, b), Precedes(b, c)
      PROVE  Precedes(a, c)
    <2>1. PICK i \in a \ b : \A j \in Nat : j < i => (j \in a <=> j \in b)
        BY <1>3 DEF Precedes
    <2>2. PICK k \in b \ c : \A j \in Nat : j < k => (j \in b <=> j \in c)
        BY <1>3 DEF Precedes
    <2>3. i \in Nat /\ k \in Nat /\ (i < k \/ k < i)
        BY <2>1, <2>2
    <2>4. CASE i < k
        <3>1. i \in a \ c /\ \A j \in Nat : j < i => (j \in a <=> j \in c)
            BY <2>1, <2>2, <2>3, <2>4
        <3> QED BY <3>1 DEF Precedes
    <2>5. CASE k < i
        <3>1. k \in a \ c /\ \A j \in Nat : j < k => (j \in a <=> j \in c)
            BY <2>1, <2>2, <2>3, <2>5
        <3> QED BY <3>1 DEF Precedes
    <2> QED BY <2>3, <2>4, <2>5
<1> QED BY <1>1, <1>2, <1>3

\* There is a first one of finitely many combinations.
LEMMA FirstIsOne ==
    ASSUME NEW combs, combs \subseteq SUBSET Nat, IsFiniteSet(combs), combs # {}
    PROVE  Numa!FirstOf(combs) \in combs
<1> DEFINE Lower(c) == {d \in combs : Precedes(d, c)}
           rank == [c \in combs |-> Cardinality(Lower(c))]
<1>1. \A c \in combs : IsFiniteSet(Lower(c)) /\ rank[c] \in Int
    BY FS_Subset, FS_CardinalityType
<1>2. PICK c \in combs : \A d \in combs : rank[c] <= rank[d]
    <2> HIDE DEF rank
    <2> QED BY <1>1, LeastValue
<1>3. ASSUME NEW d \in Lower(c) PROVE FALSE
    <2>1. d \in combs /\ Precedes(d, c)
        OBVIOUS
    <2>2. Lower(d) \subseteq Lower(c) /\ d \notin Lower(d)
        BY <2>1, PrecedesIsAnOrder
    <2>3. rank[c] = Cardinality(Lower(c)) /\ rank[d] = Cardinality(Lower(d)) /\ rank[c] <= rank[d]
        BY <1>2, <2>1
    <2>4. IsFiniteSet(Lower(c))
        BY <1>1
    <2>5. d \in Lower(c)
        BY <1>3
    <2> HIDE DEF Lower, rank
    <2>6. Cardinality(Lower(d)) <= Cardinality(Lower(c)) /\ Lower(c) # Lower(d)
        BY <2>2, <2>4, <2>5, FS_Subset
    <2>7. Cardinality(Lower(d)) # Cardinality(Lower(c))
        BY <2>2, <2>4, <2>6, FS_Subset
    <2>8. Cardinality(Lower(d)) \in Nat /\ Cardinality(Lower(c)) \in Nat
        BY <2>2, <2>4, FS_Subset, FS_CardinalityType
    <2> QED BY <2>3, <2>6, <2>7, <2>8
<1>4. \A d \in combs : d = c \/ Precedes(c, d)
    BY <1>3, PrecedesIsAnOrder
<1>5. \A d \in combs : d = c \/ Numa!Before(c, d)
    BY <1>4, BeforeIs
<1> QED BY <1>5 DEF Numa!FirstOf

\* What the score is given.
NUMAList(nodes) ==
    /\ Len(nodes) \in Nat /\ DOMAIN nodes = 1 .. Len(nodes)
    /\ \A i \in DOMAIN nodes :
          /\ {"res", "costs"} \subseteq DOMAIN nodes[i] /\ Quantities(nodes[i].res)
          /\ \A j \in DOMAIN nodes[i].costs : nodes[i].costs[j] \in Nat

LEMMA SameCardinality ==
    ASSUME NEW S
    PROVE  Numa!Cardinality(S) = Cardinality(S)
BY DEF Numa!Cardinality, Cardinality

LEMMA NodesAreFinite ==
    ASSUME NEW nodes, NUMAList(nodes)
    PROVE  /\ IsFiniteSet(DOMAIN nodes) /\ Cardinality(DOMAIN nodes) = Len(nodes)
           /\ IsFiniteSet(SUBSET DOMAIN nodes)
           /\ DOMAIN nodes \subseteq Nat
           /\ \A S \in SUBSET DOMAIN nodes : IsFiniteSet(S) /\ S \subseteq Nat
<1>1. /\ Len(nodes) \in Nat /\ DOMAIN nodes = 1 .. Len(nodes)
    BY DEF NUMAList
<1>2. \A m \in Nat : IsFiniteSet(1 .. m) /\ Cardinality(1 .. m) = m
    <2> TAKE m \in Nat
    <2> DEFINE size == Cardinality(1 .. m)
    <2>1. IsFiniteSet(1 .. m) /\ size = IF 1 > m THEN 0 ELSE m - 1 + 1
        BY FS_Interval
    <2> HIDE DEF size
    <2>2. size = m
        BY <2>1
    <2> QED BY <2>1, <2>2 DEF size
<1>3. \A m \in Nat : 1 .. m \subseteq Nat
    OBVIOUS
<1> QED BY <1>1, <1>2, <1>3, FS_SUBSET, FS_Subset

LEMMA DistanceType ==
    ASSUME NEW nodes, NUMAList(nodes), NEW comb \in SUBSET DOMAIN nodes
    PROVE  Numa!nodesAvgDistance(nodes, comb) \in Nat
<1> DEFINE f == [pair \in comb \X comb |->
                    IF pair[2] \in DOMAIN nodes[pair[1]].costs
                    THEN nodes[pair[1]].costs[pair[2]] ELSE Numa!maxDistanceValue]
<1>1. IsFiniteSet(comb \X comb)
    BY NodesAreFinite, FS_Product
<1>2. \A pair \in comb \X comb : f[pair] \in Nat
    BY DEF NUMAList, Numa!maxDistanceValue
<1>3. Numa!nodesAvgDistance(nodes, comb) = SumFunctionOnSet(f, comb \X comb)
    <2>1. Numa!nodesAvgDistance(nodes, comb) = Numa!SumFunctionOnSet(f, DOMAIN f)
        BY DEF Numa!nodesAvgDistance, Numa!SumFunction
    <2>2. DOMAIN f = comb \X comb
        OBVIOUS
    <2> HIDE DEF f
    <2> QED BY <2>1, <2>2, SameNumaSum
<1> HIDE DEF f
<1> QED BY <1>1, <1>2, <1>3, SumNat

\* What a node has of a resource.
Has(nodes, r) == [i \in DOMAIN nodes |-> Numa!Get(nodes[i].res, r)]

LEMMA CombinedIs ==
    ASSUME NEW nodes, NUMAList(nodes), NEW r, NEW comb \in SUBSET DOMAIN nodes
    PROVE  /\ Numa!combineResources(nodes, r, comb) = SumFunctionOnSet(Has(nodes, r), comb)
           /\ \A i \in DOMAIN nodes : Has(nodes, r)[i] \in Nat
           /\ Numa!combineResources(nodes, r, comb) \in Nat
<1>1. Numa!combineResources(nodes, r, comb) = SumFunctionOnSet(Has(nodes, r), comb)
    BY SameNumaSum DEF Numa!combineResources, Has
<1>2. \A i \in DOMAIN nodes : Has(nodes, r)[i] \in Nat
    BY GetType DEF Has, NUMAList
<1>3. SumFunctionOnSet(Has(nodes, r), comb) \in Nat
    BY <1>2, NodesAreFinite, SumNat
<1> QED BY <1>1, <1>2, <1>3

\* A combination is taken for suitable exactly when it has the request together.
LEMMA SuitableIsFitting ==
    ASSUME NEW nodes, NUMAList(nodes), NEW req, Quantities(req), NEW comb \in (SUBSET DOMAIN nodes) \ {{}}
    PROVE  Numa!isValidCombineResources(nodes, req, comb)
             /\ Numa!checkResourcesFit(nodes, req, "Guaranteed", comb)
           <=> comb \in Numa!Fitting(nodes, req)
<1> DEFINE Sum(r) == Numa!combineResources(nodes, r, comb)
<1>1. \A r \in DOMAIN req : req[r] \in Nat /\ Sum(r) \in Nat
    BY CombinedIs DEF Quantities
<1>2. Numa!checkResourcesFit(nodes, req, "Guaranteed", comb)
        <=> \A r \in DOMAIN req : req[r] = 0 \/ Sum(r) >= req[r]
    BY DEF Numa!checkResourcesFit, Numa!isResourceSetSuitable
<1>3. comb \in Numa!Fitting(nodes, req)
        <=> \A r \in DOMAIN req : (\A i \in comb : r \in DOMAIN nodes[i].res) /\ Sum(r) >= req[r]
    BY DEF Numa!Fitting
<1>4. Numa!isValidCombineResources(nodes, req, comb)
        <=> \A r \in DOMAIN req : \A i \in comb : r \in DOMAIN nodes[i].res
    BY DEF Numa!isValidCombineResources
<1> HIDE DEF Sum
<1>5. \A r \in DOMAIN req : (req[r] = 0 \/ Sum(r) >= req[r]) <=> Sum(r) >= req[r]
    BY <1>1
<1> QED BY <1>2, <1>3, <1>4, <1>5, Zenon

\* Of some combinations the suitable one at the smallest distance is found.
LEMMA SuitableIsNear ==
    ASSUME NEW nodes, NUMAList(nodes), NEW req, Quantities(req),
           NEW combs \in SUBSET ((SUBSET DOMAIN nodes) \ {{}})
    PROVE  LET found == Numa!findSuitableCombination(nodes, req, "Guaranteed", combs)
               fit == combs \cap Numa!Fitting(nodes, req)
               Distance(c) == Numa!nodesAvgDistance(nodes, c)
           IN  /\ found.comb = {} <=> fit = {}
               /\ fit # {} => /\ found.comb \in fit
                              /\ \A c \in fit : Distance(found.comb) <= Distance(c)
                              /\ found.min <=> \A c \in combs : Distance(found.comb) <= Distance(c)
<1> DEFINE fit == combs \cap Numa!Fitting(nodes, req)
           Distance(c) == Numa!nodesAvgDistance(nodes, c)
           near == {c \in fit : \A d \in fit : Distance(c) <= Distance(d)}
           distance == [c \in fit |-> Distance(c)]
           first == Numa!FirstOf(near)
           found == Numa!findSuitableCombination(nodes, req, "Guaranteed", combs)
<1>1. fit = {c \in combs : /\ Numa!isValidCombineResources(nodes, req, c)
                           /\ Numa!checkResourcesFit(nodes, req, "Guaranteed", c)}
    BY SuitableIsFitting
<1>2. found = IF fit = {} THEN [comb |-> {}, min |-> FALSE]
              ELSE [comb |-> first, min |-> \A c \in combs : Distance(first) <= Distance(c)]
    BY <1>1 DEF Numa!findSuitableCombination
<1>3. CASE fit = {}
    <2>1. found.comb = {}
        BY <1>2, <1>3
    <2> HIDE DEF fit, found
    <2> QED BY <1>3, <2>1 DEF fit, found
<1>4. CASE fit # {}
    <2>0. fit \subseteq SUBSET DOMAIN nodes /\ {} \notin fit
        OBVIOUS
    <2>1. IsFiniteSet(fit) /\ fit \subseteq SUBSET DOMAIN nodes /\ {} \notin fit
        <3> HIDE DEF fit
        <3>1. IsFiniteSet(SUBSET DOMAIN nodes) /\ fit \in SUBSET (SUBSET DOMAIN nodes)
            BY <2>0, NodesAreFinite
        <3> QED BY <2>0, <3>1, FS_Subset
    <2>2. \A c \in fit : distance[c] \in Int /\ distance[c] = Distance(c)
        BY <2>1, DistanceType
    <2>3. PICK c \in fit : \A d \in fit : distance[c] <= distance[d]
        <3> HIDE DEF fit, distance
        <3> QED BY <1>4, <2>1, <2>2, LeastValue
    <2> HIDE DEF distance
    <2>4. c \in near
        BY <2>2, <2>3
    <2>5. near \subseteq fit
        OBVIOUS
    <2>6. near \subseteq SUBSET Nat /\ IsFiniteSet(near)
        <3> HIDE DEF near, fit
        <3> QED BY <2>1, <2>5, NodesAreFinite, FS_Subset
    <2>7. first \in near
        BY <2>4, <2>6, FirstIsOne
    <2> HIDE DEF first
    <2>8. first \in fit /\ \A d \in fit : Distance(first) <= Distance(d)
        BY <2>7
    <2> HIDE DEF fit, found, Distance
    <2>9. found.comb = first /\ found.min = (\A d \in combs : Distance(first) <= Distance(d))
        BY <1>2, <1>4
    <2>10. first # {}
        BY <2>1, <2>8
    <2>11. /\ found.comb = {} <=> fit = {}
           /\ fit # {} => /\ found.comb \in fit
                          /\ \A d \in fit : Distance(found.comb) <= Distance(d)
                          /\ found.min <=> \A d \in combs : Distance(found.comb) <= Distance(d)
        BY <1>4, <2>8, <2>9, <2>10
    <2> QED BY <2>11 DEF fit, found, Distance
<1> QED BY <1>3, <1>4

\* The combinations of a length.
LEMMA CombinationsAre ==
    ASSUME NEW nodes, NUMAList(nodes), NEW k \in 1 .. Len(nodes)
    PROVE  /\ Numa!Combinations(Len(nodes), k) =
                {S \in SUBSET DOMAIN nodes : Cardinality(S) = k}
           /\ Numa!Combinations(Len(nodes), k) \subseteq (SUBSET DOMAIN nodes) \ {{}}
<1>1. Numa!Combinations(Len(nodes), k) = {S \in SUBSET DOMAIN nodes : Cardinality(S) = k}
    BY SameCardinality DEF Numa!Combinations, Numa!kSubset, NUMAList
<1>2. k # 0
    BY DEF NUMAList
<1> QED BY <1>1, <1>2, FS_EmptySet

LEMMA FewestAreFound ==
    ASSUME NEW nodes, NUMAList(nodes), NEW req, Quantities(req)
    PROVE  LET found == Numa!numaNodesRequired(nodes, req, "Guaranteed")
               fitting == Numa!Fitting(nodes, req)
               Distance(S) == Numa!nodesAvgDistance(nodes, S)
               Alike(S) == Cardinality(S) = Cardinality(found.comb)
           IN  IF fitting = {} THEN found.comb = {}
               ELSE /\ found.comb \in fitting
                    /\ \A S \in fitting : /\ Cardinality(found.comb) <= Cardinality(S)
                                          /\ Alike(S) => Distance(found.comb) <= Distance(S)
                    /\ found.min <=> \A S \in SUBSET DOMAIN nodes :
                                        Alike(S) => Distance(found.comb) <= Distance(S)
<1> DEFINE found == Numa!numaNodesRequired(nodes, req, "Guaranteed")
           fitting == Numa!Fitting(nodes, req)
           Distance(S) == Numa!nodesAvgDistance(nodes, S)
           Alike(S) == Cardinality(S) = Cardinality(found.comb)
           Sized(k) == Numa!Combinations(Len(nodes), k)
           Found(k) == Numa!findSuitableCombination(nodes, req, "Guaranteed", Sized(k))
           lengths == {k \in 1 .. Len(nodes) : Found(k).comb # {}}
<1>1. found = IF lengths = {} THEN [comb |-> {}, min |-> FALSE] ELSE Found(Numa!Min(lengths))
    BY DEF Numa!numaNodesRequired
<1>2. \A S \in fitting : S \in (SUBSET DOMAIN nodes) \ {{}}
    BY DEF Numa!Fitting
<1>3. \A k \in 1 .. Len(nodes) : Sized(k) = {S \in SUBSET DOMAIN nodes : Cardinality(S) = k}
    BY CombinationsAre
<1>4. ASSUME NEW k \in 1 .. Len(nodes)
      PROVE  /\ Found(k).comb = {} <=> Sized(k) \cap fitting = {}
             /\ Sized(k) \cap fitting # {} =>
                   /\ Found(k).comb \in Sized(k) \cap fitting
                   /\ \A c \in Sized(k) \cap fitting : Distance(Found(k).comb) <= Distance(c)
                   /\ Found(k).min <=> \A c \in Sized(k) : Distance(Found(k).comb) <= Distance(c)
    <2>1. Sized(k) \in SUBSET ((SUBSET DOMAIN nodes) \ {{}})
        BY CombinationsAre
    <2> HIDE DEF Sized
    <2> QED BY <2>1, SuitableIsNear
<1>5. ASSUME NEW S \in fitting
      PROVE  Cardinality(S) \in lengths
    <2>1. IsFiniteSet(S) /\ Cardinality(S) <= Len(nodes) /\ S # {} /\ S \in SUBSET DOMAIN nodes
        <3>1. S # {} /\ S \in SUBSET DOMAIN nodes
            BY <1>2
        <3>2. IsFiniteSet(DOMAIN nodes) /\ Cardinality(DOMAIN nodes) = Len(nodes)
            BY NodesAreFinite
        <3>3. IsFiniteSet(S) /\ Cardinality(S) <= Cardinality(DOMAIN nodes)
            BY <3>1, <3>2, FS_Subset
        <3> QED BY <3>1, <3>2, <3>3
    <2>2. Cardinality(S) \in Nat /\ Cardinality(S) # 0
        BY <2>1, FS_EmptySet, FS_CardinalityType
    <2> DEFINE k == Cardinality(S)
    <2>3. k \in 1 .. Len(nodes)
        <3> HIDE DEF k
        <3>1. k \in Nat /\ k # 0 /\ k <= Len(nodes) /\ Len(nodes) \in Nat
            BY <2>1, <2>2 DEF k, NUMAList
        <3> QED BY <3>1
    <2>4. S \in Sized(k) \cap fitting
        BY <1>3, <2>1, <2>3
    <2> HIDE DEF k, Sized, Found, fitting
    <2>5. Found(k).comb # {}
        BY <1>4, <2>3, <2>4
    <2> QED BY <2>3, <2>5 DEF k
<1> HIDE DEF Sized, Found, fitting, found, Distance
<1>6. CASE fitting = {}
    <2>1. lengths = {}
        BY <1>4, <1>6
    <2>2. found.comb = {}
        BY <1>1, <2>1
    <2> QED BY <1>6, <2>2 DEF fitting, found
<1>7. CASE fitting # {}
    <2> DEFINE m == Numa!Min(lengths)
    <2>1. lengths # {} /\ lengths \subseteq Nat
        <3>1. \A n \in Nat : 1 .. n \subseteq Nat
            OBVIOUS
        <3> QED BY <1>5, <1>7, <3>1 DEF NUMAList
    <2>2. m \in lengths /\ \A k \in lengths : m <= k
        <3> HIDE DEF lengths
        <3>1. \E x \in lengths : \A y \in lengths : x <= y
            BY <2>1, LeastNumber
        <3> QED BY <3>1 DEF Numa!Min
    <2>3. found = Found(m)
        BY <1>1, <2>1
    <2> HIDE DEF m
    <2>4. m \in 1 .. Len(nodes) /\ found.comb # {}
        BY <2>2, <2>3
    <2>5. Sized(m) \cap fitting # {}
        BY <1>4, <2>3, <2>4
    <2>6. /\ found.comb \in Sized(m) \cap fitting
          /\ \A c \in Sized(m) \cap fitting : Distance(found.comb) <= Distance(c)
          /\ found.min <=> \A c \in Sized(m) : Distance(found.comb) <= Distance(c)
        BY <1>4, <2>3, <2>4, <2>5
    <2>7. Sized(m) = {S \in SUBSET DOMAIN nodes : Cardinality(S) = m}
        BY <1>3, <2>4
    <2>8. Cardinality(found.comb) = m
        BY <2>6, <2>7
    <2>9. \A S \in fitting : /\ Cardinality(found.comb) <= Cardinality(S)
                             /\ Alike(S) => Distance(found.comb) <= Distance(S)
        <3> TAKE S \in fitting
        <3>1. m <= Cardinality(S)
            BY <1>5, <2>2
        <3>2. Cardinality(S) = m => S \in Sized(m) \cap fitting
            BY <1>2, <2>7
        <3> QED BY <2>6, <2>8, <3>1, <3>2
    <2>10. (\A c \in Sized(m) : Distance(found.comb) <= Distance(c))
             <=> \A S \in SUBSET DOMAIN nodes : Alike(S) => Distance(found.comb) <= Distance(S)
        BY <2>7, <2>8
    <2>11. /\ found.comb \in fitting
           /\ \A S \in fitting : /\ Cardinality(found.comb) <= Cardinality(S)
                                 /\ Alike(S) => Distance(found.comb) <= Distance(S)
           /\ found.min <=> \A S \in SUBSET DOMAIN nodes :
                               Alike(S) => Distance(found.comb) <= Distance(S)
        BY <2>6, <2>9, <2>10, Zenon
    <2> QED BY <1>7, <2>11 DEF fitting, found, Distance
<1> QED BY <1>6, <1>7

\* What is taken from the nodes of a combination that has a request is the request.
LEMMA RequestIsTaken ==
    ASSUME NEW nodes, NUMAList(nodes), NEW req, Quantities(req),
           NEW comb \in Numa!Fitting(nodes, req), NEW r \in DOMAIN req
    PROVE  LET left == Numa!subtractFromNUMAs(nodes, req, comb)
           IN  Numa!combineResources(left, r, DOMAIN left) =
                   Numa!combineResources(nodes, r, DOMAIN nodes) - req[r]
<1> DEFINE left == Numa!subtractFromNUMAs(nodes, req, comb)
           f == Has(nodes, r)
           g == Has(left, r)
           all == DOMAIN nodes
           q == req[r]
<1>1. /\ comb \in SUBSET all
      /\ \A i \in comb : r \in DOMAIN nodes[i].res
      /\ Numa!combineResources(nodes, r, comb) >= q
    BY DEF Numa!Fitting
<1>2. /\ \A S \in SUBSET all : Numa!combineResources(nodes, r, S) = SumFunctionOnSet(f, S)
      /\ \A i \in all : f[i] \in Nat
    BY CombinedIs
<1>3. IsFiniteSet(all) /\ all \subseteq Nat /\ IsFiniteSet(comb) /\ comb \subseteq Nat
    BY <1>1, NodesAreFinite
<1>4. q \in Nat
    BY DEF Quantities
<1>5. DOMAIN left = all
    BY DEF Numa!subtractFromNUMAs
<1>6. Numa!combineResources(left, r, DOMAIN left) = SumFunctionOnSet(g, all)
    <2>1. Numa!combineResources(left, r, DOMAIN left) = Numa!SumFunctionOnSet(g, DOMAIN left)
        BY DEF Numa!combineResources, Has
    <2> HIDE DEF left, g
    <2> QED BY <1>5, <2>1, SameNumaSum
<1>7. \A i \in all \ comb : g[i] = f[i]
    BY DEF Numa!subtractFromNUMAs, Has, Numa!Get
<1>8. \A i \in comb : g[i] = LeftOf(f, comb, q, i)
    <2> TAKE i \in comb
    <2> DEFINE before == Numa!combineResources(nodes, r, {j \in comb : j < i})
               rest == IF q > before THEN q - before ELSE 0
               had == nodes[i].res[r]
    <2>1. r \in DOMAIN left[i].res /\ left[i].res[r] = IF rest > had THEN 0 ELSE had - rest
        BY <1>1 DEF Numa!subtractFromNUMAs
    <2>2. before = SumFunctionOnSet(f, {j \in comb : j < i})
        <3>1. {j \in comb : j < i} \in SUBSET all
            BY <1>1
        <3> QED BY <1>2, <3>1
    <2>3. f[i] = had
        BY <1>1 DEF Has, Numa!Get
    <2>4. g[i] = left[i].res[r]
        BY <1>1, <1>5, <2>1 DEF Has, Numa!Get
    <2> HIDE DEF before, had, f, g, left
    <2> QED BY <2>1, <2>2, <2>3, <2>4 DEF LeftOf
<1> HIDE DEF left, f, g, all, q
<1>9. /\ \A i \in comb : g[i] \in Nat
      /\ SumFunctionOnSet(g, comb) = SumFunctionOnSet(f, comb) - q
    <2>1. SumFunctionOnSet(f, comb) \in Nat
        BY <1>1, <1>2, <1>3, SumNat
    <2>2. q <= SumFunctionOnSet(f, comb)
        BY <1>1, <1>2, <1>4, <2>1
    <2>3. \A i \in comb : f[i] \in Nat
        BY <1>1, <1>2
    <2>4. /\ \A i \in comb : g[i] \in Nat
          /\ q <= SumFunctionOnSet(f, comb) => SumFunctionOnSet(g, comb) = SumFunctionOnSet(f, comb) - q
        BY <1>3, <1>4, <1>8, <2>3, AllIsTaken
    <2> QED BY <2>2, <2>4
<1>10. SumFunctionOnSet(g, all \ comb) = SumFunctionOnSet(f, all \ comb)
    <2> DEFINE rest == all \ comb
    <2>1. IsFiniteSet(rest) /\ \A i \in rest : g[i] = f[i] /\ f[i] \in Int
        BY <1>2, <1>3, <1>7, FS_Subset
    <2>2. \A i \in rest : g[i] \in Int
        BY <2>1
    <2> HIDE DEF rest
    <2>3. SumFunctionOnSet(g, rest) = SumFunctionOnSet(f, rest)
        BY <2>1, <2>2, SumSame
    <2> QED BY <2>3 DEF rest
<1>11. \A i \in all : f[i] \in Int /\ g[i] \in Int
    BY <1>2, <1>7, <1>9
<1>12. /\ SumFunctionOnSet(f, all) = SumFunctionOnSet(f, comb) + SumFunctionOnSet(f, all \ comb)
       /\ SumFunctionOnSet(g, all) = SumFunctionOnSet(g, comb) + SumFunctionOnSet(g, all \ comb)
    <2>1. IsFiniteSet(all) /\ comb \in SUBSET all
        BY <1>1, <1>3
    <2>2. SumFunctionOnSet(f, all) = SumFunctionOnSet(f, comb) + SumFunctionOnSet(f, all \ comb)
        BY <1>11, <2>1, SumSplit
    <2>3. SumFunctionOnSet(g, all) = SumFunctionOnSet(g, comb) + SumFunctionOnSet(g, all \ comb)
        BY <1>11, <2>1, SumSplit
    <2> QED BY <2>2, <2>3
<1>13. SumFunctionOnSet(f, comb) \in Nat /\ SumFunctionOnSet(f, all \ comb) \in Nat
    <2>1. IsFiniteSet(all \ comb)
        BY <1>3, FS_Subset
    <2> QED BY <1>1, <1>2, <1>3, <2>1, SumNat
<1>14. SumFunctionOnSet(g, all) = SumFunctionOnSet(f, all) - q
    BY <1>4, <1>9, <1>10, <1>12, <1>13
<1>15. Numa!combineResources(nodes, r, all) = SumFunctionOnSet(f, all)
    BY <1>2
<1> QED BY <1>6, <1>14, <1>15 DEF left, all, q

LEMMA InputOfScore ==
    ASSUME NEW R, NEW I, NEW nodes \in Seq([res : Lists(R), costs : UNION {[D -> Nat] : D \in SUBSET I}])
    PROVE  NUMAList(nodes)
<1> DEFINE Costs == UNION {[D -> Nat] : D \in SUBSET I}
           T == [res : Lists(R), costs : Costs]
<1>1. \A list \in Lists(R) : Quantities(list)
    BY DEF Lists, Quantities
<1>2. Len(nodes) \in Nat /\ DOMAIN nodes = 1 .. Len(nodes)
    OBVIOUS
<1>3. \A i \in DOMAIN nodes : nodes[i] \in T
    <2>1. nodes \in Seq(T)
        OBVIOUS
    <2> HIDE DEF T
    <2> QED BY <2>1
<1>4. \A costs \in Costs : \A j \in DOMAIN costs : costs[j] \in Nat
    OBVIOUS
<1> HIDE DEF Costs
<1>5. \A i \in DOMAIN nodes : /\ {"res", "costs"} \subseteq DOMAIN nodes[i]
                               /\ nodes[i].res \in Lists(R) /\ nodes[i].costs \in Costs
    BY <1>3
<1> QED BY <1>1, <1>2, <1>4, <1>5 DEF NUMAList

\* The search of the least NUMA nodes for a Guaranteed request finds a set of nodes
\* that has it together, of the fewest nodes and of those at the smallest distance,
\* and the bonus is given exactly when no set of as many nodes is nearer; what is then
\* taken off them is the whole request: for any number of NUMA nodes, any distances,
\* named or not, and any resources.
THEOREM LeastIsFound ==
    ASSUME NEW R, NEW I, NEW nodes \in Seq([res : Lists(R), costs : UNION {[D -> Nat] : D \in SUBSET I}]),
           NEW req \in Lists(R)
    PROVE  Numa!LeastFound(nodes, req, Numa!numaNodesRequired(nodes, req, "Guaranteed"))
<1> DEFINE found == Numa!numaNodesRequired(nodes, req, "Guaranteed")
           fitting == Numa!Fitting(nodes, req)
<1>2. NUMAList(nodes)
    BY InputOfScore
<1>3. Quantities(req)
    BY DEF Lists, Quantities
<1>4. CASE fitting = {}
    <2>1. found.comb = {}
        BY <1>2, <1>3, <1>4, FewestAreFound
    <2> HIDE DEF found
    <2> QED BY <1>4, <2>1 DEF Numa!LeastFound, found
<1>5. CASE fitting # {}
    <2> DEFINE Near(S) == Numa!nodesAvgDistance(nodes, found.comb) <= Numa!nodesAvgDistance(nodes, S)
    <2>1. /\ found.comb \in fitting
          /\ \A S \in fitting : /\ Cardinality(found.comb) <= Cardinality(S)
                                /\ Cardinality(S) = Cardinality(found.comb) => Near(S)
          /\ found.min <=> \A S \in SUBSET DOMAIN nodes :
                              Cardinality(S) = Cardinality(found.comb) => Near(S)
        BY <1>2, <1>3, <1>5, FewestAreFound
    <2>2. \A r \in DOMAIN req :
             LET left == Numa!subtractFromNUMAs(nodes, req, found.comb)
             IN  Numa!combineResources(left, r, DOMAIN left) =
                     Numa!combineResources(nodes, r, DOMAIN nodes) - req[r]
        BY <1>2, <1>3, <2>1, RequestIsTaken
    <2> HIDE DEF found
    <2> QED BY <1>5, <2>1, <2>2, SameCardinality DEF Numa!LeastFound, found
<1> QED BY <1>4, <1>5

\* Where the filter finds a NUMA node for a request whose resources all of them list,
\* one of them has it all.
LEMMA PickedFits ==
    ASSUME NEW nodes, NUMANodes(nodes), NUMAList(nodes), NEW req, Quantities(req), NEW nodeRes,
           Numa!resourcesAvailableInAnyNUMANodes(nodes, req, "Guaranteed", nodeRes) # 0,
           \A i \in DOMAIN nodes : DOMAIN req \subseteq DOMAIN nodes[i].res
    PROVE  \E id \in DOMAIN nodes : \A r \in DOMAIN req : req[r] <= Numa!Get(nodes[id].res, r)
<1>1. PICK id \in Bits(nodes, req, "Guaranteed") : TRUE
    <2>1. DOMAIN nodes \subseteq Nat \ {0}
        BY DEF NUMANodes
    <2> QED BY <2>1, Pick
<1>2. id \in DOMAIN nodes
    BY <1>1 DEF Bits
<1>3. ASSUME NEW r \in DOMAIN req
      PROVE  req[r] <= Numa!Get(nodes[id].res, r)
    <2>1. r \in DOMAIN nodes[id].res
        BY <1>2
    <2>2. req[r] \in Nat /\ nodes[id].res[r] \in Nat
        BY <1>2, <2>1 DEF NUMAList, Quantities
    <2>3. CASE req[r] = 0
        BY <2>1, <2>2, <2>3 DEF Numa!Get
    <2>4. CASE req[r] # 0
        <3>1. id \in Numa!ResourceBits(nodes, r, req[r], "Guaranteed")
            BY <1>1, <2>4 DEF Bits
        <3>2. Numa!isResourceSetSuitable("Guaranteed", r, req[r], nodes[id].res[r])
            BY <1>2, <2>1, <3>1 DEF Numa!ResourceBits
        <3>3. nodes[id].res[r] >= req[r]
            BY <3>2 DEF Numa!isResourceSetSuitable
        <3> QED BY <2>1, <2>2, <3>3 DEF Numa!Get
    <2> QED BY <2>3, <2>4
<1> QED BY <1>2, <1>3

LEMMA OneNodeFits ==
    ASSUME NEW nodes, NUMAList(nodes), NEW req, Quantities(req), NEW id \in DOMAIN nodes,
           DOMAIN req \subseteq DOMAIN nodes[id].res,
           \A r \in DOMAIN req : req[r] <= Numa!Get(nodes[id].res, r)
    PROVE  {id} \in Numa!Fitting(nodes, req)
<1>1. ASSUME NEW r \in DOMAIN req
      PROVE  Numa!combineResources(nodes, r, {id}) >= req[r]
    <2> DEFINE f == Has(nodes, r)
    <2>1. f[id] \in Nat
        BY CombinedIs
    <2>2. f[id] = Numa!Get(nodes[id].res, r) /\ f[id] \in Int
        BY <2>1 DEF Has
    <2>3. Numa!combineResources(nodes, r, {id}) = SumFunctionOnSet(f, {id})
        BY CombinedIs
    <2> HIDE DEF f
    <2>4. SumFunctionOnSet(f, {} \cup {id}) = f[id] + SumFunctionOnSet(f, {})
        BY <2>2, FS_EmptySet, SumAdd
    <2>5. SumFunctionOnSet(f, {}) = 0 /\ {} \cup {id} = {id}
        BY SumEmpty
    <2>6. req[r] \in Nat /\ req[r] <= f[id]
        BY <2>2 DEF Quantities
    <2> QED BY <2>1, <2>3, <2>4, <2>5, <2>6
<1> QED BY <1>1 DEF Numa!Fitting

\* A Guaranteed pod's score in the pod scope is above zero exactly when some NUMA
\* nodes have its request together or none lists any of it, and the score counts one
\* NUMA node for a pod that the single-numa-node filter admits as a whole and whose
\* resources all NUMA nodes list: for any pod and up to highestNUMAID NUMA nodes,
\* beyond which the score falls below zero.
THEOREM ScoreAgreesWithFilter ==
    ASSUME NEW R, NEW I, NEW nodes \in Seq([res : Lists(R), costs : UNION {[D -> Nat] : D \in SUBSET I}]),
           nodes # << >>, Len(nodes) <= Numa!highestNUMAID,
           NEW pod \in [init : Seq(Lists(R)), app : Seq(Lists(R)), qos : {"Guaranteed"}], NEW nodeRes
    PROVE  LET req == Numa!GetPodEffectiveRequest(pod)
               found == Numa!numaNodesRequired(nodes, req, pod.qos)
           IN  /\ Numa!leastNUMAPodScopeScore(pod, nodes) > 0
                    <=> Numa!Fitting(nodes, req) # {} \/ Numa!onlyNonNUMAResources(nodes, req)
               /\ Numa!singleNUMAPodLevelHandler(pod, nodes, nodeRes)
                    /\ (\A i \in DOMAIN nodes : DOMAIN req \subseteq DOMAIN nodes[i].res)
                  => Cardinality(found.comb) = 1
<1> DEFINE req == Numa!GetPodEffectiveRequest(pod)
           found == Numa!numaNodesRequired(nodes, req, pod.qos)
           fitting == Numa!Fitting(nodes, req)
           only == Numa!onlyNonNUMAResources(nodes, req)
           size == Cardinality(found.comb)
<1>1. NUMANodes(nodes) /\ PodRequests(pod)
    BY InputOfFilter
<1>2. NUMAList(nodes)
    BY InputOfScore
<1>3. Quantities(req)
    <2>1. DOMAIN req = Numa!Requested(pod)
        BY DEF Numa!GetPodEffectiveRequest
    <2> QED BY <1>1, <2>1, EffectiveRequest DEF Quantities
<1>4. pod.qos = "Guaranteed"
    OBVIOUS
<1>5. IF fitting = {} THEN found.comb = {}
      ELSE found.comb \in fitting /\ \A S \in fitting : size <= Cardinality(S)
    <2> HIDE DEF req
    <2> QED BY <1>2, <1>3, <1>4, FewestAreFound
<1>6. \A S \in fitting : S \in SUBSET DOMAIN nodes /\ Cardinality(S) \in 1 .. 8
    <2> TAKE S \in fitting
    <2>1. S \in SUBSET DOMAIN nodes /\ S # {}
        BY DEF Numa!Fitting
    <2>2. IsFiniteSet(DOMAIN nodes) /\ Cardinality(DOMAIN nodes) = Len(nodes) /\ Len(nodes) \in Nat
        BY <1>2, NodesAreFinite DEF NUMAList
    <2>3. IsFiniteSet(S) /\ Cardinality(S) <= Cardinality(DOMAIN nodes)
        BY <2>1, <2>2, FS_Subset
    <2>4. Cardinality(S) \in Nat /\ Cardinality(S) # 0
        BY <2>1, <2>3, FS_EmptySet, FS_CardinalityType
    <2>5. \A k, n \in Nat : k # 0 /\ k <= n /\ n <= 8 => k \in 1 .. 8
        OBVIOUS
    <2> QED BY <2>1, <2>2, <2>3, <2>4, <2>5 DEF Numa!highestNUMAID
<1>7. Numa!leastNUMAPodScopeScore(pod, nodes) =
        IF only THEN Numa!MaxNodeScore ELSE IF found.comb = {} THEN 0
        ELSE Numa!normalizeScore(size, found.min)
    BY SameCardinality DEF Numa!leastNUMAPodScopeScore
<1>8. \A n \in 1 .. 8 : \A min : Numa!normalizeScore(n, min) > 0
    BY QuotientOf DEF Numa!normalizeScore, Numa!MaxNodeScore, Numa!highestNUMAID
<1>9. ASSUME Numa!singleNUMAPodLevelHandler(pod, nodes, nodeRes),
             \A i \in DOMAIN nodes : DOMAIN req \subseteq DOMAIN nodes[i].res
      PROVE  size = 1
    <2>1. PICK id \in DOMAIN nodes : {id} \in fitting
        <3>1. Numa!resourcesAvailableInAnyNUMANodes(nodes, req, "Guaranteed", nodeRes) # 0
            BY <1>4, <1>9 DEF Numa!singleNUMAPodLevelHandler
        <3> HIDE DEF req
        <3> QED BY <1>1, <1>2, <1>3, <1>9, <3>1, PickedFits, OneNodeFits
    <2>2. Cardinality({id}) = 1
        BY FS_Singleton
    <2>3. found.comb \in fitting /\ size <= 1
        BY <1>5, <2>1, <2>2
    <2>4. size \in 1 .. 8
        BY <1>6, <2>3
    <2> HIDE DEF size
    <2> QED BY <2>3, <2>4
<1> HIDE DEF req, found, fitting, only, size
<1>10. Numa!leastNUMAPodScopeScore(pod, nodes) > 0 <=> fitting # {} \/ only
    <2>1. CASE only
        BY <1>7, <2>1 DEF Numa!MaxNodeScore
    <2>2. CASE ~only /\ fitting = {}
        BY <1>5, <1>7, <2>2
    <2>3. CASE ~only /\ fitting # {}
        <3>1. found.comb \in fitting /\ {} \notin fitting /\ size \in 1 .. 8
            BY <1>5, <1>6, <2>3 DEF fitting, Numa!Fitting, size
        <3> QED BY <1>7, <1>8, <2>3, <3>1
    <2> QED BY <2>1, <2>2, <2>3
<1> QED BY <1>9, <1>10 DEF req, found, fitting, only, size

-----------------------------------------------------------------------------
(* The scores container by container, and of the allocation strategies *)

\* The score of the containers, one after the other.
LEMMA ScoredUnfolds ==
    ASSUME NEW pod, NEW nodes, Len(Numa!Containers(pod)) \in Nat
    PROVE  LET after == Numa!ScoredContainers(pod, nodes)
               cs == Numa!Containers(pod)
           IN  /\ after[0] = [nodes |-> nodes, max |-> 0, min |-> TRUE, fits |-> TRUE]
               /\ \A k \in 1 .. Len(cs) :
                     after[k] = Numa!ScoreContainer(after[k - 1], cs[k], pod.qos)
<1> DEFINE start == [nodes |-> nodes, max |-> 0, min |-> TRUE, fits |-> TRUE]
           n == Len(Numa!Containers(pod))
           After(s, k) == Numa!ScoreContainer(s, Numa!Containers(pod)[k], pod.qos)
           Is(g, m) == g = [i \in 0 .. m |-> IF i = 0 THEN start ELSE After(g[i - 1], i)]
           Bad == {m \in 0 .. n : ~ \E g : Is(g, m)}
<1> HIDE DEF After, start
<1>1. Bad = {}
    <2>1. SUFFICES ASSUME Bad # {} PROVE FALSE
        OBVIOUS
    <2>2. Bad \subseteq Nat
        OBVIOUS
    <2>3. PICK m \in Bad : \A k \in Bad : m <= k
        BY <2>1, <2>2, LeastNumber
    <2>4. CASE m = 0
        <3> DEFINE g == [i \in 0 .. 0 |-> start]
        <3>1. \A i \in 0 .. 0 : g[i] = IF i = 0 THEN start ELSE After(g[i - 1], i)
            OBVIOUS
        <3>2. Is(g, 0)
            BY <3>1
        <3> QED BY <2>3, <2>4, <3>2
    <2>5. CASE m # 0
        <3>1. m \in 1 .. n /\ m - 1 \in 0 .. n /\ m - 1 \notin Bad
            <4>1. m \in 0 .. n
                OBVIOUS
            <4>2. m \in 1 .. n /\ m - 1 \in 0 .. n /\ ~(m <= m - 1)
                BY <2>5, <4>1
            <4> QED BY <2>3, <4>2, Zenon
        <3>2. PICK g : Is(g, m - 1)
            BY <3>1
        <3> DEFINE h == [i \in 0 .. m |-> IF i < m THEN g[i] ELSE After(g[m - 1], m)]
        <3>3. \A i \in 0 .. m - 1 : g[i] = IF i = 0 THEN start ELSE After(g[i - 1], i)
            BY <3>2
        <3>4. ASSUME NEW i \in 0 .. m
              PROVE  h[i] = IF i = 0 THEN start ELSE After(h[i - 1], i)
            <4>1. CASE i < m
                <5>1. h[i] = g[i]
                    BY <4>1
                <5>2. i \in 0 .. m - 1
                    BY <3>1, <4>1
                <5>3. i # 0 => i - 1 \in 0 .. m /\ i - 1 < m
                    BY <3>1
                <5>4. i # 0 => h[i - 1] = g[i - 1]
                    BY <5>3
                <5> HIDE DEF h
                <5> QED BY <3>3, <5>1, <5>2, <5>4
            <4>2. CASE ~(i < m)
                <5>1. i = m /\ m # 0 /\ m - 1 \in 0 .. m /\ m - 1 < m
                    BY <3>1, <4>2
                <5>2. h[m] = After(g[m - 1], m) /\ h[m - 1] = g[m - 1]
                    BY <5>1
                <5> HIDE DEF h
                <5> QED BY <5>1, <5>2
            <4> QED BY <4>1, <4>2
        <3>5. Is(h, m)
            <4>1. h = [i \in 0 .. m |-> h[i]]
                OBVIOUS
            <4> HIDE DEF h
            <4> QED BY <3>4, <4>1
        <3> QED BY <2>3, <3>5
    <2> QED BY <2>4, <2>5
<1>2. \E g : Is(g, n)
    BY <1>1
<1> DEFINE left == CHOOSE g : Is(g, n)
<1>3. Is(left, n)
    BY <1>2
<1>4. Numa!ScoredContainers(pod, nodes) = left
    BY DEF Numa!ScoredContainers, After, start
<1> HIDE DEF left
<1>5. left[0] = start
    BY <1>3
<1>6. \A k \in 0 .. n : left[k] = IF k = 0 THEN start ELSE After(left[k - 1], k)
    BY <1>3, Zenon
<1>7. \A k \in 1 .. n : k \in 0 .. n /\ k # 0
    OBVIOUS
<1>8. \A k \in 1 .. n : left[k] = After(left[k - 1], k)
    BY <1>6, <1>7
<1> QED BY <1>4, <1>5, <1>8 DEF After, start

\* The smallest score, one NUMA node after the other.
LEMMA MinUnfolds ==
    ASSUME NEW scores, Len(scores) \in Nat
    PROVE  LET min == Numa!MinScores(scores)
           IN  /\ min[0] = 0
               /\ \A k \in 1 .. Len(scores) :
                     min[k] = IF min[k - 1] = 0 \/ (scores[k] # 0 /\ scores[k] < min[k - 1])
                              THEN scores[k] ELSE min[k - 1]
<1> DEFINE start == 0
           n == Len(scores)
           After(v, k) == IF v = 0 \/ (scores[k] # 0 /\ scores[k] < v) THEN scores[k] ELSE v
           Is(g, m) == g = [i \in 0 .. m |-> IF i = 0 THEN start ELSE After(g[i - 1], i)]
           Bad == {m \in 0 .. n : ~ \E g : Is(g, m)}
<1> HIDE DEF After, start
<1>1. Bad = {}
    <2>1. SUFFICES ASSUME Bad # {} PROVE FALSE
        OBVIOUS
    <2>2. Bad \subseteq Nat
        OBVIOUS
    <2>3. PICK m \in Bad : \A k \in Bad : m <= k
        BY <2>1, <2>2, LeastNumber
    <2>4. CASE m = 0
        <3> DEFINE g == [i \in 0 .. 0 |-> start]
        <3>1. \A i \in 0 .. 0 : g[i] = IF i = 0 THEN start ELSE After(g[i - 1], i)
            OBVIOUS
        <3>2. Is(g, 0)
            BY <3>1
        <3> QED BY <2>3, <2>4, <3>2
    <2>5. CASE m # 0
        <3>1. m \in 1 .. n /\ m - 1 \in 0 .. n /\ m - 1 \notin Bad
            <4>1. m \in 0 .. n
                OBVIOUS
            <4>2. m \in 1 .. n /\ m - 1 \in 0 .. n /\ ~(m <= m - 1)
                BY <2>5, <4>1
            <4> QED BY <2>3, <4>2, Zenon
        <3>2. PICK g : Is(g, m - 1)
            BY <3>1
        <3> DEFINE h == [i \in 0 .. m |-> IF i < m THEN g[i] ELSE After(g[m - 1], m)]
        <3>3. \A i \in 0 .. m - 1 : g[i] = IF i = 0 THEN start ELSE After(g[i - 1], i)
            BY <3>2
        <3>4. ASSUME NEW i \in 0 .. m
              PROVE  h[i] = IF i = 0 THEN start ELSE After(h[i - 1], i)
            <4>1. CASE i < m
                <5>1. h[i] = g[i]
                    BY <4>1
                <5>2. i \in 0 .. m - 1
                    BY <3>1, <4>1
                <5>3. i # 0 => i - 1 \in 0 .. m /\ i - 1 < m
                    BY <3>1
                <5>4. i # 0 => h[i - 1] = g[i - 1]
                    BY <5>3
                <5> HIDE DEF h
                <5> QED BY <3>3, <5>1, <5>2, <5>4
            <4>2. CASE ~(i < m)
                <5>1. i = m /\ m # 0 /\ m - 1 \in 0 .. m /\ m - 1 < m
                    BY <3>1, <4>2
                <5>2. h[m] = After(g[m - 1], m) /\ h[m - 1] = g[m - 1]
                    BY <5>1
                <5> HIDE DEF h
                <5> QED BY <5>1, <5>2
            <4> QED BY <4>1, <4>2
        <3>5. Is(h, m)
            <4>1. h = [i \in 0 .. m |-> h[i]]
                OBVIOUS
            <4> HIDE DEF h
            <4> QED BY <3>4, <4>1
        <3> QED BY <2>3, <3>5
    <2> QED BY <2>4, <2>5
<1>2. \E g : Is(g, n)
    BY <1>1
<1> DEFINE left == CHOOSE g : Is(g, n)
<1>3. Is(left, n)
    BY <1>2
<1>4. Numa!MinScores(scores) = left
    BY DEF Numa!MinScores, After, start
<1> HIDE DEF left
<1>5. left[0] = start
    BY <1>3
<1>6. \A k \in 0 .. n : left[k] = IF k = 0 THEN start ELSE After(left[k - 1], k)
    BY <1>3, Zenon
<1>7. \A k \in 1 .. n : k \in 0 .. n /\ k # 0
    OBVIOUS
<1>8. \A k \in 1 .. n : left[k] = After(left[k - 1], k)
    BY <1>6, <1>7
<1> QED BY <1>4, <1>5, <1>8 DEF After, start

\* What is taken from some NUMA nodes leaves lists of the same resources, and takes no
\* more than the request from any.
LEMMA TakenFromNodes ==
    ASSUME NEW nodes, NUMAList(nodes), NEW req, Quantities(req), NEW comb \in SUBSET DOMAIN nodes
    PROVE  LET left == Numa!subtractFromNUMAs(nodes, req, comb)
           IN  /\ NUMAList(left) /\ Len(left) = Len(nodes)
               /\ \A i \in DOMAIN nodes :
                     /\ DOMAIN left[i].res = DOMAIN nodes[i].res
                     /\ \A r \in DOMAIN nodes[i].res : nodes[i].res[r] <= left[i].res[r] + Numa!Get(req, r)
<1> DEFINE left == Numa!subtractFromNUMAs(nodes, req, comb)
           Before(i, r) == Numa!combineResources(nodes, r, {j \in comb : j < i})
           Rest(i, r) == IF req[r] > Before(i, r) THEN req[r] - Before(i, r) ELSE 0
           Left(i, r) == IF i \notin comb \/ r \notin DOMAIN req THEN nodes[i].res[r]
                         ELSE IF Rest(i, r) > nodes[i].res[r] THEN 0 ELSE nodes[i].res[r] - Rest(i, r)
           Res(i) == [r \in DOMAIN nodes[i].res |-> Left(i, r)]
<1>1. /\ Len(nodes) \in Nat /\ DOMAIN nodes = 1 .. Len(nodes)
      /\ \A i \in DOMAIN nodes :
            /\ {"res", "costs"} \subseteq DOMAIN nodes[i] /\ Quantities(nodes[i].res)
            /\ \A j \in DOMAIN nodes[i].costs : nodes[i].costs[j] \in Nat
    BY DEF NUMAList
<1>2. left = [i \in DOMAIN nodes |-> [nodes[i] EXCEPT !.res = Res(i)]]
    BY DEF Numa!subtractFromNUMAs
<1>3. \A i \in DOMAIN nodes : \A r : Before(i, r) \in Nat
    <2> TAKE i \in DOMAIN nodes
    <2> TAKE r
    <2>1. {j \in comb : j < i} \in SUBSET DOMAIN nodes
        OBVIOUS
    <2> QED BY <2>1, CombinedIs
<1>4. \A i \in DOMAIN nodes : \A r \in DOMAIN nodes[i].res :
         /\ Left(i, r) \in Nat
         /\ nodes[i].res[r] <= Left(i, r) + Numa!Get(req, r)
    <2> TAKE i \in DOMAIN nodes
    <2> TAKE r \in DOMAIN nodes[i].res
    <2> DEFINE had == nodes[i].res[r]
               b == Before(i, r)
               q == Numa!Get(req, r)
    <2>1. had \in Nat /\ b \in Nat /\ q \in Nat
        BY <1>1, <1>3, GetType DEF Quantities
    <2>2. r \in DOMAIN req => q = req[r]
        BY DEF Numa!Get
    <2> HIDE DEF had, b, q
    <2>3. Left(i, r) = IF i \notin comb \/ r \notin DOMAIN req THEN had
                       ELSE IF (IF q > b THEN q - b ELSE 0) > had THEN 0
                       ELSE had - (IF q > b THEN q - b ELSE 0)
        BY <2>2 DEF had, b
    <2> HIDE DEF Left
    <2>4. Left(i, r) \in Nat /\ had <= Left(i, r) + q
        BY <2>1, <2>3
    <2> QED BY <2>4 DEF had, q
<1> HIDE DEF Left, Before
<1>5. \A i \in DOMAIN nodes :
         /\ DOMAIN Res(i) = DOMAIN nodes[i].res /\ Quantities(Res(i))
         /\ \A r \in DOMAIN nodes[i].res : Res(i)[r] = Left(i, r)
    BY <1>4 DEF Quantities
<1>6. DOMAIN left = DOMAIN nodes /\ Len(left) = Len(nodes)
    <2> DEFINE n == Len(nodes)
               Node(i) == [nodes[i] EXCEPT !.res = Res(i)]
    <2>1. n \in Nat /\ left = [i \in 1 .. n |-> Node(i)]
        BY <1>1, <1>2
    <2> HIDE DEF Node, n, left
    <2>2. DOMAIN left = 1 .. n /\ Len(left) = n
        BY <2>1
    <2> QED BY <1>1, <2>2 DEF n
<1>7. ASSUME NEW i \in DOMAIN nodes
      PROVE  /\ {"res", "costs"} \subseteq DOMAIN left[i]
             /\ left[i].res = Res(i) /\ left[i].costs = nodes[i].costs
    <2>1. left[i] = [nodes[i] EXCEPT !.res = Res(i)]
        BY <1>2
    <2> HIDE DEF left
    <2>2. {"res", "costs"} \subseteq DOMAIN nodes[i]
        BY <1>1
    <2>3. DOMAIN left[i] = DOMAIN nodes[i]
        BY <2>1
    <2>4. left[i].res = Res(i) /\ left[i].costs = nodes[i].costs
        BY <2>1, <2>2
    <2> QED BY <2>2, <2>3, <2>4
<1> HIDE DEF Res, left
<1>8. NUMAList(left)
    BY <1>1, <1>5, <1>6, <1>7 DEF NUMAList
<1>9. \A i \in DOMAIN nodes :
         /\ DOMAIN left[i].res = DOMAIN nodes[i].res
         /\ \A r \in DOMAIN nodes[i].res : nodes[i].res[r] <= left[i].res[r] + Numa!Get(req, r)
    BY <1>4, <1>5, <1>7
<1> QED BY <1>6, <1>8, <1>9 DEF left

\* What the first k containers ask for, and the room that the rest finds on a node of
\* which all of them together ask no more than it has.
Asked(pod, r, k) == SumFunctionOnSet(Amounts(pod.app, r), 1 .. k)
Roomy(pod, nodes, id, s, k) ==
    /\ s.fits /\ s.max \in {0, 1}
    /\ NUMAList(s.nodes) /\ Len(s.nodes) = Len(nodes)
    /\ \A i \in DOMAIN nodes : Numa!Requested(pod) \subseteq DOMAIN s.nodes[i].res
    /\ \A r \in Numa!Requested(pod) :
          Asked(pod, r, Len(pod.app)) <= Numa!Get(s.nodes[id].res, r) + Asked(pod, r, k)

LEMMA AskedNext ==
    ASSUME NEW pod, PodRequests(pod), NEW r, NEW k \in 1 .. Len(pod.app)
    PROVE  /\ Asked(pod, r, k - 1) \in Nat /\ Asked(pod, r, Len(pod.app)) \in Nat
           /\ Asked(pod, r, k) = Asked(pod, r, k - 1) + Numa!Get(pod.app[k], r)
           /\ Asked(pod, r, k) <= Asked(pod, r, Len(pod.app))
<1> DEFINE n == Len(pod.app)
           f == Amounts(pod.app, r)
           T == 1 .. k - 1
           U == 1 .. k
           rest == (1 .. n) \ U
<1>1. n \in Nat /\ k \in Nat /\ k <= n /\ k - 1 \in Nat
    BY DEF PodRequests
<1>2. IsFiniteSet(T) /\ IsFiniteSet(1 .. n)
    BY <1>1, IndicesAreFinite
<1>3. \A j \in 1 .. n : f[j] \in Nat /\ f[j] = Numa!Get(pod.app[j], r)
    BY AmountsType
<1>4. /\ k \notin T /\ U = T \cup {k} /\ k \in 1 .. n /\ U \in SUBSET (1 .. n)
      /\ T \in SUBSET (1 .. n)
    BY <1>1
<1> HIDE DEF f, T, U
<1>5. IsFiniteSet(rest)
    BY <1>2, FS_Subset
<1>6. \A j \in 1 .. n : f[j] \in Int
    BY <1>3
<1>7. SumFunctionOnSet(f, U) = f[k] + SumFunctionOnSet(f, T)
    <2>1. \A j \in T \cup {k} : f[j] \in Int
        BY <1>4, <1>6
    <2> QED BY <1>2, <1>4, <2>1, SumAdd
<1>8. SumFunctionOnSet(f, 1 .. n) = SumFunctionOnSet(f, U) + SumFunctionOnSet(f, rest)
    <2> DEFINE all == 1 .. n
    <2>1. IsFiniteSet(all) /\ U \in SUBSET all /\ \A j \in all : f[j] \in Int
        BY <1>2, <1>4, <1>6
    <2> HIDE DEF all
    <2>2. SumFunctionOnSet(f, all) = SumFunctionOnSet(f, U) + SumFunctionOnSet(f, all \ U)
        BY <2>1, SumSplit
    <2> QED BY <2>2 DEF all
<1>9. SumFunctionOnSet(f, T) \in Nat /\ SumFunctionOnSet(f, rest) \in Nat
    <2>1. \A j \in T : f[j] \in Nat
        BY <1>3, <1>4
    <2>2. \A j \in rest : f[j] \in Nat
        BY <1>3
    <2> QED BY <1>2, <1>5, <2>1, <2>2, SumNat
<1>10. f[k] \in Nat /\ f[k] = Numa!Get(pod.app[k], r)
    BY <1>3, <1>4
<1> HIDE DEF rest, n
<1>11. /\ SumFunctionOnSet(f, T) \in Nat /\ SumFunctionOnSet(f, 1 .. n) \in Nat
       /\ SumFunctionOnSet(f, U) = SumFunctionOnSet(f, T) + Numa!Get(pod.app[k], r)
       /\ SumFunctionOnSet(f, U) <= SumFunctionOnSet(f, 1 .. n)
    BY <1>7, <1>8, <1>9, <1>10
<1> QED BY <1>11 DEF Asked, f, T, U, n

LEMMA RoomForNext ==
    ASSUME NEW pod, PodRequests(pod), NEW nodes, NUMAList(nodes), NEW id \in DOMAIN nodes,
           NEW k \in 1 .. Len(pod.app), NEW s, Roomy(pod, nodes, id, s, k - 1)
    PROVE  Roomy(pod, nodes, id, Numa!ScoreContainer(s, pod.app[k], "Guaranteed"), k)
<1> DEFINE req == pod.app[k]
           found == Numa!numaNodesRequired(s.nodes, req, "Guaranteed")
           size == Cardinality(found.comb)
           left == Numa!subtractFromNUMAs(s.nodes, req, found.comb)
           new == Numa!ScoreContainer(s, req, "Guaranteed")
           Has0(r) == Numa!Get(s.nodes[id].res, r)
<1>1. /\ Quantities(req) /\ DOMAIN req \subseteq Numa!Requested(pod)
    BY DEF PodRequests
<1>2. /\ s.fits /\ s.max \in {0, 1}
      /\ NUMAList(s.nodes) /\ Len(s.nodes) = Len(nodes) /\ DOMAIN s.nodes = DOMAIN nodes
      /\ \A i \in DOMAIN nodes : Numa!Requested(pod) \subseteq DOMAIN s.nodes[i].res
      /\ \A r \in Numa!Requested(pod) :
            Asked(pod, r, Len(pod.app)) <= Has0(r) + Asked(pod, r, k - 1)
    BY DEF Roomy, NUMAList
<1>3. \A r \in Numa!Requested(pod) :
         /\ Asked(pod, r, k - 1) \in Nat /\ Asked(pod, r, Len(pod.app)) \in Nat
         /\ Asked(pod, r, k) = Asked(pod, r, k - 1) + Numa!Get(req, r)
         /\ Asked(pod, r, k) <= Asked(pod, r, Len(pod.app))
         /\ Has0(r) \in Nat /\ Numa!Get(req, r) \in Nat
    <2>1. Quantities(s.nodes[id].res)
        BY <1>2 DEF NUMAList
    <2> QED BY <1>1, <2>1, AskedNext, GetType
<1> HIDE DEF req
<1>4. \A r \in DOMAIN req : req[r] <= Has0(r)
    <2> TAKE r \in DOMAIN req
    <2>1. r \in Numa!Requested(pod) /\ Numa!Get(req, r) = req[r]
        BY <1>1 DEF Numa!Get
    <2> HIDE DEF Has0
    <2>2. Asked(pod, r, k) \in Nat
        BY <1>3, <2>1
    <2>3. Numa!Get(req, r) <= Has0(r)
        BY <1>2, <1>3, <2>1, <2>2
    <2> QED BY <2>1, <2>3
<1>5. {id} \in Numa!Fitting(s.nodes, req)
    BY <1>1, <1>2, <1>4, OneNodeFits
<1>6. found.comb \in Numa!Fitting(s.nodes, req) /\ size <= Cardinality({id})
    BY <1>1, <1>2, <1>5, FewestAreFound
<1>7. found.comb \in SUBSET DOMAIN s.nodes /\ size = 1
    <2>1. found.comb \in SUBSET DOMAIN s.nodes /\ found.comb # {}
        BY <1>6 DEF Numa!Fitting
    <2>2. IsFiniteSet(found.comb)
        BY <1>2, <2>1, NodesAreFinite
    <2>3. size \in Nat /\ size # 0 /\ Cardinality({id}) = 1
        BY <2>1, <2>2, FS_EmptySet, FS_CardinalityType, FS_Singleton
    <2> HIDE DEF size, found
    <2> QED BY <1>6, <2>1, <2>3
<1>8. /\ NUMAList(left) /\ Len(left) = Len(s.nodes)
      /\ \A i \in DOMAIN s.nodes :
            /\ DOMAIN left[i].res = DOMAIN s.nodes[i].res
            /\ \A r \in DOMAIN s.nodes[i].res :
                  s.nodes[i].res[r] <= left[i].res[r] + Numa!Get(req, r)
    BY <1>1, <1>2, <1>7, TakenFromNodes
<1>9. new = IF Numa!onlyNonNUMAResources(s.nodes, req) THEN s
            ELSE [nodes |-> left, max |-> IF 1 > s.max THEN 1 ELSE s.max,
                  min |-> s.min /\ found.min, fits |-> TRUE]
    <2> DEFINE c == Numa!Cardinality(found.comb)
               Taken(m) == [nodes |-> left, max |-> IF m > s.max THEN m ELSE s.max,
                            min |-> s.min /\ found.min, fits |-> TRUE]
    <2>1. c = 1
        BY <1>7, SameCardinality
    <2>2. new = IF ~s.fits \/ Numa!onlyNonNUMAResources(s.nodes, req) THEN s
                ELSE IF c = 0 THEN [s EXCEPT !.fits = FALSE] ELSE Taken(c)
        BY Zenon DEF Numa!ScoreContainer
    <2> HIDE DEF c, Taken, new
    <2>3. new = IF Numa!onlyNonNUMAResources(s.nodes, req) THEN s ELSE Taken(1)
        BY <1>2, <2>1, <2>2
    <2> QED BY <2>3, Zenon DEF Taken
<1> HIDE DEF new, found, left, size
<1>10. CASE Numa!onlyNonNUMAResources(s.nodes, req)
    <2>1. new = s
        BY <1>9, <1>10
    <2>2. ASSUME NEW r \in Numa!Requested(pod)
          PROVE  Asked(pod, r, Len(pod.app)) <= Numa!Get(s.nodes[id].res, r) + Asked(pod, r, k)
        BY <1>2, <1>3
    <2> QED BY <1>2, <2>1, <2>2 DEF Roomy, new, req
<1>11. CASE ~Numa!onlyNonNUMAResources(s.nodes, req)
    <2>1. new.nodes = left /\ new.fits /\ new.max = IF 1 > s.max THEN 1 ELSE s.max
        BY <1>9, <1>11
    <2>2. new.max \in {0, 1}
        BY <1>2, <2>1
    <2>3. ASSUME NEW r \in Numa!Requested(pod)
          PROVE  Asked(pod, r, Len(pod.app)) <= Numa!Get(left[id].res, r) + Asked(pod, r, k)
        <3>1. r \in DOMAIN s.nodes[id].res /\ r \in DOMAIN left[id].res
            BY <1>2, <1>8
        <3>2. Has0(r) = s.nodes[id].res[r] /\ Numa!Get(left[id].res, r) = left[id].res[r]
            BY <3>1 DEF Numa!Get
        <3>3. Numa!Get(left[id].res, r) \in Nat
            BY <1>2, <1>8, GetType DEF NUMAList
        <3>4. Has0(r) <= Numa!Get(left[id].res, r) + Numa!Get(req, r)
            BY <1>2, <1>8, <3>1, <3>2
        <3>5. /\ Asked(pod, r, Len(pod.app)) <= Has0(r) + Asked(pod, r, k - 1)
              /\ Asked(pod, r, k) = Asked(pod, r, k - 1) + Numa!Get(req, r)
              /\ Asked(pod, r, k - 1) \in Nat /\ Asked(pod, r, Len(pod.app)) \in Nat
              /\ Has0(r) \in Nat /\ Numa!Get(req, r) \in Nat
            BY <1>2, <1>3
        <3>6. \A a, b, c, d, e, f \in Nat : a <= b + c /\ d = c + e /\ b <= f + e => a <= f + d
            OBVIOUS
        <3>7. Asked(pod, r, k) \in Nat
            BY <3>5
        <3> HIDE DEF Has0
        <3> QED BY <3>3, <3>4, <3>5, <3>6, <3>7
    <2>4. \A i \in DOMAIN nodes : Numa!Requested(pod) \subseteq DOMAIN left[i].res
        BY <1>2, <1>8
    <2> QED BY <1>2, <1>8, <2>1, <2>2, <2>3, <2>4 DEF Roomy, new, req
<1> QED BY <1>10, <1>11

LEMMA RoomForAll ==
    ASSUME NEW pod, PodRequests(pod), pod.qos = "Guaranteed", Numa!Containers(pod) = pod.app,
           NEW nodes, NUMAList(nodes), NEW id \in DOMAIN nodes,
           \A i \in DOMAIN nodes : Numa!Requested(pod) \subseteq DOMAIN nodes[i].res,
           \A r \in Numa!Requested(pod) : Asked(pod, r, Len(pod.app)) <= Numa!Get(nodes[id].res, r)
    PROVE  Roomy(pod, nodes, id, Numa!ScoredContainers(pod, nodes)[Len(pod.app)], Len(pod.app))
<1> DEFINE n == Len(pod.app)
           after == Numa!ScoredContainers(pod, nodes)
           Bad == {k \in 0 .. n : ~Roomy(pod, nodes, id, after[k], k)}
<1>1. n \in Nat
    BY DEF PodRequests
<1>2. /\ after[0] = [nodes |-> nodes, max |-> 0, min |-> TRUE, fits |-> TRUE]
      /\ \A k \in 1 .. n : after[k] = Numa!ScoreContainer(after[k - 1], pod.app[k], "Guaranteed")
    BY <1>1, ScoredUnfolds
<1> HIDE DEF after
<1>3. Roomy(pod, nodes, id, after[0], 0)
    <2>1. /\ after[0].fits /\ after[0].max = 0 /\ after[0].nodes = nodes
        BY <1>2
    <2>2. ASSUME NEW r \in Numa!Requested(pod)
          PROVE  Asked(pod, r, n) <= Numa!Get(nodes[id].res, r) + Asked(pod, r, 0)
        <3>1. 1 .. 0 = {}
            OBVIOUS
        <3>2. Asked(pod, r, 0) = 0
            BY <3>1, SumEmpty DEF Asked
        <3>3. Numa!Get(nodes[id].res, r) \in Nat
            BY GetType DEF NUMAList
        <3> QED BY <3>2, <3>3
    <2> QED BY <2>1, <2>2 DEF Roomy
<1>4. Bad = {}
    <2>1. SUFFICES ASSUME Bad # {} PROVE FALSE
        OBVIOUS
    <2>2. Bad \subseteq Nat
        OBVIOUS
    <2>3. PICK k \in Bad : \A m \in Bad : k <= m
        BY <2>1, <2>2, LeastNumber
    <2>4. k \in 0 .. n /\ ~Roomy(pod, nodes, id, after[k], k)
        OBVIOUS
    <2>5. k # 0
        BY <1>3, <2>4
    <2>6. k \in 1 .. n /\ k - 1 \in 0 .. n /\ ~(k <= k - 1)
        BY <1>1, <2>4, <2>5
    <2>7. Roomy(pod, nodes, id, after[k - 1], k - 1)
        BY <2>3, <2>6
    <2>8. Roomy(pod, nodes, id, after[k], k)
        BY <1>2, <2>6, <2>7, RoomForNext
    <2> QED BY <2>4, <2>8
<1>5. n \in 0 .. n
    BY <1>1
<1> HIDE DEF n
<1> QED BY <1>4, <1>5 DEF n, after

\* A Guaranteed pod without init containers that the single-numa-node filter admits as
\* a whole, and whose resources all NUMA nodes list, is scored in the container scope
\* as one of which no container takes more than one NUMA node.
LEMMA WholeIsScored ==
    ASSUME NEW pod, PodRequests(pod), pod.qos = "Guaranteed", Numa!Containers(pod) = pod.app,
           NEW nodes, NUMANodes(nodes), NUMAList(nodes), NEW nodeRes,
           Numa!singleNUMAPodLevelHandler(pod, nodes, nodeRes),
           \A i \in DOMAIN nodes : Numa!Requested(pod) \subseteq DOMAIN nodes[i].res
    PROVE  Numa!leastNUMAContainerScopeScore(pod, nodes) >= Numa!normalizeScore(1, FALSE)
<1> DEFINE req == Numa!GetPodEffectiveRequest(pod)
           n == Len(pod.app)
           last == Numa!ScoredContainers(pod, nodes)[n]
<1>1. /\ DOMAIN req = Numa!Requested(pod)
      /\ \A r \in Numa!Requested(pod) : req[r] \in Nat /\ Asked(pod, r, n) <= req[r]
    <2>1. DOMAIN req = Numa!Requested(pod)
        BY DEF Numa!GetPodEffectiveRequest
    <2> QED BY <2>1, EffectiveRequest DEF Asked
<1>2. Numa!resourcesAvailableInAnyNUMANodes(nodes, req, "Guaranteed", nodeRes) # 0
    BY DEF Numa!singleNUMAPodLevelHandler
<1> HIDE DEF req
<1>3. Quantities(req)
    BY <1>1 DEF Quantities
<1>4. PICK id \in DOMAIN nodes : \A r \in DOMAIN req : req[r] <= Numa!Get(nodes[id].res, r)
    BY <1>1, <1>2, <1>3, PickedFits
<1>5. \A r \in Numa!Requested(pod) : Asked(pod, r, n) <= Numa!Get(nodes[id].res, r)
    <2> TAKE r \in Numa!Requested(pod)
    <2>1. Asked(pod, r, n) \in Nat
        <3>1. IsFiniteSet(1 .. n) /\ \A j \in 1 .. n : Amounts(pod.app, r)[j] \in Nat
            BY AmountsType, IndicesAreFinite DEF PodRequests
        <3> QED BY <3>1, SumNat DEF Asked
    <2>2. Numa!Get(nodes[id].res, r) \in Nat
        BY GetType DEF NUMAList
    <2> QED BY <1>1, <1>4, <2>1, <2>2
<1>6. Roomy(pod, nodes, id, last, n)
    BY <1>5, RoomForAll
<1>7. last.fits /\ last.max \in {0, 1}
    BY <1>6 DEF Roomy
<1>8. Numa!leastNUMAContainerScopeScore(pod, nodes) =
        IF ~last.fits THEN 0
        ELSE IF last.max = 0 THEN Numa!MaxNodeScore ELSE Numa!normalizeScore(last.max, last.min)
    BY DEF Numa!leastNUMAContainerScopeScore
<1> HIDE DEF last
<1>9. /\ Numa!MaxNodeScore >= Numa!normalizeScore(1, FALSE)
      /\ \A min : Numa!normalizeScore(1, min) >= Numa!normalizeScore(1, FALSE)
    BY QuotientOf DEF Numa!normalizeScore, Numa!MaxNodeScore, Numa!highestNUMAID
<1> QED BY <1>7, <1>8, <1>9

\* The smallest score so far that is not zero, if there is one.
Least(scores, v, k) ==
    /\ v \in Nat
    /\ \A i \in 1 .. k : scores[i] # 0 => v # 0 /\ v <= scores[i]
    /\ v # 0 => \E i \in 1 .. k : scores[i] = v

LEMMA LeastOfScores ==
    ASSUME NEW scores, Len(scores) \in Nat, \A i \in 1 .. Len(scores) : scores[i] \in Nat
    PROVE  Least(scores, Numa!MinScores(scores)[Len(scores)], Len(scores))
<1> DEFINE n == Len(scores)
           min == Numa!MinScores(scores)
           Bad == {k \in 0 .. n : ~Least(scores, min[k], k)}
<1>1. /\ min[0] = 0
      /\ \A k \in 1 .. n : min[k] = IF min[k - 1] = 0 \/ (scores[k] # 0 /\ scores[k] < min[k - 1])
                                    THEN scores[k] ELSE min[k - 1]
    BY MinUnfolds
<1> HIDE DEF min
<1>2. Least(scores, min[0], 0)
    BY <1>1 DEF Least
<1>3. ASSUME NEW k \in 1 .. n, Least(scores, min[k - 1], k - 1)
      PROVE  Least(scores, min[k], k)
    <2>1. /\ k \in Nat /\ \A i \in 1 .. k : i = k \/ i \in 1 .. k - 1
          /\ k \in 1 .. k /\ \A i \in 1 .. k - 1 : i \in 1 .. k
        OBVIOUS
    <2>2. \A i \in 1 .. k : scores[i] \in Nat
        OBVIOUS
    <2>3. /\ min[k - 1] \in Nat
          /\ \A i \in 1 .. k - 1 : scores[i] # 0 => min[k - 1] # 0 /\ min[k - 1] <= scores[i]
          /\ min[k - 1] # 0 => \E i \in 1 .. k - 1 : scores[i] = min[k - 1]
        BY <1>3 DEF Least
    <2>4. min[k] = IF min[k - 1] = 0 \/ (scores[k] # 0 /\ scores[k] < min[k - 1])
                   THEN scores[k] ELSE min[k - 1]
        BY <1>1
    <2>5. min[k] \in Nat
        BY <2>1, <2>2, <2>3, <2>4
    <2>6. ASSUME NEW i \in 1 .. k, scores[i] # 0
          PROVE  min[k] # 0 /\ min[k] <= scores[i]
        <3>1. CASE i = k
            BY <2>2, <2>3, <2>4, <2>6, <3>1
        <3>2. CASE i \in 1 .. k - 1
            <4>1. min[k - 1] # 0 /\ min[k - 1] <= scores[i]
                BY <2>3, <2>6, <3>2
            <4>2. scores[i] \in Nat /\ scores[k] \in Nat
                BY <2>1, <2>2
            <4>3. \A a, b, c, m \in Nat :
                     a # 0 /\ a <= b /\ m = (IF a = 0 \/ (c # 0 /\ c < a) THEN c ELSE a) => m # 0 /\ m <= b
                OBVIOUS
            <4> QED BY <2>3, <2>4, <2>5, <4>1, <4>2, <4>3
        <3> QED BY <2>1, <3>1, <3>2
    <2>7. min[k] # 0 => \E i \in 1 .. k : scores[i] = min[k]
        BY <2>1, <2>3, <2>4
    <2> QED BY <2>5, <2>6, <2>7 DEF Least
<1>4. Bad = {}
    <2>1. SUFFICES ASSUME Bad # {} PROVE FALSE
        OBVIOUS
    <2>2. Bad \subseteq Nat
        OBVIOUS
    <2>3. PICK k \in Bad : \A m \in Bad : k <= m
        BY <2>1, <2>2, LeastNumber
    <2>4. k \in 0 .. n /\ ~Least(scores, min[k], k)
        OBVIOUS
    <2>5. k # 0
        BY <1>2, <2>4
    <2>6. k \in 1 .. n /\ k - 1 \in 0 .. n /\ ~(k <= k - 1)
        BY <2>4, <2>5
    <2>7. Least(scores, min[k - 1], k - 1)
        BY <2>3, <2>6
    <2> QED BY <1>3, <2>4, <2>6, <2>7
<1>5. n \in 0 .. n
    OBVIOUS
<1> HIDE DEF n
<1> QED BY <1>4, <1>5 DEF n, min

\* A request of some resources, and its scores on the NUMA nodes.
NamedRequest(req) == Quantities(req) /\ IsFiniteSet(DOMAIN req) /\ DOMAIN req # {}

LEMMA AllocationType ==
    ASSUME NEW q \in Nat, NEW cap \in Nat
    PROVE  Numa!leastAllocatedScore(q, cap) \in Nat /\ Numa!mostAllocatedScore(q, cap) \in Nat
<1>1. ASSUME cap # 0, q <= cap
      PROVE  /\ ((cap - q) * 100) \div cap \in Nat
             /\ (q * 100) \div cap \in Nat
    <2>1. \A a \in Nat : a \div cap \in Nat
        <3> TAKE a \in Nat
        <3>1. a \div cap \in Int /\ (0 * cap <= a => 0 <= a \div cap)
            BY <1>1, QuotientOf, QuotientBounds
        <3> QED BY <3>1
    <2>2. (cap - q) * 100 \in Nat /\ q * 100 \in Nat
        BY <1>1
    <2> QED BY <2>1, <2>2
<1> QED BY <1>1 DEF Numa!leastAllocatedScore, Numa!mostAllocatedScore, Numa!MaxNodeScore

LEMMA StrategyType ==
    ASSUME NEW strategy, NEW req, NamedRequest(req), NEW res, Quantities(res)
    PROVE  Numa!StrategyScore(strategy, req, res) \in Nat
<1> DEFINE Score(r) == IF strategy = "LeastAllocated"
                       THEN Numa!leastAllocatedScore(req[r], Numa!Get(res, r))
                       ELSE Numa!mostAllocatedScore(req[r], Numa!Get(res, r))
           D == DOMAIN req
           f == [r \in D |-> Score(r)]
<1>1. \A r \in D : Score(r) \in Nat
    <2> TAKE r \in D
    <2>1. req[r] \in Nat /\ Numa!Get(res, r) \in Nat
        BY GetType DEF NamedRequest, Quantities
    <2> QED BY <2>1, AllocationType
<1>2. Numa!StrategyScore(strategy, req, res) = SumFunctionOnSet(f, D) \div Cardinality(D)
    <2>1. Numa!StrategyScore(strategy, req, res) = Numa!SumFunction(f) \div Cardinality(D)
        BY SameCardinality DEF Numa!StrategyScore
    <2>2. Numa!SumFunction(f) = Numa!SumFunctionOnSet(f, DOMAIN f)
        BY DEF Numa!SumFunction
    <2>3. DOMAIN f = D
        OBVIOUS
    <2> HIDE DEF f, D
    <2> QED BY <2>1, <2>2, <2>3, SameNumaSum
<1> HIDE DEF Score
<1>3. SumFunctionOnSet(f, D) \in Nat
    BY <1>1, SumNat DEF NamedRequest
<1>4. Cardinality(D) \in Nat /\ Cardinality(D) # 0
    BY FS_EmptySet, FS_CardinalityType DEF NamedRequest
<1>5. \A a, d \in Nat : d # 0 => a \div d \in Nat
    <2> SUFFICES ASSUME NEW a \in Nat, NEW d \in Nat, d # 0
                 PROVE  a \div d \in Nat
        OBVIOUS
    <2>1. a \div d \in Int /\ (0 * d <= a => 0 <= a \div d)
        BY QuotientOf, QuotientBounds
    <2> QED BY <2>1
<1> HIDE DEF f, D
<1> QED BY <1>2, <1>3, <1>4, <1>5

\* A strategy's score is the smallest of the NUMA nodes' that is not zero, or zero.
SmallestScore(strategy, req, nodes) ==
    LET S == {Numa!StrategyScore(strategy, req, nodes[i].res) : i \in DOMAIN nodes} \ {0}
    IN  IF S = {} THEN 0 ELSE Numa!Min(S)

LEMMA SmallestIsScored ==
    ASSUME NEW strategy, NEW req, NamedRequest(req), NEW nodes, NUMAList(nodes)
    PROVE  LET score == Numa!scoreForEachNUMANode(strategy, req, nodes)
           IN  score \in Nat /\ score = SmallestScore(strategy, req, nodes)
<1> DEFINE n == Len(nodes)
           Of1(i) == Numa!StrategyScore(strategy, req, nodes[i].res)
           scores == [i \in 1 .. n |-> Of1(i)]
           S == {Of1(i) : i \in DOMAIN nodes} \ {0}
           score == Numa!scoreForEachNUMANode(strategy, req, nodes)
<1>1. n \in Nat /\ DOMAIN nodes = 1 .. n
    BY DEF NUMAList
<1>2. \A i \in 1 .. n : Of1(i) \in Nat
    BY <1>1, StrategyType DEF NUMAList
<1>3. score = Numa!MinScores(scores)[n]
    BY <1>1 DEF Numa!scoreForEachNUMANode
<1> HIDE DEF Of1, n
<1>4. Len(scores) = n /\ \A i \in 1 .. n : scores[i] = Of1(i)
    BY <1>1
<1> HIDE DEF scores, score
<1>5. Least(scores, score, n)
    BY <1>1, <1>2, <1>3, <1>4, LeastOfScores
<1>6. /\ score \in Nat
      /\ \A i \in 1 .. n : Of1(i) # 0 => score # 0 /\ score <= Of1(i)
      /\ score # 0 => \E i \in 1 .. n : Of1(i) = score
    BY <1>4, <1>5 DEF Least
<1>7. CASE S = {}
    <2>1. score = 0
        BY <1>1, <1>6, <1>7
    <2> QED BY <1>7, <2>1 DEF score, Of1, SmallestScore
<1>8. CASE S # {}
    <2>1. score \in S /\ S \subseteq Nat /\ \A x \in S : score <= x
        BY <1>1, <1>2, <1>6, <1>8
    <2> HIDE DEF S
    <2>2. Numa!Min(S) \in S /\ \A x \in S : Numa!Min(S) <= x
        BY <2>1 DEF Numa!Min
    <2>3. \A a, b \in Nat : a <= b /\ b <= a => a = b
        OBVIOUS
    <2>4. score = Numa!Min(S)
        BY <2>1, <2>2, <2>3
    <2> QED BY <1>6, <1>8, <2>4 DEF score, S, Of1, SmallestScore
<1> QED BY <1>7, <1>8

LEMMA NumaMaxIs ==
    ASSUME NEW S, S \subseteq Nat, NEW x \in S, \A y \in S : x >= y
    PROVE  Numa!Max(S) = x
<1>1. Numa!Max(S) \in S /\ \A y \in S : Numa!Max(S) >= y
    BY DEF Numa!Max
<1>2. \A a, b \in Nat : a >= b /\ b >= a => a = b
    OBVIOUS
<1> QED BY <1>1, <1>2

LEMMA NumaSumOfOne ==
    ASSUME NEW f, DOMAIN f = {1}, f[1] \in Nat
    PROVE  Numa!SumFunction(f) = f[1]
<1>1. Numa!SumFunction(f) = SumFunctionOnSet(f, {} \cup {1})
    BY SameNumaSum DEF Numa!SumFunction
<1>2. SumFunctionOnSet(f, {} \cup {1}) = f[1] + SumFunctionOnSet(f, {})
    <2>1. IsFiniteSet({}) /\ 1 \notin {} /\ \A i \in {} \cup {1} : f[i] \in Int
        BY FS_EmptySet
    <2> QED BY <2>1, SumAdd
<1> QED BY <1>1, <1>2, SumEmpty

\* The request of a pod of one container is the container's.
LEMMA RequestOfOne ==
    ASSUME NEW R, NEW Q, NEW pod \in [init : Seq(Lists(R)), app : Seq(Lists(R)), qos : Q],
           Len(Numa!Containers(pod)) = 1
    PROVE  /\ DOMAIN Numa!Containers(pod) = {1}
           /\ Numa!GetPodEffectiveRequest(pod) = Numa!Containers(pod)[1]
<1> DEFINE init == pod.init
           app == pod.app
           cs == Numa!Containers(pod)
           eff == Numa!GetPodEffectiveRequest(pod)
           Sum(r) == Numa!SumFunction([i \in DOMAIN app |-> Numa!Get(app[i], r)])
           Inits(r) == {Numa!Get(init[i], r) : i \in DOMAIN init}
<1>1. init \in Seq(Lists(R)) /\ app \in Seq(Lists(R)) /\ cs = init \o app
    BY DEF Numa!Containers
<1>2. eff = [r \in Numa!Requested(pod) |-> Numa!Max({Sum(r)} \cup Inits(r))]
    BY DEF Numa!GetPodEffectiveRequest
<1>3. Numa!Requested(pod) = UNION {DOMAIN cs[i] : i \in DOMAIN cs}
    BY DEF Numa!Requested
<1>4. \A list \in Lists(R) : Quantities(list) /\ list = [r \in DOMAIN list |-> list[r]]
    BY DEF Lists, Quantities
<1> HIDE DEF init, app, cs, eff, Sum, Inits
<1>5. cs \in Seq(Lists(R)) /\ Len(cs) = Len(init) + Len(app) /\ Len(cs) = 1
    BY <1>1 DEF cs
<1>6. DOMAIN cs = {1} /\ cs[1] \in Lists(R)
    <2>1. cs \in Seq(Lists(R)) /\ Len(cs) = 1
        BY <1>5
    <2>2. DOMAIN cs = 1 .. 1
        BY <2>1
    <2>3. DOMAIN cs = {1} /\ 1 \in DOMAIN cs
        BY <2>2
    <2>4. \A i \in DOMAIN cs : cs[i] \in Lists(R)
        BY <1>5
    <2> QED BY <2>3, <2>4
<1>7. Numa!Requested(pod) = DOMAIN cs[1]
    BY <1>3, <1>6
<1>8. ASSUME NEW r \in DOMAIN cs[1]
      PROVE  Numa!Max({Sum(r)} \cup Inits(r)) = cs[1][r]
    <2>1. cs[1][r] \in Nat /\ Numa!Get(cs[1], r) = cs[1][r]
        BY <1>4, <1>6 DEF Numa!Get, Quantities
    <2>2. CASE Len(init) = 0
        <3>1. init = << >> /\ Len(app) = 1
            <4>1. Len(init) \in Nat /\ Len(app) \in Nat /\ 1 = Len(init) + Len(app)
                BY <1>1, <1>5
            <4>2. Len(app) = 1
                BY <2>2, <4>1
            <4>3. init = << >>
                BY <1>1, <2>2
            <4> QED BY <4>2, <4>3
        <3>2. DOMAIN app = {1} /\ DOMAIN init = {} /\ app[1] = cs[1]
            BY <1>1, <3>1
        <3> DEFINE f == [i \in DOMAIN app |-> Numa!Get(app[i], r)]
        <3>3. DOMAIN f = {1} /\ f[1] = cs[1][r]
            BY <2>1, <3>2
        <3>4. Sum(r) = cs[1][r]
            <4>1. Sum(r) = Numa!SumFunction(f)
                BY DEF Sum
            <4> HIDE DEF f
            <4> QED BY <2>1, <3>3, <4>1, NumaSumOfOne
        <3>5. {Sum(r)} \cup Inits(r) = {cs[1][r]}
            BY <3>2, <3>4 DEF Inits
        <3>6. {cs[1][r]} \subseteq Nat /\ \A y \in {cs[1][r]} : cs[1][r] >= y
            BY <2>1
        <3> QED BY <3>5, <3>6, NumaMaxIs, ZenonT(30)
    <2>3. CASE Len(init) # 0
        <3>1. Len(init) = 1 /\ app = << >>
            <4>1. Len(init) \in Nat /\ Len(app) \in Nat /\ 1 = Len(init) + Len(app)
                BY <1>1, <1>5
            <4>2. Len(init) = 1 /\ Len(app) = 0
                <5>1. \A a, b \in Nat : 1 = a + b /\ a # 0 => a = 1 /\ b = 0
                    OBVIOUS
                <5> QED BY <2>3, <4>1, <5>1
            <4>3. app = << >>
                BY <1>1, <4>2
            <4> QED BY <4>2, <4>3
        <3>2. DOMAIN init = {1} /\ DOMAIN app = {} /\ init[1] = cs[1]
            BY <1>1, <3>1
        <3> DEFINE f == [i \in DOMAIN app |-> Numa!Get(app[i], r)]
        <3>3. Sum(r) = 0
            <4>1. Sum(r) = Numa!SumFunction(f) /\ DOMAIN f = {}
                BY <3>2 DEF Sum
            <4> HIDE DEF f
            <4> QED BY <4>1, SameNumaSum, SumEmpty DEF Numa!SumFunction
        <3>4. {Sum(r)} \cup Inits(r) = {0, cs[1][r]}
            BY <2>1, <3>2, <3>3 DEF Inits
        <3>5. {0, cs[1][r]} \subseteq Nat /\ \A y \in {0, cs[1][r]} : cs[1][r] >= y
            BY <2>1
        <3> QED BY <3>4, <3>5, NumaMaxIs
    <2> QED BY <2>2, <2>3
<1>9. cs[1] = [r \in DOMAIN cs[1] |-> cs[1][r]]
    BY <1>4, <1>6
<1>10. eff = cs[1]
    BY <1>2, <1>7, <1>8, <1>9
<1> QED BY <1>6, <1>10 DEF eff, cs

\* A strategy's score of one container is the pod's.
LEMMA OneContainerScored ==
    ASSUME NEW strategy, NEW pod, NEW nodes, NUMAList(nodes),
           Len(Numa!Containers(pod)) = 1, DOMAIN Numa!Containers(pod) = {1},
           Numa!GetPodEffectiveRequest(pod) = Numa!Containers(pod)[1],
           NamedRequest(Numa!GetPodEffectiveRequest(pod))
    PROVE  Numa!containerScopeScore(strategy, pod, nodes) = Numa!podScopeScore(strategy, pod, nodes)
<1> DEFINE cs == Numa!Containers(pod)
           req == Numa!GetPodEffectiveRequest(pod)
           f == [i \in DOMAIN cs |-> Numa!scoreForEachNUMANode(strategy, cs[i], nodes)]
           score == Numa!scoreForEachNUMANode(strategy, req, nodes)
<1>1. DOMAIN cs = {1}
    OBVIOUS
<1>2. req = cs[1]
    OBVIOUS
<1>3. score \in Nat
    <2> HIDE DEF req
    <2> QED BY SmallestIsScored DEF req
<1>4. /\ Numa!containerScopeScore(strategy, pod, nodes) = Numa!SumFunction(f) \div Len(cs)
      /\ Numa!podScopeScore(strategy, pod, nodes) = score
    BY DEF Numa!containerScopeScore, Numa!podScopeScore
<1> HIDE DEF cs, req
<1>5. DOMAIN f = {1} /\ f[1] = score
    BY <1>1, <1>2
<1> HIDE DEF f, score
<1>6. Numa!SumFunction(f) = score
    BY <1>3, <1>5, NumaSumOfOne
<1>7. \A a \in Nat : a \div 1 = a
    OBVIOUS
<1>8. Len(cs) = 1
    BY DEF cs
<1> QED BY <1>3, <1>4, <1>6, <1>7, <1>8

-----------------------------------------------------------------------------
(* The problems of NodeResourceTopologyMatch *)

\* The names the lists of the inputs mention.
NamedResources == UNION {DOMAIN list : list \in RequestLists \cup AvailableLists}
NamedNodes == UNION {DOMAIN list : list \in DistanceLists}
Distances(I) == UNION {[D -> Nat] : D \in SUBSET I}

LEMMA InputsAreLists ==
    /\ RequestLists \subseteq Lists(NamedResources) /\ AvailableLists \subseteq Lists(NamedResources)
    /\ DistanceLists \subseteq Distances(NamedNodes)
<1>1. \A list \in RequestLists \cup AvailableLists :
         list \in [DOMAIN list -> Nat] /\ DOMAIN list \in SUBSET NamedResources
    <2> HIDE DEF NamedResources
    <2>1. \A list \in RequestLists \cup AvailableLists : DOMAIN list \in SUBSET NamedResources
        BY DEF NamedResources
    <2> QED BY <2>1, NUMAInputs
<1>2. \A list \in DistanceLists : list \in [DOMAIN list -> Nat] /\ DOMAIN list \in SUBSET NamedNodes
    <2>1. \A list \in DistanceLists : DOMAIN list \in SUBSET NamedNodes
        BY DEF NamedNodes
    <2> QED BY <2>1, NUMAInputs
<1>3. RequestLists \cup AvailableLists \subseteq Lists(NamedResources)
    BY <1>1, Zenon DEF Lists
<1>4. DistanceLists \subseteq Distances(NamedNodes)
    BY <1>2, Zenon DEF Distances
<1> QED BY <1>3, <1>4

LEMMA NUMAProblem ==
    ASSUME NEW nodes \in NUMALists, NEW pod \in NUMAPods
    PROVE  /\ nodes \in Seq([res : Lists(NamedResources), costs : Distances(NamedNodes)])
           /\ nodes # << >> /\ Len(nodes) <= Numa!highestNUMAID
           /\ pod \in [init : Seq(Lists(NamedResources)), app : Seq(Lists(NamedResources)),
                       qos : {"Guaranteed", "Burstable", "BestEffort"}]
<1>1. nodes \in Seq([res : AvailableLists, costs : DistanceLists])
    BY NUMAInputs
<1>2. [res : AvailableLists, costs : DistanceLists]
        \subseteq [res : Lists(NamedResources), costs : Distances(NamedNodes)]
    BY InputsAreLists
<1>3. \A S, T : S \subseteq T => \A s \in Seq(S) : s \in Seq(T)
    OBVIOUS
<1>4. nodes \in Seq([res : Lists(NamedResources), costs : Distances(NamedNodes)])
    BY <1>1, <1>2, <1>3, Zenon
<1>5. pod \in [init : Seq(RequestLists), app : Seq(RequestLists),
               qos : {"Guaranteed", "Burstable", "BestEffort"}]
    BY NUMAInputs
<1>6. Seq(RequestLists) \subseteq Seq(Lists(NamedResources))
    BY <1>3, InputsAreLists
<1>7. Len(nodes) \in 1 .. Numa!highestNUMAID
    BY NUMAInputs
<1>8. Len(nodes) >= 1 /\ Len(nodes) <= Numa!highestNUMAID
    <2>1. \A n \in 1 .. 8 : n >= 1 /\ n <= 8
        OBVIOUS
    <2> QED BY <1>7, <2>1, Zenon DEF Numa!highestNUMAID
<1>9. nodes # << >>
    BY <1>8
<1> QED BY <1>4, <1>5, <1>6, <1>8, <1>9

\* The request of a pod that is an input names some resources.
LEMMA PodsAsk ==
    ASSUME NEW nodes \in NUMALists, NEW pod \in NUMAPods
    PROVE  LET req == Numa!GetPodEffectiveRequest(pod)
           IN  NamedRequest(req) /\ req \in Lists(NamedResources)
<1> DEFINE cs == Numa!Containers(pod)
           n == Len(cs)
           req == Numa!GetPodEffectiveRequest(pod)
           names == [i \in 1 .. n |-> DOMAIN cs[i]]
           All == {DOMAIN cs[i] : i \in 1 .. n}
<1>1. pod \in [init : Seq(RequestLists), app : Seq(RequestLists),
               qos : {"Guaranteed", "Burstable", "BestEffort"}]
      /\ Len(pod.init) + Len(pod.app) > 0
    BY NUMAInputs
<1>2. pod.init \in Seq(RequestLists) /\ pod.app \in Seq(RequestLists) /\ cs = pod.init \o pod.app
    BY <1>1 DEF Numa!Containers
<1>3. cs \in Seq(RequestLists) /\ n = Len(pod.init) + Len(pod.app)
    BY <1>2
<1>4. DOMAIN req = Numa!Requested(pod) /\ Numa!Requested(pod) = UNION {DOMAIN cs[i] : i \in DOMAIN cs}
    BY DEF Numa!GetPodEffectiveRequest, Numa!Requested
<1> HIDE DEF cs
<1>5. n \in Nat /\ n > 0 /\ DOMAIN cs = 1 .. n /\ \A i \in 1 .. n : cs[i] \in RequestLists
    BY <1>1, <1>3
<1>6. 1 \in 1 .. n
    BY <1>5
<1> HIDE DEF n, req
<1>7. \A i \in 1 .. n : IsFiniteSet(DOMAIN cs[i]) /\ DOMAIN cs[i] # {}
    BY <1>5, NUMAInputs
<1>8. IsFiniteSet(UNION All)
    <2>1. names \in Surjection(1 .. n, All)
        <3>1. \A i \in 1 .. n : names[i] = DOMAIN cs[i] /\ names[i] \in All
            OBVIOUS
        <3>2. names \in [1 .. n -> All]
            OBVIOUS
        <3>3. \A t \in All : \E i \in 1 .. n : names[i] = t
            BY <3>1
        <3> HIDE DEF names, All
        <3> QED BY <3>2, <3>3 DEF Surjection
    <2>2. IsFiniteSet(1 .. n)
        BY <1>5, IndicesAreFinite
    <2>3. IsFiniteSet(All)
        <3> HIDE DEF names, All
        <3> QED BY <2>1, <2>2, FS_Surjection
    <2>4. \A T \in All : IsFiniteSet(T)
        BY <1>7
    <2> HIDE DEF All
    <2> QED BY <2>3, <2>4, FS_UNION
<1>9. DOMAIN req = UNION All
    BY <1>4, <1>5
<1>10. UNION All # {}
    BY <1>6, <1>7
<1>11. \A r \in DOMAIN req : req[r] \in Nat
    <2>1. PodRequests(pod)
        BY NUMAProblem, InputOfFilter
    <2> QED BY <1>4, <2>1, EffectiveRequest DEF req
<1>12. req \in Lists(NamedResources)
    <2>1. \A i \in 1 .. n : DOMAIN cs[i] \in SUBSET NamedResources
        BY <1>5 DEF NamedResources
    <2>2. DOMAIN req \in SUBSET NamedResources
        BY <1>9, <2>1
    <2>3. req \in [DOMAIN req -> Nat]
        <3>1. req = [r \in DOMAIN req |-> req[r]]
            BY DEF req, Numa!GetPodEffectiveRequest
        <3> QED BY <1>11, <3>1
    <2> QED BY <2>2, <2>3, Zenon DEF Lists
<1> QED BY <1>8, <1>9, <1>10, <1>11, <1>12 DEF NamedRequest, Quantities, req

\* What LeastNUMAIsLeast says of a problem.
ScoresIn(pod, nodes, nodeRes) ==
    LET req == Numa!GetPodEffectiveRequest(pod)
    IN  Numa!NUMAScoresSound(pod, nodes, nodeRes, req, Numa!numaNodesRequired(nodes, req, pod.qos))

LEMMA ScoresPicked ==
    ASSUME NEW nodes \in NUMALists, NEW pod \in NUMAPods, NEW nodeRes
    PROVE  ScoresIn(pod, nodes, nodeRes)
<1> DEFINE req == Numa!GetPodEffectiveRequest(pod)
           found == Numa!numaNodesRequired(nodes, req, pod.qos)
           R == NamedResources
           I == NamedNodes
           only == Numa!onlyNonNUMAResources(nodes, req)
           handled == Numa!singleNUMAPodLevelHandler(pod, nodes, nodeRes)
           listed == \A i \in DOMAIN nodes : DOMAIN req \subseteq DOMAIN nodes[i].res
<1>1. /\ nodes \in Seq([res : Lists(R), costs : UNION {[D -> Nat] : D \in SUBSET I}])
      /\ nodes # << >> /\ Len(nodes) <= Numa!highestNUMAID
      /\ pod \in [init : Seq(Lists(R)), app : Seq(Lists(R)), qos : {"Guaranteed", "Burstable", "BestEffort"}]
    BY NUMAProblem DEF Distances
<1>2. NUMANodes(nodes) /\ PodRequests(pod) /\ NUMAList(nodes)
    BY <1>1, InputOfFilter, InputOfScore
<1>3. /\ NamedRequest(req) /\ Quantities(req) /\ req \in Lists(R)
      /\ DOMAIN req = Numa!Requested(pod)
    BY PodsAsk DEF NamedRequest, Numa!GetPodEffectiveRequest
<1> HIDE DEF R, I
<1>4. ASSUME pod.qos = "Guaranteed"
      PROVE  /\ Numa!LeastFound(nodes, req, found)
             /\ Numa!leastNUMAPodScopeScore(pod, nodes) > 0 <=> found.comb # {} \/ only
             /\ handled /\ listed => Numa!Cardinality(found.comb) = 1
    <2>1. pod \in [init : Seq(Lists(R)), app : Seq(Lists(R)), qos : {"Guaranteed"}]
        BY <1>1, <1>4
    <2>2. Numa!LeastFound(nodes, req, found)
        <3> HIDE DEF req
        <3> QED BY <1>1, <1>3, <1>4, LeastIsFound
    <2>3. found.comb # {} <=> Numa!Fitting(nodes, req) # {}
        <3>1. {} \notin Numa!Fitting(nodes, req)
            BY DEF Numa!Fitting
        <3> HIDE DEF found
        <3> QED BY <2>2, <3>1 DEF Numa!LeastFound
    <2>4. /\ Numa!leastNUMAPodScopeScore(pod, nodes) > 0 <=> Numa!Fitting(nodes, req) # {} \/ only
          /\ handled /\ listed => Cardinality(found.comb) = 1
        BY <1>1, <2>1, ScoreAgreesWithFilter
    <2> HIDE DEF found, only, handled, listed
    <2> QED BY <2>2, <2>3, <2>4, SameCardinality
<1>5. ASSUME pod.qos = "Guaranteed", handled, listed, pod.init = << >>
      PROVE  Numa!leastNUMAContainerScopeScore(pod, nodes) >= Numa!normalizeScore(1, FALSE)
    <2>1. pod.app \in Seq(Lists(R))
        BY <1>1
    <2>2. << >> \o pod.app = pod.app
        BY <2>1
    <2>3. Numa!Containers(pod) = pod.app
        BY <1>5, <2>2 DEF Numa!Containers
    <2> QED BY <1>2, <1>3, <1>5, <2>3, WholeIsScored
<1>6. \A strategy \in {"LeastAllocated", "MostAllocated"} :
         Numa!podScopeScore(strategy, pod, nodes) = SmallestScore(strategy, req, nodes)
    <2> TAKE strategy \in {"LeastAllocated", "MostAllocated"}
    <2>1. Numa!podScopeScore(strategy, pod, nodes) = Numa!scoreForEachNUMANode(strategy, req, nodes)
        BY DEF Numa!podScopeScore
    <2> HIDE DEF req
    <2>2. NamedRequest(req) /\ NUMAList(nodes)
        BY <1>2, <1>3
    <2> QED BY <2>1, <2>2, SmallestIsScored
<1>7. ASSUME Len(Numa!Containers(pod)) = 1
      PROVE  Numa!containerScopeScore("LeastAllocated", pod, nodes) =
                 Numa!podScopeScore("LeastAllocated", pod, nodes)
    <2>1. NamedRequest(req) /\ NUMAList(nodes)
        BY <1>2, <1>3
    <2>2. DOMAIN Numa!Containers(pod) = {1} /\ req = Numa!Containers(pod)[1]
        BY <1>1, <1>7, RequestOfOne
    <2> QED BY <1>7, <2>1, <2>2, OneContainerScored
<1> HIDE DEF found
<1>8. Numa!NUMAScoresSound(pod, nodes, nodeRes, req, found)
    <2> HIDE DEF req
    <2> QED BY <1>4, <1>5, <1>6, <1>7, Zenon DEF Numa!NUMAScoresSound, SmallestScore
<1> QED BY <1>8 DEF ScoresIn, found

\* What the two properties say of a problem; its NUMA nodes are an input.
NUMAAnswered(p) ==
    /\ p.kind = "nodes" => p.nodes \in NUMALists
    /\ p.kind = "numa" => /\ Numa!FilterSound(p.pod, p.nodes, p.nodeRes)
                          /\ ScoresIn(p.pod, p.nodes, p.nodeRes)

LEMMA NUMAStep ==
    ASSUME NUMAAnswered(problem), [AlgorithmsNext]_problem
    PROVE  NUMAAnswered(problem')
<1>1. CASE UNCHANGED problem
    BY <1>1
<1>2. CASE PickNUMANodes
    BY <1>2 DEF PickNUMANodes, NUMAAnswered
<1>3. CASE PickNUMAPod
    <2>1. problem.nodes \in NUMALists
        BY <1>3 DEF PickNUMAPod, Of, NUMAAnswered
    <2>2. PICK pod \in NUMAPods :
             problem' = [kind |-> "numa", nodes |-> problem.nodes, nodeRes |-> problem.nodeRes, pod |-> pod]
        BY <1>3 DEF PickNUMAPod
    <2>3. /\ Numa!FilterSound(pod, problem.nodes, problem.nodeRes)
          /\ ScoresIn(pod, problem.nodes, problem.nodeRes)
        BY <2>1, NUMAProblem, FilterIsSound, ScoresPicked
    <2>4. /\ problem'.kind = "numa" /\ problem'.pod = pod
          /\ problem'.nodes = problem.nodes /\ problem'.nodeRes = problem.nodeRes
        BY <2>2
    <2> QED BY <2>3, <2>4 DEF NUMAAnswered
<1>4. CASE PickNetwork
    BY <1>4 DEF PickNetwork, NUMAAnswered
<1>5. CASE PickPodsOfGroup
    BY <1>5 DEF PickPodsOfGroup, NUMAAnswered
<1>6. CASE PickTopology
    BY <1>6 DEF PickTopology, NUMAAnswered
<1>7. CASE PickQueued
    BY <1>7 DEF PickQueued, NUMAAnswered
<1>8. CASE PickQueue
    BY <1>8 DEF PickQueue, NUMAAnswered
<1>9. CASE PickPacking
    BY <1>9 DEF PickPacking, NUMAAnswered
<1>10. CASE PickMeasured
    BY <1>10 DEF PickMeasured, NUMAAnswered
<1>11. CASE PickLimited
    BY <1>11 DEF PickLimited, NUMAAnswered
<1>12. CASE PickAllocatable
    BY <1>12 DEF PickAllocatable, NUMAAnswered
<1> QED BY <1>1, <1>2, <1>3, <1>4, <1>5, <1>6, <1>7, <1>8, <1>9, <1>10, <1>11, <1>12 DEF AlgorithmsNext

\* What the single-numa-node filter admits the kubelet can place, and the two scopes
\* agree: for any NUMA nodes and pods that are inputs.
THEOREM FilterIsPlaceable == AlgorithmsSpec => []FilterPlaceable
<1> DEFINE Inv == NUMAAnswered(problem)
<1>1. AlgorithmsInit => Inv
    BY DEF AlgorithmsInit, NUMAAnswered
<1>2. Inv /\ [AlgorithmsNext]_problem => Inv'
    BY NUMAStep
<1>3. Inv => FilterPlaceable
    BY Zenon DEF NUMAAnswered, FilterPlaceable, Of
<1> HIDE DEF Inv
<1> QED BY <1>1, <1>2, <1>3, PTL DEF AlgorithmsSpec

\* The NUMA scores are those an exhaustive search gives: the least NUMA nodes are the
\* fewest and nearest that have the request, the score agrees with the filter on what
\* fits one NUMA node, as a whole and container by container, and a strategy's score is
\* the smallest that is not zero: for any NUMA nodes and pods that are inputs.
THEOREM LeastNUMAIsFound == AlgorithmsSpec => []LeastNUMAIsLeast
<1> DEFINE Inv == NUMAAnswered(problem)
<1>1. AlgorithmsInit => Inv
    BY DEF AlgorithmsInit, NUMAAnswered
<1>2. Inv /\ [AlgorithmsNext]_problem => Inv'
    BY NUMAStep
<1>3. Inv => LeastNUMAIsLeast
    BY Zenon DEF NUMAAnswered, LeastNUMAIsLeast, ScoresIn, Of
<1> HIDE DEF Inv
<1> QED BY <1>1, <1>2, <1>3, PTL DEF AlgorithmsSpec
=============================================================================
