---------------------- MODULE SchedulerCaches_proofs ----------------------
(***************************************************************************)
(* The reservations of the DiscardReserved cache and the caches of SySched *)
(* and Trimaran, for any pods, nodes, names, calls and intervals.  Then    *)
(* the stateless plugins: the scores of Trimaran, NodeResourcesAllocatable *)
(* and PodState, the searches and costs of the network-aware plugins and   *)
(* the queue orders, for any inputs; and with these the problems of        *)
(* Algorithms about them.                                                  *)
(***************************************************************************)
EXTENDS SchedulerCaches, Algorithms, Sums, SequenceTheorems

-----------------------------------------------------------------------------
(* DiscardReserved *)

\* The pods on their way to a node, and those of them that are reserved there.
OnWay(p) == step[p] \in {"filtered", "reserved", "bound"}
Held(p) == step[p] \in {"reserved", "bound"}

ReservationTypes ==
    /\ reservationMap \in [Nodes -> SUBSET Pods]
    /\ step \in [Pods -> {"queued", "filtered", "reserved", "bound", "done"}]
    /\ target \in [Pods -> Nodes \cup {None}]

\* The reservations of a node are the pods between Reserve and the end of their
\* binding cycle there; no other pod is on its way to the node of one that is.
Exclusive ==
    /\ ReservationTypes
    /\ \A p \in Pods : OnWay(p) => target[p] \in Nodes
    /\ \A n \in Nodes : reservationMap[n] = {p \in Pods : Held(p) /\ target[p] = n}
    /\ \A p, q \in Pods : OnWay(p) /\ OnWay(q) /\ target[p] = target[q] => p = q

LEMMA ExclusiveInit == InitDiscardReserved => Exclusive
<1> SUFFICES ASSUME InitDiscardReserved PROVE Exclusive
    OBVIOUS
<1>1. ReservationTypes
    BY DEF InitDiscardReserved, ReservationTypes
<1>2. \A p \in Pods : ~ OnWay(p) /\ ~ Held(p)
    BY DEF InitDiscardReserved, OnWay, Held
<1>3. \A n \in Nodes : reservationMap[n] = {}
    BY DEF InitDiscardReserved
<1> QED
    BY <1>1, <1>2, <1>3 DEF Exclusive

LEMMA ExclusiveStays ==
    ASSUME Exclusive, UNCHANGED drVars
    PROVE  Exclusive'
BY DEF Exclusive, ReservationTypes, OnWay, Held, drVars

\* One pod moves on: nothing of the others changes.
LEMMA ExclusiveCycle ==
    ASSUME Exclusive, NEW p \in Pods, DiscardReservedStep(p)
    PROVE  Exclusive'
<1>1. CASE \E n \in Nodes : Filter(p, n)
    <2>1. PICK n \in Nodes : Filter(p, n)
        BY <1>1
    <2>2. /\ step' = [step EXCEPT ![p] = "filtered"]
          /\ target' = [target EXCEPT ![p] = n]
          /\ reservationMap' = reservationMap
        BY <2>1 DEF Filter, api
    <2>3. ReservationTypes'
        BY <2>2 DEF Exclusive, ReservationTypes
    <2>4. step'[p] = "filtered" /\ target'[p] = n
        BY <2>2 DEF Exclusive, ReservationTypes
    <2>5. \A q \in Pods \ {p} : step'[q] = step[q] /\ target'[q] = target[q]
        BY <2>2 DEF Exclusive, ReservationTypes
    <2>6. \A q \in Pods : OnWay(q) => Held(q) /\ target[q] # n
        BY <2>1 DEF Filter, GetCachedNRTCopy, OnWay, Held, Exclusive
    <2>7. ~ Held(p)
        BY <2>1 DEF Filter, Held
    <2> QED
        BY <2>2, <2>3, <2>4, <2>5, <2>6, <2>7 DEF Exclusive, OnWay, Held
<1>2. CASE ReserveNodeResources(p)
    <2>1. /\ step[p] = "filtered" /\ target' = target
          /\ step' = [step EXCEPT ![p] = "reserved"]
          /\ reservationMap' = [reservationMap EXCEPT ![target[p]] = @ \cup {p}]
        BY <1>2 DEF ReserveNodeResources
    <2>2. target[p] \in Nodes
        BY <2>1 DEF Exclusive, OnWay
    <2>3. ReservationTypes'
        BY <2>1, <2>2 DEF Exclusive, ReservationTypes
    <2>4. step'[p] = "reserved" /\ \A q \in Pods \ {p} : step'[q] = step[q]
        BY <2>1 DEF Exclusive, ReservationTypes
    <2>5. \A n \in Nodes : reservationMap'[n] = IF n = target[p] THEN reservationMap[n] \cup {p}
                                                                 ELSE reservationMap[n]
        BY <2>1 DEF Exclusive, ReservationTypes
    <2> QED
        BY <2>1, <2>2, <2>3, <2>4, <2>5 DEF Exclusive, OnWay, Held
<1>3. CASE Bind(p)
    <2>1. /\ step[p] = "reserved" /\ target' = target /\ reservationMap' = reservationMap
          /\ step' = [step EXCEPT ![p] = "bound"]
        BY <1>3 DEF Bind
    <2>2. ReservationTypes'
        BY <2>1 DEF Exclusive, ReservationTypes
    <2>3. step'[p] = "bound" /\ \A q \in Pods \ {p} : step'[q] = step[q]
        BY <2>1 DEF Exclusive, ReservationTypes
    <2> QED
        BY <2>1, <2>2, <2>3 DEF Exclusive, OnWay, Held
<1>4. CASE PostBind(p) \/ UnreserveNodeResources(p)
    <2>1. PICK x \in {"done", "queued"} : step' = [step EXCEPT ![p] = x]
        BY <1>4 DEF PostBind, UnreserveNodeResources
    <2>2. /\ step[p] \in {"bound", "reserved"} /\ target' = target
          /\ reservationMap' = [reservationMap EXCEPT ![target[p]] = @ \ {p}]
        BY <1>4 DEF PostBind, UnreserveNodeResources, removeReservationForNode
    <2>3. target[p] \in Nodes
        BY <2>2 DEF Exclusive, OnWay
    <2>4. ReservationTypes'
        BY <2>1, <2>2, <2>3 DEF Exclusive, ReservationTypes
    <2>5. step'[p] = x /\ \A q \in Pods \ {p} : step'[q] = step[q]
        BY <2>1 DEF Exclusive, ReservationTypes
    <2>6. \A n \in Nodes : reservationMap'[n] = IF n = target[p] THEN reservationMap[n] \ {p}
                                                                 ELSE reservationMap[n]
        BY <2>2 DEF Exclusive, ReservationTypes
    <2> QED
        BY <2>2, <2>3, <2>4, <2>5, <2>6 DEF Exclusive, OnWay, Held
<1> QED
    BY <1>1, <1>2, <1>3, <1>4 DEF DiscardReservedStep

LEMMA ExclusiveStep == Exclusive /\ [Next]_vars => Exclusive'
<1> SUFFICES ASSUME Exclusive, [Next]_vars
             PROVE  Exclusive'
    OBVIOUS
<1>1. CASE TrimaranRuns
    BY <1>1, ExclusiveStays DEF TrimaranRuns
<1>2. CASE Restart
    <2> DEFINE Fresh == /\ reservationMap' = [n \in Nodes |-> {}]
                        /\ step' = [p \in Pods |-> "queued"]
                        /\ target' = [p \in Pods |-> None]
    <2>1. Fresh
        BY <1>2 DEF Restart, NewDiscardReserved
    <2>2. ReservationTypes'
        BY <2>1 DEF ReservationTypes
    <2>3. \A p \in Pods : ~ OnWay(p)' /\ ~ Held(p)'
        BY <2>1 DEF OnWay, Held
    <2>4. \A n \in Nodes : reservationMap'[n] = {}
        BY <2>1
    <2> QED
        BY <2>2, <2>3, <2>4 DEF Exclusive
<1>3. ASSUME NEW p \in Pods, Cluster(p)
      PROVE  Exclusive'
    BY <1>3, ExclusiveStays DEF Cluster
<1>4. ASSUME NEW p \in Pods, SySchedRuns(p)
      PROVE  Exclusive'
    BY <1>4, ExclusiveStays DEF SySchedRuns
<1>5. ASSUME NEW p \in Pods, CycleRuns(p)
      PROVE  Exclusive'
    BY <1>5, ExclusiveCycle DEF CycleRuns
<1>6. CASE UNCHANGED vars
    BY <1>6, ExclusiveStays DEF vars
<1> QED
    BY <1>1, <1>2, <1>3, <1>4, <1>5, <1>6 DEF Next

LEMMA ExclusiveIsOne == Exclusive => OneOnItsWay
<1> SUFFICES ASSUME Exclusive, NEW n \in Nodes
             PROVE  LET way == {p \in Pods : target[p] = n /\ step[p] \in {"filtered", "reserved", "bound"}}
                    IN  Cardinality(way) <= 1 /\ reservationMap[n] \subseteq way
    BY DEF OneOnItsWay
<1> DEFINE way == {p \in Pods : target[p] = n /\ step[p] \in {"filtered", "reserved", "bound"}}
<1>1. reservationMap[n] \subseteq way
    BY DEF Exclusive, Held
<1>2. \A p, q \in way : p = q
    BY DEF Exclusive, OnWay
<1>3. Cardinality(way) <= 1
    <2> HIDE DEF way
    <2>1. CASE way = {}
        BY <2>1, FS_EmptySet
    <2>2. CASE way # {}
        <3>1. PICK p : p \in way
            BY <2>2
        <3>2. way = {p}
            BY <3>1, <1>2
        <3> QED BY <3>2, FS_Singleton
    <2> QED BY <2>1, <2>2
<1> QED
    BY <1>1, <1>3

\* However the cycles, binds, deletions and restarts of any number of pods and
\* nodes interleave, the NRT of a node decides about a pod only while no other
\* pod is between its filter and the end of its binding cycle there, and a
\* closed node has such a pod.
THEOREM OneOnItsWayHolds == Spec => []OneOnItsWay
<1>1. Init => Exclusive
    BY ExclusiveInit DEF Init
<1> QED
    BY <1>1, ExclusiveStep, ExclusiveIsOne, PTL DEF Spec

-----------------------------------------------------------------------------
(* The versions of a pod and the listeners *)

\* A pod has a node from its assignment on; a cycle before Bind has a pod that
\* is not assigned.
Placed ==
    /\ version \in [Pods -> Unassigned .. Finished]
    /\ node \in [Pods -> Nodes \cup {None}]
    /\ gone \subseteq Pods
    /\ \A p \in Pods : version[p] = Unassigned <=> node[p] = None
    /\ \A p \in Pods : step[p] \in {"filtered", "reserved"} => version[p] = Unassigned

\* What a step may do to the pods: their versions go up, deleted ones stay, and
\* the node of an assigned pod stays.
Onward ==
    /\ gone \subseteq gone'
    /\ \A p \in Pods : /\ version[p] <= version'[p]
                       /\ p \in gone => version'[p] = version[p]
                       /\ version[p] # Unassigned => node'[p] = node[p]

\* A listener is behind the API server, and has heard all of a pod whose
\* deletion it was told of.
Listener(l) ==
    /\ l \in [seen : [Pods -> Unassigned .. Finished], added : SUBSET Pods, deleted : SUBSET gone]
    /\ \A p \in Pods : l.seen[p] <= version[p]
    /\ \A p \in l.deleted : p \notin l.added /\ l.seen[p] = version[p]

LEMMA PlacedInit == Init => Placed /\ Listener(NewListener)
BY DEF Init, InitEvents, InitDiscardReserved, Placed, Listener, NewListener, Unassigned, Finished

LEMMA ApiStays ==
    ASSUME Placed, UNCHANGED <<version, node, gone>>
    PROVE  Onward
BY DEF Placed, Onward, Unassigned, Finished

LEMMA PlacedStep ==
    ASSUME Exclusive, Placed, [Next]_vars
    PROVE  Placed' /\ Onward
<1>1. ASSUME UNCHANGED <<version, node, gone>>,
             \A p \in Pods : step'[p] \in {"filtered", "reserved"} =>
                                step[p] \in {"filtered", "reserved"} \/ version[p] = Unassigned
      PROVE  Placed' /\ Onward
    BY <1>1, ApiStays DEF Placed
<1>2. CASE TrimaranRuns
    BY <1>1, <1>2 DEF TrimaranRuns, TrimaranStep, TrimaranEvent, cleanupCache, updateMetrics, Tick,
          OnAdd, OnUpdate, OnDelete, drVars, api
<1>3. CASE Restart
    BY <1>1, <1>3 DEF Restart, NewDiscardReserved
<1>4. ASSUME NEW p \in Pods, Cluster(p)
      PROVE  Placed' /\ Onward
    <2>1. step' = step
        BY <1>4 DEF Cluster, drVars
    <2>2. CASE Report(p)
        BY <2>1, <2>2 DEF Report, Placed, Onward, Unassigned, Assigned, Running, Finished
    <2>3. CASE Delete(p)
        BY <2>1, <2>3 DEF Delete, Placed, Onward, Unassigned, Finished
    <2> QED
        BY <1>4, <2>2, <2>3 DEF Cluster
<1>5. ASSUME NEW p \in Pods, SySchedRuns(p)
      PROVE  Placed' /\ Onward
    BY <1>1, <1>5 DEF SySchedRuns, SySchedEvent, podAdded, podUpdated, podUpdatedSkips, podDeleted, drVars
<1>6. ASSUME NEW p \in Pods, CycleRuns(p)
      PROVE  Placed' /\ Onward
    <2>1. CASE \E n \in Nodes : Filter(p, n)
        BY <1>1, <2>1 DEF Filter, api, Exclusive, ReservationTypes
    <2>2. CASE ReserveNodeResources(p) \/ PostBind(p) \/ UnreserveNodeResources(p)
        BY <1>1, <2>2 DEF ReserveNodeResources, PostBind, UnreserveNodeResources, api, Exclusive,
              ReservationTypes
    <2>3. CASE Bind(p)
        <3>1. target[p] \in Nodes /\ version[p] = Unassigned
            BY <2>3 DEF Bind, Exclusive, OnWay, Placed
        <3>2. \A q \in Pods \ {p} : /\ step'[q] = step[q] /\ version'[q] = version[q]
                                    /\ node'[q] = node[q]
            BY <2>3 DEF Bind, Exclusive, ReservationTypes, Placed
        <3>3. step'[p] = "bound" /\ version'[p] = Assigned /\ node'[p] = target[p]
            BY <2>3 DEF Bind, Exclusive, ReservationTypes, Placed
        <3>4. gone' = gone /\ p \notin gone
            BY <2>3 DEF Bind
        <3>5. /\ version' \in [Pods -> Unassigned .. Finished]
              /\ node' \in [Pods -> Nodes \cup {None}]
            BY <2>3, <3>1 DEF Bind, Placed, Unassigned, Assigned, Finished
        <3> QED
            BY <3>1, <3>2, <3>3, <3>4, <3>5, NoneAssumption
            DEF Placed, Onward, Unassigned, Assigned, Finished
    <2> QED
        BY <1>6, <2>1, <2>2, <2>3 DEF CycleRuns, DiscardReservedStep
<1>7. CASE UNCHANGED vars
    BY <1>1, <1>7 DEF vars, api, drVars
<1> QED
    BY <1>2, <1>3, <1>4, <1>5, <1>6, <1>7 DEF Next

\* A listener that is told nothing stays behind.
LEMMA ListenerStays ==
    ASSUME Placed, Placed', Onward, NEW l, Listener(l)
    PROVE  /\ \A p \in Pods : l.seen[p] <= version'[p]
           /\ \A p \in l.deleted : p \in gone' /\ l.seen[p] = version'[p]
BY DEF Placed, Onward, Listener, Unassigned, Finished

-----------------------------------------------------------------------------
(* SySched *)

CachedOn(n) == IF HostToPods[n] = None THEN {} ELSE HostToPods[n]
CallsOf(S) == UNION {getSyscalls(q, ReadAll) : q \in S}

CacheTypes ==
    /\ HostToPods \in [Nodes -> (SUBSET Pods) \cup {None}]
    /\ HostSyscalls \in [Nodes -> SUBSET AllCalls]

\* The union of a host is that of the pods cached, unless a read failed.
UnionsRight == \A n \in Nodes : n \notin misread => HostSyscalls[n] = CallsOf(CachedOn(n))

\* The caches are those of the pods the listener was told of.
ToldAndCached ==
    \A n \in Nodes :
        /\ CachedOn(n) \subseteq ToldOf(n)
        /\ \A p \in ToldRunning(n) \ skipped : SameName(p, Pods) = {p} => p \in CachedOn(n)

SySchedInv == Listener(syEvents) /\ CacheTypes /\ UnionsRight /\ ToldAndCached

LEMMA CallsTyped ==
    ASSUME NEW p \in Pods, NEW failed
    PROVE  getSyscalls(p, failed) \in SUBSET AllCalls
BY DEF getSyscalls, AllCalls

LEMMA CachedTyped ==
    ASSUME CacheTypes, NEW n \in Nodes
    PROVE  CachedOn(n) \in SUBSET Pods
<1>1. HostToPods[n] \in (SUBSET Pods) \cup {None}
    BY DEF CacheTypes
<1>2. CASE HostToPods[n] = None
    BY <1>2 DEF CachedOn
<1>3. CASE HostToPods[n] # None
    BY <1>1, <1>3 DEF CachedOn
<1> QED BY <1>2, <1>3

LEMMA UnionsStay ==
    ASSUME CacheTypes, UnionsRight, UNCHANGED <<HostToPods, HostSyscalls, misread>>
    PROVE  CacheTypes' /\ UnionsRight'
BY DEF CacheTypes, UnionsRight, CallsOf, CachedOn, getSyscalls

\* addPod puts the pod, if anything, into the cache of its node, and does so
\* when its name is its own.
LEMMA AddPodCaches ==
    ASSUME CacheTypes, UnionsRight, NEW p \in Pods, node[p] \in Nodes, addPod(p)
    PROVE  /\ CacheTypes' /\ UnionsRight'
           /\ \A n \in Nodes : /\ CachedOn(n) \subseteq CachedOn(n)'
                               /\ \A q \in CachedOn(n)' \ CachedOn(n) : q = p /\ n = node[p]
           /\ SameName(p, Pods) = {p} => \A n \in Nodes : n = node[p] => p \in CachedOn(n)'
<1>h. PICK h \in Nodes : h = node[p]
    OBVIOUS
<1>0. \A n \in Nodes : CachedOn(n) \in SUBSET Pods
    BY CachedTyped
<1>1. CASE SameName(p, CachedOn(h)) # {}
    <2>1. UNCHANGED <<HostToPods, HostSyscalls, misread>>
        BY <1>1, <1>h DEF addPod, CachedOn
    <2>2. SameName(p, Pods) = {p} => p \in CachedOn(h)
        BY <1>0, <1>1 DEF SameName
    <2> QED
        BY <1>h, <2>1, <2>2, UnionsStay DEF CachedOn
<1>2. CASE SameName(p, CachedOn(h)) = {}
    <2>1. PICK failed \in SUBSET {p} :
              /\ HostToPods' = [HostToPods EXCEPT ![h] = CachedOn(h) \cup {p}]
              /\ HostSyscalls' = [HostSyscalls EXCEPT ![h] = @ \cup getSyscalls(p, failed)]
              /\ misread' = IF failed = {} THEN misread ELSE misread \cup {h}
        BY <1>2, <1>h DEF addPod, CachedOn
    <2>2. getSyscalls(p, failed) \in SUBSET AllCalls
        BY CallsTyped
    <2>3. CacheTypes'
        BY <1>0, <2>1, <2>2 DEF CacheTypes
    <2>4. CachedOn(h)' = CachedOn(h) \cup {p}
        <3>1. CachedOn(h) \cup {p} # None
            BY <1>0, NoneAssumption
        <3> QED
            BY <2>1, <3>1 DEF CacheTypes, CachedOn
    <2>5. \A n \in Nodes \ {h} : CachedOn(n)' = CachedOn(n) /\ HostSyscalls'[n] = HostSyscalls[n]
        BY <2>1 DEF CacheTypes, CachedOn
    <2>6. HostSyscalls'[h] = HostSyscalls[h] \cup getSyscalls(p, failed)
        BY <2>1 DEF CacheTypes
    <2>7. ASSUME NEW n \in Nodes, n \notin misread'
          PROVE  HostSyscalls'[n] = CallsOf(CachedOn(n))'
        <3>1. n \notin misread
            BY <2>1, <2>7
        <3>2. HostSyscalls[n] = CallsOf(CachedOn(n))
            BY <3>1 DEF UnionsRight
        <3>3. CASE n # h
            BY <2>5, <3>2, <3>3 DEF CallsOf, getSyscalls
        <3>4. CASE n = h
            <4>1. failed = {}
                BY <2>1, <2>7, <3>4
            <4>2. CallsOf(CachedOn(h) \cup {p}) = CallsOf(CachedOn(h)) \cup getSyscalls(p, ReadAll)
                BY DEF CallsOf
            <4> QED
                BY <2>4, <2>6, <3>2, <3>4, <4>1, <4>2 DEF CallsOf, ReadAll, getSyscalls
        <3> QED BY <3>3, <3>4
    <2> QED
        BY <1>h, <2>3, <2>4, <2>5, <2>7 DEF UnionsRight
<1> QED
    BY <1>1, <1>2

\* removePod takes the pod from the cache, and others only if they have its
\* name.
LEMMA RemovePodForgets ==
    ASSUME CacheTypes, UnionsRight, NEW p \in Pods, node[p] \in Nodes \cup {None}, removePod(p),
           \A n \in Nodes : p \in CachedOn(n) => n = node[p]
    PROVE  /\ CacheTypes' /\ UnionsRight'
           /\ \A n \in Nodes : /\ CachedOn(n)' \subseteq CachedOn(n) \ {p}
                               /\ \A q \in CachedOn(n) : NameOf[q] # NameOf[p] => q \in CachedOn(n)'
<1>h. PICK h \in Nodes \cup {None} : h = node[p]
    OBVIOUS
<1>0. \A n \in Nodes : CachedOn(n) \in SUBSET Pods
    BY CachedTyped
<1>1. CASE h = None \/ SameName(p, CachedOn(h)) = {}
    <2>1. UNCHANGED <<HostToPods, HostSyscalls, misread>>
        BY <1>1, <1>h DEF removePod, CachedOn
    <2>2. \A n \in Nodes : p \notin CachedOn(n)
        BY <1>1, <1>h, NoneAssumption DEF SameName
    <2> QED
        BY <1>h, <2>1, <2>2, UnionsStay DEF CachedOn
<1>2. CASE h # None /\ SameName(p, CachedOn(h)) # {}
    <2> DEFINE left == CachedOn(h) \ SameName(p, CachedOn(h))
    <2>0. h \in Nodes /\ HostToPods[h] # None
        BY <1>2 DEF CachedOn, SameName
    <2>1. PICK failed \in SUBSET left :
              /\ HostToPods' = [HostToPods EXCEPT ![h] = left]
              /\ HostSyscalls' = [HostSyscalls EXCEPT
                                    ![h] = UNION {getSyscalls(q, failed) : q \in left}]
              /\ misread' = IF failed = {} THEN misread \ {h} ELSE misread \cup {h}
        BY <1>2, <1>h, <2>0 DEF removePod, CachedOn
    <2>2. left \in SUBSET Pods /\ left # None
        BY <1>0, <2>0, NoneAssumption
    <2>3. CacheTypes'
        <3>1. UNION {getSyscalls(q, failed) : q \in left} \in SUBSET AllCalls
            BY <2>2, CallsTyped
        <3> QED
            BY <2>1, <2>2, <3>1 DEF CacheTypes
    <2>4. CachedOn(h)' = left
        BY <2>0, <2>1, <2>2 DEF CacheTypes, CachedOn
    <2>5. \A n \in Nodes \ {h} : CachedOn(n)' = CachedOn(n) /\ HostSyscalls'[n] = HostSyscalls[n]
        BY <2>1 DEF CacheTypes, CachedOn
    <2>6. HostSyscalls'[h] = UNION {getSyscalls(q, failed) : q \in left}
        BY <2>0, <2>1 DEF CacheTypes
    <2>7. ASSUME NEW n \in Nodes, n \notin misread'
          PROVE  HostSyscalls'[n] = CallsOf(CachedOn(n))'
        <3>1. CASE n # h
            <4>1. HostSyscalls[n] = CallsOf(CachedOn(n))
                BY <2>1, <2>7, <3>1 DEF UnionsRight
            <4> QED
                BY <2>5, <3>1, <4>1 DEF CallsOf, getSyscalls
        <3>2. CASE n = h
            <4>1. failed = ReadAll
                BY <2>1, <2>7, <3>2 DEF ReadAll
            <4> QED
                BY <2>4, <2>6, <3>2, <4>1 DEF CallsOf, getSyscalls
        <3> QED BY <3>1, <3>2
    <2>8. p \notin left /\ \A q \in CachedOn(h) : NameOf[q] # NameOf[p] => q \in left
        BY DEF SameName
    <2>9. \A n \in Nodes \ {h} : p \notin CachedOn(n)
        BY <1>h
    <2> QED
        BY <2>3, <2>4, <2>5, <2>7, <2>8, <2>9 DEF UnionsRight
<1> QED
    BY <1>1, <1>2

\* New caches are empty, and nothing was announced.
LEMMA NewCachesRight ==
    ASSUME HostToPods = [n \in Nodes |-> None], HostSyscalls = [n \in Nodes |-> {}],
           syEvents.added = Pods \ gone, syEvents.deleted = gone
    PROVE  CacheTypes /\ UnionsRight /\ ToldAndCached
<1>1. \A n \in Nodes : CachedOn(n) = {} /\ HostSyscalls[n] = {}
    BY DEF CachedOn
<1>2. CacheTypes
    BY DEF CacheTypes
<1>3. UnionsRight
    BY <1>1 DEF UnionsRight, CallsOf
<1>4. \A n \in Nodes : ToldOf(n) = {}
    BY DEF ToldOf
<1> QED
    BY <1>1, <1>2, <1>3, <1>4 DEF ToldAndCached, ToldRunning

\* What goes on in the cluster does not touch what was announced.
LEMMA SySchedStays ==
    ASSUME SySchedInv, Placed, Placed', Onward, UNCHANGED syVars
    PROVE  SySchedInv'
<1>1. UNCHANGED <<HostToPods, HostSyscalls, misread, skipped, syEvents>>
    BY DEF syVars
<1>2. Listener(syEvents)'
    BY <1>1, ListenerStays DEF SySchedInv, Listener
<1>3. CacheTypes' /\ UnionsRight'
    BY <1>1, UnionsStay DEF SySchedInv
<1>4. \A n \in Nodes : CachedOn(n)' = CachedOn(n)
    BY <1>1 DEF CachedOn
<1>5. ASSUME NEW n \in Nodes
      PROVE  ToldOf(n) \subseteq ToldOf(n)' /\ ToldRunning(n)' \subseteq ToldRunning(n)
    <2>1. \A p \in Pods : node[p] = n => node'[p] = n
        BY NoneAssumption DEF Placed, Onward
    <2>2. \A p \in Pods : syEvents.seen[p] = Running => node'[p] = node[p]
        BY DEF SySchedInv, Listener, Placed, Onward, Running, Unassigned, Finished
    <2> QED
        BY <1>1, <2>1, <2>2 DEF ToldOf, ToldRunning
<1>6. ToldAndCached'
    BY <1>1, <1>4, <1>5 DEF SySchedInv, ToldAndCached, SameName
<1> QED
    BY <1>2, <1>3, <1>6 DEF SySchedInv

\* Each event leaves the caches those of the pods announced.
LEMMA SySchedEvents ==
    ASSUME SySchedInv, Placed, NEW p \in Pods, SySchedEvent(p)
    PROVE  SySchedInv'
<1>0. /\ syEvents \in [seen : [Pods -> Unassigned .. Finished], added : SUBSET Pods, deleted : SUBSET gone]
      /\ syEvents.seen \in [Pods -> Unassigned .. Finished]
      /\ syEvents.added \subseteq Pods /\ syEvents.deleted \subseteq gone
      /\ \A q \in Pods : syEvents.seen[q] <= version[q]
      /\ \A q \in syEvents.deleted : q \notin syEvents.added /\ syEvents.seen[q] = version[q]
    BY DEF SySchedInv, Listener
<1>1. UNCHANGED <<version, node, gone>>
    BY DEF SySchedEvent, podAdded, podUpdated, podUpdatedSkips, podDeleted
<1>2. \A q \in Pods : syEvents.seen[q] # Unassigned => node[q] \in Nodes
    BY <1>0 DEF Placed, Unassigned, Finished
<1>3. CASE podAdded(p)
    <2>1. /\ p \in syEvents.added /\ skipped' = skipped
          /\ syEvents' = [syEvents EXCEPT !.added = @ \ {p}]
        BY <1>3 DEF podAdded, NextAdded
    <2>2. /\ syEvents'.added = syEvents.added \ {p}
          /\ syEvents'.seen = syEvents.seen /\ syEvents'.deleted = syEvents.deleted
        BY <1>0, <2>1
    <2>3. Listener(syEvents)'
        <3>1. syEvents' \in [seen : [Pods -> Unassigned .. Finished], added : SUBSET Pods,
                          deleted : SUBSET gone']
            BY <1>0, <1>1, <2>1
        <3> QED
            BY <1>0, <1>1, <2>2, <3>1 DEF Listener
    <2>4. \A n \in Nodes : ToldOf(n)' = ToldOf(n) \cup {q \in {p} : node[q] = n}
        BY <1>0, <1>1, <2>1, <2>2 DEF ToldOf
    <2>5. CASE syEvents.seen[p] = Running
        <3>1. addPod(p) /\ node[p] \in Nodes
            BY <1>2, <1>3, <2>5 DEF podAdded, Running, Unassigned
        <3> QED
            BY <1>1, <2>1, <2>2, <2>3, <2>4, <3>1, AddPodCaches
            DEF SySchedInv, ToldAndCached, ToldRunning, SameName
    <2>6. CASE syEvents.seen[p] # Running
        <3>1. UNCHANGED <<HostToPods, HostSyscalls, misread>>
            BY <1>3, <2>6 DEF podAdded
        <3>2. \A n \in Nodes : CachedOn(n)' = CachedOn(n)
            BY <3>1 DEF CachedOn
        <3>3. \A n \in Nodes : ToldRunning(n)' = ToldRunning(n)
            BY <2>2, <2>4, <2>6 DEF ToldRunning
        <3>4. ToldAndCached'
            BY <2>1, <2>4, <3>2, <3>3 DEF SySchedInv, ToldAndCached, SameName
        <3> QED
            BY <2>3, <3>1, <3>4, UnionsStay DEF SySchedInv
    <2> QED BY <2>5, <2>6
<1>4. CASE podUpdated(p)
    <2>1. /\ p \notin syEvents.added /\ syEvents.seen[p] < version[p] /\ skipped' = skipped
          /\ syEvents' = [syEvents EXCEPT !.seen[p] = @ + 1]
        BY <1>0, <1>4 DEF podUpdated, NextUpdated, Placed, Unassigned, Finished
    <2>2. p \notin syEvents.deleted
        BY <1>0, <2>1 DEF Placed, Unassigned, Finished
    <2>3. /\ syEvents'.added = syEvents.added /\ syEvents'.deleted = syEvents.deleted
          /\ syEvents'.seen = [syEvents.seen EXCEPT ![p] = @ + 1]
        BY <1>0, <2>1
    <2>4. /\ syEvents'.seen[p] = syEvents.seen[p] + 1
          /\ \A q \in Pods \ {p} : syEvents'.seen[q] = syEvents.seen[q]
        BY <1>0, <2>3
    <2>5. Listener(syEvents)'
        <3>1. syEvents'.seen \in [Pods -> Unassigned .. Finished]
            BY <1>0, <2>1, <2>3 DEF Placed, Unassigned, Finished
        <3>2. \A q \in Pods : syEvents'.seen[q] <= version[q]
            BY <1>0, <2>1, <2>4 DEF Placed, Unassigned, Finished
        <3>3. \A q \in syEvents.deleted : q \in Pods /\ q # p
            BY <1>0, <2>2 DEF Placed
        <3>4. syEvents' \in [seen : [Pods -> Unassigned .. Finished], added : SUBSET Pods,
                          deleted : SUBSET gone']
            BY <1>0, <1>1, <2>1, <2>3, <3>1
        <3> QED
            BY <1>0, <1>1, <2>3, <2>4, <3>2, <3>3, <3>4 DEF Listener
    <2>6. \A n \in Nodes : ToldOf(n)' = ToldOf(n)
        BY <1>1, <2>3 DEF ToldOf
    <2>7. CASE syEvents.seen[p] = WithHostIP
        <3>1. addPod(p) /\ node[p] \in Nodes
            BY <1>2, <1>4, <2>7 DEF podUpdated, WithHostIP, Unassigned
        <3>2. \A n \in Nodes : n = node[p] => p \in ToldOf(n)
            BY <2>1, <2>2 DEF ToldOf
        <3>3. \A n \in Nodes : ToldRunning(n)' \subseteq ToldRunning(n) \cup {q \in {p} : node[q] = n}
            BY <1>1, <2>4, <2>6 DEF ToldRunning, ToldOf
        <3>4. /\ CacheTypes' /\ UnionsRight'
              /\ \A n \in Nodes : /\ CachedOn(n) \subseteq CachedOn(n)'
                                  /\ \A q \in CachedOn(n)' \ CachedOn(n) : q = p /\ n = node[p]
              /\ SameName(p, Pods) = {p} => \A n \in Nodes : n = node[p] => p \in CachedOn(n)'
            BY <3>1, AddPodCaches DEF SySchedInv
        <3>5. ToldAndCached'
            BY <2>1, <2>6, <3>2, <3>3, <3>4 DEF SySchedInv, ToldAndCached, SameName
        <3> QED
            BY <2>5, <3>4, <3>5 DEF SySchedInv
    <2>8. CASE syEvents.seen[p] # WithHostIP
        <3>1. UNCHANGED <<HostToPods, HostSyscalls, misread>>
            BY <1>4, <2>8 DEF podUpdated
        <3>2. \A n \in Nodes : CachedOn(n)' = CachedOn(n)
            BY <3>1 DEF CachedOn
        <3>3. \A n \in Nodes : ToldRunning(n)' \subseteq ToldRunning(n)
            BY <1>0, <2>4, <2>6, <2>8 DEF ToldRunning, ToldOf, Running, WithHostIP, Unassigned, Finished
        <3>4. ToldAndCached'
            BY <2>1, <2>6, <3>2, <3>3 DEF SySchedInv, ToldAndCached, SameName
        <3> QED
            BY <2>5, <3>1, <3>4, UnionsStay DEF SySchedInv
    <2> QED BY <2>7, <2>8
<1>5. CASE podUpdatedSkips(p)
    <2>1. PICK v \in Running .. Finished :
              /\ p \notin syEvents.added /\ syEvents.seen[p] < v /\ v <= version[p]
              /\ syEvents' = [syEvents EXCEPT !.seen[p] = v]
        BY <1>5 DEF podUpdatedSkips, NextUpdated
    <2>2. skipped' = skipped \cup {p} /\ UNCHANGED <<HostToPods, HostSyscalls, misread>>
        BY <1>5 DEF podUpdatedSkips
    <2>3. p \notin syEvents.deleted
        BY <1>0, <2>1 DEF Placed, Unassigned, Running, Finished
    <2>4. /\ syEvents'.added = syEvents.added /\ syEvents'.deleted = syEvents.deleted
          /\ syEvents'.seen = [syEvents.seen EXCEPT ![p] = v]
        BY <1>0, <2>1
    <2>5. syEvents'.seen[p] = v /\ \A q \in Pods \ {p} : syEvents'.seen[q] = syEvents.seen[q]
        BY <1>0, <2>4
    <2>6. Listener(syEvents)'
        <3>1. syEvents'.seen \in [Pods -> Unassigned .. Finished]
            BY <1>0, <2>1, <2>4 DEF Unassigned, Running, Finished
        <3>2. \A q \in Pods : syEvents'.seen[q] <= version[q]
            BY <1>0, <2>1, <2>5
        <3>3. \A q \in syEvents.deleted : q \in Pods /\ q # p
            BY <1>0, <2>3 DEF Placed
        <3>4. syEvents' \in [seen : [Pods -> Unassigned .. Finished], added : SUBSET Pods,
                          deleted : SUBSET gone']
            BY <1>0, <1>1, <2>1, <2>4, <3>1
        <3> QED
            BY <1>0, <1>1, <2>4, <2>5, <3>2, <3>3, <3>4 DEF Listener
    <2>7. \A n \in Nodes : /\ CachedOn(n)' = CachedOn(n) /\ ToldOf(n)' = ToldOf(n)
                           /\ ToldRunning(n)' \ skipped' \subseteq ToldRunning(n) \ skipped
        BY <1>1, <2>2, <2>4, <2>5 DEF CachedOn, ToldOf, ToldRunning
    <2>8. ToldAndCached'
        BY <2>7 DEF SySchedInv, ToldAndCached, SameName
    <2> QED
        BY <2>2, <2>6, <2>8, UnionsStay DEF SySchedInv
<1>6. CASE podDeleted(p)
    <2>1. /\ p \in gone /\ p \notin syEvents.added /\ syEvents.seen[p] = version[p]
          /\ skipped' = skipped /\ removePod(p)
          /\ syEvents' = [syEvents EXCEPT !.deleted = @ \cup {p}]
        BY <1>6 DEF podDeleted, NextDeleted
    <2>2. /\ syEvents'.added = syEvents.added /\ syEvents'.seen = syEvents.seen
          /\ syEvents'.deleted = syEvents.deleted \cup {p}
        BY <1>0, <2>1
    <2>3. Listener(syEvents)'
        <3>1. syEvents' \in [seen : [Pods -> Unassigned .. Finished], added : SUBSET Pods,
                          deleted : SUBSET gone']
            BY <1>0, <1>1, <2>1
        <3> QED
            BY <1>0, <1>1, <2>1, <2>2, <3>1 DEF Listener
    <2>4. \A n \in Nodes : ToldOf(n)' = ToldOf(n) \ {p} /\ ToldRunning(n)' = ToldRunning(n) \ {p}
        BY <1>1, <2>2 DEF ToldOf, ToldRunning
    <2>5. \A n \in Nodes : p \in CachedOn(n) => n = node[p]
        BY DEF SySchedInv, ToldAndCached, ToldOf
    <2>6. /\ CacheTypes' /\ UnionsRight'
          /\ \A n \in Nodes : /\ CachedOn(n)' \subseteq CachedOn(n) \ {p}
                              /\ \A q \in CachedOn(n) : NameOf[q] # NameOf[p] => q \in CachedOn(n)'
        BY <2>1, <2>5, RemovePodForgets DEF SySchedInv, Placed
    <2>7. \A q \in Pods \ {p} : SameName(q, Pods) = {q} => NameOf[q] # NameOf[p]
        BY DEF SameName
    <2>8. ToldAndCached'
        BY <2>1, <2>4, <2>6, <2>7 DEF SySchedInv, ToldAndCached, ToldRunning, ToldOf, SameName
    <2> QED
        BY <2>3, <2>6, <2>8 DEF SySchedInv
<1> QED
    BY <1>3, <1>4, <1>5, <1>6 DEF SySchedEvent

LEMMA NewListenerBehind ==
    ASSUME Placed
    PROVE  Listener(NewListener)
BY DEF Placed, Listener, NewListener, Unassigned, Finished

LEMMA SySchedInit == Init => SySchedInv
<1> SUFFICES ASSUME Init PROVE SySchedInv
    OBVIOUS
<1>1. syEvents = NewListener /\ Listener(NewListener)
    BY PlacedInit DEF Init, InitSySched
<1>2. syEvents.added = Pods \ gone /\ syEvents.deleted = gone
    BY <1>1 DEF NewListener
<1> QED
    BY <1>1, <1>2, NewCachesRight DEF Init, InitSySched, SySchedInv

LEMMA SySchedStep ==
    ASSUME SySchedInv, Exclusive, Placed, [Next]_vars
    PROVE  SySchedInv'
<1>1. Placed' /\ Onward
    BY PlacedStep
<1>2. ASSUME UNCHANGED syVars PROVE SySchedInv'
    BY <1>1, <1>2, SySchedStays
<1>3. CASE TrimaranRuns
    BY <1>2, <1>3 DEF TrimaranRuns
<1>4. CASE Restart
    <2>1. CASE profile = "SySched"
        <3>1. UNCHANGED <<version, node, gone>> /\ NewSySched
            BY <1>4, <2>1 DEF Restart
        <3>2. syEvents' = NewListener /\ Listener(NewListener)
            BY <3>1, NewListenerBehind DEF NewSySched
        <3>3. Listener(syEvents)'
            BY <3>1, <3>2 DEF Listener
        <3>4. syEvents'.added = Pods \ gone' /\ syEvents'.deleted = gone'
            BY <3>1, <3>2 DEF NewListener
        <3>5. HostToPods' = [n \in Nodes |-> None] /\ HostSyscalls' = [n \in Nodes |-> {}]
            BY <3>1 DEF NewSySched
        <3>6. \A n \in Nodes : CachedOn(n)' = {} /\ HostSyscalls'[n] = {} /\ ToldOf(n)' = {}
            BY <3>4, <3>5 DEF CachedOn, ToldOf
        <3>7. CacheTypes'
            BY <3>5 DEF CacheTypes
        <3>8. UnionsRight'
            BY <3>6 DEF UnionsRight, CallsOf
        <3>9. ToldAndCached'
            BY <3>6 DEF ToldAndCached, ToldRunning
        <3> QED
            BY <3>3, <3>7, <3>8, <3>9 DEF SySchedInv
    <2>2. CASE profile # "SySched"
        BY <1>2, <1>4, <2>2 DEF Restart
    <2> QED BY <2>1, <2>2
<1>5. ASSUME NEW p \in Pods, Cluster(p) PROVE SySchedInv'
    BY <1>2, <1>5 DEF Cluster
<1>6. ASSUME NEW p \in Pods, SySchedRuns(p) PROVE SySchedInv'
    BY <1>6, SySchedEvents DEF SySchedRuns
<1>7. ASSUME NEW p \in Pods, CycleRuns(p) PROVE SySchedInv'
    BY <1>2, <1>7 DEF CycleRuns
<1>8. CASE UNCHANGED vars
    BY <1>2, <1>8 DEF vars
<1> QED
    BY <1>3, <1>4, <1>5, <1>6, <1>7, <1>8 DEF Next

\* With the right union, the score is the exposure.
LEMMA SySchedIsExact == SySchedInv => ExposureExact
<1> SUFFICES ASSUME SySchedInv, NEW n \in Nodes, n \notin misread,
                    NEW calls \in (SUBSET AllCalls) \ {{}}
             PROVE  Score(calls, n) = Exposure(calls, CachedOn(n))
    BY DEF SySchedInv, ToldAndCached, ExposureExact, CachedOn
<1>1. HostSyscalls[n] = CallsOf(CachedOn(n))
    BY DEF SySchedInv, UnionsRight
<1>2. CASE HostToPods[n] = None
    <2>1. CachedOn(n) = {} /\ CallsOf(CachedOn(n)) = {}
        BY <1>2 DEF CachedOn, CallsOf
    <2>2. Score(calls, n) = 0
        BY <1>2 DEF Score
    <2>3. calls \cup UNION {getSyscalls(q, ReadAll) : q \in {}} = calls
        OBVIOUS
    <2>4. Cardinality(calls \ calls) = 0
        BY FS_EmptySet
    <2>5. SumFunctionOnSet([q \in {} |-> Cardinality(calls \ getSyscalls(q, ReadAll))], {}) = 0
        BY SumEmpty
    <2>6. Exposure(calls, {}) = 0
        BY <2>3, <2>4, <2>5 DEF Exposure
    <2> QED
        BY <2>1, <2>2, <2>6
<1>3. CASE HostToPods[n] # None
    <2> DEFINE S == HostToPods[n]
               all == calls \cup CallsOf(S)
               T == SumFunctionOnSet([q \in S |-> Cardinality(all \ getSyscalls(q, ReadAll))], S)
    <2>1. CachedOn(n) = S /\ HostSyscalls[n] = CallsOf(S)
        BY <1>1, <1>3 DEF CachedOn
    <2>2. CallsOf(S) \cup calls = all /\ CallsOf(S) \ calls = all \ calls
        OBVIOUS
    <2>3. Exposure(calls, S) = Cardinality(all \ calls) + T
        BY DEF Exposure, CallsOf
    <2>4. Score(calls, n) = Cardinality(all \ calls) + T
        BY <1>3, <2>1, <2>2 DEF Score
    <2> QED
        BY <2>1, <2>3, <2>4
<1> QED BY <1>2, <1>3

\* Whatever additions, updates and deletions are announced in which order and
\* however many pods, reconnected watches, failed reads and restarts there are:
\* the pods SySched caches are those its handlers were told run, and its score
\* is the exposure of these and the new pod, unless a profile could not be read.
THEOREM ExposureIsExact == Spec => []ExposureExact
<1> DEFINE Inv == Exclusive /\ Placed /\ SySchedInv
<1>1. Init => Inv
    BY ExclusiveInit, PlacedInit, SySchedInit DEF Init
<1>2. Inv /\ [Next]_vars => Inv'
    BY ExclusiveStep, PlacedStep, SySchedStep
<1>3. Inv => ExposureExact
    BY SySchedIsExact
<1> QED
    BY <1>1, <1>2, <1>3, PTL DEF Spec

-----------------------------------------------------------------------------
(* Trimaran *)

Entry == [pod : Pods, ts : Nat]

TrimaranTypes ==
    /\ ScheduledPodsCache \in [Nodes -> Seq(Entry)]
    /\ now \in Nat /\ metrics \in Nat \cup {None}
    /\ addedAt \in [Pods -> Nat \cup {None}]

\* Entries are of pods of the node, with the time they were announced at.
Dated(s, n) == \A i \in DOMAIN s : node[s[i].pod] = n /\ s[i].ts = addedAt[s[i].pod]

\* Entries are in the order of their times, no two of one pod.
InOrder(s) == \A i, j \in DOMAIN s : i < j => s[i].ts <= s[j].ts /\ s[i].pod # s[j].pod

Young(p) == addedAt[p] # None /\ now < addedAt[p] + Interval

\* Each young pod that was not deleted has an entry.
Present(s, n) ==
    \A p \in Pods \ trEvents.deleted :
        node[p] = n /\ Young(p) => \E i \in DOMAIN s : s[i].pod = p

\* Metrics and announcements are of the past, and the pods to be announced are
\* others than those that were.
TrimaranInv ==
    /\ TrimaranTypes /\ Listener(trEvents)
    /\ metrics # None => metrics <= now
    /\ \A p \in Pods : addedAt[p] # None => /\ addedAt[p] <= now
                                            /\ p \notin trEvents.added
                                            /\ trEvents.seen[p] # Unassigned
    /\ \A n \in Nodes : /\ Dated(ScheduledPodsCache[n], n)
                        /\ InOrder(ScheduledPodsCache[n])
                        /\ Present(ScheduledPodsCache[n], n)

\* The first of some indices.
LEMMA FirstIsLeast ==
    ASSUME NEW T, T \subseteq Nat, T # {}
    PROVE  First(T) \in T /\ \A j \in T : First(T) <= j
BY LeastNumber DEF First

LEMMA EntryTyped ==
    ASSUME NEW s \in Seq(Entry), NEW i \in DOMAIN s
    PROVE  s[i] \in Entry /\ s[i].pod \in Pods /\ s[i].ts \in Nat
<1>1. s[i] \in Entry
    BY ElementOfSeq, LenProperties
<1> QED BY <1>1 DEF Entry

\* Entries left out: those that remain keep their order and dates.
LEMMA ThinnedOut ==
    ASSUME NEW s \in Seq(Entry), NEW r \in Seq(Entry), NEW h \in [DOMAIN r -> DOMAIN s],
           \A i \in DOMAIN r : r[i] = s[h[i]],
           \A i, j \in DOMAIN r : i < j => h[i] < h[j], NEW n
    PROVE  /\ InOrder(s) => InOrder(r)
           /\ Dated(s, n) => Dated(r, n)
BY DEF InOrder, Dated

\* OnDelete leaves the entries of other pods.
LEMMA WithoutLeaves ==
    ASSUME NEW s \in Seq(Entry), NEW p, NEW n
    PROVE  /\ Without(s, p) \in Seq(Entry)
           /\ InOrder(s) => InOrder(Without(s, p))
           /\ Dated(s, n) => Dated(Without(s, p), n)
           /\ \A i \in DOMAIN s : s[i].pod # p =>
                 \E j \in DOMAIN Without(s, p) : Without(s, p)[j] = s[i]
<1> DEFINE ofPod == {i \in DOMAIN s : s[i].pod = p}
           k == First(ofPod)
           a == SubSeq(s, 1, k - 1)
           b == SubSeq(s, k + 1, Len(s))
           r == a \o b
           h == [i \in DOMAIN r |-> IF i < k THEN i ELSE i + 1]
<1>0. Len(s) \in Nat /\ DOMAIN s = 1 .. Len(s) /\ \A i \in 1 .. Len(s) : s[i] \in Entry
    BY ElementOfSeq, LenProperties
<1>1. CASE ofPod = {}
    <2>1. Without(s, p) = s
        BY <1>1 DEF Without
    <2> QED BY <2>1
<1>2. CASE ofPod # {}
    <2>1. k \in 1 .. Len(s) /\ s[k].pod = p
        <3>1. ofPod \subseteq Nat
            BY <1>0
        <3>2. k \in ofPod
            BY <1>2, <3>1, FirstIsLeast
        <3> QED BY <1>0, <3>2
    <2>2. Without(s, p) = r
        BY <1>2 DEF Without
    <2> HIDE DEF k
    <2>3. a \in Seq(Entry) /\ Len(a) = k - 1 /\ \A i \in 1 .. k - 1 : a[i] = s[i]
        <3>1. \A i \in 1 .. k - 1 : s[i] \in Entry
            BY <1>0, <2>1
        <3>2. /\ a \in Seq(Entry) /\ Len(a) = IF 1 <= k - 1 THEN k - 1 - 1 + 1 ELSE 0
              /\ \A i \in 1 .. k - 1 - 1 + 1 : a[i] = s[1 + i - 1]
            BY <2>1, <3>1, SubSeqProperties
        <3> QED BY <2>1, <3>2
    <2>4. /\ b \in Seq(Entry) /\ Len(b) = Len(s) - k
          /\ \A i \in 1 .. Len(s) - k : b[i] = s[k + i]
        <3>1. \A i \in k + 1 .. Len(s) : s[i] \in Entry
            BY <1>0, <2>1
        <3>2. /\ b \in Seq(Entry) /\ Len(b) = IF k + 1 <= Len(s) THEN Len(s) - (k + 1) + 1 ELSE 0
              /\ \A i \in 1 .. Len(s) - (k + 1) + 1 : b[i] = s[k + 1 + i - 1]
            BY <1>0, <2>1, <3>1, SubSeqProperties
        <3>3. Len(b) = Len(s) - k
            <4>1. Len(b) = IF k + 1 <= Len(s) THEN Len(s) - (k + 1) + 1 ELSE 0
                BY <3>2
            <4>2. k \in Nat /\ Len(s) \in Nat /\ k <= Len(s)
                BY <1>0, <2>1
            <4> HIDE DEF b
            <4> QED BY <4>1, <4>2
        <3>4. \A i \in 1 .. Len(s) - k : i \in 1 .. Len(s) - (k + 1) + 1 /\ k + 1 + i - 1 = k + i
            BY <1>0, <2>1
        <3> QED BY <3>2, <3>3, <3>4
    <2> HIDE DEF a, b
    <2>5. /\ r \in Seq(Entry) /\ DOMAIN r = 1 .. Len(s) - 1
          /\ \A i \in 1 .. Len(s) - 1 : r[i] = IF i < k THEN s[i] ELSE s[i + 1]
        <3>1. r \in Seq(Entry) /\ Len(r) = Len(a) + Len(b)
            BY <2>3, <2>4, ConcatProperties
        <3>2. \A i \in 1 .. Len(a) + Len(b) : r[i] = IF i <= Len(a) THEN a[i] ELSE b[i - Len(a)]
            BY <2>3, <2>4, ConcatProperties
        <3>3. Len(r) = Len(s) - 1 /\ DOMAIN r = 1 .. Len(r)
            <4>1. Len(r) = Len(s) - 1
                BY <1>0, <2>1, <2>3, <2>4, <3>1
            <4> QED BY <3>1, <4>1, LenProperties
        <3>4. ASSUME NEW i \in 1 .. Len(s) - 1
              PROVE  r[i] = IF i < k THEN s[i] ELSE s[i + 1]
            <4>1. r[i] = IF i <= Len(a) THEN a[i] ELSE b[i - Len(a)]
                BY <1>0, <2>1, <2>3, <2>4, <3>2
            <4>2. CASE i < k
                BY <1>0, <2>1, <2>3, <4>1, <4>2
            <4>3. CASE i >= k
                <5>1. r[i] = b[i - (k - 1)]
                    BY <1>0, <2>1, <2>3, <4>1, <4>3
                <5>2. i - (k - 1) \in 1 .. Len(s) - k /\ k + (i - (k - 1)) = i + 1
                    BY <1>0, <2>1, <4>3
                <5>3. b[i - (k - 1)] = s[k + (i - (k - 1))]
                    BY <2>4, <5>2
                <5>4. r[i] = s[i + 1]
                    BY <5>1, <5>2, <5>3
                <5>5. ~ i < k
                    BY <1>0, <2>1, <4>3
                <5> QED BY <5>4, <5>5
            <4>4. i < k \/ i >= k
                BY <1>0, <2>1
            <4> QED BY <4>2, <4>3, <4>4
        <3> QED
            BY <3>1, <3>3, <3>4
    <2> HIDE DEF r
    <2>6. /\ h \in [DOMAIN r -> DOMAIN s] /\ \A i \in DOMAIN r : r[i] = s[h[i]]
          /\ \A i, j \in DOMAIN r : i < j => h[i] < h[j]
        BY <1>0, <2>1, <2>5
    <2>7. (InOrder(s) => InOrder(r)) /\ (Dated(s, n) => Dated(r, n))
        BY <2>5, <2>6, ThinnedOut
    <2>8. ASSUME NEW i \in DOMAIN s, s[i].pod # p
          PROVE  \E j \in DOMAIN r : r[j] = s[i]
        <3>1. i # k
            BY <2>1, <2>8
        <3>2. CASE i < k
            BY <1>0, <2>1, <2>5, <3>2
        <3>3. CASE i > k
            <4>1. i - 1 \in DOMAIN r /\ r[i - 1] = s[i]
                BY <1>0, <2>1, <2>5, <3>3
            <4> QED BY <4>1
        <3> QED BY <1>0, <2>1, <3>1, <3>2, <3>3
    <2> QED
        BY <2>2, <2>5, <2>7, <2>8
<1> QED BY <1>1, <1>2

\* cleanupCache leaves the entries that are young.
LEMMA CleanedLeaves ==
    ASSUME NEW s \in Seq(Entry), now \in Nat, NEW n
    PROVE  /\ Cleaned(s) \in Seq(Entry)
           /\ InOrder(s) => InOrder(Cleaned(s))
           /\ Dated(s, n) => Dated(Cleaned(s), n)
           /\ \A i \in DOMAIN s : s[i].ts + Interval > now =>
                 \E j \in DOMAIN Cleaned(s) : Cleaned(s)[j] = s[i]
<1> DEFINE young == {i \in DOMAIN s : s[i].ts + Interval > now}
           k == First(young)
           r == SubSeq(s, k, Len(s))
           h == [i \in DOMAIN r |-> i + k - 1]
<1>0. Len(s) \in Nat /\ DOMAIN s = 1 .. Len(s) /\ \A i \in 1 .. Len(s) : s[i] \in Entry
    BY ElementOfSeq, LenProperties
<1>1. CASE young = {}
    <2>1. Cleaned(s) = s
        BY <1>1 DEF Cleaned
    <2> QED BY <2>1
<1>2. CASE young # {}
    <2>1. k \in 1 .. Len(s) /\ \A i \in young : k <= i
        <3>1. young \subseteq Nat
            BY <1>0
        <3>2. k \in young /\ \A i \in young : k <= i
            BY <1>2, <3>1, FirstIsLeast
        <3> QED BY <1>0, <3>2
    <2>2. Cleaned(s) = r
        BY <1>2 DEF Cleaned
    <2> HIDE DEF k
    <2>3. /\ r \in Seq(Entry) /\ DOMAIN r = 1 .. Len(s) - k + 1
          /\ \A i \in 1 .. Len(s) - k + 1 : r[i] = s[i + k - 1]
        <3>1. \A i \in k .. Len(s) : s[i] \in Entry
            BY <1>0, <2>1
        <3>2. /\ r \in Seq(Entry) /\ Len(r) = IF k <= Len(s) THEN Len(s) - k + 1 ELSE 0
              /\ \A i \in 1 .. Len(s) - k + 1 : r[i] = s[k + i - 1]
            BY <1>0, <2>1, <3>1, SubSeqProperties
        <3>3. \A i \in 1 .. Len(s) - k + 1 : k + i - 1 = i + k - 1
            BY <1>0, <2>1
        <3>4. Len(r) = Len(s) - k + 1
            BY <1>0, <2>1, <3>2
        <3>5. DOMAIN r = 1 .. Len(r)
            BY <3>2, LenProperties
        <3> QED BY <3>2, <3>3, <3>4, <3>5
    <2> HIDE DEF r
    <2>4. /\ h \in [DOMAIN r -> DOMAIN s] /\ \A i \in DOMAIN r : r[i] = s[h[i]]
          /\ \A i, j \in DOMAIN r : i < j => h[i] < h[j]
        <3>1. \A i \in DOMAIN r : i + k - 1 \in DOMAIN s
            BY <1>0, <2>1, <2>3
        <3>2. \A i, j \in DOMAIN r : i < j => i + k - 1 < j + k - 1
            BY <1>0, <2>1, <2>3
        <3> QED BY <2>3, <3>1, <3>2
    <2>5. (InOrder(s) => InOrder(r)) /\ (Dated(s, n) => Dated(r, n))
        BY <2>3, <2>4, ThinnedOut
    <2>6. ASSUME NEW i \in DOMAIN s, s[i].ts + Interval > now
          PROVE  \E j \in DOMAIN r : r[j] = s[i]
        <3>0. k <= i /\ i \in 1 .. Len(s)
            BY <1>0, <2>1, <2>6
        <3>1. i - k + 1 \in DOMAIN r /\ (i - k + 1) + k - 1 = i
            BY <1>0, <2>1, <2>3, <3>0
        <3>2. r[i - k + 1] = s[i]
            BY <2>3, <3>1
        <3> QED BY <3>1, <3>2
    <2> QED
        BY <2>2, <2>3, <2>5, <2>6
<1> QED BY <1>1, <1>2

\* updateCache appends an entry of now.
LEMMA AppendedLast ==
    ASSUME NEW s \in Seq(Entry), NEW e \in Entry
    PROVE  /\ Append(s, e) \in Seq(Entry)
           /\ DOMAIN Append(s, e) = DOMAIN s \cup {Len(s) + 1}
           /\ \A i \in DOMAIN s : i < Len(s) + 1 /\ Append(s, e)[i] = s[i]
           /\ Append(s, e)[Len(s) + 1] = e
<1>1. Len(s) \in Nat /\ DOMAIN s = 1 .. Len(s)
    BY LenProperties
<1>2. /\ Append(s, e) \in Seq(Entry) /\ Len(Append(s, e)) = Len(s) + 1
      /\ \A i \in 1 .. Len(s) : Append(s, e)[i] = s[i]
      /\ Append(s, e)[Len(s) + 1] = e
    BY AppendProperties
<1>3. DOMAIN Append(s, e) = 1 .. Len(s) + 1
    BY <1>2, LenProperties
<1> QED BY <1>1, <1>2, <1>3

\* The parts of the invariant that are about one listener and its times.
LEMMA TrimaranStays ==
    ASSUME TrimaranInv, Placed, Placed', Onward, UNCHANGED trVars
    PROVE  TrimaranInv'
<1>1. UNCHANGED <<ScheduledPodsCache, metrics, now, addedAt, trEvents>>
    BY DEF trVars
<1>2. Listener(trEvents)'
    BY <1>1, ListenerStays DEF TrimaranInv, Listener
<1>3. \A p \in Pods : addedAt[p] # None => node'[p] = node[p]
    BY DEF TrimaranInv, Listener, Placed, Onward, Unassigned, Finished
<1>4. ASSUME NEW n \in Nodes
      PROVE  /\ Dated(ScheduledPodsCache[n], n)'
             /\ InOrder(ScheduledPodsCache[n])'
             /\ Present(ScheduledPodsCache[n], n)'
    <2>1. ScheduledPodsCache[n] \in Seq(Entry)
        BY DEF TrimaranInv, TrimaranTypes
    <2>2. \A i \in DOMAIN ScheduledPodsCache[n] :
             /\ ScheduledPodsCache[n][i].pod \in Pods /\ ScheduledPodsCache[n][i].ts \in Nat
        BY <2>1, EntryTyped
    <2>3. Dated(ScheduledPodsCache[n], n)'
        <3>1. \A i \in DOMAIN ScheduledPodsCache[n] : addedAt[ScheduledPodsCache[n][i].pod] # None
            BY <2>2, NoneAssumption DEF TrimaranInv, Dated
        <3> QED
            BY <1>1, <1>3, <2>2, <3>1 DEF TrimaranInv, Dated
    <2>4. InOrder(ScheduledPodsCache[n])'
        BY <1>1 DEF TrimaranInv, InOrder
    <2>5. Present(ScheduledPodsCache[n], n)'
        BY <1>1, <1>3 DEF TrimaranInv, Present, Young
    <2> QED BY <2>3, <2>4, <2>5
<1> QED
    BY <1>1, <1>2, <1>4 DEF TrimaranInv, TrimaranTypes

\* An update of a pod whose deletion was not announced.
LEMMA SeenMovesOn ==
    ASSUME Placed, Listener(trEvents), NEW p \in Pods, p \notin trEvents.deleted,
           NEW v \in Unassigned .. Finished, v <= version[p],
           UNCHANGED <<version, gone>>, trEvents' = [trEvents EXCEPT !.seen[p] = v]
    PROVE  Listener(trEvents)'
<1>1. trEvents \in [seen : [Pods -> Unassigned .. Finished], added : SUBSET Pods, deleted : SUBSET gone]
    BY DEF Listener
<1>2. /\ trEvents'.added = trEvents.added /\ trEvents'.deleted = trEvents.deleted
      /\ trEvents'.seen = [trEvents.seen EXCEPT ![p] = v]
      /\ trEvents' \in [seen : [Pods -> Unassigned .. Finished], added : SUBSET Pods, deleted : SUBSET gone]
    BY <1>1
<1>3. trEvents'.seen[p] = v /\ \A q \in Pods \ {p} : trEvents'.seen[q] = trEvents.seen[q]
    BY <1>1, <1>2
<1>4. \A q \in trEvents.deleted : q \in Pods /\ q # p
    BY <1>1 DEF Placed
<1> QED
    BY <1>2, <1>3, <1>4 DEF Listener

\* OnAdd appends the pod to the cache of its node, OnUpdate does nothing and
\* OnDelete takes the pod out.
LEMMA TrimaranEvents ==
    ASSUME TrimaranInv, Placed, NEW p \in Pods, TrimaranEvent(p)
    PROVE  TrimaranInv'
<1>0. /\ trEvents \in [seen : [Pods -> Unassigned .. Finished], added : SUBSET Pods, deleted : SUBSET gone]
      /\ \A q \in Pods : trEvents.seen[q] <= version[q]
      /\ \A q \in trEvents.deleted : q \notin trEvents.added /\ trEvents.seen[q] = version[q]
    BY DEF TrimaranInv, Listener
<1>1. UNCHANGED <<version, node, gone, metrics, now>>
    BY DEF TrimaranEvent, OnAdd, OnUpdate, OnDelete, api
<1>2. \A q \in Pods : trEvents.seen[q] # Unassigned => node[q] \in Nodes
    BY <1>0 DEF Placed, Unassigned, Finished
<1>3. now \in Nat /\ addedAt \in [Pods -> Nat \cup {None}]
      /\ \A n \in Nodes : ScheduledPodsCache[n] \in Seq(Entry)
    BY DEF TrimaranInv, TrimaranTypes
<1>4. ASSUME Append1(p), addedAt' = [addedAt EXCEPT ![p] = now],
             trEvents'.deleted = trEvents.deleted, Listener(trEvents)',
             trEvents'.added \subseteq trEvents.added, p \notin trEvents'.added,
             trEvents'.seen[p] # Unassigned, addedAt[p] = None,
             \A q \in Pods \ {p} : trEvents'.seen[q] = trEvents.seen[q]
      PROVE  TrimaranInv'
    <2>1. node[p] \in Nodes
        BY <1>1, <1>4 DEF Listener, Placed, Unassigned, Finished
    <2> DEFINE e == [pod |-> p, ts |-> now]
    <2>2. PICK h \in Nodes : h = node[p]
        BY <2>1
    <2>3. e \in Entry
        BY <1>3 DEF Entry
    <2>4. ScheduledPodsCache' = [ScheduledPodsCache EXCEPT ![h] = Append(@, e)]
        BY <1>4, <2>2 DEF Append1
    <2>5. /\ ScheduledPodsCache'[h] = Append(ScheduledPodsCache[h], e)
          /\ \A n \in Nodes \ {h} : ScheduledPodsCache'[n] = ScheduledPodsCache[n]
        BY <2>4 DEF TrimaranInv, TrimaranTypes
    <2>6. TrimaranTypes'
        <3>1. Append(ScheduledPodsCache[h], e) \in Seq(Entry)
            BY <1>3, <2>3, AppendedLast
        <3>2. ScheduledPodsCache' \in [Nodes -> Seq(Entry)]
            BY <2>4, <3>1 DEF TrimaranInv, TrimaranTypes
        <3> QED
            BY <1>1, <1>3, <1>4, <3>2 DEF TrimaranInv, TrimaranTypes
    <2>7. addedAt'[p] = now /\ \A q \in Pods \ {p} : addedAt'[q] = addedAt[q]
        BY <1>3, <1>4
    <2>8. \A q \in Pods : addedAt'[q] # None => /\ addedAt'[q] <= now
                                                /\ q \notin trEvents'.added
                                                /\ trEvents'.seen[q] # Unassigned
        BY <1>3, <1>4, <2>7 DEF TrimaranInv
    <2>9. ASSUME NEW n \in Nodes
          PROVE  /\ Dated(ScheduledPodsCache[n], n)'
                 /\ InOrder(ScheduledPodsCache[n])'
                 /\ Present(ScheduledPodsCache[n], n)'
        <3> DEFINE s == ScheduledPodsCache[n]
        <3>1. \A i \in DOMAIN s : s[i].pod \in Pods /\ s[i].ts \in Nat
            BY <1>3, EntryTyped
        <3>2. /\ Dated(s, n) /\ InOrder(s) /\ Present(s, n)
            BY DEF TrimaranInv
        <3>3. \A i \in DOMAIN s : s[i].pod # p /\ s[i].ts <= now
            BY <1>3, <1>4, <3>1, <3>2, NoneAssumption DEF Dated, TrimaranInv
        <3>4. CASE n # h
            <4>1. ScheduledPodsCache'[n] = s
                BY <2>5, <3>4
            <4>2. Dated(ScheduledPodsCache[n], n)'
                BY <1>1, <2>7, <3>1, <3>2, <3>3, <4>1 DEF Dated
            <4>3. InOrder(ScheduledPodsCache[n])'
                BY <3>2, <4>1 DEF InOrder
            <4>4. Present(ScheduledPodsCache[n], n)'
                BY <1>1, <1>4, <2>2, <2>7, <3>2, <3>4, <4>1 DEF Present, Young
            <4> QED BY <4>2, <4>3, <4>4
        <3>5. CASE n = h
            <4> DEFINE r == Append(s, e)
            <4>1. ScheduledPodsCache'[n] = r
                BY <2>5, <3>5
            <4>2. /\ DOMAIN r = DOMAIN s \cup {Len(s) + 1}
                  /\ \A i \in DOMAIN s : i < Len(s) + 1 /\ r[i] = s[i]
                  /\ r[Len(s) + 1] = e
                BY <1>3, <2>3, AppendedLast
            <4>3. Len(s) \in Nat /\ DOMAIN s \subseteq Nat
                BY <1>3, LenProperties
            <4> HIDE DEF r, s
            <4>4. Dated(ScheduledPodsCache[n], n)'
                <5>1. ASSUME NEW i \in DOMAIN r
                      PROVE  node'[r[i].pod] = n /\ r[i].ts = addedAt'[r[i].pod]
                    <6>1. CASE i \in DOMAIN s
                        BY <1>1, <2>7, <3>1, <3>2, <3>3, <4>2, <6>1 DEF Dated
                    <6>2. CASE i = Len(s) + 1
                        BY <1>1, <2>2, <2>7, <3>5, <4>2, <6>2
                    <6> QED BY <4>2, <6>1, <6>2
                <5> QED BY <4>1, <5>1 DEF Dated
            <4>5. InOrder(ScheduledPodsCache[n])'
                <5>1. ASSUME NEW i \in DOMAIN r, NEW j \in DOMAIN r, i < j
                      PROVE  r[i].ts <= r[j].ts /\ r[i].pod # r[j].pod
                    <6>1. i \in DOMAIN s
                        BY <4>2, <4>3, <5>1
                    <6>2. CASE j \in DOMAIN s
                        BY <3>2, <4>2, <5>1, <6>1, <6>2 DEF InOrder
                    <6>3. CASE j = Len(s) + 1
                        BY <3>3, <4>2, <6>1, <6>3
                    <6> QED BY <4>2, <6>2, <6>3
                <5> QED BY <4>1, <5>1 DEF InOrder
            <4>6. Present(ScheduledPodsCache[n], n)'
                <5>1. ASSUME NEW q \in Pods \ trEvents.deleted, node[q] = n, Young(q)'
                      PROVE  \E i \in DOMAIN r : r[i].pod = q
                    <6>1. CASE q = p
                        BY <4>2, <6>1
                    <6>2. CASE q # p
                        <7>1. Young(q)
                            BY <1>1, <2>7, <5>1, <6>2 DEF Young
                        <7>2. \E i \in DOMAIN s : s[i].pod = q
                            BY <3>2, <5>1, <7>1 DEF Present
                        <7> QED BY <4>2, <7>2
                    <6> QED BY <6>1, <6>2
                <5> QED BY <1>1, <1>4, <4>1, <5>1 DEF Present
            <4> QED BY <4>4, <4>5, <4>6
        <3> QED BY <3>4, <3>5
    <2> QED
        BY <1>1, <1>4, <2>6, <2>8, <2>9 DEF TrimaranInv
<1>5. ASSUME UNCHANGED <<ScheduledPodsCache, addedAt>>, Listener(trEvents)',
             trEvents'.deleted = trEvents.deleted, trEvents'.added \subseteq trEvents.added,
             \A q \in Pods : trEvents.seen[q] # Unassigned => trEvents'.seen[q] # Unassigned
      PROVE  TrimaranInv'
    <2>1. TrimaranTypes'
        BY <1>1, <1>5 DEF TrimaranInv, TrimaranTypes
    <2>2. \A n \in Nodes : /\ Dated(ScheduledPodsCache[n], n)' /\ InOrder(ScheduledPodsCache[n])'
                           /\ Present(ScheduledPodsCache[n], n)'
        BY <1>1, <1>5 DEF TrimaranInv, Dated, InOrder, Present, Young
    <2>3. \A q \in Pods : addedAt'[q] # None => /\ addedAt'[q] <= now'
                                                /\ q \notin trEvents'.added
                                                /\ trEvents'.seen[q] # Unassigned
        BY <1>1, <1>5 DEF TrimaranInv
    <2> QED
        BY <1>1, <1>5, <2>1, <2>2, <2>3 DEF TrimaranInv
<1>6. CASE OnAdd(p)
    <2>1. CASE NextAdded(trEvents, p)
        <3>1. p \in trEvents.added
            BY <2>1 DEF NextAdded
        <3>2. /\ trEvents' = [trEvents EXCEPT !.added = @ \ {p}]
              /\ IF trEvents.seen[p] # Unassigned
                 THEN Append1(p) /\ addedAt' = [addedAt EXCEPT ![p] = now]
                 ELSE UNCHANGED <<ScheduledPodsCache, addedAt>>
            BY <1>6, <3>1 DEF OnAdd, NextUpdated
        <3>3. /\ trEvents'.added = trEvents.added \ {p}
              /\ trEvents'.seen = trEvents.seen /\ trEvents'.deleted = trEvents.deleted
            BY <1>0, <3>2
        <3>4. Listener(trEvents)'
            <4>1. trEvents' \in [seen : [Pods -> Unassigned .. Finished], added : SUBSET Pods,
                                  deleted : SUBSET gone']
                BY <1>0, <1>1, <3>2
            <4> QED BY <1>0, <1>1, <3>3, <4>1 DEF Listener
        <3>5. addedAt[p] = None
            BY <3>1 DEF TrimaranInv
        <3>6. CASE trEvents.seen[p] # Unassigned
            BY <1>4, <3>2, <3>3, <3>4, <3>5, <3>6
        <3>7. CASE trEvents.seen[p] = Unassigned
            BY <1>5, <3>2, <3>3, <3>4, <3>7
        <3> QED BY <3>6, <3>7
    <2>2. CASE ~ NextAdded(trEvents, p)
        <3>1. /\ trEvents.seen[p] = Unassigned /\ p \notin trEvents.added
              /\ trEvents.seen[p] < Assigned /\ Assigned <= version[p]
              /\ trEvents' = [trEvents EXCEPT !.seen[p] = Assigned]
              /\ Append1(p) /\ addedAt' = [addedAt EXCEPT ![p] = now]
            BY <1>6, <2>2 DEF OnAdd, NextUpdated
        <3>2. /\ trEvents'.added = trEvents.added /\ trEvents'.deleted = trEvents.deleted
              /\ trEvents'.seen = [trEvents.seen EXCEPT ![p] = Assigned]
            BY <1>0, <3>1
        <3>3. trEvents'.seen[p] = Assigned /\ \A q \in Pods \ {p} : trEvents'.seen[q] = trEvents.seen[q]
            BY <1>0, <3>2
        <3>4. p \notin trEvents.deleted
            BY <1>0, <3>1 DEF Unassigned, Assigned
        <3>5. Listener(trEvents)'
            <4>0. Listener(trEvents) /\ Assigned \in Unassigned .. Finished
                BY DEF TrimaranInv, Unassigned, Assigned, Finished
            <4> QED BY <1>1, <3>1, <3>4, <4>0, SeenMovesOn
        <3>6. addedAt[p] = None
            BY <3>1 DEF TrimaranInv
        <3>7. trEvents'.seen[p] # Unassigned
            BY <3>3 DEF Assigned, Unassigned
        <3> QED BY <1>4, <3>1, <3>2, <3>3, <3>5, <3>6, <3>7
    <2> QED BY <2>1, <2>2
<1>7. CASE OnUpdate(p)
    <2>1. /\ trEvents.seen[p] # Unassigned /\ p \notin trEvents.added
          /\ trEvents.seen[p] < version[p]
          /\ trEvents' = [trEvents EXCEPT !.seen[p] = version[p]]
          /\ UNCHANGED <<ScheduledPodsCache, addedAt>>
        BY <1>7 DEF OnUpdate, NextUpdated
    <2>2. /\ trEvents'.added = trEvents.added /\ trEvents'.deleted = trEvents.deleted
          /\ trEvents'.seen = [trEvents.seen EXCEPT ![p] = version[p]]
        BY <1>0, <2>1
    <2>3. trEvents'.seen[p] = version[p] /\ \A q \in Pods \ {p} : trEvents'.seen[q] = trEvents.seen[q]
        BY <1>0, <2>2
    <2>4. version[p] \in Unassigned .. Finished /\ version[p] # Unassigned
        BY <1>0, <2>1 DEF Placed, Unassigned, Finished
    <2>5. p \notin trEvents.deleted
        BY <1>0, <2>1, <2>4 DEF Unassigned, Finished
    <2>6. Listener(trEvents)'
        <3>0. Listener(trEvents) /\ version[p] <= version[p]
            BY <2>4 DEF TrimaranInv, Unassigned, Finished
        <3> QED BY <1>1, <2>1, <2>4, <2>5, <3>0, SeenMovesOn
    <2> QED BY <1>5, <2>1, <2>2, <2>3, <2>4, <2>6
<1>8. CASE OnDelete(p)
    <2>1. /\ p \in gone /\ p \notin trEvents.added /\ trEvents.seen[p] = version[p]
          /\ trEvents' = [trEvents EXCEPT !.deleted = @ \cup {p}]
          /\ addedAt' = addedAt
          /\ ScheduledPodsCache' = IF node[p] = None THEN ScheduledPodsCache
                                   ELSE [ScheduledPodsCache EXCEPT ![node[p]] = Without(@, p)]
        BY <1>8 DEF OnDelete, NextDeleted
    <2>2. /\ trEvents'.added = trEvents.added /\ trEvents'.seen = trEvents.seen
          /\ trEvents'.deleted = trEvents.deleted \cup {p}
        BY <1>0, <2>1
    <2>3. Listener(trEvents)'
        <3>1. trEvents' \in [seen : [Pods -> Unassigned .. Finished], added : SUBSET Pods,
                              deleted : SUBSET gone']
            BY <1>0, <1>1, <2>1
        <3> QED BY <1>0, <1>1, <2>1, <2>2, <3>1 DEF Listener
    <2>4. PICK h \in Nodes \cup {None} : h = node[p]
        BY DEF Placed
    <2>5. \A n \in Nodes : ScheduledPodsCache'[n] = IF n = h THEN Without(ScheduledPodsCache[n], p)
                                                    ELSE ScheduledPodsCache[n]
        BY <2>1, <2>4, NoneAssumption DEF TrimaranInv, TrimaranTypes
    <2>6. ASSUME NEW n \in Nodes
          PROVE  /\ ScheduledPodsCache'[n] \in Seq(Entry)
                 /\ Dated(ScheduledPodsCache[n], n)'
                 /\ InOrder(ScheduledPodsCache[n])'
                 /\ Present(ScheduledPodsCache[n], n)'
        <3> DEFINE s == ScheduledPodsCache[n]
                   r == ScheduledPodsCache'[n]
        <3>0. s \in Seq(Entry) /\ Dated(s, n) /\ InOrder(s) /\ Present(s, n)
            BY <1>3 DEF TrimaranInv
        <3>1. /\ r \in Seq(Entry) /\ Dated(r, n) /\ InOrder(r)
              /\ \A i \in DOMAIN s : s[i].pod # p => \E j \in DOMAIN r : r[j] = s[i]
            <4>1. CASE n = h
                <5>1. r = Without(s, p)
                    BY <2>5, <4>1
                <5> HIDE DEF r, s
                <5> QED BY <3>0, <5>1, WithoutLeaves
            <4>2. CASE n # h
                <5>1. r = s
                    BY <2>5, <4>2
                <5> HIDE DEF r, s
                <5> QED BY <3>0, <5>1
            <4> QED BY <4>1, <4>2
        <3>2. Dated(ScheduledPodsCache[n], n)'
            BY <1>1, <2>1, <3>1 DEF Dated
        <3>3. InOrder(ScheduledPodsCache[n])'
            BY <3>1 DEF InOrder
        <3>4. Present(ScheduledPodsCache[n], n)'
            <4>1. ASSUME NEW q \in Pods \ trEvents'.deleted, node[q] = n, Young(q)
                  PROVE  \E j \in DOMAIN r : r[j].pod = q
                <5>1. q # p /\ q \in Pods \ trEvents.deleted
                    BY <2>2, <4>1
                <5>2. PICK i \in DOMAIN s : s[i].pod = q
                    BY <3>0, <4>1, <5>1 DEF Present
                <5> QED BY <3>1, <5>1, <5>2
            <4> QED BY <1>1, <2>1, <4>1 DEF Present, Young
        <3> QED BY <3>1, <3>2, <3>3, <3>4
    <2>7. DOMAIN ScheduledPodsCache' = Nodes /\ ScheduledPodsCache' = [n \in Nodes |-> ScheduledPodsCache'[n]]
        BY <2>1, <2>4 DEF TrimaranInv, TrimaranTypes
    <2>8. TrimaranTypes'
        BY <1>1, <1>3, <2>1, <2>6, <2>7 DEF TrimaranInv, TrimaranTypes
    <2> QED
        BY <1>1, <2>1, <2>2, <2>3, <2>6, <2>8 DEF TrimaranInv
<1> QED
    BY <1>6, <1>7, <1>8 DEF TrimaranEvent

\* Time only makes pods old, and a cleanup drops what is old.
LEMMA TrimaranSteps ==
    ASSUME TrimaranInv, TrimaranStep
    PROVE  TrimaranInv'
<1>1. UNCHANGED <<version, node, gone, addedAt, trEvents>>
    BY DEF TrimaranStep, cleanupCache, updateMetrics, Tick, api
<1>2. now \in Nat /\ addedAt \in [Pods -> Nat \cup {None}] /\ metrics \in Nat \cup {None}
    BY DEF TrimaranInv, TrimaranTypes
<1>3. Listener(trEvents)'
    BY <1>1 DEF TrimaranInv, Listener
<1>4. ASSUME ScheduledPodsCache' = ScheduledPodsCache, now' \in Nat, now' >= now,
             metrics' \in Nat \cup {None}, metrics' # None => metrics' <= now'
      PROVE  TrimaranInv'
    <2>1. TrimaranTypes'
        BY <1>1, <1>4 DEF TrimaranInv, TrimaranTypes
    <2>2. \A p \in Pods : (Young(p))' => Young(p)
        BY <1>1, <1>2, <1>4, IntervalAssumption DEF Young
    <2>3. \A n \in Nodes : /\ Dated(ScheduledPodsCache[n], n)' /\ InOrder(ScheduledPodsCache[n])'
                           /\ Present(ScheduledPodsCache[n], n)'
        BY <1>1, <1>4, <2>2 DEF TrimaranInv, Dated, InOrder, Present
    <2>4. \A p \in Pods : addedAt'[p] # None => /\ addedAt'[p] <= now'
                                                /\ p \notin trEvents'.added
                                                /\ trEvents'.seen[p] # Unassigned
        BY <1>1, <1>2, <1>4 DEF TrimaranInv
    <2> QED
        BY <1>3, <1>4, <2>1, <2>3, <2>4 DEF TrimaranInv
<1>5. CASE cleanupCache
    <2>1. /\ ScheduledPodsCache' = [n \in Nodes |-> Cleaned(ScheduledPodsCache[n])]
          /\ UNCHANGED <<metrics, now>>
        BY <1>5 DEF cleanupCache
    <2>2. ASSUME NEW n \in Nodes
          PROVE  /\ ScheduledPodsCache'[n] \in Seq(Entry)
                 /\ Dated(ScheduledPodsCache[n], n)'
                 /\ InOrder(ScheduledPodsCache[n])'
                 /\ Present(ScheduledPodsCache[n], n)'
        <3> DEFINE s == ScheduledPodsCache[n]
                   r == ScheduledPodsCache'[n]
        <3>0. s \in Seq(Entry) /\ Dated(s, n) /\ InOrder(s) /\ Present(s, n)
            BY DEF TrimaranInv, TrimaranTypes
        <3>1. /\ r \in Seq(Entry) /\ Dated(r, n) /\ InOrder(r)
              /\ \A i \in DOMAIN s : s[i].ts + Interval > now => \E j \in DOMAIN r : r[j] = s[i]
            <4>1. r = Cleaned(s)
                BY <2>1
            <4> HIDE DEF r, s
            <4> QED BY <1>2, <3>0, <4>1, CleanedLeaves
        <3>2. Dated(ScheduledPodsCache[n], n)'
            BY <1>1, <3>1 DEF Dated
        <3>3. InOrder(ScheduledPodsCache[n])'
            BY <3>1 DEF InOrder
        <3>4. Present(ScheduledPodsCache[n], n)'
            <4>1. ASSUME NEW q \in Pods \ trEvents.deleted, node[q] = n, Young(q)
                  PROVE  \E j \in DOMAIN r : r[j].pod = q
                <5>1. PICK i \in DOMAIN s : s[i].pod = q
                    BY <3>0, <4>1 DEF Present
                <5>2. s[i].ts = addedAt[q]
                    BY <3>0, <5>1 DEF Dated
                <5>3. s[i].ts + Interval > now
                    BY <1>2, <4>1, <5>2, IntervalAssumption DEF Young
                <5> QED BY <3>1, <5>1, <5>3
            <4> QED BY <1>1, <2>1, <4>1 DEF Present, Young
        <3> QED BY <3>1, <3>2, <3>3, <3>4
    <2>3. TrimaranTypes'
        BY <1>1, <1>2, <2>1, <2>2 DEF TrimaranTypes
    <2> QED
        BY <1>1, <1>3, <2>1, <2>2, <2>3 DEF TrimaranInv
<1>6. CASE updateMetrics
    <2>1. PICK end \in (IF metrics = None THEN 0 ELSE metrics) .. now : metrics' = end
        BY <1>6 DEF updateMetrics
    <2>2. end \in Nat /\ end <= now
        BY <1>2, <2>1
    <2>3. now' = now /\ ScheduledPodsCache' = ScheduledPodsCache
        BY <1>6 DEF updateMetrics
    <2> QED BY <1>2, <1>4, <2>1, <2>2, <2>3
<1>7. CASE Tick
    <2>1. now' = now + 1 /\ UNCHANGED <<ScheduledPodsCache, metrics>>
        BY <1>7 DEF Tick
    <2>2. metrics' # None => metrics' <= now'
        BY <1>2, <2>1 DEF TrimaranInv
    <2> QED BY <1>2, <1>4, <2>1, <2>2
<1> QED
    BY <1>5, <1>6, <1>7 DEF TrimaranStep

LEMMA TrimaranInit == Init => TrimaranInv
<1> SUFFICES ASSUME Init PROVE TrimaranInv
    OBVIOUS
<1>1. trEvents = NewListener /\ Listener(NewListener)
    BY PlacedInit DEF Init, InitTrimaran
<1>2. /\ ScheduledPodsCache = [n \in Nodes |-> << >>] /\ metrics = None /\ now = 0
      /\ addedAt = [p \in Pods |-> None]
    BY DEF Init, InitTrimaran
<1>3. TrimaranTypes
    BY <1>2, EmptySeq DEF TrimaranTypes
<1>4. \A n \in Nodes : DOMAIN ScheduledPodsCache[n] = {}
    BY <1>2
<1>5. \A p \in Pods : addedAt[p] = None
    BY <1>2
<1> QED
    BY <1>1, <1>2, <1>3, <1>4, <1>5 DEF TrimaranInv, Dated, InOrder, Present, Young

LEMMA TrimaranNext ==
    ASSUME TrimaranInv, Exclusive, Placed, [Next]_vars
    PROVE  TrimaranInv'
<1>1. Placed' /\ Onward
    BY PlacedStep
<1>2. ASSUME UNCHANGED trVars PROVE TrimaranInv'
    BY <1>1, <1>2, TrimaranStays
<1>3. CASE TrimaranRuns
    BY <1>3, TrimaranSteps, TrimaranEvents DEF TrimaranRuns
<1>4. CASE Restart
    <2>1. CASE profile = "SySched"
        BY <1>2, <1>4, <2>1 DEF Restart
    <2>2. CASE profile # "SySched"
        <3>1. UNCHANGED <<version, node, gone>> /\ NewTrimaran
            BY <1>4, <2>2 DEF Restart
        <3>2. trEvents' = NewListener /\ Listener(NewListener)
            BY <3>1, NewListenerBehind DEF NewTrimaran
        <3>3. Listener(trEvents)'
            BY <3>1, <3>2 DEF Listener
        <3>4. /\ ScheduledPodsCache' = [n \in Nodes |-> << >>]
              /\ metrics' \in {None, now} /\ now' = now
              /\ addedAt' = [p \in Pods |-> None]
            BY <3>1 DEF NewTrimaran
        <3>5. now \in Nat
            BY DEF TrimaranInv, TrimaranTypes
        <3>6. TrimaranTypes'
            BY <3>4, <3>5, EmptySeq DEF TrimaranTypes
        <3>7. \A n \in Nodes : DOMAIN (ScheduledPodsCache'[n]) = {}
            BY <3>4
        <3>8. \A p \in Pods : addedAt'[p] = None
            BY <3>4
        <3>9. metrics' # None => metrics' <= now'
            BY <3>4, <3>5
        <3> QED
            BY <3>3, <3>6, <3>7, <3>8, <3>9 DEF TrimaranInv, Dated, InOrder, Present, Young
    <2> QED BY <2>1, <2>2
<1>5. ASSUME NEW p \in Pods, Cluster(p) PROVE TrimaranInv'
    BY <1>2, <1>5 DEF Cluster
<1>6. ASSUME NEW p \in Pods, SySchedRuns(p) PROVE TrimaranInv'
    BY <1>2, <1>6 DEF SySchedRuns
<1>7. ASSUME NEW p \in Pods, CycleRuns(p) PROVE TrimaranInv'
    BY <1>2, <1>7 DEF CycleRuns
<1>8. CASE UNCHANGED vars
    BY <1>2, <1>8 DEF vars
<1> QED
    BY <1>3, <1>4, <1>5, <1>6, <1>7, <1>8 DEF Next

\* The entry of a young pod is one that Score adds, however old the metrics.
LEMMA YoungArePredicted == TrimaranInv => RecentPodsPredicted
<1> SUFFICES ASSUME TrimaranInv, NEW n \in Nodes, metrics # None,
                    NEW p \in Pods \ trEvents.deleted, node[p] = n, addedAt[p] # None,
                    now < addedAt[p] + Interval
             PROVE  \E e \in missing(n) : e.pod = p
    BY DEF TrimaranInv, InOrder, RecentPodsPredicted
<1>1. PICK i \in DOMAIN ScheduledPodsCache[n] : ScheduledPodsCache[n][i].pod = p
    BY DEF TrimaranInv, Present, Young
<1>2. ScheduledPodsCache[n][i].ts = addedAt[p]
    BY <1>1 DEF TrimaranInv, Dated
<1>3. metrics \in Nat /\ now \in Nat /\ addedAt[p] \in Nat /\ metrics <= now
    BY DEF TrimaranInv, TrimaranTypes
<1>4. addedAt[p] > metrics \/ (addedAt[p] <= metrics /\ metrics - addedAt[p] < Interval)
    BY <1>3, IntervalAssumption
<1>5. ScheduledPodsCache[n][i] \in missing(n)
    BY <1>2, <1>4 DEF missing
<1> QED
    BY <1>1, <1>5

\* For any pods, nodes and interval, however the announcements, deletions,
\* cleanups, late metrics and restarts interleave: the entries of a node are in
\* the order of their times, as the search of cleanupCache needs, a pod has at
\* most one, and TargetLoadPacking adds the load of every pod announced less
\* than an interval ago.
THEOREM RecentArePredicted == Spec => []RecentPodsPredicted
<1> DEFINE Inv == Exclusive /\ Placed /\ TrimaranInv
<1>1. Init => Inv
    BY ExclusiveInit, PlacedInit, TrimaranInit DEF Init
<1>2. Inv /\ [Next]_vars => Inv'
    BY ExclusiveStep, PlacedStep, TrimaranNext
<1>3. Inv => RecentPodsPredicted
    BY YoungArePredicted
<1> QED
    BY <1>1, <1>2, <1>3, PTL DEF Spec

-----------------------------------------------------------------------------
(* The score of TargetLoadPacking *)

\* A fraction is rounded to no less than a whole number it reaches, to no more than
\* one it does not exceed, and a larger one to no less.
LEMMA Rounded ==
    ASSUME NEW a \in Int, NEW b \in Nat, 0 < b
    PROVE  /\ Scores!Round(a, b) \in Int
           /\ \A k \in Int : k * b <= a => k <= Scores!Round(a, b)
           /\ \A k \in Int : a <= k * b => Scores!Round(a, b) <= k
           /\ \A c \in Int : a <= c => Scores!Round(a, b) <= Scores!Round(c, b)
<1> DEFINE x == 2 * a + b
           d == 2 * b
<1>1. x \in Int /\ d \in Nat /\ 0 < d /\ Scores!Round(a, b) = x \div d
    BY DEF Scores!Round
<1>2. ASSUME NEW k \in Int, k * b <= a
      PROVE  k <= x \div d
    <2>1. k * d = 2 * (k * b) /\ k * b \in Int
        OBVIOUS
    <2>2. k * d <= x
        BY <1>2, <2>1
    <2> HIDE DEF x, d
    <2> QED BY <1>1, <2>2, QuotientBounds
<1>3. ASSUME NEW k \in Int, a <= k * b
      PROVE  x \div d <= k
    <2>1. k * d = 2 * (k * b) /\ k * b \in Int
        OBVIOUS
    <2>2. x < k * d + d
        BY <1>3, <2>1
    <2> HIDE DEF x, d
    <2> QED BY <1>1, <2>2, QuotientBounds
<1>4. ASSUME NEW c \in Int, a <= c
      PROVE  x \div d <= Scores!Round(c, b)
    <2> DEFINE y == 2 * c + b
    <2>1. y \in Int /\ x <= y /\ Scores!Round(c, b) = y \div d
        BY <1>4 DEF Scores!Round
    <2> HIDE DEF x, y, d
    <2> QED BY <1>1, <2>1, QuotientMono
<1>5. x \div d \in Int
    <2> HIDE DEF x, d
    <2> QED BY <1>1, QuotientOf
<1> HIDE DEF x, d
<1> QED BY <1>1, <1>2, <1>3, <1>4, <1>5

Loads == [util : Int, capacity : Nat, missing : Nat]

\* The load of a node with the pod, in hundredths of a unit.
Load(n, usage) == n.util * n.capacity + 100 * (usage + n.missing)

LEMMA LoadType ==
    ASSUME NEW n \in Loads, NEW usage \in Nat
    PROVE  /\ Load(n, usage) \in Int
           /\ n.util >= 0 => Load(n, usage) \in Nat
<1>1. n.util \in Int /\ n.capacity \in Nat /\ n.missing \in Nat
    BY DEF Loads
<1>2. n.util * n.capacity \in Int
    BY <1>1
<1>3. n.util >= 0 => n.util * n.capacity \in Nat
    BY <1>1
<1> QED BY <1>1, <1>2, <1>3 DEF Load

\* Up to the target the score rises from the target to 100.
LEMMA ScoreWithin ==
    ASSUME NEW t \in 1 .. 100, NEW load \in Nat, NEW cap \in Nat, 0 < cap, load <= t * cap
    PROVE  LET score(x) == Scores!Round((100 - t) * x + t * t * cap, t * cap)
           IN  /\ score(load) \in t .. 100
               /\ \A x \in Nat : load <= x => score(load) <= score(x)
<1> DEFINE d == t * cap
           Num(x) == (100 - t) * x + t * t * cap
<1>1. t \in Nat /\ 0 < t /\ 100 - t \in Nat
    OBVIOUS
<1>2. d \in Nat /\ 0 < d
    BY <1>1
<1>3. t * t * cap = t * d
    OBVIOUS
<1>4. \A x \in Nat : Num(x) \in Int /\ (100 - t) * x \in Nat
    BY <1>1
<1>5. t * d <= Num(load)
    BY <1>2, <1>3, <1>4
<1>6. Num(load) <= 100 * d
    <2>1. (100 - t) * (d - load) >= 0
        BY <1>1, <1>2
    <2>2. (100 - t) * load <= (100 - t) * d
        BY <1>1, <1>2, <2>1
    <2>3. (100 - t) * d + t * d = 100 * d
        BY <1>1, <1>2
    <2>4. (100 - t) * load \in Int /\ (100 - t) * d \in Int /\ t * d \in Int
        BY <1>1, <1>2
    <2> QED BY <1>3, <2>2, <2>3, <2>4
<1>7. ASSUME NEW x \in Nat, load <= x
      PROVE  Num(load) <= Num(x)
    <2>1. (100 - t) * (x - load) >= 0
        BY <1>1, <1>7
    <2>2. (100 - t) * load <= (100 - t) * x
        BY <1>1, <1>7, <2>1
    <2>3. t * t * cap \in Int
        BY <1>1
    <2> QED BY <1>4, <2>2, <2>3
<1> HIDE DEF d, Num
<1>8. Scores!Round(Num(load), d) \in t .. 100
    <2>1. Num(load) \in Int
        BY <1>4
    <2>2. /\ Scores!Round(Num(load), d) \in Int
          /\ t <= Scores!Round(Num(load), d)
          /\ Scores!Round(Num(load), d) <= 100
        <3>1. /\ Scores!Round(Num(load), d) \in Int
              /\ \A k \in Int : k * d <= Num(load) => k <= Scores!Round(Num(load), d)
              /\ \A k \in Int : Num(load) <= k * d => Scores!Round(Num(load), d) <= k
            BY <1>2, <2>1, Rounded
        <3>2. t \in Int /\ 100 \in Int
            BY <1>1
        <3> QED BY <1>5, <1>6, <3>1, <3>2
    <2> QED BY <2>2
<1>9. \A x \in Nat : load <= x => Scores!Round(Num(load), d) <= Scores!Round(Num(x), d)
    BY <1>2, <1>4, <1>7, Rounded
<1> QED BY <1>8, <1>9 DEF d, Num

\* Beyond the target the score falls from the target to 0.
LEMMA ScoreBeyond ==
    ASSUME NEW t \in 1 .. 100, NEW load \in Nat, NEW cap \in Nat, 0 < cap,
           t * cap < load, load <= 100 * cap
    PROVE  LET score(x) == Scores!Round(t * (100 * cap - x), (100 - t) * cap)
           IN  /\ score(load) \in 0 .. t
               /\ \A x \in Nat : load <= x => score(x) <= score(load)
<1> DEFINE d == (100 - t) * cap
           Num(x) == t * (100 * cap - x)
<1>1. t \in Nat /\ 0 < t /\ 100 - t \in Nat
    OBVIOUS
<1>2. t # 100
    OBVIOUS
<1>3. d \in Nat /\ 0 < d
    <2>1. 100 - t > 0
        BY <1>1, <1>2
    <2> QED BY <1>1, <2>1
<1>4. \A x \in Nat : Num(x) \in Int
    BY <1>1
<1>5. 0 * d <= Num(load)
    BY <1>1, <1>3
<1>6. Num(load) <= t * d
    <2>1. 100 * cap - load <= d
        BY <1>1
    <2>2. t * (d - (100 * cap - load)) >= 0
        BY <1>1, <1>3, <2>1
    <2> QED BY <1>1, <1>3, <2>2
<1>7. ASSUME NEW x \in Nat, load <= x
      PROVE  Num(x) <= Num(load)
    <2>1. t * (x - load) >= 0
        BY <1>1, <1>7
    <2> QED BY <1>1, <1>7, <2>1
<1> HIDE DEF d, Num
<1>8. Scores!Round(Num(load), d) \in 0 .. t
    <2>1. Num(load) \in Int
        BY <1>4
    <2>2. /\ Scores!Round(Num(load), d) \in Int
          /\ 0 <= Scores!Round(Num(load), d)
          /\ Scores!Round(Num(load), d) <= t
        BY <1>1, <1>3, <1>5, <1>6, <2>1, Rounded
    <2> QED BY <2>2
<1>9. \A x \in Nat : load <= x => Scores!Round(Num(x), d) <= Scores!Round(Num(load), d)
    BY <1>3, <1>4, <1>7, Rounded
<1> QED BY <1>8, <1>9 DEF d, Num

\* The score of a node that has metrics, in the three ranges of its load.
LEMMA PackingScore ==
    ASSUME NEW t \in 1 .. 100, NEW n \in Loads, n.util >= 0, NEW usage \in Nat
    PROVE  LET score == Scores!TargetLoadPackingScore(n, usage, t)
               load == Load(n, usage)
           IN  /\ score \in 0 .. 100
               /\ n.capacity = 0 => score = t
               /\ load <= t * n.capacity => score >= t
               /\ ~(load <= t * n.capacity) => score <= t
<1> DEFINE score == Scores!TargetLoadPackingScore(n, usage, t)
           load == Load(n, usage)
           cap == n.capacity
           Ranges == /\ score \in 0 .. 100
                     /\ cap = 0 => score = t
                     /\ load <= t * cap => score >= t
                     /\ ~(load <= t * cap) => score <= t
<1>1. n.util \in Int /\ cap \in Nat /\ load \in Nat /\ t \in Nat /\ 0 < t /\ t <= 100
    BY LoadType DEF Loads
<1>2. score = IF cap = 0 THEN t
              ELSE IF load > 100 * cap THEN 0
              ELSE IF load > t * cap THEN Scores!Round(t * (100 * cap - load), (100 - t) * cap)
              ELSE Scores!Round((100 - t) * load + t * t * cap, t * cap)
    BY <1>1 DEF Scores!TargetLoadPackingScore, Load
<1> HIDE DEF score, load, cap
<1>3. t * cap \in Nat /\ t * cap <= 100 * cap
    <2>1. (100 - t) * cap >= 0
        BY <1>1
    <2> QED BY <1>1, <2>1
<1>4. ASSUME cap = 0
      PROVE  Ranges
    BY <1>1, <1>2, <1>4
<1>5. ASSUME cap # 0 /\ load > 100 * cap
      PROVE  Ranges
    BY <1>1, <1>2, <1>3, <1>5
<1>6. ASSUME cap # 0 /\ ~(load > 100 * cap) /\ load > t * cap
      PROVE  Ranges
    <2>1. 0 < cap /\ t * cap < load /\ load <= 100 * cap
        BY <1>1, <1>3, <1>6
    <2>2. score \in 0 .. t
        BY <1>1, <1>2, <1>6, <2>1, ScoreBeyond
    <2> QED BY <1>1, <1>3, <1>6, <2>1, <2>2
<1>7. ASSUME cap # 0 /\ ~(load > 100 * cap) /\ ~(load > t * cap)
      PROVE  Ranges
    <2>1. 0 < cap /\ load <= t * cap
        BY <1>1, <1>3, <1>7
    <2>2. score \in t .. 100
        BY <1>1, <1>2, <1>7, <2>1, ScoreWithin
    <2> QED BY <1>1, <1>3, <1>7, <2>1, <2>2
<1>8. Ranges
    <2> HIDE DEF Ranges
    <2> QED BY <1>4, <1>5, <1>6, <1>7
<1> QED BY <1>8 DEF score, load, cap

\* Of two nodes of one size the fuller gets no less up to the target and no more
\* beyond it.
LEMMA PackingOrder ==
    ASSUME NEW t \in 1 .. 100, NEW m \in Loads, NEW n \in Loads, m.util >= 0, n.util >= 0,
           NEW usage \in Nat, m.capacity = n.capacity, Load(m, usage) < Load(n, usage)
    PROVE  LET Points(x) == Scores!TargetLoadPackingScore(x, usage, t)
           IN  /\ Load(n, usage) <= t * n.capacity => Points(m) <= Points(n)
               /\ ~(Load(m, usage) <= t * m.capacity) => Points(m) >= Points(n)
<1> DEFINE Points(x) == Scores!TargetLoadPackingScore(x, usage, t)
           a == Load(m, usage)
           b == Load(n, usage)
           cap == n.capacity
           Within(x) == Scores!Round((100 - t) * x + t * t * cap, t * cap)
           Beyond(x) == Scores!Round(t * (100 * cap - x), (100 - t) * cap)
           Value(x) == IF cap = 0 THEN t
                       ELSE IF x > 100 * cap THEN 0
                       ELSE IF x > t * cap THEN Beyond(x) ELSE Within(x)
<1>1. cap \in Nat /\ a \in Nat /\ b \in Nat /\ a < b /\ t \in Nat /\ 0 < t /\ t <= 100
    BY LoadType DEF Loads
<1>2. m.capacity = cap /\ m.util \in Int /\ n.util \in Int
    BY DEF Loads
<1>3. Points(n) = Value(b)
    BY <1>1, <1>2 DEF Scores!TargetLoadPackingScore, Load
<1>4. Points(m) = Value(a)
    BY <1>1, <1>2 DEF Scores!TargetLoadPackingScore, Load
<1>5. Points(m) \in Int /\ Points(n) \in Int /\ 0 <= Points(m)
    <2>1. Points(m) \in 0 .. 100 /\ Points(n) \in 0 .. 100
        BY PackingScore
    <2> QED BY <2>1
<1> HIDE DEF Points, a, b, cap
<1>6. t * cap \in Nat /\ t * cap <= 100 * cap
    <2>1. (100 - t) * cap >= 0
        BY <1>1
    <2> QED BY <1>1, <2>1
<1>7. ASSUME cap = 0
      PROVE  Points(m) = Points(n)
    BY <1>3, <1>4, <1>7
<1>8. ASSUME cap # 0
      PROVE  /\ b <= t * cap => Points(m) <= Points(n)
             /\ ~(a <= t * cap) => Points(m) >= Points(n)
    <2>1. 0 < cap
        BY <1>1, <1>8
    <2>2. ASSUME b <= t * cap
          PROVE  Points(m) <= Points(n)
        <3>1. a <= t * cap /\ ~(a > 100 * cap) /\ ~(a > t * cap) /\ ~(b > 100 * cap) /\ ~(b > t * cap) /\ a <= b
            BY <1>1, <1>6, <2>2
        <3>2. Within(a) <= Within(b)
            BY <1>1, <2>1, <3>1, ScoreWithin
        <3>3. Points(m) = Within(a) /\ Points(n) = Within(b)
            BY <1>3, <1>4, <1>8, <3>1
        <3> QED BY <3>2, <3>3
    <2>3. ASSUME ~(a <= t * cap)
          PROVE  Points(m) >= Points(n)
        <3>1. t * cap < a /\ a <= b /\ a > t * cap /\ b > t * cap
            BY <1>1, <1>6, <2>3
        <3>2. CASE b > 100 * cap
            <4>1. Points(n) = 0
                BY <1>3, <1>8, <3>2
            <4> QED BY <1>5, <4>1
        <3>3. CASE ~(b > 100 * cap)
            <4>1. a <= 100 * cap /\ ~(a > 100 * cap)
                BY <1>1, <3>1, <3>3
            <4>2. Beyond(b) <= Beyond(a)
                BY <1>1, <2>1, <3>1, <4>1, ScoreBeyond
            <4>3. Points(m) = Beyond(a) /\ Points(n) = Beyond(b)
                BY <1>3, <1>4, <1>8, <3>1, <3>3, <4>1
            <4> QED BY <1>5, <4>2, <4>3
        <3> QED BY <3>2, <3>3
    <2> QED BY <2>2, <2>3
<1>9. /\ b <= t * cap => Points(m) <= Points(n)
      /\ ~(a <= t * cap) => Points(m) >= Points(n)
    <2>1. CASE cap = 0
        BY <1>5, <1>7, <2>1
    <2>2. CASE cap # 0
        BY <1>8, <2>2
    <2> QED BY <2>1, <2>2
<1> QED BY <1>2, <1>9 DEF a, b, cap, Points

\* What a pod is predicted to use is a number.
LEMMA UtilisationType ==
    ASSUME NEW pod \in Seq([request : Int, limit : Int]), NEW overhead \in Nat,
           NEW default \in Nat, NEW multiplier \in Nat
    PROVE  Scores!PodUtilisation(pod, overhead, default, multiplier) \in Nat
<1> DEFINE C == [request : Int, limit : Int]
           f == [i \in DOMAIN pod |-> Scores!PredictUtilisation(pod[i], default, multiplier)]
<1>1. \A c \in C : Scores!PredictUtilisation(c, default, multiplier) \in Nat
    <2>1. SUFFICES ASSUME NEW c \in C, c.request >= 0
                   PROVE  Scores!Round(c.request * multiplier, 100) \in Nat
        BY DEF Scores!PredictUtilisation
    <2> DEFINE x == c.request * multiplier
    <2>2. x \in Nat
        BY <2>1
    <2> HIDE DEF x
    <2>3. Scores!Round(x, 100) \in Int /\ 0 <= Scores!Round(x, 100)
        BY <2>2, Rounded
    <2> QED BY <2>3 DEF x
<1>2. pod \in Seq(C)
    OBVIOUS
<1> HIDE DEF C
<1>3. DOMAIN pod = 1 .. Len(pod) /\ Len(pod) \in Nat /\ \A i \in DOMAIN pod : pod[i] \in C
    BY <1>2
<1>4. IsFiniteSet(DOMAIN pod) /\ DOMAIN f = DOMAIN pod /\ \A i \in DOMAIN f : f[i] \in Nat
    BY <1>1, <1>3, FS_Interval
<1> HIDE DEF f
<1>5. SumFunctionOnSet(f, DOMAIN f) \in Nat
    BY <1>4, SumNat
<1>6. Scores!SumFunction(f) = SumFunctionOnSet(f, DOMAIN f)
    BY DEF Scores!SumFunction, Scores!SumFunctionOnSet, Scores!FoldFunctionOnSet,
           Scores!MapThenFoldSet, SumFunctionOnSet, FoldFunctionOnSet, MapThenFoldSet
<1> QED BY <1>5, <1>6 DEF Scores!PodUtilisation, f

\* TargetLoadPacking fills nodes up to the target and spreads beyond it, whatever is
\* rounded: for any nodes, capacities, measured utilisations, pods with any
\* containers and overhead, and a target of 1 to 100 percent.
THEOREM PackingIsSound ==
    ASSUME NEW nodes \in SUBSET Loads, NEW goal \in 1 .. 100,
           NEW pod \in Seq([request : Int, limit : Int]), NEW overhead \in Nat,
           NEW default \in Nat, NEW multiplier \in Nat
    PROVE  Scores!PackingSound(nodes, Scores!PodUtilisation(pod, overhead, default, multiplier), goal)
<1> DEFINE usage == Scores!PodUtilisation(pod, overhead, default, multiplier)
           Points(n) == Scores!TargetLoadPackingScore(n, usage, goal)
           Within(n) == Load(n, usage) <= goal * n.capacity
<1>1. usage \in Nat
    BY UtilisationType
<1> HIDE DEF usage
<1>2. ASSUME NEW n \in nodes
      PROVE  /\ Points(n) \in 0 .. 100
             /\ n.util < 0 => Points(n) = 0
             /\ n.util >= 0 => /\ Within(n) => Points(n) >= goal
                               /\ ~Within(n) => Points(n) <= goal
    <2>1. n \in Loads /\ n.util \in Int
        BY DEF Loads
    <2>2. n.util < 0 => Points(n) = 0
        BY DEF Scores!TargetLoadPackingScore
    <2>3. ASSUME n.util >= 0
          PROVE  /\ Points(n) \in 0 .. 100
                 /\ Within(n) => Points(n) >= goal
                 /\ ~Within(n) => Points(n) <= goal
        BY <1>1, <2>1, <2>3, PackingScore
    <2>4. Points(n) \in 0 .. 100
        <3> DEFINE x == Points(n)
        <3>1. n.util < 0 => x = 0
            BY <2>2
        <3>2. n.util >= 0 => x \in 0 .. 100
            BY <2>3
        <3> HIDE DEF x
        <3>3. n.util < 0 \/ n.util >= 0
            BY <2>1
        <3>4. 0 \in 0 .. 100
            OBVIOUS
        <3>5. x \in 0 .. 100
            BY <3>1, <3>2, <3>3, <3>4, Zenon
        <3> QED BY <3>5 DEF x
    <2> QED BY <2>1, <2>2, <2>3, <2>4
<1>3. ASSUME NEW m \in nodes, NEW n \in nodes
      PROVE  /\ Points(n) \in 0 .. Scores!MaxNodeScore
             /\ m.util < 0 => Points(m) <= Points(n)
             /\ m.util >= 0 /\ n.util >= 0 =>
                   /\ Within(m) /\ ~Within(n) => Points(m) >= Points(n)
                   /\ m.capacity = n.capacity /\ Load(m, usage) < Load(n, usage) =>
                         /\ Within(n) => Points(m) <= Points(n)
                         /\ ~Within(m) => Points(m) >= Points(n)
    <2>1. Points(n) \in 0 .. 100 /\ Points(m) \in 0 .. 100
        BY <1>2
    <2>2. Points(n) \in 0 .. Scores!MaxNodeScore
        BY <2>1 DEF Scores!MaxNodeScore
    <2>3. m.util < 0 => Points(m) <= Points(n)
        <3> DEFINE x == Points(n)
                   y == Points(m)
        <3>1. (m.util < 0 => y = 0) /\ x \in 0 .. 100
            BY <1>2, <2>1
        <3> HIDE DEF x, y
        <3>2. m.util < 0 => y <= x
            BY <3>1
        <3> QED BY <3>2 DEF x, y
    <2>4. ASSUME m.util >= 0, n.util >= 0, Within(m), ~Within(n)
          PROVE  Points(m) >= Points(n)
        <3> DEFINE x == Points(n)
                   y == Points(m)
        <3>1. y >= goal /\ x <= goal /\ x \in Int /\ y \in Int
            <4>1. y >= goal /\ x <= goal
                BY <1>2, <2>4
            <4>2. x \in 0 .. 100 /\ y \in 0 .. 100
                BY <2>1
            <4> HIDE DEF x, y
            <4> QED BY <4>1, <4>2
        <3> HIDE DEF x, y
        <3>2. y >= x
            BY <3>1
        <3> QED BY <3>2 DEF x, y
    <2>5. ASSUME m.util >= 0, n.util >= 0, m.capacity = n.capacity, Load(m, usage) < Load(n, usage)
          PROVE  /\ Within(n) => Points(m) <= Points(n)
                 /\ ~Within(m) => Points(m) >= Points(n)
        BY <1>1, <2>5, PackingOrder
    <2> QED BY <2>2, <2>3, <2>4, <2>5
<1> QED BY <1>3, Zenon DEF Scores!PackingSound, Load, usage

-----------------------------------------------------------------------------
(* The scores of NodeResourcesAllocatable, PodState and NetworkOverhead *)

LEMMA ExtremesOf ==
    ASSUME NEW f, IsFiniteSet(DOMAIN f), DOMAIN f # {}, \A x \in DOMAIN f : f[x] \in Int
    PROVE  LET values == {f[x] : x \in DOMAIN f}
           IN  /\ \E x \in DOMAIN f : f[x] = Scores!Min(values)
               /\ \E x \in DOMAIN f : f[x] = Scores!Max(values)
               /\ \A x \in DOMAIN f : Scores!Min(values) <= f[x] /\ f[x] <= Scores!Max(values)
               /\ Scores!Min(values) \in Int /\ Scores!Max(values) \in Int
<1> DEFINE values == {f[x] : x \in DOMAIN f}
           min == Scores!Min(values)
           max == Scores!Max(values)
<1>1. PICK l \in DOMAIN f : \A y \in DOMAIN f : f[l] <= f[y]
    BY LeastValue
<1>2. PICK g \in DOMAIN f : \A y \in DOMAIN f : f[g] >= f[y]
    BY GreatestValue
<1>3. \E x \in values : \A y \in values : x <= y
    BY <1>1
<1>4. \E x \in values : \A y \in values : x >= y
    BY <1>2
<1>5. min \in values /\ \A y \in values : min <= y
    <2> HIDE DEF values
    <2> QED BY <1>3 DEF Scores!Min
<1>6. max \in values /\ \A y \in values : max >= y
    <2> HIDE DEF values
    <2> QED BY <1>4 DEF Scores!Max
<1> HIDE DEF min, max
<1>7. min \in Int /\ max \in Int
    BY <1>5, <1>6
<1>8. \A x \in DOMAIN f : min <= f[x] /\ f[x] <= max
    BY <1>5, <1>6, <1>7
<1> QED BY <1>5, <1>6, <1>7, <1>8 DEF min, max

\* A value between two others, in percent of their distance from the lower one.
LEMMA Scaled ==
    ASSUME NEW min \in Int, NEW max \in Int, min < max
    PROVE  LET At(x) == ((x - min) * 100) \div (max - min)
           IN  /\ At(min) = 0 /\ At(max) = 100
               /\ \A x \in Int : min <= x /\ x <= max => At(x) \in 0 .. 100
               /\ \A x, y \in Int : x <= y => At(x) <= At(y)
<1> DEFINE d == max - min
           Num(x) == (x - min) * 100
<1>1. d \in Nat /\ 0 < d
    OBVIOUS
<1>2. \A x \in Int : Num(x) \in Int
    OBVIOUS
<1>3. Num(min) = 0 /\ Num(max) = 100 * d
    OBVIOUS
<1>4. \A x, y \in Int : x <= y => Num(x) <= Num(y)
    OBVIOUS
<1> HIDE DEF d, Num
<1>5. \A x \in Int : Num(x) \div d \in Int
    BY <1>1, <1>2, QuotientOf
<1>6. \A x, y \in Int : x <= y => Num(x) \div d <= Num(y) \div d
    BY <1>1, <1>2, <1>4, QuotientMono
<1>7. Num(min) \div d = 0
    <2>1. /\ 0 * d <= 0 => 0 <= 0 \div d
          /\ 0 < 0 * d + d => 0 \div d <= 0
        BY <1>1, QuotientBounds
    <2>2. 0 * d = 0 /\ 0 \div d \in Int
        BY <1>1, QuotientOf
    <2> QED BY <1>1, <1>3, <2>1, <2>2
<1>8. Num(max) \div d = 100
    <2>1. 100 * d \in Int
        BY <1>1
    <2>2. /\ 100 * d <= 100 * d => 100 <= (100 * d) \div d
          /\ 100 * d < 100 * d + d => (100 * d) \div d <= 100
        BY <1>1, <2>1, QuotientBounds
    <2>3. (100 * d) \div d \in Int
        BY <1>1, <2>1, QuotientOf
    <2> QED BY <1>1, <1>3, <2>1, <2>2, <2>3
<1>9. ASSUME NEW x \in Int, min <= x, x <= max
      PROVE  Num(x) \div d \in 0 .. 100
    <2>1. Num(min) \div d <= Num(x) \div d /\ Num(x) \div d <= Num(max) \div d
        BY <1>6, <1>9
    <2> QED BY <1>5, <1>7, <1>8, <2>1
<1> QED BY <1>6, <1>7, <1>8, <1>9 DEF d, Num

\* NormalizeScore keeps the order, stays within the scores and, if nodes differ at
\* all, gives the worst 0 and the best 100.
LEMMA NormalizedInRange ==
    ASSUME NEW f, IsFiniteSet(DOMAIN f), DOMAIN f # {}, \A x \in DOMAIN f : f[x] \in Int
    PROVE  LET g == Scores!NormalizeScore(f)
           IN  /\ DOMAIN g = DOMAIN f
               /\ \A x \in DOMAIN f : g[x] \in 0 .. 100
               /\ \A x, y \in DOMAIN f : f[x] <= f[y] => g[x] <= g[y]
               /\ (\E x, y \in DOMAIN g : g[x] # g[y]) =>
                     (\E x \in DOMAIN g : g[x] = 0) /\ (\E x \in DOMAIN g : g[x] = 100)
<1> DEFINE min == Scores!Min({f[x] : x \in DOMAIN f})
           max == Scores!Max({f[x] : x \in DOMAIN f})
           g == Scores!NormalizeScore(f)
           At(x) == ((x - min) * 100) \div (max - min)
<1>1. /\ \E x \in DOMAIN f : f[x] = min
      /\ \E x \in DOMAIN f : f[x] = max
      /\ \A x \in DOMAIN f : min <= f[x] /\ f[x] <= max
      /\ min \in Int /\ max \in Int
    BY ExtremesOf
<1>2. g = [x \in DOMAIN f |-> IF max - min = 0 THEN 0 ELSE At(f[x])]
    BY DEF Scores!NormalizeScore, Scores!MaxNodeScore
<1> HIDE DEF min, max, g
<1>3. DOMAIN g = DOMAIN f
    BY <1>2
<1>4. min <= max
    BY <1>1
<1>5. CASE max - min = 0
    <2>1. \A x \in DOMAIN f : g[x] = 0
        BY <1>2, <1>5
    <2> QED BY <1>3, <2>1 DEF g
<1>6. CASE max - min # 0
    <2>1. min < max
        BY <1>1, <1>4, <1>6
    <2>2. \A x \in DOMAIN f : g[x] = At(f[x])
        BY <1>2, <1>6
    <2>3. /\ At(min) = 0 /\ At(max) = 100
          /\ \A x \in Int : min <= x /\ x <= max => At(x) \in 0 .. 100
          /\ \A x, y \in Int : x <= y => At(x) <= At(y)
        BY <1>1, <2>1, Scaled
    <2> HIDE DEF At
    <2>4. \A x \in DOMAIN f : g[x] \in 0 .. 100
        BY <1>1, <2>2, <2>3
    <2>5. \A x, y \in DOMAIN f : f[x] <= f[y] => g[x] <= g[y]
        BY <2>2, <2>3
    <2>6. (\E x \in DOMAIN f : g[x] = 0) /\ (\E x \in DOMAIN f : g[x] = 100)
        BY <1>1, <2>2, <2>3
    <2> QED BY <1>3, <2>4, <2>5, <2>6 DEF g
<1> QED BY <1>5, <1>6

LEMMA QuoMono ==
    ASSUME NEW a \in Int, NEW b \in Int, a <= b, NEW d \in Nat, 0 < d
    PROVE  /\ Scores!Quo(a, d) \in Int /\ Scores!Quo(b, d) \in Int
           /\ Scores!Quo(a, d) <= Scores!Quo(b, d)
<1>1. \A x \in Int : x \div d \in Int
    BY QuotientOf
<1>2. \A x \in Int : x >= 0 => 0 <= x \div d
    <2>1. \A x \in Int : 0 * d <= x => 0 <= x \div d
        BY QuotientBounds
    <2> QED BY <2>1
<1>3. CASE a >= 0
    BY <1>1, <1>3, QuotientMono DEF Scores!Quo
<1>4. CASE a < 0 /\ b < 0
    <2>1. -b <= -a /\ -a \in Int /\ -b \in Int
        BY <1>4
    <2>2. (-b) \div d <= (-a) \div d
        BY <2>1, QuotientMono
    <2>3. (-b) \div d \in Int /\ (-a) \div d \in Int
        BY <1>1, <2>1
    <2> QED BY <1>4, <2>2, <2>3 DEF Scores!Quo
<1>5. CASE a < 0 /\ ~(b < 0)
    <2>1. -a \in Int /\ -a >= 0 /\ b >= 0
        BY <1>5
    <2>2. 0 <= (-a) \div d /\ (-a) \div d \in Int /\ 0 <= b \div d /\ b \div d \in Int
        BY <1>1, <1>2, <2>1
    <2> QED BY <1>5, <2>2 DEF Scores!Quo
<1> QED BY <1>3, <1>4, <1>5

LEMMA SameScoringSum ==
    ASSUME NEW f
    PROVE  Scores!SumFunction(f) = SumFunctionOnSet(f, DOMAIN f)
BY DEF Scores!SumFunction, Scores!SumFunctionOnSet, Scores!FoldFunctionOnSet,
       Scores!MapThenFoldSet, SumFunctionOnSet, FoldFunctionOnSet, MapThenFoldSet

\* More of every resource never lowers the weighted mean, nor raises it in mode
\* Least.
LEMMA AllocatableMono ==
    ASSUME NEW weights, IsFiniteSet(DOMAIN weights), DOMAIN weights # {},
           \A r \in DOMAIN weights : weights[r] \in Nat \ {0},
           NEW a, NEW b, \A r \in DOMAIN weights : a[r] \in Int /\ b[r] \in Int /\ a[r] <= b[r]
    PROVE  LET Mean(c, mode) == Scores!AllocatableScore(c, weights, mode)
           IN  /\ Mean(a, "Most") \in Int /\ Mean(a, "Most") <= Mean(b, "Most")
               /\ Mean(a, "Least") \in Int /\ Mean(b, "Least") <= Mean(a, "Least")
<1> DEFINE W == DOMAIN weights
           total == SumFunctionOnSet(weights, W)
           Most(c) == [r \in W |-> c[r] * weights[r]]
           Least(c) == [r \in W |-> (-c[r]) * weights[r]]
<1>1. total \in Nat /\ 0 < total
    <2>1. PICK r \in W : TRUE
        OBVIOUS
    <2>2. total = weights[r] + SumFunctionOnSet(weights, W \ {r})
        BY SumRemove
    <2>3. IsFiniteSet(W \ {r})
        BY FS_Subset
    <2>4. SumFunctionOnSet(weights, W \ {r}) \in Nat
        BY <2>3, SumNat
    <2>5. weights[r] \in Nat \ {0}
        OBVIOUS
    <2> HIDE DEF total
    <2> QED BY <2>2, <2>4, <2>5
<1>2. \A c : /\ Scores!AllocatableScore(c, weights, "Most") = Scores!Quo(Scores!SumFunction(Most(c)), Scores!SumFunction(weights))
             /\ Scores!AllocatableScore(c, weights, "Least") = Scores!Quo(Scores!SumFunction(Least(c)), Scores!SumFunction(weights))
    BY DEF Scores!AllocatableScore
<1>3. \A c : /\ Scores!SumFunction(Most(c)) = SumFunctionOnSet(Most(c), W)
             /\ Scores!SumFunction(Least(c)) = SumFunctionOnSet(Least(c), W)
    BY SameScoringSum
<1>4. Scores!SumFunction(weights) = total
    BY SameScoringSum
<1>5. \A x, y \in Int, w \in Nat : x <= y => x * w <= y * w /\ (-y) * w <= (-x) * w
    <2>1. \A x, y \in Int, w \in Nat : x <= y => (y - x) * w >= 0
        OBVIOUS
    <2> QED BY <2>1
<1>6. \A x \in Int, w \in Nat : x * w \in Int /\ (-x) * w \in Int
    OBVIOUS
<1>7. \A r \in W : Most(a)[r] \in Int /\ Most(b)[r] \in Int /\ Most(a)[r] <= Most(b)[r]
    BY <1>5, <1>6
<1>8. \A r \in W : Least(a)[r] \in Int /\ Least(b)[r] \in Int /\ Least(b)[r] <= Least(a)[r]
    BY <1>5, <1>6
<1> HIDE DEF total, Most, Least
<1>9. /\ SumFunctionOnSet(Most(a), W) \in Int /\ SumFunctionOnSet(Most(b), W) \in Int
      /\ SumFunctionOnSet(Least(a), W) \in Int /\ SumFunctionOnSet(Least(b), W) \in Int
    BY <1>7, <1>8, SumInt
<1>10. SumFunctionOnSet(Most(a), W) <= SumFunctionOnSet(Most(b), W)
    BY <1>7, SumMono
<1>11. SumFunctionOnSet(Least(b), W) <= SumFunctionOnSet(Least(a), W)
    BY <1>8, SumMono
<1>12. /\ Scores!Quo(SumFunctionOnSet(Most(a), W), total) \in Int
       /\ Scores!Quo(SumFunctionOnSet(Most(a), W), total) <= Scores!Quo(SumFunctionOnSet(Most(b), W), total)
    BY <1>1, <1>9, <1>10, QuoMono
<1>13. /\ Scores!Quo(SumFunctionOnSet(Least(a), W), total) \in Int
       /\ Scores!Quo(SumFunctionOnSet(Least(b), W), total) <= Scores!Quo(SumFunctionOnSet(Least(a), W), total)
    BY <1>1, <1>9, <1>11, QuoMono
<1> QED BY <1>2, <1>3, <1>4, <1>12, <1>13

\* NodeResourcesAllocatable ranks a node with no less of any resource never behind
\* in mode Most and never ahead in mode Least, and PodState one with more
\* terminating and no more nominated pods never behind; scores stay within 0 to 100
\* and reach both ends if any two differ: for any nodes, resources and weights.
THEOREM NormalizedIsSound ==
    ASSUME NEW weights, IsFiniteSet(DOMAIN weights), DOMAIN weights # {},
           \A r \in DOMAIN weights : weights[r] \in Nat \ {0},
           NEW nodes, IsFiniteSet(DOMAIN nodes), DOMAIN nodes # {},
           \A n \in DOMAIN nodes : /\ nodes[n].terminating \in Nat /\ nodes[n].nominated \in Nat
                                   /\ \A r \in DOMAIN weights : nodes[n][r] \in Nat
    PROVE  Scores!NormalizedSound(nodes, weights)
<1> DEFINE N == DOMAIN nodes
           Mean(n, mode) == Scores!AllocatableScore(nodes[n], weights, mode)
           most == [n \in N |-> Mean(n, "Most")]
           least == [n \in N |-> Mean(n, "Least")]
           state == [n \in N |-> Scores!PodStateScore(nodes[n])]
           Most == Scores!NormalizeScore(most)
           Least == Scores!NormalizeScore(least)
           State == Scores!NormalizeScore(state)
           InRange(f) ==
               /\ \A n \in DOMAIN f : f[n] \in 0 .. Scores!MaxNodeScore
               /\ (\E m, n \in DOMAIN f : f[m] # f[n]) =>
                     (\E n \in DOMAIN f : f[n] = 0) /\ (\E n \in DOMAIN f : f[n] = Scores!MaxNodeScore)
<1>1. \A m, n \in N : (\A r \in DOMAIN weights : nodes[m][r] <= nodes[n][r]) =>
         Mean(m, "Most") <= Mean(n, "Most") /\ Mean(n, "Least") <= Mean(m, "Least")
    BY AllocatableMono
<1>2. \A n \in N : Mean(n, "Most") \in Int /\ Mean(n, "Least") \in Int
    BY AllocatableMono
<1>3. \A n \in N : Scores!PodStateScore(nodes[n]) \in Int
    BY DEF Scores!PodStateScore
<1>4. ASSUME NEW m \in N, NEW n \in N, nodes[m].terminating <= nodes[n].terminating,
             nodes[m].nominated >= nodes[n].nominated
      PROVE  Scores!PodStateScore(nodes[m]) <= Scores!PodStateScore(nodes[n])
    BY <1>4 DEF Scores!PodStateScore
<1>5. DOMAIN most = N /\ \A n \in N : most[n] = Mean(n, "Most") /\ most[n] \in Int
    BY <1>2
<1>6. DOMAIN least = N /\ \A n \in N : least[n] = Mean(n, "Least") /\ least[n] \in Int
    BY <1>2
<1>7. DOMAIN state = N /\ \A n \in N : state[n] = Scores!PodStateScore(nodes[n]) /\ state[n] \in Int
    BY <1>3
<1> HIDE DEF Mean, most, least, state
<1>8. /\ InRange(Most) /\ DOMAIN Most = N
      /\ \A m, n \in N : most[m] <= most[n] => Most[m] <= Most[n]
    BY <1>5, NormalizedInRange DEF Scores!MaxNodeScore
<1>9. /\ InRange(Least) /\ DOMAIN Least = N
      /\ \A m, n \in N : least[m] <= least[n] => Least[m] <= Least[n]
    BY <1>6, NormalizedInRange DEF Scores!MaxNodeScore
<1>10. /\ InRange(State) /\ DOMAIN State = N
       /\ \A m, n \in N : state[m] <= state[n] => State[m] <= State[n]
    BY <1>7, NormalizedInRange DEF Scores!MaxNodeScore
<1>11. ASSUME NEW m \in N, NEW n \in N, \A r \in DOMAIN weights : nodes[m][r] <= nodes[n][r]
       PROVE  Most[m] <= Most[n] /\ Least[m] >= Least[n]
    <2>1. most[m] <= most[n] /\ least[n] <= least[m]
        BY <1>1, <1>5, <1>6, <1>11
    <2>2. Most[m] <= Most[n] /\ Least[n] <= Least[m]
        BY <1>8, <1>9, <2>1
    <2>3. Least[m] \in Int /\ Least[n] \in Int
        BY <1>9 DEF Scores!MaxNodeScore
    <2> QED BY <2>2, <2>3
<1>12. ASSUME NEW m \in N, NEW n \in N, nodes[m].terminating <= nodes[n].terminating,
              nodes[m].nominated >= nodes[n].nominated
       PROVE  State[m] <= State[n]
    BY <1>4, <1>7, <1>10, <1>12
<1> HIDE DEF Most, Least, State, InRange
<1> QED BY <1>8, <1>9, <1>10, <1>11, <1>12, Zenon
        DEF Scores!NormalizedSound, Most, Least, State, InRange, most, least, state, Mean

\* NetworkOverhead ranks the nodes that pass its filter by their cost: scores are
\* from 0 to 100, a cheaper node is never behind, and the cheapest get 100 unless
\* nothing costs anything: for any nodes and costs.
THEOREM CostsAreRanked ==
    ASSUME NEW S, IsFiniteSet(S), S # {}, NEW raw \in [S -> Nat]
    PROVE  Network!Ranked(raw, Network!NormalizeScore(raw))
<1> DEFINE values == {raw[n] : n \in DOMAIN raw}
           min == Network!Min(values)
           max == Network!Max(values)
           final == Network!NormalizeScore(raw)
           At(x) == ((x - min) * 100) \div (max - min)
<1>1. /\ \E x \in DOMAIN raw : raw[x] = min
      /\ \E x \in DOMAIN raw : raw[x] = max
      /\ \A x \in DOMAIN raw : min <= raw[x] /\ raw[x] <= max
      /\ min \in Int /\ max \in Int
    <2>1. min = Scores!Min(values) /\ max = Scores!Max(values)
        BY DEF Network!Min, Network!Max, Scores!Min, Scores!Max
    <2>2. DOMAIN raw = S /\ \A x \in DOMAIN raw : raw[x] \in Int
        OBVIOUS
    <2> HIDE DEF min, max
    <2> QED BY <2>1, <2>2, ExtremesOf
<1>2. final = IF min = 0 /\ max = 0 THEN raw
              ELSE [n \in DOMAIN raw |-> 100 - IF max # min THEN (100 * (raw[n] - min)) \div (max - min) ELSE 0]
    BY DEF Network!NormalizeScore
<1> HIDE DEF min, max, final
<1>3. min \in Nat /\ max \in Nat /\ min <= max
    BY <1>1
<1>4. CASE min = 0 /\ max = 0
    <2>1. \A n \in DOMAIN raw : raw[n] = 0 /\ final[n] = 0
        BY <1>1, <1>2, <1>4
    <2> QED BY <2>1 DEF Network!Ranked, final
<1>5. CASE max = min /\ max # 0
    <2>1. \A n \in DOMAIN raw : final[n] = 100 /\ raw[n] = min
        BY <1>1, <1>2, <1>3, <1>5
    <2> QED BY <1>3, <2>1 DEF Network!Ranked, final
<1>6. CASE max # min
    <2>1. min < max
        BY <1>3, <1>6
    <2>2. /\ At(min) = 0 /\ At(max) = 100
          /\ \A x \in Int : min <= x /\ x <= max => At(x) \in 0 .. 100
          /\ \A x, y \in Int : x <= y => At(x) <= At(y)
        BY <1>1, <2>1, Scaled
    <2>3. \A n \in DOMAIN raw : 100 * (raw[n] - min) = (raw[n] - min) * 100
        BY <1>1
    <2>4. \A n \in DOMAIN raw : final[n] = 100 - At(raw[n])
        BY <1>2, <1>6, <2>3
    <2> HIDE DEF At
    <2>5. \A n \in DOMAIN raw : At(raw[n]) \in 0 .. 100 /\ final[n] \in 0 .. 100
        BY <1>1, <2>2, <2>4
    <2>6. ASSUME NEW m \in DOMAIN raw, NEW n \in DOMAIN raw, raw[m] < raw[n]
          PROVE  final[m] >= final[n]
        <3>1. At(raw[m]) <= At(raw[n])
            BY <2>2, <2>6
        <3>2. At(raw[m]) \in Int /\ At(raw[n]) \in Int
            BY <2>5
        <3> QED BY <2>4, <3>1, <3>2
    <2>7. ASSUME NEW m \in DOMAIN raw, \A n \in DOMAIN raw : raw[m] <= raw[n]
          PROVE  final[m] = 100
        <3>1. raw[m] = min
            BY <1>1, <1>3, <2>7
        <3> QED BY <2>2, <2>4, <3>1
    <2> QED BY <2>5, <2>6, <2>7 DEF Network!Ranked, final
<1> QED BY <1>4, <1>5, <1>6

-----------------------------------------------------------------------------
(* The limits LowRiskOverCommitment weighs *)


LEMMA EffectiveType ==
    ASSUME NEW pod \in PodSpecs, NEW field \in {"request", "limit"}
    PROVE  Scores!GetEffectiveResource(pod, field) \in Nat
<1> DEFINE app == pod.app
           init == pod.init
           f == [i \in DOMAIN app |-> Scores!AtLeast(app[i][field], 0)]
           g == [i \in DOMAIN init |-> Scores!AtLeast(init[i][field], 0)]
           sum == Scores!SumFunction(f)
           S == {sum} \cup {Scores!AtLeast(init[i][field], 0) : i \in DOMAIN init}
<1>1. app \in Seq(Amount) /\ init \in Seq(Amount) /\ pod.overhead \in Nat
    BY DEF PodSpecs
<1>2. \A c \in Amount : Scores!AtLeast(c[field], 0) \in Nat
    BY DEF Amount, Scores!AtLeast
<1>3. /\ DOMAIN app = 1 .. Len(app) /\ Len(app) \in Nat /\ \A i \in DOMAIN app : app[i] \in Amount
      /\ DOMAIN init = 1 .. Len(init) /\ Len(init) \in Nat /\ \A i \in DOMAIN init : init[i] \in Amount
    <2> HIDE DEF app, init
    <2> QED BY <1>1
<1> HIDE DEF app, init
<1>4. \A k \in Nat : IsFiniteSet(1 .. k)
    BY FS_Interval
<1>5. sum \in Nat
    <2>1. DOMAIN f = DOMAIN app /\ \A i \in DOMAIN f : f[i] \in Nat
        BY <1>2, <1>3
    <2> HIDE DEF f
    <2>2. SumFunctionOnSet(f, DOMAIN f) \in Nat
        BY <1>3, <1>4, <2>1, SumNat
    <2> QED BY <2>2, SameScoringSum
<1> HIDE DEF sum
<1>6. S \subseteq Nat
    BY <1>2, <1>3, <1>5
<1>7. \E x \in S : \A y \in S : x >= y
    <2>1. CASE DOMAIN init = {}
        <3>1. S = {sum}
            BY <2>1
        <3>2. sum >= sum
            BY <1>5
        <3>3. \A y \in {sum} : sum >= y
            BY <3>2
        <3> HIDE DEF S
        <3> QED BY <3>1, <3>3
    <2>2. CASE DOMAIN init # {}
        <3>1. \A i \in DOMAIN init : g[i] = Scores!AtLeast(init[i][field], 0) /\ g[i] \in Int
            BY <1>2, <1>3
        <3> HIDE DEF g
        <3>2. PICK i \in DOMAIN init : \A y \in DOMAIN init : g[i] >= g[y]
            BY <1>3, <1>4, <2>2, <3>1, GreatestValue
        <3>3. CASE g[i] >= sum
            <4>1. \A y \in S : g[i] >= y
                BY <3>1, <3>2, <3>3
            <4>2. g[i] \in S
                BY <3>1
            <4> QED BY <4>1, <4>2
        <3>4. CASE ~(g[i] >= sum)
            <4>1. \A y \in DOMAIN init : sum >= g[y]
                BY <1>5, <3>1, <3>2, <3>4
            <4>2. \A y \in S : sum >= y
                BY <1>5, <3>1, <4>1
            <4> QED BY <4>2
        <3> QED BY <3>3, <3>4
    <2> QED BY <2>1, <2>2
<1>8. Scores!Max(S) \in Nat
    <2> HIDE DEF S
    <2> QED BY <1>6, <1>7 DEF Scores!Max
<1> QED BY <1>1, <1>8 DEF Scores!GetEffectiveResource, app, init, sum

LEMMA ResourcesType ==
    ASSUME NEW pod \in PodSpecs
    PROVE  LET r == Scores!PodResources(pod)
           IN  r.requests \in Nat /\ r.limits \in Nat /\ r.requests <= r.limits
BY EffectiveType DEF Scores!PodResources, Scores!AtLeast

\* The sum of one number per pod, with one pod more.
LEMMA SumAppended ==
    ASSUME NEW f, NEW g, NEW k \in Nat, DOMAIN f = 1 .. k, DOMAIN g = 1 .. k + 1,
           \A i \in 1 .. k : f[i] \in Nat /\ g[i] = f[i], g[k + 1] \in Nat
    PROVE  /\ Scores!SumFunction(f) \in Nat
           /\ Scores!SumFunction(g) = g[k + 1] + Scores!SumFunction(f)
<1>1. IsFiniteSet(1 .. k) /\ k + 1 \notin 1 .. k /\ 1 .. k + 1 = (1 .. k) \cup {k + 1}
    <2>1. IsFiniteSet(1 .. k)
        BY IndicesAreFinite
    <2>2. k + 1 \notin 1 .. k /\ 1 .. k + 1 = (1 .. k) \cup {k + 1}
        OBVIOUS
    <2> QED BY <2>1, <2>2
<1>2. \A i \in (1 .. k) \cup {k + 1} : g[i] \in Int
    OBVIOUS
<1>3. SumFunctionOnSet(g, 1 .. k + 1) = g[k + 1] + SumFunctionOnSet(g, 1 .. k)
    BY <1>1, <1>2, SumAdd
<1>4. SumFunctionOnSet(f, 1 .. k) = SumFunctionOnSet(g, 1 .. k)
    BY <1>1, SumSame
<1>5. SumFunctionOnSet(f, 1 .. k) \in Nat
    BY <1>1, SumNat
<1> QED BY <1>3, <1>4, <1>5, SameScoringSum

\* The risk of LowRiskOverCommitment is a number from 0 to 1, its denominator never
\* 0, it is not 0 exactly when the limits exceed the capacity, and no pod lowers the
\* limits or requests of the node: for any pods of any containers, and any capacity.
THEOREM RiskIsSound ==
    ASSUME NEW pods \in Seq(PodSpecs), NEW pod \in PodSpecs, NEW capacity \in Nat
    PROVE  Scores!RiskLimitSound(pods, pod, capacity)
<1> DEFINE k == Len(pods)
           more == Append(pods, pod)
           Requests(s) == [i \in DOMAIN s |-> Scores!PodResources(s[i]).requests]
           Limits(s) == [i \in DOMAIN s |-> Scores!PodResources(s[i]).limits]
           q0 == Scores!SumFunction(Requests(pods))
           q1 == Scores!SumFunction(Requests(more))
           l0 == Scores!SumFunction(Limits(pods))
           l1 == Scores!SumFunction(Limits(more))
<1>1. /\ k \in Nat /\ DOMAIN pods = 1 .. k /\ DOMAIN more = 1 .. k + 1
      /\ \A i \in 1 .. k : pods[i] \in PodSpecs /\ more[i] = pods[i]
      /\ more[k + 1] = pod
    OBVIOUS
<1> HIDE DEF k, more
<1>2. \A p \in PodSpecs : LET r == Scores!PodResources(p)
                          IN  r.requests \in Nat /\ r.limits \in Nat /\ r.requests <= r.limits
    BY ResourcesType
<1>3. /\ DOMAIN Requests(pods) = 1 .. k /\ DOMAIN Requests(more) = 1 .. k + 1
      /\ \A i \in 1 .. k : /\ Requests(pods)[i] = Scores!PodResources(pods[i]).requests
                           /\ Requests(more)[i] = Requests(pods)[i]
      /\ Requests(more)[k + 1] = Scores!PodResources(pod).requests
    BY <1>1
<1>4. /\ DOMAIN Limits(pods) = 1 .. k /\ DOMAIN Limits(more) = 1 .. k + 1
      /\ \A i \in 1 .. k : /\ Limits(pods)[i] = Scores!PodResources(pods[i]).limits
                           /\ Limits(more)[i] = Limits(pods)[i]
      /\ Limits(more)[k + 1] = Scores!PodResources(pod).limits
    BY <1>1
<1> HIDE DEF Requests, Limits
<1>5. /\ \A i \in 1 .. k : Requests(pods)[i] \in Nat /\ Limits(pods)[i] \in Nat
      /\ \A i \in 1 .. k : Requests(pods)[i] <= Limits(pods)[i]
      /\ Requests(more)[k + 1] \in Nat /\ Limits(more)[k + 1] \in Nat
      /\ Requests(more)[k + 1] <= Limits(more)[k + 1]
    BY <1>1, <1>2, <1>3, <1>4
<1>6. q0 \in Nat /\ q1 = Requests(more)[k + 1] + q0
    BY <1>1, <1>3, <1>5, SumAppended
<1>7. l0 \in Nat /\ l1 = Limits(more)[k + 1] + l0
    BY <1>1, <1>4, <1>5, SumAppended
<1>8. q0 <= l0
    <2>1. IsFiniteSet(1 .. k)
        BY <1>1, IndicesAreFinite
    <2>2. \A i \in 1 .. k : /\ Requests(pods)[i] \in Int /\ Limits(pods)[i] \in Int
                            /\ Requests(pods)[i] <= Limits(pods)[i]
        BY <1>5
    <2>3. SumFunctionOnSet(Requests(pods), 1 .. k) <= SumFunctionOnSet(Limits(pods), 1 .. k)
        BY <2>1, <2>2, SumMono
    <2> QED BY <1>3, <1>4, <2>3, SameScoringSum
<1> DEFINE r == Scores!GetNodeRequestsAndLimits(pods, pod, capacity)
           risk == Scores!riskLimit(r, capacity)
<1>9. r = [request |-> Scores!AtMost(q1, capacity), limit |-> l1,
           requestMinusPod |-> Scores!AtMost(q0, capacity), limitMinusPod |-> l0]
    BY DEF Scores!GetNodeRequestsAndLimits, Requests, Limits, more
<1> HIDE DEF q0, q1, l0, l1, r
<1>10. q1 \in Nat /\ l1 \in Nat /\ q0 <= q1 /\ l0 <= l1 /\ q1 <= l1
    <2>1. \A a, b, c, d \in Nat : a <= b /\ c <= d =>
              /\ a + c \in Nat /\ b + d \in Nat
              /\ c <= a + c /\ d <= b + d /\ a + c <= b + d
        OBVIOUS
    <2> QED BY <1>5, <1>6, <1>7, <1>8, <2>1
<1>11. /\ r.limit = l1 /\ r.limitMinusPod = l0
       /\ r.request \in Nat /\ r.request <= q1 /\ r.request <= capacity
       /\ r.requestMinusPod \in Nat /\ r.requestMinusPod <= q0 /\ r.requestMinusPod <= r.request
    BY <1>6, <1>9, <1>10 DEF Scores!AtMost
<1>12. r.request <= r.limit /\ r.requestMinusPod <= r.limitMinusPod /\ r.limitMinusPod <= r.limit
    <2>1. \A a, b, c \in Int : a <= b /\ b <= c => a <= c
        OBVIOUS
    <2>2. r.request <= l1
        BY <1>10, <1>11, <2>1
    <2>3. r.requestMinusPod <= l0
        BY <1>6, <1>7, <1>8, <1>11, <2>1
    <2> QED BY <1>10, <1>11, <2>2, <2>3
<1>13. /\ risk.den > 0 /\ risk.num \in 0 .. risk.den
       /\ risk.num > 0 <=> r.limit > capacity
    <2>1. CASE r.limit > capacity
        <3>1. risk.num = r.limit - capacity /\ risk.den = r.limit - r.request
            BY <2>1 DEF Scores!riskLimit
        <3> HIDE DEF risk
        <3> QED BY <1>10, <1>11, <2>1, <3>1
    <2>2. CASE ~(r.limit > capacity)
        <3>1. risk.num = 0 /\ risk.den = 1
            BY <2>2 DEF Scores!riskLimit
        <3> HIDE DEF risk
        <3> QED BY <2>2, <3>1
    <2> QED BY <2>1, <2>2
<1> HIDE DEF risk
<1> QED BY <1>11, <1>12, <1>13 DEF Scores!RiskLimitSound, risk, r

-----------------------------------------------------------------------------
(* The searches of NetworkOverhead and TopologicalSort *)


\* Where the key is within an interval of the list, 0 if it is not there.
Place(keys, key, low, high) ==
    IF \E i \in DOMAIN keys : low <= i /\ i <= high /\ keys[i] = key
    THEN CHOOSE i \in DOMAIN keys : low <= i /\ i <= high /\ keys[i] = key
    ELSE 0

\* One round of the search, where find answers for what is left.
Round(keys, key, find, interval) ==
    LET low == interval[1]
        high == interval[2]
        mid == (low + high) \div 2
    IN  IF low > high THEN 0
        ELSE IF keys[mid] = key THEN mid
        ELSE IF keys[mid] < key THEN find[<<mid + 1, high>>] ELSE find[<<low, mid - 1>>]
Intervals(keys) == (1 .. Len(keys) + 1) \X (0 .. Len(keys))
Searches(keys, key, find) == find = [w \in Intervals(keys) |-> Round(keys, key, find, w)]

LEMMA SearchUnfolds ==
    ASSUME NEW keys, NEW key
    PROVE  Network!Search(keys, key) = (CHOOSE find : Searches(keys, key, find))[<<1, Len(keys)>>]
BY DEF Network!Search, Searches, Round, Intervals

LEMMA PlaceAt ==
    ASSUME NEW keys, Ascending(keys), NEW key, NEW low, NEW high, NEW i \in DOMAIN keys,
           low <= i, i <= high, keys[i] = key
    PROVE  Place(keys, key, low, high) = i
<1>1. \A j \in DOMAIN keys : keys[j] = key => j = i
    <2>1. \A a, b \in Int : ~(a < b) /\ ~(b < a) => a = b
        OBVIOUS
    <2>2. \A a \in Int : ~(a < a)
        OBVIOUS
    <2>3. \A j \in DOMAIN keys : j \in Int /\ keys[j] \in Int
        BY DEF Ascending
    <2> QED BY <2>1, <2>2, <2>3 DEF Ascending
<1> QED BY <1>1 DEF Place

\* The interval shrinks to the half the key must be in.
LEMMA PlaceHalves ==
    ASSUME NEW keys, Ascending(keys), NEW key \in Int,
           NEW w \in Intervals(keys)
    PROVE  LET find == [v \in Intervals(keys) |-> Place(keys, key, v[1], v[2])]
           IN  find[w] = Round(keys, key, find, w)
<1> DEFINE find == [v \in Intervals(keys) |-> Place(keys, key, v[1], v[2])]
           low == w[1]
           high == w[2]
           mid == (low + high) \div 2
           n == Len(keys)
<1>1. /\ low \in 1 .. n + 1 /\ high \in 0 .. n /\ n \in Nat /\ DOMAIN keys = 1 .. n
      /\ \A i \in DOMAIN keys : keys[i] \in Int
      /\ \A i, j \in DOMAIN keys : i < j => keys[i] < keys[j]
    BY DEF Intervals, Ascending
<1>2. find[w] = Place(keys, key, low, high)
    OBVIOUS
<1>3. \A a \in 1 .. n + 1, b \in 0 .. n : find[<<a, b>>] = Place(keys, key, a, b)
    BY DEF Intervals
<1> HIDE DEF find, low, high, n
<1>4. CASE low > high
    <2>1. Place(keys, key, low, high) = 0
        BY <1>1, <1>4 DEF Place
    <2> QED BY <1>2, <1>4, <2>1 DEF Round, low, high, find
<1>5. CASE ~(low > high)
    <2>1. low <= mid /\ mid <= high /\ mid \in DOMAIN keys /\ mid \in Int
        BY <1>1, <1>5
    <2> HIDE DEF mid
    <2>2. CASE keys[mid] = key
        BY <1>2, <1>5, <2>1, <2>2, PlaceAt DEF Round, low, high, mid, find
    <2>3. CASE keys[mid] < key
        <3>1. \A i \in DOMAIN keys : (low <= i /\ i <= high /\ keys[i] = key)
                                       <=> (mid + 1 <= i /\ i <= high /\ keys[i] = key)
            <4>1. \A i \in DOMAIN keys : keys[i] = key => ~(i < mid) /\ i # mid
                <5>1. \A a, b \in Int : a < b => ~(b < a) /\ a # b
                    OBVIOUS
                <5> QED BY <1>1, <2>1, <2>3, <5>1
            <4> QED BY <1>1, <2>1, <4>1
        <3>2. Place(keys, key, low, high) = Place(keys, key, mid + 1, high)
            BY <3>1 DEF Place
        <3>3. mid + 1 \in 1 .. n + 1 /\ high \in 0 .. n /\ keys[mid] # key
            BY <1>1, <2>1, <2>3
        <3>4. find[<<mid + 1, high>>] = Place(keys, key, mid + 1, high)
            BY <1>3, <3>3
        <3> QED BY <1>2, <1>5, <2>3, <3>2, <3>3, <3>4 DEF Round, low, high, mid, find
    <2>4. CASE key < keys[mid]
        <3>1. \A i \in DOMAIN keys : (low <= i /\ i <= high /\ keys[i] = key)
                                       <=> (low <= i /\ i <= mid - 1 /\ keys[i] = key)
            <4>1. \A i \in DOMAIN keys : keys[i] = key => ~(mid < i) /\ i # mid
                <5>1. \A a, b \in Int : a < b => ~(b < a) /\ a # b
                    OBVIOUS
                <5> QED BY <1>1, <2>1, <2>4, <5>1
            <4> QED BY <1>1, <2>1, <4>1
        <3>2. Place(keys, key, low, high) = Place(keys, key, low, mid - 1)
            BY <3>1 DEF Place
        <3>3. low \in 1 .. n + 1 /\ mid - 1 \in 0 .. n /\ keys[mid] # key /\ ~(keys[mid] < key)
            BY <1>1, <2>1, <2>4
        <3>4. find[<<low, mid - 1>>] = Place(keys, key, low, mid - 1)
            BY <1>3, <3>3
        <3> QED BY <1>2, <1>5, <3>2, <3>3, <3>4 DEF Round, low, high, mid, find
    <2> QED BY <1>1, <2>1, <2>2, <2>3, <2>4
<1> QED BY <1>4, <1>5 DEF find

\* The rounds lead to narrower intervals, so they have one answer.
LEMMA PlaceIsOnly ==
    ASSUME NEW keys, Ascending(keys), NEW key \in Int, NEW find, Searches(keys, key, find)
    PROVE  \A w \in Intervals(keys) : find[w] = Place(keys, key, w[1], w[2])
<1> DEFINE place == [v \in Intervals(keys) |-> Place(keys, key, v[1], v[2])]
           n == Len(keys)
           Width(w) == w[2] - w[1] + n + 1
           Bad == {w \in Intervals(keys) : find[w] # place[w]}
           widths == {Width(w) : w \in Bad}
<1>1. SUFFICES ASSUME Bad # {} PROVE FALSE
    OBVIOUS
<1>2. \A w \in Intervals(keys) : /\ find[w] = Round(keys, key, find, w)
                                 /\ place[w] = Round(keys, key, place, w)
    <2>1. \A w \in Intervals(keys) : find[w] = Round(keys, key, find, w)
        BY DEF Searches
    <2> QED BY <2>1, PlaceHalves
<1> HIDE DEF place
<1>3. n \in Nat /\ \A w \in Intervals(keys) : w[1] \in 1 .. n + 1 /\ w[2] \in 0 .. n
    BY DEF Intervals, Ascending
<1>4. \A w \in Intervals(keys) : Width(w) \in Nat
    BY <1>3
<1>5. PICK least \in widths : \A x \in widths : least <= x
    <2>1. widths \subseteq Nat /\ widths # {}
        BY <1>1, <1>4
    <2> HIDE DEF widths
    <2> QED BY <2>1, LeastNumber
<1>6. PICK w \in Bad : least = Width(w)
    BY <1>5
<1>7. \A v \in Intervals(keys) : Width(v) < Width(w) => find[v] = place[v]
    <2>1. \A v \in Bad : Width(w) <= Width(v)
        BY <1>5, <1>6
    <2>2. \A a, b \in Nat : a <= b => ~(b < a)
        OBVIOUS
    <2>3. Width(w) \in Nat
        BY <1>4, <1>6
    <2> HIDE DEF Width
    <2> QED BY <1>4, <2>1, <2>2, <2>3
<1> DEFINE low == w[1]
           high == w[2]
           mid == (low + high) \div 2
<1>8. low \in 1 .. n + 1 /\ high \in 0 .. n
    BY <1>3, <1>6
<1>9. ASSUME ~(low > high)
      PROVE  /\ find[<<mid + 1, high>>] = place[<<mid + 1, high>>]
             /\ find[<<low, mid - 1>>] = place[<<low, mid - 1>>]
    <2> HIDE DEF low, high, n
    <2>1. low <= mid /\ mid <= high /\ mid \in Int
        BY <1>3, <1>8, <1>9
    <2> HIDE DEF mid
    <2>2. <<mid + 1, high>> \in Intervals(keys) /\ <<low, mid - 1>> \in Intervals(keys)
        BY <1>3, <1>8, <2>1 DEF Intervals, n
    <2>3. Width(<<mid + 1, high>>) < Width(w) /\ Width(<<low, mid - 1>>) < Width(w)
        <3>1. /\ Width(<<mid + 1, high>>) = high - (mid + 1) + n + 1
              /\ Width(<<low, mid - 1>>) = mid - 1 - low + n + 1
            OBVIOUS
        <3>2. Width(w) = high - low + n + 1
            BY DEF low, high
        <3> HIDE DEF Width
        <3> QED BY <1>3, <1>8, <2>1, <3>1, <3>2
    <2> HIDE DEF Width
    <2> QED BY <1>7, <2>2, <2>3
<1>10. Round(keys, key, find, w) = Round(keys, key, place, w)
    BY <1>9 DEF Round
<1> QED BY <1>2, <1>6, <1>10

\* The binary search finds the key if it is there, and says so if it is not.
LEMMA SearchFinds ==
    ASSUME NEW keys, Ascending(keys), NEW key \in Int
    PROVE  /\ \A i \in DOMAIN keys : keys[i] = key => Network!Search(keys, key) = i
           /\ (\A i \in DOMAIN keys : keys[i] # key) => Network!Search(keys, key) = 0
<1> DEFINE place == [v \in Intervals(keys) |-> Place(keys, key, v[1], v[2])]
           find == CHOOSE f : Searches(keys, key, f)
<1>1. Searches(keys, key, place)
    <2>1. \A w \in Intervals(keys) : place[w] = Round(keys, key, place, w)
        BY PlaceHalves
    <2>2. place = [w \in Intervals(keys) |-> place[w]]
        OBVIOUS
    <2> HIDE DEF place
    <2> QED BY <2>1, <2>2 DEF Searches
<1>2. Searches(keys, key, find)
    BY <1>1
<1>3. Len(keys) \in Nat /\ DOMAIN keys = 1 .. Len(keys)
    BY DEF Ascending
<1>4. <<1, Len(keys)>> \in Intervals(keys)
    BY <1>3 DEF Intervals
<1>5. Network!Search(keys, key) = find[<<1, Len(keys)>>]
    BY SearchUnfolds
<1> HIDE DEF find
<1>6. Network!Search(keys, key) = Place(keys, key, 1, Len(keys))
    BY <1>2, <1>4, <1>5, PlaceIsOnly
<1>7. \A i \in DOMAIN keys : 1 <= i /\ i <= Len(keys)
    BY <1>3
<1>8. \A i \in DOMAIN keys : keys[i] = key => Network!Search(keys, key) = i
    BY <1>6, <1>7, PlaceAt
<1>9. (\A i \in DOMAIN keys : keys[i] # key) => Network!Search(keys, key) = 0
    BY <1>6 DEF Place
<1> QED BY <1>8, <1>9


LEMMA FoundBy ==
    ASSUME NEW s, NEW field, SortedBy(s, field), NEW key \in Int
    PROVE  LET i == Network!Search(Network!Keys(s, field), key)
           IN  \/ i \in DOMAIN s /\ s[i][field] = key /\ i # 0
               \/ i = 0 /\ \A j \in DOMAIN s : s[j][field] # key
<1> DEFINE keys == Network!Keys(s, field)
<1>1. DOMAIN keys = DOMAIN s /\ \A j \in DOMAIN s : keys[j] = s[j][field]
    BY DEF Network!Keys
<1>2. Ascending(keys) /\ \A j \in DOMAIN keys : j # 0
    <2>1. Ascending(keys) /\ Len(keys) \in Nat /\ DOMAIN keys = 1 .. Len(keys)
        BY DEF SortedBy, Ascending
    <2> HIDE DEF keys
    <2> QED BY <2>1
<1> HIDE DEF keys
<1>3. CASE \E j \in DOMAIN s : keys[j] = key
    <2>1. PICK j \in DOMAIN s : keys[j] = key
        BY <1>3
    <2>2. Network!Search(keys, key) = j
        BY <1>1, <1>2, <2>1, SearchFinds
    <2> QED BY <1>1, <1>2, <2>1, <2>2 DEF keys
<1>4. CASE \A j \in DOMAIN s : keys[j] # key
    <2>1. Network!Search(keys, key) = 0
        BY <1>1, <1>2, <1>4, SearchFinds
    <2> QED BY <1>1, <1>4, <2>1 DEF keys
<1> QED BY <1>3, <1>4

\* A key names one entry.
LEMMA OneBy ==
    ASSUME NEW s, NEW field, SortedBy(s, field), NEW i \in DOMAIN s, NEW j \in DOMAIN s,
           s[i][field] = s[j][field]
    PROVE  i = j
<1> DEFINE keys == Network!Keys(s, field)
<1>1. DOMAIN keys = DOMAIN s /\ \A k \in DOMAIN s : keys[k] = s[k][field]
    BY DEF Network!Keys
<1>2. Ascending(keys)
    BY DEF SortedBy
<1> HIDE DEF keys
<1>3. keys[i] \in Int /\ i \in Int /\ j \in Int
    BY <1>1, <1>2 DEF Ascending
<1>4. ~(i < j) /\ ~(j < i)
    <2>1. \A a \in Int : ~(a < a)
        OBVIOUS
    <2> QED BY <1>1, <1>2, <1>3, <2>1 DEF Ascending
<1> QED BY <1>3, <1>4

Ranks == [selector : Int, index : Nat]
Orders == Seq(Ranks)
AppGroupPods == [selector : Int, group : Int, priority : Int, time : Int]

LEMMA OrderFound ==
    ASSUME NEW order \in Orders, SortedBy(order, "selector"), NEW key \in Int
    PROVE  LET index == {order[i].index : i \in {j \in DOMAIN order : order[j].selector = key}}
               found == Network!FindPodOrder(order, key)
           IN  \/ index = {} /\ found = -1
               \/ index = {found} /\ found \in Nat
<1> DEFINE at == Network!Search(Network!Keys(order, "selector"), key)
           index == {order[i].index : i \in {j \in DOMAIN order : order[j].selector = key}}
<1>1. \/ at \in DOMAIN order /\ order[at].selector = key /\ at # 0
      \/ at = 0 /\ \A j \in DOMAIN order : order[j].selector # key
    BY FoundBy
<1>2. Network!FindPodOrder(order, key) = IF at = 0 THEN -1 ELSE order[at].index
    BY DEF Network!FindPodOrder
<1> HIDE DEF at
<1>3. CASE at = 0 /\ \A j \in DOMAIN order : order[j].selector # key
    BY <1>2, <1>3
<1>4. CASE at \in DOMAIN order /\ order[at].selector = key /\ at # 0
    <2>1. \A j \in DOMAIN order : order[j].selector = key => j = at
        BY <1>4, OneBy
    <2>2. order[at].index \in Nat
        <3>1. \A i \in DOMAIN order : order[i] \in Ranks
            BY DEF Orders
        <3> QED BY <1>4, <3>1 DEF Ranks
    <2> QED BY <1>2, <1>4, <2>1, <2>2
<1> QED BY <1>1, <1>3, <1>4

\* In an AppGroup the pods leave the queue in the order of its status, through the
\* binary search of FindPodOrder, for a status of any length sorted by workload;
\* pods of no common group never come both first.
THEOREM TopologicalIsSound ==
    ASSUME NEW order \in Orders, SortedBy(order, "selector"),
           NEW p \in AppGroupPods, NEW q \in AppGroupPods
    PROVE  Network!TopologicalSound(order, p, q)
<1> DEFINE Index(pod) == {order[i].index : i \in {j \in DOMAIN order : order[j].selector = pod.selector}}
           Found(pod) == Network!FindPodOrder(order, pod.selector)
<1>1. \A pod \in AppGroupPods : \/ Index(pod) = {} /\ Found(pod) = -1
                                \/ Index(pod) = {Found(pod)} /\ Found(pod) \in Nat
    <2>1. \A pod \in AppGroupPods : pod.selector \in Int
        BY DEF AppGroupPods
    <2> QED BY <2>1, OrderFound
<1>2. CASE p.group = q.group /\ p.group # 0
    <2>1. /\ Network!Less(order, p, q) <=> Found(p) <= Found(q)
          /\ Network!Less(order, q, p) <=> Found(q) <= Found(p)
        BY <1>2 DEF Network!Less
    <2> HIDE DEF Index, Found
    <2>2. Found(p) \in Int /\ Found(q) \in Int
        BY <1>1
    <2>3. ASSUME \E i \in Index(p) \cup {-1}, k \in Index(q) : i < k /\ (i = -1 => Index(p) = {})
          PROVE  Network!Less(order, p, q) /\ ~Network!Less(order, q, p)
        <3>1. PICK i \in Index(p) \cup {-1}, k \in Index(q) : i < k /\ (i = -1 => Index(p) = {})
            BY <2>3
        <3>2. k = Found(q) /\ k \in Nat
            BY <1>1, <3>1
        <3>3. i = Found(p)
            BY <1>1, <3>1
        <3> QED BY <2>1, <2>2, <3>1, <3>2, <3>3
    <2>4. ASSUME Index(p) = Index(q)
          PROVE  Network!Less(order, p, q) /\ Network!Less(order, q, p)
        <3>1. Found(p) = Found(q)
            BY <1>1, <2>4
        <3> QED BY <2>1, <2>2, <3>1
    <2> QED BY <1>2, <2>3, <2>4 DEF Network!TopologicalSound, Index
<1>3. CASE ~(p.group = q.group /\ p.group # 0)
    <2>1. p.priority \in Int /\ q.priority \in Int /\ p.time \in Int /\ q.time \in Int
        BY DEF AppGroupPods
    <2>2. ~(Network!Less(order, p, q) /\ Network!Less(order, q, p))
        BY <1>3, <2>1 DEF Network!Less
    <2> QED BY <1>3, <2>2 DEF Network!TopologicalSound
<1> QED BY <1>2, <1>3

-----------------------------------------------------------------------------
(* The sorts of manual weights *)


\* The place of an entry is the number of keys up to its own: no two have the same,
\* so that there is an entry for each place.
LEMMA SortExists ==
    ASSUME NEW s, NEW field, Keyed(s, field)
    PROVE  \E f \in Bijection(DOMAIN s, DOMAIN s) :
              \A i, j \in DOMAIN s : i < j => s[f[i]][field] <= s[f[j]][field]
<1> DEFINE D == DOMAIN s
           Key(i) == s[i][field]
           Upto(i) == {j \in D : Key(j) <= Key(i)}
           rank == [i \in D |-> Cardinality(Upto(i))]
           f == [k \in D |-> CHOOSE i \in D : rank[i] = k]
<1>1. /\ Len(s) \in Nat /\ D = 1 .. Len(s) /\ \A i \in D : Key(i) \in Int
      /\ \A i, j \in D : Key(i) = Key(j) => i = j
    BY DEF Keyed
<1>2. IsFiniteSet(D) /\ Cardinality(D) = Len(s)
    <2>1. IsFiniteSet(1 .. Len(s)) /\ Cardinality(1 .. Len(s)) = IF 1 > Len(s) THEN 0 ELSE Len(s) - 1 + 1
        BY <1>1, FS_Interval
    <2> QED BY <1>1, <2>1
<1> HIDE DEF D, Key
<1>3. \A i \in D : Upto(i) \subseteq D /\ i \in Upto(i)
    BY <1>1
<1>4. \A i, j \in D : Key(i) < Key(j) => Upto(i) \subseteq Upto(j) /\ j \notin Upto(i) /\ j \in Upto(j)
    BY <1>1
<1> HIDE DEF Upto
<1>5. \A i \in D : IsFiniteSet(Upto(i)) /\ Cardinality(Upto(i)) \in Nat /\ Cardinality(Upto(i)) <= Len(s)
    BY <1>2, <1>3, FS_Subset, FS_CardinalityType
<1>6. \A i \in D : rank[i] \in D
    <2>1. \A i \in D : Cardinality(Upto(i)) # 0
        BY <1>3, <1>5, FS_EmptySet
    <2> QED BY <1>1, <1>5, <2>1
<1>7. ASSUME NEW i \in D, NEW j \in D, Key(i) < Key(j)
      PROVE  rank[i] < rank[j]
    <2>1. Upto(i) \in SUBSET Upto(j) /\ Upto(i) # Upto(j)
        BY <1>4, <1>7
    <2>2. Cardinality(Upto(i)) <= Cardinality(Upto(j)) /\ Cardinality(Upto(i)) # Cardinality(Upto(j))
        BY <1>5, <2>1, FS_Subset
    <2> QED BY <1>5, <2>2
<1>8. \A i \in D : rank[i] \in Int
    BY <1>1, <1>6
<1>9. \A i, j \in D : rank[i] = rank[j] => i = j
    <2> SUFFICES ASSUME NEW i \in D, NEW j \in D, rank[i] = rank[j], i # j PROVE FALSE
        OBVIOUS
    <2>1. Key(i) < Key(j) \/ Key(j) < Key(i)
        <3>1. \A a, b \in Int : a # b => a < b \/ b < a
            OBVIOUS
        <3> QED BY <1>1, <3>1
    <2>2. rank[i] < rank[j] \/ rank[j] < rank[i]
        BY <1>7, <2>1
    <2> HIDE DEF rank
    <2> QED BY <1>8, <2>2
<1>10. rank \in Injection(D, D)
    BY <1>6, <1>9 DEF Injection, IsInjective
<1>11. rank \in Surjection(D, D)
    BY <1>2, <1>10, FS_Injection
<1>12. \A k \in D : f[k] \in D /\ rank[f[k]] = k
    <2>1. \A k \in D : \E i \in D : rank[i] = k
        BY <1>11 DEF Surjection
    <2> HIDE DEF rank
    <2> QED BY <2>1
<1>13. f \in [D -> D]
    BY <1>12
<1> HIDE DEF f, rank
<1>14. f \in Bijection(D, D)
    <2>1. \A k, l \in D : f[k] = f[l] => k = l
        BY <1>12
    <2>2. \A i \in D : f[rank[i]] = i
        BY <1>6, <1>9, <1>12
    <2>3. f \in Injection(D, D)
        BY <1>13, <2>1 DEF Injection, IsInjective
    <2>4. f \in Surjection(D, D)
        BY <1>6, <1>13, <2>2 DEF Surjection
    <2> QED BY <2>3, <2>4 DEF Bijection
<1>15. ASSUME NEW k \in D, NEW l \in D, k < l
       PROVE  Key(f[k]) <= Key(f[l])
    <2>1. ~(Key(f[l]) < Key(f[k]))
        <3>1. Key(f[l]) < Key(f[k]) => l < k
            BY <1>7, <1>12
        <3> QED BY <1>1, <1>15, <3>1
    <2>2. Key(f[l]) \in Int /\ Key(f[k]) \in Int
        BY <1>1, <1>12
    <2> QED BY <2>1, <2>2
<1> QED BY <1>14, <1>15 DEF D, Key

LEMMA AscendingByField ==
    ASSUME NEW t, NEW field, NEW n \in Nat, t = [i \in 1 .. n |-> t[i]],
           \A i \in 1 .. n : t[i][field] \in Int,
           \A i, j \in 1 .. n : i < j => t[i][field] < t[j][field]
    PROVE  SortedBy(t, field)
<1> DEFINE keys == [i \in 1 .. n |-> t[i][field]]
<1>1. DOMAIN t = 1 .. n /\ Len(t) = n
    <2>1. DOMAIN t = 1 .. n
        OBVIOUS
    <2>2. Len([i \in 1 .. n |-> t[i]]) = n
        OBVIOUS
    <2> QED BY <2>1, <2>2
<1>2. Network!Keys(t, field) = keys
    BY <1>1 DEF Network!Keys
<1>3. keys \in Seq(Int) /\ DOMAIN keys = 1 .. n
    OBVIOUS
<1>4. \A i, j \in DOMAIN keys : i < j => keys[i] < keys[j]
    BY <1>3
<1> HIDE DEF keys
<1> QED BY <1>1, <1>2, <1>3, <1>4 DEF SortedBy, Ascending

Arranges(t, s) ==
    /\ \A i \in DOMAIN t : \E j \in DOMAIN s : t[i] = s[j]
    /\ \A j \in DOMAIN s : \E i \in DOMAIN t : t[i] = s[j]

\* Sorted has the entries of the list, in the order of their keys.
LEMMA SortedEntries ==
    ASSUME NEW manual, manual, NEW s, NEW field, Keyed(s, field)
    PROVE  LET t == Network!Sorted(manual, s, field) IN SortedBy(t, field) /\ Arranges(t, s)
<1> DEFINE t == Network!Sorted(manual, s, field)
           Rising(u) == \A i, j \in DOMAIN u : i < j => u[i][field] <= u[j][field]
<1>1. PICK g \in Bijection(DOMAIN s, DOMAIN s) :
              \A i, j \in DOMAIN s : i < j => s[g[i]][field] <= s[g[j]][field]
    BY SortExists
<1>2. \A S, T : Network!Bijection(S, T) = Bijection(S, T)
    BY DEF Network!Bijection, Network!Injection, Network!Surjection, Network!IsInjective,
           Bijection, Injection, Surjection, IsInjective
<1>3. [i \in DOMAIN s |-> s[g[i]]] \in Network!Arrangements(s)
    BY <1>1, <1>2 DEF Network!Arrangements
<1>4. Rising([i \in DOMAIN s |-> s[g[i]]])
    BY <1>1
<1>5. t = CHOOSE u \in Network!Arrangements(s) : Rising(u)
    BY DEF Network!Sorted
<1>6. t \in Network!Arrangements(s) /\ Rising(t)
    <2> HIDE DEF Rising, t
    <2> QED BY <1>3, <1>4, <1>5
<1>7. PICK f \in Bijection(DOMAIN s, DOMAIN s) : t = [i \in DOMAIN s |-> s[f[i]]]
    BY <1>2, <1>6 DEF Network!Arrangements
<1> HIDE DEF t
<1>8. /\ f \in [DOMAIN s -> DOMAIN s]
      /\ \A i, j \in DOMAIN s : f[i] = f[j] => i = j
      /\ \A j \in DOMAIN s : \E i \in DOMAIN s : f[i] = j
    BY <1>7 DEF Bijection, Injection, Surjection, IsInjective
<1>9. /\ Len(s) \in Nat /\ DOMAIN s = 1 .. Len(s)
      /\ \A i \in DOMAIN s : s[i][field] \in Int
      /\ \A i, j \in DOMAIN s : s[i][field] = s[j][field] => i = j
    BY DEF Keyed
<1>10. DOMAIN t = DOMAIN s /\ \A i \in DOMAIN s : t[i] = s[f[i]] /\ t[i][field] \in Int
    BY <1>7, <1>8, <1>9
<1>11. \A i, j \in DOMAIN s : i < j => t[i][field] < t[j][field]
    <2> SUFFICES ASSUME NEW i \in DOMAIN s, NEW j \in DOMAIN s, i < j
                 PROVE  t[i][field] < t[j][field]
        OBVIOUS
    <2>1. t[i][field] <= t[j][field]
        BY <1>6, <1>10
    <2>2. i # j
        BY <1>9
    <2>3. f[i] # f[j] /\ f[i] \in DOMAIN s /\ f[j] \in DOMAIN s
        BY <1>8, <2>2
    <2>4. s[f[i]][field] # s[f[j]][field]
        BY <1>9, <2>3
    <2>5. t[i] = s[f[i]] /\ t[j] = s[f[j]] /\ t[i][field] \in Int /\ t[j][field] \in Int
        BY <1>10
    <2> QED BY <2>1, <2>4, <2>5
<1>12. t = [i \in 1 .. Len(s) |-> t[i]]
    BY <1>7, <1>9
<1>13. SortedBy(t, field)
    BY <1>9, <1>10, <1>11, <1>12, AscendingByField
<1>14. Arranges(t, s)
    BY <1>8, <1>10 DEF Arranges
<1> QED BY <1>13, <1>14 DEF t


LEMMA Lookup ==
    ASSUME NEW manual, NEW s, NEW field, Given(manual, s, field), NEW key \in Int
    PROVE  LET t == Network!Sorted(manual, s, field)
               i == Network!Search(Network!Keys(t, field), key)
           IN  \/ /\ i # 0
                  /\ \E j \in DOMAIN s : s[j][field] = key /\ t[i] = s[j]
               \/ i = 0 /\ \A j \in DOMAIN s : s[j][field] # key
<1> DEFINE t == Network!Sorted(manual, s, field)
           i == Network!Search(Network!Keys(t, field), key)
<1>1. SortedBy(t, field) /\ Arranges(t, s)
    <2>1. CASE manual
        BY <2>1, SortedEntries DEF Given
    <2>2. CASE ~manual
        <3>1. t = s
            BY <2>2 DEF Network!Sorted
        <3>2. SortedBy(s, field)
            BY <2>2 DEF Given
        <3> HIDE DEF t
        <3>3. Arranges(s, s)
            BY DEF Arranges
        <3> HIDE DEF t
        <3> QED BY <3>1, <3>2, <3>3
    <2> QED BY <2>1, <2>2
<1> HIDE DEF t
<1>2. \/ i \in DOMAIN t /\ t[i][field] = key /\ i # 0
      \/ i = 0 /\ \A j \in DOMAIN t : t[j][field] # key
    BY <1>1, FoundBy
<1> HIDE DEF i
<1> QED BY <1>1, <1>2 DEF t, i, Arranges

-----------------------------------------------------------------------------
(* The costs of NetworkOverhead *)


\* What is looked up as the code does it.
Known(costs, to) == IF to \in DOMAIN costs THEN costs[to] ELSE Network!MaxCost

LEMMA NoOrigins ==
    ASSUME NEW manual
    PROVE  Origins(manual, << >>)
<1>1. Len(<< >>) = 0 /\ DOMAIN << >> = {} /\ DOMAIN << >> = 1 .. 0
    OBVIOUS
<1>2. Keyed(<< >>, "origin")
    BY <1>1 DEF Keyed
<1>3. SortedBy(<< >>, "origin")
    <2> DEFINE t == << >>
    <2>1. t = [i \in 1 .. 0 |-> t[i]] /\ 1 .. 0 = {}
        OBVIOUS
    <2> HIDE DEF t
    <2>2. \A i \in 1 .. 0 : t[i]["origin"] \in Int
        BY <2>1
    <2>3. \A i, j \in 1 .. 0 : i < j => t[i]["origin"] < t[j]["origin"]
        BY <2>1
    <2>4. SortedBy(t, "origin")
        BY <2>1, <2>2, <2>3, AscendingByField
    <2> QED BY <2>4 DEF t
<1> QED BY <1>1, <1>2, <1>3 DEF Origins, Given

\* The origins of a key, those the weights list for it.
LEMMA OriginsFound ==
    ASSUME NEW manual, NEW weights, WeightsGiven(manual, weights), NEW key \in Int
    PROVE  LET origins == Network!FindTopologyKey(Network!Sorted(manual, weights, "key"), key)
           IN  \/ \E j \in DOMAIN weights : weights[j].key = key /\ origins = weights[j].origins
               \/ origins = << >> /\ \A j \in DOMAIN weights : weights[j].key # key
<1> DEFINE t == Network!Sorted(manual, weights, "key")
           i == Network!Search(Network!Keys(t, "key"), key)
<1>1. \/ i # 0 /\ \E j \in DOMAIN weights : weights[j].key = key /\ t[i] = weights[j]
      \/ i = 0 /\ \A j \in DOMAIN weights : weights[j].key # key
    BY Lookup DEF WeightsGiven
<1>2. Network!FindTopologyKey(t, key) = IF i = 0 THEN << >> ELSE t[i].origins
    BY DEF Network!FindTopologyKey
<1> HIDE DEF t, i
<1> QED BY <1>1, <1>2 DEF t

LEMMA CostsFound ==
    ASSUME NEW manual, NEW origins, Origins(manual, origins), NEW name \in Int
    PROVE  LET costs == Network!FindOriginCosts(Network!Sorted(manual, origins, "origin"), name)
           IN  \/ \E j \in DOMAIN origins : origins[j].origin = name /\ costs = origins[j].costs
               \/ costs = << >> /\ \A j \in DOMAIN origins : origins[j].origin # name
<1> DEFINE t == Network!Sorted(manual, origins, "origin")
           i == Network!Search(Network!Keys(t, "origin"), name)
<1>1. \/ i # 0 /\ \E j \in DOMAIN origins : origins[j].origin = name /\ t[i] = origins[j]
      \/ i = 0 /\ \A j \in DOMAIN origins : origins[j].origin # name
    BY Lookup DEF Origins
<1>2. Network!FindOriginCosts(t, name) = IF i = 0 THEN << >> ELSE t[i].costs
    BY DEF Network!FindOriginCosts
<1> HIDE DEF t, i
<1> QED BY <1>1, <1>2 DEF t

\* The entries of the weights that say what a pair costs.
Entries(weights, key, from, to) ==
    {e \in UNION {{w.origins[i] : i \in DOMAIN w.origins} :
                     w \in {v \in {weights[i] : i \in DOMAIN weights} : v.key = key}} :
        e.origin = from /\ to \in DOMAIN e.costs}

LEMMA ListedEntries ==
    ASSUME NEW weights, NEW key, NEW from, NEW to
    PROVE  /\ Network!Listed(weights, key, from, to) =
                LET found == Entries(weights, key, from, to)
                IN  IF found = {} THEN Network!MaxCost ELSE (CHOOSE e \in found : TRUE).costs[to]
           /\ \A e : e \in Entries(weights, key, from, to) <=>
                \E j \in DOMAIN weights : \E i \in DOMAIN weights[j].origins :
                   /\ weights[j].key = key /\ e = weights[j].origins[i]
                   /\ e.origin = from /\ to \in DOMAIN e.costs
<1>1. Network!Listed(weights, key, from, to) =
                LET found == Entries(weights, key, from, to)
                IN  IF found = {} THEN Network!MaxCost ELSE (CHOOSE e \in found : TRUE).costs[to]
    BY DEF Network!Listed, Entries
<1>2. \A e : e \in Entries(weights, key, from, to) <=>
                \E j \in DOMAIN weights : \E i \in DOMAIN weights[j].origins :
                   /\ weights[j].key = key /\ e = weights[j].origins[i]
                   /\ e.origin = from /\ to \in DOMAIN e.costs
    BY DEF Entries
<1> QED BY <1>1, <1>2

LEMMA CostsFromListed ==
    ASSUME NEW manual, NEW weights, WeightsGiven(manual, weights), NEW key \in Int,
           NEW name \in Int, NEW to
    PROVE  LET costs == Network!CostsFrom(weights, manual, key, name)
           IN  /\ Known(costs, to) = Network!Listed(weights, key, name, to)
               /\ Known(costs, to) \in Nat
               /\ name = 0 => costs = << >>
<1> DEFINE costs == Network!CostsFrom(weights, manual, key, name)
           origins == Network!FindTopologyKey(Network!Sorted(manual, weights, "key"), key)
           found == Entries(weights, key, name, to)
<1>1. costs = IF name = 0 THEN << >>
              ELSE Network!FindOriginCosts(Network!Sorted(manual, origins, "origin"), name)
    BY DEF Network!CostsFrom
<1>2. \/ \E j \in DOMAIN weights : weights[j].key = key /\ origins = weights[j].origins
      \/ origins = << >> /\ \A j \in DOMAIN weights : weights[j].key # key
    BY OriginsFound
<1> HIDE DEF costs, origins
<1>3. Origins(manual, origins)
    BY <1>2, NoOrigins DEF WeightsGiven
<1>4. \A j \in DOMAIN weights : weights[j].key = key => weights[j].origins = origins
    BY <1>2 DEF WeightsGiven, Given, Keyed
<1>5. \A e \in found : \E i \in DOMAIN origins : e = origins[i] /\ e.origin = name /\ to \in DOMAIN e.costs
    BY <1>4, ListedEntries
<1>6. CASE name = 0
    <2>1. found = {}
        BY <1>3, <1>5, <1>6 DEF Origins
    <2>2. Known(costs, to) = Network!MaxCost
        BY <1>1, <1>6 DEF Known
    <2> QED BY <1>1, <1>6, <2>1, <2>2, ListedEntries DEF costs, Network!MaxCost
<1>7. CASE name # 0
    <2>1. costs = Network!FindOriginCosts(Network!Sorted(manual, origins, "origin"), name)
        BY <1>1, <1>7
    <2>2. \/ \E j \in DOMAIN origins : origins[j].origin = name /\ costs = origins[j].costs
          \/ costs = << >> /\ \A j \in DOMAIN origins : origins[j].origin # name
        BY <1>3, <2>1, CostsFound
    <2>3. CASE to \notin DOMAIN costs
        <3>1. found = {}
            BY <1>3, <1>5, <2>2, <2>3 DEF Origins, Given, Keyed
        <3>2. Known(costs, to) = Network!MaxCost
            BY <2>3 DEF Known
        <3>3. Network!Listed(weights, key, name, to) = Network!MaxCost
            BY <3>1, ListedEntries
        <3>4. Network!MaxCost \in Nat
            BY DEF Network!MaxCost
        <3> QED BY <1>7, <3>2, <3>3, <3>4 DEF costs
    <2>4. CASE to \in DOMAIN costs
        <3>1. PICK j \in DOMAIN origins : origins[j].origin = name /\ costs = origins[j].costs
            BY <2>2, <2>4
        <3>2. origins[j] \in found
            BY <1>2, <2>4, <3>1, ListedEntries
        <3>3. \A e \in found : e = origins[j]
            BY <1>3, <1>5, <3>1 DEF Origins, Given, Keyed
        <3>4. Network!Listed(weights, key, name, to) = costs[to]
            BY <3>1, <3>2, <3>3, ListedEntries
        <3>5. Known(costs, to) = costs[to] /\ costs[to] \in Nat
            BY <1>3, <2>4, <3>1 DEF Known, Origins
        <3> QED BY <1>7, <3>4, <3>5 DEF costs
    <2> QED BY <2>3, <2>4
<1> QED BY <1>6, <1>7

\* The cost map of a node has, for its zone and its region, what the weights list.
LEMMA MapIsListed ==
    ASSUME NEW manual, NEW weights, WeightsGiven(manual, weights), NEW region \in Int, NEW zone \in Int,
           region = zone => region = 0, NEW to
    PROVE  LET costMap == Network!populateCostMap(weights, manual, region, zone)
           IN  /\ Known(costMap, <<zone, to>>) =
                    Network!Listed(weights, Network!NetworkTopologyZone, zone, to)
               /\ Known(costMap, <<region, to>>) =
                    Network!Listed(weights, Network!NetworkTopologyRegion, region, to)
               /\ Known(costMap, <<zone, to>>) \in Nat /\ Known(costMap, <<region, to>>) \in Nat
<1> DEFINE costMap == Network!populateCostMap(weights, manual, region, zone)
           zones == Network!CostsFrom(weights, manual, Network!NetworkTopologyZone, zone)
           regions == Network!CostsFrom(weights, manual, Network!NetworkTopologyRegion, region)
           byZone == Network!CostPairs(zone, zones)
           byRegion == Network!CostPairs(region, regions)
<1>1. costMap = [pair \in DOMAIN byZone \cup DOMAIN byRegion |->
                    IF pair \in DOMAIN byZone THEN byZone[pair] ELSE byRegion[pair]]
    BY DEF Network!populateCostMap
<1>2. /\ Known(zones, to) = Network!Listed(weights, Network!NetworkTopologyZone, zone, to)
      /\ Known(zones, to) \in Nat /\ (zone = 0 => zones = << >>)
    <2>1. Network!NetworkTopologyZone \in Int
        BY DEF Network!NetworkTopologyZone
    <2> QED BY <2>1, CostsFromListed
<1>3. /\ Known(regions, to) = Network!Listed(weights, Network!NetworkTopologyRegion, region, to)
      /\ Known(regions, to) \in Nat /\ (region = 0 => regions = << >>)
    <2>1. Network!NetworkTopologyRegion \in Int
        BY DEF Network!NetworkTopologyRegion
    <2> QED BY <2>1, CostsFromListed
<1> HIDE DEF costMap, zones, regions
<1>4. /\ \A n : <<n, to>> \in DOMAIN byZone <=> n = zone /\ to \in DOMAIN zones
      /\ to \in DOMAIN zones => byZone[<<zone, to>>] = zones[to]
    BY DEF Network!CostPairs
<1>5. /\ \A n : <<n, to>> \in DOMAIN byRegion <=> n = region /\ to \in DOMAIN regions
      /\ to \in DOMAIN regions => byRegion[<<region, to>>] = regions[to]
    BY DEF Network!CostPairs
<1> HIDE DEF byZone, byRegion
<1>6. /\ zone = 0 => to \notin DOMAIN zones
      /\ region = 0 => to \notin DOMAIN regions
    BY <1>2, <1>3
<1>7. Known(costMap, <<zone, to>>) = Known(zones, to)
    BY <1>1, <1>4, <1>5, <1>6 DEF Known
<1>8. Known(costMap, <<region, to>>) = Known(regions, to)
    BY <1>1, <1>4, <1>5, <1>6 DEF Known
<1> QED BY <1>2, <1>3, <1>7, <1>8 DEF costMap

\* The labels of a node.
Labels == [region : Int, zone : Int]

\* What the code counts as the cost of a dependency is the distance of the nodes,
\* and its verdicts are those of the distance, for a maximum between the cost of a
\* zone and MaxCost.
LEMMA CostIsDistance ==
    ASSUME NEW c, ClusterGiven(c.cluster), WeightsGiven(c.manual, c.weights),
           NEW n \in DOMAIN c.cluster, NEW d, d[1].host \in DOMAIN c.cluster,
           d[2].max \in Network!SameZone .. Network!MaxCost - 1
    PROVE  LET costMap == Network!populateCostMap(c.weights, c.manual, c.cluster[n].region, c.cluster[n].zone)
               distance == Network!Distance(c, n, d[1].host)
           IN  /\ distance \in Nat
               /\ Network!Cost(c.cluster, n, costMap, d) = distance
               /\ Network!Satisfied(c.cluster, n, costMap, d) => distance <= d[2].max
               /\ Network!Violated(c.cluster, n, costMap, d) => distance > d[2].max
               /\ distance > d[2].max /\ distance # Network!MaxCost
                    => Network!Violated(c.cluster, n, costMap, d)
<1> DEFINE host == d[1].host
           max == d[2].max
           a == c.cluster[n]
           b == c.cluster[host]
           costMap == Network!populateCostMap(c.weights, c.manual, a.region, a.zone)
           between == Network!Between(c.cluster, n, host)
           distance == Network!Distance(c, n, host)
           known == Known(costMap, between)
<1>1. /\ a.region \in Int /\ a.zone \in Int /\ (a.region = a.zone => a.region = 0)
      /\ a = b <=> a.region = b.region /\ a.zone = b.zone
    BY DEF ClusterGiven, Labels
<1>2. \A to : /\ Known(costMap, <<a.zone, to>>) =
                    Network!Listed(c.weights, Network!NetworkTopologyZone, a.zone, to)
              /\ Known(costMap, <<a.region, to>>) =
                    Network!Listed(c.weights, Network!NetworkTopologyRegion, a.region, to)
              /\ Known(costMap, <<a.zone, to>>) \in Nat /\ Known(costMap, <<a.region, to>>) \in Nat
    <2> DEFINE manual == c.manual
               weights == c.weights
               region == a.region
               zone == a.zone
    <2>1. WeightsGiven(manual, weights) /\ region \in Int /\ zone \in Int /\ (region = zone => region = 0)
        BY <1>1
    <2>2. costMap = Network!populateCostMap(weights, manual, region, zone)
        OBVIOUS
    <2> HIDE DEF manual, weights, region, zone, costMap
    <2>3. \A to : /\ Known(costMap, <<zone, to>>) =
                        Network!Listed(weights, Network!NetworkTopologyZone, zone, to)
                  /\ Known(costMap, <<region, to>>) =
                        Network!Listed(weights, Network!NetworkTopologyRegion, region, to)
                  /\ Known(costMap, <<zone, to>>) \in Nat /\ Known(costMap, <<region, to>>) \in Nat
        BY <2>1, <2>2, MapIsListed
    <2> QED BY <2>3 DEF weights, region, zone
<1>3. between = IF a.region = b.region THEN <<a.zone, b.zone>> ELSE <<a.region, b.region>>
    BY DEF Network!Between
<1>4. distance = IF n = host THEN Network!SameHostname
                 ELSE IF b.region = 0 /\ b.zone = 0 THEN Network!MaxCost
                 ELSE IF a.region = b.region /\ a.zone = b.zone THEN Network!SameZone
                 ELSE known
    <2>1. distance = IF n = host THEN Network!SameHostname
                 ELSE IF b.region = 0 /\ b.zone = 0 THEN Network!MaxCost
                 ELSE IF a = b THEN Network!SameZone
                 ELSE IF a.region = b.region
                 THEN Network!Listed(c.weights, Network!NetworkTopologyZone, a.zone, b.zone)
                 ELSE Network!Listed(c.weights, Network!NetworkTopologyRegion, a.region, b.region)
        BY DEF Network!Distance
    <2> HIDE DEF a, b, costMap, between, distance
    <2> QED BY <1>1, <1>2, <1>3, <2>1
<1>5. known \in Nat
    <2> HIDE DEF a, b, costMap, between
    <2> QED BY <1>2, <1>3
<1>6. Network!SameHostname = 0 /\ Network!SameZone = 1 /\ Network!MaxCost = 100
    BY DEF Network!SameHostname, Network!SameZone, Network!MaxCost
<1>7. max \in Int /\ 1 <= max /\ max < 100
    BY <1>6
<1>8. /\ Network!Unlabelled(c.cluster, host) <=> b.region = 0 /\ b.zone = 0
      /\ Network!Together(c.cluster, n, host) <=> a.region = b.region /\ a.zone = b.zone
    BY DEF Network!Unlabelled, Network!Together
<1>9. Network!Cost(c.cluster, n, costMap, d) = distance
    BY <1>4, <1>8 DEF Network!Cost, Known
<1>10. Network!Satisfied(c.cluster, n, costMap, d) <=>
         \/ host = n
         \/ /\ ~(b.region = 0 /\ b.zone = 0)
            /\ \/ a.region = b.region /\ a.zone = b.zone
               \/ between \in DOMAIN costMap /\ known <= max
    BY <1>8 DEF Network!Satisfied, Known
<1>11. Network!Violated(c.cluster, n, costMap, d) <=>
         /\ host # n
         /\ \/ b.region = 0 /\ b.zone = 0
            \/ /\ ~(a.region = b.region /\ a.zone = b.zone)
               /\ between \in DOMAIN costMap /\ known > max
    BY <1>8 DEF Network!Violated, Known
<1>12. between \notin DOMAIN costMap => known = 100
    BY <1>6 DEF Known
<1> HIDE DEF a, b, host, max, costMap, between, distance, known
<1>13. distance \in Nat
    BY <1>4, <1>5, <1>6
<1>14. Network!Satisfied(c.cluster, n, costMap, d) => distance <= max
    BY <1>4, <1>5, <1>6, <1>7, <1>10
<1>15. Network!Violated(c.cluster, n, costMap, d) => distance > max
    BY <1>4, <1>5, <1>6, <1>7, <1>11
<1>16. distance > max /\ distance # Network!MaxCost => Network!Violated(c.cluster, n, costMap, d)
    BY <1>4, <1>5, <1>6, <1>7, <1>11, <1>12
<1> QED BY <1>9, <1>13, <1>14, <1>15, <1>16 DEF a, b, host, max, costMap, distance

\* Dependencies on pods whose nodes are there, each with a maximum from the cost of
\* a zone up to MaxCost.
NetworkGiven(c) ==
    LET scheduled == Network!GetScheduledList(c.pods)
        deps == Network!GetDependencyList(c.selector, c.workloads)
    IN  /\ ClusterGiven(c.cluster) /\ WeightsGiven(c.manual, c.weights)
        /\ IsFiniteSet(scheduled) /\ IsFiniteSet(deps)
        /\ \A p \in scheduled : p.host \in DOMAIN c.cluster
        /\ \A d \in deps : d.max \in Network!SameZone .. Network!MaxCost - 1

LEMMA SameNetworkSum ==
    ASSUME NEW f
    PROVE  Network!SumFunction(f) = SumFunctionOnSet(f, DOMAIN f)
BY DEF Network!SumFunction, Network!SumFunctionOnSet, Network!FoldFunctionOnSet,
       Network!MapThenFoldSet, SumFunctionOnSet, FoldFunctionOnSet, MapThenFoldSet

LEMMA SameCardinality ==
    ASSUME NEW S
    PROVE  Network!Cardinality(S) = Cardinality(S)
BY DEF Network!Cardinality, Cardinality

\* What PreFilter of NetworkOverhead makes of weights listed in any order, through
\* the sorts, the binary searches and the cost map: the cost of a node is the sum
\* of its distances to the pods depended on, the filter follows the distances, and
\* the scores rank the nodes that pass by their cost.  For any nodes, labels,
\* weights, pods and dependencies.
THEOREM NetworkIsSound ==
    ASSUME NEW c, NetworkGiven(c)
    PROVE  LET state == Network!PreFilter(c)
               pairs == Network!Dependencies(Network!GetScheduledList(c.pods),
                                             Network!GetDependencyList(c.selector, c.workloads))
               passed == {n \in DOMAIN c.cluster : Network!FilterNode(state, n)}
           IN  Network!NetworkSound(c, state, pairs, [n \in passed |-> Network!ScoreNode(state, n)])
<1> DEFINE state == Network!PreFilter(c)
           scheduled == Network!GetScheduledList(c.pods)
           deps == Network!GetDependencyList(c.selector, c.workloads)
           pairs == Network!Dependencies(scheduled, deps)
           passed == {n \in DOMAIN c.cluster : Network!FilterNode(state, n)}
           raw == [n \in passed |-> Network!ScoreNode(state, n)]
           MapOf(n) == Network!populateCostMap(c.weights, c.manual, c.cluster[n].region, c.cluster[n].zone)
           Far(n, d) == Network!Distance(c, n, d[1].host)
           far(n) == {d \in pairs : Far(n, d) > d[2].max}
           unknown(n) == {d \in pairs : Far(n, d) = Network!MaxCost}
           satisfied(n) == {d \in pairs : Network!Satisfied(c.cluster, n, MapOf(n), d)}
           violated(n) == {d \in pairs : Network!Violated(c.cluster, n, MapOf(n), d)}
           distances(n) == [d \in pairs |-> Far(n, d)]
<1>1. /\ ClusterGiven(c.cluster) /\ WeightsGiven(c.manual, c.weights)
      /\ IsFiniteSet(scheduled) /\ IsFiniteSet(deps)
      /\ \A p \in scheduled : p.host \in DOMAIN c.cluster
      /\ \A d \in deps : d.max \in Network!SameZone .. Network!MaxCost - 1
    BY DEF NetworkGiven
<1>2. pairs \subseteq scheduled \X deps
    BY DEF Network!Dependencies
<1>3. /\ state.scoreEqually <=> deps = {} \/ scheduled = {}
      /\ \A n \in DOMAIN c.cluster :
            /\ state.node[n].satisfied = Cardinality(satisfied(n))
            /\ state.node[n].violated = Cardinality(violated(n))
            /\ state.node[n].finalCost =
                  Network!SumFunction([d \in pairs |-> Network!Cost(c.cluster, n, MapOf(n), d)])
    <2> DEFINE count(n) == Network!Verdicts(c.cluster, n, MapOf(n), scheduled, deps)
    <2>1. state = [scoreEqually |-> deps = {} \/ scheduled = {},
                   node |-> [n \in DOMAIN c.cluster |-> count(n)]]
        BY DEF Network!PreFilter
    <2>2. \A n : count(n) = [satisfied |-> Network!Cardinality(satisfied(n)),
                            violated |-> Network!Cardinality(violated(n)),
                            finalCost |-> Network!SumFunction(
                               [d \in pairs |-> Network!Cost(c.cluster, n, MapOf(n), d)])]
        BY DEF Network!Verdicts, Network!getAccumulatedCost
    <2>3. \A n : /\ count(n).satisfied = Cardinality(satisfied(n))
                 /\ count(n).violated = Cardinality(violated(n))
                 /\ count(n).finalCost =
                       Network!SumFunction([d \in pairs |-> Network!Cost(c.cluster, n, MapOf(n), d)])
        <3> HIDE DEF count, satisfied, violated
        <3> QED BY <2>2, SameCardinality
    <2> HIDE DEF state, scheduled, deps, count, pairs
    <2>4. state.scoreEqually <=> deps = {} \/ scheduled = {}
        BY <2>1
    <2>5. \A n \in DOMAIN c.cluster : state.node[n] = count(n)
        BY <2>1
    <2> QED BY <2>3, <2>4, <2>5
<1> HIDE DEF state, scheduled, deps, pairs
<1>4. IsFiniteSet(pairs)
    BY <1>1, <1>2, FS_Product, FS_Subset
<1>5. \A d \in pairs : /\ d[1].host \in DOMAIN c.cluster
                       /\ d[2].max \in Network!SameZone .. Network!MaxCost - 1
    BY <1>1, <1>2
<1>6. \A n \in DOMAIN c.cluster, d \in pairs :
        /\ Far(n, d) \in Nat
        /\ Network!Cost(c.cluster, n, MapOf(n), d) = Far(n, d)
        /\ Network!Satisfied(c.cluster, n, MapOf(n), d) => Far(n, d) <= d[2].max
        /\ Network!Violated(c.cluster, n, MapOf(n), d) => Far(n, d) > d[2].max
        /\ Far(n, d) > d[2].max /\ Far(n, d) # Network!MaxCost
             => Network!Violated(c.cluster, n, MapOf(n), d)
    BY <1>1, <1>5, CostIsDistance
<1> HIDE DEF Far, MapOf
<1>7. \A n \in DOMAIN c.cluster :
        /\ state.node[n].finalCost = Network!SumFunction(distances(n))
        /\ state.node[n].finalCost \in Nat
    <2> SUFFICES ASSUME NEW n \in DOMAIN c.cluster
                 PROVE  /\ state.node[n].finalCost = Network!SumFunction(distances(n))
                        /\ state.node[n].finalCost \in Nat
        OBVIOUS
    <2>1. [d \in pairs |-> Network!Cost(c.cluster, n, MapOf(n), d)] = distances(n)
        BY <1>6
    <2>2. DOMAIN distances(n) = pairs /\ \A d \in pairs : distances(n)[d] \in Nat
        BY <1>6
    <2> HIDE DEF distances
    <2>3. SumFunctionOnSet(distances(n), pairs) \in Nat
        BY <1>4, <2>2, SumNat
    <2> QED BY <1>3, <2>1, <2>2, <2>3, SameNetworkSum
<1>8. \A n \in DOMAIN c.cluster :
        /\ violated(n) \subseteq far(n)
        /\ far(n) \ unknown(n) \subseteq violated(n)
        /\ satisfied(n) \subseteq pairs \ far(n)
    <2>1. \A x, y \in Int : x <= y => ~(x > y)
        OBVIOUS
    <2>2. \A d \in pairs : d[2].max \in Int
        BY <1>5 DEF Network!SameZone, Network!MaxCost
    <2> QED BY <1>6, <2>1, <2>2
<1>9. \A n \in DOMAIN c.cluster :
        Network!FilterNode(state, n) <=>
          state.scoreEqually \/ Cardinality(violated(n)) <= Cardinality(satisfied(n))
    BY <1>3 DEF Network!FilterNode
<1>10. \A n : /\ violated(n) \subseteq pairs /\ far(n) \subseteq pairs
              /\ satisfied(n) \subseteq pairs
    OBVIOUS
<1> HIDE DEF satisfied, violated, far, unknown
<1>11. \A S \in SUBSET pairs : IsFiniteSet(S) /\ Cardinality(S) \in Nat
    BY <1>4, FS_Subset, FS_CardinalityType
<1>12. ASSUME NEW n \in DOMAIN c.cluster, far(n) = {}
       PROVE  Network!FilterNode(state, n)
    <2>1. violated(n) = {}
        BY <1>8, <1>12
    <2>2. Cardinality(violated(n)) = 0 /\ Cardinality(satisfied(n)) \in Nat
        BY <1>10, <1>11, <2>1, FS_EmptySet
    <2> QED BY <1>9, <2>2
<1>13. ASSUME NEW n \in DOMAIN c.cluster, ~state.scoreEqually,
              Cardinality(far(n) \ unknown(n)) > Cardinality(pairs \ far(n))
       PROVE  ~Network!FilterNode(state, n)
    <2>1. /\ IsFiniteSet(violated(n)) /\ Cardinality(violated(n)) \in Nat
          /\ IsFiniteSet(pairs \ far(n)) /\ Cardinality(pairs \ far(n)) \in Nat
          /\ Cardinality(satisfied(n)) \in Nat /\ Cardinality(far(n) \ unknown(n)) \in Nat
        <3>1. /\ violated(n) \in SUBSET pairs /\ pairs \ far(n) \in SUBSET pairs
              /\ satisfied(n) \in SUBSET pairs /\ far(n) \ unknown(n) \in SUBSET pairs
            BY <1>10
        <3> QED BY <1>11, <3>1
    <2>2. Cardinality(far(n) \ unknown(n)) <= Cardinality(violated(n))
        BY <1>8, <2>1, FS_Subset
    <2>3. Cardinality(satisfied(n)) <= Cardinality(pairs \ far(n))
        BY <1>8, <2>1, FS_Subset
    <2>4. ~(Cardinality(violated(n)) <= Cardinality(satisfied(n)))
        BY <1>13, <2>1, <2>2, <2>3
    <2> QED BY <1>9, <1>13, <2>4
<1>14. ~state.scoreEqually => Network!Ranked(raw, Network!NormalizeScore(raw))
    <2> SUFFICES ASSUME ~state.scoreEqually
                 PROVE  Network!Ranked(raw, Network!NormalizeScore(raw))
        OBVIOUS
    <2>1. raw \in [passed -> Nat]
        BY <1>7 DEF Network!ScoreNode
    <2>2. IsFiniteSet(passed)
        BY <1>1, FS_Subset DEF ClusterGiven
    <2> HIDE DEF raw, passed
    <2>3. CASE passed = {}
        BY <2>1, <2>3 DEF Network!Ranked
    <2>4. CASE passed # {}
        BY <2>1, <2>2, <2>4, CostsAreRanked
    <2> QED BY <2>3, <2>4
<1>15. Network!NetworkSound(c, state, pairs, raw)
    <2>1. \A n \in DOMAIN c.cluster :
            ~state.scoreEqually =>
              /\ state.node[n].finalCost = Network!SumFunction(distances(n))
              /\ far(n) = {} => Network!FilterNode(state, n)
              /\ Network!Cardinality(far(n) \ unknown(n)) > Network!Cardinality(pairs \ far(n))
                    => ~Network!FilterNode(state, n)
        <3> HIDE DEF distances
        <3> QED BY <1>7, <1>12, <1>13, SameCardinality
    <2> HIDE DEF raw
    <2> QED BY <1>14, <2>1 DEF Network!NetworkSound, far, unknown, Far
<1> HIDE DEF raw
<1> QED BY <1>15 DEF raw, state, pairs, scheduled, deps

-----------------------------------------------------------------------------
(* The score of LoadVariationRiskBalancing *)

LEMMA ComputedInRange ==
    ASSUME NEW data, data.avg \in Nat, data.std \in Nat, NEW req \in Nat, NEW cap \in Nat
    PROVE  Scores!computeScore(data, req, cap, 1) \in 0 .. 100
<1> DEFINE full == 100 * cap
           A == Scores!AtMost(data.avg, 100)
           B == Scores!AtMost(data.std, 100)
           mu == Scores!AtMost(A * cap + 100 * req, full)
           sigma == Scores!AtMost(1 * B * cap, full)
<1>1. CASE cap <= 0
    BY <1>1 DEF Scores!computeScore
<1>2. CASE ~(cap <= 0)
    <2>1. A \in Nat /\ B \in Nat
        BY DEF Scores!AtMost
    <2> HIDE DEF A, B
    <2>2. A * cap \in Nat /\ 1 * B * cap \in Nat /\ full \in Nat
        BY <2>1
    <2>3. mu \in 0 .. full /\ sigma \in 0 .. full
        BY <2>2 DEF Scores!AtMost
    <2>4. Scores!computeScore(data, req, cap, 1) = Scores!Round(2 * full - mu - sigma, 2 * cap)
        BY <1>2 DEF Scores!computeScore, A, B
    <2> HIDE DEF mu, sigma
    <2> DEFINE x == 2 * full - mu - sigma
               d == 2 * cap
    <2>5. x \in Int /\ d \in Nat /\ 0 < d /\ 0 * d <= x /\ x <= 100 * d
        BY <1>2, <2>3
    <2> HIDE DEF x, d
    <2>6. Scores!Round(x, d) \in Int /\ 0 <= Scores!Round(x, d) /\ Scores!Round(x, d) <= 100
        BY <2>5, Rounded
    <2> QED BY <2>4, <2>6 DEF x, d
<1> QED BY <1>1, <1>2

\* A number that is no less in proportion to its denominator is not rounded to less.
LEMMA RoundedDouble ==
    ASSUME NEW a \in Int, NEW b \in Int, 2 * a <= b, NEW d \in Nat, 0 < d
    PROVE  Scores!Round(a, d) <= Scores!Round(b, 2 * d)
<1> DEFINE x == 2 * a + d
           y == 2 * b + 2 * d
           e == 2 * d
           q == x \div e
<1>1. x \in Int /\ y \in Int /\ e \in Nat /\ 0 < e /\ 2 * x <= y
    OBVIOUS
<1>2. Scores!Round(a, d) = q /\ Scores!Round(b, 2 * d) = y \div (2 * e)
    BY DEF Scores!Round
<1> HIDE DEF x, y, e
<1>3. q \in Int /\ e * q <= x
    BY <1>1, QuotientOf
<1> HIDE DEF q
<1>4. q * (2 * e) <= y
    <2>1. q * (2 * e) = 2 * (e * q) /\ e * q \in Int
        BY <1>1, <1>3
    <2> QED BY <1>1, <1>3, <2>1
<1>5. 2 * e \in Nat /\ 0 < 2 * e
    BY <1>1
<1>6. q <= y \div (2 * e)
    BY <1>1, <1>3, <1>4, <1>5, QuotientBounds
<1> QED BY <1>2, <1>6

\* The smaller of two nodes with the same measured percents is not preferred.
LEMMA ComputedDouble ==
    ASSUME NEW data, data.avg \in Nat, data.std \in Nat, NEW req \in Nat, NEW cap \in Nat
    PROVE  Scores!computeScore(data, req, cap, 1) <= Scores!computeScore(data, req, 2 * cap, 1)
<1> DEFINE A == Scores!AtMost(data.avg, 100)
           B == Scores!AtMost(data.std, 100)
           Mu(c) == Scores!AtMost(A * c + 100 * req, 100 * c)
           Sigma(c) == Scores!AtMost(1 * B * c, 100 * c)
           Rest(c) == 2 * (100 * c) - Mu(c) - Sigma(c)
<1>1. CASE cap <= 0
    BY <1>1 DEF Scores!computeScore
<1>2. CASE ~(cap <= 0)
    <2>1. A \in Nat /\ B \in Nat
        BY DEF Scores!AtMost
    <2>2. /\ Scores!computeScore(data, req, cap, 1) = Scores!Round(Rest(cap), 2 * cap)
          /\ Scores!computeScore(data, req, 2 * cap, 1) = Scores!Round(Rest(2 * cap), 2 * (2 * cap))
        BY <1>2 DEF Scores!computeScore
    <2> HIDE DEF A, B
    <2> DEFINE p == A * cap
               q == 1 * B * cap
    <2>3. p \in Nat /\ q \in Nat /\ A * (2 * cap) = 2 * p /\ 1 * B * (2 * cap) = 2 * q
        BY <2>1
    <2>4. /\ Mu(cap) = Scores!AtMost(p + 100 * req, 100 * cap)
          /\ Mu(2 * cap) = Scores!AtMost(2 * p + 100 * req, 100 * (2 * cap))
          /\ Sigma(cap) = Scores!AtMost(q, 100 * cap)
          /\ Sigma(2 * cap) = Scores!AtMost(2 * q, 100 * (2 * cap))
        BY <2>3
    <2> HIDE DEF p, q, Mu, Sigma
    <2>5. /\ Mu(cap) \in Int /\ Mu(2 * cap) \in Int /\ Mu(2 * cap) <= 2 * Mu(cap)
          /\ Sigma(cap) \in Int /\ Sigma(2 * cap) \in Int /\ Sigma(2 * cap) <= 2 * Sigma(cap)
        BY <2>3, <2>4 DEF Scores!AtMost
    <2>6. Rest(cap) \in Int /\ Rest(2 * cap) \in Int /\ 2 * Rest(cap) <= Rest(2 * cap)
        BY <2>5
    <2>7. 2 * cap \in Nat /\ 0 < 2 * cap
        BY <1>2
    <2> HIDE DEF Rest
    <2> QED BY <2>2, <2>6, <2>7, RoundedDouble
<1> QED BY <1>1, <1>2

Metrics == [type : STRING, op : STRING, value : Nat]
MetricsAt(list, type, ops) == {i \in DOMAIN list : list[i].type = type /\ list[i].op \in ops}
Newest(list, type, ops) ==
    IF MetricsAt(list, type, ops) = {} THEN 0
    ELSE list[Scores!Max(MetricsAt(list, type, ops))].value

LEMMA DataUnfolds ==
    ASSUME NEW list, NEW type
    PROVE  LET data == Scores!GetResourceData(list, type)
           IN  /\ data.avg = IF MetricsAt(list, type, {"AVG"}) = {}
                             THEN Newest(list, type, Scores!LatestOps) ELSE Newest(list, type, {"AVG"})
               /\ data.std = Newest(list, type, {"STD"})
               /\ data.valid <=> \E i \in DOMAIN list : list[i].type = type
BY DEF Scores!GetResourceData, MetricsAt, Newest

\* The newest of some entries is the value of one of them.
LEMMA NewestIsOne ==
    ASSUME NEW list \in Seq(Metrics), NEW type, NEW ops, MetricsAt(list, type, ops) # {}
    PROVE  \E i \in MetricsAt(list, type, ops) :
              /\ Newest(list, type, ops) = list[i].value
              /\ list[i].value \in Nat
<1> DEFINE S == MetricsAt(list, type, ops)
           id == [i \in S |-> i]
<1>1. Len(list) \in Nat /\ DOMAIN list = 1 .. Len(list)
      /\ \A i \in DOMAIN list : list[i] \in Metrics
    OBVIOUS
<1>2. S \subseteq 1 .. Len(list)
    BY <1>1 DEF MetricsAt
<1>3. IsFiniteSet(S)
    <2>1. IsFiniteSet(1 .. Len(list))
        BY <1>1, IndicesAreFinite
    <2> HIDE DEF S
    <2> QED BY <1>2, <2>1, FS_Subset
<1> HIDE DEF S
<1>4. \A i \in S : id[i] = i /\ id[i] \in Int
    BY <1>1, <1>2
<1> HIDE DEF id
<1>5. PICK x \in S : \A y \in S : id[x] >= id[y]
    BY <1>3, <1>4, GreatestValue DEF S
<1>6. \A y \in S : x >= y
    BY <1>4, <1>5
<1>7. Scores!Max(S) \in S
    BY <1>6 DEF Scores!Max
<1>8. \A i \in S : list[i].value \in Nat
    <2>1. \A i \in S : list[i] \in Metrics
        BY <1>1, <1>2
    <2> QED BY <2>1 DEF Metrics
<1> QED BY <1>7, <1>8 DEF Newest, S

LEMMA DataType ==
    ASSUME NEW list \in Seq(Metrics), NEW type
    PROVE  LET data == Scores!GetResourceData(list, type)
           IN  data.avg \in Nat /\ data.std \in Nat
<1>1. \A ops : Newest(list, type, ops) \in Nat
    <2> SUFFICES ASSUME NEW ops PROVE Newest(list, type, ops) \in Nat
        OBVIOUS
    <2>1. CASE MetricsAt(list, type, ops) = {}
        BY <2>1 DEF Newest
    <2>2. CASE MetricsAt(list, type, ops) # {}
        BY <2>2, NewestIsOne
    <2> QED BY <2>1, <2>2
<1> DEFINE data == Scores!GetResourceData(list, type)
<1>2. /\ data.avg = Newest(list, type, Scores!LatestOps) \/ data.avg = Newest(list, type, {"AVG"})
      /\ data.std = Newest(list, type, {"STD"})
    BY DataUnfolds
<1> HIDE DEF data
<1>3. data.avg \in Nat /\ data.std \in Nat
    BY <1>1, <1>2
<1> QED BY <1>3 DEF data

\* Each statistic of a resource is reported once, a value without operator being
\* the latest one.
OpOf(m) == IF m.op \in Scores!LatestOps THEN "Latest" ELSE m.op
NamedOnce(list) ==
    \A i, j \in DOMAIN list : i # j =>
        <<list[i].type, OpOf(list[i])>> # <<list[j].type, OpOf(list[j])>>

LEMMA DataReversed ==
    ASSUME NEW list \in Seq(Metrics), NamedOnce(list), NEW type
    PROVE  LET data == Scores!GetResourceData(list, type)
               back == Scores!GetResourceData(Scores!Reverse(list), type)
           IN  back.avg = data.avg /\ back.std = data.std /\ (back.valid <=> data.valid)
<1> DEFINE n == Len(list)
           rev == Scores!Reverse(list)
<1>1. n \in Nat /\ DOMAIN list = 1 .. n /\ \A i \in DOMAIN list : list[i] \in Metrics
    OBVIOUS
<1>2. rev = [i \in 1 .. n |-> list[n - i + 1]]
    BY DEF Scores!Reverse
<1>3. \A i \in 1 .. n : n - i + 1 \in 1 .. n /\ n - (n - i + 1) + 1 = i
    BY <1>1
<1> HIDE DEF n, rev
<1>4. DOMAIN rev = 1 .. n /\ \A i \in 1 .. n : rev[i] = list[n - i + 1] /\ list[i] = rev[n - i + 1]
    BY <1>2, <1>3
<1>5. rev \in Seq(Metrics)
    <2>1. \A i \in 1 .. n : list[n - i + 1] \in Metrics
        BY <1>1, <1>3
    <2> QED BY <1>1, <1>2, <2>1
<1>6. /\ \A i \in DOMAIN rev : \E j \in DOMAIN list : rev[i] = list[j]
      /\ \A j \in DOMAIN list : \E i \in DOMAIN rev : rev[i] = list[j]
    BY <1>1, <1>3, <1>4
<1>7. ASSUME NEW ops, ops = {"AVG"} \/ ops = {"STD"} \/ ops = Scores!LatestOps
      PROVE  /\ MetricsAt(rev, type, ops) = {} <=> MetricsAt(list, type, ops) = {}
             /\ Newest(rev, type, ops) = Newest(list, type, ops)
    <2>1. MetricsAt(rev, type, ops) = {} <=> MetricsAt(list, type, ops) = {}
        BY <1>6 DEF MetricsAt
    <2>2. \A i, j \in MetricsAt(list, type, ops) : i = j
        <3> SUFFICES ASSUME NEW i \in MetricsAt(list, type, ops), NEW j \in MetricsAt(list, type, ops),
                            i # j
                     PROVE  FALSE
            OBVIOUS
        <3>1. /\ i \in DOMAIN list /\ j \in DOMAIN list
              /\ list[i].type = type /\ list[j].type = type
              /\ list[i].op \in ops /\ list[j].op \in ops
            BY DEF MetricsAt
        <3>2. OpOf(list[i]) = OpOf(list[j])
            <4>1. CASE ops = {"AVG"}
                BY <3>1, <4>1 DEF OpOf
            <4>2. CASE ops = {"STD"}
                BY <3>1, <4>2 DEF OpOf
            <4>3. CASE ops = Scores!LatestOps
                BY <3>1, <4>3 DEF OpOf
            <4> QED BY <1>7, <4>1, <4>2, <4>3
        <3>3. <<list[i].type, OpOf(list[i])>> # <<list[j].type, OpOf(list[j])>>
            BY <3>1 DEF NamedOnce
        <3> QED BY <3>1, <3>2, <3>3
    <2>3. CASE MetricsAt(list, type, ops) = {}
        BY <2>1, <2>3 DEF Newest
    <2>4. CASE MetricsAt(list, type, ops) # {}
        <3>1. PICK i \in MetricsAt(list, type, ops) : Newest(list, type, ops) = list[i].value
            BY <2>4, NewestIsOne
        <3>2. PICK k \in MetricsAt(rev, type, ops) : Newest(rev, type, ops) = rev[k].value
            BY <1>5, <2>1, <2>4, NewestIsOne
        <3>3. n - k + 1 \in MetricsAt(list, type, ops) /\ rev[k] = list[n - k + 1]
            BY <1>1, <1>3, <1>4, <3>2 DEF MetricsAt
        <3>4. n - k + 1 = i
            BY <2>2, <3>1, <3>3
        <3> QED BY <2>1, <3>1, <3>2, <3>3, <3>4
    <2> QED BY <2>1, <2>3, <2>4
<1>8. (\E i \in DOMAIN rev : rev[i].type = type) <=> \E i \in DOMAIN list : list[i].type = type
    BY <1>6
<1>9. /\ Newest(rev, type, {"AVG"}) = Newest(list, type, {"AVG"})
      /\ Newest(rev, type, {"STD"}) = Newest(list, type, {"STD"})
      /\ Newest(rev, type, Scores!LatestOps) = Newest(list, type, Scores!LatestOps)
      /\ MetricsAt(rev, type, {"AVG"}) = {} <=> MetricsAt(list, type, {"AVG"}) = {}
    BY <1>7
<1> DEFINE data == Scores!GetResourceData(list, type)
           back == Scores!GetResourceData(rev, type)
<1>10. /\ data.avg = IF MetricsAt(list, type, {"AVG"}) = {}
                     THEN Newest(list, type, Scores!LatestOps) ELSE Newest(list, type, {"AVG"})
       /\ data.std = Newest(list, type, {"STD"})
       /\ data.valid <=> \E i \in DOMAIN list : list[i].type = type
    BY DataUnfolds
<1>11. /\ back.avg = IF MetricsAt(rev, type, {"AVG"}) = {}
                     THEN Newest(rev, type, Scores!LatestOps) ELSE Newest(rev, type, {"AVG"})
       /\ back.std = Newest(rev, type, {"STD"})
       /\ back.valid <=> \E i \in DOMAIN rev : rev[i].type = type
    BY DataUnfolds
<1> HIDE DEF data, back
<1>12. back.avg = data.avg /\ back.std = data.std /\ (back.valid <=> data.valid)
    BY <1>8, <1>9, <1>10, <1>11
<1> QED BY <1>12 DEF data, back, rev

LEMMA ComputedMore ==
    ASSUME NEW data, data.avg \in Nat, data.std \in Nat, NEW req \in Nat, NEW cap \in Nat, NEW more,
           more = cap \/ more = 2 * cap
    PROVE  Scores!computeScore(data, req, cap, 1) <= Scores!computeScore(data, req, more, 1)
<1>1. CASE more = cap
    <2>1. Scores!computeScore(data, req, cap, 1) \in 0 .. 100
        BY ComputedInRange
    <2>2. \A x \in 0 .. 100 : x <= x
        OBVIOUS
    <2> QED BY <1>1, <2>1, <2>2
<1>2. CASE more = 2 * cap
    BY <1>2, ComputedDouble
<1> QED BY <1>1, <1>2

Amounts == [cpu : Nat, memory : Nat]

\* The score from the two resources, of which one may not be measured.
Combined(cpuValid, memoryValid, cpu, memory) ==
    LET c == IF cpuValid THEN cpu ELSE 0
        m == IF memoryValid THEN memory ELSE 0
    IN  IF cpuValid /\ memoryValid THEN Scores!AtMost(c, m) ELSE Scores!AtLeast(c, m)

LEMMA SmallerOfTwo ==
    ASSUME NEW a \in 0 .. 100, NEW b \in 0 .. 100
    PROVE  /\ Scores!AtMost(a, b) \in 0 .. 100
           /\ Scores!AtMost(a, b) <= a /\ Scores!AtMost(a, b) <= b
           /\ Scores!AtMost(a, b) = a \/ Scores!AtMost(a, b) = b
<1>1. CASE a > b
    <2>1. Scores!AtMost(a, b) = b
        BY <1>1 DEF Scores!AtMost
    <2>2. b \in 0 .. 100 /\ b <= a /\ b <= b
        BY <1>1
    <2> QED BY <2>1, <2>2, Zenon
<1>2. CASE ~(a > b)
    <2>1. Scores!AtMost(a, b) = a
        BY <1>2 DEF Scores!AtMost
    <2>2. a \in 0 .. 100 /\ a <= a /\ a <= b
        BY <1>2
    <2> QED BY <2>1, <2>2, Zenon
<1> QED BY <1>1, <1>2, Zenon

LEMMA SmallerGrows ==
    ASSUME NEW a \in 0 .. 100, NEW b \in 0 .. 100, NEW x \in 0 .. 100, NEW y \in 0 .. 100,
           a <= x, b <= y
    PROVE  Scores!AtMost(a, b) <= Scores!AtMost(x, y)
<1> DEFINE l == Scores!AtMost(a, b)
           h == Scores!AtMost(x, y)
<1>1. l \in 0 .. 100 /\ l <= a /\ l <= b
    BY SmallerOfTwo, Zenon
<1>2. h = x \/ h = y
    BY SmallerOfTwo, Zenon
<1> HIDE DEF l, h
<1>3. l <= h
    BY <1>1, <1>2
<1> QED BY <1>3 DEF l, h

LEMMA LargerOfZero ==
    ASSUME NEW x \in 0 .. 100
    PROVE  Scores!AtLeast(x, 0) = x /\ Scores!AtLeast(0, x) = x
<1>1. CASE x = 0
    BY <1>1 DEF Scores!AtLeast
<1>2. CASE x # 0
    <2>1. ~ (x < 0) /\ 0 < x
        BY <1>2
    <2> QED BY <2>1, Zenon DEF Scores!AtLeast
<1> QED BY <1>1, <1>2, Zenon

LEMMA CombinedMono ==
    ASSUME NEW v, NEW w, NEW a \in 0 .. 100, NEW b \in 0 .. 100
    PROVE  /\ Combined(v, w, a, b) \in 0 .. 100
           /\ \A x, y \in 0 .. 100 : a <= x /\ b <= y => Combined(v, w, a, b) <= Combined(v, w, x, y)
<1>1. /\ Scores!AtMost(a, b) \in 0 .. 100
      /\ \A x, y \in 0 .. 100 : a <= x /\ b <= y => Scores!AtMost(a, b) <= Scores!AtMost(x, y)
    BY SmallerOfTwo, SmallerGrows, Zenon
<1>2. /\ Scores!AtLeast(a, 0) \in 0 .. 100
      /\ \A x, y \in 0 .. 100 : a <= x /\ b <= y => Scores!AtLeast(a, 0) <= Scores!AtLeast(x, 0)
    BY LargerOfZero, Zenon
<1>3. /\ Scores!AtLeast(0, b) \in 0 .. 100
      /\ \A x, y \in 0 .. 100 : a <= x /\ b <= y => Scores!AtLeast(0, b) <= Scores!AtLeast(0, y)
    BY LargerOfZero, Zenon
<1>4. /\ Scores!AtLeast(0, 0) \in 0 .. 100
      /\ \A x, y \in 0 .. 100 : a <= x /\ b <= y => Scores!AtLeast(0, 0) <= Scores!AtLeast(0, 0)
    <2>1. 0 \in 0 .. 100 /\ 0 <= 0
        OBVIOUS
    <2> QED BY <2>1, LargerOfZero, Zenon
<1>5. CASE v /\ w
    <2>1. \A x, y : Combined(v, w, x, y) = Scores!AtMost(x, y)
        BY <1>5 DEF Combined
    <2> QED BY <1>1, <2>1, ZenonT(30)
<1>6. CASE v /\ ~w
    <2>1. \A x, y : Combined(v, w, x, y) = Scores!AtLeast(x, 0)
        BY <1>6 DEF Combined
    <2> QED BY <1>2, <2>1, Zenon
<1>7. CASE ~v /\ w
    <2>1. \A x, y : Combined(v, w, x, y) = Scores!AtLeast(0, y)
        BY <1>7 DEF Combined
    <2> QED BY <1>3, <2>1, Zenon
<1>8. CASE ~v /\ ~w
    <2>1. \A x, y : Combined(v, w, x, y) = Scores!AtLeast(0, 0)
        BY <1>8 DEF Combined
    <2> QED BY <1>4, <2>1, Zenon
<1> QED BY <1>5, <1>6, <1>7, <1>8, Zenon

\* LoadVariationRiskBalancing scores a node from 0 to 100, whatever the order in
\* which each statistic of a resource is reported once, and of two capacities never
\* prefers the smaller for the same measured percents: for any measurements, requests
\* and capacities.
THEOREM RiskBalancingIsSound ==
    ASSUME NEW list \in Seq(Metrics), NEW req \in Amounts, NEW capacity \in Amounts
    PROVE  Scores!RiskBalancingSound(list, req, capacity)
<1> DEFINE Data(s, type) == Scores!GetResourceData(s, type)
           Cpu(s, c) == Scores!computeScore(Data(s, "CPU"), req.cpu, c.cpu, 1)
           Memory(s, c) == Scores!computeScore(Data(s, "Memory"), req.memory, c.memory, 1)
           Risk(s, c) == Scores!RiskBalancingScore(s, req, c, 1)
           rev == Scores!Reverse(list)
<1>1. \A s, c : Risk(s, c) = Combined(Data(s, "CPU").valid, Data(s, "Memory").valid, Cpu(s, c), Memory(s, c))
    BY DEF Scores!RiskBalancingScore, Combined
<1>2. /\ req.cpu \in Nat /\ req.memory \in Nat
      /\ \A c \in Amounts : c.cpu \in Nat /\ c.memory \in Nat
    BY DEF Amounts
<1>3. \A type : Data(list, type).avg \in Nat /\ Data(list, type).std \in Nat
    BY DataType
<1> HIDE DEF Data
<1>4. \A c \in Amounts : Cpu(list, c) \in 0 .. 100 /\ Memory(list, c) \in 0 .. 100
    <2>1. \A d, q, k : d.avg \in Nat /\ d.std \in Nat /\ q \in Nat /\ k \in Nat =>
                          Scores!computeScore(d, q, k, 1) \in 0 .. 100
        BY ComputedInRange
    <2> QED BY <1>2, <1>3, <2>1
<1>5. Risk(list, capacity) \in 0 .. 100
    <2> DEFINE v == Data(list, "CPU").valid
               w == Data(list, "Memory").valid
    <2>1. Risk(list, capacity) = Combined(v, w, Cpu(list, capacity), Memory(list, capacity))
        BY <1>1, Zenon
    <2>2. Cpu(list, capacity) \in 0 .. 100 /\ Memory(list, capacity) \in 0 .. 100
        BY <1>4, Zenon
    <2> HIDE DEF Cpu, Memory, Risk, v, w
    <2>3. Combined(v, w, Cpu(list, capacity), Memory(list, capacity)) \in 0 .. 100
        BY <2>2, CombinedMono, Zenon
    <2> QED BY <2>1, <2>3, Zenon
<1>6. ASSUME NamedOnce(list)
      PROVE  Risk(rev, capacity) = Risk(list, capacity)
    <2>1. \A type : /\ Data(rev, type).avg = Data(list, type).avg
                    /\ Data(rev, type).std = Data(list, type).std
                    /\ Data(rev, type).valid <=> Data(list, type).valid
        BY <1>6, DataReversed DEF Data
    <2>2. Cpu(rev, capacity) = Cpu(list, capacity) /\ Memory(rev, capacity) = Memory(list, capacity)
        BY <2>1 DEF Scores!computeScore
    <2> HIDE DEF Cpu, Memory, Risk, rev
    <2>3. \A v, w, x, y, a, b : (v <=> x) /\ (w <=> y) => Combined(v, w, a, b) = Combined(x, y, a, b)
        BY DEF Combined
    <2> QED BY <1>1, <2>1, <2>2, <2>3
<1>7. ASSUME NEW r \in {"cpu", "memory"}
      PROVE  Risk(list, [capacity EXCEPT ![r] = 2 * @]) >= Risk(list, capacity)
    <2> DEFINE more == [capacity EXCEPT ![r] = 2 * @]
    <2>1. /\ more \in Amounts
          /\ more.cpu = capacity.cpu \/ more.cpu = 2 * capacity.cpu
          /\ more.memory = capacity.memory \/ more.memory = 2 * capacity.memory
        BY DEF Amounts
    <2> HIDE DEF more
    <2>2. /\ Cpu(list, capacity) <= Cpu(list, more)
          /\ Memory(list, capacity) <= Memory(list, more)
        <3>1. \A d, q, k, l : d.avg \in Nat /\ d.std \in Nat /\ q \in Nat /\ k \in Nat /\ (l = k \/ l = 2 * k) =>
                 Scores!computeScore(d, q, k, 1) <= Scores!computeScore(d, q, l, 1)
            BY ComputedMore
        <3> QED BY <1>2, <1>3, <2>1, <3>1
    <2> HIDE DEF Cpu, Memory, Risk
    <2>4. /\ Risk(list, capacity) <= Risk(list, more)
          /\ Risk(list, capacity) \in 0 .. 100 /\ Risk(list, more) \in 0 .. 100
        <3> DEFINE v == Data(list, "CPU").valid
                   w == Data(list, "Memory").valid
        <3>1. /\ Risk(list, capacity) = Combined(v, w, Cpu(list, capacity), Memory(list, capacity))
              /\ Risk(list, more) = Combined(v, w, Cpu(list, more), Memory(list, more))
            BY <1>1
        <3> HIDE DEF v, w
        <3>2. /\ Cpu(list, capacity) \in 0 .. 100 /\ Memory(list, capacity) \in 0 .. 100
              /\ Cpu(list, more) \in 0 .. 100 /\ Memory(list, more) \in 0 .. 100
            BY <1>4, <2>1
        <3>3. Combined(v, w, Cpu(list, capacity), Memory(list, capacity)) <=
                 Combined(v, w, Cpu(list, more), Memory(list, more))
            BY <2>2, <3>2, CombinedMono, Zenon
        <3>4. /\ Combined(v, w, Cpu(list, capacity), Memory(list, capacity)) \in 0 .. 100
              /\ Combined(v, w, Cpu(list, more), Memory(list, more)) \in 0 .. 100
            BY <3>2, CombinedMono, Zenon
        <3> QED BY <3>1, <3>3, <3>4, Zenon
    <2>5. \A x, y \in 0 .. 100 : x <= y => y >= x
        OBVIOUS
    <2> QED BY <2>4, <2>5 DEF more
<1> HIDE DEF Risk, rev
<1>8. NamedOnce(list) => Risk(rev, capacity) = Risk(list, capacity)
    BY <1>6
<1> QED BY <1>5, <1>7, <1>8 DEF Scores!RiskBalancingSound, NamedOnce, OpOf, Scores!MaxNodeScore, Risk, rev

-----------------------------------------------------------------------------
(* The order of the scheduling queue *)

LEMMA CreationIsTime ==
    ASSUME NEW groups, \A g \in DOMAIN groups : groups[g] \in Int, NEW p \in QueuedPodType
    PROVE  Scores!GetCreationTimestamp(groups, p) \in Int
BY DEF QueuedPodType, Scores!GetCreationTimestamp

\* The QoS classes as numbers.
LEMMA ClassRank ==
    ASSUME NEW qos \in {"Guaranteed", "Burstable", "BestEffort"}
    PROVE  (CHOOSE i \in 1 .. 3 : <<"BestEffort", "Burstable", "Guaranteed">>[i] = qos)
             = IF qos = "Guaranteed" THEN 3 ELSE IF qos = "Burstable" THEN 2 ELSE 1
<1> DEFINE classes == <<"BestEffort", "Burstable", "Guaranteed">>
           rank == IF qos = "Guaranteed" THEN 3 ELSE IF qos = "Burstable" THEN 2 ELSE 1
<1>1. classes[1] = "BestEffort" /\ classes[2] = "Burstable" /\ classes[3] = "Guaranteed"
    OBVIOUS
<1>2. \A i \in 1 .. 3 : i = 1 \/ i = 2 \/ i = 3
    OBVIOUS
<1>3. \A i \in 1 .. 3 : classes[i] = qos <=> i = rank
    BY <1>1, <1>2
<1>4. rank \in 1 .. 3
    OBVIOUS
<1> HIDE DEF classes, rank
<1> QED BY <1>3, <1>4 DEF classes, rank

\* Less of Coscheduling is a strict total order that keeps gangs together, and
\* Less of QOSSort a total preorder that never puts a lower class first: for any
\* queue, any PodGroups and whether or not the client finds them, as long as no two
\* pods have one name.
THEOREM QueueOrdersAreSound ==
    ASSUME NEW groups, \A g \in DOMAIN groups : groups[g] \in Int,
           NEW pods \in SUBSET QueuedPodType, \A p, q \in pods : p.name = q.name => p = q
    PROVE  Scores!OrdersSound(groups, pods)
<1> DEFINE Less(p, q) == Scores!CoschedulingLess(groups, p, q)
           Time(p) == Scores!GetCreationTimestamp(groups, p)
           Rank(p) == CHOOSE i \in 1 .. 3 : <<"BestEffort", "Burstable", "Guaranteed">>[i] = p.qos
<1>1. \A p \in pods : /\ p.name \in Nat /\ p.priority \in Int /\ Time(p) \in Int
                      /\ p.qos \in {"Guaranteed", "Burstable", "BestEffort"}
    BY CreationIsTime DEF QueuedPodType
<1>2. \A p, q \in pods :
         Less(p, q) <=> \/ p.priority > q.priority
                        \/ p.priority = q.priority /\ Time(p) < Time(q)
                        \/ p.priority = q.priority /\ Time(p) = Time(q) /\ p.name < q.name
    BY <1>1 DEF Scores!CoschedulingLess
<1>3. \A p \in pods : Rank(p) = IF p.qos = "Guaranteed" THEN 3
                                ELSE IF p.qos = "Burstable" THEN 2 ELSE 1
    BY <1>1, ClassRank
<1>4. \A p, q \in pods :
         Scores!QOSLess(p, q) <=> \/ p.priority > q.priority
                                  \/ p.priority = q.priority /\ Rank(p) >= Rank(q)
    BY <1>1, <1>3 DEF Scores!QOSLess, Scores!compQOS
<1>5. \A p, q \in pods : p.group = q.group /\ p.group \in DOMAIN groups =>
         Time(p) = groups[p.group] /\ Time(q) = groups[p.group]
    BY DEF Scores!GetCreationTimestamp
<1> HIDE DEF Less, Time, Rank
<1>6. \A p \in pods : Rank(p) \in Int
    BY <1>3
<1>7. ASSUME NEW p \in pods, NEW q \in pods
      PROVE  /\ p # q => (Less(p, q) <=> ~Less(q, p))
             /\ ~Less(p, p)
             /\ Scores!QOSLess(p, q) \/ Scores!QOSLess(q, p)
             /\ p.priority = q.priority /\ Rank(p) < Rank(q) => ~Scores!QOSLess(p, q)
    <2>1. p # q => p.name < q.name \/ q.name < p.name
        BY <1>1, <1>7
    <2>2. p # q => (Less(p, q) <=> ~Less(q, p))
        BY <1>1, <1>2, <2>1
    <2>3. ~Less(p, p)
        BY <1>1, <1>2
    <2>4. Scores!QOSLess(p, q) \/ Scores!QOSLess(q, p)
        BY <1>1, <1>4, <1>6
    <2>5. p.priority = q.priority /\ Rank(p) < Rank(q) => ~Scores!QOSLess(p, q)
        BY <1>1, <1>4, <1>6
    <2> QED BY <2>2, <2>3, <2>4, <2>5
<1>8. ASSUME NEW p \in pods, NEW q \in pods, NEW r \in pods
      PROVE  /\ Less(p, q) /\ Less(q, r) => Less(p, r)
             /\ Scores!QOSLess(p, q) /\ Scores!QOSLess(q, r) => Scores!QOSLess(p, r)
             /\ p.group = r.group /\ p.group \in DOMAIN groups /\ q.group # p.group
                  /\ Less(p, q) /\ Less(q, r) /\ p.priority = r.priority
                => Time(q) = groups[p.group]
    <2>1. Less(p, q) /\ Less(q, r) => Less(p, r)
        BY <1>1, <1>2
    <2>2. Scores!QOSLess(p, q) /\ Scores!QOSLess(q, r) => Scores!QOSLess(p, r)
        BY <1>1, <1>4, <1>6
    <2>3. ASSUME Less(p, q), Less(q, r), p.priority = r.priority
          PROVE  Time(p) <= Time(q) /\ Time(q) <= Time(r)
        BY <1>1, <1>2, <2>3
    <2>4. ASSUME p.group = r.group, p.group \in DOMAIN groups,
                 Less(p, q), Less(q, r), p.priority = r.priority
          PROVE  Time(q) = groups[p.group]
        <3>1. Time(p) = groups[p.group] /\ Time(r) = groups[p.group]
            BY <1>5, <2>4
        <3>2. Time(p) <= Time(q) /\ Time(q) <= Time(r)
            BY <2>3, <2>4
        <3> QED BY <1>1, <3>1, <3>2
    <2> QED BY <2>1, <2>2, <2>4
<1> QED BY <1>7, <1>8 DEF Scores!OrdersSound, Less, Time, Rank

-----------------------------------------------------------------------------
(* Every problem that is picked *)

\* What NearerIsBetter says of a group's pods in a network.
NearerIn(c) ==
    LET state == Network!PreFilter(c)
        passed == {n \in DOMAIN c.cluster : Network!FilterNode(state, n)}
    IN  Network!NetworkSound(c, state,
            Network!Dependencies(Network!GetScheduledList(c.pods),
                                 Network!GetDependencyList(c.selector, c.workloads)),
            [n \in passed |-> Network!ScoreNode(state, n)])

\* The surroundings are inputs, and the questions asked of them have sound answers.
NetworkAnswered(p) ==
    /\ p.kind = "cluster" => p.net \in Networks
    /\ p.kind = "network" => NearerIn(p.c)

LEMMA NetworkPicked ==
    ASSUME NEW net \in Networks, NEW pods \in PodsOfGroups,
           \A p \in pods : p.host = 0 \/ p.host \in DOMAIN net.cluster
    PROVE  NearerIn([selector |-> net.selector, workloads |-> net.workloads, cluster |-> net.cluster,
                     weights |-> net.weights, manual |-> net.manual, pods |-> pods])
<1> DEFINE c == [selector |-> net.selector, workloads |-> net.workloads, cluster |-> net.cluster,
                 weights |-> net.weights, manual |-> net.manual, pods |-> pods]
           scheduled == Network!GetScheduledList(pods)
           deps == Network!GetDependencyList(net.selector, net.workloads)
<1>1. /\ c.selector = net.selector /\ c.workloads = net.workloads /\ c.cluster = net.cluster
      /\ c.weights = net.weights /\ c.manual = net.manual /\ c.pods = pods
    OBVIOUS
<1>2. /\ ClusterGiven(net.cluster) /\ WeightsGiven(net.manual, net.weights)
      /\ IsFiniteSet(deps) /\ \A d \in deps : d.max \in Network!SameZone .. Network!MaxCost - 1
    BY NetworkInputs
<1>3. IsFiniteSet(scheduled) /\ \A p \in scheduled : p.host \in DOMAIN net.cluster
    <2>1. IsFiniteSet(pods)
        BY NetworkInputs
    <2>2. scheduled \subseteq pods /\ \A p \in scheduled : p.host # 0
        BY DEF Network!GetScheduledList
    <2> HIDE DEF scheduled
    <2> QED BY <2>1, <2>2, FS_Subset
<1> HIDE DEF c
<1>4. NetworkGiven(c)
    BY <1>1, <1>2, <1>3 DEF NetworkGiven
<1>5. NearerIn(c)
    BY <1>4, NetworkIsSound DEF NearerIn
<1> QED BY <1>5 DEF c

LEMMA NetworkStep ==
    ASSUME NetworkAnswered(problem), [AlgorithmsNext]_problem
    PROVE  NetworkAnswered(problem')
<1>1. CASE UNCHANGED problem
    BY <1>1
<1>2. CASE PickNetwork
    BY <1>2 DEF PickNetwork, NetworkAnswered
<1>3. CASE PickPodsOfGroup
    <2>1. problem.net \in Networks
        BY <1>3 DEF PickPodsOfGroup, Of, NetworkAnswered
    <2> DEFINE net == problem.net
               C(pods) == [selector |-> net.selector, workloads |-> net.workloads, cluster |-> net.cluster,
                           weights |-> net.weights, manual |-> net.manual, pods |-> pods]
    <2>2. PICK pods \in PodsOfGroups :
             /\ \A p \in pods : p.host = 0 \/ p.host \in DOMAIN net.cluster
             /\ problem' = [kind |-> "network", c |-> C(pods)]
        BY <1>3 DEF PickPodsOfGroup
    <2>3. NearerIn(C(pods))
        BY <2>1, <2>2, NetworkPicked
    <2> HIDE DEF C
    <2>4. problem'.kind = "network" /\ problem'.c = C(pods)
        BY <2>2
    <2> QED BY <2>3, <2>4 DEF NetworkAnswered
<1>4. CASE PickNUMANodes
    BY <1>4 DEF PickNUMANodes, NetworkAnswered
<1>5. CASE PickNUMAPod
    BY <1>5 DEF PickNUMAPod, NetworkAnswered
<1>6. CASE PickTopology
    BY <1>6 DEF PickTopology, NetworkAnswered
<1>7. CASE PickQueued
    BY <1>7 DEF PickQueued, NetworkAnswered
<1>8. CASE PickQueue
    BY <1>8 DEF PickQueue, NetworkAnswered
<1>9. CASE PickPacking
    BY <1>9 DEF PickPacking, NetworkAnswered
<1>10. CASE PickMeasured
    BY <1>10 DEF PickMeasured, NetworkAnswered
<1>11. CASE PickLimited
    BY <1>11 DEF PickLimited, NetworkAnswered
<1>12. CASE PickAllocatable
    BY <1>12 DEF PickAllocatable, NetworkAnswered
<1> QED BY <1>1, <1>2, <1>3, <1>4, <1>5, <1>6, <1>7, <1>8, <1>9, <1>10, <1>11, <1>12 DEF AlgorithmsNext

\* Costs and filter of NetworkOverhead follow from the labels and the weights however
\* these are listed: for any labels, weights, workloads and pods that are inputs.
THEOREM NearerIsAlwaysBetter == AlgorithmsSpec => []NearerIsBetter
<1> DEFINE Inv == NetworkAnswered(problem)
<1>1. AlgorithmsInit => Inv
    BY DEF AlgorithmsInit, NetworkAnswered
<1>2. Inv /\ [AlgorithmsNext]_problem => Inv'
    BY NetworkStep
<1>3. Inv => NearerIsBetter
    BY Zenon DEF NetworkAnswered, NearerIsBetter, NearerIn, Of
<1> HIDE DEF Inv
<1> QED BY <1>1, <1>2, <1>3, PTL DEF AlgorithmsSpec

\* What RankingsSound says of a problem; the first pod of a queue is an input.
RankingsAnswered(p) ==
    /\ p.kind = "first" => p.p \in QueuedPods /\ p.groups \in GangTimes
    /\ p.kind = "queue" => Scores!OrdersSound(p.groups, p.pods)
    /\ p.kind = "topology" => Network!TopologicalSound(p.order, p.p, p.q)
    /\ p.kind = "packing" => Scores!PackingSound(p.nodes, p.usage, p.target)
    /\ p.kind = "risk" => Scores!RiskBalancingSound(p.metrics, p.req, p.capacity)
    /\ p.kind = "limit" => Scores!RiskLimitSound(p.pods, p.pod, p.capacity)
    /\ p.kind = "normalize" => Scores!NormalizedSound(p.nodes, p.weights)

LEMMA RankingsStep ==
    ASSUME RankingsAnswered(problem), [AlgorithmsNext]_problem
    PROVE  RankingsAnswered(problem')
<1>1. CASE UNCHANGED problem
    BY <1>1
<1>2. CASE PickQueued
    BY <1>2 DEF PickQueued, RankingsAnswered
<1>3. CASE PickQueue
    <2>1. problem.p \in QueuedPods /\ problem.groups \in GangTimes
        BY <1>3 DEF PickQueue, Of, RankingsAnswered
    <2>2. PICK q \in QueuedPods, r \in QueuedPods :
             /\ problem.p.name < q.name /\ q.name < r.name
             /\ problem' = [kind |-> "queue", groups |-> problem.groups, pods |-> {problem.p, q, r}]
        BY <1>3 DEF PickQueue
    <2> DEFINE p == problem.p
               pods == {p, q, r}
    <2>3. QueuedPods \subseteq QueuedPodType /\ \A g \in DOMAIN problem.groups : problem.groups[g] \in Int
        BY <2>1, ScoreInputs
    <2>4. pods \in SUBSET QueuedPodType
        BY <2>1, <2>3
    <2>5. \A s, t \in pods : s.name = t.name => s = t
        <3>1. p.name \in Nat /\ q.name \in Nat /\ r.name \in Nat
            BY <2>1, <2>3 DEF QueuedPodType
        <3>2. p.name # q.name /\ q.name # r.name /\ p.name # r.name
            BY <2>2, <3>1
        <3> QED BY <3>2
    <2> HIDE DEF pods
    <2>6. Scores!OrdersSound(problem.groups, pods)
        BY <2>3, <2>4, <2>5, QueueOrdersAreSound
    <2>7. problem'.kind = "queue" /\ problem'.groups = problem.groups /\ problem'.pods = pods
        BY <2>2 DEF pods
    <2> QED BY <2>6, <2>7 DEF RankingsAnswered
<1>4. CASE PickTopology
    <2>1. PICK order \in TopologyOrders, p \in TopologyPods, q \in TopologyPods :
             problem' = [kind |-> "topology", order |-> order, p |-> p, q |-> q]
        BY <1>4 DEF PickTopology
    <2>2. /\ order \in Orders /\ SortedBy(order, "selector")
          /\ p \in AppGroupPods /\ q \in AppGroupPods
        BY NetworkInputs DEF Orders, Ranks, AppGroupPods
    <2>3. Network!TopologicalSound(order, p, q)
        BY <2>2, TopologicalIsSound
    <2>4. problem'.kind = "topology" /\ problem'.order = order /\ problem'.p = p /\ problem'.q = q
        BY <2>1
    <2> QED BY <2>3, <2>4 DEF RankingsAnswered
<1>5. CASE PickPacking
    <2>1. PICK goal \in PackingTargets, pod \in PackedPods, m \in PackedNodes, n \in PackedNodes :
             problem' = [kind |-> "packing", target |-> goal, nodes |-> {m, n},
                         usage |-> Scores!PodUtilisation(pod, 0, 1, 150)]
        BY <1>5 DEF PickPacking
    <2>2. goal \in 1 .. 100 /\ pod \in Seq([request : Int, limit : Int]) /\ {m, n} \in SUBSET Loads
        BY ScoreInputs DEF Amount, Loads
    <2>3. Scores!PackingSound({m, n}, Scores!PodUtilisation(pod, 0, 1, 150), goal)
        BY <2>2, PackingIsSound, ZenonT(30)
    <2>4. /\ problem'.kind = "packing" /\ problem'.nodes = {m, n} /\ problem'.target = goal
          /\ problem'.usage = Scores!PodUtilisation(pod, 0, 1, 150)
        BY <2>1
    <2> QED BY <2>3, <2>4 DEF RankingsAnswered
<1>6. CASE PickMeasured
    <2>1. PICK list \in MetricLists, req \in MeasuredRequests, capacity \in MeasuredCapacities :
             problem' = [kind |-> "risk", metrics |-> list, req |-> req, capacity |-> capacity]
        BY <1>6 DEF PickMeasured
    <2>2. list \in Seq(Metrics) /\ req \in Amounts /\ capacity \in Amounts
        BY ScoreInputs DEF Metrics, Amounts
    <2>3. Scores!RiskBalancingSound(list, req, capacity)
        BY <2>2, RiskBalancingIsSound
    <2>4. /\ problem'.kind = "risk" /\ problem'.metrics = list
          /\ problem'.req = req /\ problem'.capacity = capacity
        BY <2>1
    <2> QED BY <2>3, <2>4 DEF RankingsAnswered
<1>7. CASE PickLimited
    <2>1. PICK pods \in LimitedNodes, pod \in LimitedPods, capacity \in LimitedCapacities :
             problem' = [kind |-> "limit", pods |-> pods, pod |-> pod, capacity |-> capacity]
        BY <1>7 DEF PickLimited
    <2>2. pods \in Seq(PodSpecs) /\ pod \in PodSpecs /\ capacity \in Nat
        BY ScoreInputs
    <2>3. Scores!RiskLimitSound(pods, pod, capacity)
        BY <2>2, RiskIsSound
    <2>4. /\ problem'.kind = "limit" /\ problem'.pods = pods
          /\ problem'.pod = pod /\ problem'.capacity = capacity
        BY <2>1
    <2> QED BY <2>3, <2>4 DEF RankingsAnswered
<1>8. CASE PickAllocatable
    <2>1. PICK nodes \in AllocatableNodes, weights \in ResourceWeights :
             problem' = [kind |-> "normalize", nodes |-> nodes, weights |-> weights]
        BY <1>8 DEF PickAllocatable
    <2>2. /\ IsFiniteSet(DOMAIN weights) /\ DOMAIN weights # {}
          /\ \A r \in DOMAIN weights : weights[r] \in Nat \ {0}
          /\ IsFiniteSet(DOMAIN nodes) /\ DOMAIN nodes # {}
          /\ \A n \in DOMAIN nodes : /\ nodes[n].terminating \in Nat /\ nodes[n].nominated \in Nat
                                     /\ \A r \in DOMAIN weights : nodes[n][r] \in Nat
        BY ScoreInputs
    <2>3. Scores!NormalizedSound(nodes, weights)
        BY <2>2, NormalizedIsSound
    <2>4. problem'.kind = "normalize" /\ problem'.nodes = nodes /\ problem'.weights = weights
        BY <2>1
    <2> QED BY <2>3, <2>4 DEF RankingsAnswered
<1>9. CASE PickNUMANodes
    BY <1>9 DEF PickNUMANodes, RankingsAnswered
<1>10. CASE PickNUMAPod
    BY <1>10 DEF PickNUMAPod, RankingsAnswered
<1>11. CASE PickNetwork
    BY <1>11 DEF PickNetwork, RankingsAnswered
<1>12. CASE PickPodsOfGroup
    BY <1>12 DEF PickPodsOfGroup, RankingsAnswered
<1> QED BY <1>1, <1>2, <1>3, <1>4, <1>5, <1>6, <1>7, <1>8, <1>9, <1>10, <1>11, <1>12 DEF AlgorithmsNext

\* The queue orders are orders that keep gangs together, the order of an AppGroup is
\* that of its status, and the scores rank nodes as their plugins intend whatever is
\* rounded: for any pods, nodes, measurements and weights that are inputs.
THEOREM RankingsAreSound == AlgorithmsSpec => []RankingsSound
<1> DEFINE Inv == RankingsAnswered(problem)
<1>1. AlgorithmsInit => Inv
    BY DEF AlgorithmsInit, RankingsAnswered
<1>2. Inv /\ [AlgorithmsNext]_problem => Inv'
    BY RankingsStep
<1>3. Inv => RankingsSound
    BY Zenon DEF RankingsAnswered, RankingsSound, Of
<1> HIDE DEF Inv
<1> QED BY <1>1, <1>2, <1>3, PTL DEF AlgorithmsSpec
=============================================================================
