---------------------- MODULE CapacityScheduling_proofs ----------------------
(***************************************************************************)
(* Theorems about the accounting of CapacityScheduling, for every set of   *)
(* namespaces, pods and quota specs.                                       *)
(***************************************************************************)
EXTENDS CapacityScheduling, Sums

\* A fresh entry has the type of an entry and counts nothing.
LEMMA NewInfoType ==
    ASSUME NEW spec \in Specs
    PROVE  /\ newElasticQuotaInfo(spec) \in EqInfo
           /\ newElasticQuotaInfo(spec).pods = {}
           /\ newElasticQuotaInfo(spec).used = 0
BY QuotaAssumption DEF QuotaAssumption, newElasticQuotaInfo, EqInfo

\* Adding and taking off a pod preserve the type of an entry.
LEMMA PodChangeType ==
    ASSUME NEW info \in EqInfo, NEW p \in Pods
    PROVE  /\ addPodIfNotPresent(info, p) \in EqInfo
           /\ deletePodIfPresent(info, p) \in EqInfo
BY PodAssumption DEF PodAssumption, addPodIfNotPresent, deletePodIfPresent, Recount, EqInfo

\* The events are of their type.
LEMMA PodEventType ==
    \A p \in Pods : /\ PodAdd(p) \in PodEvent
                    /\ PodFinish(p) \in PodEvent
                    /\ PodDelete(p) \in PodEvent
BY DEF PodAdd, PodFinish, PodDelete, PodEvent

\* An order of a finite set is a sequence of its elements.
LEMMA OrderType ==
    ASSUME NEW S, IsFiniteSet(S), NEW o \in Orders(S)
    PROVE  /\ Cardinality(S) \in Nat
           /\ o \in [1 .. Cardinality(S) -> S]
BY FS_CardinalityType DEF Orders

\* The initial listings of the two informers are sequences of add events.
LEMMA ListingType ==
    ASSUME quota \in [Namespaces -> Specs \cup {None}]
    PROVE  /\ EqListings \subseteq Seq(EqEvent)
           /\ PodListings \subseteq Seq(PodEvent)
           /\ \A q \in PodListings : \A i \in 1 .. Len(q) :
                q[i].type = "add" /\ q[i].pod \in Pods /\ assignedPod(q[i].pod)
<1> DEFINE Q == {n \in Namespaces : quota[n] # None}
           P == {p \in Pods : assignedPod(p)}
<1>1. IsFiniteSet(Q) /\ IsFiniteSet(P)
  BY FS_Subset, PodAssumption DEF PodAssumption
<1>2. ASSUME NEW q \in EqListings
      PROVE  q \in Seq(EqEvent)
  <2>1. PICK o \in Orders(Q) : q = [i \in DOMAIN o |-> EqAdd(o[i], quota[o[i]])]
    BY <1>2 DEF EqListings
  <2>2. Cardinality(Q) \in Nat /\ o \in [1 .. Cardinality(Q) -> Q]
    BY <1>1, OrderType
  <2>3. \A i \in 1 .. Cardinality(Q) : q[i] \in EqEvent
    BY <2>1, <2>2 DEF EqAdd, EqEvent
  <2> QED BY <2>1, <2>2, <2>3
<1>3. ASSUME NEW q \in PodListings
      PROVE  /\ q \in Seq(PodEvent)
             /\ \A i \in 1 .. Len(q) :
                  q[i].type = "add" /\ q[i].pod \in Pods /\ assignedPod(q[i].pod)
  <2>1. PICK o \in Orders(P) : q = [i \in DOMAIN o |-> PodAdd(o[i])]
    BY <1>3 DEF PodListings
  <2>2. Cardinality(P) \in Nat /\ o \in [1 .. Cardinality(P) -> P]
    BY <1>1, OrderType
  <2>3. \A i \in 1 .. Cardinality(P) : q[i] = PodAdd(o[i]) /\ o[i] \in P
    BY <2>1, <2>2
  <2>4. \A i \in 1 .. Cardinality(P) : q[i] \in PodEvent
    <3>1. \A i \in 1 .. Cardinality(P) : o[i] \in Pods
      BY <2>3
    <3> QED BY <3>1, <2>3, PodEventType
  <2>5. q \in Seq(PodEvent) /\ Len(q) = Cardinality(P)
    BY <2>1, <2>2, <2>4
  <2> QED BY <2>3, <2>5 DEF PodAdd
<1> QED BY <1>2, <1>3

\* Taking one pod off the map preserves the type of the map.
LEMMA ForgetType ==
    ASSUME TypeOK, NEW p \in Pods, Forget(p)
    PROVE  infos' \in EqInfos
BY PodChangeType, PodAssumption DEF PodAssumption, Forget, TypeOK, EqInfos

\* Every step preserves the type invariant.
LEMMA TypeStep == TypeOK /\ [Next]_vars => TypeOK'
<1> SUFFICES ASSUME TypeOK, [Next]_vars
             PROVE  TypeOK'
  OBVIOUS
<1> USE PodAssumption, QuotaAssumption DEF PodAssumption, QuotaAssumption
<1>0. NoInfos \in EqInfos
  BY DEF NoInfos, EqInfos
<1>1. ASSUME NEW n \in Namespaces, WriteQuota(n) PROVE TypeOK'
  <2>1. PICK spec \in (Specs \cup {None}) \ {quota[n]} :
          /\ quota' = [quota EXCEPT ![n] = spec]
          /\ eqEvents' = Append(eqEvents,
                IF spec = None THEN EqDelete(n)
                ELSE IF quota[n] = None THEN EqAdd(n, spec)
                ELSE EqUpdate(n, spec))
    BY <1>1 DEF WriteQuota
  <2>2. EqDelete(n) \in EqEvent /\ (spec # None => /\ EqAdd(n, spec) \in EqEvent
                                                   /\ EqUpdate(n, spec) \in EqEvent)
    BY DEF EqDelete, EqAdd, EqUpdate, EqEvent
  <2>3. quota' \in [Namespaces -> Specs \cup {None}] /\ eqEvents' \in Seq(EqEvent)
    BY <2>1, <2>2 DEF TypeOK
  <2> QED BY <1>1, <2>3 DEF WriteQuota, TypeOK
<1>2. ASSUME NEW p \in Pods, ApiAssign(p) \/ ApiFinish(p) \/ ApiDelete(p) PROVE TypeOK'
  <2>1. pod' \in [Pods -> PodStates] /\ sched' \in [Pods -> SchedStates]
    BY <1>2 DEF ApiAssign, ApiFinish, ApiDelete, TypeOK, PodStates, SchedStates
  <2>2. podEvents' \in Seq(PodEvent)
    <3>1. podEvents \in Seq(PodEvent)
      BY DEF TypeOK
    <3>2. \/ podEvents' = podEvents
          \/ podEvents' = Append(podEvents, PodAdd(p))
          \/ podEvents' = Append(podEvents, PodFinish(p))
          \/ podEvents' = Append(podEvents, PodDelete(p))
      BY <1>2 DEF ApiAssign, ApiFinish, ApiDelete
    <3>3. \A e \in PodEvent : Append(podEvents, e) \in Seq(PodEvent)
      BY <3>1
    <3> QED BY <3>1, <3>2, <3>3, PodEventType, Zenon
  <2> QED BY <1>2, <2>1, <2>2 DEF ApiAssign, ApiFinish, ApiDelete, TypeOK
<1>3. ASSUME NEW p \in Pods, snapshotElasticQuota(p) \/ PreFilter(p) PROVE TypeOK'
  BY <1>3, <1>0 DEF snapshotElasticQuota, PreFilter, TypeOK, SchedStates
<1>4. ASSUME NEW p \in Pods, FilterFails(p) PROVE TypeOK'
  BY <1>4, <1>0 DEF FilterFails, TypeOK, SchedStates
<1>5. ASSUME NEW p \in Pods, Reserve(p) PROVE TypeOK'
  <2>1. infos' \in EqInfos
    BY <1>5, PodChangeType DEF Reserve, TypeOK, EqInfos
  <2> QED BY <1>5, <2>1, <1>0 DEF Reserve, TypeOK, SchedStates
<1>6. ASSUME NEW p \in Pods, Unreserve(p) PROVE TypeOK'
  <2>1. infos' \in EqInfos
    BY <1>6, ForgetType DEF Unreserve
  <2> QED BY <1>6, <2>1 DEF Unreserve, TypeOK, SchedStates
<1>7. ASSUME NEW p \in Pods, BindReturns(p) PROVE TypeOK'
  BY <1>7 DEF BindReturns, TypeOK, SchedStates
<1>8. ASSUME NEW type, EqEventIs(type)
      PROVE  /\ Head(eqEvents) \in EqEvent
             /\ eqEvents' \in Seq(EqEvent)
             /\ infos' \in EqInfos /\ eqCheck' \in EqCheck \cup {None}
                  => TypeOK'
  BY <1>8 DEF EqEventIs, TypeOK
<1>9. ASSUME addElasticQuota PROVE TypeOK'
  BY <1>8, <1>9 DEF addElasticQuota, EqEventIs, EqEvent, EqCheck, TypeOK
<1>10. ASSUME addElasticQuotaStore PROVE TypeOK'
  <2>1. infos' \in EqInfos
    BY <1>10, NewInfoType DEF addElasticQuotaStore, TypeOK, EqCheck, EqInfos
  <2> QED BY <1>10, <2>1 DEF addElasticQuotaStore, TypeOK
<1>11. ASSUME updateElasticQuota PROVE TypeOK'
  <2> DEFINE e == Head(eqEvents)
             new == newElasticQuotaInfo(e.spec)
             old == infos[e.ns]
  <2>1. e.ns \in Namespaces /\ e.spec \in Specs
    BY <1>8, <1>11 DEF updateElasticQuota, EqEventIs, EqEvent
  <2>2. new \in EqInfo
    BY <2>1, NewInfoType
  <2>3. old # None => Recount(new, old.pods, old.used) \in EqInfo
    BY <2>1, <2>2 DEF TypeOK, EqInfos, EqInfo, Recount
  <2>4. infos' \in EqInfos
    BY <1>11, <2>1, <2>2, <2>3 DEF updateElasticQuota, TypeOK, EqInfos
  <2> QED BY <1>8, <1>11, <2>4 DEF updateElasticQuota, TypeOK
<1>12. ASSUME deleteElasticQuota PROVE TypeOK'
  BY <1>8, <1>12 DEF deleteElasticQuota, EqEventIs, EqEvent, TypeOK, EqInfos
<1>13. ASSUME NEW type, PodEventIs(type)
       PROVE  /\ Head(podEvents) \in PodEvent
              /\ Head(podEvents).pod \in Pods
              /\ NsOf[Head(podEvents).pod] \in Namespaces
              /\ infos' \in EqInfos /\ faults' \in 0 .. MaxFaults => TypeOK'
  <2>1. Head(podEvents) \in PodEvent /\ podEvents' \in Seq(PodEvent)
    BY <1>13 DEF PodEventIs, TypeOK
  <2>2. Head(podEvents).pod \in Pods
    BY <2>1 DEF PodEvent
  <2> QED BY <1>13, <2>1, <2>2 DEF PodEventIs, TypeOK
<1>14. ASSUME addPod PROVE TypeOK'
  <2> DEFINE p == Head(podEvents).pod
             n == NsOf[p]
  <2>1. p \in Pods /\ n \in Namespaces
    BY <1>13, <1>14 DEF addPod
  <2>2. infos[n] # None => addPodIfNotPresent(infos[n], p) \in EqInfo
    BY <2>1, PodChangeType DEF TypeOK, EqInfos
  <2>3. quota[n] # None => addPodIfNotPresent(newElasticQuotaInfo(quota[n]), p) \in EqInfo
    BY <2>1, PodChangeType, NewInfoType DEF TypeOK
  <2>4. infos' \in EqInfos
    BY <1>14, <2>1, <2>2, <2>3 DEF addPod, TypeOK, EqInfos
  <2>5. faults' \in 0 .. MaxFaults
    BY <1>14 DEF addPod, TypeOK
  <2> QED BY <1>13, <1>14, <2>4, <2>5 DEF addPod
<1>15. ASSUME updatePod \/ deletePod PROVE TypeOK'
  <2>1. Head(podEvents).pod \in Pods
    BY <1>13, <1>15 DEF updatePod, deletePod
  <2>2. infos' \in EqInfos
    BY <1>15, <2>1, ForgetType DEF updatePod, deletePod
  <2> QED BY <1>13, <1>15, <2>2 DEF updatePod, deletePod, TypeOK
<1>16. ASSUME Restart PROVE TypeOK'
  <2>1. eqEvents' \in Seq(EqEvent) /\ podEvents' \in Seq(PodEvent)
    BY <1>16, ListingType DEF Restart, New, TypeOK
  <2> QED BY <1>16, <2>1, <1>0 DEF Restart, New, TypeOK, SchedStates
<1>17. CASE UNCHANGED vars
  BY <1>17 DEF vars, TypeOK
<1> QED
  BY <1>1, <1>2, <1>3, <1>4, <1>5, <1>6, <1>7, <1>9, <1>10, <1>11, <1>12, <1>14,
     <1>15, <1>16, <1>17 DEF Next


\* TypeOK: the plugin's state keeps its type in every behaviour.
THEOREM TypeCorrect == Spec => []TypeOK
<1>1. Init => TypeOK
  <2> SUFFICES ASSUME Init PROVE TypeOK
    OBVIOUS
  <2>1. eqEvents \in Seq(EqEvent)
    BY ListingType DEF Init
  <2>2. podEvents \in Seq(PodEvent)
    BY DEF Init
  <2> QED
    BY <2>1, <2>2, PodAssumption, QuotaAssumption
    DEF Init, TypeOK, NoInfos, EqInfos, PodAssumption, QuotaAssumption, PodStates, SchedStates
<1> QED BY <1>1, TypeStep, PTL DEF Spec

-----------------------------------------------------------------------------
(* The requests of a set of pods *)

\* TotalReq is additive over disjoint sets of pods.
LEMMA TotalReqFacts ==
    /\ TotalReq \in [SUBSET Pods -> Nat]
    /\ TotalReq[{}] = 0
    /\ \A p \in Pods : TotalReq[{p}] = Req[p]
    /\ \A S, T \in SUBSET Pods :
         S \cap T = {} => TotalReq[S \cup T] = TotalReq[S] + TotalReq[T]
<1> USE PodAssumption DEF PodAssumption
<1>1. ASSUME NEW S \in SUBSET Pods
      PROVE  /\ IsFiniteSet(S)
             /\ TotalReq[S] = SumFunctionOnSet(Req, S)
             /\ TotalReq[S] \in Nat
  <2>1. IsFiniteSet(S)
    BY FS_Subset
  <2>2. SumFunctionOnSet(Req, S) \in Nat
    BY <2>1, SumNat
  <2> QED BY <2>1, <2>2 DEF TotalReq
<1>2. TotalReq \in [SUBSET Pods -> Nat]
  BY <1>1 DEF TotalReq
<1>3. TotalReq[{}] = 0
  BY <1>1, SumEmpty
<1>4. ASSUME NEW p \in Pods PROVE TotalReq[{p}] = Req[p]
  <2>1. SumFunctionOnSet(Req, {p}) = Req[p] + SumFunctionOnSet(Req, {p} \ {p})
    BY <1>1, SumRemove
  <2>2. {p} \ {p} = {} /\ Req[p] \in Nat
    OBVIOUS
  <2>3. SumFunctionOnSet(Req, {p} \ {p}) = 0
    BY <2>2, SumEmpty
  <2>4. TotalReq[{p}] = SumFunctionOnSet(Req, {p})
    BY <1>1
  <2> QED BY <2>1, <2>2, <2>3, <2>4
<1>5. ASSUME NEW S \in SUBSET Pods, NEW T \in SUBSET Pods, S \cap T = {}
      PROVE  TotalReq[S \cup T] = TotalReq[S] + TotalReq[T]
  <2>1. S \cup T \in SUBSET Pods /\ (S \cup T) \ S = T /\ S \in SUBSET (S \cup T)
    BY <1>5
  <2>2. \A x \in S \cup T : Req[x] \in Int
    OBVIOUS
  <2>3. SumFunctionOnSet(Req, S \cup T)
          = SumFunctionOnSet(Req, S) + SumFunctionOnSet(Req, (S \cup T) \ S)
    BY <1>1, <2>1, <2>2, SumSplit
  <2> QED BY <1>1, <2>1, <2>3
<1> QED BY <1>2, <1>3, <1>4, <1>5

-----------------------------------------------------------------------------
(* Used is the sum of the requests of the counted pods *)

\* An entry of namespace n whose total matches its pods.
Balanced(n, info) ==
    /\ info.used = TotalReq[info.pods]
    /\ \A p \in info.pods : NsOf[p] = n

\* Adding or taking off a pod moves the total by its request, once.
LEMMA PodChangeBalanced ==
    ASSUME NEW info \in EqInfo, NEW p \in Pods, Balanced(NsOf[p], info)
    PROVE  /\ Balanced(NsOf[p], addPodIfNotPresent(info, p))
           /\ Balanced(NsOf[p], deletePodIfPresent(info, p))
<1> USE PodAssumption, TotalReqFacts DEF PodAssumption, EqInfo
<1>1. CASE p \in info.pods
  <2> DEFINE rest == info.pods \ {p}
  <2>1. info.pods = rest \cup {p} /\ rest \cap {p} = {}
    BY <1>1
  <2>2. TotalReq[info.pods] = TotalReq[rest] + Req[p]
    <3>1. rest \in SUBSET Pods /\ {p} \in SUBSET Pods
      OBVIOUS
    <3>2. TotalReq[rest \cup {p}] = TotalReq[rest] + TotalReq[{p}]
      BY <2>1, <3>1
    <3> QED BY <2>1, <3>2
  <2>3. TotalReq[rest] \in Nat /\ Req[p] \in Nat
    OBVIOUS
  <2> QED BY <1>1, <2>2, <2>3 DEF Balanced, addPodIfNotPresent, deletePodIfPresent, Recount
<1>2. CASE p \notin info.pods
  <2>1. TotalReq[info.pods \cup {p}] = TotalReq[info.pods] + Req[p]
    <3>1. info.pods \in SUBSET Pods /\ {p} \in SUBSET Pods /\ info.pods \cap {p} = {}
      BY <1>2
    <3>2. TotalReq[info.pods \cup {p}] = TotalReq[info.pods] + TotalReq[{p}]
      BY <3>1
    <3> QED BY <3>2
  <2> QED BY <1>2, <2>1 DEF Balanced, addPodIfNotPresent, deletePodIfPresent, Recount
<1> QED BY <1>1, <1>2

\* A fresh entry is balanced.
LEMMA NewInfoBalanced ==
    ASSUME NEW n, NEW spec \in Specs
    PROVE  Balanced(n, newElasticQuotaInfo(spec))
BY NewInfoType, TotalReqFacts DEF Balanced

\* Every step keeps the entries balanced.
LEMMA UsedStep == TypeOK /\ UsedMatchesPods /\ [Next]_vars => UsedMatchesPods'
<1> SUFFICES ASSUME TypeOK, UsedMatchesPods, [Next]_vars
             PROVE  UsedMatchesPods'
  OBVIOUS
<1>1. \A n \in Namespaces : infos[n] # None => infos[n] \in EqInfo /\ Balanced(n, infos[n])
  BY DEF UsedMatchesPods, Balanced, TypeOK, EqInfos
<1>2. SUFFICES ASSUME NEW n \in Namespaces, infos'[n] # None
               PROVE  Balanced(n, infos'[n])
  BY DEF UsedMatchesPods, Balanced
<1>3. infos \in EqInfos /\ quota \in [Namespaces -> Specs \cup {None}]
  BY DEF TypeOK
<1>4. \A p \in Pods : NsOf[p] \in Namespaces
  BY PodAssumption DEF PodAssumption
<1>5. CASE UNCHANGED infos
  BY <1>1, <1>2, <1>5
<1>6. ASSUME NEW p \in Pods, Reserve(p) PROVE Balanced(n, infos'[n])
  BY <1>1, <1>2, <1>3, <1>4, <1>6, PodChangeBalanced DEF Reserve, EqInfos
<1>7. ASSUME NEW p \in Pods, Forget(p) PROVE Balanced(n, infos'[n])
  BY <1>1, <1>2, <1>3, <1>4, <1>7, PodChangeBalanced DEF Forget, EqInfos
<1>8. ASSUME addElasticQuotaStore PROVE Balanced(n, infos'[n])
  <2>1. eqCheck.spec \in Specs /\ eqCheck.ns \in Namespaces
    BY <1>8 DEF addElasticQuotaStore, EqCheck, TypeOK
  <2> QED BY <1>1, <1>2, <1>3, <1>8, <2>1, NewInfoBalanced DEF addElasticQuotaStore, EqInfos
<1>9. ASSUME updateElasticQuota PROVE Balanced(n, infos'[n])
  <2> DEFINE e == Head(eqEvents)
             new == newElasticQuotaInfo(e.spec)
             old == infos[e.ns]
  <2>1. e \in EqEvent /\ e.type = "update"
    BY <1>9 DEF updateElasticQuota, EqEventIs, TypeOK
  <2>2. e.ns \in Namespaces /\ e.spec \in Specs
    BY <2>1 DEF EqEvent
  <2>3. Balanced(e.ns, new)
    BY <2>2, NewInfoBalanced
  <2>4. old # None => Balanced(e.ns, Recount(new, old.pods, old.used))
    BY <1>1, <2>2 DEF Balanced, Recount
  <2> QED BY <1>1, <1>2, <1>3, <1>9, <2>2, <2>3, <2>4 DEF updateElasticQuota, EqInfos
<1>10. ASSUME deleteElasticQuota PROVE Balanced(n, infos'[n])
  BY <1>1, <1>2, <1>3, <1>10 DEF deleteElasticQuota, EqInfos
<1>11. ASSUME addPod PROVE Balanced(n, infos'[n])
  <2> DEFINE p == Head(podEvents).pod
             m == NsOf[p]
  <2>1. Head(podEvents) \in PodEvent
    BY <1>11 DEF addPod, PodEventIs, TypeOK
  <2>2. p \in Pods /\ m \in Namespaces
    BY <1>4, <2>1 DEF PodEvent
  <2>3. infos[m] # None => Balanced(m, addPodIfNotPresent(infos[m], p))
    BY <1>1, <2>2, PodChangeBalanced
  <2>4. quota[m] # None => Balanced(m, addPodIfNotPresent(newElasticQuotaInfo(quota[m]), p))
    BY <1>3, <2>2, PodChangeBalanced, NewInfoBalanced, NewInfoType
  <2> QED BY <1>1, <1>2, <1>3, <1>11, <2>2, <2>3, <2>4 DEF addPod, EqInfos
<1>12. ASSUME updatePod \/ deletePod PROVE Balanced(n, infos'[n])
  <2>1. Head(podEvents) \in PodEvent
    BY <1>12 DEF updatePod, deletePod, PodEventIs, TypeOK
  <2> QED BY <1>7, <1>12, <2>1 DEF updatePod, deletePod, PodEvent
<1>13. ASSUME Restart PROVE FALSE
  BY <1>2, <1>13 DEF Restart, New, NoInfos
<1> QED
  BY <1>5, <1>6, <1>7, <1>8, <1>9, <1>10, <1>11, <1>12, <1>13
  DEF Next, vars, WriteQuota, ApiAssign, ApiFinish, ApiDelete, snapshotElasticQuota, PreFilter, FilterFails,
      Unreserve, BindReturns, addElasticQuota

\* UsedMatchesPods: in every behaviour the usage of a quota is exactly the
\* sum of the requests of the pods it counts, however Reserve, Unreserve and
\* the informer handlers of pods and quotas interleave.
THEOREM UsageIsSumOfPods == Spec => []UsedMatchesPods
<1>1. Init => UsedMatchesPods
  BY DEF Init, NoInfos, UsedMatchesPods
<1> QED BY <1>1, UsedStep, TypeCorrect, PTL DEF Spec


-----------------------------------------------------------------------------
(* No charge is left behind *)

\* The event that would charge pod p is followed by one that takes it off,
\* unless p is assigned: what makes NoQuotaLeak inductive.
AddsJustified ==
    \A i \in 1 .. Len(podEvents) :
        podEvents[i].type = "add" =>
            \/ assignedPod(podEvents[i].pod)
            \/ \E j \in i + 1 .. Len(podEvents) :
                 podEvents[j].type = "delete" /\ podEvents[j].pod = podEvents[i].pod

LeakInv == NoQuotaLeak /\ AddsJustified

\* Handling the first event only shifts the others.
LEMMA TailShift ==
    ASSUME NEW S, NEW q \in Seq(S), q # <<>>
    PROVE  /\ Len(q) \in Nat /\ Len(q) >= 1
           /\ Len(Tail(q)) = Len(q) - 1
           /\ \A i \in 1 .. Len(q) - 1 : Tail(q)[i] = q[i + 1]
           /\ Head(q) = q[1]
OBVIOUS

\* Appending an event keeps the others where they are.
LEMMA AppendShift ==
    ASSUME NEW S, NEW q \in Seq(S), NEW e \in S
    PROVE  /\ Len(q) \in Nat
           /\ Len(Append(q, e)) = Len(q) + 1
           /\ \A i \in 1 .. Len(q) : Append(q, e)[i] = q[i]
           /\ Append(q, e)[Len(q) + 1] = e
OBVIOUS

\* Handling the first event preserves AddsJustified, and the pending deletion
\* of every pod but the one whose deletion was handled.
LEMMA HandledEvent ==
    ASSUME TypeOK, AddsJustified, podEvents # <<>>, podEvents' = Tail(podEvents),
           pod' = pod
    PROVE  /\ AddsJustified'
           /\ \A p \in Pods :
                /\ Pending(p, {"delete"})
                /\ ~ (Head(podEvents).type = "delete" /\ Head(podEvents).pod = p)
                => Pending(p, {"delete"})'
           /\ \A p \in Pods :
                Head(podEvents).type = "add" /\ Head(podEvents).pod = p
                => assignedPod(p) \/ Pending(p, {"delete"})'
<1>1. podEvents \in Seq(PodEvent)
  BY DEF TypeOK
<1>2. /\ Len(podEvents) \in Nat /\ Len(podEvents) >= 1
      /\ Len(podEvents') = Len(podEvents) - 1
      /\ \A i \in 1 .. Len(podEvents) - 1 : podEvents'[i] = podEvents[i + 1]
      /\ Head(podEvents) = podEvents[1]
  BY <1>1, TailShift
<1>3. AddsJustified'
  <2> SUFFICES ASSUME NEW i \in 1 .. Len(podEvents'), podEvents'[i].type = "add",
                      pod'[podEvents'[i].pod] \notin {"assigned", "finished"}
               PROVE  \E j \in i + 1 .. Len(podEvents') :
                        podEvents'[j].type = "delete" /\ podEvents'[j].pod = podEvents'[i].pod
    BY DEF AddsJustified, assignedPod
  <2>1. podEvents'[i] = podEvents[i + 1] /\ i + 1 \in 1 .. Len(podEvents)
    BY <1>2
  <2>2. PICK k \in i + 2 .. Len(podEvents) :
          podEvents[k].type = "delete" /\ podEvents[k].pod = podEvents'[i].pod
    BY <2>1, <1>2 DEF AddsJustified, assignedPod
  <2>3. k - 1 \in i + 1 .. Len(podEvents') /\ podEvents'[k - 1] = podEvents[k]
    BY <1>2, <2>2
  <2> QED BY <2>2, <2>3
<1>4. ASSUME NEW p \in Pods, NEW k \in 2 .. Len(podEvents),
             podEvents[k].type = "delete", podEvents[k].pod = p
      PROVE  Pending(p, {"delete"})'
  <2>1. k - 1 \in 1 .. Len(podEvents') /\ podEvents'[k - 1] = podEvents[k]
    BY <1>2
  <2> QED BY <1>4, <2>1 DEF Pending
<1>5. ASSUME NEW p \in Pods, Pending(p, {"delete"}),
             ~ (Head(podEvents).type = "delete" /\ Head(podEvents).pod = p)
      PROVE  Pending(p, {"delete"})'
  <2>1. PICK k \in 1 .. Len(podEvents) : podEvents[k].pod = p /\ podEvents[k].type = "delete"
    BY <1>5 DEF Pending
  <2>2. k \in 2 .. Len(podEvents)
    BY <1>2, <1>5, <2>1
  <2> QED BY <1>4, <2>1, <2>2
<1>6. ASSUME NEW p \in Pods, Head(podEvents).type = "add", Head(podEvents).pod = p,
             ~ assignedPod(p)
      PROVE  Pending(p, {"delete"})'
  <2>1. PICK k \in 2 .. Len(podEvents) : podEvents[k].type = "delete" /\ podEvents[k].pod = p
    BY <1>2, <1>6 DEF AddsJustified
  <2> QED BY <1>4, <2>1
<1> QED BY <1>3, <1>5, <1>6

\* Appending an event preserves the pending deletions, and AddsJustified when
\* an added event is of an assigned pod and a pod that loses its assignment
\* has its deletion appended.
LEMMA NewEvent ==
    ASSUME TypeOK, AddsJustified, NEW e \in PodEvent, podEvents' = Append(podEvents, e),
           e.type = "add" => assignedPod(e.pod)',
           \A p \in Pods : assignedPod(p) => \/ assignedPod(p)'
                                             \/ e.type = "delete" /\ e.pod = p
    PROVE  /\ AddsJustified'
           /\ \A p \in Pods : Pending(p, {"delete"}) => Pending(p, {"delete"})'
           /\ e.type = "delete" => Pending(e.pod, {"delete"})'
<1>1. podEvents \in Seq(PodEvent)
  BY DEF TypeOK
<1>2. /\ Len(podEvents) \in Nat
      /\ Len(podEvents') = Len(podEvents) + 1
      /\ \A i \in 1 .. Len(podEvents) : podEvents'[i] = podEvents[i]
      /\ podEvents'[Len(podEvents) + 1] = e
  BY <1>1, AppendShift
<1>3. AddsJustified'
  <2> SUFFICES ASSUME NEW i \in 1 .. Len(podEvents'), podEvents'[i].type = "add",
                      pod'[podEvents'[i].pod] \notin {"assigned", "finished"}
               PROVE  \E j \in i + 1 .. Len(podEvents') :
                        podEvents'[j].type = "delete" /\ podEvents'[j].pod = podEvents'[i].pod
    BY DEF AddsJustified, assignedPod
  <2>1. i \in 1 .. Len(podEvents) /\ podEvents'[i] = podEvents[i]
    <3>1. i # Len(podEvents) + 1
      BY <1>2 DEF assignedPod
    <3> QED BY <1>2, <3>1
  <2>2. podEvents[i].pod \in Pods
    <3>1. podEvents[i] \in PodEvent
      BY <1>1, <2>1
    <3> QED BY <3>1 DEF PodEvent
  <2>3. CASE assignedPod(podEvents[i].pod)
    <3>1. e.type = "delete" /\ e.pod = podEvents[i].pod
      BY <2>1, <2>2, <2>3 DEF assignedPod
    <3>2. Len(podEvents) + 1 \in i + 1 .. Len(podEvents')
      BY <1>2, <2>1
    <3> QED BY <1>2, <2>1, <3>1, <3>2
  <2>4. CASE ~ assignedPod(podEvents[i].pod)
    <3>1. PICK j \in i + 1 .. Len(podEvents) :
            podEvents[j].type = "delete" /\ podEvents[j].pod = podEvents[i].pod
      BY <2>1, <2>4 DEF AddsJustified
    <3>2. j \in i + 1 .. Len(podEvents') /\ podEvents'[j] = podEvents[j]
      BY <1>2, <2>1, <3>1
    <3> QED BY <2>1, <3>1, <3>2
  <2> QED BY <2>3, <2>4
<1>4. ASSUME NEW p \in Pods, Pending(p, {"delete"}) PROVE Pending(p, {"delete"})'
  <2>1. PICK k \in 1 .. Len(podEvents) : podEvents[k].pod = p /\ podEvents[k].type = "delete"
    BY <1>4 DEF Pending
  <2>2. k \in 1 .. Len(podEvents') /\ podEvents'[k] = podEvents[k]
    BY <1>2
  <2> QED BY <2>1, <2>2 DEF Pending
<1>5. e.type = "delete" => Pending(e.pod, {"delete"})'
  <2>1. Len(podEvents) + 1 \in 1 .. Len(podEvents')
    BY <1>2
  <2> QED BY <1>2, <2>1 DEF Pending
<1> QED BY <1>3, <1>4, <1>5


\* The steps that leave the queue and the pods alone leave LeakInv to the map.
LEMMA SameQueue ==
    ASSUME UNCHANGED <<pod, podEvents>>
    PROVE  /\ AddsJustified' = AddsJustified
           /\ \A p \in Pods : /\ Pending(p, {"delete"})' = Pending(p, {"delete"})
                              /\ assignedPod(p)' = assignedPod(p)
BY DEF AddsJustified, Pending, assignedPod

\* Taking a pod off the map leaves it uncounted and charges nobody.
LEMMA ForgetCounted ==
    ASSUME TypeOK, NEW p \in Pods, Forget(p)
    PROVE  ~ Counted(p)' /\ \A q \in Pods : Counted(q)' => Counted(q)
BY PodAssumption
DEF PodAssumption, TypeOK, EqInfos, EqInfo, Forget, Counted, deletePodIfPresent, Recount

\* Every step preserves LeakInv.
LEMMA LeakStep == TypeOK /\ LeakInv /\ [Next]_vars => LeakInv'
<1> SUFFICES ASSUME TypeOK, LeakInv, [Next]_vars
             PROVE  LeakInv'
  OBVIOUS
<1> USE PodAssumption DEF PodAssumption
<1>0. AddsJustified /\ NoQuotaLeak
  BY DEF LeakInv
<1>1. ASSUME NEW n \in Namespaces, WriteQuota(n) PROVE LeakInv'
  BY <1>0, <1>1, SameQueue DEF WriteQuota, LeakInv, NoQuotaLeak, Counted
<1>2. ASSUME NEW p \in Pods, ApiAssign(p) PROVE LeakInv'
  <2>1. podEvents' = Append(podEvents, PodAdd(p)) /\ PodAdd(p) \in PodEvent
    BY <1>2, PodEventType DEF ApiAssign
  <2>2. pod' = [pod EXCEPT ![p] = "assigned"] /\ assignedPod(p)'
    BY <1>2 DEF ApiAssign, TypeOK, assignedPod
  <2>3. \A q \in Pods : assignedPod(q) => assignedPod(q)'
    BY <2>2 DEF TypeOK, assignedPod
  <2>4. AddsJustified' /\ \A q \in Pods : Pending(q, {"delete"}) => Pending(q, {"delete"})'
    BY <1>0, <2>1, <2>2, <2>3, NewEvent DEF PodAdd
  <2>5. \A q \in Pods : q # p => sched'[q] = sched[q]
    BY <1>2 DEF ApiAssign, TypeOK
  <2>6. \A q \in Pods : Counted(q)' = Counted(q)
    BY <1>2 DEF ApiAssign, Counted
  <2> QED BY <1>0, <2>2, <2>3, <2>4, <2>5, <2>6 DEF LeakInv, NoQuotaLeak
<1>3. ASSUME NEW p \in Pods, ApiFinish(p) PROVE LeakInv'
  <2>1. podEvents' = Append(podEvents, PodFinish(p)) /\ PodFinish(p) \in PodEvent
    BY <1>3, PodEventType DEF ApiFinish
  <2>2. \A q \in Pods : assignedPod(q) => assignedPod(q)'
    BY <1>3 DEF ApiFinish, TypeOK, assignedPod
  <2>3. AddsJustified' /\ \A q \in Pods : Pending(q, {"delete"}) => Pending(q, {"delete"})'
    BY <1>0, <2>1, <2>2, NewEvent DEF PodFinish
  <2>4. \A q \in Pods : Counted(q)' = Counted(q)
    BY <1>3 DEF ApiFinish, Counted
  <2> QED BY <1>0, <1>3, <2>2, <2>3, <2>4 DEF LeakInv, NoQuotaLeak, ApiFinish
<1>4. ASSUME NEW p \in Pods, ApiDelete(p) PROVE LeakInv'
  <2>1. \A q \in Pods : Counted(q)' = Counted(q)
    BY <1>4 DEF ApiDelete, Counted
  <2>2. \A q \in Pods : q # p => (assignedPod(q) = assignedPod(q)')
    BY <1>4 DEF ApiDelete, TypeOK, assignedPod
  <2>3. CASE assignedPod(p)
    <3>1. podEvents' = Append(podEvents, PodDelete(p)) /\ PodDelete(p) \in PodEvent
      BY <1>4, <2>3, PodEventType DEF ApiDelete
    <3>2. /\ AddsJustified'
          /\ \A q \in Pods : Pending(q, {"delete"}) => Pending(q, {"delete"})'
          /\ Pending(p, {"delete"})'
      BY <1>0, <2>2, <3>1, NewEvent DEF PodDelete
    <3> QED BY <1>0, <1>4, <2>1, <2>2, <3>2 DEF LeakInv, NoQuotaLeak, ApiDelete
  <2>4. CASE ~ assignedPod(p)
    <3>1. podEvents' = podEvents /\ \A q \in Pods : assignedPod(q)' = assignedPod(q)
      BY <1>4, <2>2, <2>4 DEF ApiDelete, TypeOK, assignedPod
    <3>2. \A q \in Pods : Pending(q, {"delete"})' = Pending(q, {"delete"})
      BY <3>1 DEF Pending
    <3>3. \A i \in 1 .. Len(podEvents) : podEvents[i].pod \in Pods
      <4>1. \A i \in 1 .. Len(podEvents) : podEvents[i] \in PodEvent
        BY DEF TypeOK
      <4> QED BY <4>1 DEF PodEvent
    <3>4. AddsJustified'
      BY <1>0, <3>1, <3>3 DEF AddsJustified, assignedPod
    <3> QED BY <1>0, <1>4, <2>1, <3>1, <3>2, <3>4 DEF LeakInv, NoQuotaLeak, ApiDelete
  <2> QED BY <2>3, <2>4
<1>5. ASSUME NEW p \in Pods, snapshotElasticQuota(p) \/ PreFilter(p) \/ FilterFails(p)
      PROVE  LeakInv'
  <2>1. \A q \in Pods : Counted(q)' = Counted(q)
    BY <1>5 DEF snapshotElasticQuota, PreFilter, FilterFails, Counted
  <2>2. \A q \in Pods : sched[q] = "reserved" => sched'[q] = "reserved"
    BY <1>5 DEF snapshotElasticQuota, PreFilter, FilterFails, TypeOK
  <2> QED BY <1>0, <1>5, <2>1, <2>2, SameQueue
         DEF snapshotElasticQuota, PreFilter, FilterFails, LeakInv, NoQuotaLeak
<1>6. ASSUME NEW p \in Pods, Reserve(p) PROVE LeakInv'
  <2>1. \A q \in Pods : q # p => (Counted(q)' => Counted(q))
    BY <1>6 DEF Reserve, Counted, TypeOK, EqInfos, EqInfo, addPodIfNotPresent, Recount
  <2>2. sched'[p] = "reserved" /\ \A q \in Pods : q # p => sched'[q] = sched[q]
    BY <1>6 DEF Reserve, TypeOK
  <2> QED BY <1>0, <1>6, <2>1, <2>2, SameQueue DEF Reserve, LeakInv, NoQuotaLeak
<1>7. ASSUME NEW p \in Pods, Unreserve(p) PROVE LeakInv'
  <2>1. ~ Counted(p)' /\ \A q \in Pods : Counted(q)' => Counted(q)
    BY <1>7, ForgetCounted DEF Unreserve
  <2>2. \A q \in Pods : q # p => sched'[q] = sched[q]
    BY <1>7 DEF Unreserve, TypeOK
  <2> QED BY <1>0, <1>7, <2>1, <2>2, SameQueue DEF Unreserve, LeakInv, NoQuotaLeak
<1>8. ASSUME NEW p \in Pods, BindReturns(p) PROVE LeakInv'
  <2>1. \A q \in Pods : Counted(q)' = Counted(q)
    BY <1>8 DEF BindReturns, Counted
  <2>2. \A q \in Pods : sched[q] = "reserved" => sched'[q] = "reserved"
    BY <1>8 DEF BindReturns, TypeOK
  <2> QED BY <1>0, <1>8, <2>1, <2>2, SameQueue DEF BindReturns, LeakInv, NoQuotaLeak
<1>9. ASSUME addElasticQuota \/ addElasticQuotaStore \/ deleteElasticQuota PROVE LeakInv'
  <2>1. \A q \in Pods : Counted(q)' => Counted(q)
    BY <1>9, NewInfoType
    DEF addElasticQuota, addElasticQuotaStore, deleteElasticQuota, Counted, TypeOK, EqCheck,
        EqInfos
  <2> QED BY <1>0, <1>9, <2>1, SameQueue
      DEF addElasticQuota, addElasticQuotaStore, deleteElasticQuota, EqEventIs,
          LeakInv, NoQuotaLeak
<1>10. ASSUME updateElasticQuota PROVE LeakInv'
  <2>1. Head(eqEvents) \in EqEvent /\ Head(eqEvents).type = "update"
    BY <1>10 DEF updateElasticQuota, EqEventIs, TypeOK
  <2>2. Head(eqEvents).spec \in Specs
    BY <2>1 DEF EqEvent
  <2>3. \A q \in Pods : Counted(q)' => Counted(q)
    BY <1>10, <2>2, NewInfoType
    DEF updateElasticQuota, Counted, TypeOK, EqInfos, Recount
  <2> QED BY <1>0, <1>10, <2>3, SameQueue
      DEF updateElasticQuota, EqEventIs, LeakInv, NoQuotaLeak
<1>11. ASSUME NEW type, PodEventIs(type)
       PROVE  Head(podEvents).pod \in Pods
  <2>1. Head(podEvents) \in PodEvent
    BY <1>11 DEF PodEventIs, TypeOK
  <2> QED BY <2>1 DEF PodEvent
<1>12. ASSUME addPod PROVE LeakInv'
  <2>1. PICK p \in Pods : p = Head(podEvents).pod
    BY <1>11, <1>12 DEF addPod
  <2>2. \A q \in Pods : q # p => (Counted(q)' => Counted(q))
    <3> DEFINE n == NsOf[p]
    <3>1. n \in Namespaces /\ (infos[n] # None => infos[n] \in EqInfo)
      BY DEF TypeOK, EqInfos
    <3>2. infos[n] # None => addPodIfNotPresent(infos[n], p).pods = infos[n].pods \cup {p}
      BY <3>1 DEF EqInfo, addPodIfNotPresent, Recount
    <3>3. quota[n] # None =>
            addPodIfNotPresent(newElasticQuotaInfo(quota[n]), p).pods = {p}
      BY <3>1, NewInfoType DEF TypeOK, EqInfo, addPodIfNotPresent, Recount
    <3>4. \/ infos' = infos
          \/ infos[n] # None /\ infos' = [infos EXCEPT ![n] = addPodIfNotPresent(infos[n], p)]
          \/ /\ quota[n] # None
             /\ infos' = [infos EXCEPT ![n] =
                            addPodIfNotPresent(newElasticQuotaInfo(quota[n]), p)]
      BY <1>12, <2>1 DEF addPod
    <3>5. infos \in [Namespaces -> EqInfo \cup {None}]
      BY DEF TypeOK, EqInfos
    <3> QED BY <3>1, <3>2, <3>3, <3>4, <3>5 DEF Counted
  <2>3. /\ podEvents # <<>> /\ podEvents' = Tail(podEvents) /\ pod' = pod
        /\ Head(podEvents).type = "add" /\ sched' = sched
    BY <1>12 DEF addPod, PodEventIs
  <2>4. /\ AddsJustified'
        /\ \A q \in Pods : Pending(q, {"delete"}) => Pending(q, {"delete"})'
        /\ assignedPod(p) \/ Pending(p, {"delete"})'
    BY <1>0, <2>1, <2>3, HandledEvent
  <2>5. \A q \in Pods : assignedPod(q)' = assignedPod(q)
    BY <2>3 DEF assignedPod
  <2> QED BY <1>0, <2>2, <2>3, <2>4, <2>5 DEF LeakInv, NoQuotaLeak
<1>13. ASSUME updatePod \/ deletePod PROVE LeakInv'
  <2>1. PICK p \in Pods : p = Head(podEvents).pod
    BY <1>11, <1>13 DEF updatePod, deletePod
  <2>2. ~ Counted(p)' /\ \A q \in Pods : Counted(q)' => Counted(q)
    BY <1>13, <2>1, ForgetCounted DEF updatePod, deletePod
  <2>3. /\ podEvents # <<>> /\ podEvents' = Tail(podEvents) /\ pod' = pod
        /\ sched' = sched
    BY <1>13 DEF updatePod, deletePod, PodEventIs
  <2>4. /\ AddsJustified'
        /\ \A q \in Pods : q # p /\ Pending(q, {"delete"}) => Pending(q, {"delete"})'
    BY <1>0, <2>1, <2>3, HandledEvent
  <2>5. \A q \in Pods : assignedPod(q)' = assignedPod(q)
    BY <2>3 DEF assignedPod
  <2> QED BY <1>0, <2>2, <2>3, <2>4, <2>5 DEF LeakInv, NoQuotaLeak
<1>14. ASSUME Restart PROVE LeakInv'
  <2>1. \A q \in Pods : ~ Counted(q)'
    BY <1>14 DEF Restart, New, NoInfos, Counted
  <2>2. podEvents' \in PodListings /\ pod' = pod
    BY <1>14 DEF Restart, New
  <2>3. AddsJustified'
    BY <2>2, ListingType DEF TypeOK, AddsJustified, assignedPod
  <2> QED BY <2>1, <2>3 DEF LeakInv, NoQuotaLeak
<1>15. CASE UNCHANGED vars
  BY <1>0, <1>15, SameQueue DEF vars, LeakInv, NoQuotaLeak, Counted
<1> QED
  BY <1>1, <1>2, <1>3, <1>4, <1>5, <1>6, <1>7, <1>8, <1>9, <1>10, <1>12, <1>13,
     <1>14, <1>15 DEF Next

\* NoQuotaLeak: no behaviour, restarts and lost bind replies included, leaves
\* a pod charged to a quota without a reservation, an assignment or a pending
\* deletion that accounts for it.
THEOREM NoChargeLeftBehind == Spec => []NoQuotaLeak
<1>1. Init => LeakInv
  <2> SUFFICES ASSUME Init PROVE LeakInv
    OBVIOUS
  <2>1. \A p \in Pods : ~ Counted(p)
    BY PodAssumption DEF PodAssumption, Init, NoInfos, Counted
  <2>2. AddsJustified
    BY DEF Init, AddsJustified
  <2> QED BY <2>1, <2>2 DEF LeakInv, NoQuotaLeak
<1>2. LeakInv => NoQuotaLeak
  BY DEF LeakInv
<1> QED BY <1>1, <1>2, LeakStep, TypeCorrect, PTL DEF Spec


-----------------------------------------------------------------------------
(* What a stale snapshot can cost *)

\* The snapshot is balanced and admits the pod whose cycle took it.
SnapshotInv ==
    /\ \A n \in Namespaces : snapshot[n] # None => Balanced(n, snapshot[n])
    /\ \A p \in Pods :
         sched[p] = "filtered" /\ snapshot[NsOf[p]] # None
           => snapshot[NsOf[p]].used + Req[p] <= snapshot[NsOf[p]].max

\* A sum over a set is at most the sum over another plus what only it holds.
LEMMA SumBound ==
    ASSUME NEW S \in SUBSET Pods, NEW T \in SUBSET Pods
    PROVE  TotalReq[S] <= TotalReq[T] + TotalReq[S \ T]
<1> USE TotalReqFacts
<1> DEFINE I == S \cap T
           D == S \ T
           R == T \ S
<1>1. I \in SUBSET Pods /\ D \in SUBSET Pods /\ R \in SUBSET Pods
  OBVIOUS
<1>2. I \cap D = {} /\ I \cup D = S /\ I \cap R = {} /\ I \cup R = T
  OBVIOUS
<1>3. TotalReq[I \cup D] = TotalReq[I] + TotalReq[D]
  BY <1>1, <1>2
<1>4. TotalReq[I \cup R] = TotalReq[I] + TotalReq[R]
  BY <1>1, <1>2
<1>5. TotalReq[I] \in Nat /\ TotalReq[D] \in Nat /\ TotalReq[R] \in Nat
  BY <1>1
<1>6. TotalReq[S] = TotalReq[I] + TotalReq[D] /\ TotalReq[T] = TotalReq[I] + TotalReq[R]
  BY <1>2, <1>3, <1>4
<1> QED BY <1>5, <1>6

\* Every step preserves SnapshotInv.
LEMMA SnapshotStep ==
    TypeOK /\ UsedMatchesPods /\ SnapshotInv /\ [Next]_vars => SnapshotInv'
<1> SUFFICES ASSUME TypeOK, UsedMatchesPods, SnapshotInv, [Next]_vars
             PROVE  SnapshotInv'
  OBVIOUS
<1> USE PodAssumption DEF PodAssumption
<1>1. ASSUME snapshot' = NoInfos PROVE SnapshotInv'
  BY <1>1 DEF SnapshotInv, NoInfos
<1>2. ASSUME snapshot' = snapshot,
             \A p \in Pods : sched'[p] = "filtered" => sched[p] = "filtered"
      PROVE  SnapshotInv'
  BY <1>2 DEF SnapshotInv
<1>3. ASSUME NEW p \in Pods, snapshotElasticQuota(p) PROVE SnapshotInv'
  <2>1. \A n \in Namespaces : snapshot'[n] # None => Balanced(n, snapshot'[n])
    BY <1>3 DEF snapshotElasticQuota, UsedMatchesPods, Balanced
  <2>2. \A q \in Pods : sched'[q] # "filtered"
    BY <1>3 DEF snapshotElasticQuota, TypeOK
  <2> QED BY <2>1, <2>2 DEF SnapshotInv
<1>4. ASSUME NEW p \in Pods, PreFilter(p), snapshot' # NoInfos PROVE SnapshotInv'
  <2> DEFINE eq == snapshot[NsOf[p]]
  <2>1. snapshot' = snapshot /\ \A q \in Pods : q # p => sched'[q] = sched[q]
    BY <1>4 DEF PreFilter, TypeOK
  <2>2. ASSUME eq # None PROVE eq.used + Req[p] <= eq.max
    <3>1. PICK nominated \in SUBSET Nominatable(p) :
            ~ usedOverMaxWith(eq, nominatedPodsReqInEQWithPodReq(p, nominated))
      BY <1>4, <2>2 DEF PreFilter
    <3> DEFINE N == {q \in nominated : /\ NsOf[q] = NsOf[p]
                                       /\ infos[NsOf[q]] # None
                                       /\ Prio[q] >= Prio[p]}
    <3>2. TotalReq[N] \in Nat
      BY TotalReqFacts DEF Nominatable
    <3>3. eq \in EqInfo
      BY <2>2 DEF TypeOK, EqInfos
    <3>4. ~ (eq.used + (Req[p] + TotalReq[N]) > eq.max)
      BY <3>1 DEF usedOverMaxWith, nominatedPodsReqInEQWithPodReq
    <3>5. eq.used \in Int /\ eq.max \in Nat /\ Req[p] \in Nat
      BY <3>3 DEF EqInfo
    <3> QED BY <3>2, <3>4, <3>5
  <2> QED BY <2>1, <2>2 DEF SnapshotInv
<1>5. ASSUME NEW p \in Pods, FilterFails(p) \/ Reserve(p) PROVE SnapshotInv'
  BY <1>1, <1>5 DEF FilterFails, Reserve
<1>6. ASSUME NEW p \in Pods, \/ ApiAssign(p) \/ ApiFinish(p) \/ ApiDelete(p)
                             \/ Unreserve(p) \/ BindReturns(p)
      PROVE  SnapshotInv'
  <2>1. snapshot' = snapshot
    BY <1>6 DEF ApiAssign, ApiFinish, ApiDelete, Unreserve, BindReturns
  <2>2. \A q \in Pods : sched'[q] = "filtered" => sched[q] = "filtered"
    BY <1>6 DEF ApiAssign, ApiFinish, ApiDelete, Unreserve, BindReturns, TypeOK
  <2> QED BY <1>2, <2>1, <2>2
<1>7. ASSUME UNCHANGED <<snapshot, sched>> PROVE SnapshotInv'
  BY <1>2, <1>7
<1>8. ASSUME Restart PROVE SnapshotInv'
  BY <1>1, <1>8 DEF Restart, New
<1>9. CASE UNCHANGED vars
  BY <1>7, <1>9 DEF vars
<1> QED
  BY <1>1, <1>3, <1>4, <1>5, <1>6, <1>7, <1>8, <1>9
  DEF Next, WriteQuota, addElasticQuota, addElasticQuotaStore, updateElasticQuota,
      deleteElasticQuota, EqEventIs, addPod, updatePod, deletePod, PodEventIs

\* The snapshot stays balanced and admits the pod of its cycle.
LEMMA SnapshotHolds == Spec => []SnapshotInv
<1>1. Init => SnapshotInv
  BY DEF Init, NoInfos, SnapshotInv
<1> QED BY <1>1, SnapshotStep, TypeCorrect, UsageIsSumOfPods, PTL DEF Spec

\* OvershootBounded: Reserve never takes a quota further over its max than
\* the pods the informer charged to it between PreFilter and Reserve.
THEOREM OvershootIsBounded == Spec => []OvershootBounded
<1>1. TypeOK /\ UsedMatchesPods /\ SnapshotInv => OvershootBounded
  <2> SUFFICES ASSUME TypeOK, UsedMatchesPods, SnapshotInv, NEW p \in Pods,
                      sched[p] = "filtered", infos[NsOf[p]] # None,
                      snapshot[NsOf[p]] # None,
                      infos[NsOf[p]].max = snapshot[NsOf[p]].max
               PROVE  infos[NsOf[p]].used + Req[p]
                        <= infos[NsOf[p]].max
                             + TotalReq[infos[NsOf[p]].pods \ snapshot[NsOf[p]].pods]
    BY DEF OvershootBounded
  <2> DEFINE live == infos[NsOf[p]]
             seen == snapshot[NsOf[p]]
             new == live.pods \ seen.pods
  <2>1. NsOf[p] \in Namespaces /\ Req[p] \in Nat
    BY PodAssumption DEF PodAssumption
  <2>2. live \in EqInfo /\ seen \in EqInfo
    BY <2>1 DEF TypeOK, EqInfos
  <2>3. live.used = TotalReq[live.pods] /\ seen.used = TotalReq[seen.pods]
    BY <2>1 DEF UsedMatchesPods, SnapshotInv, Balanced
  <2>4. seen.used + Req[p] <= seen.max
    BY DEF SnapshotInv
  <2>5. live.pods \in SUBSET Pods /\ seen.pods \in SUBSET Pods /\ new \in SUBSET Pods
    BY <2>2 DEF EqInfo
  <2>6. TotalReq[live.pods] <= TotalReq[seen.pods] + TotalReq[new]
    BY <2>5, SumBound
  <2>7. /\ live.used \in Int /\ seen.used \in Int /\ live.max \in Nat
        /\ TotalReq[new] \in Nat
    BY <2>2, <2>5, TotalReqFacts DEF EqInfo
  <2>8. live.used <= seen.used + TotalReq[new]
    BY <2>3, <2>6
  <2> HIDE DEF live, seen, new
  <2>9. live.max = seen.max
    BY DEF live, seen
  <2>10. live.used + Req[p] <= live.max + TotalReq[new]
    BY <2>1, <2>4, <2>7, <2>8, <2>9
  <2> QED BY <2>10 DEF live, seen, new
<1> QED BY <1>1, SnapshotHolds, TypeCorrect, UsageIsSumOfPods, PTL

-----------------------------------------------------------------------------
(* What a stale snapshot can cost all quotas together *)

\* The snapshot admits the pod whose cycle took it under the sum of the mins.
AggregateInv ==
    \A p \in Pods :
        sched[p] = "filtered" /\ snapshot[NsOf[p]] # None
          => TotalUsed(snapshot) + Req[p] <= TotalMin(snapshot)

\* The sums over the entries of a map are integers.
LEMMA TotalsType ==
    ASSUME NEW m \in EqInfos
    PROVE  /\ IsFiniteSet(WithInfo(m))
           /\ \A n \in WithInfo(m) : n \in Namespaces /\ m[n] \in EqInfo
           /\ TotalUsed(m) \in Int
           /\ TotalMin(m) \in Int
<1>1. IsFiniteSet(WithInfo(m))
  BY PodAssumption, FS_Subset DEF PodAssumption, WithInfo
<1>2. \A n \in WithInfo(m) : n \in Namespaces /\ m[n] \in EqInfo
  BY DEF WithInfo, EqInfos
<1>3. \A n \in WithInfo(m) : m[n].used \in Int /\ m[n].min \in Int
  BY <1>2 DEF EqInfo
<1> DEFINE u == [n \in WithInfo(m) |-> m[n].used]
           l == [n \in WithInfo(m) |-> m[n].min]
<1>4. \A n \in WithInfo(m) : u[n] \in Int /\ l[n] \in Int
  BY <1>3
<1> HIDE DEF u, l
<1>5. SumFunctionOnSet(u, WithInfo(m)) \in Int /\ SumFunctionOnSet(l, WithInfo(m)) \in Int
  BY <1>1, <1>4, SumInt
<1> QED BY <1>1, <1>2, <1>5 DEF TotalUsed, TotalMin, u, l

\* Every step preserves AggregateInv.
LEMMA AggregateStep == TypeOK /\ AggregateInv /\ [Next]_vars => AggregateInv'
<1> SUFFICES ASSUME TypeOK, AggregateInv, [Next]_vars
             PROVE  AggregateInv'
  OBVIOUS
<1> USE PodAssumption DEF PodAssumption
<1>1. ASSUME snapshot' = NoInfos PROVE AggregateInv'
  BY <1>1 DEF AggregateInv, NoInfos
<1>2. ASSUME snapshot' = snapshot,
             \A p \in Pods : sched'[p] = "filtered" => sched[p] = "filtered"
      PROVE  AggregateInv'
  BY <1>2 DEF AggregateInv
<1>3. ASSUME NEW p \in Pods, snapshotElasticQuota(p) PROVE AggregateInv'
  <2>1. \A q \in Pods : sched'[q] # "filtered"
    BY <1>3 DEF snapshotElasticQuota, TypeOK
  <2> QED BY <2>1 DEF AggregateInv
<1>4. ASSUME NEW p \in Pods, PreFilter(p), snapshot' # NoInfos PROVE AggregateInv'
  <2>1. snapshot' = snapshot /\ \A q \in Pods : q # p => sched'[q] = sched[q]
    BY <1>4 DEF PreFilter, TypeOK
  <2>2. ASSUME snapshot[NsOf[p]] # None PROVE TotalUsed(snapshot) + Req[p] <= TotalMin(snapshot)
    <3>1. PICK nominated \in SUBSET Nominatable(p) :
            ~ aggregatedUsedOverMinWith(snapshot, nominatedPodsReqWithPodReq(p, nominated))
      BY <1>4, <2>2 DEF PreFilter
    <3> DEFINE N == {q \in nominated : /\ NsOf[q] = NsOf[p]
                                       /\ infos[NsOf[q]] # None
                                       /\ Prio[q] >= Prio[p]}
               M == {q \in nominated : /\ NsOf[q] # NsOf[p]
                                       /\ infos[NsOf[q]] # None
                                       /\ ~ usedOverMin(infos[NsOf[q]])}
    <3>2. N \in SUBSET Pods /\ M \in SUBSET Pods
      BY DEF Nominatable
    <3>3. TotalReq[N] \in Nat /\ TotalReq[M] \in Nat
      BY <3>2, TotalReqFacts
    <3>4. ~ (TotalUsed(snapshot) + ((Req[p] + TotalReq[N]) + TotalReq[M]) > TotalMin(snapshot))
      BY <3>1 DEF aggregatedUsedOverMinWith, nominatedPodsReqWithPodReq,
                  nominatedPodsReqInEQWithPodReq
    <3>5. TotalUsed(snapshot) \in Int /\ TotalMin(snapshot) \in Int /\ Req[p] \in Nat
      BY TotalsType DEF TypeOK
    <3> HIDE DEF N, M
    <3> QED BY <3>3, <3>4, <3>5
  <2> QED BY <2>1, <2>2 DEF AggregateInv
<1>5. ASSUME NEW p \in Pods, FilterFails(p) \/ Reserve(p) PROVE AggregateInv'
  BY <1>1, <1>5 DEF FilterFails, Reserve
<1>6. ASSUME NEW p \in Pods, \/ ApiAssign(p) \/ ApiFinish(p) \/ ApiDelete(p)
                             \/ Unreserve(p) \/ BindReturns(p)
      PROVE  AggregateInv'
  <2>1. snapshot' = snapshot
    BY <1>6 DEF ApiAssign, ApiFinish, ApiDelete, Unreserve, BindReturns
  <2>2. \A q \in Pods : sched'[q] = "filtered" => sched[q] = "filtered"
    BY <1>6 DEF ApiAssign, ApiFinish, ApiDelete, Unreserve, BindReturns, TypeOK
  <2> QED BY <1>2, <2>1, <2>2
<1>7. ASSUME UNCHANGED <<snapshot, sched>> PROVE AggregateInv'
  BY <1>2, <1>7
<1>8. ASSUME Restart PROVE AggregateInv'
  BY <1>1, <1>8 DEF Restart, New
<1>9. CASE UNCHANGED vars
  BY <1>7, <1>9 DEF vars
<1> QED
  BY <1>1, <1>3, <1>4, <1>5, <1>6, <1>7, <1>8, <1>9
  DEF Next, WriteQuota, addElasticQuota, addElasticQuotaStore, updateElasticQuota,
      deleteElasticQuota, EqEventIs, addPod, updatePod, deletePod, PodEventIs

\* The requests of disjoint sets of pods add up to those of their union.
LEMMA UnionReq ==
    ASSUME NEW W, IsFiniteSet(W), NEW D \in [W -> SUBSET Pods],
           \A m, n \in W : m # n => D[m] \cap D[n] = {},
           NEW d, \A n \in W : d[n] = TotalReq[D[n]],
           NEW All, \A p : p \in All <=> \E n \in W : p \in D[n]
    PROVE  SumFunctionOnSet(d, W) = TotalReq[All]
<1>0. All = UNION {D[n] : n \in W}
  OBVIOUS
<1> DEFINE U(T) == UNION {D[n] : n \in T}
           Bad == {T \in SUBSET W : SumFunctionOnSet(d, T) # TotalReq[U(T)]}
<1>1. SUFFICES ASSUME Bad # {} PROVE FALSE
  BY <1>0, <1>1, Zenon
<1>2. PICK T \in Bad : IsFiniteSet(T) /\ \A x \in T : T \ {x} \notin Bad
  BY <1>1, SmallestSet
<1>3. PICK x : x \in T
  <2>1. U({}) = {}
    OBVIOUS
  <2>2. {} \notin Bad
    BY <2>1, SumEmpty, TotalReqFacts
  <2> QED BY <1>2, <2>2
<1> DEFINE R == T \ {x}
<1>4. T \subseteq W /\ x \in W /\ R \subseteq W
  BY <1>2, <1>3
<1>5. \A n \in T : d[n] \in Int
  BY <1>4, TotalReqFacts
<1>6. SumFunctionOnSet(d, T) = d[x] + SumFunctionOnSet(d, R)
  BY <1>2, <1>3, <1>5, SumRemove
<1>7. SumFunctionOnSet(d, R) = TotalReq[U(R)]
  BY <1>2, <1>3, <1>4
<1>8. U(T) = D[x] \cup U(R) /\ D[x] \cap U(R) = {}
  BY <1>3, <1>4
<1>9. D[x] \in SUBSET Pods /\ U(R) \in SUBSET Pods
  BY <1>4
<1>10. TotalReq[U(T)] = TotalReq[D[x]] + TotalReq[U(R)]
  BY <1>8, <1>9, TotalReqFacts
<1>11. SumFunctionOnSet(d, T) # TotalReq[U(T)] /\ d[x] = TotalReq[D[x]]
  BY <1>2, <1>4
<1> HIDE DEF U, R
<1> QED BY <1>6, <1>7, <1>10, <1>11

\* AggregateOvershootBounded: Reserve never takes the quotas together further
\* over the sum of their mins than the pods the informer charged to them
\* between PreFilter and Reserve.
THEOREM AggregateOvershootIsBounded == Spec => []AggregateOvershootBounded
<1>1. Init => AggregateInv
  BY DEF Init, NoInfos, AggregateInv
<1>2. TypeOK /\ UsedMatchesPods /\ SnapshotInv /\ AggregateInv => AggregateOvershootBounded
  <2> SUFFICES ASSUME TypeOK, UsedMatchesPods, SnapshotInv, AggregateInv, NEW p \in Pods,
                      sched[p] = "filtered", snapshot[NsOf[p]] # None,
                      WithInfo(snapshot) = WithInfo(infos),
                      \A n \in WithInfo(infos) : infos[n].min = snapshot[n].min
               PROVE  TotalUsed(infos) + Req[p] <= TotalMin(infos) + TotalReq[Arrived]
    BY DEF AggregateOvershootBounded
  <2> DEFINE W == WithInfo(infos)
             D == [n \in W |-> infos[n].pods \ snapshot[n].pods]
             d == [n \in W |-> TotalReq[D[n]]]
             live == [n \in W |-> infos[n].used]
             seen == [n \in W |-> snapshot[n].used]
             most == [n \in W |-> seen[n] + d[n]]
  <2>1. /\ IsFiniteSet(W) /\ W \subseteq Namespaces
        /\ \A n \in W : infos[n] \in EqInfo /\ snapshot[n] \in EqInfo
    BY TotalsType DEF TypeOK
  <2>2. \A n \in W : infos[n] # None /\ snapshot[n] # None
    BY DEF WithInfo
  <2>3. D \in [W -> SUBSET Pods]
    BY <2>1 DEF EqInfo
  <2>4. \A n \in W : d[n] \in Nat /\ live[n] \in Int /\ seen[n] \in Int
    BY <2>1, <2>3, TotalReqFacts DEF EqInfo
  <2>5. \A n \in W : live[n] <= most[n]
    <3> SUFFICES ASSUME NEW n \in W PROVE live[n] <= most[n]
      OBVIOUS
    <3>1. live[n] = TotalReq[infos[n].pods] /\ seen[n] = TotalReq[snapshot[n].pods]
      BY <2>1, <2>2 DEF UsedMatchesPods, SnapshotInv, Balanced
    <3>2. infos[n].pods \in SUBSET Pods /\ snapshot[n].pods \in SUBSET Pods
      BY <2>1 DEF EqInfo
    <3>3. TotalReq[infos[n].pods] <= TotalReq[snapshot[n].pods] + TotalReq[D[n]]
      BY <3>2, SumBound
    <3> QED BY <3>1, <3>3
  <2>6. SumFunctionOnSet(d, W) = TotalReq[Arrived]
    <3>1. \A m, n \in W : m # n => D[m] \cap D[n] = {}
      BY <2>1, <2>2 DEF UsedMatchesPods
    <3>2. \A q : q \in Arrived <=> \E n \in W : q \in D[n]
      BY DEF Arrived
    <3>3. \A n \in W : d[n] = TotalReq[D[n]]
      OBVIOUS
    <3> HIDE DEF d, D, W
    <3> QED BY <2>1, <2>3, <3>1, <3>2, <3>3, UnionReq
  <2>7. \A n \in W : most[n] = seen[n] + d[n] /\ most[n] \in Int
    BY <2>4
  <2>8. /\ TotalUsed(infos) = SumFunctionOnSet(live, W)
        /\ TotalUsed(snapshot) = SumFunctionOnSet(seen, W)
        /\ TotalMin(infos) = TotalMin(snapshot)
    <3>1. [n \in W |-> infos[n].min] = [n \in W |-> snapshot[n].min]
      OBVIOUS
    <3> QED BY <3>1 DEF TotalUsed, TotalMin
  <2> HIDE DEF W, D, d, live, seen, most
  <2>9. SumFunctionOnSet(live, W) <= SumFunctionOnSet(most, W)
    BY <2>1, <2>4, <2>5, <2>7, SumMono
  <2>10. SumFunctionOnSet(most, W) = SumFunctionOnSet(seen, W) + SumFunctionOnSet(d, W)
    BY <2>1, <2>4, <2>7, SumPlus
  <2>11. TotalUsed(snapshot) + Req[p] <= TotalMin(snapshot)
    BY DEF AggregateInv
  <2>12. /\ TotalUsed(infos) \in Int /\ TotalUsed(snapshot) \in Int
         /\ TotalMin(infos) \in Int /\ TotalMin(snapshot) \in Int
    BY TotalsType DEF TypeOK
  <2>13. Req[p] \in Nat /\ SumFunctionOnSet(d, W) \in Int
    BY <2>1, <2>4, SumInt, PodAssumption DEF PodAssumption
  <2> QED BY <2>6, <2>8, <2>9, <2>10, <2>11, <2>12, <2>13
<1> QED BY <1>1, <1>2, AggregateStep, TypeCorrect, UsageIsSumOfPods, SnapshotHolds, PTL DEF Spec

-----------------------------------------------------------------------------
(* The entries converge to the API server's quotas *)

\* The places of the waiting events of namespace n.
EventsOf(n) == {i \in 1 .. Len(eqEvents) : eqEvents[i].ns = n}

\* The event at i is the last that waits for namespace n.
LastOf(n, i) == i \in EventsOf(n) /\ \A j \in EventsOf(n) : j <= i

\* The entry of n is what the API server's quota makes of it.
Agrees(n) ==
    /\ (infos[n] = None) = (quota[n] = None)
    /\ infos[n] # None => /\ infos[n].min = newElasticQuotaInfo(quota[n]).min
                          /\ infos[n].max = newElasticQuotaInfo(quota[n]).max

\* addElasticQuota is about to store an entry of n.
Checking(n) == eqCheck # None /\ eqCheck.ns = n

\* Event e leaves a quota with the given spec.
Tells(e, spec) ==
    IF spec = None THEN e.type = "delete" ELSE e.type # "delete" /\ e.spec = spec

\* The add event at i, which addElasticQuota ignores when there is an entry,
\* comes right after a deletion, or alone and then finds no entry or a right one.
FreshAdd(n, i) ==
    \/ \E j \in EventsOf(n) : /\ j < i /\ eqEvents[j].type = "delete"
                              /\ \A k \in EventsOf(n) : k <= j \/ k >= i
    \/ EventsOf(n) = {i} /\ ~ Checking(n) /\ (infos[n] = None \/ Agrees(n))

\* The last waiting event of n carries the quota of n; with none waiting, the
\* entry, or the one about to be stored, does.
Converging(n) ==
    /\ \A i \in EventsOf(n) :
         LastOf(n, i) => /\ Tells(eqEvents[i], quota[n])
                         /\ eqEvents[i].type = "add" => FreshAdd(n, i)
    /\ EventsOf(n) = {} => IF Checking(n) THEN eqCheck.spec = quota[n] ELSE Agrees(n)

ConvergeInv == \A n \in Namespaces : Converging(n)

\* A waiting event has a last one of its namespace.
LEMMA LastExists ==
    ASSUME TypeOK, NEW n, EventsOf(n) # {}
    PROVE  \E i \in EventsOf(n) : LastOf(n, i)
<1> DEFINE S == EventsOf(n)
           f == [i \in S |-> i]
<1>1. Len(eqEvents) \in Nat
  BY DEF TypeOK
<1>2. IsFiniteSet(S) /\ S \subseteq Int
  <2>1. IsFiniteSet(1 .. Len(eqEvents))
    BY <1>1, FS_Interval
  <2>2. S \subseteq 1 .. Len(eqEvents)
    BY DEF EventsOf
  <2> QED BY <1>1, <2>1, <2>2, FS_Subset
<1>3. \A i \in S : f[i] \in Int /\ f[i] = i
  BY <1>2
<1> HIDE DEF f, S
<1>4. PICK i \in S : \A j \in S : f[i] >= f[j]
  BY <1>2, <1>3, GreatestValue DEF S
<1>5. \A j \in S : j <= i
  BY <1>2, <1>3, <1>4
<1> QED BY <1>4, <1>5 DEF LastOf, S

\* A listing holds one add event, with the quota, per namespace with a quota.
LEMMA ListingTells ==
    ASSUME quota \in [Namespaces -> Specs \cup {None}], NEW q \in EqListings
    PROVE  /\ \A i \in 1 .. Len(q) : /\ q[i].type = "add" /\ q[i].spec = quota[q[i].ns]
                                     /\ q[i].spec # None
           /\ \A i, j \in 1 .. Len(q) : q[i].ns = q[j].ns => i = j
           /\ \A n \in Namespaces : quota[n] # None => \E i \in 1 .. Len(q) : q[i].ns = n
<1> DEFINE Q == {n \in Namespaces : quota[n] # None}
           c == Cardinality(Q)
<1>1. IsFiniteSet(Q)
  BY FS_Subset, PodAssumption DEF PodAssumption
<1>2. PICK o \in Orders(Q) : q = [i \in DOMAIN o |-> EqAdd(o[i], quota[o[i]])]
  BY DEF EqListings
<1>3. c \in Nat /\ o \in [1 .. c -> Q]
  BY <1>1, OrderType
<1>4. \A n \in Q : \E i \in 1 .. c : o[i] = n
  BY <1>2, <1>3 DEF Orders
<1>5. o \in Surjection(1 .. c, Q)
  BY <1>3, <1>4 DEF Surjection
<1>6. IsFiniteSet(1 .. c) /\ Cardinality(1 .. c) = Cardinality(Q)
  BY <1>3, FS_Interval
<1>7. o \in Injection(1 .. c, Q)
  BY <1>5, <1>6, FS_Surjection
<1>8. \A i, j \in 1 .. c : o[i] = o[j] => i = j
  BY <1>3, <1>7 DEF Injection, IsInjective
<1>9. Len(q) = c /\ \A i \in 1 .. c : q[i] = EqAdd(o[i], quota[o[i]])
  <2> HIDE DEF c
  <2> QED BY <1>2, <1>3
<1> QED BY <1>3, <1>4, <1>8, <1>9 DEF EqAdd

\* A fresh map beside a fresh listing.
Listed ==
    /\ quota \in [Namespaces -> Specs \cup {None}]
    /\ eqEvents \in EqListings
    /\ infos = NoInfos
    /\ eqCheck = None

\* They converge.
LEMMA ListingConverges == Listed => ConvergeInv
<1> SUFFICES ASSUME quota \in [Namespaces -> Specs \cup {None}], eqEvents \in EqListings,
                    infos = NoInfos, eqCheck = None
             PROVE  ConvergeInv
  BY DEF Listed
<1>1. /\ \A i \in 1 .. Len(eqEvents) :
           /\ eqEvents[i].type = "add" /\ eqEvents[i].spec = quota[eqEvents[i].ns]
           /\ eqEvents[i].spec # None
      /\ \A i, j \in 1 .. Len(eqEvents) : eqEvents[i].ns = eqEvents[j].ns => i = j
      /\ \A n \in Namespaces :
           quota[n] # None => \E i \in 1 .. Len(eqEvents) : eqEvents[i].ns = n
  BY ListingTells
<1>2. SUFFICES ASSUME NEW n \in Namespaces PROVE Converging(n)
  BY DEF ConvergeInv
<1>3. infos[n] = None /\ ~ Checking(n)
  BY DEF NoInfos, Checking
<1>4. ASSUME NEW i \in EventsOf(n)
      PROVE  Tells(eqEvents[i], quota[n]) /\ FreshAdd(n, i)
  <2>1. i \in 1 .. Len(eqEvents) /\ eqEvents[i].ns = n
    BY DEF EventsOf
  <2>2. EventsOf(n) = {i}
    BY <1>1, <2>1 DEF EventsOf
  <2>3. Tells(eqEvents[i], quota[n])
    BY <1>1, <2>1 DEF Tells
  <2> QED BY <1>3, <2>2, <2>3 DEF FreshAdd
<1>5. EventsOf(n) = {} => Agrees(n)
  BY <1>1, <1>3 DEF EventsOf, Agrees
<1> QED BY <1>3, <1>4, <1>5 DEF Converging

\* So does what a step leaves, when it leaves such a pair.
LEMMA ListingConvergesNext == Listed' => ConvergeInv'
BY ListingConverges, PTL

\* An entry as the comparison of specs sees it.
SameSpec(x, y) == (x = None <=> y = None) /\ (x # None => x.min = y.min /\ x.max = y.max)

\* A step that touches neither the quotas nor their handler's state converges
\* when every entry keeps its spec or is made from the current quota.
LEMMA EntriesStep ==
    ASSUME TypeOK, ConvergeInv, eqEvents' = eqEvents, eqCheck' = eqCheck, quota' = quota,
           \A n \in Namespaces : \/ SameSpec(infos[n], infos'[n])
                                 \/ infos[n] = None /\ quota[n] # None /\ Agrees(n)'
    PROVE  ConvergeInv'
<1>1. SUFFICES ASSUME NEW n \in Namespaces PROVE Converging(n)'
  BY DEF ConvergeInv
<1>2. EventsOf(n)' = EventsOf(n) /\ (Checking(n)' <=> Checking(n))
  BY DEF EventsOf, Checking
<1>3. \A i : LastOf(n, i)' <=> LastOf(n, i)
  BY <1>2 DEF LastOf
<1>4. Converging(n)
  BY DEF ConvergeInv
<1>5. Agrees(n) => Agrees(n)'
  BY DEF Agrees, SameSpec
<1>6. infos[n] = None => infos'[n] = None \/ Agrees(n)'
  BY DEF SameSpec
<1>7. ASSUME NEW i \in EventsOf(n), FreshAdd(n, i) PROVE FreshAdd(n, i)'
  BY <1>2, <1>5, <1>6, <1>7 DEF FreshAdd
<1> QED BY <1>2, <1>3, <1>4, <1>5, <1>7 DEF Converging

\* A write of a quota appends an event that carries it.
LEMMA WriteStep ==
    ASSUME TypeOK, ConvergeInv, NEW w \in Namespaces, WriteQuota(w)
    PROVE  ConvergeInv'
<1>1. PICK spec \in (Specs \cup {None}) \ {quota[w]} :
        /\ quota' = [quota EXCEPT ![w] = spec]
        /\ eqEvents' = Append(eqEvents,
              IF spec = None THEN EqDelete(w)
              ELSE IF quota[w] = None THEN EqAdd(w, spec)
              ELSE EqUpdate(w, spec))
  BY DEF WriteQuota
<1> DEFINE e == IF spec = None THEN EqDelete(w)
                ELSE IF quota[w] = None THEN EqAdd(w, spec)
                ELSE EqUpdate(w, spec)
<1>2. e \in EqEvent /\ e.ns = w /\ Tells(e, spec) /\ (e.type = "add" => quota[w] = None)
  BY <1>1 DEF EqDelete, EqAdd, EqUpdate, EqEvent, Tells
<1> HIDE DEF e
<1>0. PICK l \in Nat : l = Len(eqEvents)
  BY DEF TypeOK
<1>3. /\ Len(eqEvents') = l + 1
      /\ \A i \in 1 .. l : eqEvents'[i] = eqEvents[i]
      /\ eqEvents'[l + 1] = e
  BY <1>0, <1>1, <1>2, AppendShift DEF TypeOK, e
<1>4. infos' = infos /\ eqCheck' = eqCheck /\ quota \in [Namespaces -> Specs \cup {None}]
  BY DEF WriteQuota, TypeOK
<1>5. SUFFICES ASSUME NEW n \in Namespaces PROVE Converging(n)'
  BY DEF ConvergeInv
<1>6. Converging(n) /\ (Checking(n)' <=> Checking(n))
  BY <1>4 DEF ConvergeInv, Checking
<1>7. CASE n # w
  <2>1. EventsOf(n)' = EventsOf(n)
    BY <1>0, <1>2, <1>3, <1>7 DEF EventsOf
  <2>2. \A i \in EventsOf(n) : eqEvents'[i] = eqEvents[i]
    BY <1>0, <1>3 DEF EventsOf
  <2>3. quota'[n] = quota[n]
    BY <1>1, <1>4, <1>7
  <2>4. Agrees(n)' <=> Agrees(n)
    BY <1>4, <2>3 DEF Agrees
  <2>5. \A i \in EventsOf(n) : FreshAdd(n, i) => FreshAdd(n, i)'
    BY <1>4, <1>6, <2>1, <2>2, <2>4 DEF FreshAdd
  <2> QED BY <1>4, <1>6, <2>1, <2>2, <2>3, <2>4, <2>5 DEF Converging, LastOf
<1>8. CASE n = w
  <2>1. EventsOf(n)' = EventsOf(n) \cup {l + 1} /\ \A i \in EventsOf(n) : i \in 1 .. l
    BY <1>0, <1>2, <1>3, <1>8 DEF EventsOf
  <2>2. quota'[n] = spec
    BY <1>1, <1>4, <1>8
  <2>3. ASSUME e.type = "add" PROVE FreshAdd(n, l + 1)'
    <3>1. quota[n] = None
      BY <1>2, <1>8, <2>3
    <3>2. CASE EventsOf(n) = {}
      <4>1. ~ Checking(n)
        <5>1. Checking(n) => eqCheck.spec = None
          BY <1>6, <3>1, <3>2 DEF Converging
        <5>2. Checking(n) => eqCheck.spec \in Specs
          BY DEF Checking, EqCheck, TypeOK
        <5> QED BY <5>1, <5>2, QuotaAssumption DEF QuotaAssumption
      <4>2. infos[n] = None
        BY <1>6, <3>1, <3>2, <4>1 DEF Converging, Agrees
      <4> QED BY <1>4, <1>6, <2>1, <3>2, <4>1, <4>2 DEF FreshAdd
    <3>3. CASE EventsOf(n) # {}
      <4>1. PICK i \in EventsOf(n) : LastOf(n, i)
        BY <3>3, LastExists
      <4>2. eqEvents[i].type = "delete"
        BY <1>6, <3>1, <4>1 DEF Converging, Tells
      <4>3. i \in 1 .. l /\ eqEvents'[i].type = "delete" /\ i < l + 1
        BY <1>3, <2>1, <4>2
      <4>4. \A k \in EventsOf(n)' : k <= i \/ k >= l + 1
        BY <1>3, <2>1, <4>1 DEF LastOf
      <4> QED BY <2>1, <4>3, <4>4 DEF FreshAdd
    <3> QED BY <3>2, <3>3
  <2>4. ASSUME NEW i \in EventsOf(n)', LastOf(n, i)' PROVE i = l + 1
    <3>1. l + 1 <= i
      BY <2>1, <2>4 DEF LastOf
    <3> QED BY <2>1, <3>1
  <2> QED BY <1>2, <1>3, <2>1, <2>2, <2>3, <2>4 DEF Converging
<1> QED BY <1>7, <1>8

\* Handling the first event: the other namespaces' events move up, and the
\* effect on the entry of its own namespace is that of the handler.
LEMMA HandleStep ==
    ASSUME TypeOK, ConvergeInv, NEW type, EqEventIs(type),
           Head(eqEvents) \in EqEvent,
           \A n \in Namespaces : n # Head(eqEvents).ns =>
               infos'[n] = infos[n] /\ ~ Checking(n)',
           LET e == Head(eqEvents)
           IN  \/ /\ e.type = "add"
                  /\ \/ infos[e.ns] # None /\ infos' = infos /\ eqCheck' = None
                     \/ /\ infos[e.ns] = None /\ infos' = infos
                        /\ eqCheck' = [ns |-> e.ns, spec |-> e.spec]
               \/ /\ e.type = "update" /\ eqCheck' = None
                  /\ infos'[e.ns] # None
                  /\ infos'[e.ns].min = newElasticQuotaInfo(e.spec).min
                  /\ infos'[e.ns].max = newElasticQuotaInfo(e.spec).max
               \/ e.type = "delete" /\ eqCheck' = None /\ infos'[e.ns] = None
    PROVE  ConvergeInv'
<1> DEFINE e == Head(eqEvents)
           l == Len(eqEvents)
<1>1. /\ l \in Nat /\ l >= 1 /\ Len(eqEvents') = l - 1
      /\ \A i \in 1 .. l - 1 : eqEvents'[i] = eqEvents[i + 1]
      /\ e = eqEvents[1] /\ quota' = quota /\ eqCheck = None
  BY TailShift DEF EqEventIs, TypeOK
<1> HIDE DEF e, l
<1>2. SUFFICES ASSUME NEW n \in Namespaces PROVE Converging(n)'
  BY DEF ConvergeInv
<1>3. Converging(n) /\ ~ Checking(n)
  BY <1>1 DEF ConvergeInv, Checking
<1>4. \A i \in EventsOf(n)' : /\ i \in Nat /\ i >= 1 /\ i + 1 \in EventsOf(n)
                              /\ eqEvents'[i] = eqEvents[i + 1]
  BY <1>1 DEF EventsOf, l
<1>5. \A i \in EventsOf(n) : /\ i \in Nat /\ i >= 1
                             /\ i # 1 => /\ i - 1 \in EventsOf(n)'
                                         /\ eqEvents'[i - 1] = eqEvents[i]
  BY <1>1 DEF EventsOf, l
<1>6. ASSUME NEW i \in EventsOf(n)', LastOf(n, i)' PROVE LastOf(n, i + 1)
  <2>1. \A j \in EventsOf(n) : j <= i + 1
    <3> SUFFICES ASSUME NEW j \in EventsOf(n), j # 1 PROVE j <= i + 1
      BY <1>4
    <3>1. j - 1 <= i
      BY <1>5, <1>6 DEF LastOf
    <3> QED BY <1>4, <1>5, <3>1
  <2> QED BY <1>4, <2>1 DEF LastOf
<1>7. 1 \in EventsOf(n) <=> n = e.ns
  BY <1>1 DEF EventsOf, l
<1>8. ASSUME NEW i \in EventsOf(n)', NEW j \in EventsOf(n), j # 1, j < i + 1,
             eqEvents[j].type = "delete", \A k \in EventsOf(n) : k <= j \/ k >= i + 1
      PROVE  FreshAdd(n, i)'
  <2>1. j - 1 \in EventsOf(n)' /\ j - 1 < i /\ eqEvents'[j - 1].type = "delete"
    BY <1>4, <1>5, <1>8
  <2>2. \A k \in EventsOf(n)' : k <= j - 1 \/ k >= i
    <3> SUFFICES ASSUME NEW k \in EventsOf(n)' PROVE k <= j - 1 \/ k >= i
      OBVIOUS
    <3>1. k + 1 <= j \/ k + 1 >= i + 1
      BY <1>4, <1>8
    <3> QED BY <1>4, <1>5, <3>1
  <2> QED BY <2>1, <2>2 DEF FreshAdd
<1>9. CASE n # e.ns
  <2>1. infos'[n] = infos[n] /\ ~ Checking(n)' /\ (Agrees(n)' <=> Agrees(n))
    BY <1>1, <1>9 DEF Agrees, e
  <2>2. \A i \in EventsOf(n) : i # 1
    BY <1>7, <1>9
  <2>3. ASSUME NEW i \in EventsOf(n)', FreshAdd(n, i + 1) PROVE FreshAdd(n, i)'
    <3>1. CASE \E j \in EventsOf(n) : /\ j < i + 1 /\ eqEvents[j].type = "delete"
                                      /\ \A k \in EventsOf(n) : k <= j \/ k >= i + 1
      BY <1>8, <2>2, <3>1
    <3>2. CASE EventsOf(n) = {i + 1} /\ ~ Checking(n) /\ (infos[n] = None \/ Agrees(n))
      <4>1. \A k \in EventsOf(n)' : k = i
        <5>1. \A k \in EventsOf(n)' : k + 1 = i + 1
          BY <1>4, <3>2
        <5> QED BY <1>4, <5>1
      <4>2. EventsOf(n)' = {i}
        BY <4>1
      <4> QED BY <2>1, <3>2, <4>2 DEF FreshAdd
    <3> QED BY <2>3, <3>1, <3>2 DEF FreshAdd
  <2>4. EventsOf(n)' = {} => EventsOf(n) = {}
    BY <1>5, <2>2
  <2>5. ASSUME NEW i \in EventsOf(n)', LastOf(n, i)'
        PROVE  /\ Tells(eqEvents'[i], quota'[n])
               /\ eqEvents'[i].type = "add" => FreshAdd(n, i)'
    BY <1>1, <1>3, <1>4, <1>6, <2>3, <2>5 DEF Converging
  <2> QED BY <1>3, <2>1, <2>4, <2>5 DEF Converging
<1>10. CASE n = e.ns
  <2>1. 1 \in EventsOf(n)
    BY <1>7, <1>10
  <2>2. ASSUME NEW i \in EventsOf(n)', LastOf(n, i)'
        PROVE  /\ Tells(eqEvents'[i], quota'[n])
               /\ eqEvents'[i].type = "add" => FreshAdd(n, i)'
    <3>1. LastOf(n, i + 1) /\ i + 1 \in EventsOf(n) /\ i + 1 # 1
      BY <1>4, <1>6, <2>2
    <3>2. Tells(eqEvents'[i], quota'[n])
      BY <1>1, <1>3, <1>4, <3>1 DEF Converging
    <3>3. ASSUME eqEvents'[i].type = "add" PROVE FreshAdd(n, i)'
      <4>1. FreshAdd(n, i + 1)
        BY <1>3, <1>4, <3>1, <3>3 DEF Converging
      <4>2. PICK j \in EventsOf(n) : /\ j < i + 1 /\ eqEvents[j].type = "delete"
                                     /\ \A k \in EventsOf(n) : k <= j \/ k >= i + 1
        BY <2>1, <3>1, <4>1 DEF FreshAdd
      <4>3. CASE j = 1
        <5>1. e.type = "delete"
          BY <1>1, <4>2, <4>3
        <5>2. infos'[n] = None /\ eqCheck' = None
          BY <1>10, <5>1 DEF e
        <5>3. \A k \in EventsOf(n)' : k = i
          <6> SUFFICES ASSUME NEW k \in EventsOf(n)' PROVE k = i
            OBVIOUS
          <6>1. k + 1 \in EventsOf(n) /\ k \in Nat /\ k >= 1 /\ i \in Nat
            BY <1>4
          <6>2. k <= i
            BY <2>2 DEF LastOf
          <6>3. k + 1 >= i + 1
            BY <4>2, <4>3, <6>1
          <6> QED BY <6>1, <6>2, <6>3
        <5>4. EventsOf(n)' = {i}
          BY <5>3
        <5> QED BY <5>2, <5>4 DEF FreshAdd, Checking
      <4> QED BY <1>8, <4>2, <4>3
    <3> QED BY <3>2, <3>3
  <2>3. ASSUME EventsOf(n)' = {}
        PROVE  IF Checking(n)' THEN eqCheck'.spec = quota'[n] ELSE Agrees(n)'
    <3>1. EventsOf(n) = {1}
      BY <1>5, <2>1, <2>3
    <3>2. LastOf(n, 1)
      BY <3>1 DEF LastOf
    <3>3. Tells(e, quota[n]) /\ (e.type = "add" => FreshAdd(n, 1))
      BY <1>1, <1>3, <3>1, <3>2 DEF Converging
    <3>4. e.type = "add" => infos[n] = None \/ Agrees(n)
      BY <3>1, <3>3 DEF FreshAdd
    <3>5. CASE e.type = "add"
      <4>1. quota[n] = e.spec
        BY <3>3, <3>5 DEF Tells
      <4>2. CASE infos[n] # None /\ infos' = infos /\ eqCheck' = None
        BY <1>1, <3>4, <3>5, <4>2 DEF Agrees, Checking
      <4>3. CASE infos' = infos /\ eqCheck' = [ns |-> n, spec |-> e.spec]
        <5>1. eqCheck' \in EqCheck
          BY <3>3, <3>5, <4>1, <4>3 DEF EqCheck, EqEvent, TypeOK, Tells
        <5> QED BY <1>1, <4>1, <4>3, <5>1, NoneAssumption DEF Checking
      <4> QED BY <1>10, <3>5, <4>2, <4>3 DEF e
    <3>6. CASE e.type = "update"
      <4>1. /\ eqCheck' = None /\ infos'[n] # None
            /\ infos'[n].min = newElasticQuotaInfo(e.spec).min
            /\ infos'[n].max = newElasticQuotaInfo(e.spec).max
        BY <1>10, <3>6 DEF e
      <4>2. quota'[n] # None /\ quota'[n] = e.spec
        BY <1>1, <3>3, <3>6 DEF Tells
      <4> QED BY <4>1, <4>2 DEF Agrees, Checking
    <3>7. CASE e.type = "delete"
      <4>1. eqCheck' = None /\ infos'[n] = None
        BY <1>10, <3>7 DEF e
      <4>2. quota'[n] = None
        BY <1>1, <3>3, <3>7 DEF Tells
      <4> QED BY <4>1, <4>2 DEF Agrees, Checking
    <3> QED BY <3>5, <3>6, <3>7 DEF e
  <2> QED BY <2>2, <2>3 DEF Converging
<1> QED BY <1>9, <1>10

\* The store of addElasticQuota.
LEMMA StoreStep ==
    ASSUME TypeOK, ConvergeInv, addElasticQuotaStore
    PROVE  ConvergeInv'
<1>1. /\ eqCheck \in EqCheck /\ eqCheck.ns \in Namespaces /\ eqCheck.spec \in Specs
      /\ eqCheck.spec # None /\ eqCheck # None
      /\ infos' = [infos EXCEPT ![eqCheck.ns] = newElasticQuotaInfo(eqCheck.spec)]
      /\ eqCheck' = None /\ eqEvents' = eqEvents /\ quota' = quota
      /\ infos \in [Namespaces -> EqInfo \cup {None}]
  BY QuotaAssumption DEF QuotaAssumption, addElasticQuotaStore, TypeOK, EqCheck, EqInfos
<1>2. newElasticQuotaInfo(eqCheck.spec) # None
  BY <1>1, NewInfoType, NoneAssumption
<1>3. SUFFICES ASSUME NEW n \in Namespaces PROVE Converging(n)'
  BY DEF ConvergeInv
<1>4. Converging(n) /\ EventsOf(n)' = EventsOf(n) /\ ~ Checking(n)'
  BY <1>1 DEF ConvergeInv, EventsOf, Checking
<1>5. \A i : LastOf(n, i)' <=> LastOf(n, i)
  BY <1>4 DEF LastOf
<1>6. Checking(n) <=> eqCheck.ns = n
  BY <1>1 DEF Checking
<1>7. CASE Checking(n)
  <2>1. infos'[n] = newElasticQuotaInfo(eqCheck.spec)
    BY <1>1, <1>6, <1>7
  <2>2. EventsOf(n) = {} => Agrees(n)'
    <3> SUFFICES ASSUME EventsOf(n) = {} PROVE Agrees(n)'
      OBVIOUS
    <3>1. eqCheck.spec = quota'[n]
      BY <1>1, <1>4, <1>7 DEF Converging
    <3> QED BY <1>1, <1>2, <2>1, <3>1 DEF Agrees
  <2>3. \A i \in EventsOf(n) : FreshAdd(n, i) => FreshAdd(n, i)'
    BY <1>1, <1>4, <1>7 DEF FreshAdd
  <2> QED BY <1>1, <1>4, <1>5, <2>2, <2>3 DEF Converging
<1>8. CASE ~ Checking(n)
  <2>1. infos'[n] = infos[n]
    BY <1>1, <1>6, <1>8
  <2>2. Agrees(n)' <=> Agrees(n)
    BY <1>1, <2>1 DEF Agrees
  <2>3. \A i \in EventsOf(n) : FreshAdd(n, i) => FreshAdd(n, i)'
    BY <1>1, <1>4, <2>1, <2>2 DEF FreshAdd
  <2> QED BY <1>1, <1>4, <1>5, <1>8, <2>2, <2>3 DEF Converging
<1> QED BY <1>7, <1>8

\* Every step preserves ConvergeInv.
LEMMA ConvergeStep == TypeOK /\ ConvergeInv /\ [Next]_vars => ConvergeInv'
<1> SUFFICES ASSUME TypeOK, ConvergeInv, [Next]_vars
             PROVE  ConvergeInv'
  OBVIOUS
<1> USE PodAssumption, NoneAssumption DEF PodAssumption
<1>1. infos \in [Namespaces -> EqInfo \cup {None}] /\ quota \in [Namespaces -> Specs \cup {None}]
  BY DEF TypeOK, EqInfos
<1>2. ASSUME UNCHANGED <<eqEvents, eqCheck, quota, infos>> PROVE ConvergeInv'
  BY <1>2, EntriesStep DEF SameSpec
<1>3. \A info \in EqInfo, p \in Pods :
        SameSpec(info, addPodIfNotPresent(info, p)) /\ SameSpec(info, deletePodIfPresent(info, p))
  <2> SUFFICES ASSUME NEW info \in EqInfo, NEW p \in Pods
               PROVE  /\ SameSpec(info, addPodIfNotPresent(info, p))
                      /\ SameSpec(info, deletePodIfPresent(info, p))
    OBVIOUS
  <2>1. addPodIfNotPresent(info, p) # None /\ deletePodIfPresent(info, p) # None /\ info # None
    BY PodChangeType
  <2> QED BY <2>1 DEF SameSpec, addPodIfNotPresent, deletePodIfPresent, Recount
<1>4. ASSUME NEW p \in Pods, UNCHANGED <<eqEvents, eqCheck, quota>>, Forget(p)
      PROVE  ConvergeInv'
  <2>1. \A n \in Namespaces : SameSpec(infos[n], infos'[n])
    BY <1>1, <1>3, <1>4 DEF Forget, SameSpec
  <2> QED BY <1>4, <2>1, EntriesStep
<1>5. ASSUME NEW p \in Pods, Reserve(p) PROVE ConvergeInv'
  <2>1. \A n \in Namespaces : SameSpec(infos[n], infos'[n])
    BY <1>1, <1>3, <1>5 DEF Reserve, SameSpec
  <2> QED BY <1>5, <2>1, EntriesStep DEF Reserve
<1>6. ASSUME addPod PROVE ConvergeInv'
  <2> DEFINE p == Head(podEvents).pod
             m == NsOf[p]
  <2>1. Head(podEvents) \in PodEvent /\ UNCHANGED <<eqEvents, eqCheck, quota>>
    BY <1>6 DEF addPod, PodEventIs, TypeOK
  <2>2. p \in Pods /\ m \in Namespaces
    BY <2>1 DEF PodEvent
  <2>3. CASE infos[m] # None /\ infos' = [infos EXCEPT ![m] = addPodIfNotPresent(infos[m], p)]
    <3>1. \A n \in Namespaces : SameSpec(infos[n], infos'[n])
      BY <1>1, <1>3, <2>2, <2>3 DEF SameSpec
    <3> QED BY <2>1, <3>1, EntriesStep
  <2>4. CASE /\ infos[m] = None /\ quota[m] # None
             /\ infos' = [infos EXCEPT ![m] =
                            addPodIfNotPresent(newElasticQuotaInfo(quota[m]), p)]
    <3>1. quota[m] \in Specs
      BY <1>1, <2>2, <2>4
    <3>2. newElasticQuotaInfo(quota[m]) \in EqInfo
      BY <3>1, NewInfoType
    <3>3. infos'[m] \in EqInfo /\ SameSpec(newElasticQuotaInfo(quota[m]), infos'[m])
      BY <1>1, <1>3, <2>2, <2>4, <3>2, PodChangeType
    <3>4. PICK m0 \in Namespaces : m0 = m
      BY <2>2
    <3>5. Agrees(m0)'
      BY <2>1, <2>4, <3>2, <3>3, <3>4 DEF Agrees, SameSpec
    <3>6. \A n \in Namespaces : n # m0 => SameSpec(infos[n], infos'[n])
      BY <1>1, <2>4, <3>4 DEF SameSpec
    <3> QED BY <2>1, <2>4, <3>4, <3>5, <3>6, EntriesStep
  <2> QED BY <1>2, <1>6, <2>1, <2>3, <2>4 DEF addPod
<1>7. ASSUME updatePod \/ deletePod PROVE ConvergeInv'
  <2>1. /\ Head(podEvents) \in PodEvent /\ UNCHANGED <<eqEvents, eqCheck, quota>>
        /\ Forget(Head(podEvents).pod)
    BY <1>7 DEF updatePod, deletePod, PodEventIs, TypeOK
  <2> QED BY <1>4, <2>1 DEF PodEvent
<1>8. ASSUME NEW type, EqEventIs(type)
      PROVE  /\ Head(eqEvents) \in EqEvent /\ Head(eqEvents).ns \in Namespaces
             /\ Head(eqEvents).type # "delete" => Head(eqEvents).spec \in Specs
  <2>1. Head(eqEvents) \in EqEvent
    BY <1>8 DEF EqEventIs, TypeOK
  <2> QED BY <2>1 DEF EqEvent
<1>9. ASSUME addElasticQuota PROVE ConvergeInv'
  <2>1. /\ EqEventIs("add") /\ infos' = infos /\ Head(eqEvents).type = "add"
        /\ eqCheck' = IF infos[Head(eqEvents).ns] # None THEN None
                      ELSE [ns |-> Head(eqEvents).ns, spec |-> Head(eqEvents).spec]
    BY <1>9 DEF addElasticQuota, EqEventIs
  <2>2. Head(eqEvents) \in EqEvent
    BY <1>8, <2>1
  <2>3. \A n \in Namespaces : n # Head(eqEvents).ns => infos'[n] = infos[n] /\ ~ Checking(n)'
    BY <2>1 DEF Checking
  <2> QED BY <2>1, <2>2, <2>3, HandleStep
<1>10. ASSUME updateElasticQuota PROVE ConvergeInv'
  <2> DEFINE e == Head(eqEvents)
             new == newElasticQuotaInfo(e.spec)
             old == infos[e.ns]
  <2>1. /\ EqEventIs("update") /\ e.type = "update" /\ eqCheck' = None
        /\ e \in EqEvent /\ e.ns \in Namespaces /\ e.spec \in Specs
    BY <1>8, <1>10 DEF updateElasticQuota, EqEventIs
  <2>2. infos' = [infos EXCEPT ![e.ns] = IF old = None THEN new
                                         ELSE Recount(new, old.pods, old.used)]
    BY <1>10 DEF updateElasticQuota
  <2>3. new \in EqInfo /\ (old # None => Recount(new, old.pods, old.used) \in EqInfo)
    <3>1. new \in EqInfo
      BY <2>1, NewInfoType
    <3> QED BY <1>1, <2>1, <3>1 DEF EqInfo, Recount
  <2>4. infos'[e.ns] # None /\ infos'[e.ns].min = new.min /\ infos'[e.ns].max = new.max
    BY <1>1, <2>1, <2>2, <2>3 DEF Recount
  <2>5. \A n \in Namespaces : n # e.ns => infos'[n] = infos[n] /\ ~ Checking(n)'
    BY <1>1, <2>1, <2>2 DEF Checking
  <2> QED BY <2>1, <2>4, <2>5, HandleStep
<1>11. ASSUME deleteElasticQuota PROVE ConvergeInv'
  <2>1. /\ EqEventIs("delete") /\ Head(eqEvents).type = "delete" /\ eqCheck' = None
        /\ Head(eqEvents) \in EqEvent /\ Head(eqEvents).ns \in Namespaces
        /\ infos' = [infos EXCEPT ![Head(eqEvents).ns] = None]
    BY <1>8, <1>11 DEF deleteElasticQuota, EqEventIs
  <2>2. infos'[Head(eqEvents).ns] = None
    BY <1>1, <2>1
  <2>3. \A n \in Namespaces : n # Head(eqEvents).ns => infos'[n] = infos[n] /\ ~ Checking(n)'
    BY <1>1, <2>1 DEF Checking
  <2> QED BY <2>1, <2>2, <2>3, HandleStep
<1>12. ASSUME Restart PROVE ConvergeInv'
  <2>1. /\ quota' \in [Namespaces -> Specs \cup {None}] /\ quota' = quota
        /\ eqEvents' \in EqListings /\ infos' = NoInfos /\ eqCheck' = None
    BY <1>1, <1>12 DEF Restart, New
  <2>2. EqListings' = EqListings
    BY <2>1 DEF EqListings
  <2>3. Listed'
    BY <2>1, <2>2 DEF Listed
  <2> QED BY <2>3, ListingConvergesNext
<1>13. CASE UNCHANGED vars
  BY <1>2, <1>13 DEF vars
<1> QED
  BY <1>2, <1>4, <1>5, <1>6, <1>7, <1>9, <1>10, <1>11, <1>12, <1>13, WriteStep, StoreStep
  DEF Next, ApiAssign, ApiFinish, ApiDelete, snapshotElasticQuota, PreFilter, FilterFails,
      Unreserve, BindReturns

\* SpecsConverged: whenever the ElasticQuota handler is idle, the entries
\* PreFilter and Reserve work with are those the API server's quotas make,
\* in spite of addPod's direct list and addElasticQuota's unlocked check.
THEOREM EntriesConverge == Spec => []SpecsConverged
<1>1. Init => ConvergeInv
  BY ListingConverges DEF Init, Listed
<1>2. ConvergeInv => SpecsConverged
  BY DEF ConvergeInv, Converging, EventsOf, Checking, Agrees, SpecsConverged
<1> QED BY <1>1, <1>2, ConvergeStep, TypeCorrect, PTL DEF Spec

-----------------------------------------------------------------------------
(* Only the store of addElasticQuota drops a charge that stands *)

\* A finish or delete event is of a pod that has ended.
EndsJustified ==
    \A i \in 1 .. Len(podEvents) :
        podEvents[i].type \in {"finish", "delete"} =>
            pod[podEvents[i].pod] \in {"finished", "deleted"}

\* Every step preserves EndsJustified.
LEMMA EndsStep == TypeOK /\ EndsJustified /\ [Next]_vars => EndsJustified'
<1> SUFFICES ASSUME TypeOK, EndsJustified, [Next]_vars
             PROVE  EndsJustified'
  OBVIOUS
<1>1. /\ podEvents \in Seq(PodEvent)
      /\ pod \in [Pods -> PodStates]
      /\ \A i \in 1 .. Len(podEvents) : podEvents[i].pod \in Pods
  <2>1. podEvents \in Seq(PodEvent) /\ pod \in [Pods -> PodStates]
    BY DEF TypeOK
  <2>2. \A i \in 1 .. Len(podEvents) : podEvents[i] \in PodEvent
    BY <2>1
  <2> QED BY <2>1, <2>2 DEF PodEvent
<1>2. ASSUME podEvents' = podEvents, pod' = pod PROVE EndsJustified'
  BY <1>2 DEF EndsJustified
<1>3. ASSUME NEW p \in Pods, NEW to \in PodStates, NEW e \in PodEvent,
             pod' = [pod EXCEPT ![p] = to],
             podEvents' = Append(podEvents, e) \/ podEvents' = podEvents,
             pod[p] \in {"finished", "deleted"} => to \in {"finished", "deleted"},
             e.type \in {"finish", "delete"} => e.pod = p /\ to \in {"finished", "deleted"}
      PROVE  EndsJustified'
  <2>1. \A q \in Pods : pod[q] \in {"finished", "deleted"} => pod'[q] \in {"finished", "deleted"}
    BY <1>1, <1>3
  <2>2. \A i \in 1 .. Len(podEvents) :
          podEvents[i].type \in {"finish", "delete"} => pod'[podEvents[i].pod] \in {"finished", "deleted"}
    BY <1>1, <2>1 DEF EndsJustified
  <2>3. CASE podEvents' = podEvents
    BY <2>2, <2>3 DEF EndsJustified
  <2>4. CASE podEvents' = Append(podEvents, e)
    <3>1. /\ Len(podEvents) \in Nat /\ Len(podEvents') = Len(podEvents) + 1
          /\ \A i \in 1 .. Len(podEvents) : podEvents'[i] = podEvents[i]
          /\ podEvents'[Len(podEvents) + 1] = e
      BY <1>1, <2>4, AppendShift
    <3>2. \A i \in 1 .. Len(podEvents') : i \in 1 .. Len(podEvents) \/ i = Len(podEvents) + 1
      BY <3>1
    <3>3. e.type \in {"finish", "delete"} => pod'[e.pod] \in {"finished", "deleted"}
      BY <1>1, <1>3
    <3> QED BY <2>2, <3>1, <3>2, <3>3 DEF EndsJustified
  <2> QED BY <1>3, <2>3, <2>4
<1>4. ASSUME NEW p \in Pods, ApiAssign(p) PROVE EndsJustified'
  BY <1>3, <1>4, PodEventType DEF ApiAssign, PodAdd, PodStates
<1>5. ASSUME NEW p \in Pods, ApiFinish(p) PROVE EndsJustified'
  BY <1>3, <1>5, PodEventType DEF ApiFinish, PodFinish, PodStates
<1>6. ASSUME NEW p \in Pods, ApiDelete(p) PROVE EndsJustified'
  BY <1>3, <1>6, PodEventType DEF ApiDelete, PodDelete, PodStates
<1>7. ASSUME NEW type, PodEventIs(type) PROVE EndsJustified'
  <2>1. /\ Len(podEvents) \in Nat /\ Len(podEvents') = Len(podEvents) - 1
        /\ \A i \in 1 .. Len(podEvents) - 1 : podEvents'[i] = podEvents[i + 1]
        /\ pod' = pod
    BY <1>1, <1>7, TailShift DEF PodEventIs
  <2>2. \A i \in 1 .. Len(podEvents') :
          i + 1 \in 1 .. Len(podEvents) /\ podEvents'[i] = podEvents[i + 1]
    BY <2>1
  <2> QED BY <2>1, <2>2 DEF EndsJustified
<1>8. ASSUME Restart PROVE EndsJustified'
  <2>1. podEvents' \in PodListings
    BY <1>8 DEF Restart, New
  <2>2. \A i \in 1 .. Len(podEvents') : podEvents'[i].type = "add"
    BY <2>1, ListingType DEF TypeOK
  <2> QED BY <2>2 DEF EndsJustified
<1>9. CASE UNCHANGED vars
  BY <1>2, <1>9 DEF vars
<1> QED
  BY <1>2, <1>4, <1>5, <1>6, <1>7, <1>8, <1>9
  DEF Next, WriteQuota, snapshotElasticQuota, PreFilter, FilterFails, Reserve, Unreserve,
      BindReturns, addElasticQuota, addElasticQuotaStore, updateElasticQuota,
      deleteElasticQuota, EqEventIs, addPod, updatePod, deletePod

\* A step that drops the charge of a pod undoes its reservation, takes off a
\* pod that ended, or is the store of addElasticQuota.
LEMMA UncountStep ==
    ASSUME TypeOK, EndsJustified, Next, NEW p \in Pods, Uncounts(p)
    PROVE  MayUncount(p) \/ (eqCheck # None /\ eqCheck' = None)
<1> USE PodAssumption DEF PodAssumption
<1> DEFINE Goal == MayUncount(p) \/ (eqCheck # None /\ eqCheck' = None)
<1>1. ASSUME Counted(p)' PROVE Goal
  BY <1>1 DEF Uncounts
<1>2. Counted(p) /\ NsOf[p] \in Namespaces /\ infos'[NsOf[p]] # None
  BY DEF Uncounts
<1>3. infos \in [Namespaces -> EqInfo \cup {None}]
  BY DEF TypeOK, EqInfos
<1>4. ASSUME infos' = infos PROVE Goal
  BY <1>1, <1>2, <1>4 DEF Counted
<1>5. ASSUME NEW q \in Pods, Forget(q), q # p PROVE Goal
  <2>1. Counted(p)'
    BY <1>2, <1>3, <1>5 DEF Forget, Counted, deletePodIfPresent, Recount, EqInfo
  <2> QED BY <1>1, <2>1
<1>6. ASSUME NEW q \in Pods, Unreserve(q) PROVE Goal
  <2>1. CASE q = p
    BY <1>6, <2>1 DEF Unreserve, MayUncount, TypeOK
  <2> QED BY <1>5, <1>6, <2>1 DEF Unreserve
<1>7. ASSUME NEW q \in Pods, Reserve(q) PROVE Goal
  <2>1. Counted(p)'
    BY <1>2, <1>3, <1>7 DEF Reserve, Counted, addPodIfNotPresent, Recount, EqInfo
  <2> QED BY <1>1, <2>1
<1>8. ASSUME addElasticQuotaStore PROVE Goal
  BY <1>8 DEF addElasticQuotaStore
<1>9. ASSUME updateElasticQuota PROVE Goal
  <2>1. infos[NsOf[p]] \in EqInfo /\ p \in infos[NsOf[p]].pods
    BY <1>2, <1>3 DEF Counted
  <2>2. infos[NsOf[p]] # None
    BY <1>2 DEF Counted
  <2>3. CASE Head(eqEvents).ns = NsOf[p]
    <3>1. infos'[NsOf[p]].pods = infos[NsOf[p]].pods
      BY <1>3, <1>9, <1>2, <2>2, <2>3 DEF updateElasticQuota, Recount
    <3> QED BY <1>1, <1>2, <2>1, <3>1 DEF Counted
  <2>4. CASE Head(eqEvents).ns # NsOf[p]
    <3>1. infos'[NsOf[p]] = infos[NsOf[p]]
      BY <1>3, <1>9, <1>2, <2>4 DEF updateElasticQuota
    <3> QED BY <1>1, <1>2, <2>1, <3>1 DEF Counted
  <2> QED BY <2>3, <2>4
<1>10. ASSUME deleteElasticQuota PROVE Goal
  <2>1. infos'[NsOf[p]] = infos[NsOf[p]]
    BY <1>2, <1>3, <1>10 DEF deleteElasticQuota
  <2> QED BY <1>1, <1>2, <2>1 DEF Counted
<1>11. ASSUME addPod PROVE Goal
  <2> DEFINE q == Head(podEvents).pod
             n == NsOf[q]
  <2>1. CASE infos[n] # None /\ infos' = [infos EXCEPT ![n] = addPodIfNotPresent(infos[n], q)]
    <3>1. Counted(p)'
      BY <1>2, <1>3, <2>1 DEF Counted, addPodIfNotPresent, Recount, EqInfo
    <3> QED BY <1>1, <3>1, SMTT(30)
  <2>2. CASE infos[n] = None
    <3>1. n # NsOf[p]
      BY <1>2, <2>2 DEF Counted
    <3>2. infos'[NsOf[p]] = infos[NsOf[p]]
      BY <1>2, <1>3, <1>11, <2>2, <3>1 DEF addPod
    <3> QED BY <1>1, <1>2, <3>2 DEF Counted
  <2> QED BY <1>11, <2>1, <2>2 DEF addPod
<1>12. ASSUME updatePod \/ deletePod PROVE Goal
  <2>1. /\ podEvents # <<>> /\ podEvents \in Seq(PodEvent)
        /\ Head(podEvents).type \in {"finish", "delete"}
        /\ Forget(Head(podEvents).pod)
    BY <1>12 DEF updatePod, deletePod, PodEventIs, TypeOK
  <2>2. Head(podEvents) = podEvents[1] /\ Len(podEvents) >= 1 /\ Len(podEvents) \in Nat
    BY <2>1, TailShift
  <2>3. pod[Head(podEvents).pod] \in {"finished", "deleted"}
    BY <2>1, <2>2 DEF EndsJustified
  <2>4. Head(podEvents) \in PodEvent
    BY <2>1
  <2>5. Head(podEvents).pod \in Pods
    BY <2>4 DEF PodEvent
  <2> QED BY <1>5, <2>1, <2>3, <2>5 DEF MayUncount
<1>13. ASSUME Restart PROVE Goal
  BY <1>2, <1>13 DEF Restart, New, NoInfos
<1> QED
  BY <1>4, <1>6, <1>7, <1>8, <1>9, <1>10, <1>11, <1>12, <1>13
  DEF Next, WriteQuota, ApiAssign, ApiFinish, ApiDelete, snapshotElasticQuota, PreFilter, FilterFails,
      BindReturns, addElasticQuota

\* OnlyAddRaceUncounts: the charge of a pod that runs under a standing
\* reservation is dropped by no handler but the store of addElasticQuota.
THEOREM ChargeStands == Spec => OnlyAddRaceUncounts
<1>1. Init => EndsJustified
  BY DEF Init, EndsJustified
<1>2. TypeOK /\ EndsJustified /\ [Next]_vars =>
        [\A p \in Pods :
            Uncounts(p) => MayUncount(p) \/ (eqCheck # None /\ eqCheck' = None)]_vars
  BY UncountStep
<1> QED BY <1>1, <1>2, EndsStep, TypeCorrect, PTL DEF Spec, OnlyAddRaceUncounts

=============================================================================
