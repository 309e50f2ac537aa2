------------------------- MODULE Controllers_proofs -------------------------
(***************************************************************************)
(* The two controllers of cmd/controller.  Of the PodGroup controller:     *)
(* type correctness and the justification of the phase Finished, for any   *)
(* pods, foreign pods and minMember.  Of the ElasticQuota controller: type *)
(* correctness and that a quota at rest is right, for any pods, requests   *)
(* and number of workers.                                                  *)
(***************************************************************************)
EXTENDS PodGroupController, ElasticQuotaController, Sums, SequenceTheorems

-----------------------------------------------------------------------------
(* Operators *)

\* The pods in a phase can be counted.
LEMMA NumType ==
    ASSUME NEW ps, NEW phase
    PROVE  /\ IsFiniteSet(In(ps, phase)) /\ Num(ps, phase) \in Nat
           /\ IsFiniteSet(Exist(ps)) /\ Cardinality(Exist(ps)) \in Nat
<1>1. In(ps, phase) \subseteq Pods /\ Exist(ps) \subseteq Pods
    BY DEF In, Exist
<1>2. IsFiniteSet(In(ps, phase)) /\ IsFiniteSet(Exist(ps))
    BY <1>1, FS_Subset, PodGroupAssumption
<1> QED
    BY <1>2, FS_CardinalityType DEF Num

\* getCurrentPodStats changes the counts only.
LEMMA StatsType ==
    ASSUME NEW status \in Status, NEW ps
    PROVE  /\ getCurrentPodStats(status, ps) \in Status
           /\ getCurrentPodStats(status, ps).phase = status.phase
           /\ getCurrentPodStats(status, ps).succeeded = Num(ps, "Succeeded")
<1>1. \A phase : Num(ps, phase) \in Nat
    BY NumType
<1> HIDE DEF Num
<1> QED
    BY <1>1 DEF getCurrentPodStats, Status

\* A status computed by Reconcile is one, and its phase is Finished only when
\* minMember succeeded pods were listed.
LEMMA NextStatusType ==
    ASSUME NEW old \in Status, NEW ps
    PROVE  /\ NextStatus(old, ps) \in Status
           /\ NextStatus(old, ps).phase = "Finished" => Num(ps, "Succeeded") >= MinMember
<1> DEFINE n == Cardinality(Exist(ps))
           counted == getCurrentPodStats(old, ps)
           phase == PhaseOf(counted, n)
<1>1. counted \in Status /\ counted.succeeded = Num(ps, "Succeeded")
    BY StatsType
<1>2. phase \in Phases /\ (phase = "Finished" => counted.succeeded >= MinMember)
    BY DEF PhaseOf, Phases
<1>3. [counted EXCEPT !.phase = phase] \in Status
      /\ [counted EXCEPT !.phase = phase].phase = phase
    <2> HIDE DEF counted, phase
    <2> QED BY <1>1, <1>2 DEF Status
<1>4. [old EXCEPT !.phase = "Pending"] \in Status
      /\ [old EXCEPT !.phase = "Pending"].phase = "Pending"
    BY DEF Status, Phases
<1>5. \A x \in {"Scheduling", "Pending"} :
        [old EXCEPT !.phase = x] \in Status /\ [old EXCEPT !.phase = x].phase = x
    BY DEF Status, Phases
<1>6. CASE old.phase = ""
    BY <1>4, <1>6 DEF NextStatus
<1>7. CASE old.phase = "Pending"
    <2>1. \E x \in {"Scheduling", "Pending"} : NextStatus(old, ps) = [old EXCEPT !.phase = x]
        BY <1>7 DEF NextStatus
    <2> QED BY <2>1, <1>5
<1>8. CASE old.phase # "" /\ old.phase # "Pending"
    <2>1. NextStatus(old, ps) = [counted EXCEPT !.phase = phase]
        BY <1>8 DEF NextStatus
    <2> QED BY <2>1, <1>1, <1>2, <1>3
<1> QED
    BY <1>6, <1>7, <1>8

\* A merge patch gives a status, with the old phase or the new one.
LEMMA MergePatchType ==
    ASSUME NEW current \in Status, NEW old \in Status, NEW new \in Status
    PROVE  /\ MergePatch(current, old, new) \in Status
           /\ MergePatch(current, old, new).phase \in {current.phase, new.phase}
<1>1. DOMAIN current = {"phase", "running", "succeeded", "failed"}
    BY DEF Status
<1>2. MergePatch(current, old, new) =
        [phase |-> MergePatch(current, old, new).phase,
         running |-> MergePatch(current, old, new).running,
         succeeded |-> MergePatch(current, old, new).succeeded,
         failed |-> MergePatch(current, old, new).failed]
    BY <1>1 DEF MergePatch
<1>3. /\ MergePatch(current, old, new).phase \in {current.phase, new.phase}
      /\ MergePatch(current, old, new).running \in {current.running, new.running}
      /\ MergePatch(current, old, new).succeeded \in {current.succeeded, new.succeeded}
      /\ MergePatch(current, old, new).failed \in {current.failed, new.failed}
    BY <1>1 DEF MergePatch
<1> HIDE DEF MergePatch
<1> QED
    BY <1>2, <1>3 DEF Status

-----------------------------------------------------------------------------
(* Type correctness *)

LEMMA NewStatusType == NewStatus \in Status
    BY DEF NewStatus, Status, Phases

LEMMA TypeStep == TypeOK /\ [Next]_vars => TypeOK'
<1> SUFFICES ASSUME TypeOK, [Next]_vars
             PROVE  TypeOK'
    OBVIOUS
<1> DEFINE Recs == [step : {"list", "status", "object"}, old : Status, new : Status]
<1> USE PodGroupAssumption
<1>1. ASSUME NEW p \in Pods, PodChanges(p)
      PROVE  TypeOK'
    BY <1>1 DEF TypeOK, PodChanges
<1>2. ASSUME NEW p \in Pods, podToPodGroup(p)
      PROVE  TypeOK'
    BY <1>2 DEF TypeOK, podToPodGroup
<1>3. CASE PodGroupEvent
    BY <1>3 DEF TypeOK, PodGroupEvent
<1>4. CASE ReconcileGet
    <2>1. rec' \in Recs \cup {Idle}
        BY <1>4 DEF ReconcileGet, TypeOK
    <2> QED BY <1>4, <2>1 DEF TypeOK, ReconcileGet
<1>5. CASE ReconcileList
    <2>1. rec \in Recs
        BY <1>5 DEF ReconcileList, TypeOK
    <2>2. NextStatus(rec.old, seenPods) \in Status
        BY <2>1, NextStatusType
    <2>3. rec' \in Recs
        <3> HIDE DEF NextStatus
        <3> QED BY <1>5, <2>1, <2>2 DEF ReconcileList
    <2> QED BY <1>5, <2>3 DEF TypeOK, ReconcileList
<1>6. CASE PatchStatus
    <2>1. rec \in Recs
        BY <1>6 DEF PatchStatus, TypeOK
    <2>2. pg' \in Status
        BY <1>6, <2>1, MergePatchType DEF PatchStatus, TypeOK
    <2>3. rec' \in Recs
        BY <1>6, NewStatusType DEF PatchStatus
    <2> QED BY <1>6, <2>2, <2>3 DEF TypeOK, PatchStatus
<1>7. CASE PatchObject
    BY <1>7 DEF TypeOK, PatchObject
<1>8. CASE ReconcileFails
    BY <1>8 DEF TypeOK, ReconcileFails, PodGroupAssumption
<1>9. CASE Restart
    <2>1. errors' \in 0..MaxErrors
        BY <1>9 DEF TypeOK, Restart, PodGroupAssumption
    <2>2. /\ rec' = Idle /\ queued' = TRUE /\ behind' = FALSE
          /\ seenPods' = pods /\ seenPG' = pg
          /\ pods' = pods /\ pg' = pg /\ evSucceeded' = evSucceeded
        BY <1>9 DEF Restart
    <2> QED BY <2>1, <2>2, ZenonT(30) DEF TypeOK
<1>10. CASE UNCHANGED vars
    BY <1>10 DEF TypeOK, vars
<1> QED
    BY <1>1, <1>2, <1>3, <1>4, <1>5, <1>6, <1>7, <1>8, <1>9, <1>10 DEF Next, Reconcile

\* The status of the group, the cached copy of it and the Reconcile under way
\* hold counts and the phases of a PodGroup, for any pods and minMember: the
\* patches of Reconcile write nothing else.
THEOREM TypeCorrect == Spec => []TypeOK
<1>1. Init => TypeOK
    <2> SUFFICES ASSUME Init PROVE TypeOK
        OBVIOUS
    <2>1. pods \in [Pods -> PodPhases]
        BY DEF Init, PodPhases
    <2>2. seenPods = pods /\ pg = NewStatus /\ seenPG = NewStatus /\ behind = FALSE
          /\ queued = TRUE /\ rec = Idle /\ evSucceeded = Foreign
        BY DEF Init
    <2>3. errors \in 0..MaxErrors /\ evSucceeded \subseteq Pods
        BY PodGroupAssumption DEF Init, PodGroupAssumption
    <2> QED
        BY <2>1, <2>2, <2>3, NewStatusType, ZenonT(30) DEF TypeOK
<1> QED
    BY <1>1, TypeStep, PTL DEF Spec

-----------------------------------------------------------------------------
(* A group is Finished only when enough pods did succeed *)

\* Everything the phase Finished may come from is backed by pods that succeeded:
\* the pods and the cache of them, the group and the cache of it, and what
\* Reconcile has computed.  A Reconcile never starts from Finished.
Enough == Cardinality(evSucceeded) >= MinMember

Backed ==
    /\ In(pods, "Succeeded") \subseteq evSucceeded
    /\ In(seenPods, "Succeeded") \subseteq evSucceeded
    /\ pg.phase = "Finished" => Enough
    /\ seenPG.phase = "Finished" => Enough
    /\ rec # Idle /\ rec.new.phase = "Finished" => Enough

\* Pods that succeeded stay so: enough of them stay enough.
LEMMA EnoughStays ==
    ASSUME TypeOK, TypeOK', evSucceeded \subseteq evSucceeded', Enough
    PROVE  Enough'
<1>1. IsFiniteSet(evSucceeded')
    BY FS_Subset, PodGroupAssumption DEF TypeOK
<1>2. IsFiniteSet(evSucceeded) /\ Cardinality(evSucceeded) <= Cardinality(evSucceeded')
    BY <1>1, FS_Subset
<1>3. Cardinality(evSucceeded) \in Nat /\ Cardinality(evSucceeded') \in Nat /\ MinMember \in Nat
    BY <1>1, <1>2, FS_CardinalityType, PodGroupAssumption
<1>4. Cardinality(evSucceeded) >= MinMember
    BY DEF Enough
<1>5. Cardinality(evSucceeded') >= MinMember
    BY <1>2, <1>3, <1>4
<1> QED BY <1>5 DEF Enough

LEMMA BackedStep == TypeOK /\ TypeOK' /\ Backed /\ [Next]_vars => Backed'
<1> SUFFICES ASSUME TypeOK, TypeOK', Backed, [Next]_vars
             PROVE  Backed'
    OBVIOUS
<1> DEFINE Recs == [step : {"list", "status", "object"}, old : Status, new : Status]
<1>1. ASSUME NEW p \in Pods, PodChanges(p)
      PROVE  Backed'
    <2>1. evSucceeded \subseteq evSucceeded'
        BY <1>1 DEF PodChanges
    <2>2. Enough => Enough'
        BY <2>1, EnoughStays
    <2>3. In(pods', "Succeeded") \subseteq evSucceeded'
        BY <1>1 DEF PodChanges, Backed, In, TypeOK
    <2>4. In(seenPods', "Succeeded") \subseteq evSucceeded'
        BY <1>1, <2>1 DEF PodChanges, Backed, In
    <2>5. UNCHANGED <<pg, seenPG, rec>>
        BY <1>1 DEF PodChanges
    <2> HIDE DEF Enough
    <2> QED BY <2>2, <2>3, <2>4, <2>5 DEF Backed
<1>2. ASSUME NEW p \in Pods, podToPodGroup(p)
      PROVE  Backed'
    <2>1. UNCHANGED <<pods, pg, seenPG, rec, evSucceeded>>
        BY <1>2 DEF podToPodGroup
    <2>2. In(seenPods', "Succeeded") \subseteq In(pods, "Succeeded") \cup In(seenPods, "Succeeded")
        BY <1>2 DEF podToPodGroup, In, TypeOK
    <2> QED BY <2>1, <2>2 DEF Backed, Enough
<1>3. CASE PodGroupEvent
    BY <1>3 DEF PodGroupEvent, Backed, Enough
<1>4. CASE ReconcileGet
    BY <1>4 DEF ReconcileGet, Backed, Enough, Final
<1>5. CASE ReconcileList
    <2>1. rec \in Recs
        BY <1>5 DEF ReconcileList, TypeOK
    <2>2. rec'.new = NextStatus(rec.old, seenPods)
        BY <1>5, <2>1 DEF ReconcileList
    <2>3. Num(seenPods, "Succeeded") >= MinMember => Enough
        <3>1. IsFiniteSet(evSucceeded)
            BY FS_Subset, PodGroupAssumption DEF TypeOK
        <3>2. Num(seenPods, "Succeeded") <= Cardinality(evSucceeded)
            BY <3>1, FS_Subset DEF Backed, Num
        <3>3. Num(seenPods, "Succeeded") \in Nat /\ Cardinality(evSucceeded) \in Nat /\ MinMember \in Nat
            BY <3>1, NumType, FS_CardinalityType, PodGroupAssumption
        <3> QED BY <3>2, <3>3 DEF Enough
    <2>4. NextStatus(rec.old, seenPods).phase = "Finished" => Num(seenPods, "Succeeded") >= MinMember
        BY <2>1, NextStatusType
    <2>5. rec'.new.phase = "Finished" => Enough
        BY <2>2, <2>3, <2>4
    <2>6. UNCHANGED <<pods, seenPods, pg, seenPG, evSucceeded>>
        BY <1>5 DEF ReconcileList
    <2> QED BY <2>5, <2>6 DEF Backed, Enough
<1>6. CASE PatchStatus
    <2>1. rec \in Recs
        BY <1>6 DEF PatchStatus, TypeOK
    <2>2. pg'.phase \in {pg.phase, rec.new.phase}
        BY <1>6, <2>1, MergePatchType DEF PatchStatus, TypeOK
    <2>3. rec'.new.phase = ""
        BY <1>6 DEF PatchStatus, NewStatus
    <2>4. rec # Idle /\ UNCHANGED <<pods, seenPods, seenPG, evSucceeded>>
        BY <1>6 DEF PatchStatus
    <2> QED BY <2>2, <2>3, <2>4 DEF Backed, Enough
<1>7. CASE PatchObject
    BY <1>7 DEF PatchObject, Backed, Enough
<1>8. CASE ReconcileFails
    BY <1>8 DEF ReconcileFails, Backed, Enough
<1>9. CASE Restart
    BY <1>9 DEF Restart, Backed, Enough
<1>10. CASE UNCHANGED vars
    BY <1>10 DEF vars, Backed, Enough
<1> QED
    BY <1>1, <1>2, <1>3, <1>4, <1>5, <1>6, <1>7, <1>8, <1>9, <1>10 DEF Next, Reconcile

\* A group is Finished only if minMember pods with its label did succeed,
\* however far the cache that Reconcile reads is behind and whichever patches,
\* failed calls and restarts come in between.
THEOREM FinishedIsJustified == Spec => []FinishedJustified
<1>1. Init => Backed
    <2> SUFFICES ASSUME Init PROVE Backed
        OBVIOUS
    <2>1. In(pods, "Succeeded") = Foreign /\ In(seenPods, "Succeeded") = Foreign
        BY PodGroupAssumption DEF Init, In, PodGroupAssumption
    <2>2. pg.phase = "" /\ seenPG.phase = "" /\ rec = Idle /\ evSucceeded = Foreign
        BY DEF Init, NewStatus
    <2> QED
        BY <2>1, <2>2 DEF Backed
<1>2. Backed => FinishedJustified
    BY DEF Backed, Enough, FinishedJustified
<1> QED
    BY <1>1, <1>2, TypeCorrect, BackedStep, PTL DEF Spec

-----------------------------------------------------------------------------
(* The ElasticQuota controller *)

LEMMA MaxIs ==
    ASSUME NEW S, S \subseteq Nat, NEW x \in S, \A y \in S : x >= y
    PROVE  Max(S) = x
<1>1. Max(S) \in S /\ \A y \in S : Max(S) >= y
    BY DEF Max
<1>2. Max(S) \in Nat /\ x \in Nat /\ Max(S) >= x /\ x >= Max(S)
    BY <1>1
<1> QED BY <1>2

\* What a pod requests is a number: the most of its containers together and of
\* each of its init containers.
LEMMA PodRequest ==
    ASSUME NEW p \in QuotaPods
    PROVE  /\ computePodResourceRequest(p) \in Nat
           /\ computePodResourceRequest(p)
                = Max({SumFunction(Containers[p])} \cup Range(InitContainers[p]))
<1> DEFINE c == Containers[p]
           init == InitContainers[p]
           sum == SumFunction(c)
           R == Range(init)
<1>1. c \in Seq(Nat) /\ init \in Seq(Nat)
    BY ElasticQuotaAssumption
<1>2. \A s \in Seq(Nat) : DOMAIN s = 1 .. Len(s) /\ Len(s) \in Nat /\ IsFiniteSet(1 .. Len(s))
    BY FS_Interval
<1>3. sum \in Nat
    <2> HIDE DEF c
    <2>1. SumFunctionOnSet(c, DOMAIN c) \in Nat
        <3>1. IsFiniteSet(DOMAIN c)
            BY <1>1, <1>2, Zenon
        <3>2. \A x \in DOMAIN c : c[x] \in Nat
            BY <1>1
        <3> QED BY <3>1, <3>2, SumNat
    <2> QED BY <2>1 DEF SumFunction
<1>4. /\ R \subseteq Nat
      /\ R # {} => \E m \in R : \A y \in R : m >= y
    <2> HIDE DEF init
    <2>1. R = {init[x] : x \in DOMAIN init}
        BY DEF Range
    <2>2. ASSUME R # {}
          PROVE  \E m \in R : \A y \in R : m >= y
        <3>1. DOMAIN init # {} /\ IsFiniteSet(DOMAIN init) /\ \A x \in DOMAIN init : init[x] \in Int
            BY <1>1, <1>2, <2>1, <2>2
        <3>2. PICK i \in DOMAIN init : \A x \in DOMAIN init : init[i] >= init[x]
            BY <3>1, GreatestValue
        <3> QED BY <2>1, <3>2
    <2> QED BY <1>1, <2>1, <2>2
<1> HIDE DEF sum, R
<1>5. \A x \in Nat : \E m \in {x} \cup R : \A y \in {x} \cup R : m >= y
    BY <1>4
<1>6. \A x \in Nat : {x} \cup R \subseteq Nat
    BY <1>4
<1>7. PICK m \in {0} \cup R : \A y \in {0} \cup R : m >= y
    BY <1>5
<1>8. Max({0} \cup R) = m /\ m \in Nat
    BY <1>6, <1>7, MaxIs
<1>9. computePodResourceRequest(p) = IF sum > m THEN sum ELSE m
    BY <1>8 DEF computePodResourceRequest, sum, R
<1>10. PICK x \in {sum, m} : /\ x = IF sum > m THEN sum ELSE m
                             /\ x >= sum /\ x >= m
    BY <1>3, <1>8
<1>11. x \in Nat /\ x \in {sum} \cup R /\ \A y \in {sum} \cup R : x >= y
    BY <1>3, <1>4, <1>7, <1>8, <1>10
<1>12. Max({sum} \cup R) = x
    BY <1>3, <1>6, <1>11, MaxIs
<1> QED BY <1>9, <1>10, <1>11, <1>12 DEF sum, R

\* The usage of a set of pods is a number, and what they request.
Usage(S) == computeElasticQuotaUsed(S)

LEMMA UsageIsRequested ==
    ASSUME NEW S, S \subseteq QuotaPods
    PROVE  Usage(S) \in Nat /\ Usage(S) = Requested(S)
<1> DEFINE f == [p \in QuotaPods |-> computePodResourceRequest(p)]
           g == [p \in QuotaPods |->
                    Max({SumFunction(Containers[p])} \cup Range(InitContainers[p]))]
<1>1. IsFiniteSet(S)
    BY FS_Subset, ElasticQuotaAssumption
<1>2. \A p \in S : f[p] \in Nat
    BY PodRequest
<1>3. f = g
    BY PodRequest
<1>4. Usage(S) = SumFunctionOnSet(f, S)
    BY DEF Usage, computeElasticQuotaUsed
<1>5. Requested(S) = SumFunctionOnSet(g, S)
    BY DEF Requested
<1> HIDE DEF f, g
<1> QED BY <1>1, <1>2, <1>3, <1>4, <1>5, SumNat

-----------------------------------------------------------------------------
(* Type correctness of the ElasticQuota controller *)

LEMMA QuotaTypeStep ==
    ASSUME QuotaTypeOK, [QuotaNext]_quotaVars
    PROVE  QuotaTypeOK'
<1> DEFINE W == Reconciling \cup {NoKey}
<1>0. Keys = QuotaPods \cup {EQ} /\ MaxQuotaErrors \in Nat
    BY ElasticQuotaAssumption DEF Keys
<1>1. ASSUME NEW p \in QuotaPods, PodRuns(p)
      PROVE  QuotaTypeOK'
    BY <1>1 DEF PodRuns, QuotaTypeOK
<1>2. ASSUME NEW p \in QuotaPods, PodEnds(p)
      PROVE  QuotaTypeOK'
    BY <1>2 DEF PodEnds, QuotaTypeOK
<1>3. ASSUME NEW p \in QuotaPods, PodEvent(p)
      PROVE  QuotaTypeOK'
    BY <1>0, <1>3 DEF PodEvent, QuotaTypeOK
<1>4. CASE QuotaEvent
    <2>1. watch \in Seq(Nat) /\ watch # << >>
        BY <1>4 DEF QuotaEvent, QuotaTypeOK
    <2>2. Head(watch) \in Nat /\ Tail(watch) \in Seq(Nat)
        BY <2>1
    <2> QED BY <1>0, <1>4, <2>2 DEF QuotaEvent, QuotaTypeOK
<1>5. ASSUME NEW w \in Workers, NEW k \in Keys, ListQuotas(w, k)
      PROVE  QuotaTypeOK'
    <2>1. [key |-> k, step |-> "pods", old |-> seenUsed, new |-> seenUsed] \in W
        BY <1>0 DEF Reconciling, QuotaTypeOK
    <2>2. work' \in [Workers -> W]
        <3> HIDE DEF W
        <3> QED BY <1>5, <2>1 DEF ListQuotas, QuotaTypeOK, W
    <2> QED BY <1>5, <2>2 DEF ListQuotas, QuotaTypeOK
<1>6. ASSUME NEW w \in Workers, ListPods(w)
      PROVE  QuotaTypeOK'
    <2> DEFINE sum == computeElasticQuotaUsed(seen)
    <2>1. sum \in Nat
        BY UsageIsRequested DEF Usage, QuotaTypeOK
    <2>2. work[w] \in Reconciling
        BY <1>6 DEF ListPods, QuotaTypeOK
    <2> HIDE DEF sum
    <2>3. [work[w] EXCEPT !.step = "patch", !.new = sum] \in W
        BY <2>1, <2>2 DEF Reconciling
    <2>4. work' \in [Workers -> W]
        <3>1. work' = [work EXCEPT ![w] = IF sum = work[w].old THEN NoKey
                         ELSE [work[w] EXCEPT !.step = "patch", !.new = sum]]
            BY <1>6 DEF ListPods, sum
        <3> QED BY <2>3, <3>1 DEF QuotaTypeOK
    <2> QED BY <1>6, <2>4 DEF ListPods, QuotaTypeOK
<1>7. ASSUME NEW w \in Workers, Patch(w)
      PROVE  QuotaTypeOK'
    <2>1. work[w] \in Reconciling
        BY <1>7 DEF Patch, QuotaTypeOK
    <2>2. used' \in Nat
        BY <1>7, <2>1 DEF Patch, Reconciling
    <2>3. watch' \in Seq(Nat)
        BY <1>7, <2>2 DEF Patch, QuotaTypeOK
    <2> QED BY <1>7, <2>2, <2>3 DEF Patch, QuotaTypeOK
<1>8. ASSUME NEW w \in Workers, QuotaReconcileFails(w)
      PROVE  QuotaTypeOK'
    <2>1. work[w].key \in Keys
        BY <1>0, <1>8 DEF QuotaReconcileFails, QuotaTypeOK, Reconciling
    <2>2. quotaErrors' \in 0 .. MaxQuotaErrors
        BY <1>0, <1>8 DEF QuotaReconcileFails, QuotaTypeOK
    <2> QED BY <1>8, <2>1, <2>2 DEF QuotaReconcileFails, QuotaTypeOK
<1>9. CASE QuotaRestart
    <2>1. quotaErrors' \in 0 .. MaxQuotaErrors
        BY <1>0, <1>9 DEF QuotaRestart, QuotaTypeOK
    <2>2. work' \in [Workers -> Reconciling \cup {NoKey}] /\ watch' \in Seq(Nat)
        BY <1>9 DEF QuotaRestart
    <2> QED BY <1>9, <2>1, <2>2 DEF QuotaRestart, QuotaTypeOK
<1>10. CASE UNCHANGED quotaVars
    BY <1>10 DEF quotaVars, QuotaTypeOK
<1> QED
    BY <1>1, <1>2, <1>3, <1>4, <1>5, <1>6, <1>7, <1>8, <1>9, <1>10 DEF QuotaNext, Step

\* status.used is a number at all times, also of a namespace where no pod runs,
\* and workers reconcile keys of this namespace only, for any pods, requests
\* and number of workers.
THEOREM QuotaTypeCorrect ==
    QuotaSpec => []QuotaTypeOK
<1>1. QuotaInit => QuotaTypeOK
    BY ElasticQuotaAssumption DEF QuotaInit, QuotaTypeOK, Keys
<1>2. QuotaTypeOK /\ [QuotaNext]_quotaVars => QuotaTypeOK'
    BY QuotaTypeStep
<1> QED BY <1>1, <1>2, PTL DEF QuotaSpec

-----------------------------------------------------------------------------
(* A quota at rest is right *)

\* The last value the watch has to deliver, or else the one the cache has, is
\* that of the API server.
Delivered ==
    IF watch = << >> THEN seenUsed = used ELSE watch[Len(watch)] = used

\* While status.used is not the usage of the cached pods, somebody will
\* correct it: a key waits, an event is on its way that will enqueue one, or a
\* worker has read the value the cache has, or the usage, and not acted yet.
Followed ==
    \/ used = Usage(seen)
    \/ queue # {}
    \/ watch # << >>
    \/ \E w \in Workers :
         /\ work[w] # NoKey
         /\ \/ work[w].step = "pods" /\ work[w].old = seenUsed
            \/ work[w].step = "patch" /\ work[w].new = Usage(seen)

LEMMA FollowedStep ==
    ASSUME QuotaTypeOK, Delivered, Followed, [QuotaNext]_quotaVars
    PROVE  Delivered' /\ Followed'
<1>1. ASSUME NEW p \in QuotaPods, PodRuns(p) \/ PodEnds(p)
      PROVE  Delivered' /\ Followed'
    <2>1. UNCHANGED <<seen, used, seenUsed, watch, queue, work>>
        BY <1>1 DEF PodRuns, PodEnds
    <2> QED BY <2>1 DEF Delivered, Followed
<1>2. ASSUME NEW p \in QuotaPods, PodEvent(p)
      PROVE  Delivered' /\ Followed'
    BY <1>2 DEF PodEvent, Delivered, Followed
<1>3. CASE QuotaEvent
    <2>1. watch \in Seq(Nat) /\ watch # << >>
        BY <1>3 DEF QuotaEvent, QuotaTypeOK
    <2>2. /\ seenUsed' = watch[1] /\ watch' = Tail(watch) /\ used' = used
          /\ queue' # {}
        BY <1>3, <2>1 DEF QuotaEvent
    <2>3. CASE Len(watch) = 1
        BY <2>1, <2>2, <2>3 DEF Delivered, Followed
    <2>4. CASE Len(watch) # 1
        <3>1. Len(watch) \in Nat \ {0}
            BY <2>1, EmptySeq
        <3>2. Len(watch) > 1
            BY <2>4, <3>1
        <3>3. /\ Tail(watch) \in Seq(Nat) /\ Len(Tail(watch)) = Len(watch) - 1
              /\ \A i \in 1 .. Len(Tail(watch)) : Tail(watch)[i] = watch[i + 1]
            BY <2>1, HeadTailProperties
        <3>4. Tail(watch)[Len(Tail(watch))] = watch[Len(watch)]
            BY <3>1, <3>2, <3>3
        <3>5. Tail(watch) # << >>
            <4>1. Len(Tail(watch)) = Len(watch) - 1
                BY <3>3, Zenon
            <4>2. Len(Tail(watch)) # 0
                BY <3>1, <3>2, <4>1
            <4>3. Len(<< >>) = 0
                OBVIOUS
            <4> QED BY <4>2, <4>3, Zenon
        <3> QED BY <2>1, <2>2, <3>4, <3>5 DEF Delivered, Followed
    <2> QED BY <2>3, <2>4
<1>4. ASSUME NEW w \in Workers, NEW k \in Keys, ListQuotas(w, k)
      PROVE  Delivered' /\ Followed'
    <2> DEFINE r == [key |-> k, step |-> "pods", old |-> seenUsed, new |-> seenUsed]
    <2>1. r \in Reconciling
        BY DEF Reconciling, QuotaTypeOK, Keys
    <2>2. work' = [work EXCEPT ![w] = r] /\ UNCHANGED <<seen, used, seenUsed, watch>>
        BY <1>4 DEF ListQuotas
    <2>3. work'[w] = r /\ r # NoKey
        BY <2>1, <2>2, ElasticQuotaAssumption DEF QuotaTypeOK
    <2>4. work'[w] # NoKey /\ work'[w].step = "pods" /\ work'[w].old = seenUsed'
        BY <2>2, <2>3
    <2> QED BY <2>2, <2>4 DEF Delivered, Followed
<1>5. ASSUME NEW w \in Workers, ListPods(w)
      PROVE  Delivered' /\ Followed'
    <2> DEFINE sum == computeElasticQuotaUsed(seen)
               r == [work[w] EXCEPT !.step = "patch", !.new = sum]
    <2>1. sum \in Nat /\ sum = Usage(seen)
        BY UsageIsRequested DEF Usage, QuotaTypeOK
    <2>2. work[w] \in Reconciling /\ work[w] # NoKey /\ work[w].step = "pods"
        BY <1>5 DEF ListPods, QuotaTypeOK
    <2>3. /\ work' = [work EXCEPT ![w] = IF sum = work[w].old THEN NoKey ELSE r]
          /\ UNCHANGED <<seen, used, seenUsed, watch, queue>>
        BY <1>5 DEF ListPods
    <2>4. Usage(seen)' = Usage(seen)
        BY <2>3 DEF Usage, computeElasticQuotaUsed
    <2> HIDE DEF sum
    <2>5. r \in Reconciling /\ r # NoKey /\ r.step = "patch" /\ r.new = sum
        BY <2>1, <2>2, ElasticQuotaAssumption DEF Reconciling
    <2>6. work' \in [Workers -> Reconciling \cup {NoKey}] /\ \A v \in Workers \ {w} : work'[v] = work[v]
        BY <2>3, <2>5 DEF QuotaTypeOK
    <2>7. Delivered'
        BY <2>3 DEF Delivered
    <2>8. CASE sum # work[w].old
        <3>1. work'[w] = r
            BY <2>3, <2>8 DEF QuotaTypeOK
        <3> QED BY <2>1, <2>4, <2>5, <2>7, <3>1 DEF Followed
    <2>9. CASE sum = work[w].old
        <3>1. CASE watch = << >> /\ work[w].old = seenUsed
            BY <2>1, <2>3, <2>4, <2>7, <2>9, <3>1 DEF Delivered, Followed
        <3>2. CASE watch # << >>
            BY <2>3, <2>7, <3>2 DEF Followed
        <3>3. CASE work[w].old # seenUsed
            BY <2>2, <2>3, <2>4, <2>6, <2>7, <3>3 DEF Followed
        <3> QED BY <3>1, <3>2, <3>3
    <2> QED BY <2>8, <2>9
<1>6. ASSUME NEW w \in Workers, Patch(w)
      PROVE  Delivered' /\ Followed'
    <2>1. /\ work[w] \in Reconciling /\ work[w] # NoKey /\ work[w].step = "patch"
          /\ watch \in Seq(Nat) /\ used \in Nat
        BY <1>6 DEF Patch, QuotaTypeOK
    <2>2. /\ used' = work[w].new
          /\ watch' = IF used' # used THEN Append(watch, used') ELSE watch
          /\ work' = [work EXCEPT ![w] = NoKey]
          /\ UNCHANGED <<seen, seenUsed, queue>>
        BY <1>6 DEF Patch
    <2>3. Usage(seen)' = Usage(seen)
        BY <2>2 DEF Usage, computeElasticQuotaUsed
    <2>4. CASE used' # used
        <3>1. used' \in Nat
            BY <2>1, <2>2 DEF Reconciling
        <3>2. watch' # << >> /\ watch'[Len(watch')] = used'
            BY <2>1, <2>2, <2>4, <3>1
        <3> QED BY <3>2 DEF Delivered, Followed
    <2>5. CASE used' = used
        <3>1. Delivered'
            BY <2>2, <2>5 DEF Delivered
        <3>2. work \in [Workers -> Reconciling \cup {NoKey}] /\ \A v \in Workers \ {w} : work'[v] = work[v]
            BY <2>2 DEF QuotaTypeOK
        <3>3. CASE work[w].new = Usage(seen)
            BY <2>2, <2>3, <3>1, <3>3 DEF Followed
        <3>4. CASE work[w].new # Usage(seen)
            BY <2>1, <2>2, <2>3, <2>5, <3>1, <3>2, <3>4 DEF Followed
        <3> QED BY <3>3, <3>4
    <2> QED BY <2>4, <2>5
<1>7. ASSUME NEW w \in Workers, QuotaReconcileFails(w)
      PROVE  Delivered' /\ Followed'
    BY <1>7 DEF QuotaReconcileFails, Delivered, Followed
<1>8. CASE QuotaRestart
    BY <1>8 DEF QuotaRestart, Keys, Delivered, Followed
<1>9. CASE UNCHANGED quotaVars
    BY <1>9 DEF quotaVars, Delivered, Followed
<1> QED
    BY <1>1, <1>2, <1>3, <1>4, <1>5, <1>6, <1>7, <1>8, <1>9 DEF QuotaNext, Step

\* When the cache is up to date and no key, event or worker is left, status.used
\* is what the running pods request: however many workers reconciled the quota
\* at once from stale lists, and in whatever order their patches arrived.
THEOREM QuietQuotaIsRight ==
    QuotaSpec => []QuietIsRight
<1>1. QuotaInit => Delivered /\ Followed
    BY DEF QuotaInit, Delivered, Followed
<1>2. QuotaTypeOK /\ Delivered /\ Followed /\ [QuotaNext]_quotaVars => Delivered' /\ Followed'
    BY FollowedStep
<1>3. QuotaTypeOK /\ Followed => QuietIsRight
    <2> SUFFICES ASSUME QuotaTypeOK, Followed, Quiet
                 PROVE  used = Requested(running)
        BY DEF QuietIsRight
    <2>1. used = Usage(seen) /\ seen = running
        BY DEF Quiet, Followed
    <2> QED BY <2>1, UsageIsRequested DEF QuotaTypeOK
<1> QED BY <1>1, <1>2, <1>3, QuotaTypeCorrect, PTL DEF QuotaSpec
=============================================================================
