-------------------------- MODULE Preemption_proofs --------------------------
(***************************************************************************)
(* Proofs about SelectVictimsOnNode: the selection under way always knows  *)
(* which pods are on the copy of the node and what their quotas use, so    *)
(* it keeps the promise of VictimSelection; and no selection starts while  *)
(* a pod that was taken for its priority is still terminating.             *)
(*                                                                         *)
(* The definitions of the model that read conf are restated with the       *)
(* configuration as a parameter (Snap, Fit, Admit...), which makes them    *)
(* constant operators: what they say of a state and of the next one is     *)
(* then the same as long as conf does not change.                          *)
(***************************************************************************)
EXTENDS Preemption, Sums

USE PreemptionAssumption DEF Quota

-----------------------------------------------------------------------------
(* The model's definitions as constant operators *)

Snap(c, S) ==
    [n \in Namespaces |->
        IF c.quotas[n] = None THEN None
        ELSE [min |-> c.quotas[n].min, max |-> c.quotas[n].max,
              used |-> c.quotas[n].elsewhere + TotalReq[InNs(S, n)]]]
Fit(c, S) == TotalReq[S] + c.nominated.here + Preemptor.req <= c.capacity
Quoted(c, eq) == c.plugin = "capacity" /\ WithEQ(eq, Preemptor.ns)
Admit(c, eq, inEQ, all) ==
    Quoted(c, eq) =>
        /\ ~usedOverMaxWith(eq[Preemptor.ns], inEQ)
        /\ ~aggregatedUsedOverMinWith(eq, all)

\* Room for the preemptor alone, and for it and the other nominated pods.
Makes(c, eq, S) == Fit(c, S) /\ Admit(c, eq, Preemptor.req, Preemptor.req)
Keeps(c, eq, S) ==
    Fit(c, S) /\ Admit(c, eq, c.nominated.inEQ + Preemptor.req, c.nominated.all + Preemptor.req)

\* What makes a pod one the preemptor may take that neither the time nor the
\* usage of the quotas changes, and the whole condition.
Takable(c, p) ==
    IF c.plugin # "capacity" THEN Prio[p] < Preemptor.priority
    ELSE IF c.quotas[Preemptor.ns] = None
    THEN c.quotas[NsOf[p]] = None /\ Prio[p] < Preemptor.priority
    ELSE /\ c.quotas[NsOf[p]] # None
         /\ NsOf[p] = Preemptor.ns => Prio[p] < Preemptor.priority
MayTake(c, S, t, p) ==
    /\ Takable(c, p)
    /\ c.plugin # "capacity" => ~Protected(p, t)
    /\ c.plugin = "capacity" /\ c.quotas[Preemptor.ns] # None /\ NsOf[p] # Preemptor.ns =>
          usedOverMin(Snap(c, S)[NsOf[p]])

-----------------------------------------------------------------------------
(* The order of the pods and the sums of their requests *)

LEMMA LeastIn ==
    ASSUME NEW S \in SUBSET Pods, S # {}
    PROVE  Least(S) \in S
<1>1. IsFiniteSet(S)
    BY FS_Subset
<1>2. \A x \in S : Rank[x] \in Int
    OBVIOUS
<1>3. \E p \in S : \A q \in S : Rank[p] <= Rank[q]
    BY <1>1, <1>2, LeastValue
<1> QED BY <1>3, Zenon DEF Least

LEMMA MostIn ==
    ASSUME NEW S \in SUBSET Pods, S # {}
    PROVE  Most(S) \in S
<1>1. IsFiniteSet(S)
    BY FS_Subset
<1>2. \A x \in S : Rank[x] \in Int
    OBVIOUS
<1>3. \E p \in S : \A q \in S : Rank[p] >= Rank[q]
    BY <1>1, <1>2, GreatestValue
<1> QED BY <1>3, Zenon DEF Most

LEMMA TotalReqNat ==
    ASSUME NEW S \in SUBSET Pods
    PROVE  TotalReq[S] = SumFunctionOnSet(Req, S) /\ TotalReq[S] \in Nat /\ IsFiniteSet(S)
<1>1. IsFiniteSet(S)
    BY FS_Subset
<1>2. SumFunctionOnSet(Req, S) \in Nat
    BY <1>1, SumNat
<1> QED BY <1>1, <1>2 DEF TotalReq

LEMMA TotalReqAdd ==
    ASSUME NEW S \in SUBSET Pods, NEW p \in Pods \ S
    PROVE  TotalReq[S \cup {p}] = TotalReq[S] + Req[p]
<1>1. SumFunctionOnSet(Req, S \cup {p}) = Req[p] + SumFunctionOnSet(Req, S)
    <2>1. IsFiniteSet(S)
        BY TotalReqNat
    <2>2. p \notin S /\ \A y \in S \cup {p} : Req[y] \in Int
        OBVIOUS
    <2> QED BY <2>1, <2>2, SumAdd
<1>2. Req[p] \in Nat
    OBVIOUS
<1>3. S \cup {p} \in SUBSET Pods
    OBVIOUS
<1> QED BY <1>1, <1>2, <1>3, TotalReqNat

LEMMA TotalReqMono ==
    ASSUME NEW T \in SUBSET Pods, NEW S \in SUBSET T
    PROVE  TotalReq[S] <= TotalReq[T]
<1>1. S \in SUBSET Pods /\ T \ S \in SUBSET Pods
    OBVIOUS
<1>2. SumFunctionOnSet(Req, T) = SumFunctionOnSet(Req, S) + SumFunctionOnSet(Req, T \ S)
    BY TotalReqNat, SumSplit
<1> QED BY <1>1, <1>2, TotalReqNat

-----------------------------------------------------------------------------
(* The snapshot of a set of pods *)

LEMMA SnapType ==
    ASSUME NEW c \in Configs, NEW S \in SUBSET Pods
    PROVE  /\ Snap(c, S) \in Infos
           /\ \A n \in Namespaces :
                 /\ InNs(S, n) \in SUBSET Pods
                 /\ WithEQ(Snap(c, S), n) <=> c.quotas[n] # None
                 /\ c.quotas[n] # None =>
                       /\ Snap(c, S)[n].min = c.quotas[n].min
                       /\ Snap(c, S)[n].max = c.quotas[n].max
                       /\ Snap(c, S)[n].used = c.quotas[n].elsewhere + TotalReq[InNs(S, n)]
                       /\ Snap(c, S)[n].used \in Nat
                       /\ Snap(c, S)[n].min \in Nat /\ Snap(c, S)[n].max \in Nat
<1>1. ASSUME NEW n \in Namespaces
      PROVE  /\ InNs(S, n) \in SUBSET Pods
             /\ TotalReq[InNs(S, n)] \in Nat
             /\ c.quotas[n] # None => c.quotas[n] \in Quota
    <2>1. InNs(S, n) \in SUBSET Pods
        BY DEF InNs
    <2> QED BY <2>1, TotalReqNat
<1>2. ASSUME NEW n \in Namespaces, c.quotas[n] # None
      PROVE  /\ Snap(c, S)[n] = [min |-> c.quotas[n].min, max |-> c.quotas[n].max,
                                 used |-> c.quotas[n].elsewhere + TotalReq[InNs(S, n)]]
             /\ Snap(c, S)[n] \in [min : Nat, max : Nat, used : Nat]
             /\ Snap(c, S)[n] \in [min : Nat, max : Nat, used : Int]
             /\ Snap(c, S)[n] # None
    <2>1. Snap(c, S)[n] = [min |-> c.quotas[n].min, max |-> c.quotas[n].max,
                           used |-> c.quotas[n].elsewhere + TotalReq[InNs(S, n)]]
        BY <1>2 DEF Snap
    <2>2. Snap(c, S)[n] \in [min : Nat, max : Nat, used : Nat]
        BY <1>1, <1>2, <2>1
    <2>3. Snap(c, S)[n] \in [min : Nat, max : Nat, used : Int]
        BY <2>2
    <2> QED BY <2>1, <2>2, <2>3, DistinctAssumption
<1>3. \A n \in Namespaces : c.quotas[n] = None => Snap(c, S)[n] = None
    BY DEF Snap
<1>4. Snap(c, S) \in Infos
    <2>1. \A n \in Namespaces : Snap(c, S)[n] \in {None} \cup [min : Nat, max : Nat, used : Int]
        BY <1>2, <1>3, Zenon
    <2>2. Snap(c, S) = [n \in Namespaces |-> Snap(c, S)[n]]
        BY DEF Snap
    <2> HIDE DEF Snap
    <2> QED BY <2>1, <2>2 DEF Infos
<1>5. ASSUME NEW n \in Namespaces, c.quotas[n] # None
      PROVE  /\ Snap(c, S)[n].min = c.quotas[n].min
             /\ Snap(c, S)[n].max = c.quotas[n].max
             /\ Snap(c, S)[n].used = c.quotas[n].elsewhere + TotalReq[InNs(S, n)]
             /\ Snap(c, S)[n].used \in Nat
             /\ Snap(c, S)[n].min \in Nat /\ Snap(c, S)[n].max \in Nat
    <2>1. Snap(c, S)[n] = [min |-> c.quotas[n].min, max |-> c.quotas[n].max,
                           used |-> c.quotas[n].elsewhere + TotalReq[InNs(S, n)]]
        BY <1>2, <1>5
    <2>2. Snap(c, S)[n] \in [min : Nat, max : Nat, used : Nat]
        BY <1>2, <1>5
    <2> QED BY <2>1, <2>2
<1>6. \A n \in Namespaces : WithEQ(Snap(c, S), n) <=> c.quotas[n] # None
    BY <1>2, <1>3 DEF WithEQ
<1> QED BY <1>1, <1>4, <1>5, <1>6

LEMMA SnapMono ==
    ASSUME NEW c \in Configs, NEW T \in SUBSET Pods, NEW S \in SUBSET T,
           NEW n \in Namespaces, c.quotas[n] # None
    PROVE  Snap(c, S)[n].used <= Snap(c, T)[n].used
<1>1. InNs(T, n) \in SUBSET Pods /\ InNs(S, n) \in SUBSET InNs(T, n) /\ InNs(S, n) \in SUBSET Pods
    BY DEF InNs
<1>2. TotalReq[InNs(S, n)] <= TotalReq[InNs(T, n)]
    BY <1>1, TotalReqMono
<1>3. c.quotas[n].elsewhere \in Nat
    OBVIOUS
<1>4. S \in SUBSET Pods
    OBVIOUS
<1> QED BY <1>1, <1>2, <1>3, <1>4, SnapType, TotalReqNat

\* From S to T, what the pods of p's namespace request changes by an amount.
Differ(S, T, p, amount) ==
    \A n \in Namespaces :
        /\ n = NsOf[p] => TotalReq[InNs(T, n)] = TotalReq[InNs(S, n)] + amount
        /\ n # NsOf[p] => TotalReq[InNs(T, n)] = TotalReq[InNs(S, n)]

LEMMA SnapCharge ==
    ASSUME NEW c \in Configs, NEW S \in SUBSET Pods, NEW T \in SUBSET Pods, NEW p \in Pods,
           NEW amount \in Int, Differ(S, T, p, amount)
    PROVE  Charge(Snap(c, S), p, amount) = Snap(c, T)
<1> DEFINE N == NsOf[p]
<1>1. N \in Namespaces
    OBVIOUS
<1>2. \A n \in Namespaces :
          /\ n = N => TotalReq[InNs(T, n)] = TotalReq[InNs(S, n)] + amount
          /\ n # N => TotalReq[InNs(T, n)] = TotalReq[InNs(S, n)]
    BY DEF Differ
<1>3. CASE c.quotas[N] = None
    <2>1. Charge(Snap(c, S), p, amount) = Snap(c, S)
        BY <1>1, <1>3, SnapType DEF Charge
    <2>2. \A n \in Namespaces : Snap(c, S)[n] = Snap(c, T)[n]
        <3>1. \A n \in Namespaces : n # N => TotalReq[InNs(T, n)] = TotalReq[InNs(S, n)]
            BY <1>2
        <3> QED BY <1>3, <3>1 DEF Snap
    <2>3. Snap(c, S) = Snap(c, T)
        BY <2>2 DEF Snap
    <2> QED BY <2>1, <2>3
<1>4. CASE c.quotas[N] # None
    <2> DEFINE eq == Snap(c, S)
               new == [eq EXCEPT ![N].used = @ + amount]
    <2>1. Charge(eq, p, amount) = new
        BY <1>1, <1>4, SnapType DEF Charge
    <2>2. eq \in Infos
        BY SnapType
    <2>3. ASSUME NEW n \in Namespaces
          PROVE  new[n] = Snap(c, T)[n]
        <3>1. CASE n # N
            <4>1. TotalReq[InNs(T, n)] = TotalReq[InNs(S, n)]
                BY <1>2, <3>1
            <4>2. new[n] = eq[n]
                BY <2>2, <3>1 DEF Infos
            <4> HIDE DEF new
            <4> QED BY <4>1, <4>2 DEF Snap
        <3>2. CASE n = N
            <4>1. eq[n] = [min |-> c.quotas[n].min, max |-> c.quotas[n].max,
                           used |-> c.quotas[n].elsewhere + TotalReq[InNs(S, n)]]
                BY <1>4, <3>2 DEF Snap
            <4>2. new[n] = [eq[n] EXCEPT !.used = @ + amount]
                BY <1>1, <2>2, <3>2 DEF Infos
            <4>3. new[n] = [min |-> c.quotas[n].min, max |-> c.quotas[n].max,
                            used |-> c.quotas[n].elsewhere + TotalReq[InNs(S, n)] + amount]
                <5> HIDE DEF eq, new
                <5> QED BY <4>1, <4>2
            <4>4. Snap(c, T)[n] = [min |-> c.quotas[n].min, max |-> c.quotas[n].max,
                                   used |-> c.quotas[n].elsewhere + TotalReq[InNs(T, n)]]
                BY <1>4, <3>2 DEF Snap
            <4>5. TotalReq[InNs(S, n)] \in Nat /\ c.quotas[n].elsewhere \in Nat
                BY <1>4, <3>2, SnapType, TotalReqNat
            <4>6. c.quotas[n].elsewhere + TotalReq[InNs(S, n)] + amount = c.quotas[n].elsewhere + TotalReq[InNs(T, n)]
                <5>1. TotalReq[InNs(T, n)] = TotalReq[InNs(S, n)] + amount
                    BY <1>2, <3>2
                <5> QED BY <1>1, <4>5, <5>1
            <4> QED BY <4>3, <4>4, <4>6
        <3> QED BY <3>1, <3>2
    <2>4. new = [n \in Namespaces |-> new[n]] /\ Snap(c, T) = [n \in Namespaces |-> Snap(c, T)[n]]
        BY <2>2 DEF Infos, Snap
    <2>5. new = Snap(c, T)
        <3> HIDE DEF new
        <3> QED BY <2>3, <2>4
    <2> QED BY <2>1, <2>5
<1> QED BY <1>3, <1>4

\* AddPod and RemovePod keep the quotas of a cycle equal to the snapshot of the
\* pods that are on the copy.
LEMMA SnapAdd ==
    ASSUME NEW c \in Configs, NEW S \in SUBSET Pods, NEW p \in Pods \ S
    PROVE  AddPod(Snap(c, S), p) = Snap(c, S \cup {p})
<1>1. ASSUME NEW n \in Namespaces
      PROVE  /\ n = NsOf[p] => TotalReq[InNs(S \cup {p}, n)] = TotalReq[InNs(S, n)] + Req[p]
             /\ n # NsOf[p] => TotalReq[InNs(S \cup {p}, n)] = TotalReq[InNs(S, n)]
    <2>1. CASE n = NsOf[p]
        <3>1. InNs(S \cup {p}, n) = InNs(S, n) \cup {p} /\ p \in Pods \ InNs(S, n)
            BY <2>1 DEF InNs
        <3>2. InNs(S, n) \in SUBSET Pods
            BY DEF InNs
        <3> QED BY <2>1, <3>1, <3>2, TotalReqAdd
    <2>2. CASE n # NsOf[p]
        <3>1. InNs(S \cup {p}, n) = InNs(S, n)
            BY <2>2 DEF InNs
        <3> QED BY <2>2, <3>1
    <2> QED BY <2>1, <2>2
<1> DEFINE T == S \cup {p}
           amount == Req[p]
<1>2. T \in SUBSET Pods /\ amount \in Int
    OBVIOUS
<1> HIDE DEF T, amount
<1>3. Charge(Snap(c, S), p, amount) = Snap(c, T)
    <2>1. Differ(S, T, p, amount)
        BY <1>1 DEF Differ, T, amount
    <2> QED BY <1>2, <2>1, SnapCharge
<1> QED BY <1>3 DEF AddPod, T, amount

LEMMA SnapRemove ==
    ASSUME NEW c \in Configs, NEW S \in SUBSET Pods, NEW p \in S
    PROVE  RemovePod(Snap(c, S), p) = Snap(c, S \ {p})
<1> DEFINE T == S \ {p}
           amount == -Req[p]
<1>1. T \in SUBSET Pods /\ amount \in Int /\ Req[p] \in Nat
    OBVIOUS
<1>2. ASSUME NEW n \in Namespaces
      PROVE  /\ n = NsOf[p] => TotalReq[InNs(T, n)] = TotalReq[InNs(S, n)] + amount
             /\ n # NsOf[p] => TotalReq[InNs(T, n)] = TotalReq[InNs(S, n)]
    <2>1. CASE n = NsOf[p]
        <3>1. InNs(S, n) = InNs(T, n) \cup {p} /\ p \in Pods \ InNs(T, n)
            BY <2>1 DEF InNs
        <3>2. InNs(T, n) \in SUBSET Pods /\ InNs(S, n) \in SUBSET Pods
            BY DEF InNs
        <3>3. TotalReq[InNs(S, n)] = TotalReq[InNs(T, n)] + Req[p]
            BY <3>1, <3>2, TotalReqAdd
        <3>4. TotalReq[InNs(T, n)] \in Nat
            BY <3>2, TotalReqNat
        <3> HIDE DEF T
        <3> QED BY <1>1, <2>1, <3>3, <3>4
    <2>2. CASE n # NsOf[p]
        <3>1. InNs(T, n) = InNs(S, n)
            BY <2>2 DEF InNs
        <3> QED BY <2>2, <3>1
    <2> QED BY <2>1, <2>2
<1> HIDE DEF T, amount
<1>3. Charge(Snap(c, S), p, amount) = Snap(c, T)
    <2>1. Differ(S, T, p, amount)
        BY <1>2 DEF Differ
    <2> QED BY <1>1, <2>1, SnapCharge
<1> QED BY <1>3 DEF RemovePod, T, amount

-----------------------------------------------------------------------------
(* Fewer pods and smaller requests are admitted more easily *)

LEMMA FitMono ==
    ASSUME NEW c \in Configs, NEW T \in SUBSET Pods, NEW S \in SUBSET T, Fit(c, T)
    PROVE  Fit(c, S)
<1>1. TotalReq[S] <= TotalReq[T] /\ TotalReq[S] \in Nat /\ TotalReq[T] \in Nat
    <2>1. S \in SUBSET Pods
        OBVIOUS
    <2> QED BY <2>1, TotalReqMono, TotalReqNat
<1>2. c.nominated.here \in Nat /\ Preemptor.req \in Nat /\ c.capacity \in Nat
    OBVIOUS
<1> QED BY <1>1, <1>2 DEF Fit

LEMMA AdmitMono ==
    ASSUME NEW c \in Configs, NEW T \in SUBSET Pods, NEW S \in SUBSET T,
           NEW inEQ \in Nat, NEW all \in Nat, NEW inEQ2 \in Nat, NEW all2 \in Nat,
           inEQ <= inEQ2, all <= all2, Admit(c, Snap(c, T), inEQ2, all2)
    PROVE  Admit(c, Snap(c, S), inEQ, all)
<1> DEFINE ns == Preemptor.ns
           Q == {n \in Namespaces : c.quotas[n] # None}
           Used(V) == [n \in Q |-> Snap(c, V)[n].used]
           Min(V) == [n \in Q |-> Snap(c, V)[n].min]
<1>1. ns \in Namespaces /\ S \in SUBSET Pods
    OBVIOUS
<1>2. SUFFICES ASSUME c.plugin = "capacity", c.quotas[ns] # None
      PROVE  /\ ~usedOverMaxWith(Snap(c, S)[ns], inEQ)
             /\ ~aggregatedUsedOverMinWith(Snap(c, S), all)
    BY <1>1, SnapType DEF Admit, Quoted
<1>3. ~usedOverMaxWith(Snap(c, T)[ns], inEQ2) /\ ~aggregatedUsedOverMinWith(Snap(c, T), all2)
    BY <1>1, <1>2, SnapType DEF Admit, Quoted
<1>4. ~usedOverMaxWith(Snap(c, S)[ns], inEQ)
    <2> DEFINE u == Snap(c, S)[ns].used
               v == Snap(c, T)[ns].used
               m == Snap(c, T)[ns].max
    <2>1. u \in Nat /\ v \in Nat /\ m \in Nat /\ Snap(c, S)[ns].max = m
        BY <1>1, <1>2, SnapType
    <2>2. u <= v
        BY <1>1, <1>2, SnapMono
    <2>3. ~ (v + inEQ2 > m)
        BY <1>3 DEF usedOverMaxWith
    <2> HIDE DEF u, v, m
    <2>4. ~ (u + inEQ > m)
        BY <2>1, <2>2, <2>3
    <2> QED BY <2>1, <2>4 DEF usedOverMaxWith, u
<1>5. IsFiniteSet(Q)
    BY FS_Subset
<1>6. ASSUME NEW V \in SUBSET Pods, NEW request \in Nat
      PROVE  /\ aggregatedUsedOverMinWith(Snap(c, V), request) <=>
                   SumFunctionOnSet(Used(V), Q) + request > SumFunctionOnSet(Min(V), Q)
             /\ SumFunctionOnSet(Used(V), Q) \in Int
             /\ SumFunctionOnSet(Min(V), Q) \in Int
    <2>1. {n \in Namespaces : WithEQ(Snap(c, V), n)} = Q
        BY SnapType
    <2>2. \A n \in Q : Used(V)[n] \in Int /\ Min(V)[n] \in Int
        BY SnapType
    <2>3. SumFunctionOnSet(Used(V), Q) \in Int /\ SumFunctionOnSet(Min(V), Q) \in Int
        BY <1>5, <2>2, SumInt
    <2> QED BY <2>1, <2>3 DEF aggregatedUsedOverMinWith
<1>7. SumFunctionOnSet(Used(S), Q) <= SumFunctionOnSet(Used(T), Q)
    <2>1. ASSUME NEW n \in Q
          PROVE  Used(S)[n] \in Int /\ Used(T)[n] \in Int /\ Used(S)[n] <= Used(T)[n]
        <3>1. Snap(c, S)[n].used \in Nat /\ Snap(c, T)[n].used \in Nat
            BY <1>1, SnapType
        <3>2. Snap(c, S)[n].used <= Snap(c, T)[n].used
            BY SnapMono
        <3> QED BY <3>1, <3>2
    <2> QED BY <1>5, <2>1, SumMono
<1>8. SumFunctionOnSet(Min(S), Q) = SumFunctionOnSet(Min(T), Q)
    <2>1. Min(S) = Min(T)
        BY <1>1, SnapType
    <2> QED BY <2>1
<1> HIDE DEF Used, Min, Q, ns
<1>9. ~aggregatedUsedOverMinWith(Snap(c, S), all)
    BY <1>1, <1>3, <1>6, <1>7, <1>8
<1> QED BY <1>4, <1>9

\* Room for the preemptor and the nominated pods is room for the preemptor.
LEMMA KeepsMakes ==
    ASSUME NEW c \in Configs, NEW S \in SUBSET Pods, Keeps(c, Snap(c, S), S)
    PROVE  Makes(c, Snap(c, S), S)
<1> DEFINE r == Preemptor.req
           inEQ == c.nominated.inEQ + r
           all == c.nominated.all + r
<1>1. r \in Nat /\ inEQ \in Nat /\ all \in Nat /\ r <= inEQ /\ r <= all /\ S \in SUBSET S
    OBVIOUS
<1>2. Fit(c, S) /\ Admit(c, Snap(c, S), inEQ, all)
    BY DEF Keeps
<1> HIDE DEF r, inEQ, all
<1>3. Admit(c, Snap(c, S), r, r)
    BY <1>1, <1>2, AdmitMono
<1> QED BY <1>2, <1>3 DEF Makes, r

\* What there is no room for, there is no room for with more pods.
LEMMA KeepsMono ==
    ASSUME NEW c \in Configs, NEW T \in SUBSET Pods, NEW S \in SUBSET T, Keeps(c, Snap(c, T), T)
    PROVE  Keeps(c, Snap(c, S), S)
<1> DEFINE inEQ == c.nominated.inEQ + Preemptor.req
           all == c.nominated.all + Preemptor.req
<1>1. inEQ \in Nat /\ all \in Nat /\ inEQ <= inEQ /\ all <= all
    OBVIOUS
<1>2. Fit(c, T) /\ Admit(c, Snap(c, T), inEQ, all)
    BY DEF Keeps
<1>3. Fit(c, S)
    BY <1>2, FitMono
<1> HIDE DEF inEQ, all
<1>4. Admit(c, Snap(c, S), inEQ, all)
    BY <1>1, <1>2, AdmitMono
<1> QED BY <1>3, <1>4 DEF Keeps, inEQ, all

-----------------------------------------------------------------------------
(* The invariant of a selection: the record s that SelectVictimsOnNode keeps *)

\* The test of the first loop.
IsVictim(c, s, p) ==
    IF c.plugin = "capacity"
    THEN IF Quoted(c, s.eq)
         THEN /\ WithEQ(s.eq, NsOf[p])
              /\ IF s.moreThanMin THEN NsOf[p] = Preemptor.ns /\ Prio[p] < Preemptor.priority
                 ELSE NsOf[p] # Preemptor.ns /\ usedOverMin(s.eq[NsOf[p]])
         ELSE ~WithEQ(s.eq, NsOf[p]) /\ Prio[p] < Preemptor.priority
    ELSE ~ClassMissing(p) /\ TolerationVictim(p, s.curTime)

\* In the first loop the copy holds all but the potential victims.
Removing(s) ==
    /\ s.node = s.on \ s.potential
    /\ s.potential \cap s.left = {}
    /\ s.victims = {}

\* In the second one it holds all but the victims and those still to be tried;
\* the preemptor fits, and with any victim back it would not.
Reprieving(c, s) ==
    /\ s.left \subseteq s.potential
    /\ s.victims \subseteq s.potential
    /\ s.victims \cap s.left = {}
    /\ s.node = s.on \ (s.victims \cup s.left)
    /\ Makes(c, Snap(c, s.node), s.node)
    /\ \A v \in s.victims : ~Keeps(c, Snap(c, s.node \cup {v}), s.node \cup {v})

\* The pod of another quota that was removed last was one too many: without it
\* the quota is less than its request short of its min.
LastOne(c, s, n, l) ==
    /\ l \notin s.node => Snap(c, s.node)[n].used + Req[l] > Snap(c, s.node)[n].min
    /\ l \in s.node => Snap(c, s.node)[n].used > Snap(c, s.node)[n].min
Borrowing(c, s) ==
    c.plugin = "capacity" /\ c.quotas[Preemptor.ns] # None =>
        \A n \in Namespaces \ {Preemptor.ns} :
            InNs(s.potential, n) # {} => \E l \in InNs(s.potential, n) : LastOne(c, s, n, l)

Sound(c, s) ==
    /\ s \in Selections
    /\ s.left \subseteq s.on /\ s.node \subseteq s.on /\ s.potential \subseteq s.on
    /\ s.eq = Snap(c, s.node)
    /\ \A p \in s.potential : MayTake(c, s.on, s.curTime, p)
    /\ s.step = "remove" => Removing(s)
    /\ s.step = "reprieve" => Reprieving(c, s)
    /\ Borrowing(c, s)

LEMMA StartSound ==
    ASSUME NEW c \in Configs, NEW S \in SUBSET Pods, NEW t \in Nat, NEW more \in BOOLEAN
    PROVE  Sound(c, [step |-> "remove", left |-> S, on |-> S, node |-> S, eq |-> Snap(c, S),
                     curTime |-> t, moreThanMin |-> more, potential |-> {}, violating |-> {},
                     victims |-> {}, count |-> 0])
<1> DEFINE s == [step |-> "remove", left |-> S, on |-> S, node |-> S, eq |-> Snap(c, S),
                 curTime |-> t, moreThanMin |-> more, potential |-> {}, violating |-> {},
                 victims |-> {}, count |-> 0]
<1>1. Snap(c, S) \in Infos
    BY SnapType
<1>2. s \in Selections
    BY <1>1 DEF Selections
<1>3. Borrowing(c, s)
    BY DEF Borrowing, InNs
<1> QED BY <1>2, <1>3 DEF Sound, Removing

\* A pod that is left on the copy.
LEMMA SkipSound ==
    ASSUME NEW c \in Configs, NEW s, Sound(c, s), s.step = "remove", NEW p \in s.left
    PROVE  Sound(c, [s EXCEPT !.left = @ \ {p}])
<1> DEFINE u == [s EXCEPT !.left = @ \ {p}]
<1>1. /\ u \in Selections
      /\ u.left = s.left \ {p} /\ u.on = s.on /\ u.node = s.node /\ u.potential = s.potential
      /\ u.victims = s.victims /\ u.eq = s.eq /\ u.curTime = s.curTime /\ u.step = s.step
    BY DEF Sound, Selections
<1> HIDE DEF u
<1>2. Removing(u)
    BY <1>1 DEF Sound, Removing
<1>3. Borrowing(c, u)
    BY <1>1 DEF Sound, Borrowing, LastOne
<1> QED BY <1>1, <1>2, <1>3 DEF Sound, u

LEMMA SmallerRemainder ==
    ASSUME NEW a \in Nat, NEW b \in Nat, a < b
    PROVE  a % b = a
<1>1. b \in Nat \ {0}
    OBVIOUS
<1> DEFINE q == a \div b
           r == a % b
<1>2. q \in Int /\ r \in Int /\ 0 <= r /\ r < b /\ a = b * q + r
    BY <1>1
<1> HIDE DEF q, r
<1>3. q = 0
    <2>1. \A x \in Int : b * x \in Int /\ (x >= 1 => b * x >= b) /\ (x <= -1 => b * x <= -b)
        BY <1>1
    <2> DEFINE m == b * q
    <2>2. m \in Int /\ (q >= 1 => m >= b) /\ (q <= -1 => m <= -b) /\ a = m + r
        BY <1>2, <2>1, Zenon
    <2> HIDE DEF m
    <2> QED BY <1>1, <1>2, <2>2
<1>4. b * 0 = 0
    BY <1>1
<1>5. a = 0 + r
    BY <1>2, <1>3, <1>4, Zenon
<1>6. r = a
    BY <1>2, <1>5
<1> QED BY <1>6 DEF r

\* The annotations of a class protect its pods: a toleration time that a
\* Duration can hold is not changed by the conversion.
LEMMA ProtectedExempt ==
    ASSUME NEW p \in Pods, NEW t \in Nat, Protected(p, t)
    PROVE  ExemptedFromPreemption(Class[p], ScheduledAt[p], Preemptor.priority, t)
<1> DEFINE pc == Class[p]
           minimum == pc.minimumPreemptablePriority
           seconds == pc.tolerationSeconds
<1>1. /\ pc \in PriorityClass /\ minimum # Invalid /\ seconds \notin {Invalid, Unset}
      /\ Preemptor.priority < IF minimum = Unset THEN pc.value + 1 ELSE minimum
      /\ \/ seconds < 0
         \/ ScheduledAt[p] = Unset
         \/ seconds <= MaxDuration /\ t < ScheduledAt[p] + seconds
    BY DEF Protected
<1>2. pc.value \in Int /\ minimum \in Int \cup {Unset} /\ seconds \in Int
    BY <1>1 DEF PriorityClass, Annotation
<1> DEFINE policy == [minimum |-> IF minimum = Unset THEN pc.value + 1 ELSE minimum,
                      seconds |-> seconds]
<1>3. parsePreemptionTolerationPolicy(pc) = policy
    BY <1>1 DEF parsePreemptionTolerationPolicy
<1>4. policy \in [minimum : Int, seconds : Int]
    BY <1>2
<1>5. policy # Invalid
    BY <1>4, DistinctAssumption
<1>6. \/ seconds < 0
      \/ ScheduledAt[p] = Unset
      \/ ScheduledAt[p] + Duration(seconds) > t
    <2>1. SUFFICES ASSUME ~ (seconds < 0), ScheduledAt[p] # Unset
          PROVE  ScheduledAt[p] + Duration(seconds) > t
        OBVIOUS
    <2>2. seconds <= MaxDuration /\ t < ScheduledAt[p] + seconds /\ 0 <= seconds
        BY <1>1, <1>2, <2>1
    <2>3. Duration(seconds) = seconds
        <3> DEFINE a == seconds + MaxDuration + 1
                   b == 2 * (MaxDuration + 1)
        <3>1. a \in Nat /\ b \in Nat /\ a < b
            BY <1>2, <2>2
        <3>2. Duration(seconds) = (a % b) - MaxDuration - 1
            BY DEF Duration
        <3>3. a - MaxDuration - 1 = seconds
            BY <1>2
        <3> HIDE DEF a, b
        <3>4. a % b = a
            BY <3>1, SmallerRemainder, Zenon
        <3> QED BY <3>2, <3>3, <3>4
    <2> QED BY <2>2, <2>3
<1> HIDE DEF pc, minimum, seconds
<1> QED BY <1>1, <1>3, <1>5, <1>6 DEF ExemptedFromPreemption, pc, minimum, seconds

\* A pod that passes the test may be taken: what its quota uses now it used at
\* least on the snapshot.
LEMMA VictimMayBeTaken ==
    ASSUME NEW c \in Configs, NEW s, Sound(c, s), NEW p \in s.on, IsVictim(c, s, p)
    PROVE  /\ MayTake(c, s.on, s.curTime, p)
           /\ c.plugin = "capacity" /\ c.quotas[Preemptor.ns] # None /\ NsOf[p] # Preemptor.ns =>
                 usedOverMin(Snap(c, s.node)[NsOf[p]])
<1> DEFINE n == NsOf[p]
<1>1. /\ s.on \in SUBSET Pods /\ s.node \in SUBSET s.on /\ s.node \in SUBSET Pods
      /\ p \in Pods /\ s.curTime \in Nat /\ s.eq = Snap(c, s.node)
    BY DEF Sound, Selections
<1>2. n \in Namespaces /\ Preemptor.ns \in Namespaces
    BY <1>1
<1>3. /\ WithEQ(s.eq, n) <=> c.quotas[n] # None
      /\ WithEQ(s.eq, Preemptor.ns) <=> c.quotas[Preemptor.ns] # None
    BY <1>1, <1>2, SnapType
<1>4. CASE c.plugin # "capacity"
    <2>1. Prio[p] < Preemptor.priority /\ ~ClassMissing(p) /\ TolerationVictim(p, s.curTime)
        BY <1>4 DEF IsVictim, TolerationVictim
    <2>2. ~Protected(p, s.curTime)
        <3>1. SUFFICES ASSUME Protected(p, s.curTime) PROVE FALSE
            OBVIOUS
        <3>2. ExemptedFromPreemption(Class[p], ScheduledAt[p], Preemptor.priority, s.curTime)
            BY <1>1, <3>1, ProtectedExempt
        <3>3. Class[p] # Unset
            BY <3>1 DEF Protected
        <3> QED BY <2>1, <3>2, <3>3 DEF TolerationVictim
    <2> QED BY <1>4, <2>1, <2>2 DEF MayTake, Takable
<1>5. CASE c.plugin = "capacity" /\ c.quotas[Preemptor.ns] = None
    BY <1>3, <1>5 DEF IsVictim, Quoted, MayTake, Takable
<1>6. CASE c.plugin = "capacity" /\ c.quotas[Preemptor.ns] # None
    <2>1. Quoted(c, s.eq)
        BY <1>3, <1>6 DEF Quoted
    <2>2. c.quotas[n] # None
        BY <1>3, <1>6, <2>1 DEF IsVictim
    <2>3. Takable(c, p)
        BY <1>6, <2>1, <2>2 DEF IsVictim, Takable
    <2>4. ASSUME n # Preemptor.ns
          PROVE  usedOverMin(Snap(c, s.node)[n]) /\ usedOverMin(Snap(c, s.on)[n])
        <3>1. usedOverMin(Snap(c, s.node)[n])
            BY <1>1, <1>6, <2>1, <2>4 DEF IsVictim
        <3> DEFINE now0 == Snap(c, s.node)[n]
                   then == Snap(c, s.on)[n]
        <3>2. /\ now0.used \in Nat /\ now0.min \in Nat /\ then.used \in Nat
              /\ then.min = now0.min
            BY <1>1, <1>2, <2>2, SnapType
        <3>3. now0.used <= then.used
            BY <1>1, <1>2, <2>2, SnapMono
        <3> HIDE DEF now0, then
        <3>4. usedOverMin(then)
            BY <3>1, <3>2, <3>3 DEF usedOverMin, now0
        <3> QED BY <3>1, <3>4 DEF then
    <2> QED BY <1>6, <2>3, <2>4 DEF MayTake
<1> QED BY <1>4, <1>5, <1>6

\* A potential victim that leaves the copy.
LEMMA RemoveSound ==
    ASSUME NEW c \in Configs, NEW s, Sound(c, s), s.step = "remove", NEW p \in s.left,
           IsVictim(c, s, p)
    PROVE  Sound(c, [s EXCEPT !.left = @ \ {p}, !.node = @ \ {p}, !.eq = RemovePod(@, p),
                              !.potential = @ \cup {p}])
<1> DEFINE u == [s EXCEPT !.left = @ \ {p}, !.node = @ \ {p}, !.eq = RemovePod(@, p),
                          !.potential = @ \cup {p}]
<1>1. /\ s \in Selections /\ s.on \in SUBSET Pods /\ s.node \in SUBSET Pods /\ p \in Pods
      /\ p \in s.node /\ p \in s.on /\ s.eq = Snap(c, s.node) /\ s.node \ {p} \in SUBSET Pods
    BY DEF Sound, Selections, Removing
<1>2. RemovePod(s.eq, p) = Snap(c, s.node \ {p}) /\ RemovePod(s.eq, p) \in Infos
    <2>1. RemovePod(Snap(c, s.node), p) = Snap(c, s.node \ {p})
        BY <1>1, SnapRemove
    <2>2. Snap(c, s.node \ {p}) \in Infos
        BY <1>1, SnapType
    <2> QED BY <1>1, <2>1, <2>2
<1>3. /\ u \in Selections
      /\ u.left = s.left \ {p} /\ u.on = s.on /\ u.node = s.node \ {p}
      /\ u.potential = s.potential \cup {p}
      /\ u.victims = s.victims /\ u.eq = RemovePod(s.eq, p) /\ u.curTime = s.curTime
      /\ u.step = s.step
    BY <1>1, <1>2 DEF Selections
<1> HIDE DEF u
<1>4. Removing(u)
    BY <1>1, <1>3 DEF Sound, Removing
<1>5. \A q \in u.potential : MayTake(c, u.on, u.curTime, q)
    BY <1>1, <1>3, VictimMayBeTaken DEF Sound
<1>6. Borrowing(c, u)
    <2>1. SUFFICES ASSUME c.plugin = "capacity", c.quotas[Preemptor.ns] # None,
                          NEW n \in Namespaces \ {Preemptor.ns}, InNs(u.potential, n) # {}
          PROVE  \E l \in InNs(u.potential, n) : LastOne(c, u, n, l)
        BY DEF Borrowing
    <2>2. CASE n = NsOf[p]
        <3>1. p \in InNs(u.potential, n) /\ p \notin u.node
            BY <1>1, <1>3, <2>2 DEF InNs
        <3>2. usedOverMin(Snap(c, s.node)[n])
            BY <1>1, <2>1, <2>2, VictimMayBeTaken
        <3>3. c.quotas[n] # None
            <4>1. Takable(c, p)
                BY <1>1, VictimMayBeTaken DEF MayTake
            <4> QED BY <2>1, <2>2, <4>1 DEF Takable
        <3> DEFINE T == s.node \ {p}
        <3>4. /\ Snap(c, s.node)[n].used = c.quotas[n].elsewhere + TotalReq[InNs(s.node, n)]
              /\ Snap(c, T)[n].used = c.quotas[n].elsewhere + TotalReq[InNs(T, n)]
              /\ Snap(c, s.node)[n].min = Snap(c, T)[n].min
            BY <1>1, <3>3, SnapType
        <3>5. TotalReq[InNs(s.node, n)] = TotalReq[InNs(T, n)] + Req[p]
            <4>1. InNs(s.node, n) = InNs(T, n) \cup {p} /\ p \in Pods \ InNs(T, n)
                BY <1>1, <2>2 DEF InNs
            <4>2. InNs(T, n) \in SUBSET Pods
                BY <1>1 DEF InNs
            <4> QED BY <4>1, <4>2, TotalReqAdd
        <3>6. /\ TotalReq[InNs(T, n)] \in Nat /\ Req[p] \in Nat /\ c.quotas[n].elsewhere \in Nat
              /\ Snap(c, T)[n].min \in Nat
            <4>1. InNs(T, n) \in SUBSET Pods
                BY <1>1 DEF InNs
            <4> QED BY <1>1, <3>3, <4>1, TotalReqNat, SnapType
        <3> HIDE DEF T
        <3>7. Snap(c, T)[n].used + Req[p] > Snap(c, T)[n].min
            BY <3>2, <3>4, <3>5, <3>6 DEF usedOverMin
        <3>8. LastOne(c, u, n, p)
            BY <1>3, <3>1, <3>7 DEF LastOne, T
        <3> QED BY <3>1, <3>8
    <2>3. CASE n # NsOf[p]
        <3>1. InNs(u.potential, n) = InNs(s.potential, n) /\ InNs(u.node, n) = InNs(s.node, n)
            BY <1>3, <2>3 DEF InNs
        <3>2. PICK l \in InNs(s.potential, n) : LastOne(c, s, n, l)
            BY <2>1, <3>1 DEF Sound, Borrowing
        <3>3. Snap(c, u.node)[n] = Snap(c, s.node)[n]
            BY <3>1 DEF Snap
        <3>4. l # p
            BY <2>3, <3>2 DEF InNs
        <3>5. LastOne(c, u, n, l)
            BY <1>3, <3>2, <3>3, <3>4 DEF LastOne
        <3> QED BY <3>1, <3>2, <3>5
    <2> QED BY <2>2, <2>3
<1>7. u.left \subseteq u.on /\ u.node \subseteq u.on /\ u.potential \subseteq u.on
    BY <1>1, <1>3 DEF Sound
<1>8. u.step = "remove" /\ u.eq = Snap(c, u.node)
    BY <1>1, <1>2, <1>3
<1>9. Sound(c, u)
    BY <1>3, <1>4, <1>5, <1>6, <1>7, <1>8 DEF Sound
<1> QED BY <1>9 DEF u

\* The end of the first loop: the second one starts with all of the potential
\* victims off the copy.
LEMMA CheckSound ==
    ASSUME NEW c \in Configs, NEW s, Sound(c, s), s.step = "remove",
           Makes(c, s.eq, s.node), NEW V \in SUBSET Pods
    PROVE  Sound(c, [s EXCEPT !.step = "reprieve", !.left = s.potential, !.violating = V])
<1> DEFINE u == [s EXCEPT !.step = "reprieve", !.left = s.potential, !.violating = V]
<1>1. /\ s \in Selections /\ u \in Selections
      /\ u.left = s.potential /\ u.on = s.on /\ u.node = s.node /\ u.potential = s.potential
      /\ u.victims = s.victims /\ u.eq = s.eq /\ u.curTime = s.curTime /\ u.step = "reprieve"
    BY DEF Sound, Selections
<1> HIDE DEF u
<1>2. Reprieving(c, u)
    BY <1>1 DEF Sound, Removing, Reprieving
<1>3. Borrowing(c, u)
    BY <1>1 DEF Sound, Borrowing, LastOne
<1>4. Sound(c, u)
    BY <1>1, <1>2, <1>3 DEF Sound
<1> QED BY <1>4 DEF u

\* A pod that is reprieved: the copy, and with it what its quota uses, grows.
LEMMA KeepSound ==
    ASSUME NEW c \in Configs, NEW s, Sound(c, s), s.step = "reprieve", NEW p \in s.left,
           Keeps(c, AddPod(s.eq, p), s.node \cup {p})
    PROVE  Sound(c, [s EXCEPT !.left = @ \ {p}, !.node = @ \cup {p}, !.eq = AddPod(s.eq, p)])
<1> DEFINE u == [s EXCEPT !.left = @ \ {p}, !.node = @ \cup {p}, !.eq = AddPod(s.eq, p)]
           T == s.node \cup {p}
<1>1. /\ s \in Selections /\ s.on \in SUBSET Pods /\ s.node \in SUBSET Pods /\ p \in Pods
      /\ p \in Pods \ s.node /\ p \in s.on /\ s.eq = Snap(c, s.node)
      /\ T \in SUBSET Pods /\ s.node \in SUBSET T
    BY DEF Sound, Selections, Reprieving
<1>2. AddPod(s.eq, p) = Snap(c, T) /\ AddPod(s.eq, p) \in Infos
    <2>1. AddPod(Snap(c, s.node), p) = Snap(c, T)
        BY <1>1, SnapAdd
    <2>2. Snap(c, T) \in Infos
        BY <1>1, SnapType
    <2> QED BY <1>1, <2>1, <2>2
<1>3. /\ u \in Selections
      /\ u.left = s.left \ {p} /\ u.on = s.on /\ u.node = T /\ u.potential = s.potential
      /\ u.victims = s.victims /\ u.eq = Snap(c, T) /\ u.curTime = s.curTime
      /\ u.step = "reprieve"
    BY <1>1, <1>2 DEF Selections
<1>4. Makes(c, Snap(c, T), T)
    BY <1>1, <1>2, KeepsMakes
<1>5. ASSUME NEW v \in s.victims
      PROVE  ~Keeps(c, Snap(c, T \cup {v}), T \cup {v})
    <2>1. s.node \cup {v} \in SUBSET (T \cup {v}) /\ T \cup {v} \in SUBSET Pods
        BY <1>1 DEF Selections
    <2>2. ~Keeps(c, Snap(c, s.node \cup {v}), s.node \cup {v})
        BY DEF Sound, Reprieving
    <2> HIDE DEF T
    <2> QED BY <2>1, <2>2, KeepsMono
<1>6. Reprieving(c, u)
    <2>1. u.node = u.on \ (u.victims \cup u.left)
        BY <1>1, <1>3 DEF Sound, Reprieving
    <2>2. u.left \subseteq u.potential /\ u.victims \subseteq u.potential /\ u.victims \cap u.left = {}
        BY <1>3 DEF Sound, Reprieving
    <2> HIDE DEF u, T
    <2> QED BY <1>3, <1>4, <1>5, <2>1, <2>2 DEF Reprieving
<1>7. Borrowing(c, u)
    <2> HIDE DEF u
    <2>1. SUFFICES ASSUME c.plugin = "capacity", c.quotas[Preemptor.ns] # None,
                          NEW n \in Namespaces \ {Preemptor.ns}, InNs(u.potential, n) # {}
          PROVE  \E l \in InNs(u.potential, n) : LastOne(c, u, n, l)
        BY DEF Borrowing
    <2>2. PICK l \in InNs(s.potential, n) : LastOne(c, s, n, l)
        BY <1>3, <2>1 DEF Sound, Borrowing
    <2>3. l \in Pods /\ NsOf[l] = n /\ MayTake(c, s.on, s.curTime, l)
        BY <1>1 DEF Sound, InNs
    <2>4. c.quotas[n] # None
        BY <2>1, <2>3 DEF MayTake, Takable
    <2> DEFINE was == Snap(c, s.node)[n]
               is == Snap(c, T)[n]
    <2>5. /\ was.used \in Nat /\ is.used \in Nat /\ was.min \in Nat /\ is.min = was.min
          /\ Req[l] \in Nat
        BY <1>1, <2>3, <2>4, SnapType
    <2>6. was.used <= is.used
        BY <1>1, <2>4, SnapMono
    <2>7. l # p => (l \in T <=> l \in s.node)
        OBVIOUS
    <2>8. l = p => l \in T /\ l \notin s.node /\ is.used = was.used + Req[l]
        <3>1. SUFFICES ASSUME l = p PROVE l \in T /\ l \notin s.node /\ is.used = was.used + Req[l]
            OBVIOUS
        <3>2. InNs(T, n) = InNs(s.node, n) \cup {l} /\ l \in Pods \ InNs(s.node, n)
            BY <1>1, <2>3, <3>1 DEF InNs
        <3>3. InNs(s.node, n) \in SUBSET Pods
            BY <1>1 DEF InNs
        <3>4. TotalReq[InNs(T, n)] = TotalReq[InNs(s.node, n)] + Req[l]
            BY <3>2, <3>3, TotalReqAdd
        <3>5. /\ was.used = c.quotas[n].elsewhere + TotalReq[InNs(s.node, n)]
              /\ is.used = c.quotas[n].elsewhere + TotalReq[InNs(T, n)]
              /\ c.quotas[n].elsewhere \in Nat /\ TotalReq[InNs(s.node, n)] \in Nat
            BY <1>1, <2>4, <3>3, SnapType, TotalReqNat
        <3>6. l \in T /\ l \notin s.node
            BY <1>1, <3>1
        <3> HIDE DEF was, is, T
        <3> QED BY <2>5, <3>4, <3>5, <3>6
    <2>9. /\ l \notin s.node => was.used + Req[l] > was.min
          /\ l \in s.node => was.used > was.min
        BY <2>2 DEF LastOne
    <2> HIDE DEF was, is, T
    <2>10. /\ l \notin T => is.used + Req[l] > is.min
           /\ l \in T => is.used > is.min
        BY <2>5, <2>6, <2>7, <2>8, <2>9
    <2>11. LastOne(c, u, n, l)
        BY <1>3, <2>10 DEF LastOne, is
    <2> QED BY <1>3, <2>2, <2>11
<1>8. u.left \subseteq u.on /\ u.node \subseteq u.on /\ u.potential \subseteq u.on
    BY <1>1, <1>3 DEF Sound
<1> HIDE DEF u, T
<1>9. \A q \in u.potential : MayTake(c, u.on, u.curTime, q)
    BY <1>3 DEF Sound
<1>10. Sound(c, u)
    BY <1>3, <1>6, <1>7, <1>8, <1>9 DEF Sound
<1> QED BY <1>10 DEF u

\* A pod that is not becomes a victim.
LEMMA TakeSound ==
    ASSUME NEW c \in Configs, NEW s, Sound(c, s), s.step = "reprieve", NEW p \in s.left,
           ~Keeps(c, AddPod(s.eq, p), s.node \cup {p}), NEW k \in Nat
    PROVE  Sound(c, [s EXCEPT !.left = @ \ {p}, !.victims = @ \cup {p}, !.count = k])
<1> DEFINE u == [s EXCEPT !.left = @ \ {p}, !.victims = @ \cup {p}, !.count = k]
<1>1. /\ s \in Selections /\ s.node \in SUBSET Pods /\ p \in Pods
      /\ p \in Pods \ s.node /\ s.eq = Snap(c, s.node)
    BY DEF Sound, Selections, Reprieving
<1>2. /\ u \in Selections
      /\ u.left = s.left \ {p} /\ u.on = s.on /\ u.node = s.node /\ u.potential = s.potential
      /\ u.victims = s.victims \cup {p} /\ u.eq = s.eq /\ u.curTime = s.curTime
      /\ u.step = "reprieve"
    BY <1>1 DEF Selections
<1>3. ~Keeps(c, Snap(c, s.node \cup {p}), s.node \cup {p})
    <2>1. AddPod(Snap(c, s.node), p) = Snap(c, s.node \cup {p})
        BY <1>1, SnapAdd
    <2> QED BY <1>1, <2>1
<1>4. Reprieving(c, u)
    <2>1. u.node = u.on \ (u.victims \cup u.left)
        BY <1>2 DEF Sound, Reprieving
    <2>2. u.left \subseteq u.potential /\ u.victims \subseteq u.potential /\ u.victims \cap u.left = {}
        BY <1>2 DEF Sound, Reprieving
    <2> HIDE DEF u
    <2>3. \A v \in u.victims : ~Keeps(c, Snap(c, u.node \cup {v}), u.node \cup {v})
        BY <1>2, <1>3 DEF Sound, Reprieving
    <2>4. Makes(c, Snap(c, u.node), u.node)
        BY <1>2 DEF Sound, Reprieving
    <2> QED BY <2>1, <2>2, <2>3, <2>4 DEF Reprieving
<1> HIDE DEF u
<1>5. Borrowing(c, u)
    BY <1>2 DEF Sound, Borrowing, LastOne
<1>6. Sound(c, u)
    BY <1>2, <1>4, <1>5 DEF Sound
<1> QED BY <1>6 DEF u

-----------------------------------------------------------------------------
(* The inductive invariant *)

\* What the selection does not touch, the selection, and the pods that were
\* taken: whoever is terminating could be taken for what does not change.
Ground ==
    /\ conf \in Configs
    /\ terminating \subseteq onNode /\ onNode \subseteq Pods /\ came \subseteq Late
    /\ nominated \in BOOLEAN /\ bound \in BOOLEAN /\ now \in 0..MaxNow
    /\ victims \subseteq Pods
Under == sel # None => Sound(conf, sel) /\ victims = {}
Taken == \A p \in terminating : Takable(conf, p)
Inv == Ground /\ Under /\ Taken

\* The definitions of the model and their restatements agree.
LEMMA Restated ==
    /\ \A S : Snapshot(S) = Snap(conf, S)
    /\ \A S : Fits(S) <=> Fit(conf, S)
    /\ \A eq, inEQ, all : QuotaAdmits(eq, inEQ, all) <=> Admit(conf, eq, inEQ, all)
    /\ \A eq : preemptorWithElasticQuota(eq) <=> Quoted(conf, eq)
    /\ nominatedPodsReqInEQWithPodReq = conf.nominated.inEQ + Preemptor.req
    /\ nominatedPodsReqWithPodReq = conf.nominated.all + Preemptor.req
BY DEF Snapshot, Snap, Fits, Fit, QuotaAdmits, Admit, preemptorWithElasticQuota, Quoted, Capacitated,
       nominatedPodsReqInEQWithPodReq, nominatedPodsReqWithPodReq

LEMMA InvInit == Init => Inv
<1> SUFFICES ASSUME Init PROVE Inv
    OBVIOUS
<1>1. Ground
    <2>1. 0 \in 0..MaxNow
        OBVIOUS
    <2> QED BY <2>1, Zenon DEF Init, Ground
<1>2. Under /\ Taken
    BY DEF Init, Under, Taken
<1> QED BY <1>1, <1>2 DEF Inv

LEMMA PostFilterSound == Inv /\ PostFilter => Sound(conf, sel')
<1> SUFFICES ASSUME Inv, PostFilter PROVE Sound(conf, sel')
    OBVIOUS
<1>1. conf \in Configs /\ onNode \in SUBSET Pods /\ now \in Nat
    BY DEF Inv, Ground
<1> DEFINE more == preemptorWithElasticQuota(Snapshot(onNode))
               /\ usedOverMinWith(Snapshot(onNode)[Preemptor.ns], nominatedPodsReqInEQWithPodReq)
<1>2. more \in BOOLEAN
    OBVIOUS
<1>3. sel' = [step |-> "remove", left |-> onNode, on |-> onNode, node |-> onNode,
              eq |-> Snap(conf, onNode), curTime |-> now, moreThanMin |-> more,
              potential |-> {}, violating |-> {}, victims |-> {}, count |-> 0]
    BY Restated DEF PostFilter
<1> HIDE DEF more
<1> QED BY <1>1, <1>2, <1>3, StartSound

LEMMA InvPostFilter == Inv /\ PostFilter => Inv'
<1> SUFFICES ASSUME Inv, PostFilter PROVE Inv'
    OBVIOUS
<1>1. Under'
    BY PostFilterSound DEF PostFilter, Under
<1>2. Ground' /\ Taken'
    BY DEF Inv, Ground, Taken, PostFilter
<1> QED BY <1>1, <1>2 DEF Inv

LEMMA InvRemoveNext == Inv /\ RemoveNext => Inv'
<1> SUFFICES ASSUME Inv, RemoveNext PROVE Inv'
    OBVIOUS
<1> DEFINE p == Least(sel.left)
           isVictim == IF Capacitated THEN CapacityVictim(sel.eq, sel.moreThanMin, p)
                       ELSE TolerationVictim(p, sel.curTime)
<1>1. /\ conf \in Configs /\ Sound(conf, sel) /\ victims = {}
      /\ sel.step = "remove" /\ sel.left # {} /\ sel.left \in SUBSET Pods
    BY DEF Inv, Ground, Under, RemoveNext, Sound, Selections
<1>2. p \in sel.left
    BY <1>1, LeastIn
<1>3. Ground' /\ Taken'
    BY DEF Inv, Ground, Taken, RemoveNext, GiveUp
<1>4. \/ sel' = None
      \/ /\ ~(~Capacitated /\ ClassMissing(p)) /\ victims' = victims
         /\ sel' = IF ~isVictim THEN [sel EXCEPT !.left = @ \ {p}]
                   ELSE [sel EXCEPT !.left = @ \ {p}, !.node = @ \ {p},
                                    !.eq = RemovePod(@, p), !.potential = @ \cup {p}]
    BY DEF RemoveNext, GiveUp
<1>5. ~(~Capacitated /\ ClassMissing(p)) /\ isVictim => IsVictim(conf, sel, p)
    BY DEF Capacitated, CapacityVictim, IsVictim, preemptorWithElasticQuota, Quoted
<1> HIDE DEF p, isVictim
<1>6. CASE sel' = None
    BY <1>3, <1>6 DEF Inv, Under
<1>7. CASE ~isVictim /\ victims' = victims /\ sel' = [sel EXCEPT !.left = @ \ {p}]
    <2>1. Sound(conf, sel')
        BY <1>1, <1>2, <1>7, SkipSound
    <2>2. conf' = conf
        BY DEF RemoveNext
    <2> QED BY <1>1, <1>3, <1>7, <2>1, <2>2 DEF Inv, Under
<1>8. CASE /\ IsVictim(conf, sel, p) /\ victims' = victims
           /\ sel' = [sel EXCEPT !.left = @ \ {p}, !.node = @ \ {p},
                                 !.eq = RemovePod(@, p), !.potential = @ \cup {p}]
    <2>1. Sound(conf, sel')
        BY <1>1, <1>2, <1>8, RemoveSound
    <2>2. conf' = conf
        BY DEF RemoveNext
    <2> QED BY <1>1, <1>3, <1>8, <2>1, <2>2 DEF Inv, Under
<1> QED BY <1>4, <1>5, <1>6, <1>7, <1>8

LEMMA InvCheck == Inv /\ Check => Inv'
<1> SUFFICES ASSUME Inv, Check PROVE Inv'
    OBVIOUS
<1>1. /\ conf \in Configs /\ Sound(conf, sel) /\ victims = {} /\ sel.step = "remove"
      /\ sel.potential \in SUBSET Pods
    BY DEF Inv, Ground, Under, Check, Sound, Selections
<1>2. Ground' /\ Taken' /\ conf' = conf
    BY DEF Inv, Ground, Taken, Check, GiveUp
<1> DEFINE V == Violating(sel.potential)
<1>3. V \in SUBSET Pods
    BY <1>1 DEF Violating
<1>4. \/ sel' = None
      \/ /\ Fits(sel.node) /\ QuotaAdmits(sel.eq, Preemptor.req, Preemptor.req)
         /\ victims' = victims
         /\ sel' = [sel EXCEPT !.step = "reprieve", !.left = sel.potential, !.violating = V]
    BY DEF Check, GiveUp
<1> HIDE DEF V
<1>5. CASE sel' = None
    BY <1>2, <1>5 DEF Inv, Under
<1>6. CASE /\ Fits(sel.node) /\ QuotaAdmits(sel.eq, Preemptor.req, Preemptor.req)
           /\ victims' = victims
           /\ sel' = [sel EXCEPT !.step = "reprieve", !.left = sel.potential, !.violating = V]
    <2>1. Makes(conf, sel.eq, sel.node)
        BY <1>6, Restated DEF Makes
    <2>2. Sound(conf, sel')
        BY <1>1, <1>3, <1>6, <2>1, CheckSound
    <2> QED BY <1>1, <1>2, <1>6, <2>2 DEF Inv, Under
<1> QED BY <1>4, <1>5, <1>6

LEMMA InvReprieveNext == Inv /\ ReprieveNext => Inv'
<1> SUFFICES ASSUME Inv, ReprieveNext PROVE Inv'
    OBVIOUS
<1> DEFINE first == sel.left \cap sel.violating
           p == Most(IF first # {} THEN first ELSE sel.left)
           T == sel.node \cup {p}
           eq == AddPod(sel.eq, p)
           fits == Fits(T)
           admitted == QuotaAdmits(eq, nominatedPodsReqInEQWithPodReq, nominatedPodsReqWithPodReq)
           k == IF ~fits /\ p \in sel.violating THEN sel.count + 1 ELSE sel.count
<1>1. /\ conf \in Configs /\ Sound(conf, sel) /\ victims = {} /\ sel.step = "reprieve"
      /\ sel.left # {} /\ sel.left \in SUBSET Pods /\ sel \in Selections
    BY DEF Inv, Ground, Under, ReprieveNext, Sound, Selections
<1>2. p \in sel.left
    <2>1. p \in IF first # {} THEN first ELSE sel.left
        BY <1>1, MostIn
    <2> QED BY <2>1
<1>3. Ground' /\ Taken' /\ conf' = conf
    BY DEF Inv, Ground, Taken, ReprieveNext, GiveUp
<1>4. k \in Nat
    BY <1>1 DEF Selections
<1>5. \/ sel' = None
      \/ /\ victims' = victims
         /\ sel' = IF fits /\ admitted
                   THEN [sel EXCEPT !.left = @ \ {p}, !.node = @ \cup {p}, !.eq = eq]
                   ELSE [sel EXCEPT !.left = @ \ {p}, !.victims = @ \cup {p}, !.count = k]
    BY <1>1 DEF ReprieveNext, GiveUp, Selections
<1>6. Keeps(conf, eq, T) <=> fits /\ admitted
    BY Restated DEF Keeps
<1> HIDE DEF first, p, fits, admitted, k
<1>7. CASE sel' = None
    BY <1>3, <1>7 DEF Inv, Under
<1>8. CASE /\ victims' = victims /\ fits /\ admitted
           /\ sel' = [sel EXCEPT !.left = @ \ {p}, !.node = @ \cup {p}, !.eq = eq]
    <2>1. Sound(conf, sel')
        BY <1>1, <1>2, <1>6, <1>8, KeepSound
    <2> QED BY <1>1, <1>3, <1>8, <2>1 DEF Inv, Under
<1>9. CASE /\ victims' = victims /\ ~(fits /\ admitted)
           /\ sel' = [sel EXCEPT !.left = @ \ {p}, !.victims = @ \cup {p}, !.count = k]
    <2>1. Sound(conf, sel')
        BY <1>1, <1>2, <1>4, <1>6, <1>9, TakeSound
    <2> QED BY <1>1, <1>3, <1>9, <2>1 DEF Inv, Under
<1> QED BY <1>5, <1>7, <1>8, <1>9

LEMMA InvPreempt == Inv /\ Preempt => Inv'
<1> SUFFICES ASSUME Inv, Preempt PROVE Inv'
    OBVIOUS
<1>1. Sound(conf, sel) /\ sel.step = "reprieve" /\ conf' = conf /\ sel' = None
    BY DEF Inv, Under, Preempt
<1>2. sel.victims \subseteq Pods /\ \A p \in sel.victims : Takable(conf, p)
    BY <1>1 DEF Sound, Selections, Reprieving, MayTake
<1>3. Ground'
    BY <1>2 DEF Inv, Ground, Preempt
<1>4. Taken'
    BY <1>1, <1>2 DEF Inv, Taken, Preempt
<1> QED BY <1>1, <1>3, <1>4 DEF Inv, Under

LEMMA InvNext == Inv /\ [Next]_vars => Inv'
<1> SUFFICES ASSUME Inv, [Next]_vars PROVE Inv'
    OBVIOUS
<1>1. CASE Schedule
    BY <1>1 DEF Inv, Ground, Under, Taken, Schedule
<1>2. ASSUME NEW p \in Pods, PodGone(p)
      PROVE  Inv'
    BY <1>2 DEF Inv, Ground, Under, Taken, PodGone
<1>3. ASSUME NEW p \in Pods, PodComes(p)
      PROVE  Inv'
    BY <1>3 DEF Inv, Ground, Under, Taken, PodComes
<1>4. CASE Tick
    BY <1>4 DEF Inv, Ground, Under, Taken, Tick
<1>5. CASE UNCHANGED vars
    BY <1>5 DEF Inv, Ground, Under, Taken, vars
<1> QED BY <1>1, <1>2, <1>3, <1>4, <1>5, InvPostFilter, InvRemoveNext, InvCheck, InvReprieveNext,
           InvPreempt DEF Next, Selection

LEMMA Invariance == Spec => []Inv
BY InvInit, InvNext, PTL DEF Spec

-----------------------------------------------------------------------------
(* The theorems *)

\* Every reachable state is well typed, and in every state of a selection a victim
\* is a potential one that is off the copy of the node.
THEOREM TypeCorrect == Spec => []TypeOK
<1>1. Inv => TypeOK
    <2> SUFFICES ASSUME Inv PROVE TypeOK
        OBVIOUS
    <2>1. ASSUME sel # None
          PROVE  /\ sel \in Selections
                 /\ sel.left \subseteq sel.on
                 /\ sel.node \subseteq sel.on /\ sel.potential \subseteq sel.on
                 /\ sel.victims \subseteq sel.potential \ sel.node
        <3>1. Sound(conf, sel)
            BY <2>1 DEF Inv, Under
        <3>2. CASE sel.step = "remove"
            BY <3>1, <3>2 DEF Sound, Removing
        <3>3. CASE sel.step = "reprieve"
            BY <3>1, <3>3 DEF Sound, Reprieving
        <3> QED BY <3>1, <3>2, <3>3 DEF Sound, Selections
    <2> QED BY <2>1 DEF Inv, Ground, TypeOK
<1> QED BY <1>1, Invariance, PTL

\* Pods of another quota are taken only as long as it borrows: at the end of a
\* selection the quota has its min, or less than one of its victims short of it.
THEOREM OnlyBorrowersLose == Spec => []BorrowersOnly
<1>1. Inv => BorrowersOnly
    <2>1. SUFFICES ASSUME Inv, sel # None, sel.step = "reprieve", sel.left = {},
                          preemptorWithElasticQuota(sel.eq),
                          NEW n \in Namespaces \ {Preemptor.ns}, InNs(sel.victims, n) # {}
          PROVE  \E v \in InNs(sel.victims, n) : sel.eq[n].used + Req[v] > sel.eq[n].min
        BY DEF BorrowersOnly
    <2>2. conf \in Configs /\ Sound(conf, sel) /\ Reprieving(conf, sel)
        BY <2>1 DEF Inv, Ground, Under, Sound
    <2>3. /\ sel.node \in SUBSET Pods /\ sel.eq = Snap(conf, sel.node)
          /\ sel.victims \subseteq Pods
        BY <2>2 DEF Sound, Selections
    <2>4. conf.plugin = "capacity" /\ conf.quotas[Preemptor.ns] # None
        BY <2>1, <2>2, <2>3, SnapType DEF preemptorWithElasticQuota, Capacitated
    <2>5. PICK l \in InNs(sel.potential, n) : LastOne(conf, sel, n, l)
        <3>1. InNs(sel.potential, n) # {}
            BY <2>1, <2>2 DEF Reprieving, InNs
        <3> QED BY <2>2, <2>4, <3>1 DEF Sound, Borrowing
    <2>6. PICK v : v \in InNs(sel.victims, n)
        BY <2>1
    <2>7. conf.quotas[n] # None /\ v \in Pods /\ Req[v] \in Nat
        <3>1. v \in sel.potential /\ NsOf[v] = n /\ v \in Pods
            BY <2>2, <2>3, <2>6 DEF Reprieving, InNs
        <3>2. MayTake(conf, sel.on, sel.curTime, v)
            BY <2>2, <3>1 DEF Sound
        <3> QED BY <2>4, <3>1, <3>2 DEF MayTake, Takable
    <2>8. sel.eq[n].used \in Nat /\ sel.eq[n].min \in Nat
        BY <2>2, <2>3, <2>7, SnapType
    <2>9. CASE l \in sel.node
        <3>1. sel.eq[n].used > sel.eq[n].min
            BY <2>3, <2>5, <2>9 DEF LastOne
        <3>2. sel.eq[n].used + Req[v] > sel.eq[n].min
            BY <2>7, <2>8, <3>1
        <3> QED BY <2>6, <3>2
    <2>10. CASE l \notin sel.node
        <3>1. l \in InNs(sel.victims, n)
            BY <2>1, <2>2, <2>5, <2>10 DEF Sound, Reprieving, InNs
        <3>2. sel.eq[n].used + Req[l] > sel.eq[n].min
            BY <2>3, <2>5, <2>10 DEF LastOne
        <3> QED BY <3>1, <3>2
    <2> QED BY <2>9, <2>10
<1> QED BY <1>1, Invariance, PTL

\* PodEligibleToPreemptOthers lets no selection start while a pod that was taken
\* for its priority is terminating.
THEOREM NoPreemptionTwice == Spec => NoSecondPreemption
<1>1. Inv /\ [Next]_vars =>
        (sel = None /\ sel' # None /\ nominated =>
          \A p \in terminating :
              /\ Capacitated /\ conf.quotas[Preemptor.ns] # None
              /\ NsOf[p] # Preemptor.ns)
    <2>1. SUFFICES ASSUME Inv, [Next]_vars, sel = None, sel' # None, nominated,
                          NEW p \in terminating
          PROVE  /\ Capacitated /\ conf.quotas[Preemptor.ns] # None
                 /\ NsOf[p] # Preemptor.ns
        OBVIOUS
    <2>2. PostFilter
        BY <2>1 DEF Next, Selection, vars, Schedule, RemoveNext, Check, ReprieveNext, Preempt,
                    PodGone, PodComes, Tick
    <2>3. /\ conf \in Configs /\ onNode \in SUBSET Pods /\ p \in Pods /\ Takable(conf, p)
          /\ NsOf[p] \in Namespaces /\ Preemptor.ns \in Namespaces
        BY <2>1 DEF Inv, Ground, Taken
    <2> DEFINE eq == Snapshot(onNode)
    <2>4. /\ WithEQ(eq, NsOf[p]) <=> conf.quotas[NsOf[p]] # None
          /\ WithEQ(eq, Preemptor.ns) <=> conf.quotas[Preemptor.ns] # None
        BY <2>3, Restated, SnapType
    <2>5. PodEligibleToPreemptOthers(eq)
        BY <2>2 DEF PostFilter
    <2> HIDE DEF eq
    <2>6. Prio[p] \in Int /\ Preemptor.priority \in Int
        BY <2>3
    <2> QED BY <2>1, <2>3, <2>4, <2>5, <2>6
            DEF PodEligibleToPreemptOthers, TolerationEligible, Takable, Capacitated,
                preemptorWithElasticQuota
<1> QED BY <1>1, Invariance, PTL DEF Spec, NoSecondPreemption

-----------------------------------------------------------------------------
(* The refinement *)

AllowedOn(c, S, t) == {p \in S : MayTake(c, S, t, p)}
MakesOn(c, S) == {V \in SUBSET S : Makes(c, Snap(c, S \ V), S \ V)}
KeepsOn(c, S) == {V \in SUBSET S : Keeps(c, Snap(c, S \ V), S \ V)}

\* The refinement mapping depends on the configuration, the snapshot and the
\* time of the selection only.
Mapping ==
    Inv /\ sel # None =>
        /\ Allowed = AllowedOn(conf, sel.on, sel.curTime)
        /\ Rooms(Preemptor.req, Preemptor.req) = MakesOn(conf, sel.on)
        /\ Rooms(nominatedPodsReqInEQWithPodReq, nominatedPodsReqWithPodReq) = KeepsOn(conf, sel.on)

LEMMA Mapped == Mapping
<1> SUFFICES ASSUME Inv, sel # None
    PROVE  /\ Allowed = AllowedOn(conf, sel.on, sel.curTime)
           /\ Rooms(Preemptor.req, Preemptor.req) = MakesOn(conf, sel.on)
           /\ Rooms(nominatedPodsReqInEQWithPodReq, nominatedPodsReqWithPodReq)
                  = KeepsOn(conf, sel.on)
    BY DEF Mapping
<1>1. conf \in Configs /\ sel.on \in SUBSET Pods
    BY DEF Inv, Ground, Under, Sound, Selections
<1>2. ASSUME NEW p \in sel.on
      PROVE  p \in Allowed <=> MayTake(conf, sel.on, sel.curTime, p)
    <2> DEFINE eq == Snapshot(sel.on)
    <2>1. p \in Pods /\ NsOf[p] \in Namespaces /\ Preemptor.ns \in Namespaces
        BY <1>1
    <2>2. /\ WithEQ(eq, NsOf[p]) <=> conf.quotas[NsOf[p]] # None
          /\ WithEQ(eq, Preemptor.ns) <=> conf.quotas[Preemptor.ns] # None
          /\ eq = Snap(conf, sel.on)
        BY <1>1, <2>1, Restated, SnapType
    <2>3. p \in Allowed <=>
              IF ~Capacitated THEN Prio[p] < Preemptor.priority /\ ~Protected(p, sel.curTime)
              ELSE IF ~preemptorWithElasticQuota(eq)
              THEN ~WithEQ(eq, NsOf[p]) /\ Prio[p] < Preemptor.priority
              ELSE /\ WithEQ(eq, NsOf[p])
                   /\ NsOf[p] = Preemptor.ns => Prio[p] < Preemptor.priority
                   /\ NsOf[p] # Preemptor.ns => usedOverMin(eq[NsOf[p]])
        BY DEF Allowed
    <2> HIDE DEF eq
    <2> QED BY <2>2, <2>3 DEF MayTake, Takable, Capacitated, preemptorWithElasticQuota
<1>3. Allowed = AllowedOn(conf, sel.on, sel.curTime)
    <2>1. Allowed \subseteq sel.on
        BY DEF Allowed
    <2> QED BY <1>2, <2>1 DEF AllowedOn
<1>4. \A inEQ, all : Rooms(inEQ, all) =
          {V \in SUBSET sel.on : /\ Fit(conf, sel.on \ V)
                                 /\ Admit(conf, Snap(conf, sel.on \ V), inEQ, all)}
    BY Restated DEF Rooms
<1> QED BY <1>3, <1>4, Restated DEF MakesOn, KeepsOn, Makes, Keeps

LEMMA MappedNext == Mapping'
BY Mapped, PTL

\* Steps outside of a selection and within one, as the abstract variables see
\* them.
LEMMA StepKinds ==
    ASSUME Inv, Inv', [Next]_vars
    PROVE  /\ sel = None /\ sel' = None => victims' = victims
           /\ sel = None /\ sel' # None => victims' = {}
           /\ sel # None /\ sel' # None =>
                 /\ sel'.on = sel.on /\ sel'.curTime = sel.curTime
                 /\ conf' = conf /\ victims' = victims
           /\ sel # None /\ sel' = None =>
                 \/ victims' = {}
                 \/ sel.step = "reprieve" /\ sel.left = {} /\ victims' = sel.victims
<1>1. sel # None => sel \in Selections /\ victims = {}
    BY DEF Inv, Under, Sound
<1>2. sel' # None => sel' \in Selections /\ victims' = {}
    BY DEF Inv, Under, Sound
<1>3. CASE Schedule \/ Tick \/ \E p \in Pods : PodGone(p) \/ PodComes(p)
    <2>1. sel' = sel /\ conf' = conf /\ victims' = victims
        BY <1>3 DEF Schedule, Tick, PodGone, PodComes
    <2> QED BY <1>1, <2>1
<1>4. CASE PostFilter
    <2>1. sel = None /\ victims' = {}
        BY <1>4 DEF PostFilter
    <2>2. sel' # None
        BY <1>4, PostFilterSound, DistinctAssumption DEF Sound
    <2> QED BY <2>1, <2>2
<1>5. CASE RemoveNext
    <2>1. sel # None /\ conf' = conf /\ victims' = victims
        BY <1>5 DEF RemoveNext, GiveUp
    <2>2. sel' # None => sel'.on = sel.on /\ sel'.curTime = sel.curTime
        BY <1>1, <1>5 DEF RemoveNext, GiveUp, Selections
    <2> QED BY <1>1, <2>1, <2>2
<1>6. CASE Check
    <2>1. sel # None /\ conf' = conf /\ victims' = victims
        BY <1>6 DEF Check, GiveUp
    <2>2. sel' # None => sel'.on = sel.on /\ sel'.curTime = sel.curTime
        BY <1>1, <1>6, ZenonT(30) DEF Check, GiveUp, Selections
    <2> QED BY <1>1, <2>1, <2>2
<1>7. CASE ReprieveNext
    <2>1. sel # None /\ conf' = conf /\ victims' = victims
        BY <1>7 DEF ReprieveNext, GiveUp
    <2>2. sel' # None => sel'.on = sel.on /\ sel'.curTime = sel.curTime
        BY <1>1, <1>7 DEF ReprieveNext, GiveUp, Selections
    <2> QED BY <1>1, <2>1, <2>2
<1>8. CASE Preempt
    BY <1>8 DEF Preempt
<1>9. CASE UNCHANGED vars
    <2>1. sel' = sel /\ conf' = conf /\ victims' = victims
        BY <1>9 DEF vars
    <2> QED BY <1>1, <2>1
<1> QED BY <1>3, <1>4, <1>5, <1>6, <1>7, <1>8, <1>9 DEF Next, Selection

\* The victims of a finished selection are what VictimSelection asks for.
LEMMA PromiseKept ==
    ASSUME NEW c \in Configs, NEW s, Sound(c, s), s.step = "reprieve", s.left = {}
    PROVE  /\ s.victims \subseteq AllowedOn(c, s.on, s.curTime)
           /\ s.victims \in MakesOn(c, s.on)
           /\ \A v \in s.victims : s.victims \ {v} \notin KeepsOn(c, s.on)
<1>1. Reprieving(c, s) /\ s.victims \subseteq s.on /\ s.node = s.on \ s.victims
    BY DEF Sound, Reprieving
<1>2. s.victims \subseteq AllowedOn(c, s.on, s.curTime)
    BY <1>1 DEF Sound, Reprieving, AllowedOn
<1>3. s.victims \in MakesOn(c, s.on)
    BY <1>1 DEF Reprieving, MakesOn
<1>4. ASSUME NEW v \in s.victims
      PROVE  s.victims \ {v} \notin KeepsOn(c, s.on)
    <2>1. s.on \ (s.victims \ {v}) = s.node \cup {v}
        BY <1>1
    <2>2. ~Keeps(c, Snap(c, s.node \cup {v}), s.node \cup {v})
        BY <1>1 DEF Reprieving
    <2> QED BY <2>1, <2>2 DEF KeepsOn
<1> QED BY <1>2, <1>3, <1>4

LEMMA AbstractInit == Init => Abstract!Init
BY DEF Init, Abstract!Init

LEMMA AbstractStep == Inv /\ Inv' /\ [Next]_vars => [Abstract!Next]_(Abstract!vars)
<1> SUFFICES ASSUME Inv, Inv', [Next]_vars PROVE [Abstract!Next]_(Abstract!vars)
    OBVIOUS
<1> DEFINE makes == Rooms(Preemptor.req, Preemptor.req)
           keeps == Rooms(nominatedPodsReqInEQWithPodReq, nominatedPodsReqWithPodReq)
<1>1. CASE sel = None /\ sel' = None
    BY <1>1, StepKinds DEF Abstract!vars
<1>2. CASE sel = None /\ sel' # None
    <2>1. Sound(conf, sel)' /\ victims' = {}
        BY <1>2 DEF Inv, Under
    <2>2. conf' \in Configs /\ sel'.on \in SUBSET Pods
        BY <2>1 DEF Inv, Ground, Sound, Selections
    <2>3. /\ Allowed' = AllowedOn(conf', sel'.on, sel'.curTime)
          /\ makes' = MakesOn(conf', sel'.on) /\ keeps' = KeepsOn(conf', sel'.on)
        BY <1>2, MappedNext DEF Mapping
    <2>4. Allowed' \subseteq Pods /\ makes' \subseteq SUBSET Pods
        BY <2>2, <2>3 DEF AllowedOn, MakesOn
    <2>5. keeps' \subseteq makes'
        <3>1. ASSUME NEW V \in KeepsOn(conf', sel'.on)
              PROVE  V \in MakesOn(conf', sel'.on)
            <4>1. sel'.on \ V \in SUBSET Pods
                BY <2>2
            <4>2. V \in SUBSET sel'.on /\ Keeps(conf', Snap(conf', sel'.on \ V), sel'.on \ V)
                BY DEF KeepsOn
            <4>3. Makes(conf', Snap(conf', sel'.on \ V), sel'.on \ V)
                BY <2>2, <4>1, <4>2, KeepsMakes
            <4> QED BY <4>2, <4>3 DEF MakesOn
        <3> QED BY <2>3, <3>1
    <2> HIDE DEF makes, keeps
    <2>6. Abstract!Start
        BY <1>2, <2>1, <2>4, <2>5 DEF Abstract!Start, makes, keeps
    <2> QED BY <2>6 DEF Abstract!Next
<1>3. CASE sel # None /\ sel' # None
    <2>1. /\ sel'.on = sel.on /\ sel'.curTime = sel.curTime
          /\ conf' = conf /\ victims' = victims
        BY <1>3, StepKinds
    <2>2. Allowed' = Allowed /\ makes' = makes /\ keeps' = keeps
        BY <1>3, <2>1, Mapped, MappedNext DEF Mapping
    <2> HIDE DEF makes, keeps
    <2> QED BY <1>3, <2>1, <2>2 DEF Abstract!vars, makes, keeps
<1>4. CASE sel # None /\ sel' = None
    <2>1. CASE victims' = {}
        <3>1. Abstract!GiveUp
            BY <1>4, <2>1 DEF Abstract!GiveUp
        <3> QED BY <3>1 DEF Abstract!Next
    <2>2. CASE victims' # {} /\ sel.step = "reprieve" /\ sel.left = {} /\ victims' = sel.victims
        <3>1. conf \in Configs /\ Sound(conf, sel)
            BY <1>4 DEF Inv, Ground, Under
        <3>2. /\ victims' \subseteq AllowedOn(conf, sel.on, sel.curTime)
              /\ victims' \in MakesOn(conf, sel.on)
              /\ \A v \in victims' : victims' \ {v} \notin KeepsOn(conf, sel.on)
            BY <2>2, <3>1, PromiseKept
        <3>3. /\ victims' \in (SUBSET Allowed) \ {{}} /\ victims' \in makes
              /\ \A v \in victims' : victims' \ {v} \notin keeps
            BY <1>4, <2>2, <3>2, Mapped DEF Mapping
        <3> HIDE DEF makes, keeps
        <3>4. Abstract!Select
            BY <1>4, <3>3 DEF Abstract!Select, makes, keeps
        <3> QED BY <3>4 DEF Abstract!Next
    <2> QED BY <1>4, <2>1, <2>2, StepKinds
<1> QED BY <1>1, <1>2, <1>3, <1>4

\* SelectVictimsOnNode of either plugin implements VictimSelection: whatever the
\* pods, quotas, PDBs and annotations, it takes only pods it may take, they make
\* room for the preemptor, and none of them could have been reprieved.
THEOREM SelectionKeepsPromise == Spec => KeepsPromise
<1>1. Inv /\ Inv' /\ [Next]_vars => [Abstract!Next]_(Abstract!vars)
    BY AbstractStep
<1> QED BY <1>1, AbstractInit, Invariance, PTL DEF Spec, KeepsPromise, Abstract!Spec
=============================================================================
