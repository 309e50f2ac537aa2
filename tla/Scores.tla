------------------------------- MODULE Scores -------------------------------
(***************************************************************************)
(* The plugins that only compare or count: the queue orders of             *)
(* Coscheduling and QOSSort, the scores of PodState,                       *)
(* NodeResourcesAllocatable and Trimaran's TargetLoadPacking and           *)
(* LoadVariationRiskBalancing, and the limits LowRiskOverCommitment weighs. *)
(*                                                                         *)
(* Floating-point numbers are fractions of integers here; a fraction is    *)
(* rounded where the code rounds.  Utilisations are whole percents.        *)
(***************************************************************************)
EXTENDS Integers, Sequences, FiniteSets, FiniteSetsExt, SequencesExt

MaxNodeScore == 100

\* int64 division, towards zero, and math.Round of a fraction that is not
\* negative.
Quo(a, b) == IF a < 0 THEN -((-a) \div b) ELSE a \div b
Round(a, b) == (2 * a + b) \div (2 * b)
AtLeast(x, y) == IF x < y THEN y ELSE x
AtMost(x, y) == IF x > y THEN y ELSE x

-----------------------------------------------------------------------------
(* Queue orders *)

\* A queued pod: its name, priority, QoS class, the time it was first tried and
\* its group, 0 for none.  groups has the creation time of each PodGroup the
\* client finds.
GetCreationTimestamp(groups, p) == IF p.group \in DOMAIN groups THEN groups[p.group] ELSE p.ts

\* Mutant: the name decides before the time does.
MutCoschedulingLess(groups, p, q) ==
    \/ p.priority > q.priority
    \/ p.priority = q.priority /\ p.name < q.name

CoschedulingLess(groups, p, q) ==
    LET t1 == GetCreationTimestamp(groups, p)
        t2 == GetCreationTimestamp(groups, q)
    IN  IF p.priority # q.priority THEN p.priority > q.priority
        ELSE IF t1 = t2 THEN p.name < q.name ELSE t1 < t2

compQOS(p, q) ==
    \/ p.qos = "Guaranteed"
    \/ p.qos = "Burstable" /\ q.qos # "Guaranteed"
    \/ p.qos = "BestEffort" /\ q.qos = "BestEffort"
QOSLess(p, q) == p.priority > q.priority \/ (p.priority = q.priority /\ compQOS(p, q))

-----------------------------------------------------------------------------
(* PodState and NodeResourcesAllocatable *)

\* score of PodState: the terminating pods of a node minus those nominated to it.
PodStateScore(node) == node.terminating - node.nominated

\* resourceScorer of NodeResourcesAllocatable, with score.  The request of the
\* pod is computed too, and not used.
AllocatableScore(node, weights, mode) ==
    LET Score(r) == IF mode = "Least" THEN -node[r] ELSE node[r]
    IN  Quo(SumFunction([r \in DOMAIN weights |-> Score(r) * weights[r]]), SumFunction(weights))

\* NormalizeScore of both.
NormalizeScore(scores) ==
    LET values == {scores[n] : n \in DOMAIN scores}
        oldRange == Max(values) - Min(values)
    IN  [n \in DOMAIN scores |->
            IF oldRange = 0 THEN 0 ELSE ((scores[n] - Min(values)) * MaxNodeScore) \div oldRange]

-----------------------------------------------------------------------------
(* Trimaran *)

\* A container: its CPU request and limit, -1 for none.
PredictUtilisation(c, default, multiplier) ==
    IF c.limit >= 0 THEN c.limit
    ELSE IF c.request >= 0 THEN Round(c.request * multiplier, 100)
    ELSE default

\* What the containers of a pod and its overhead are predicted to use.
PodUtilisation(containers, overhead, default, multiplier) ==
    SumFunction([i \in DOMAIN containers |-> PredictUtilisation(containers[i], default, multiplier)])
      + overhead

\* Score of TargetLoadPacking for a node of the given capacity and CPU metric
\* (-1 for none), to which the pod and the pods the metrics miss add usage.
TargetLoadPackingScore(node, usage, target) ==
    LET load == node.util * node.capacity + 100 * (usage + node.missing)
        full == 100 * node.capacity
    IN  IF node.util < 0 THEN 0
        ELSE IF node.capacity = 0 THEN target
        ELSE IF load > full THEN 0
        ELSE IF load > target * node.capacity
             THEN Round(target * (full - load), (100 - target) * node.capacity)
        ELSE Round((100 - target) * load + target * target * node.capacity,
                   target * node.capacity)

\* GetResourceData: a later entry replaces an earlier one, but for the latest
\* value after or before an average.
LatestOps == {"", "Latest"}
GetResourceData(metrics, type) ==
    LET At(ops) == {i \in DOMAIN metrics : metrics[i].type = type /\ metrics[i].op \in ops}
        Newest(ops) == IF At(ops) = {} THEN 0 ELSE metrics[Max(At(ops))].value
    IN  [avg |-> IF At({"AVG"}) = {} THEN Newest(LatestOps) ELSE Newest({"AVG"}),
         std |-> Newest({"STD"}),
         valid |-> \E i \in DOMAIN metrics : metrics[i].type = type]

\* computeScore, with CreateResourceStats and GetMuSigma, at sensitivity 1:
\* everything is in hundredths of the capacity.
computeScore(data, req, capacity, margin) ==
    LET full == 100 * capacity
        mu == AtMost(AtMost(data.avg, 100) * capacity + 100 * req, full)
        sigma == AtMost(margin * AtMost(data.std, 100) * capacity, full)
    IN  IF capacity <= 0 THEN 0 ELSE Round(2 * full - mu - sigma, 2 * capacity)

\* Score of LoadVariationRiskBalancing.
RiskBalancingScore(metrics, req, capacity, margin) ==
    LET cpu == GetResourceData(metrics, "CPU")
        memory == GetResourceData(metrics, "Memory")
        cpuScore == IF cpu.valid THEN computeScore(cpu, req.cpu, capacity.cpu, margin) ELSE 0
        memoryScore == IF memory.valid
                       THEN computeScore(memory, req.memory, capacity.memory, margin) ELSE 0
    IN  IF cpu.valid /\ memory.valid THEN AtMost(cpuScore, memoryScore)
        ELSE AtLeast(cpuScore, memoryScore)

\* GetEffectiveResource of the requests or the limits of a pod, of one resource.
GetEffectiveResource(pod, field) ==
    Max({SumFunction([i \in DOMAIN pod.app |-> AtLeast(pod.app[i][field], 0)])}
        \cup {AtLeast(pod.init[i][field], 0) : i \in DOMAIN pod.init}) + pod.overhead

\* CreatePodResourcesStateData, with SetMaxLimits.
PodResources(pod) ==
    LET requests == GetEffectiveResource(pod, "request")
    IN  [requests |-> requests,
         limits |-> AtLeast(GetEffectiveResource(pod, "limit"), requests)]

\* GetNodeRequestsAndLimits: the pods of the node and the pending pod.
GetNodeRequestsAndLimits(pods, pod, capacity) ==
    LET Requests(s) == SumFunction([i \in DOMAIN s |-> PodResources(s[i]).requests])
        Limits(s) == SumFunction([i \in DOMAIN s |-> PodResources(s[i]).limits])
    IN  [request |-> AtMost(Requests(Append(pods, pod)), capacity),
         limit |-> Limits(Append(pods, pod)),
         requestMinusPod |-> AtMost(Requests(pods), capacity),
         limitMinusPod |-> Limits(pods)]

\* The part of computeRisk that limits have, a fraction.
riskLimit(r, capacity) ==
    IF r.limit > capacity THEN [num |-> r.limit - capacity, den |-> r.limit - r.request]
    ELSE [num |-> 0, den |-> 1]

-----------------------------------------------------------------------------
(* Properties *)

\* Less of Coscheduling is a strict total order while the client's answers stay
\* the same, whether or not it finds the groups; and it keeps a group together:
\* no pod of its priority comes between two members, unless its time is that of
\* the group.  Less of QOSSort is transitive and total, and never puts a lower
\* class first.
OrdersSound(groups, pods) ==
    LET Less(p, q) == CoschedulingLess(groups, p, q)
        Rank(p) == CHOOSE i \in 1 .. 3 : <<"BestEffort", "Burstable", "Guaranteed">>[i] = p.qos
    IN  /\ \A p, q \in pods :
              /\ p # q => (Less(p, q) <=> ~Less(q, p))
              /\ ~Less(p, p)
              /\ QOSLess(p, q) \/ QOSLess(q, p)
              /\ p.priority = q.priority /\ Rank(p) < Rank(q) => ~QOSLess(p, q)
        /\ \A p, q, r \in pods :
              /\ Less(p, q) /\ Less(q, r) => Less(p, r)
              /\ QOSLess(p, q) /\ QOSLess(q, r) => QOSLess(p, r)
              /\ p.group = r.group /\ p.group \in DOMAIN groups /\ q.group # p.group
                   /\ Less(p, q) /\ Less(q, r) /\ p.priority = r.priority
                 => GetCreationTimestamp(groups, q) = groups[p.group]

\* TargetLoadPacking fills nodes up to the target and spreads beyond it: up to
\* the target the fuller of two nodes of one size is never behind, beyond it
\* never ahead, a node that stays within the target is never behind one that
\* does not, and one without metrics is never ahead.
PackingSound(nodes, usage, target) ==
    LET Score(n) == TargetLoadPackingScore(n, usage, target)
        Load(n) == n.util * n.capacity + 100 * (usage + n.missing)
        Within(n) == Load(n) <= target * n.capacity
    IN  \A m, n \in nodes :
          /\ Score(n) \in 0 .. MaxNodeScore
          /\ m.util < 0 => Score(m) <= Score(n)
          /\ m.util >= 0 /\ n.util >= 0 =>
                /\ Within(m) /\ ~Within(n) => Score(m) >= Score(n)
                /\ m.capacity = n.capacity /\ Load(m) < Load(n) =>
                      /\ Within(n) => Score(m) <= Score(n)
                      /\ ~Within(m) => Score(m) >= Score(n)

\* LoadVariationRiskBalancing does not depend on the order in which the average
\* and the deviation of a resource are reported, and of two capacities it never
\* prefers the smaller for the same measured percents.
RiskBalancingSound(metrics, req, capacity) ==
    LET Score(s, c) == RiskBalancingScore(s, req, c, 1)
        Op(m) == IF m.op \in LatestOps THEN "Latest" ELSE m.op
        Named == \A i, j \in DOMAIN metrics : i # j =>
                    <<metrics[i].type, Op(metrics[i])>> # <<metrics[j].type, Op(metrics[j])>>
    IN  /\ Score(metrics, capacity) \in 0 .. MaxNodeScore
        /\ Named => Score(Reverse(metrics), capacity) = Score(metrics, capacity)
        /\ \A r \in {"cpu", "memory"} :
              Score(metrics, [capacity EXCEPT ![r] = 2 * @]) >= Score(metrics, capacity)

\* The risk of LowRiskOverCommitment is a number from 0 to 1 on every node,
\* whatever is requested beyond the capacity: its denominator is never 0.  It is
\* not 0 exactly when the limits exceed the capacity, and a pod never lowers
\* the limits of the node.
RiskLimitSound(pods, pod, capacity) ==
    LET r == GetNodeRequestsAndLimits(pods, pod, capacity)
        risk == riskLimit(r, capacity)
    IN  /\ risk.den > 0 /\ risk.num \in 0 .. risk.den
        /\ risk.num > 0 <=> r.limit > capacity
        /\ r.request <= r.limit /\ r.requestMinusPod <= r.limitMinusPod
        /\ r.requestMinusPod <= r.request /\ r.limitMinusPod <= r.limit

\* Of two nodes one with no less of any resource is never behind in mode Most and
\* never ahead in mode Least, however the quotients are cut off, and of two nodes
\* one with more terminating and no more nominated pods is never behind for
\* PodState; the best gets 100 and the worst 0 if they differ.
NormalizedSound(nodes, weights) ==
    LET Least == NormalizeScore([n \in DOMAIN nodes |-> AllocatableScore(nodes[n], weights, "Least")])
        Most == NormalizeScore([n \in DOMAIN nodes |-> AllocatableScore(nodes[n], weights, "Most")])
        State == NormalizeScore([n \in DOMAIN nodes |-> PodStateScore(nodes[n])])
        InRange(f) ==
            /\ \A n \in DOMAIN f : f[n] \in 0 .. MaxNodeScore
            /\ (\E m, n \in DOMAIN f : f[m] # f[n]) =>
                  (\E n \in DOMAIN f : f[n] = 0) /\ (\E n \in DOMAIN f : f[n] = MaxNodeScore)
    IN  /\ InRange(Least) /\ InRange(Most) /\ InRange(State)
        /\ \A m, n \in DOMAIN nodes :
              /\ (\A r \in DOMAIN weights : nodes[m][r] <= nodes[n][r]) =>
                    Most[m] <= Most[n] /\ Least[m] >= Least[n]
              /\ nodes[m].terminating <= nodes[n].terminating /\ nodes[m].nominated >= nodes[n].nominated
                 => State[m] <= State[n]
=============================================================================
