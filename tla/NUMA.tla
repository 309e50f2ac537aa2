-------------------------------- MODULE NUMA --------------------------------
(***************************************************************************)
(* The decisions of NodeResourceTopologyMatch on one node: the filter of   *)
(* the single-numa-node policy, for a pod and for its containers one after *)
(* the other (filter.go), the score of the least NUMA nodes                *)
(* (least_numa.go) and the scores of the allocation strategies.            *)
(*                                                                         *)
(* A resource list is a function from some resources to quantities.  A     *)
(* NUMA node is a record of the resources available there and the          *)
(* distances to the others; the list createNUMANodeList makes of them is a *)
(* non-empty sequence whose index is the NUMA ID plus one, which           *)
(* subtractFromNUMAs takes for granted.                                    *)
(***************************************************************************)
EXTENDS Integers, Sequences, FiniteSets, FiniteSetsExt

\* Resources: "cpu" and "memory" are native and NUMA-aware; "device" is neither
\* native nor, unless a NUMA node lists it, NUMA-aware; "storage" (ephemeral)
\* is native and never NUMA-aware.
Native == {"cpu", "memory", "storage"}

Get(list, r) == IF r \in DOMAIN list THEN list[r] ELSE 0

\* A pod: the requests of its init containers and containers, and its QoS class.
\* IncludeNonNative of a pod.
Containers(pod) == pod.init \o pod.app
Requested(pod) == UNION {DOMAIN Containers(pod)[i] : i \in DOMAIN Containers(pod)}
IncludeNonNative(pod) == ~(Requested(pod) \subseteq Native)

\* GetPodEffectiveRequest: the sum over the containers or the largest of the
\* init containers, whichever is more.
GetPodEffectiveRequest(pod) ==
    [r \in Requested(pod) |->
        Max({SumFunction([i \in DOMAIN pod.app |-> Get(pod.app[i], r)])}
            \cup {Get(pod.init[i], r) : i \in DOMAIN pod.init})]

-----------------------------------------------------------------------------
(* The filter *)

isResourceSetSuitable(qos, r, quantity, available) ==
    \/ qos # "Guaranteed" /\ r \in {"cpu", "memory"}
    \/ available >= quantity

\* The NUMA nodes a resource leaves possible (the bits of resourceBitmask), or
\* all of them for one that is available at the level of the node only.
ResourceBits(nodes, r, quantity, qos) ==
    LET affine == {i \in DOMAIN nodes : r \in DOMAIN nodes[i].res}
    IN  IF affine = {} /\ r \notin {"cpu", "memory"} THEN DOMAIN nodes
        ELSE {i \in affine : isResourceSetSuitable(qos, r, quantity, nodes[i].res[r])}

\* resourcesAvailableInAnyNUMANodes: the NUMA node it picks, the lowest that
\* every resource leaves possible, or 0 for none.
resourcesAvailableInAnyNUMANodes(nodes, req, qos, nodeRes) ==
    LET needed == {r \in DOMAIN req : req[r] # 0}
        bits == {i \in DOMAIN nodes :
                    \A r \in needed : i \in ResourceBits(nodes, r, req[r], qos)}
    IN  IF ~(needed \subseteq nodeRes) \/ bits = {} THEN 0 ELSE Min(bits)

\* Mutant: the containers are all compared with what was there before the first.
MutSubtractFromNUMA(nodes, id, req) == nodes

\* subtractFromNUMA: every requested resource, one the NUMA node does not list
\* included, which leaves a negative quantity there.
subtractFromNUMA(nodes, id, req) ==
    [nodes EXCEPT ![id].res =
        [r \in DOMAIN @ \cup DOMAIN req |-> Get(@, r) - Get(req, r)]]

\* singleNUMAContainerLevelHandler: init containers one by one, containers each
\* with what those before it left; << >> once one of them has no NUMA node.
AfterContainer(ns, req, qos, nodeRes) ==
    LET id == resourcesAvailableInAnyNUMANodes(ns, req, qos, nodeRes)
    IN  IF ns = << >> \/ id = 0 THEN << >> ELSE subtractFromNUMA(ns, id, req)
LeftByContainers(pod, nodes, nodeRes) ==
    LET left[i \in 0 .. Len(pod.app)] ==
            IF i = 0 THEN nodes
            ELSE AfterContainer(left[i - 1], pod.app[i], pod.qos, nodeRes)
    IN  left
singleNUMAContainerLevelHandler(pod, nodes, nodeRes) ==
    /\ \A i \in DOMAIN pod.init :
          resourcesAvailableInAnyNUMANodes(nodes, pod.init[i], pod.qos, nodeRes) # 0
    /\ LeftByContainers(pod, nodes, nodeRes)[Len(pod.app)] # << >>

singleNUMAPodLevelHandler(pod, nodes, nodeRes) ==
    resourcesAvailableInAnyNUMANodes(nodes, GetPodEffectiveRequest(pod), pod.qos, nodeRes) # 0

\* Filter, for the policy and scope of the node's configuration.
Filter(pod, conf, nodes, nodeRes) ==
    \/ pod.qos = "BestEffort" /\ ~IncludeNonNative(pod)
    \/ conf.policy # "single-numa-node"
    \/ conf.scope = "pod" /\ singleNUMAPodLevelHandler(pod, nodes, nodeRes)
    \/ conf.scope = "container" /\ singleNUMAContainerLevelHandler(pod, nodes, nodeRes)

\* topologyManagerConfigFromNodeResourceTopology: the defaults, the deprecated
\* policies field, then each valid attribute.
topologyManagerConfig(policies, scopeAttr, policyAttr) ==
    [scope |-> IF scopeAttr \in {"container", "pod"} THEN scopeAttr
               ELSE IF policies # << >> THEN policies[1].scope ELSE "container",
     policy |-> IF policyAttr \in {"none", "best-effort", "restricted", "single-numa-node"}
                THEN policyAttr
                ELSE IF policies # << >> THEN policies[1].policy ELSE "none"]

-----------------------------------------------------------------------------
(* The least NUMA nodes *)

MaxNodeScore == 100
highestNUMAID == 8
maxDistanceValue == 255

onlyNonNUMAResources(nodes, req) ==
    \A r \in DOMAIN req, i \in DOMAIN nodes : r \notin DOMAIN nodes[i].res

\* nodesAvgDistance, times the square of the number of nodes.
nodesAvgDistance(nodes, comb) ==
    SumFunction([pair \in comb \X comb |->
                    IF pair[2] \in DOMAIN nodes[pair[1]].costs
                    THEN nodes[pair[1]].costs[pair[2]] ELSE maxDistanceValue])

\* combin.Combinations: the sets of k indices, in the order of their elements.
Before(a, b) == a # b /\ Min((a \cup b) \ (a \cap b)) \in a
Combinations(n, k) == kSubset(k, 1 .. n)
FirstOf(combs) == CHOOSE c \in combs : \A d \in combs : d = c \/ Before(c, d)

isValidCombineResources(nodes, req, comb) ==
    \A i \in comb : DOMAIN req \subseteq DOMAIN nodes[i].res

\* combineResources: what a combination has together of a resource.
combineResources(nodes, r, comb) ==
    SumFunctionOnSet([i \in DOMAIN nodes |-> Get(nodes[i].res, r)], comb)

checkResourcesFit(nodes, req, qos, comb) ==
    \A r \in DOMAIN req :
        \/ req[r] = 0
        \/ isResourceSetSuitable(qos, r, req[r], combineResources(nodes, r, comb))

\* Mutant: the first combination that fits, near or far.
MutFindSuitableCombination(nodes, req, qos, combs) ==
    LET fit == {c \in combs : isValidCombineResources(nodes, req, c) /\ checkResourcesFit(nodes, req, qos, c)}
    IN  IF fit = {} THEN [comb |-> {}, min |-> FALSE] ELSE [comb |-> FirstOf(fit), min |-> TRUE]

\* findSuitableCombination: the first that fits at the smallest distance of all
\* combinations, or else the first at the smallest distance of those that fit.
findSuitableCombination(nodes, req, qos, combs) ==
    LET Distance(c) == nodesAvgDistance(nodes, c)
        fit == {c \in combs : isValidCombineResources(nodes, req, c) /\ checkResourcesFit(nodes, req, qos, c)}
        near == {c \in fit : \A d \in fit : Distance(c) <= Distance(d)}
    IN  IF fit = {} THEN [comb |-> {}, min |-> FALSE]
        ELSE [comb |-> FirstOf(near),
              min |-> \A c \in combs : Distance(FirstOf(near)) <= Distance(c)]

\* numaNodesRequired: what is found with the smallest number of nodes.
numaNodesRequired(nodes, req, qos) ==
    LET Found(k) == findSuitableCombination(nodes, req, qos, Combinations(Len(nodes), k))
        lengths == {k \in 1 .. Len(nodes) : Found(k).comb # {}}
    IN  IF lengths = {} THEN [comb |-> {}, min |-> FALSE] ELSE Found(Min(lengths))

normalizeScore(count, min) ==
    LET numaNodeScore == MaxNodeScore \div highestNUMAID
    IN  MaxNodeScore - count * numaNodeScore + IF min THEN numaNodeScore \div 2 ELSE 0

leastNUMAPodScopeScore(pod, nodes) ==
    LET Score(req, found) ==
            IF onlyNonNUMAResources(nodes, req) THEN MaxNodeScore
            ELSE IF found.comb = {} THEN 0
            ELSE normalizeScore(Cardinality(found.comb), found.min)
        Of(req) == Score(req, numaNodesRequired(nodes, req, pod.qos))
    IN  Of(GetPodEffectiveRequest(pod))

\* subtractFromNUMAs: a request is taken from the nodes of the combination in
\* their order, as much as each has.
subtractFromNUMAs(nodes, req, comb) ==
    [i \in DOMAIN nodes |->
        [nodes[i] EXCEPT !.res = [r \in DOMAIN @ |->
            IF i \notin comb \/ r \notin DOMAIN req THEN @[r]
            ELSE LET before == combineResources(nodes, r, {j \in comb : j < i})
                     rest == IF req[r] > before THEN req[r] - before ELSE 0
                 IN  IF rest > @[r] THEN 0 ELSE @[r] - rest]]]

\* leastNUMAContainerScopeScore, one container after the other: s is what those
\* before it left.
ScoreContainer(s, req, qos) ==
    LET found == numaNodesRequired(s.nodes, req, qos)
        n == Cardinality(found.comb)
    IN  IF ~s.fits \/ onlyNonNUMAResources(s.nodes, req) THEN s
        ELSE IF n = 0 THEN [s EXCEPT !.fits = FALSE]
        ELSE [nodes |-> subtractFromNUMAs(s.nodes, req, found.comb),
              max |-> IF n > s.max THEN n ELSE s.max, min |-> s.min /\ found.min, fits |-> TRUE]
ScoredContainers(pod, nodes) ==
    LET cs == Containers(pod)
        after[i \in 0 .. Len(cs)] ==
            IF i = 0 THEN [nodes |-> nodes, max |-> 0, min |-> TRUE, fits |-> TRUE]
            ELSE ScoreContainer(after[i - 1], cs[i], pod.qos)
    IN  after
leastNUMAContainerScopeScore(pod, nodes) ==
    LET Score(s) == IF ~s.fits THEN 0
                    ELSE IF s.max = 0 THEN MaxNodeScore ELSE normalizeScore(s.max, s.min)
    IN  Score(ScoredContainers(pod, nodes)[Len(Containers(pod))])

-----------------------------------------------------------------------------
(* The allocation strategies *)

leastAllocatedScore(req, cap) ==
    IF cap = 0 \/ req > cap THEN 0 ELSE ((cap - req) * MaxNodeScore) \div cap
mostAllocatedScore(req, cap) ==
    IF cap = 0 \/ req > cap THEN 0 ELSE (req * MaxNodeScore) \div cap

\* A strategy's score of one NUMA node, the resources weighing the same.
StrategyScore(strategy, req, res) ==
    LET Of(r) == IF strategy = "LeastAllocated" THEN leastAllocatedScore(req[r], Get(res, r))
                 ELSE mostAllocatedScore(req[r], Get(res, r))
    IN  SumFunction([r \in DOMAIN req |-> Of(r)]) \div Cardinality(DOMAIN req)

\* scoreForEachNUMANode, one node after the other.
MinScores(scores) ==
    LET minScore[i \in 0 .. Len(scores)] ==
            IF i = 0 THEN 0
            ELSE IF minScore[i - 1] = 0 \/ (scores[i] # 0 /\ scores[i] < minScore[i - 1])
            THEN scores[i] ELSE minScore[i - 1]
    IN  minScore
scoreForEachNUMANode(strategy, req, nodes) ==
    MinScores([i \in DOMAIN nodes |-> StrategyScore(strategy, req, nodes[i].res)])[Len(nodes)]

podScopeScore(strategy, pod, nodes) ==
    scoreForEachNUMANode(strategy, GetPodEffectiveRequest(pod), nodes)

containerScopeScore(strategy, pod, nodes) ==
    LET cs == Containers(pod)
    IN  SumFunction([i \in DOMAIN cs |-> scoreForEachNUMANode(strategy, cs[i], nodes)]) \div Len(cs)

-----------------------------------------------------------------------------
(* Properties *)

Affine(nodes, r) == \E i \in DOMAIN nodes : r \in DOMAIN nodes[i].res

\* Can the containers be placed, each on one NUMA node, such that none is asked
\* for more than it has?
Placeable(cs, nodes) ==
    \E at \in [DOMAIN cs -> DOMAIN nodes] :
        \A i \in DOMAIN nodes, r \in UNION {DOMAIN cs[j] : j \in DOMAIN cs} :
            LET here == SumFunctionOnSet([j \in DOMAIN cs |-> Get(cs[j], r)],
                                         {j \in DOMAIN cs : at[j] = i})
            IN  ~Affine(nodes, r) \/ here <= Get(nodes[i].res, r)

\* The filter against what the kubelet will do: a Guaranteed pod that the
\* container scope admits can be placed; one that fits a single NUMA node as a
\* whole is admitted by both scopes, unless two of its containers name a
\* resource that only the node lists, of which the first leaves a negative
\* quantity, or nothing at all, behind.
FilterSound(pod, nodes, nodeRes) ==
    LET single(scope) == [scope |-> scope, policy |-> "single-numa-node"]
        byContainer == Filter(pod, topologyManagerConfig(<< >>, "container", "single-numa-node"),
                              nodes, nodeRes)
        byPod == Filter(pod, topologyManagerConfig(<<single("pod")>>, "", ""), nodes, nodeRes)
        Shared(r) == ~Affine(nodes, r)
                     /\ \E j, k \in DOMAIN pod.app :
                           j # k /\ r \in DOMAIN pod.app[j] \cap DOMAIN pod.app[k]
    IN  /\ pod.qos = "Guaranteed" /\ byContainer => Placeable(pod.app, nodes)
        /\ byPod /\ ~(\E r \in Requested(pod) : Shared(r)) => byContainer

\* What is found is a set of NUMA nodes that has the request together, of the
\* fewest nodes and at the smallest distance of those, with the bonus exactly
\* when no set of its size is nearer; taking the request off takes off all of it.
Fitting(nodes, req) ==
    {S \in (SUBSET DOMAIN nodes) \ {{}} :
        \A r \in DOMAIN req : /\ \A i \in S : r \in DOMAIN nodes[i].res
                             /\ combineResources(nodes, r, S) >= req[r]}
LeastFound(nodes, req, found) ==
    LET fitting == Fitting(nodes, req)
        left == subtractFromNUMAs(nodes, req, found.comb)
        Near(S, T) == nodesAvgDistance(nodes, S) <= nodesAvgDistance(nodes, T)
        Total(ns, r) == combineResources(ns, r, DOMAIN ns)
        Alike(S) == Cardinality(S) = Cardinality(found.comb)
    IN  IF fitting = {} THEN found.comb = {}
        ELSE /\ found.comb \in fitting
             /\ \A S \in fitting : /\ Cardinality(found.comb) <= Cardinality(S)
                                   /\ Alike(S) => Near(found.comb, S)
             /\ found.min <=> \A S \in SUBSET DOMAIN nodes : Alike(S) => Near(found.comb, S)
             /\ \A r \in DOMAIN req : Total(left, r) = Total(nodes, r) - req[r]

\* The score of the least NUMA nodes is what an exhaustive search finds; it
\* agrees with the filter on what fits one NUMA node, as a whole and container
\* by container; and a strategy's score of a node is the smallest of its NUMA
\* nodes' that is not zero.  req is the pod's request, and found what
\* numaNodesRequired answers for it.
NUMAScoresSound(pod, nodes, nodeRes, req, found) ==
    LET Smallest(S, score) == score = IF S = {} THEN 0 ELSE Min(S)
    IN  /\ pod.qos = "Guaranteed" =>
              /\ LeastFound(nodes, req, found)
              /\ leastNUMAPodScopeScore(pod, nodes) > 0 <=>
                    found.comb # {} \/ onlyNonNUMAResources(nodes, req)
              /\ singleNUMAPodLevelHandler(pod, nodes, nodeRes)
                   /\ (\A i \in DOMAIN nodes : DOMAIN req \subseteq DOMAIN nodes[i].res)
                 => /\ Cardinality(found.comb) = 1
                    /\ pod.init = << >> =>
                          leastNUMAContainerScopeScore(pod, nodes) >= normalizeScore(1, FALSE)
        /\ \A strategy \in {"LeastAllocated", "MostAllocated"} :
              Smallest({StrategyScore(strategy, req, nodes[i].res) : i \in DOMAIN nodes} \ {0},
                       podScopeScore(strategy, pod, nodes))
        /\ Len(Containers(pod)) = 1 =>
              containerScopeScore("LeastAllocated", pod, nodes) = podScopeScore("LeastAllocated", pod, nodes)
=============================================================================
