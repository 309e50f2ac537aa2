-------------------------- MODULE NetworkOverhead --------------------------
(***************************************************************************)
(* The network-aware plugins (pkg/networkaware): NetworkOverhead, which    *)
(* filters and scores nodes by the cost of the network between a pod and   *)
(* those it depends on, and the order of TopologicalSort.                  *)
(*                                                                         *)
(* Names are numbers, which keeps their order; 0 is an absent label.  The  *)
(* cluster says of a node its region and zone.  The weights are a sequence *)
(* of [key, origins], of which the origins are a sequence of               *)
(* [origin, costs].                                                        *)
(***************************************************************************)
EXTENDS Integers, Sequences, FiniteSets, FiniteSetsExt, Functions

MaxCost == 100
SameHostname == 0
SameZone == 1
NetworkTopologyRegion == 1
NetworkTopologyZone == 2

-----------------------------------------------------------------------------
(* util.go *)

\* Mutant: the interval is left one short above.
MutSearch(keys, key) ==
    LET find[interval \in (1 .. Len(keys) + 1) \X (0 .. Len(keys))] ==
            LET low == interval[1]
                high == interval[2]
                mid == (low + high) \div 2
            IN  IF low >= high THEN 0
                ELSE IF keys[mid] = key THEN mid
                ELSE IF keys[mid] < key THEN find[<<mid + 1, high>>] ELSE find[<<low, mid - 1>>]
    IN  find[<<1, Len(keys)>>]

\* The binary search of FindPodOrder, FindOriginCosts and FindTopologyKey: an
\* index, or 0.
Search(keys, key) ==
    LET find[interval \in (1 .. Len(keys) + 1) \X (0 .. Len(keys))] ==
            LET low == interval[1]
                high == interval[2]
                mid == (low + high) \div 2
            IN  IF low > high THEN 0
                ELSE IF keys[mid] = key THEN mid
                ELSE IF keys[mid] < key THEN find[<<mid + 1, high>>] ELSE find[<<low, mid - 1>>]
    IN  find[<<1, Len(keys)>>]

\* The values of a field, by which the lists are sorted and searched.
Keys(s, field) == [i \in DOMAIN s |-> s[i][field]]

FindPodOrder(order, selector) ==
    LET i == Search(Keys(order, "selector"), selector)
    IN  IF i = 0 THEN -1 ELSE order[i].index
FindOriginCosts(origins, origin) ==
    LET i == Search(Keys(origins, "origin"), origin)
    IN  IF i = 0 THEN << >> ELSE origins[i].costs
FindTopologyKey(topology, key) ==
    LET i == Search(Keys(topology, "key"), key)
    IN  IF i = 0 THEN << >> ELSE topology[i].origins

\* GetDependencyList and GetScheduledList: the dependencies of the workloads of
\* the pod's selector, and the pods of the group that have a node.
GetDependencyList(selector, workloads) ==
    UNION {w.dependencies : w \in {v \in workloads : v.selector = selector}}
GetScheduledList(pods) == {p \in pods : p.host # 0}

-----------------------------------------------------------------------------
(* PreFilter *)

\* sortNetworkTopologyCosts and the sort of the origins: manual weights are sorted
\* before each search, those of netperf are taken as sorted.
Arrangements(s) == {[i \in DOMAIN s |-> s[f[i]]] : f \in Bijection(DOMAIN s, DOMAIN s)}
Sorted(manual, s, field) ==
    IF manual
    THEN CHOOSE t \in Arrangements(s) : \A i, j \in DOMAIN t : i < j => t[i][field] <= t[j][field]
    ELSE s

\* The costs the weights have for a name, none for an absent label.
CostsFrom(weights, manual, key, name) ==
    LET origins == FindTopologyKey(Sorted(manual, weights, "key"), key)
    IN  IF name = 0 THEN << >>
        ELSE FindOriginCosts(Sorted(manual, origins, "origin"), name)
CostPairs(name, costs) == [pair \in {<<name, to>> : to \in DOMAIN costs} |-> costs[pair[2]]]

\* populateCostMap of a node: a cost of a zone replaces that of a region of its
\* name.
populateCostMap(weights, manual, region, zone) ==
    LET byZone == CostPairs(zone, CostsFrom(weights, manual, NetworkTopologyZone, zone))
        byRegion == CostPairs(region, CostsFrom(weights, manual, NetworkTopologyRegion, region))
    IN  [pair \in DOMAIN byZone \cup DOMAIN byRegion |->
            IF pair \in DOMAIN byZone THEN byZone[pair] ELSE byRegion[pair]]

\* The pairs of a scheduled pod and a dependency on it.
Dependencies(scheduled, deps) == {pair \in scheduled \X deps : pair[1].selector = pair[2].selector}

\* What of the cost map counts between a node and the host of a pod: the zones
\* within a region, the regions else; 0 for none.
Between(cluster, n, host) ==
    IF cluster[n].region = cluster[host].region THEN <<cluster[n].zone, cluster[host].zone>>
    ELSE <<cluster[n].region, cluster[host].region>>
Unlabelled(cluster, host) == cluster[host].region = 0 /\ cluster[host].zone = 0
Together(cluster, n, host) ==
    cluster[n].region = cluster[host].region /\ cluster[n].zone = cluster[host].zone

\* checkMaxNetworkCostRequirements: the dependencies that are satisfied and
\* those that are violated; one of unknown cost is neither.
Satisfied(cluster, n, costMap, pair) ==
    LET host == pair[1].host
        between == Between(cluster, n, host)
    IN  \/ host = n
        \/ /\ ~Unlabelled(cluster, host)
           /\ \/ Together(cluster, n, host)
              \/ between \in DOMAIN costMap /\ costMap[between] <= pair[2].max

Violated(cluster, n, costMap, pair) ==
    LET host == pair[1].host
        between == Between(cluster, n, host)
    IN  /\ host # n
        /\ \/ Unlabelled(cluster, host)
           \/ /\ ~Together(cluster, n, host)
              /\ between \in DOMAIN costMap /\ costMap[between] > pair[2].max

\* The cost of one dependency and, over all of them, getAccumulatedCost.
Cost(cluster, n, costMap, pair) ==
    LET host == pair[1].host
        between == Between(cluster, n, host)
    IN  IF host = n THEN SameHostname
        ELSE IF Unlabelled(cluster, host) THEN MaxCost
        ELSE IF Together(cluster, n, host) THEN SameZone
        ELSE IF between \in DOMAIN costMap THEN costMap[between] ELSE MaxCost
getAccumulatedCost(cluster, n, costMap, scheduled, deps) ==
    SumFunction([pair \in Dependencies(scheduled, deps) |-> Cost(cluster, n, costMap, pair)])

\* PreFilter: nodes pass and score equally without dependencies or scheduled
\* pods; else it has for every node the numbers Filter and Score use.
Verdicts(cluster, n, costMap, scheduled, deps) ==
    LET pairs == Dependencies(scheduled, deps)
    IN  [satisfied |-> Cardinality({d \in pairs : Satisfied(cluster, n, costMap, d)}),
         violated |-> Cardinality({d \in pairs : Violated(cluster, n, costMap, d)}),
         finalCost |-> getAccumulatedCost(cluster, n, costMap, scheduled, deps)]
PreFilter(c) ==
    LET deps == GetDependencyList(c.selector, c.workloads)
        scheduled == GetScheduledList(c.pods)
        labels == c.cluster
    IN  [scoreEqually |-> deps = {} \/ scheduled = {},
         node |-> [n \in DOMAIN labels |->
                    Verdicts(labels, n, populateCostMap(c.weights, c.manual, labels[n].region,
                                                        labels[n].zone), scheduled, deps)]]

FilterNode(state, n) == state.scoreEqually \/ state.node[n].violated <= state.node[n].satisfied

ScoreNode(state, n) == IF state.scoreEqually THEN 0 ELSE state.node[n].finalCost

\* NormalizeScore, with getMinMaxScores.
NormalizeScore(scores) ==
    LET costs == {scores[n] : n \in DOMAIN scores}
        Scaled(min, max) ==
            IF min = 0 /\ max = 0 THEN scores
            ELSE [n \in DOMAIN scores |->
                    100 - IF max # min THEN (100 * (scores[n] - min)) \div (max - min) ELSE 0]
    IN  Scaled(Min(costs), Max(costs))

-----------------------------------------------------------------------------
(* TopologicalSort *)

\* Less: the order of the group for pods of one AppGroup, else that of the
\* in-tree PrioritySort.
Less(order, p, q) ==
    IF p.group # q.group \/ p.group = 0
    THEN p.priority > q.priority \/ (p.priority = q.priority /\ p.time < q.time)
    ELSE FindPodOrder(order, p.selector) <= FindPodOrder(order, q.selector)

-----------------------------------------------------------------------------
(* Properties *)

\* What the weights say of the cost of a pair, in whatever order they are
\* listed; MaxCost when they say nothing.
Listed(weights, key, from, to) ==
    LET found == {e \in UNION {{w.origins[i] : i \in DOMAIN w.origins} :
                                w \in {v \in {weights[i] : i \in DOMAIN weights} : v.key = key}} :
                    e.origin = from /\ to \in DOMAIN e.costs}
    IN  IF found = {} THEN MaxCost ELSE (CHOOSE e \in found : TRUE).costs[to]

\* The distance of a pair of nodes, from the labels and the weights alone.
Distance(c, n, host) ==
    LET a == c.cluster[n]
        b == c.cluster[host]
    IN  IF n = host THEN SameHostname
        ELSE IF b.region = 0 /\ b.zone = 0 THEN MaxCost
        ELSE IF a = b THEN SameZone
        ELSE IF a.region = b.region THEN Listed(c.weights, NetworkTopologyZone, a.zone, b.zone)
        ELSE Listed(c.weights, NetworkTopologyRegion, a.region, b.region)

\* Nearer nodes are never behind, and the nearest get 100 if any cost is not 0.
Ranked(raw, final) ==
    /\ \A n \in DOMAIN raw : final[n] \in 0 .. 100
    /\ \A m, n \in DOMAIN raw : raw[m] < raw[n] => final[m] >= final[n]
    /\ (\E n \in DOMAIN raw : raw[n] # 0) =>
          \A m \in DOMAIN raw : (\A n \in DOMAIN raw : raw[m] <= raw[n]) => final[m] = 100

\* Through the sorts, the binary searches, the cost map and the normalisation:
\* the cost of a node is the sum of its distances to the pods depended on; a
\* node all of whose dependencies are within their maximum passes the filter,
\* and one with more dependencies known to be too far than near does not; and
\* the scores rank the nodes that pass by their cost.  state is what PreFilter
\* made of c, pairs are the dependencies, and raw the scores.
NetworkSound(c, state, pairs, raw) ==
    ~state.scoreEqually =>
      /\ \A n \in DOMAIN c.cluster :
            LET far == {d \in pairs : Distance(c, n, d[1].host) > d[2].max}
                unknown == {d \in pairs : Distance(c, n, d[1].host) = MaxCost}
            IN  /\ state.node[n].finalCost = SumFunction([d \in pairs |-> Distance(c, n, d[1].host)])
                /\ far = {} => FilterNode(state, n)
                /\ Cardinality(far \ unknown) > Cardinality(pairs \ far) => ~FilterNode(state, n)
      /\ Ranked(raw, NormalizeScore(raw))

\* In an AppGroup the pods leave the queue in the order of its status, those of
\* one workload either way round and those the status does not name first; pods
\* of no common group leave by priority and time.
TopologicalSound(order, p, q) ==
    LET Index(pod) == {order[i].index : i \in {j \in DOMAIN order : order[j].selector = pod.selector}}
        Earlier == \E i \in Index(p) \cup {-1}, k \in Index(q) :
                      i < k /\ (i = -1 => Index(p) = {})
    IN  IF p.group = q.group /\ p.group # 0
        THEN /\ Earlier => Less(order, p, q) /\ ~Less(order, q, p)
             /\ Index(p) = Index(q) => Less(order, p, q) /\ Less(order, q, p)
        ELSE ~(Less(order, p, q) /\ Less(order, q, p))
=============================================================================
