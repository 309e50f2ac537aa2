---------------------------- MODULE Algorithms -----------------------------
(***************************************************************************)
(* The pure algorithms of the plugins: the decisions of                    *)
(* NodeResourceTopologyMatch on a node, the network-aware plugins, and the *)
(* queue orders and scores.  A behaviour picks a problem in one or two     *)
(* steps, the surroundings and then the question, from the inputs that     *)
(* are constants here; the properties are about every problem picked.      *)
(***************************************************************************)
EXTENDS Integers, Sequences, FiniteSets

Numa == INSTANCE NUMA
Network == INSTANCE NetworkOverhead
Scores == INSTANCE Scores

CONSTANTS
    RequestLists, AvailableLists, DistanceLists, \* of a container, of a NUMA node,
    NUMALists, NUMALevels, NUMAPods,       \* lists of NUMA nodes, resources of a node, pods
    Networks, PodsOfGroups,                \* labels, weights and workloads, pods of a group
    TopologyOrders, TopologyPods,          \* the order of an AppGroup, and pods
    GangTimes, QueuedPods,                 \* when PodGroups were created, queued pods
    PackedNodes, PackedPods, PackingTargets,
    MetricLists, MeasuredRequests, MeasuredCapacities,
    LimitedPods, LimitedNodes, LimitedCapacities,
    AllocatableNodes, ResourceWeights

VARIABLE problem

-----------------------------------------------------------------------------
(* What the inputs are *)

\* Lists of some resources, or of distances to some NUMA nodes.  A node has at most
\* highestNUMAID NUMA nodes; a container names at least one resource.
ASSUME NUMAInputs ==
    /\ \A list \in RequestLists \cup AvailableLists \cup DistanceLists : list \in [DOMAIN list -> Nat]
    /\ \A list \in RequestLists : IsFiniteSet(DOMAIN list) /\ DOMAIN list # {}
    /\ NUMALists \subseteq Seq([res : AvailableLists, costs : DistanceLists])
    /\ \A nodes \in NUMALists : Len(nodes) \in 1 .. Numa!highestNUMAID
    /\ NUMAPods \subseteq [init : Seq(RequestLists), app : Seq(RequestLists),
                          qos : {"Guaranteed", "Burstable", "BestEffort"}]
    /\ \A pod \in NUMAPods : Len(pod.init) + Len(pod.app) > 0

\* The keys of the weights are sorted if netperf wrote them, and so are the origins
\* of each; an origin is a name.  The region of a node is not called as its zone,
\* and the maximum of a dependency is from the cost of a zone up to MaxCost.
Keyed(s, field) ==
    /\ Len(s) \in Nat /\ DOMAIN s = 1 .. Len(s)
    /\ \A i \in DOMAIN s : s[i][field] \in Int
    /\ \A i, j \in DOMAIN s : s[i][field] = s[j][field] => i = j
Ascending(keys) ==
    /\ keys \in Seq(Int)
    /\ \A i, j \in DOMAIN keys : i < j => keys[i] < keys[j]
SortedBy(s, field) == DOMAIN s = 1 .. Len(s) /\ Ascending(Network!Keys(s, field))
Given(manual, s, field) == Keyed(s, field) /\ (~manual => SortedBy(s, field))
Origins(manual, origins) ==
    /\ Given(manual, origins, "origin")
    /\ \A i \in DOMAIN origins : /\ origins[i].origin # 0
                                 /\ \A to \in DOMAIN origins[i].costs : origins[i].costs[to] \in Nat
WeightsGiven(manual, weights) ==
    /\ Given(manual, weights, "key")
    /\ \A i \in DOMAIN weights : Origins(manual, weights[i].origins)
ClusterGiven(cluster) ==
    /\ IsFiniteSet(DOMAIN cluster)
    /\ \A n \in DOMAIN cluster : /\ cluster[n] \in [region : Int, zone : Int]
                                 /\ cluster[n].region = cluster[n].zone => cluster[n].region = 0
ASSUME NetworkInputs ==
    /\ \A net \in Networks :
          /\ ClusterGiven(net.cluster) /\ WeightsGiven(net.manual, net.weights)
          /\ \A deps \in {Network!GetDependencyList(net.selector, net.workloads)} :
                IsFiniteSet(deps) /\ \A d \in deps : d.max \in Network!SameZone .. Network!MaxCost - 1
    /\ \A pods \in PodsOfGroups : IsFiniteSet(pods)
    /\ TopologyOrders \subseteq Seq([selector : Int, index : Nat])
    /\ \A order \in TopologyOrders : SortedBy(order, "selector")
    /\ TopologyPods \subseteq [selector : Int, group : Int, priority : Int, time : Int]

\* Absent requests, limits and metrics are below zero; targets are percents.
Amount == [request : Int, limit : Int]
PodSpecs == [app : Seq(Amount), init : Seq(Amount), overhead : Nat]
QueuedPodType == [name : Nat, priority : Int, ts : Int, group : Nat,
                  qos : {"Guaranteed", "Burstable", "BestEffort"}]
ASSUME ScoreInputs ==
    /\ \A times \in GangTimes : \A g \in DOMAIN times : times[g] \in Int
    /\ QueuedPods \subseteq QueuedPodType
    /\ PackedNodes \subseteq [util : Int, capacity : Nat, missing : Nat]
    /\ PackedPods \subseteq Seq(Amount) /\ PackingTargets \subseteq 1 .. 100
    /\ MetricLists \subseteq Seq([type : STRING, op : STRING, value : Nat])
    /\ MeasuredRequests \cup MeasuredCapacities \subseteq [cpu : Nat, memory : Nat]
    /\ LimitedPods \subseteq PodSpecs /\ LimitedNodes \subseteq Seq(PodSpecs) /\ LimitedCapacities \subseteq Nat
    /\ \A weights \in ResourceWeights :
          /\ IsFiniteSet(DOMAIN weights) /\ DOMAIN weights # {}
          /\ \A r \in DOMAIN weights : weights[r] \in Nat \ {0}
          /\ \A nodes \in AllocatableNodes : \A n \in DOMAIN nodes, r \in DOMAIN weights : nodes[n][r] \in Nat
    /\ \A nodes \in AllocatableNodes :
          /\ IsFiniteSet(DOMAIN nodes) /\ DOMAIN nodes # {}
          /\ \A n \in DOMAIN nodes : nodes[n].terminating \in Nat /\ nodes[n].nominated \in Nat

-----------------------------------------------------------------------------
(* The problems *)

Of(kind) == problem.kind = kind

PickNUMANodes ==
    /\ Of("none")
    /\ \E nodes \in NUMALists, nodeRes \in NUMALevels :
          /\ \A i \in DOMAIN nodes : DOMAIN nodes[i].res \subseteq nodeRes
          /\ problem' = [kind |-> "nodes", nodes |-> nodes, nodeRes |-> nodeRes]
PickNUMAPod ==
    /\ Of("nodes")
    /\ \E pod \in NUMAPods :
          problem' = [kind |-> "numa", nodes |-> problem.nodes, nodeRes |-> problem.nodeRes, pod |-> pod]

\* The pods of the group are on nodes that are there, or wait.
PickNetwork ==
    /\ Of("none")
    /\ \E net \in Networks : problem' = [kind |-> "cluster", net |-> net]
PickPodsOfGroup ==
    /\ Of("cluster")
    /\ \E pods \in PodsOfGroups :
          /\ \A p \in pods : p.host = 0 \/ p.host \in DOMAIN problem.net.cluster
          /\ problem' = [kind |-> "network",
                         c |-> [selector |-> problem.net.selector, workloads |-> problem.net.workloads,
                                cluster |-> problem.net.cluster, weights |-> problem.net.weights,
                                manual |-> problem.net.manual, pods |-> pods]]

PickTopology ==
    /\ Of("none")
    /\ \E order \in TopologyOrders, p, q \in TopologyPods :
          problem' = [kind |-> "topology", order |-> order, p |-> p, q |-> q]

\* Three pods of a queue, in the order of their names.
PickQueued ==
    /\ Of("none")
    /\ \E p \in QueuedPods, groups \in GangTimes :
          problem' = [kind |-> "first", groups |-> groups, p |-> p]
PickQueue ==
    /\ Of("first")
    /\ \E q, r \in QueuedPods :
          /\ problem.p.name < q.name /\ q.name < r.name
          /\ problem' = [kind |-> "queue", groups |-> problem.groups, pods |-> {problem.p, q, r}]

PickPacking ==
    /\ Of("none")
    /\ \E target \in PackingTargets, pod \in PackedPods, m, n \in PackedNodes :
          problem' = [kind |-> "packing", target |-> target, nodes |-> {m, n},
                      usage |-> Scores!PodUtilisation(pod, 0, 1, 150)]

PickMeasured ==
    /\ Of("none")
    /\ \E metrics \in MetricLists, req \in MeasuredRequests, capacity \in MeasuredCapacities :
          problem' = [kind |-> "risk", metrics |-> metrics, req |-> req, capacity |-> capacity]

PickLimited ==
    /\ Of("none")
    /\ \E pods \in LimitedNodes, pod \in LimitedPods, capacity \in LimitedCapacities :
          problem' = [kind |-> "limit", pods |-> pods, pod |-> pod, capacity |-> capacity]

PickAllocatable ==
    /\ Of("none")
    /\ \E nodes \in AllocatableNodes, weights \in ResourceWeights :
          problem' = [kind |-> "normalize", nodes |-> nodes, weights |-> weights]

AlgorithmsInit == problem = [kind |-> "none"]
AlgorithmsNext ==
    \/ PickNUMANodes \/ PickNUMAPod \/ PickNetwork \/ PickPodsOfGroup \/ PickTopology
    \/ PickQueued \/ PickQueue \/ PickPacking \/ PickMeasured \/ PickLimited \/ PickAllocatable
AlgorithmsSpec == AlgorithmsInit /\ [][AlgorithmsNext]_problem

-----------------------------------------------------------------------------
(* Properties *)

\* What the single-numa-node filter admits the kubelet can place, and the two
\* scopes agree: FilterSound of NUMA.
FilterPlaceable == Of("numa") => Numa!FilterSound(problem.pod, problem.nodes, problem.nodeRes)

\* The NUMA scores are those an exhaustive search gives: NUMAScoresSound of NUMA.
LeastNUMAIsLeast ==
    LET Sound(req) == Numa!NUMAScoresSound(problem.pod, problem.nodes, problem.nodeRes, req,
                          Numa!numaNodesRequired(problem.nodes, req, problem.pod.qos))
    IN  Of("numa") => Sound(Numa!GetPodEffectiveRequest(problem.pod))

\* Costs and filter of NetworkOverhead follow from the labels and the weights
\* however these are listed: NetworkSound of NetworkOverhead.
NearerIsBetter ==
    LET Passed(state) == {n \in DOMAIN problem.c.cluster : Network!FilterNode(state, n)}
        Sound(state) ==
            Network!NetworkSound(problem.c, state,
                Network!Dependencies(Network!GetScheduledList(problem.c.pods),
                                     Network!GetDependencyList(problem.c.selector, problem.c.workloads)),
                [n \in Passed(state) |-> Network!ScoreNode(state, n)])
    IN  Of("network") => Sound(Network!PreFilter(problem.c))

\* The queue orders are orders and keep gangs together, and the scores rank
\* nodes as their plugins intend whatever is rounded: the properties of Scores and
\* TopologicalSound of NetworkOverhead.
RankingsSound ==
    /\ Of("queue") => Scores!OrdersSound(problem.groups, problem.pods)
    /\ Of("topology") => Network!TopologicalSound(problem.order, problem.p, problem.q)
    /\ Of("packing") => Scores!PackingSound(problem.nodes, problem.usage, problem.target)
    /\ Of("risk") => Scores!RiskBalancingSound(problem.metrics, problem.req, problem.capacity)
    /\ Of("limit") => Scores!RiskLimitSound(problem.pods, problem.pod, problem.capacity)
    /\ Of("normalize") => Scores!NormalizedSound(problem.nodes, problem.weights)
=============================================================================
