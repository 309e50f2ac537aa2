---------------------------- MODULE MCAlgorithms ----------------------------
(***************************************************************************)
(* Small inputs for the pure algorithms.                                   *)
(***************************************************************************)
EXTENDS Algorithms

CONSTANTS MaxQuantity, MaxContainers, Utilisations

-----------------------------------------------------------------------------
(* NUMA: two or three NUMA nodes, of which the third may not list its        *)
(* distances; a pod of some containers and at most one init container.       *)

Requests ==
    [{"cpu"} -> 1 .. MaxQuantity] \cup [{"cpu", "device"} -> {1}] \cup [{"device"} -> {1}]
    \cup {[cpu |-> 1, device |-> 0]}
MCRequestLists == Requests \cup {[cpu |-> 2, device |-> 1]}
MCAvailableLists == {[cpu |-> 1], [cpu |-> 3], [cpu |-> 0, device |-> 2], [cpu |-> 2, device |-> 1]}
Distances == {<<<<10, 12, 20>>, <<12, 10, 20>>, <<20, 20, 10>>>>, <<<<10, 20>>, <<20, 10>>, <<>>>>}
MCDistanceLists == {costs[i] : costs \in Distances, i \in 1 .. 3}

QosOf(containers) ==
    IF \A i \in DOMAIN containers : "cpu" \in DOMAIN containers[i] THEN {"Guaranteed", "Burstable"}
    ELSE IF \E i \in DOMAIN containers : "cpu" \in DOMAIN containers[i] THEN {"Burstable"}
    ELSE {"BestEffort"}

MCNUMALists ==
    UNION {{[i \in 1 .. n |-> [res |-> res[i], costs |-> costs[i]]] :
               res \in [1 .. n -> MCAvailableLists], costs \in Distances} : n \in 2 .. 3}
MCNUMALevels == {{"cpu"}, {"cpu", "device"}}
MCNUMAPods ==
    {pod \in [init : {<<>>, <<[cpu |-> 1]>>, <<[cpu |-> 2, device |-> 1]>>},
              app : UNION {[1 .. n -> Requests] : n \in 1 .. MaxContainers},
              qos : {"Guaranteed", "Burstable", "BestEffort"}] :
        pod.qos \in QosOf(pod.init \o pod.app)}

-----------------------------------------------------------------------------
(* The network: two regions of which one has two zones, a node without       *)
(* labels, and a pod that depends on up to two workloads.                    *)

Labelled == <<[region |-> 1, zone |-> 3], [region |-> 1, zone |-> 4], [region |-> 1, zone |-> 3],
              [region |-> 2, zone |-> 5], [region |-> 0, zone |-> 0]>>

Arranged(s) == {[i \in DOMAIN s |-> s[f[i]]] :
                  f \in {g \in [DOMAIN s -> DOMAIN s] : \A i, j \in DOMAIN s : i # j => g[i] # g[j]}}
NoCosts == [to \in {} |-> 0]
To(name, cost) == [to \in {name} |-> cost]
ZoneOrigins(known) ==
    <<[origin |-> 3, costs |-> IF known THEN To(4, 5) ELSE NoCosts],
      [origin |-> 4, costs |-> To(3, 9)], [origin |-> 5, costs |-> NoCosts]>>
RegionOrigins == <<[origin |-> 1, costs |-> To(2, 40)], [origin |-> 2, costs |-> To(1, 20)]>>
Weights(zones, regions) ==
    <<[key |-> 1, origins |-> regions], [key |-> 2, origins |-> zones]>>

\* Weights of netperf come sorted, manual ones in any order.
WeightsOf(manual, known) ==
    IF ~manual THEN {Weights(ZoneOrigins(known), RegionOrigins)}
    ELSE UNION {Arranged(Weights(zones, regions)) :
                  zones \in Arranged(ZoneOrigins(known)), regions \in Arranged(RegionOrigins)}
NetworksOf(manual, known) ==
    [selector : {1}, cluster : {Labelled}, manual : {manual}, weights : WeightsOf(manual, known),
     workloads : {{[selector |-> 1, dependencies |-> deps], [selector |-> 2, dependencies |-> {}]} :
                    deps \in SUBSET {[selector |-> 2, max |-> 8], [selector |-> 3, max |-> 30]}}]
MCNetworks == UNION {NetworksOf(manual, known) : manual, known \in BOOLEAN}
MCPodsOfGroups ==
    {{[name |-> 1, selector |-> 2, host |-> host2], [name |-> 2, selector |-> 3, host |-> host3],
      [name |-> 3, selector |-> 2, host |-> third]} :
        host2, host3, third \in 0 .. Len(Labelled)}

\* The order of an AppGroup, listed by workload, and two pods of it or not.
MCTopologyOrders ==
    {[i \in 1 .. 3 |-> [selector |-> i, index |-> index[i]]] : index \in Arranged(<<1, 2, 3>>)}
MCTopologyPods == [selector : 1 .. 4, group : 0 .. 2, priority : 0 .. 1, time : 1 .. 2]

-----------------------------------------------------------------------------
(* Queues and scores *)

MCGangTimes == {[g \in {1} |-> 1], [g \in {} |-> 0]}
MCQueuedPods == [name : 1 .. 3, priority : 0 .. 1, ts : 1 .. 2, group : 0 .. 1,
                 qos : {"Guaranteed", "Burstable", "BestEffort"}]

Limits == [request : {-1, 1}, limit : {-1, 0, 2}]
MCPackedNodes == [util : Utilisations \cup {-1}, capacity : {0, 2, 4}, missing : 0 .. 1]
MCPackedPods == {<<c, c>> : c \in Limits}

MCMetricLists ==
    UNION {[1 .. n -> [type : {"CPU", "Memory"}, op : {"AVG", "STD", "Latest", ""}, value : {0, 60, 120}]] :
             n \in 0 .. 2}
MCMeasuredRequests == [cpu : 0 .. 1, memory : {1}]
MCMeasuredCapacities == [cpu : {2}, memory : 1 .. 2]

MCLimitedPods == [app : {<<c>> : c \in Limits}, init : {<<d>> : d \in Limits}, overhead : 0 .. 1]
MCLimitedNodes ==
    UNION {[1 .. n -> [app : {<<c, c>> : c \in Limits}, init : {<<>>}, overhead : {0}]] : n \in 0 .. 2}
MCLimitedCapacities == 1 .. 4

MCAllocatableNodes ==
    [1 .. 3 -> [cpu : {1, 2}, memory : {1, 5}, terminating : 0 .. 1, nominated : 0 .. 2]]
MCResourceWeights == {[cpu |-> 3, memory |-> 2]}
=============================================================================
