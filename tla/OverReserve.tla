---------------------------- MODULE OverReserve -----------------------------
(***************************************************************************)
(* The over-reserving cache of the NodeResourceTopologyMatch plugin        *)
(* (pkg/noderesourcetopology/cache): the cached NodeResourceTopology (NRT) *)
(* of a node, the pods assumed on it since, the marks that make a node     *)
(* dirty, and the Resync loop, a goroutine that compares the pods the      *)
(* lister has on a dirty node with the fingerprint of the node's latest    *)
(* NRT and, when they agree, replaces what the cache holds.                *)
(*                                                                         *)
(* The kubelets, the agents that publish NRTs, the pod informer and the    *)
(* scheduling framework are the environment.  Resources are one dimension, *)
(* a fingerprint is the set of pods it was computed from, and every method *)
(* of the cache that holds its lock is one step.                           *)
(***************************************************************************)
EXTENDS Integers, FiniteSets, Functions

CONSTANTS
    Nodes,
    Zones,           \* the NUMA zones of a node
    Capacity,        \* of a zone
    Pods,
    Foreign,         \* pods of a scheduler profile that is not registered
    Exclusive,       \* AreExclusiveForPod: Guaranteed pods with their own resources
    Req,             \* Req[p]: GetPodEffectiveRequest(p)
    ForeignPodsDetect, \* "All" or "OnlyExclusiveResources"
    ResyncMethod,    \* "All", "OnlyExclusiveResources" or "Autodetect"
    AgentMethod,     \* how the agents compute fingerprints, or "None"
    None,
    MaxFaults        \* bound: restarts and failed reads of an NRT

ASSUME PodAssumption ==
    /\ IsFiniteSet(Pods)
    /\ Foreign \subseteq Pods
    /\ Exclusive \subseteq Pods
    /\ Req \in [Pods -> Nat]

ASSUME NodeAssumption ==
    /\ Capacity \in Nat
    /\ None \notin Nodes /\ None \notin Zones
    /\ ForeignPodsDetect \in {"All", "OnlyExclusiveResources"}
    /\ ResyncMethod \in {"All", "OnlyExclusiveResources", "Autodetect"}
    /\ AgentMethod \in {"All", "OnlyExclusiveResources", "None"}
    /\ MaxFaults \in Nat

VARIABLES
    stage,     \* the life of a pod
    node,      \* the node a pod is reserved on or bound to, or None
    zone,      \* the zone the kubelet gave a pod, or None
    nrt,       \* API server: the last NRT an agent published, or None
    seen,      \* the stage of a pod as the pod informer delivered it
    cycle,     \* the scheduling cycle between Filter and its consequence
    nrts,      \* the cached NRTs
    assumedResources,       \* the pods assumed on a node
    nodesMaybeOverreserved, \* nodes a pod was filtered out of
    nodesWithForeignPods,   \* nodes a foreign pod was seen on
    resync,    \* the Resync in progress, or None
    faults

env == <<stage, node, zone, nrt, seen>>
cache == <<nrts, assumedResources, nodesMaybeOverreserved, nodesWithForeignPods>>
vars == <<stage, node, zone, nrt, seen, cycle, nrts, assumedResources,
          nodesMaybeOverreserved, nodesWithForeignPods, resync, faults>>

-----------------------------------------------------------------------------
(* Types and helpers *)

Stages == {"pending", "reserved", "bound", "running", "gone"}
NRT == [avail : [Zones -> Int], pfp : (SUBSET Pods) \cup {None}]

Cycle == [pod : Pods, node : Nodes, step : {"reserve", "discard"}]

\* None stands for a nil pointer and is no cycle.
ASSUME NoneAssumption == None \notin Cycle

\* TotalReq[S]: the requests of the pods of S added up.
TotalReq == [S \in SUBSET Pods |-> SumFunctionOnSet(Req, S)]

RunningOn(n) == {p \in Pods : stage[p] = "running" /\ node[p] = n}

\* What a zone of a node really has left: pods that are not exclusive share.
Free(n, z) == Capacity - TotalReq[{p \in RunningOn(n) \cap Exclusive : zone[p] = z}]

Fingerprint(S, onlyExclRes) == IF onlyExclRes THEN S \cap Exclusive ELSE S

\* The NRT an agent publishes for a node.
Report(n) ==
    [avail |-> [z \in Zones |-> Free(n, z)],
     pfp   |-> IF AgentMethod = "None" THEN None
               ELSE Fingerprint(RunningOn(n), AgentMethod = "OnlyExclusiveResources")]

\* podFingerprintForNodeTopology: does the comparison leave out other pods?
wantsOnlyExclRes ==
    \/ ResyncMethod = "OnlyExclusiveResources"
    \/ ResyncMethod = "Autodetect" /\ AgentMethod = "OnlyExclusiveResources"

\* Mutant: the assumed pods are left out.
MutUpdateNRT(avail, S) == avail

\* Each assumed pod is taken off every zone, down to zero.
UpdateNRT(avail, S) ==
    [z \in Zones |-> IF avail[z] < TotalReq[S] THEN 0 ELSE avail[z] - TotalReq[S]]

\* resourceStore.AddPod and DeletePod on the store of a node, and counter.Incr:
\* how often a node was counted decides nothing.
AddPod(n, p) == [assumedResources EXCEPT ![n] = @ \cup {p}]
DeletePod(n, p) == [assumedResources EXCEPT ![n] = @ \ {p}]
Incr(counter, n) == counter \cup {n}

IsForeignPod(p) ==
    p \in Foreign /\ (ForeignPodsDetect = "All" \/ p \in Exclusive)

\* The single-numa-node filter; only Guaranteed pods are measured.
Fits(p, avail) == p \in Exclusive => \E z \in Zones : avail[z] >= Req[p]

-----------------------------------------------------------------------------
(* The scheduling cycle *)

\* Filter on one node: a node with foreign pods is out, one without a cached
\* NRT is in, and any other is measured with its assumed pods taken off.
Filter(p, n) ==
    /\ cycle = None
    /\ p \notin Foreign /\ stage[p] = "pending"
    /\ n \notin nodesWithForeignPods
    /\ LET avail == UpdateNRT(nrts[n].avail, assumedResources[n])
       IN  cycle' = [pod |-> p, node |-> n,
                     step |-> IF nrts[n] = None \/ Fits(p, avail)
                              THEN "reserve" ELSE "discard"]
    /\ UNCHANGED <<env, cache, resync, faults>>

\* Mutant: the pod's key is counted instead of the node's.
MutNodeMaybeOverReserved ==
    /\ cycle # None /\ cycle.step = "discard"
    /\ nodesMaybeOverreserved' = Incr(nodesMaybeOverreserved, cycle.pod)
    /\ cycle' = None
    /\ UNCHANGED <<env, nrts, assumedResources, nodesWithForeignPods, resync, faults>>

\* The failed filter marks the node, under the lock again.
NodeMaybeOverReserved ==
    /\ cycle # None /\ cycle.step = "discard"
    /\ nodesMaybeOverreserved' = Incr(nodesMaybeOverreserved, cycle.node)
    /\ cycle' = None
    /\ UNCHANGED <<env, nrts, assumedResources, nodesWithForeignPods, resync, faults>>

ReserveNodeResources ==
    /\ cycle # None /\ cycle.step = "reserve"
    /\ assumedResources' = AddPod(cycle.node, cycle.pod)
    /\ nodesMaybeOverreserved' = nodesMaybeOverreserved \ {cycle.node}
    /\ stage' = [stage EXCEPT ![cycle.pod] = "reserved"]
    /\ node' = [node EXCEPT ![cycle.pod] = cycle.node]
    /\ cycle' = None
    /\ UNCHANGED <<zone, nrt, seen, nrts, nodesWithForeignPods, resync, faults>>

\* Mutant: the whole entry of the node is dropped.
MutUnreserve(p) ==
    /\ stage[p] = "reserved"
    /\ assumedResources' = [assumedResources EXCEPT ![node[p]] = {}]
    /\ stage' = [stage EXCEPT ![p] = "pending"]
    /\ node' = [node EXCEPT ![p] = None]
    /\ UNCHANGED <<zone, nrt, seen, cycle, nrts, nodesMaybeOverreserved,
                   nodesWithForeignPods, resync, faults>>

\* Mutant: the assumed pod is left to the next flush.
MutUnreserveKeeps(p) ==
    /\ stage[p] = "reserved"
    /\ stage' = [stage EXCEPT ![p] = "pending"]
    /\ node' = [node EXCEPT ![p] = None]
    /\ UNCHANGED <<zone, nrt, seen, cycle, cache, resync, faults>>

\* A later plugin or the binding fails.
UnreserveNodeResources(p) ==
    /\ stage[p] = "reserved"
    /\ assumedResources' = DeletePod(node[p], p)
    /\ stage' = [stage EXCEPT ![p] = "pending"]
    /\ node' = [node EXCEPT ![p] = None]
    /\ UNCHANGED <<zone, nrt, seen, cycle, nrts, nodesMaybeOverreserved,
                   nodesWithForeignPods, resync, faults>>

-----------------------------------------------------------------------------
(* Resync, one goroutine *)

\* NodesMaybeOverReserved: the dirty nodes are listed.
ResyncDirty ==
    /\ resync = None
    /\ nodesWithForeignPods \cup nodesMaybeOverreserved # {}
    /\ resync' = [step    |-> "list",
                  todo    |-> nodesWithForeignPods \cup nodesMaybeOverreserved,
                  listing |-> {},
                  updates |-> [n \in Nodes |-> None]]
    /\ UNCHANGED <<env, cycle, cache, faults>>

\* makeNodeToPodDataMap: the pods the informer has as Running.
ResyncList ==
    /\ resync # None /\ resync.step = "list"
    /\ resync' = [resync EXCEPT !.step = "get",
                                !.listing = {p \in Pods : seen[p] = "running"}]
    /\ UNCHANGED <<env, cycle, cache, faults>>

\* The pods listed on a node.
ListedOn(n) == {p \in resync.listing : node[p] = n}

\* Does the NRT just read describe the pods listed on the node?  A node that
\* no pod is listed on, and an NRT without a fingerprint, are skipped.
Matches(n) ==
    /\ nrt[n] # None
    /\ ListedOn(n) # {}
    /\ nrt[n].pfp # None
    /\ nrt[n].pfp = Fingerprint(ListedOn(n), wantsOnlyExclRes)

\* One turn of the loop: the node's NRT is read from the API server, which
\* may fail, and kept for the flush when it matches.
ResyncGet(n) ==
    /\ resync # None /\ resync.step = "get" /\ n \in resync.todo
    /\ \/ /\ resync' = [resync EXCEPT
                          !.todo = @ \ {n},
                          !.updates = [@ EXCEPT ![n] = IF Matches(n) THEN nrt[n] ELSE None]]
          /\ UNCHANGED faults
       \/ /\ faults < MaxFaults /\ faults' = faults + 1
          /\ resync' = [resync EXCEPT !.todo = @ \ {n}]
    /\ UNCHANGED <<env, cycle, cache>>

\* The nodes the flush at the end of the loop replaces.
Flushed == {n \in Nodes : resync.updates[n] # None}

\* Mutant: the mark of foreign pods is forgotten.
MutFlushNodes ==
    /\ resync # None /\ resync.step = "get" /\ resync.todo = {}
    /\ nrts' = [n \in Nodes |-> IF n \in Flushed THEN resync.updates[n] ELSE nrts[n]]
    /\ assumedResources' = [n \in Nodes |-> IF n \in Flushed THEN {} ELSE assumedResources[n]]
    /\ nodesMaybeOverreserved' = nodesMaybeOverreserved \ Flushed
    /\ resync' = None
    /\ UNCHANGED <<env, cycle, nodesWithForeignPods, faults>>

FlushNodes ==
    /\ resync # None /\ resync.step = "get" /\ resync.todo = {}
    /\ nrts' = [n \in Nodes |-> IF n \in Flushed THEN resync.updates[n] ELSE nrts[n]]
    /\ assumedResources' = [n \in Nodes |-> IF n \in Flushed THEN {} ELSE assumedResources[n]]
    /\ nodesMaybeOverreserved' = nodesMaybeOverreserved \ Flushed
    /\ nodesWithForeignPods' = nodesWithForeignPods \ Flushed
    /\ resync' = None
    /\ UNCHANGED <<env, cycle, faults>>

-----------------------------------------------------------------------------
(* The pod informer: the lister and the detector of foreign pods *)

\* NodeHasForeignPods: nodes without a cached NRT are ignored.
NodeHasForeignPods(n) ==
    nodesWithForeignPods' =
        IF nrts[n] = None THEN nodesWithForeignPods ELSE Incr(nodesWithForeignPods, n)

\* The watch delivers what the API server has of a pod: additions, updates
\* and deletions alike mark the node of a foreign pod.
PodEvent(p) ==
    /\ stage[p] # "reserved" /\ stage[p] # seen[p]
    /\ seen' = [seen EXCEPT ![p] = stage[p]]
    /\ IF IsForeignPod(p) THEN NodeHasForeignPods(node[p])
       ELSE UNCHANGED nodesWithForeignPods
    /\ UNCHANGED <<stage, node, zone, nrt, cycle, nrts, assumedResources,
                   nodesMaybeOverreserved, resync, faults>>

-----------------------------------------------------------------------------
(* The cluster *)

Bind(p) ==
    /\ stage[p] = "reserved"
    /\ stage' = [stage EXCEPT ![p] = "bound"]
    /\ UNCHANGED <<node, zone, nrt, seen, cycle, cache, resync, faults>>

BindForeign(p, n) ==
    /\ p \in Foreign /\ stage[p] = "pending"
    /\ stage' = [stage EXCEPT ![p] = "bound"]
    /\ node' = [node EXCEPT ![p] = n]
    /\ UNCHANGED <<zone, nrt, seen, cycle, cache, resync, faults>>

\* The kubelet admits a pod on a zone with room, or fails it.
Start(p) ==
    /\ stage[p] = "bound"
    /\ LET room == {z \in Zones : p \in Exclusive => Free(node[p], z) >= Req[p]}
       IN  \/ /\ room # {}
              /\ \E z \in room : zone' = [zone EXCEPT ![p] = z]
              /\ stage' = [stage EXCEPT ![p] = "running"]
           \/ /\ room = {}
              /\ stage' = [stage EXCEPT ![p] = "gone"]
              /\ UNCHANGED zone
    /\ UNCHANGED <<node, nrt, seen, cycle, cache, resync, faults>>

Delete(p) ==
    /\ stage[p] \in {"bound", "running"}
    /\ stage' = [stage EXCEPT ![p] = "gone"]
    /\ UNCHANGED <<node, zone, nrt, seen, cycle, cache, resync, faults>>

Publish(n) ==
    /\ nrt[n] # Report(n)
    /\ nrt' = [nrt EXCEPT ![n] = Report(n)]
    /\ UNCHANGED <<stage, node, zone, seen, cycle, cache, resync, faults>>

-----------------------------------------------------------------------------
Init ==
    /\ stage = [p \in Pods |-> "pending"]
    /\ node = [p \in Pods |-> None]
    /\ zone = [p \in Pods |-> None]
    /\ nrt \in [Nodes -> {None, [avail |-> [z \in Zones |-> Capacity],
                                 pfp |-> IF AgentMethod = "None" THEN None ELSE {}]}]
    /\ seen = [p \in Pods |-> "pending"]
    /\ cycle = None
    /\ nrts = nrt
    /\ assumedResources = [n \in Nodes |-> {}]
    /\ nodesMaybeOverreserved = {}
    /\ nodesWithForeignPods = {}
    /\ resync = None
    /\ faults = 0

\* NewOverReserve lists the NRTs once and starts from empty marks.
NewOverReserve ==
    /\ nrts' = nrt
    /\ assumedResources' = [n \in Nodes |-> {}]
    /\ nodesMaybeOverreserved' = {}
    /\ nodesWithForeignPods' = {}

\* The scheduler stops and starts again: the cache is built anew and the
\* informer lists again.
Restart ==
    /\ faults < MaxFaults /\ faults' = faults + 1
    /\ stage' = [p \in Pods |-> IF stage[p] = "reserved" THEN "pending" ELSE stage[p]]
    /\ node' = [p \in Pods |-> IF stage[p] = "reserved" THEN None ELSE node[p]]
    /\ seen' = [p \in Pods |-> IF stage[p] = "gone" THEN "gone" ELSE "pending"]
    /\ cycle' = None
    /\ UNCHANGED <<zone, nrt>>
    /\ NewOverReserve
    /\ resync' = None

SchedulingCycle ==
    \/ \E p \in Pods, n \in Nodes : Filter(p, n)
    \/ NodeMaybeOverReserved
    \/ ReserveNodeResources

Resync == ResyncDirty \/ ResyncList \/ (\E n \in Nodes : ResyncGet(n)) \/ FlushNodes

Next ==
    \/ SchedulingCycle
    \/ Resync
    \/ \E p \in Pods : \/ UnreserveNodeResources(p) \/ Bind(p) \/ PodEvent(p)
                       \/ Start(p) \/ Delete(p)
                       \/ \E n \in Nodes : BindForeign(p, n)
    \/ \E n \in Nodes : Publish(n)
    \/ Restart

\* wait.Forever calls Resync again and again, informers deliver, agents
\* publish and kubelets act.
Fairness ==
    /\ WF_vars(Resync)
    /\ \A p \in Pods : WF_vars(PodEvent(p)) /\ WF_vars(Start(p))
    /\ \A n \in Nodes : WF_vars(Publish(n))

Spec == Init /\ [][Next]_vars /\ Fairness

-----------------------------------------------------------------------------
(* Properties *)

TypeOK ==
    /\ stage \in [Pods -> Stages]
    /\ node \in [Pods -> Nodes \cup {None}]
    /\ zone \in [Pods -> Zones \cup {None}]
    /\ nrt \in [Nodes -> NRT \cup {None}]
    /\ seen \in [Pods -> Stages \ {"reserved"}]
    /\ cycle \in Cycle \cup {None}
    /\ nrts \in [Nodes -> NRT \cup {None}]
    /\ assumedResources \in [Nodes -> SUBSET Pods]
    /\ nodesMaybeOverreserved \subseteq Nodes
    /\ nodesWithForeignPods \subseteq Nodes
    /\ resync \in [step : {"list", "get"}, todo : SUBSET Nodes, listing : SUBSET Pods,
                   updates : [Nodes -> NRT \cup {None}]] \cup {None}
    /\ faults \in 0 .. MaxFaults

\* A pod is assumed only on the node it was reserved on last, whatever flush,
\* Unreserve and second scheduling came in between: no node keeps paying for a
\* pod that went elsewhere.
AssumedOnNode ==
    \A n \in Nodes : \A p \in assumedResources[n] : node[p] = n

\* The pods that hold resources of a node as far as the scheduler can know:
\* those it placed there, and the foreign ones the informer told of.
Occupants(n) ==
    {p \in Exclusive : /\ node[p] = n
                       /\ stage[p] \in {"reserved", "bound", "running"}
                       /\ p \in Foreign => IsForeignPod(p) /\ seen[p] \in {"bound", "running"}}

\* Is there room for a pod wherever the occupants that have not started end up?
CanHold(n, p) ==
    LET inFlight == {q \in Occupants(n) : stage[q] # "running"}
    IN  \A place \in [inFlight -> Zones] : \E z \in Zones :
            Capacity - TotalReq[{q \in Occupants(n) : IF q \in inFlight THEN place[q] = z
                                                      ELSE zone[q] = z}] >= Req[p]

\* The pessimistic view never causes false positives: a pod that passes the
\* filter of a node with topology data fits one of its zones, wherever the
\* kubelet puts the pods placed there before it.
NoFalsePositives ==
    [][\A p \in Exclusive, n \in Nodes :
          (/\ Req[p] > 0
           /\ cycle = None /\ cycle' = [pod |-> p, node |-> n, step |-> "reserve"]
           /\ nrts[n] # None)
            => CanHold(n, p)]_vars

\* A step without a restart in which a node is flushed only when every pod
\* placed on it was in the listing its fingerprint was checked against.
QuietStep ==
    /\ ~ Restart
    /\ FlushNodes => \A n \in Flushed : Occupants(n) \subseteq resync.listing

QuietFlushSpec == Init /\ [][Next /\ QuietStep]_vars /\ Fairness

\* A pod the cache accounts for: assumed, or in the cached NRT.
Accounted(p) ==
    /\ node[p] # None
    /\ \/ p \in assumedResources[node[p]]
       \/ nrts[node[p]] # None /\ nrts[node[p]].pfp # None /\ p \in nrts[node[p]].pfp

\* Only a flush of its own node, a restart or its own Unreserve makes the cache
\* lose sight of a pod: the steps of other pods, failed schedulings and the
\* flush of other nodes among them, never do.
OnlyFlushForgets ==
    [][\A p \in Pods :
          (Accounted(p) /\ ~ Accounted(p)')
            => \/ node'[p] = None
               \/ faults' # faults
               \/ resync # None /\ resync' = None /\ node[p] \in Flushed]_vars

\* A node stays shut to scheduling only until the next good resync: marked for
\* foreign pods and with some pod running on it, it is eventually open again.
NodeRecovers ==
    \A n \in Nodes :
        <>[](\E p \in Pods : node[p] = n /\ seen[p] = "running")
          => []<>(n \notin nodesWithForeignPods)

=============================================================================
