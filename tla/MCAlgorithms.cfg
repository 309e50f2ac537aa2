SPECIFICATION AlgorithmsSpec
CONSTANTS
    MaxQuantity = 2
    MaxContainers = 3
    Utilisations = {0, 30, 50, 90}
    RequestLists <- MCRequestLists
    AvailableLists <- MCAvailableLists
    DistanceLists <- MCDistanceLists
    NUMALists <- MCNUMALists
    NUMALevels <- MCNUMALevels
    NUMAPods <- MCNUMAPods
    Networks <- MCNetworks
    PodsOfGroups <- MCPodsOfGroups
    TopologyOrders <- MCTopologyOrders
    TopologyPods <- MCTopologyPods
    GangTimes <- MCGangTimes
    QueuedPods <- MCQueuedPods
    PackedNodes <- MCPackedNodes
    PackedPods <- MCPackedPods
    PackingTargets = {40, 70, 100}
    MetricLists <- MCMetricLists
    MeasuredRequests <- MCMeasuredRequests
    MeasuredCapacities <- MCMeasuredCapacities
    LimitedPods <- MCLimitedPods
    LimitedNodes <- MCLimitedNodes
    LimitedCapacities <- MCLimitedCapacities
    AllocatableNodes <- MCAllocatableNodes
    ResourceWeights <- MCResourceWeights
INVARIANTS
    FilterPlaceable
    LeastNUMAIsLeast
    NearerIsBetter
    RankingsSound
CHECK_DEADLOCK FALSE
