------------------------------ MODULE Trimaran ------------------------------
(***************************************************************************)
(* The shared parts of the Trimaran plugins (pkg/trimaran): the Collector, *)
(* which polls the load watcher, and the PodAssignEventHandler, which      *)
(* remembers the pods assigned of late; and the use TargetLoadPacking      *)
(* makes of both.  Time is counted in units of half the reporting          *)
(* interval.                                                               *)
(***************************************************************************)
EXTENDS PodEvents

CONSTANTS
    Interval,   \* metricsAgentReportingIntervalSeconds
    MaxTime     \* bound: the clock

ASSUME IntervalAssumption == Interval \in Nat

VARIABLES
    ScheduledPodsCache, \* node -> the entries [pod, ts] in the order they came
    metrics,            \* the end of the window of the metrics, None before the first
    now,
    addedAt,            \* when the handler was told of a pod, or None
    trEvents

trVars == <<ScheduledPodsCache, metrics, now, addedAt, trEvents>>

\* updateCache
Append1(p) ==
    ScheduledPodsCache' = [ScheduledPodsCache EXCEPT
        ![node[p]] = Append(@, [pod |-> p, ts |-> now])]

\* OnAdd: the filter lets assigned pods through, so an update that assigns a pod
\* is an addition.
OnAdd(p) ==
    /\ \/ /\ NextAdded(trEvents, p)
          /\ trEvents' = [trEvents EXCEPT !.added = @ \ {p}]
          /\ IF trEvents.seen[p] # Unassigned
             THEN Append1(p) /\ addedAt' = [addedAt EXCEPT ![p] = now]
             ELSE UNCHANGED <<ScheduledPodsCache, addedAt>>
       \/ /\ trEvents.seen[p] = Unassigned
          /\ NextUpdated(trEvents, p, Assigned)
          /\ trEvents' = [trEvents EXCEPT !.seen[p] = Assigned]
          /\ Append1(p) /\ addedAt' = [addedAt EXCEPT ![p] = now]
    /\ UNCHANGED <<api, metrics, now>>

\* OnUpdate: the node of a pod does not change.
OnUpdate(p) ==
    /\ trEvents.seen[p] # Unassigned
    /\ NextUpdated(trEvents, p, version[p])
    /\ trEvents' = [trEvents EXCEPT !.seen[p] = version[p]]
    /\ UNCHANGED <<api, ScheduledPodsCache, metrics, now, addedAt>>

First(indices) == CHOOSE i \in indices : \A j \in indices : i <= j

\* The first entry of the pod is taken out and the later ones move up.
Without(s, p) ==
    LET ofPod == {i \in DOMAIN s : s[i].pod = p}
    IN  IF ofPod = {} THEN s
        ELSE SubSeq(s, 1, First(ofPod) - 1) \o SubSeq(s, First(ofPod) + 1, Len(s))

\* OnDelete of an assigned pod; the filter keeps others away.
OnDelete(p) ==
    /\ NextDeleted(trEvents, p)
    /\ trEvents' = [trEvents EXCEPT !.deleted = @ \cup {p}]
    /\ ScheduledPodsCache' = IF node[p] = None THEN ScheduledPodsCache
                             ELSE [ScheduledPodsCache EXCEPT ![node[p]] = Without(@, p)]
    /\ UNCHANGED <<api, metrics, now, addedAt>>

\* Mutant: everything up to the first entry that is young is dropped, and that
\* entry with it.
MutCleaned(s) ==
    LET young == {i \in DOMAIN s : s[i].ts + Interval > now}
    IN  IF young = {} THEN s ELSE SubSeq(s, First(young) + 1, Len(s))

\* The search for the first entry that is not too old, and the copy from there.
\* A node without one is left as it is.
Cleaned(s) ==
    LET young == {i \in DOMAIN s : s[i].ts + Interval > now}
    IN  IF young = {} THEN s ELSE SubSeq(s, First(young), Len(s))

cleanupCache ==
    /\ ScheduledPodsCache' = [n \in Nodes |-> Cleaned(ScheduledPodsCache[n])]
    /\ ScheduledPodsCache' # ScheduledPodsCache
    /\ UNCHANGED <<api, metrics, now, addedAt, trEvents>>

\* updateMetrics: the watcher's latest window, which may have ended a while ago;
\* after a failure the old metrics stay.
updateMetrics ==
    /\ \E end \in (IF metrics = None THEN 0 ELSE metrics) .. now :
          metrics' = end /\ metrics' # metrics
    /\ UNCHANGED <<api, ScheduledPodsCache, now, addedAt, trEvents>>

Tick ==
    /\ now < MaxTime
    /\ now' = now + 1
    /\ UNCHANGED <<api, ScheduledPodsCache, metrics, addedAt, trEvents>>

\* The pods whose load TargetLoadPacking's Score adds to the measured load.
missing(n) ==
    {e \in {ScheduledPodsCache[n][i] : i \in DOMAIN ScheduledPodsCache[n]} :
        e.ts > metrics \/ (e.ts <= metrics /\ metrics - e.ts < Interval)}

TrimaranEvent(p) == OnAdd(p) \/ OnUpdate(p) \/ OnDelete(p)
TrimaranStep == cleanupCache \/ updateMetrics \/ Tick

InitTrimaran ==
    /\ ScheduledPodsCache = [n \in Nodes |-> << >>]
    /\ metrics = None /\ now = 0
    /\ addedAt = [p \in Pods |-> None] /\ trEvents = NewListener

\* What new plugins start from; the first poll may fail.
NewTrimaran ==
    /\ ScheduledPodsCache' = [n \in Nodes |-> << >>]
    /\ metrics' \in {None, now} /\ now' = now
    /\ addedAt' = [p \in Pods |-> None] /\ trEvents' = NewListener

-----------------------------------------------------------------------------
(* Properties *)

\* A pod is predicted once and in time: the handler's entries are in the order
\* of their times, which the binary search of cleanupCache needs, hold a pod at
\* most once, and a pod that was announced less than an interval ago and not
\* deleted since is one whose load Score adds, whatever cleanups and however old
\* metrics came in between.
RecentPodsPredicted ==
    \A n \in Nodes :
        LET s == ScheduledPodsCache[n]
        IN  /\ \A i, j \in DOMAIN s : i < j => s[i].ts <= s[j].ts /\ s[i].pod # s[j].pod
            /\ metrics # None =>
                 \A p \in Pods \ trEvents.deleted :
                    node[p] = n /\ addedAt[p] # None /\ now < addedAt[p] + Interval =>
                        \E e \in missing(n) : e.pod = p
=============================================================================
