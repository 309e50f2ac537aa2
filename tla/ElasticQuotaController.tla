----------------------- MODULE ElasticQuotaController -----------------------
(***************************************************************************)
(* The ElasticQuota controller (pkg/controllers/elasticquota_controller.go)*)
(* for the quota of one namespace: Reconcile writes the sum of the requests*)
(* of the running pods to status.used.                                     *)
(*                                                                         *)
(* The events of pods enqueue the pods' own keys, so several workers may   *)
(* reconcile the same quota at once, each from a cache that is behind.     *)
(***************************************************************************)
EXTENDS Integers, FiniteSets, Sequences, FiniteSetsExt, Functions

CONSTANTS
    QuotaPods,      \* the pods of the namespace
    EQ,             \* the key of the quota
    Workers,        \* MaxConcurrentReconciles
    Containers,     \* the requests of the containers of a pod
    InitContainers, \* the requests of its init containers
    Overhead,       \* spec.overhead
    NoKey,          \* the worker reconciles nothing
    MaxQuotaErrors  \* bound: API calls that fail, and restarts

\* What a worker does: the key it reconciles, the call it makes next, the usage
\* it read and the one it computed.
Reconciling == [key : QuotaPods \cup {EQ}, step : {"pods", "patch"}, old : Nat, new : Nat]

ASSUME ElasticQuotaAssumption ==
    /\ IsFiniteSet(QuotaPods) /\ EQ \notin QuotaPods
    /\ Containers \in [QuotaPods -> Seq(Nat)] /\ InitContainers \in [QuotaPods -> Seq(Nat)]
    /\ Overhead \in [QuotaPods -> Nat]
    /\ NoKey \notin Reconciling
    /\ MaxQuotaErrors \in Nat

VARIABLES
    running,  \* API server: the running pods
    ended,    \* pods that ran and do not any more
    seen,     \* the running pods as the cache has them
    used,     \* API server: status.used
    seenUsed, \* status.used as the cache has it
    watch,    \* the values of status.used the watch has not delivered yet
    queue,    \* the keys in the work queue
    work,     \* what each worker does
    quotaErrors

quotaVars == <<running, ended, seen, used, seenUsed, watch, queue, work, quotaErrors>>

Keys == QuotaPods \cup {EQ}

-----------------------------------------------------------------------------
(* computePodResourceRequest and computeElasticQuotaUsed *)

\* The larger of the sum of the containers and the largest init container.
\* The overhead is added to a copy that is dropped.
computePodResourceRequest(p) ==
    LET result == SumFunction(Containers[p])
        initRes == Max({0} \cup Range(InitContainers[p]))
    IN  IF result > initRes THEN result ELSE initRes

\* Mutant: without newZeroUsed, no running pod means no usage.
MutElasticQuotaUsed(S) ==
    IF S = {} THEN NoKey
    ELSE SumFunctionOnSet([p \in QuotaPods |-> computePodResourceRequest(p)], S)

\* The usage of a set of running pods; newZeroUsed of none.
computeElasticQuotaUsed(S) ==
    SumFunctionOnSet([p \in QuotaPods |-> computePodResourceRequest(p)], S)

-----------------------------------------------------------------------------
(* The environment *)

PodRuns(p) ==
    /\ p \notin running \cup ended
    /\ running' = running \cup {p}
    /\ UNCHANGED <<ended, seen, used, seenUsed, watch, queue, work, quotaErrors>>

PodEnds(p) ==
    /\ p \in running
    /\ running' = running \ {p} /\ ended' = ended \cup {p}
    /\ UNCHANGED <<seen, used, seenUsed, watch, queue, work, quotaErrors>>

\* An event of a pod reaches the cache; the pod's own key is enqueued.
PodEvent(p) ==
    /\ (p \in seen) # (p \in running)
    /\ seen' = IF p \in running THEN seen \cup {p} ELSE seen \ {p}
    /\ queue' = queue \cup {p}
    /\ UNCHANGED <<running, ended, used, seenUsed, watch, work, quotaErrors>>

\* Mutant: only pods are watched.
MutQuotaEvent ==
    /\ watch # << >>
    /\ seenUsed' = Head(watch) /\ watch' = Tail(watch)
    /\ UNCHANGED <<running, ended, seen, used, queue, work, quotaErrors>>

\* An event of the quota, its own patch included: For(&ElasticQuota{}).
QuotaEvent ==
    /\ watch # << >>
    /\ seenUsed' = Head(watch) /\ watch' = Tail(watch)
    /\ queue' = queue \cup {EQ}
    /\ UNCHANGED <<running, ended, seen, used, work, quotaErrors>>

-----------------------------------------------------------------------------
(* Reconcile *)

\* A worker takes a key no other worker has and lists the quotas.
ListQuotas(w, k) ==
    /\ work[w] = NoKey /\ k \in queue
    /\ \A v \in Workers : work[v] # NoKey => work[v].key # k
    /\ queue' = queue \ {k}
    /\ work' = [work EXCEPT ![w] =
                   [key |-> k, step |-> "pods", old |-> seenUsed, new |-> seenUsed]]
    /\ UNCHANGED <<running, ended, seen, used, seenUsed, watch, quotaErrors>>

\* It lists the pods; a usage that is the one it read is not written.
ListPods(w) ==
    /\ work[w] # NoKey /\ work[w].step = "pods"
    /\ LET sum == computeElasticQuotaUsed(seen)
       IN  work' = [work EXCEPT ![w] =
                       IF sum = work[w].old THEN NoKey
                       ELSE [work[w] EXCEPT !.step = "patch", !.new = sum]]
    /\ UNCHANGED <<running, ended, seen, used, seenUsed, watch, queue, quotaErrors>>

\* patchElasticQuota: a merge patch without a resource version.  The watch
\* sees it only if it changes the quota.
Patch(w) ==
    /\ work[w] # NoKey /\ work[w].step = "patch"
    /\ used' = work[w].new
    /\ watch' = IF used' # used THEN Append(watch, used') ELSE watch
    /\ work' = [work EXCEPT ![w] = NoKey]
    /\ UNCHANGED <<running, ended, seen, seenUsed, queue, quotaErrors>>

\* Mutant: the key of a failed Reconcile is forgotten.
MutReconcileFails(w) ==
    /\ work[w] # NoKey /\ quotaErrors < MaxQuotaErrors
    /\ quotaErrors' = quotaErrors + 1
    /\ work' = [work EXCEPT ![w] = NoKey]
    /\ UNCHANGED <<running, ended, seen, used, seenUsed, watch, queue>>

\* A call fails and the key is queued again.
QuotaReconcileFails(w) ==
    /\ work[w] # NoKey /\ quotaErrors < MaxQuotaErrors
    /\ quotaErrors' = quotaErrors + 1
    /\ queue' = queue \cup {work[w].key}
    /\ work' = [work EXCEPT ![w] = NoKey]
    /\ UNCHANGED <<running, ended, seen, used, seenUsed, watch>>

\* The manager restarts with a fresh cache; a patch under way may be lost.
QuotaRestart ==
    /\ quotaErrors < MaxQuotaErrors
    /\ quotaErrors' = quotaErrors + 1
    /\ seen' = running /\ seenUsed' = used /\ watch' = << >>
    /\ queue' = Keys
    /\ work' = [w \in Workers |-> NoKey]
    /\ UNCHANGED <<running, ended, used>>

Step(w) == (\E k \in Keys : ListQuotas(w, k)) \/ ListPods(w) \/ Patch(w)

-----------------------------------------------------------------------------
QuotaInit ==
    /\ running = {} /\ ended = {} /\ seen = {}
    /\ used = 0 /\ seenUsed = 0 /\ watch = << >>
    /\ queue = {EQ}
    /\ work = [w \in Workers |-> NoKey]
    /\ quotaErrors = 0

QuotaNext ==
    \/ \E p \in QuotaPods : PodRuns(p) \/ PodEnds(p) \/ PodEvent(p)
    \/ QuotaEvent
    \/ \E w \in Workers : Step(w) \/ QuotaReconcileFails(w)
    \/ QuotaRestart

\* The informers deliver and the workers run; nothing makes a pod move.
QuotaFairness ==
    /\ \A p \in QuotaPods : WF_quotaVars(PodEvent(p))
    /\ WF_quotaVars(QuotaEvent)
    /\ \A w \in Workers : WF_quotaVars(Step(w))

QuotaSpec == QuotaInit /\ [][QuotaNext]_quotaVars /\ QuotaFairness

-----------------------------------------------------------------------------
(* Properties *)

\* status.used is a number, also of a namespace where no pod runs, and keys that
\* are queued or worked on are of this namespace.
QuotaTypeOK ==
    /\ running \subseteq QuotaPods /\ ended \subseteq QuotaPods /\ seen \subseteq QuotaPods
    /\ used \in Nat /\ seenUsed \in Nat /\ watch \in Seq(Nat)
    /\ queue \subseteq Keys
    /\ work \in [Workers -> Reconciling \cup {NoKey}]
    /\ quotaErrors \in 0..MaxQuotaErrors

\* Nothing is left to do: the cache is up to date, no key waits, no worker
\* works.
Quiet ==
    /\ seen = running /\ watch = << >> /\ queue = {}
    /\ \A w \in Workers : work[w] = NoKey

\* What the pods of S request: their containers side by side or one of their
\* init containers, whichever is the most.
Requested(S) ==
    SumFunctionOnSet([p \in QuotaPods |->
        Max({SumFunction(Containers[p])} \cup Range(InitContainers[p]))], S)

\* A quota at rest is a quota that is right: whatever order concurrent
\* reconciles of one quota patched it in, from whatever stale sums, nothing is
\* left with nobody to correct it.
QuietIsRight == Quiet => used = Requested(running)

\* When the pods stay as they are, status.used ends up as their sum.
UsedConverges ==
    \A S \in SUBSET QuotaPods : <>[](running = S) => <>[](used = Requested(S))
=============================================================================
