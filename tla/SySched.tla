------------------------------ MODULE SySched ------------------------------
(***************************************************************************)
(* The SySched plugin (pkg/sysched/sysched.go): for every host the pods it *)
(* was told of and the union of their system calls, kept by the handlers   *)
(* of pod events without a lock, and the score computed from them.         *)
(***************************************************************************)
EXTENDS PodEvents, Functions

CONSTANTS
    NameOf,     \* the name of a pod, which need not be its own
    Syscalls,   \* the calls a pod's seccomp profiles allow
    Default     \* the calls of the default profile

VARIABLES
    HostToPods,     \* node -> the pods cached, or None before the first
    HostSyscalls,   \* node -> the union of their calls
    misread,        \* the nodes whose union holds the answer of a failed read
    skipped,        \* the pods whose host IP a reconnected watch skipped
    syEvents

syVars == <<HostToPods, HostSyscalls, misread, skipped, syEvents>>

\* getSyscalls: the calls of the profiles, or those of the default profile
\* when none can be read.
getSyscalls(p, failed) == IF p \in failed \/ Syscalls[p] = {} THEN Default ELSE Syscalls[p]
ReadAll == {}

\* A handler's reads of the profiles of S succeed, or some fail.
Reads(S, failed) ==
    /\ failed \subseteq S
    /\ IF failed = {} THEN faults' = faults ELSE Fault

SameName(p, S) == {q \in S : NameOf[q] = NameOf[p]}

\* Mutant: the calls are merged only for the first pod of a host.
MutAddPod(p) ==
    LET n == node[p]
    IN  IF HostToPods[n] # None
        THEN /\ HostToPods' = [HostToPods EXCEPT ![n] = @ \cup {p}]
             /\ UNCHANGED <<HostSyscalls, misread, faults>>
        ELSE /\ HostToPods' = [HostToPods EXCEPT ![n] = {p}]
             /\ HostSyscalls' = [HostSyscalls EXCEPT ![n] = getSyscalls(p, {})]
             /\ UNCHANGED <<misread, faults>>

\* addPod and updateHostSyscalls: unless a pod of that name is cached.
addPod(p) ==
    LET n == node[p]
        known == IF HostToPods[n] = None THEN {} ELSE HostToPods[n]
    IN  IF SameName(p, known) # {} THEN UNCHANGED <<HostToPods, HostSyscalls, misread, faults>>
        ELSE \E failed \in SUBSET {p} :
                /\ Reads({p}, failed)
                /\ HostToPods' = [HostToPods EXCEPT ![n] = known \cup {p}]
                /\ HostSyscalls' = [HostSyscalls EXCEPT ![n] = @ \cup getSyscalls(p, failed)]
                /\ misread' = IF failed = {} THEN misread ELSE misread \cup {n}

\* removePod and recomputeHostSyscalls: the pod cached under that name goes and
\* the union is made anew; the host stays known without pods.
removePod(p) ==
    LET n == node[p]
    IN  IF n = None \/ (n # None /\ (HostToPods[n] = None \/ SameName(p, HostToPods[n]) = {}))
        THEN UNCHANGED <<HostToPods, HostSyscalls, misread, faults>>
        ELSE LET left == HostToPods[n] \ SameName(p, HostToPods[n])
             IN  \E failed \in SUBSET left :
                    /\ Reads(left, failed)
                    /\ HostToPods' = [HostToPods EXCEPT ![n] = left]
                    /\ HostSyscalls' = [HostSyscalls EXCEPT
                                          ![n] = UNION {getSyscalls(q, failed) : q \in left}]
                    /\ misread' = IF failed = {} THEN misread \ {n} ELSE misread \cup {n}

\* Only running pods are taken from the first list.
podAdded(p) ==
    /\ NextAdded(syEvents, p)
    /\ syEvents' = [syEvents EXCEPT !.added = @ \ {p}]
    /\ IF syEvents.seen[p] = Running THEN addPod(p)
       ELSE UNCHANGED <<HostToPods, HostSyscalls, misread, faults>>
    /\ UNCHANGED <<version, node, gone, skipped>>

\* The old version decides: pending, with a host IP.
podUpdated(p) ==
    /\ NextUpdated(syEvents, p, syEvents.seen[p] + 1)
    /\ syEvents' = [syEvents EXCEPT !.seen[p] = @ + 1]
    /\ IF syEvents.seen[p] = WithHostIP THEN addPod(p)
       ELSE UNCHANGED <<HostToPods, HostSyscalls, misread, faults>>
    /\ UNCHANGED <<version, node, gone, skipped>>

\* A reconnected watch goes from the version before the host IP to a later one:
\* podUpdated does nothing, now and on every later version.
podUpdatedSkips(p) ==
    /\ syEvents.seen[p] < WithHostIP /\ Fault
    /\ \E v \in Running .. Finished :
          /\ NextUpdated(syEvents, p, v)
          /\ syEvents' = [syEvents EXCEPT !.seen[p] = v]
    /\ skipped' = skipped \cup {p}
    /\ UNCHANGED <<version, node, gone, HostToPods, HostSyscalls, misread>>

podDeleted(p) ==
    /\ NextDeleted(syEvents, p)
    /\ syEvents' = [syEvents EXCEPT !.deleted = @ \cup {p}]
    /\ removePod(p)
    /\ UNCHANGED <<version, node, gone, skipped>>

SySchedEvent(p) == podAdded(p) \/ podUpdated(p) \/ podUpdatedSkips(p) \/ podDeleted(p)

\* Score of a pod with these calls: hosts without a cache score zero, and
\* MaxInt64 stands for the score without calls; calcScore counts calls.
MaxInt64 == 1000000000
Score(calls, n) ==
    LET new == HostSyscalls[n] \cup calls
    IN  IF calls = {} THEN MaxInt64
        ELSE IF HostToPods[n] = None THEN 0
        ELSE Cardinality(HostSyscalls[n] \ calls)
             + SumFunctionOnSet([q \in HostToPods[n] |-> Cardinality(new \ getSyscalls(q, ReadAll))],
                                HostToPods[n])

InitSySched ==
    /\ HostToPods = [n \in Nodes |-> None] /\ HostSyscalls = [n \in Nodes |-> {}]
    /\ misread = {} /\ skipped = {} /\ syEvents = NewListener

\* What a new plugin starts from.
NewSySched ==
    /\ HostToPods' = [n \in Nodes |-> None] /\ HostSyscalls' = [n \in Nodes |-> {}]
    /\ misread' = {} /\ skipped' = {} /\ syEvents' = NewListener

-----------------------------------------------------------------------------
(* Properties *)

AllCalls == Default \cup UNION {Syscalls[p] : p \in Pods}

\* The pods of a node the plugin was told of, and those of them it was told run.
ToldOf(n) == {p \in Pods : node[p] = n /\ p \notin syEvents.added \cup syEvents.deleted}
ToldRunning(n) == {p \in ToldOf(n) : syEvents.seen[p] = Running}

\* What the pods of S and one with these calls would be exposed to together.
Exposure(calls, S) ==
    LET all == calls \cup UNION {getSyscalls(q, ReadAll) : q \in S}
    IN  Cardinality(all \ calls)
        + SumFunctionOnSet([q \in S |-> Cardinality(all \ getSyscalls(q, ReadAll))], S)

\* Whatever additions, updates and deletions came in which order, and across
\* restarts: a cached pod is one of its node whose deletion was not announced; a
\* pod announced as running is cached, unless the watch skipped its host IP or
\* another pod has its name; and the score of a pod is the number of calls it
\* and the cached pods would be exposed to, unless a profile was not read.
ExposureExact ==
    \A n \in Nodes :
        LET cached == IF HostToPods[n] = None THEN {} ELSE HostToPods[n]
        IN  /\ cached \subseteq ToldOf(n)
            /\ \A p \in ToldRunning(n) \ skipped : SameName(p, Pods) = {p} => p \in cached
            /\ n \notin misread =>
                  \A calls \in (SUBSET AllCalls) \ {{}} : Score(calls, n) = Exposure(calls, cached)
=============================================================================
