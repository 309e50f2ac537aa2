---------------------------- MODULE MCPreemption ----------------------------
(***************************************************************************)
(* Instance of Preemption: a preemptor of namespace a on a full node with  *)
(* two pods of its own namespace and two of namespace b, of which one is   *)
(* more important; a third one may come.                                   *)
(***************************************************************************)
EXTENDS Preemption

CONSTANTS a, b, a1, a2, b1, b2, b3

MCNsOf == [p \in Pods |-> IF p \in {a1, a2} THEN a ELSE b]
MCPrio == [p \in Pods |-> IF p = b2 THEN 1 ELSE 0]
MCReq == [p \in Pods |-> IF p = b2 THEN 2 ELSE 1]
MCRank == [p \in Pods |-> CASE p = a1 -> 1 [] p = b1 -> 2 [] p = b3 -> 0 [] p = a2 -> 3 [] OTHER -> 4]
MCPreemptor == [ns |-> a, priority |-> 1, req |-> 2]

\* a1 tolerates preemption for two seconds, a2 has an annotation that does not
\* parse, the class of b3 is gone.
MCClass ==
    [p \in Pods |->
        CASE p = a1 -> [value |-> 0, minimumPreemptablePriority |-> 2, tolerationSeconds |-> 2]
          [] p = a2 -> [value |-> 0, minimumPreemptablePriority |-> Invalid,
                        tolerationSeconds |-> -1]
          [] p = b3 -> None
          [] OTHER -> Unset]
MCScheduledAt == [p \in Pods |-> 0]

MCQuotas ==
    {q \in [{a, b} -> {None} \cup [min : 0..4, max : {4}, elsewhere : {0, 1}]] :
        /\ q[a] # None => q[a].min \in {0, 2, 4}
        /\ q[b] # None => q[b].min \in {1, 2} /\ q[b].elsewhere = 0}
MCNominated ==
    {[inEQ |-> 0, all |-> 0, here |-> 0], [inEQ |-> 1, all |-> 1, here |-> 0],
     [inEQ |-> 0, all |-> 1, here |-> 1]}
MCPDBs == {{}, {[matches |-> {a1, a2, b1}, disrupted |-> {}, allowed |-> 1]}}

MCConfigs ==
    {c \in [plugin : {"capacity", "toleration"}, quotas : MCQuotas, nominated : MCNominated,
            pdbs : MCPDBs, capacity : {5, 6}, late : BOOLEAN] :
        /\ c.plugin = "toleration" => c.quotas = [n \in {a, b} |-> None]
        /\ c.late => c.nominated.all = 0}
=============================================================================
