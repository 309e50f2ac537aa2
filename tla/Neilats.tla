------------------------------ MODULE Neilats ------------------------------
(***************************************************************************)
(* The NeilatsRefactorScheduler plugin (pkg/neilats_refactor_go): New sets *)
(* up latency probes on the configured nodes over SSH; Filter builds the   *)
(* RTT matrix from their result files; PreScore, Score and NormalizeScore  *)
(* rank the nodes by load balance, stability and predicted latency.        *)
(*                                                                         *)
(* Rates are in tenths, floating-point scores are kept to whole numbers    *)
(* (the load-balance score is multiplied by four, which makes it whole).   *)
(* SSH, Prometheus and the model service answer or fail as they like.      *)
(***************************************************************************)
EXTENDS Integers, Sequences, FiniteSets

CONSTANTS
    Nodes,
    Configured,  \* the nodes of KubeNodeAddressAndSecret
    Pods,
    Labels,      \* the labels of a pod: a record [nei, sla]
    Samples,     \* the latencies a probe may record
    Lost,        \* the line of a probe without an answer
    LastN,       \* how many lines of a result file are read
    Metrics,     \* what Prometheus may report of a node
    Scores,      \* what the model service may answer
    None,        \* no label, no node
    Bad,         \* a label that is not a number
    MaxProbes,   \* bound: lines the probes write
    MaxStarts    \* bound: starts of the scheduler

ASSUME NeilatsAssumption ==
    /\ Configured \subseteq Nodes /\ Configured # {} /\ IsFiniteSet(Nodes)
    /\ Samples \subseteq Nat /\ LastN \in Nat \ {0}
    /\ Metrics \subseteq [cpuIdle : Int, memAvailable : Int, received : Int, sent : Int,
                          diskFree : Int, request : Int]
    /\ Scores \subseteq Int
    /\ {MaxProbes, MaxStarts} \subseteq Nat

VARIABLES
    enableSLA,
    phase,      \* of the plugin: "down", "install", "start" or "running"
    todo,       \* the nodes New has still to visit
    scripts,    \* the nodes with the probe script
    probes,     \* the number of probe processes on a node
    file,       \* the result file of a pair of nodes
    LBScoreMap, ADFScoreMap, FutureScoreMap, \* the package's maps
    cycle,      \* the scheduling cycle under way, or None
    where,      \* the node of a bound pod, or None
    lines, starts

measuring == <<scripts, probes, file, lines>>
maps == <<LBScoreMap, ADFScoreMap, FutureScoreMap>>
vars == <<enableSLA, phase, todo, measuring, maps, cycle, where, starts>>

Pairs == {pair \in Configured \X Configured : pair[1] # pair[2]}

\* Does the pod have a neighbour and an SLA? (Both labels, in a scheduler that
\* looks at them.)
WithSLA(p) == enableSLA /\ Labels[p].nei # None /\ Labels[p].sla # None

-----------------------------------------------------------------------------
(* New: InitNodeLatencyTestTool and StartLatencyTest *)

New ==
    /\ phase = "down" /\ starts < MaxStarts
    /\ starts' = starts + 1
    /\ phase' = IF enableSLA THEN "install" ELSE "running"
    /\ todo' = Configured
    /\ UNCHANGED <<enableSLA, measuring, maps, cycle, where>>

\* Install the tool, make the directory and write the script on one node.
InitNodeLatencyTestTool(n) ==
    /\ phase = "install" /\ n \in todo
    /\ scripts' = scripts \cup {n}
    /\ IF todo = {n} THEN phase' = "start" /\ todo' = Configured
       ELSE phase' = phase /\ todo' = todo \ {n}
    /\ UNCHANGED <<enableSLA, probes, file, lines, maps, cycle, where, starts>>

\* Start the script in a screen of its own, whether or not one runs already.
StartLatencyTest(n) ==
    /\ phase = "start" /\ n \in todo
    /\ probes' = [probes EXCEPT ![n] = @ + 1]
    /\ todo' = todo \ {n}
    /\ phase' = IF todo = {n} THEN "running" ELSE phase
    /\ UNCHANGED <<enableSLA, scripts, file, lines, maps, cycle, where, starts>>

\* Mutant: the failure of one node is only logged.
MutRemoteFails(n) ==
    /\ phase \in {"install", "start"} /\ n \in todo
    /\ todo' = todo \ {n}
    /\ phase' = IF todo = {n} THEN "running" ELSE phase
    /\ UNCHANGED <<enableSLA, measuring, maps, cycle, where, starts>>

\* A command on one node fails: New returns an error, and what is done on the
\* other nodes stays.
RemoteFails(n) ==
    /\ phase \in {"install", "start"} /\ n \in todo
    /\ phase' = "down"
    /\ UNCHANGED <<enableSLA, todo, measuring, maps, cycle, where, starts>>

\* The scheduler stops; the probes go on.
Stop ==
    /\ phase = "running" /\ starts < MaxStarts
    /\ phase' = "down" /\ cycle' = None
    /\ UNCHANGED <<enableSLA, todo, measuring, maps, where, starts>>

-----------------------------------------------------------------------------
(* The world *)

\* A probe writes a line.
Probe(pair) ==
    /\ lines < MaxProbes /\ probes[pair[1]] > 0
    /\ lines' = lines + 1
    /\ \E s \in Samples \cup {Lost} : file' = [file EXCEPT ![pair] = Append(@, s)]
    /\ UNCHANGED <<enableSLA, phase, todo, scripts, probes, maps, cycle, where, starts>>

-----------------------------------------------------------------------------
(* The RTT matrix *)

\* getLastLinesLatencyFromSSH and getMeanOfLatencyFromSSH: the mean of the last
\* lines as a pair of sum and number.  A line without a latency fails the read,
\* and the mean of nothing is NaN, of number 0.
LastLines(s) == IF Len(s) > LastN THEN SubSeq(s, Len(s) - LastN + 1, Len(s)) ELSE s
NaN == [sum |-> 0, num |-> 0]
getMeanOfLatencyFromSSH(pair) ==
    LET last == LastLines(file[pair])
        sum[i \in 0..Len(last)] == IF i = 0 THEN 0 ELSE sum[i - 1] + last[i]
    IN  IF \E i \in DOMAIN last : last[i] = Lost THEN NaN
        ELSE [sum |-> sum[Len(last)], num |-> Len(last)]

Zero == [sum |-> 0, num |-> 1]
AtLeast(mean, x) == mean.num > 0 /\ mean.sum >= x * mean.num
AtMost(mean, x) == mean.num > 0 /\ mean.sum <= x * mean.num

\* Mutant: the latency from the neighbour, not to it.
MutBuildRtt(order, from, to) ==
    IF {from, to} \cap Configured # {from, to} \/ from = to THEN Zero
    ELSE getMeanOfLatencyFromSSH(<<to, from>>)

\* BuildRttWithOutFileOnRemote: the entry of a pair.  The nodes are visited in
\* the order of a map; a mean of 99 or more is replaced by the entry of the
\* other direction, which is zero if it was not visited yet or was replaced
\* itself.  A node that is not configured has no row: zero.
BuildRtt(order, from, to) ==
    IF {from, to} \cap Configured # {from, to} \/ from = to THEN Zero
    ELSE LET there == getMeanOfLatencyFromSSH(<<from, to>>)
             back == getMeanOfLatencyFromSSH(<<to, from>>)
         IN  IF ~AtLeast(there, 99) THEN there
             ELSE IF order[to] < order[from] /\ ~AtLeast(back, 99) THEN back
             ELSE Zero

\* The orders a map of the configured nodes may be visited in.
Orders == {o \in [Configured -> 1..Cardinality(Configured)] :
              \A m, n \in Configured : o[m] = o[n] => m = n}

-----------------------------------------------------------------------------
(* The scheduling cycle *)

\* PreFilter: both labels or none, a configured neighbour, a number.
PreFilter(p) ==
    enableSLA =>
        LET nei == Labels[p].nei
            sla == Labels[p].sla
        IN  \/ nei = None /\ sla = None
            \/ nei \in Configured /\ sla \notin {None, Bad}

StartCycle(p) ==
    /\ phase = "running" /\ cycle = None /\ where[p] = None
    /\ PreFilter(p)
    /\ cycle' = [pod |-> p, step |-> "filter", left |-> Nodes, passed |-> {},
                 rtt |-> [n \in Nodes |-> NaN], raw |-> << >>, final |-> << >>]
    /\ UNCHANGED <<enableSLA, phase, todo, measuring, maps, where, starts>>

\* Filter of one node: each call builds a matrix of its own.  A result file that
\* cannot be read makes its entry NaN, which is within no SLA.
Filter(n) ==
    /\ cycle # None /\ cycle.step = "filter" /\ n \in cycle.left
    /\ \E order \in Orders, readable \in BOOLEAN :
         LET p == cycle.pod
             passes == WithSLA(p) => /\ n # Labels[p].nei /\ readable
                                     /\ AtMost(BuildRtt(order, n, Labels[p].nei), Labels[p].sla)
         IN  cycle' = [cycle EXCEPT
                !.left = @ \ {n},
                !.passed = IF passes THEN @ \cup {n} ELSE @,
                !.rtt[n] = IF WithSLA(p) /\ <<n, Labels[p].nei>> \in Pairs
                           THEN getMeanOfLatencyFromSSH(<<n, Labels[p].nei>>) ELSE NaN]
    /\ UNCHANGED <<enableSLA, phase, todo, measuring, maps, where, starts>>

\* LBScore times four: four resources' use with the pod on the node.  The
\* network rate is doubled where it should be halved and the disk rate is a
\* percentage; a failed query gives zero.
LBScore(m) ==
    IF m = None THEN 0
    ELSE LET cpu == (10 - m.cpuIdle) + m.request
             mem == (10 - m.memAvailable) + m.request
             net == 10 - 2 * (20 - m.received - m.sent)
             disk == 10 - 100 * m.diskFree
             sum == cpu + mem + net + disk
             squares == cpu * cpu + mem * mem + net * net + disk * disk
         IN  400 - (4 * squares - sum * sum)

\* Mutant: the smallest value instead of the largest.
MutNormalized(raw, S) ==
    LET max == CHOOSE x \in {raw[n] : n \in S} : \A y \in {raw[n] : n \in S} : x >= y
        min == CHOOSE x \in {raw[n] : n \in S} : \A y \in {raw[n] : n \in S} : x <= y
    IN  [n \in S |-> IF max = min THEN 100 ELSE 100 + (100 * (max - raw[n])) \div (max - min)]

\* PreScore's normalisation to 100..200; equal scores are all 100.
Normalized(raw, S) ==
    LET max == CHOOSE x \in {raw[n] : n \in S} : \A y \in {raw[n] : n \in S} : x >= y
        min == CHOOSE x \in {raw[n] : n \in S} : \A y \in {raw[n] : n \in S} : x <= y
    IN  [n \in S |-> IF max = min THEN 100 ELSE 100 + (100 * (raw[n] - min)) \div (max - min)]

\* PreScore: the maps are made anew for the nodes that passed, from what
\* Prometheus and the model service answer (raw keeps the scores before they are
\* normalised).  A read or a request that fails scores zero (Scores holds it).
PreScore ==
    /\ cycle # None /\ cycle.step = "filter" /\ cycle.left = {}
    /\ Cardinality(cycle.passed) > 1
    /\ \E metrics \in [cycle.passed -> Metrics \cup {None}], adf, future \in [cycle.passed -> Scores] :
         LET lb == [n \in cycle.passed |-> LBScore(metrics[n])]
         IN  /\ WithSLA(cycle.pod) \/ adf = future
             /\ LBScoreMap' = Normalized(lb, cycle.passed)
             /\ ADFScoreMap' = IF WithSLA(cycle.pod) THEN Normalized(adf, cycle.passed) ELSE << >>
             /\ FutureScoreMap' = IF WithSLA(cycle.pod) THEN Normalized(future, cycle.passed) ELSE << >>
             /\ cycle' = [cycle EXCEPT !.step = "score",
                            !.raw = IF WithSLA(cycle.pod) THEN <<lb, adf, future>> ELSE <<lb>>]
    /\ UNCHANGED <<enableSLA, phase, todo, measuring, where, starts>>

Cbrt(x) == CHOOSE i \in 0..200 : i * i * i <= x /\ (i + 1) * (i + 1) * (i + 1) > x

Score(n) ==
    IF WithSLA(cycle.pod) THEN Cbrt(LBScoreMap[n] * ADFScoreMap[n] * FutureScoreMap[n])
    ELSE LBScoreMap[n]

\* Mutant: multiplied before it is divided, from zero.
MutNormalizeScore(s, S) ==
    LET max == CHOOSE x \in {s[n] : n \in S} : \A y \in {s[n] : n \in S} : x >= y
        min == CHOOSE x \in {s[n] : n \in S} : \A y \in {s[n] : n \in S} : x <= y
    IN  [n \in S |-> IF max = min THEN 0 ELSE (s[n] * 100) \div (max - min)]

\* NormalizeScore: a division of whole numbers, so 100 for the best and 0 for
\* all others.
NormalizeScore(s, S) ==
    LET max == CHOOSE x \in {s[n] : n \in S} : \A y \in {s[n] : n \in S} : x >= y
        min == CHOOSE x \in {s[n] : n \in S} : \A y \in {s[n] : n \in S} : x <= y
    IN  [n \in S |-> IF max = min THEN 0 ELSE ((s[n] - min) \div (max - min)) * 100]

ScoreNodes ==
    /\ cycle # None /\ cycle.step = "score"
    /\ cycle' = [cycle EXCEPT !.step = "bind",
                    !.final = NormalizeScore([n \in cycle.passed |-> Score(n)], cycle.passed)]
    /\ UNCHANGED <<enableSLA, phase, todo, measuring, maps, where, starts>>

\* The framework picks a node of the highest score; a single node is not
\* scored.
Bind(n) ==
    /\ cycle # None /\ n \in cycle.passed
    /\ \/ cycle.step = "bind" /\ \A m \in cycle.passed : cycle.final[m] <= cycle.final[n]
       \/ cycle.step = "filter" /\ cycle.left = {} /\ Cardinality(cycle.passed) = 1
    /\ where' = [where EXCEPT ![cycle.pod] = n]
    /\ cycle' = None
    /\ UNCHANGED <<enableSLA, phase, todo, measuring, maps, starts>>

\* No node passed.
Unschedulable ==
    /\ cycle # None /\ cycle.step = "filter" /\ cycle.left = {} /\ cycle.passed = {}
    /\ cycle' = None
    /\ UNCHANGED <<enableSLA, phase, todo, measuring, maps, where, starts>>

-----------------------------------------------------------------------------
Init ==
    /\ enableSLA \in BOOLEAN
    /\ phase = "down" /\ todo = {} /\ scripts = {}
    /\ probes = [n \in Configured |-> 0] /\ file = [pair \in Pairs |-> << >>]
    /\ LBScoreMap = << >> /\ ADFScoreMap = << >> /\ FutureScoreMap = << >>
    /\ cycle = None /\ where = [p \in Pods |-> None]
    /\ lines = 0 /\ starts = 0

Next ==
    \/ New \/ Stop
    \/ \E n \in Configured : InitNodeLatencyTestTool(n) \/ StartLatencyTest(n) \/ RemoteFails(n)
    \/ \E pair \in Pairs : Probe(pair)
    \/ \E n \in Nodes :  Filter(n) \/ Bind(n)
    \/ \E p \in Pods : StartCycle(p)
    \/ PreScore \/ ScoreNodes \/ Unschedulable

Spec == Init /\ [][Next]_vars

-----------------------------------------------------------------------------
(* Properties *)

\* A node's score is what the framework takes: 0 to 100.
TypeOK ==
    /\ phase \in {"down", "install", "start", "running"}
    /\ todo \subseteq Configured /\ scripts \subseteq Configured
    /\ probes \in [Configured -> 0..MaxStarts]
    /\ file \in [Pairs -> Seq(Samples \cup {Lost})]
    /\ where \in [Pods -> Nodes \cup {None}]
    /\ cycle # None =>
          /\ cycle.passed \subseteq Nodes \ cycle.left
          /\ cycle.step = "bind" => cycle.final \in [cycle.passed -> 0..100]

\* A pod with an SLA goes to another node than its neighbour, and the latency
\* its filter measured from there is within the SLA, or is one the matrix does
\* not hold: 99 or more, or of a node that is not configured.
SLAFiltered ==
    cycle # None /\ WithSLA(cycle.pod) =>
        \A n \in cycle.passed :
            /\ n # Labels[cycle.pod].nei
            /\ \/ n \notin Configured
               \/ AtLeast(cycle.rtt[n], 99)
               \/ AtMost(cycle.rtt[n], Labels[cycle.pod].sla)

\* The node m is ahead of n, by a hundredth at least of what the nodes S differ
\* by (less than that may be rounded away).
Ahead(raw, S, m, n) ==
    /\ raw[m] > raw[n]
    /\ \A k, l \in S : raw[k] - raw[l] <= 100 * (raw[m] - raw[n])

\* What is better in every score the pod is ranked by, before normalisation.
Better(m, n) == \A i \in DOMAIN cycle.raw : Ahead(cycle.raw[i], cycle.passed, m, n)

\* Through two normalisations, a cube root and the rounding, no pod is bound
\* to a node while another is better in every score, and the scores are those
\* of this cycle's nodes.
WinnerUndominated ==
    [][\A p \in Pods : where'[p] # where[p] /\ cycle.step = "bind" =>
          \A m \in cycle.passed : ~Better(m, where'[p])]_vars

\* A scheduler that honours SLAs runs only while every configured node is
\* probed, however often New failed half-way before.
MeasuredWhileRunning ==
    phase = "running" /\ enableSLA => \A n \in Configured : n \in scripts /\ probes[n] > 0
=============================================================================
