------------------------ MODULE PreemptionToleration ------------------------
(***************************************************************************)
(* The policy of the PreemptionToleration plugin                           *)
(* (pkg/preemptiontoleration): which pods of lower priority are exempted   *)
(* from preemption by the annotations of their PriorityClass.              *)
(***************************************************************************)
EXTENDS Integers

CONSTANTS
    Unset,      \* an annotation that is not set, a class name that is empty
    Invalid,    \* an annotation that does not parse
    MaxDuration \* the largest time.Duration, in seconds

\* The arithmetic of time.Duration: a product that is too large wraps.
Duration(seconds) == ((seconds + MaxDuration + 1) % (2 * (MaxDuration + 1))) - MaxDuration - 1

\* parsePreemptionTolerationPolicy: the defaults are the value of the class
\* plus one and no toleration; one bad annotation spoils the policy.
parsePreemptionTolerationPolicy(pc) ==
    IF Invalid \in {pc.minimumPreemptablePriority, pc.tolerationSeconds}
    THEN Invalid
    ELSE [minimum |-> IF pc.minimumPreemptablePriority = Unset THEN pc.value + 1
                      ELSE pc.minimumPreemptablePriority,
          seconds |-> IF pc.tolerationSeconds = Unset THEN 0 ELSE pc.tolerationSeconds]

\* Mutant: only a negative toleration time protects a scheduled pod.
MutExempted(pc, scheduledAt, priority, now) ==
    LET policy == parsePreemptionTolerationPolicy(pc)
    IN  /\ policy # Invalid
        /\ priority < policy.minimum
        /\ policy.seconds < 0 \/ scheduledAt = Unset

\* ExemptedFromPreemption of a pod of class pc that was scheduled at a time (or
\* was not), for a preemptor of a priority that does preempt.
ExemptedFromPreemption(pc, scheduledAt, priority, now) ==
    LET policy == parsePreemptionTolerationPolicy(pc)
    IN  /\ policy # Invalid
        /\ priority < policy.minimum
        /\ \/ policy.seconds < 0
           \/ scheduledAt = Unset
           \/ scheduledAt + Duration(policy.seconds) > now
=============================================================================
