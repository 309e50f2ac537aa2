-------------------------- MODULE SchedulerCaches --------------------------
(***************************************************************************)
(* One scheduler with the DiscardReserved cache and, as its profile says,  *)
(* SySched or TargetLoadPacking: the cycle of the first binds the pods     *)
(* whose events the handlers of the others receive at their own pace.      *)
(***************************************************************************)
EXTENDS SySched, Trimaran, DiscardReserved

VARIABLE profile    \* the score plugin that is enabled

vars == <<api, syVars, trVars, drVars, profile>>

Init ==
    /\ profile \in {"SySched", "TargetLoadPacking"}
    /\ InitEvents /\ InitSySched /\ InitTrimaran /\ InitDiscardReserved

\* The scheduler is started again.
Restart ==
    /\ Fault /\ UNCHANGED <<version, node, gone, profile>>
    /\ IF profile = "SySched" THEN NewSySched /\ UNCHANGED trVars
       ELSE NewTrimaran /\ UNCHANGED syVars
    /\ NewDiscardReserved

Cluster(p) == (Report(p) \/ Delete(p)) /\ UNCHANGED <<syVars, trVars, drVars, profile>>

SySchedRuns(p) ==
    /\ profile = "SySched" /\ SySchedEvent(p)
    /\ UNCHANGED <<trVars, drVars, profile>>

TrimaranRuns ==
    /\ profile = "TargetLoadPacking"
    /\ TrimaranStep \/ \E p \in Pods : TrimaranEvent(p)
    /\ UNCHANGED <<syVars, drVars, profile>>

CycleRuns(p) == DiscardReservedStep(p) /\ UNCHANGED <<syVars, trVars, profile>>

Next ==
    \/ TrimaranRuns \/ Restart
    \/ \E p \in Pods : Cluster(p) \/ SySchedRuns(p) \/ CycleRuns(p)

Spec == Init /\ [][Next]_vars
=============================================================================
