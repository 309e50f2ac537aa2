---------------------- MODULE MCElasticQuotaController ----------------------
(***************************************************************************)
(* Instance of ElasticQuotaController: two workers, a pod of two containers*)
(* and one with a large init container.                                    *)
(***************************************************************************)
EXTENDS ElasticQuotaController

CONSTANTS p1, p2, w1, w2

MCContainers == [p \in QuotaPods |-> IF p = p1 THEN <<1, 2>> ELSE <<1>>]
MCInitContainers == [p \in QuotaPods |-> IF p = p1 THEN << >> ELSE <<1, 4>>]
MCOverhead == [p \in QuotaPods |-> 1]
=============================================================================
