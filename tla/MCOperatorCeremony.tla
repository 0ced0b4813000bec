--------------------------- MODULE MCOperatorCeremony --------------------------
(******************************************************************************)
(* OperatorCeremony with an operator who changes policy beside one who        *)
(* changes anything else.                                                     *)
(******************************************************************************)
EXTENDS OperatorCeremony

Divided == [ivan |-> {"kernel.publish_policy"},
            mira |-> Action \ {"kernel.publish_policy"}]

DividedDuty == Divided
================================================================================
