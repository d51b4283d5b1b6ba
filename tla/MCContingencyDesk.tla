------------------------- MODULE MCContingencyDesk -------------------------
(* Two of the desk's plans: PLAN-002, a draft on the LTV of facility       *)
(* CF-0005, and PLAN-003, shipped armed on Brent; the dial at the levels   *)
(* that tell their triggers apart.                                         *)
EXTENDS PlanCard

CF5 == [lending |-> 13525, C |-> 9397, drawn |-> 8000, trigger_ltv |-> 70]

MCPlans      == {"PLAN-002", "PLAN-003"}
MCTrigger    == [p \in MCPlans |->
                  IF p = "PLAN-002"
                  THEN [variable |-> "LTV", operator |-> ">", level |-> 65]
                  ELSE [variable |-> "BRENT", operator |-> "<", level |-> 790]]
MCCollateral == [p \in MCPlans |-> CF5]
MCPreArmed   == {"PLAN-003"}
MCRanks      == 1 .. 2
MCLevelsOf   == [p \in MCPlans |-> IF p = "PLAN-002" THEN {60, 65, 70} ELSE {790}]
MCBrents     == {724, 850, 960, 1015}  \* LTV 73.9, 66.3, 61.2, 59.2
MCPresets    == {724, 1015}
=============================================================================
