--------------------------- MODULE MCAgentContext ---------------------------
(* Constants of the checked instance: two mandatory tools (1 is search_bls),
   three adaptive ones, and packets that do not always fit. *)
EXTENDS AgentContext

MCCost == [t \in Adaptive |-> IF t = 5 THEN 2 ELSE 1]
MCNeeds == [t \in Tools |-> IF t = 2 THEN {1} ELSE IF t \in Adaptive THEN Baseline ELSE {}]
Result(s, c) == [status |-> s, code |-> c]
MCOutcomes ==
  {Result("SUCCESS", "NO_CODE"), Result("SUCCESS", "CONTAMINATION_POSSIBLE"),
   Result("SUCCESS", "ODD_EVEN_MISMATCH"),
   Result("PRECONDITION_FAILED", "NO_CODE")}
MCFrame == [r \in Roles |-> IF r = "critic" THEN 3 ELSE 2]
=============================================================================
