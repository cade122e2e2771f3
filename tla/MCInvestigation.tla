--------------------------- MODULE MCInvestigation ---------------------------
(* Constants of the checked instances: two mandatory tools (1 is search_bls),
   two adaptive ones, and the outcomes that drive different branches. *)
EXTENDS Investigation

MCCost == [t \in Adaptive |-> IF t = 3 THEN 1 ELSE 2]
Result(s, c) == [status |-> s, code |-> c]
MCOutcomes ==
  {Result("SUCCESS", "NO_CODE"), Result("SUCCESS", "HARMONIC_ALIAS_PREFERRED"),
   Result("SUCCESS", "ODD_EVEN_MISMATCH"), Result("SUCCESS", "WEAK_NOISY"),
   Result("NO_EVIDENCE", "NO_CODE"), Result("FAILED", "NO_CODE"),
   Result("PRECONDITION_FAILED", "NO_CODE"), Result("NOT_IMPLEMENTED", "NO_CODE")}
=============================================================================
