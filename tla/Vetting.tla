------------------------------ MODULE Vetting ------------------------------
(***************************************************************************)
(* What a run promises about its measurements, whatever steps, roles,      *)
(* saves, crashes and recoveries bring them about: one tool at a time and  *)
(* none twice, the mandatory ones first and in their order, no further one *)
(* once a result halts or decides the run, and a verdict that answers for  *)
(* all of the evidence.                                                    *)
(***************************************************************************)
EXTENDS Naturals, Sequences

CONSTANTS
  Baseline, Adaptive,       \* the mandatory and the adaptive tools
  Search,                   \* the tool whose success yields the candidate
  Outcomes,                 \* what a measurement may return
  Successful,               \* the statuses that complete a mandatory test
  Rejecting, Weak, Decisive,   \* interpretation codes by what they mean
  None                      \* no verdict

VARIABLES phase,      \* "open", "failed", "ready", "locked" or "revealed"
          running,    \* the tool under measurement, if any
          evidence,   \* the results, in their order
          verdict

vars == <<phase, running, evidence, verdict>>

Results == {evidence[n] : n \in DOMAIN evidence}
Measured == {r.tool : r \in Results}
Codes == {r.code : r \in Results}
Usable == {r \in Results : r.status \in Successful}
Complete == Baseline \ {r.tool : r \in Usable} = {}
\* A result halts the run unless it is usable, or an adaptive tool was refused
\* its precondition.
Halted == \E r \in Results \ Usable : r.tool \in Baseline \/ r.status # "PRECONDITION_FAILED"
Decided == \E r \in Usable : r.code \in Decisive

Init == phase = "open" /\ running = {} /\ evidence = <<>> /\ verdict = None

Take(tool) ==
  /\ phase = "open" /\ running = {} /\ ~Halted
  /\ tool \in Baseline \cup Adaptive /\ tool \notin Measured
  /\ IF tool \in Baseline
     THEN \A u \in Baseline \ {r.tool : r \in Usable} : tool <= u
     ELSE Complete /\ ~Decided
  /\ running' = {tool} /\ UNCHANGED <<phase, evidence, verdict>>

Record(tool, outcome) ==
  /\ phase = "open" /\ running = {tool} /\ running' = {}
  /\ evidence' = Append(evidence, [tool |-> tool, status |-> outcome.status,
                                   code |-> outcome.code])
  /\ UNCHANGED <<phase, verdict>>

Fail ==
  /\ phase = "open" /\ phase' = "failed" /\ running' = {}
  /\ UNCHANGED <<evidence, verdict>>

Conclude ==
  /\ phase = "open" /\ running = {} /\ ~Halted /\ Complete
  /\ verdict' \in {"REJECTED", "WEAK", "SURVIVES"}
  /\ (verdict' = "REJECTED") <=> (Codes \cap Rejecting # {})
  /\ (verdict' = "WEAK") => (Codes \cap Weak # {}) /\ "WEAK_NOISY" \notin Codes
  /\ (verdict' = "SURVIVES") =>
       /\ Codes \cap Weak = {} /\ "WEAK_NOISY" \notin Codes
       /\ "CLEAN_PLANET_LIKE" \in Codes
            \/ \E r \in Results : r.tool = Search /\ r.status = "SUCCESS"
  /\ phase' = "ready" /\ UNCHANGED <<running, evidence>>

Lock == phase = "ready" /\ phase' = "locked" /\ UNCHANGED <<running, evidence, verdict>>
Reveal == phase = "locked" /\ phase' = "revealed" /\ UNCHANGED <<running, evidence, verdict>>

Next ==
  \/ \E tool \in Baseline \cup Adaptive :
       Take(tool) \/ \E outcome \in Outcomes : Record(tool, outcome)
  \/ Fail \/ Conclude \/ Lock \/ Reveal
Spec == Init /\ [][Next]_vars
=============================================================================
