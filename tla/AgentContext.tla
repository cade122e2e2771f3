---------------------------- MODULE AgentContext ----------------------------
(***************************************************************************)
(* What a model role is shown, and which of its answers are accepted: the  *)
(* packets built from the durable state and the ledger, the validation of  *)
(* the answers, and the admission of the action they name.  Two separate   *)
(* pieces of code decide what is offered and what is allowed.              *)
(*                                                                         *)
(* An evidence id is the position in the ledger, a context version the     *)
(* number of commits.  How an answer is retried is in Inference, what a    *)
(* crash does to the loop in Investigation.                                *)
(***************************************************************************)
EXTENDS Naturals, Sequences, FiniteSets
LOCAL INSTANCE FiniteSetsExt

CONSTANTS
  Baseline, Adaptive, Search,  \* as in Investigation
  Cost,            \* adaptive cost units of each adaptive tool
  Needs,           \* required_completed_tests of each tool
  Outcomes,        \* [status, code] pairs a tool may return
  Sizes, Frame,    \* bytes of an evidence record; of a role's packet without its lists
  Ceiling,         \* MAX_SERIALIZED_CONTEXT_BYTES
  RecentLimit,     \* records a packet holds if no more are required
  Promoted,        \* specialist_advisory_enabled
  Stop, None,
  MaxTools, MaxAdaptive, MaxCost, MaxRevisions

Tools == Baseline \cup Adaptive
Requests == Adaptive \cup {Stop}
Specialists == {"observer", "signal", "transit_hunter", "director"}
Roles == Specialists \cup {"skeptic", "critic"}
Rejecting == {"ODD_EVEN_MISMATCH", "CONTAMINATION_LIKELY"}
Decisive == Rejecting \cup {"CLEAN_PLANET_LIKE", "WEAK_NOISY"}
Weak == {"SECONDARY_ECLIPSE_DETECTED", "CONTAMINATION_POSSIBLE", "HARMONIC_ALIAS_PREFERRED"}
Codes == Decisive \cup Weak \cup {"NO_CODE"}
Successful == {"SUCCESS", "NO_EVIDENCE", "INDETERMINATE"}
ToolStatus == Successful \cup {"FAILED", "PRECONDITION_FAILED", "NOT_IMPLEMENTED"}
DecisionCritical == {"CLEAN_PLANET_LIKE", "CONTAMINATION_LIKELY", "CONTAMINATION_POSSIBLE",
  "HARMONIC_ALIAS_PREFERRED", "ODD_EVEN_MISMATCH", "SECONDARY_ECLIPSE_DETECTED", "WEAK_NOISY"}

ASSUME ToolsAssumption ==
  /\ Baseline \subseteq Nat \ {0} /\ Adaptive \subseteq Nat \ {0}
  /\ Baseline \cap Adaptive = {} /\ Search \in Baseline
  /\ Cost \in [Adaptive -> Nat \ {0}] /\ Needs \in [Tools -> SUBSET Baseline]
  /\ Stop \notin Tools /\ None \notin Requests
ASSUME DataAssumption ==
  /\ Outcomes \subseteq [status : ToolStatus, code : Codes]
  /\ Sizes \subseteq Nat \ {0} /\ Frame \in [Roles -> Nat \ {0}] /\ Promoted \in BOOLEAN
ASSUME LimitsAssumption ==
  /\ Ceiling \in Nat /\ RecentLimit \in Nat
  /\ MaxTools \in Nat /\ MaxAdaptive \in Nat /\ MaxCost \in Nat /\ MaxRevisions \in Nat

VARIABLES
  costLeft,   \* adaptive_cost_units_remaining
  ledger,     \* committed evidence: tool, status, code, bytes
  briefs,     \* the context of each specialist's latest accepted answer, 0 for none
  offered,    \* available_tests
  packet,     \* the packet an awaited required role was given
  proposal, review,  \* the decisions of the current cycle
  revisions,  \* critic_revision_count
  pc

answers == <<proposal, review, revisions>>
vars == <<costLeft, ledger, briefs, offered, packet, answers, pc>>

-----------------------------------------------------------------------------
(* The durable state.                                                      *)

Evidence == DOMAIN ledger
Version == Len(ledger)
Executed == {ledger[n].tool : n \in Evidence}
Done == {ledger[n].tool : n \in {m \in Evidence : /\ ledger[m].tool \in Baseline
                                                  /\ ledger[m].status \in Successful}}
Missing == Baseline \ Done
Runnable == {t \in Missing : Needs[t] \subseteq Done}
LedgerCodes == {ledger[n].code : n \in Evidence}
Spent == {n \in Evidence : ledger[n].tool \in Adaptive}
CandidateRefs ==
  {n \in Evidence : ledger[n].tool = Search /\ ledger[n].status = "SUCCESS"}
Newest(S, k) == {n \in S : Cardinality({m \in S : m > n}) < k}
\* A decisive code replaces the active hypotheses, any other code keeps them.
Hypotheses == {ledger[n].code : n \in Newest({m \in Evidence : ledger[m].code \in Decisive}, 1)}

Available ==
  LET runnable == {t \in Adaptive : /\ Cost[t] <= costLeft
                                    /\ Needs[t] \subseteq Done /\ t \notin Executed}
  IN  IF runnable = {} THEN {} ELSE runnable \cup {Stop}

-----------------------------------------------------------------------------
(* Packets.                                                                *)

CostOf(action) == IF action = Stop THEN 0 ELSE Cost[action]
\* Mutant: the cost of the fallback contract instead of the registry's.
OptionAtUnitCost(action) ==
  [action |-> action, cost |-> IF action = Stop THEN 0 ELSE 1, valid |-> TRUE]
\* An experiment option; it is a valid one if nothing speaks against it.
Option(action) ==
  [action |-> action, cost |-> CostOf(action),
   valid |-> \/ action = Stop
             \/ /\ action \notin Executed /\ Needs[action] \subseteq Done
                /\ Cost[action] <= costLeft]

\* Evidence that every packet must hold: the sources of the candidate's
\* measurements and every code that can decide the disposition.
Required == CandidateRefs \cup {n \in Evidence : ledger[n].code \in DecisionCritical}
\* Mutant: the limit is applied to all the evidence.
ShownNewest == Newest(Evidence, RecentLimit)
Shown ==
  Required \cup Newest(Evidence \ Required,
                       IF Cardinality(Required) < RecentLimit
                       THEN RecentLimit - Cardinality(Required) ELSE 0)

\* The briefs in a packet: the Skeptic's are of this context, the others' are
\* the latest there are.
Briefs(role) ==
  CASE role = "skeptic" ->
         IF Promoted THEN {r \in {"transit_hunter", "director"} : briefs[r] = Version}
                     ELSE {}
    [] role = "transit_hunter" ->
         IF Promoted THEN {r \in {"observer", "signal"} : briefs[r] > 0} ELSE {}
    [] role = "director" -> {r \in Specialists \ {"director"} : briefs[r] > 0}
    [] OTHER -> {}

Bytes(role, shown, listed) ==
  Frame[role] + listed + MapThenSumSet(LAMBDA n : ledger[n].size, shown)

\* Packet fields that the answers are checked against.  The observer sees the
\* search records only, or the first record if there are none.
Visible(role, shown) ==
  LET searches == {n \in shown : ledger[n].tool = Search} IN
  IF role # "observer" THEN shown
  ELSE IF searches # {} THEN searches
  ELSE {n \in shown : \A m \in shown : n <= m}

PacketFor(role, actions) ==
  [role |-> role, version |-> Version, visible |-> Visible(role, Shown),
   options |-> {Option(a) : a \in actions}, units |-> costLeft,
   revisions |-> MaxRevisions - revisions, briefs |-> Briefs(role),
   hypotheses |-> Hypotheses]

\* The size field of the packet is itself bounded by the ceiling, so a packet
\* that is too large does not validate: it raises before its size is compared,
\* and neither hypotheses nor optional records are left out instead.
Assembled(role, actions) ==
  LET listed == Cardinality(actions) + Cardinality(Hypotheses) IN
  /\ Bytes("skeptic", Shown, listed) <= Ceiling
  /\ Bytes(role, Visible(role, Shown), listed + Cardinality(Briefs(role))) <= Ceiling

-----------------------------------------------------------------------------
(* Answers.                                                                *)

Cites(cites, p) == cites \subseteq p.visible /\ (p.visible # {} => cites # {})

\* _validate_inferred_action, with the budget checks that end the run.
Unaffordable(action, actions) ==
  action # Stop /\ (\/ Version >= MaxTools
                    \/ action \in (actions \cap Adaptive) \ Executed /\ Cost[action] > costLeft)
Allowed(action, actions) ==
  /\ action \in actions
  /\ action = Stop \/ /\ action \notin Executed /\ Missing = {} /\ Needs[action] \subseteq Done
SkepticDeclares(a) ==
  /\ a.units = costLeft
  /\ a.action \in Requests => a.cost = CostOf(a.action)

\* What _validate_inference_decision says of an answer to the packet.
SkepticVerdict(a) ==
  IF a.version # Version \/ ~SkepticDeclares(a) THEN "invalid"
  ELSE IF Unaffordable(a.action, offered) THEN "unaffordable"
  ELSE IF Allowed(a.action, offered) /\ Cites(a.cites, packet) THEN "valid" ELSE "invalid"
\* Mutant: the revisions that are used up are not counted.
CriticVerdictUncounted(a) ==
  IF a.version # Version \/ a.reviews # proposal THEN "invalid"
  ELSE IF a.verdict = "REVISE" /\ Unaffordable(a.revised, offered) THEN "unaffordable"
  ELSE IF /\ a.verdict = "REVISE" => Allowed(a.revised, offered)
          /\ Cites(a.cites, packet) THEN "valid" ELSE "invalid"
CriticVerdict(a) ==
  IF a.version # Version \/ a.reviews # proposal THEN "invalid"
  ELSE IF a.verdict = "REVISE" /\ (revisions >= MaxRevisions \/ Unaffordable(a.revised, offered))
       THEN "unaffordable"
  ELSE IF /\ a.verdict = "REVISE" => Allowed(a.revised, offered)
          /\ Cites(a.cites, packet) THEN "valid" ELSE "invalid"
\* A specialist answers about the candidate, the actions, the hypotheses and
\* the evidence of its packet; the Director echoes the route, the disposition
\* and the phase of its own.
SpecialistAccepted(role, a, p) ==
  /\ a.version = Version /\ Cites(a.cites, p)
  /\ role = "transit_hunter" => a.ranked \subseteq Available /\ a.candidate \in CandidateRefs
  /\ role = "director" => /\ a.echoes
                          /\ a.focus \in IF p.hypotheses = {} THEN {"unresolved"} ELSE p.hypotheses

-----------------------------------------------------------------------------
Init ==
  /\ costLeft = MaxCost /\ ledger = <<>> /\ briefs = [r \in Specialists |-> 0] /\ offered = {}
  /\ packet = None /\ proposal = None /\ review = None /\ revisions = 0 /\ pc = "baseline"

\* A committed result opens a new context and a new cycle.
Commit(tool) ==
  /\ \E o \in Outcomes, s \in Sizes :
       ledger' = Append(ledger, [tool |-> tool, status |-> o.status, code |-> o.code, size |-> s])
  /\ proposal' = None /\ review' = None /\ pc' = "evaluate"
  /\ UNCHANGED <<briefs, offered, packet, revisions>>
Goto(here, there) ==
  /\ pc = here /\ pc' = there
  /\ UNCHANGED <<costLeft, ledger, briefs, offered, packet, answers>>

\* The first mandatory tool that is missing and can run.
RunMandatory ==
  /\ pc = "baseline"
  /\ IF Runnable = {} \/ Version >= MaxTools THEN Goto("baseline", "closed")
     ELSE /\ \E t \in Runnable : (\A u \in Runnable : t <= u) /\ Commit(t)
          /\ UNCHANGED costLeft

\* Where the loop goes after a result, as in Investigation.
AfterResult ==
  LET last == ledger[Version] IN
  IF \/ last.status \in {"FAILED", "NOT_IMPLEMENTED"}
     \/ last.status = "PRECONDITION_FAILED" /\ last.tool \in Baseline THEN "closed"
  ELSE IF Missing # {} THEN "baseline"
  ELSE IF LedgerCodes \cap Decisive # {} THEN "final"
  ELSE IF CandidateRefs = {} THEN "closed"
  ELSE IF Cardinality(Spent) >= MaxAdaptive \/ costLeft = 0 \/ Available = {} THEN "final"
  ELSE "specialists"
Evaluate == Goto("evaluate", AfterResult)

SpecialistAnswerSet ==
  [version : {Version - 1, Version}, cites : {{}} \cup {{n} : n \in Evidence}, ranked : {Available, Requests},
   candidate : Evidence, echoes : BOOLEAN, focus : {"unresolved"} \cup Decisive]
Answering(members) ==
  {r \in members : \E a \in SpecialistAnswerSet :
                      SpecialistAccepted(r, a, PacketFor(r, Available))}

\* Observer and Signal together, then the Transit Hunter, then the Director;
\* each is answered or skipped.  Their packets are built outside the code that
\* skips a failing specialist.
Consult(members, here, there) ==
  /\ pc = here
  /\ IF \A r \in members : Assembled(r, Available)
     THEN /\ \E who \in SUBSET Answering(members) :
               briefs' = [r \in Specialists |-> IF r \in who THEN Version ELSE briefs[r]]
          /\ pc' = there
     ELSE pc' = "raised" /\ UNCHANGED briefs
  /\ UNCHANGED <<costLeft, ledger, offered, packet, answers>>
ConsultSpecialists == Consult({"observer", "signal"}, "specialists", "hunter")
ConsultHunter == Consult({"transit_hunter"}, "hunter", "director")
ConsultDirector == Consult({"director"}, "director", "skeptic")

Ask(role, actions) ==
  /\ IF Assembled(role, actions)
     THEN packet' = PacketFor(role, actions) /\ pc' = IF role = "skeptic" THEN "skeptic_asked"
                                                                           ELSE "critic_asked"
     ELSE pc' = "raised" /\ UNCHANGED packet
  /\ UNCHANGED <<costLeft, ledger, briefs, answers>>
AskSkeptic == pc = "skeptic" /\ offered' = Available /\ Ask("skeptic", Available)
AskCritic == pc = "critic" /\ UNCHANGED offered /\ Ask("critic", offered)

SkepticAnswers(a) ==
  /\ pc = "skeptic_asked" /\ packet' = None
  /\ \/ SkepticVerdict(a) = "valid" /\ proposal' = a.action /\ pc' = "critic"
     \/ SkepticVerdict(a) = "unaffordable" /\ pc' = "closed" /\ UNCHANGED proposal
  /\ UNCHANGED <<costLeft, ledger, briefs, offered, review, revisions>>

Selected(proposed, reviewed) ==
  IF reviewed.verdict = "REVISE" THEN reviewed.revised ELSE proposed
CriticAnswers(a) ==
  /\ pc = "critic_asked" /\ packet' = None
  /\ \/ /\ CriticVerdict(a) = "valid"
        /\ review' = [verdict |-> a.verdict, revised |-> a.revised]
        /\ revisions' = IF a.verdict = "REVISE" THEN revisions + 1 ELSE revisions
        /\ pc' = IF a.verdict = "VETO" \/ Selected(proposal, a) = Stop THEN "final" ELSE "act"
     \/ CriticVerdict(a) = "unaffordable" /\ pc' = "closed" /\ UNCHANGED <<review, revisions>>
  /\ UNCHANGED <<costLeft, ledger, briefs, offered, proposal>>
\* Every attempt was invalid.
GiveUp == Goto("skeptic_asked", "closed") \/ Goto("critic_asked", "closed")

\* The checks of _execute_action.
Refused(t) ==
  \/ Version >= MaxTools \/ Cardinality(Spent) >= MaxAdaptive \/ Cost[t] > costLeft
  \/ t \in Executed \/ t \notin Available \/ Missing # {} \/ ~(Needs[t] \subseteq Done)
RunAdaptive ==
  LET t == Selected(proposal, review) IN
  /\ pc = "act"
  /\ IF Refused(t) THEN Goto("act", "closed")
                   ELSE Commit(t) /\ costLeft' = costLeft - Cost[t]

Finalize == Goto("final", IF Assembled("director", Available) THEN "closed" ELSE "raised")

\* What a model may answer: anything it was shown, or not; None is a name that
\* the registry does not know.
Citations == {{}, packet.visible} \cup {{n} : n \in Evidence}
SkepticAnswerSet ==
  [version : {Version - 1, Version}, action : Requests \cup {None},
   cost : 0..MaxCost, units : {costLeft, costLeft + 1}, cites : Citations]
CriticAnswerSet ==
  [version : {Version - 1, Version}, reviews : Requests, verdict : {"APPROVE", "VETO"},
   revised : {None}, cites : Citations]
  \cup [version : {Version}, reviews : {proposal}, verdict : {"REVISE"},
        revised : Requests \cup {None}, cites : Citations]

Next ==
  \/ RunMandatory \/ Evaluate \/ ConsultSpecialists \/ ConsultHunter \/ ConsultDirector
  \/ AskSkeptic \/ AskCritic \/ GiveUp
  \/ pc = "skeptic_asked" /\ \E a \in SkepticAnswerSet : SkepticAnswers(a)
  \/ pc = "critic_asked" /\ \E a \in CriticAnswerSet : CriticAnswers(a)
  \/ RunAdaptive \/ Finalize
Spec == Init /\ [][Next]_vars
-----------------------------------------------------------------------------
(* Properties.                                                             *)

Evidences == [tool : Tools, status : ToolStatus, code : Codes, size : Sizes]
Reviews == [verdict : {"APPROVE", "VETO", "REVISE"}, revised : Requests \cup {None}]
Options == [action : Requests, cost : Nat, valid : BOOLEAN]
Packets == [role : {"skeptic", "critic"}, version : Nat, visible : SUBSET Nat,
            options : SUBSET Options, units : Nat, revisions : Nat,
            briefs : SUBSET Specialists, hypotheses : SUBSET Decisive]

\* Every variable has its type.
TypeOK ==
  /\ costLeft \in Nat /\ ledger \in Seq(Evidences) /\ briefs \in [Specialists -> Nat]
  /\ offered \subseteq Requests
  /\ packet \in Packets \cup {None} /\ proposal \in Requests \cup {None}
  /\ review \in Reviews \cup {None} /\ revisions \in 0..MaxRevisions
  /\ pc \in {"baseline", "evaluate", "specialists", "hunter", "director", "skeptic", "skeptic_asked", "critic",
             "critic_asked", "act", "final", "closed", "raised"}

Asked == pc \in {"skeptic_asked", "critic_asked"}
\* While a required role is awaited, what it looks at is the whole case as it
\* stands: every record that could decide the disposition, the candidate's
\* sources, and no brief of older evidence; it fits the ceiling.
PacketShowsTheCase ==
  Asked =>
    /\ \A n \in Evidence :
         ledger[n].code \in Decisive \cup Weak \/ n \in CandidateRefs => n \in packet.visible
    /\ packet.version = Version /\ packet.units = costLeft
    /\ \A r \in packet.briefs : briefs[r] = Version
    /\ Cardinality(packet.visible) <= RecentLimit \/ packet.visible = Required

\* An answer that takes everything from its packet is accepted, while tool
\* calls are left: the menu and the validation agree.
CompliantIsAccepted ==
  Version < MaxTools =>
    /\ pc = "skeptic_asked" =>
         \A o \in packet.options, cites \in (SUBSET packet.visible) \ {{}} :
           o.valid => SkepticVerdict([version |-> packet.version, action |-> o.action,
                                      cost |-> o.cost, units |-> packet.units,
                                      cites |-> cites]) = "valid"
    /\ pc = "critic_asked" =>
         \A o \in packet.options, cites \in (SUBSET packet.visible) \ {{}} :
           o.valid /\ packet.revisions > 0 =>
             CriticVerdict([version |-> packet.version, reviews |-> proposal,
                            verdict |-> "REVISE", revised |-> o.action,
                            cites |-> cites]) = "valid"

\* What Skeptic and Critic were allowed to choose is never refused when it is
\* executed: no run ends on its own approved decision.
AcceptedRuns == pc = "act" => ~Refused(Selected(proposal, review))

\* The menu, the validation and the execution are three pieces of code that
\* judge an action alike: what is offered is accepted, what is accepted runs.
MenuIsHonest == CompliantIsAccepted /\ AcceptedRuns

\* What the comment says: under pressure the optional parts are left out.
OptionalYields ==
  pc = "raised" =>
    \E r \in Roles : Bytes(r, Visible(r, Required), Cardinality(offered \cup Available)) > Ceiling
=============================================================================
