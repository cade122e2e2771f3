--------------------------- MODULE Investigation ---------------------------
(***************************************************************************)
(* The bounded policy loop of one investigation run: the controller nodes  *)
(* that the LangGraph topology strings together, cut at every durable      *)
(* write.  A crash may fall between any two of those writes; the restarted *)
(* controller sees only the durable variables.                             *)
(*                                                                         *)
(* A tool is its position in the registry, so the first missing mandatory  *)
(* tool is the least one.  An action id is an index into tool_executions.  *)
(* Decisions are indexed by the step they were accepted in.                *)
(***************************************************************************)
EXTENDS Naturals, Sequences, FiniteSets

CONSTANTS
  Baseline,        \* registry tools that complete a mandatory test
  Adaptive,        \* implemented adaptive tools the target supports
  Search,          \* the tool whose success yields the candidate (search_bls)
  NeedsCandidate,  \* tools whose backend input is the candidate artifact
  Cost,            \* adaptive cost units of each adaptive tool
  Outcomes,        \* [status, code] pairs a tool handler may return
  Stop, None,      \* the stop action; the absent value
  MaxSteps, MaxTools, MaxAdaptive, MaxCost, MaxRevisions,   \* run budgets
  MaxCrashes       \* model bound: process crashes in a behaviour

Tools == Baseline \cup Adaptive
Requests == Adaptive \cup {Stop}
ToolStatus == {"SUCCESS", "NO_EVIDENCE", "INDETERMINATE", "FAILED",
               "PRECONDITION_FAILED", "NOT_IMPLEMENTED"}
Rejecting == {"ODD_EVEN_MISMATCH", "CONTAMINATION_LIKELY"}
Decisive == Rejecting \cup {"CLEAN_PLANET_LIKE", "WEAK_NOISY"}
Weak == {"SECONDARY_ECLIPSE_DETECTED", "CONTAMINATION_POSSIBLE",
         "HARMONIC_ALIAS_PREFERRED"}
Codes == Decisive \cup Weak \cup {"NO_CODE"}
Successful == {"SUCCESS", "NO_EVIDENCE", "INDETERMINATE"}
Verdicts == {"APPROVE", "REVISE", "VETO"}
Reviews == [verdict : Verdicts, revised : Requests \cup {None}]

ASSUME ToolsAssumption ==
  /\ Baseline \subseteq Nat \ {0} /\ Adaptive \subseteq Nat \ {0}
  /\ Baseline \cap Adaptive = {}
  /\ Search \in Baseline /\ NeedsCandidate \subseteq Tools \ {Search}
  /\ Cost \in [Adaptive -> Nat]
ASSUME ValuesAssumption ==
  /\ Stop \notin Tools /\ None \notin Requests
  /\ None \notin Reviews /\ None \notin {"REJECTED", "WEAK", "SURVIVES"}
ASSUME OutcomesAssumption == Outcomes \subseteq [status : ToolStatus, code : Codes]
ASSUME BudgetsAssumption ==
  /\ MaxSteps \in Nat \ {0} /\ MaxTools \in Nat /\ MaxAdaptive \in Nat
  /\ MaxCost \in Nat /\ MaxRevisions \in Nat /\ MaxCrashes \in Nat

VARIABLES
  \* state.json, replaced atomically by every _replace
  status, step, done, candidate, execs, toolCalls, adaptiveUsed, costLeft,
  proposal, review, revisions, pendingFinal, disposition,
  recorded,  \* agent_decisions.jsonl: <<role, step>> of the required decisions
  ledger,    \* evidence.jsonl: one record per result, in order of appending
  trace,     \* trace.jsonl, restricted to the events that routing reads
  \* volatile
  pc,        \* the durable write or awaited call the current advance is before
  crashes    \* history: where each crash so far fell, when that makes a difference

science == <<done, candidate, ledger, disposition>>
budget == <<step, execs, toolCalls, adaptiveUsed, costLeft>>
agents == <<proposal, review, revisions, recorded>>
vars == <<status, science, budget, agents, pendingFinal, trace, pc, crashes>>

Steps == 1..MaxSteps
Failures == {"FAILED", "INSUFFICIENT_EVIDENCE", "BUDGET_EXHAUSTED"}
Closed == {"READY_TO_LOCK", "RESULT_LOCKED", "REVEALED"} \cup Failures
Open == {"INITIALIZED", "VETTING_MANDATORY", "SELECTING_ADAPTIVE_EXPERIMENT",
         "WAITING_FOR_CRITIC", "RUNNING_TOOL", "UPDATING_EVIDENCE", "FINALIZING"}

\* The status table, without the statuses no code path ever sets.
Allowed ==
  [s \in Open \cup Closed |->
     CASE s = "INITIALIZED" -> {"VETTING_MANDATORY", "UPDATING_EVIDENCE",
                                "SELECTING_ADAPTIVE_EXPERIMENT"} \cup Failures
       [] s = "VETTING_MANDATORY" -> {"RUNNING_TOOL"} \cup Failures
       [] s = "SELECTING_ADAPTIVE_EXPERIMENT" ->
            {"WAITING_FOR_CRITIC", "READY_TO_LOCK"} \cup Failures
       [] s = "WAITING_FOR_CRITIC" -> {"RUNNING_TOOL", "READY_TO_LOCK"} \cup Failures
       [] s = "RUNNING_TOOL" -> {"UPDATING_EVIDENCE"} \cup Failures
       [] s = "UPDATING_EVIDENCE" ->
            {"VETTING_MANDATORY", "SELECTING_ADAPTIVE_EXPERIMENT", "FINALIZING",
             "READY_TO_LOCK"} \cup Failures
       [] s = "FINALIZING" -> {"READY_TO_LOCK"} \cup Failures
       [] s = "READY_TO_LOCK" -> {"RESULT_LOCKED"}
       [] s = "RESULT_LOCKED" -> {"REVEALED"}
       [] OTHER -> {}]

Legal(new) == new = status \/ new \in Allowed[status]
CannotAdvance == status \in Closed

-----------------------------------------------------------------------------
(* What the controller reads from the durable state.                       *)

Missing == Baseline \ done
First(t) == t \in Missing /\ \A u \in Missing : t <= u
ActionsIn(st) == {i \in DOMAIN execs : execs[i].status = st}
Prepared == ActionsIn("PREPARED")
LastOf(S) == IF S = {} THEN 0 ELSE CHOOSE i \in S : \A j \in S : j <= i
Accepted == {execs[i].tool : i \in Prepared \cup ActionsIn("COMPLETED")}
Available ==
  LET runnable == {t \in Adaptive : Cost[t] <= costLeft /\ t \notin Accepted}
  IN  IF runnable = {} THEN {} ELSE runnable \cup {Stop}
\* The first n of a sequence of numbers, added up.
Total(h, n) == LET sum[k \in 0..n] == IF k = 0 THEN 0 ELSE sum[k - 1] + h[k] IN sum[n]
Units == [i \in DOMAIN execs |->
            IF execs[i].tool \in Adaptive THEN Cost[execs[i].tool] ELSE 0]
SpentUnits == Total(Units, Len(execs))
AdaptiveBudgetSpent == adaptiveUsed >= MaxAdaptive \/ costLeft = 0

\* Mutant: the decision is looked up in its role record.
ProposedIfRecorded == step \in Steps /\ proposal[step] # None /\ <<"skeptic", step>> \in recorded
Proposed == step \in Steps /\ proposal[step] # None
Reviewed == Proposed /\ review[step] # None
Vetoed == Reviewed /\ review[step].verdict = "VETO"
Revisions == Cardinality({s \in Steps : review[s] # None /\ review[s].verdict = "REVISE"})
\* Mutant: a revision is ignored.
SelectedUnrevised == proposal[step]
Selected == IF review[step].verdict = "REVISE" THEN review[step].revised
                                               ELSE proposal[step]
StopRequested ==
  Reviewed /\ (proposal[step] = Stop \/ review[step].revised = Stop)

TraceOf(types) == {n \in DOMAIN trace : trace[n].step = step /\ trace[n].type \in types}
PendingEvaluation ==
  status = "UPDATING_EVIDENCE" /\ TraceOf({"budget.updated", "recovery.completed"}) # {}
\* Mutant: a recovered measurement does not open a new step.
RequiresBeginUnrecovered ==
  /\ status \notin {"WAITING_FOR_CRITIC", "RUNNING_TOOL", "FINALIZING"}
  /\ ~PendingEvaluation
  /\ LET budgeted == LastOf(TraceOf({"budget.updated"}))
         boundary == LastOf(TraceOf({"evidence.appended"}))
     IN  budgeted = 0 \/ boundary > budgeted
RequiresBegin ==
  /\ status \notin {"WAITING_FOR_CRITIC", "RUNNING_TOOL", "FINALIZING"}
  /\ ~PendingEvaluation
  /\ LET budgeted == LastOf(TraceOf({"budget.updated"}))
         boundary == LastOf(TraceOf({"evidence.appended", "recovery.completed"}))
     IN  budgeted = 0 \/ boundary > budgeted

RecordOf(i) == {n \in DOMAIN ledger : ledger[n].action = i}
LedgerCodes == {ledger[n].code : n \in DOMAIN ledger}
\* Mutant: a weakening code is looked at before a rejecting one.
DispositionWeakFirst(codes, found) ==
  IF codes \cap Weak # {} THEN "WEAK"
  ELSE IF codes \cap Rejecting # {} THEN "REJECTED"
  ELSE IF "WEAK_NOISY" \in codes THEN None
  ELSE IF "CLEAN_PLANET_LIKE" \in codes \/ found THEN "SURVIVES"
  ELSE None
DispositionOf(codes, found) ==
  IF codes \cap Rejecting # {} THEN "REJECTED"
  ELSE IF "WEAK_NOISY" \in codes THEN None
  ELSE IF codes \cap Weak # {} THEN "WEAK"
  ELSE IF "CLEAN_PLANET_LIKE" \in codes \/ found THEN "SURVIVES"
  ELSE None

-----------------------------------------------------------------------------
(* Durable writes shared by several nodes.                                 *)

Goto(here, there) == pc = here /\ pc' = there
Emit(type) == trace' = Append(trace, [type |-> type, step |-> step])

\* _terminate: status, pending reason and the failing execution in one save.
Terminate(st, action) ==
  /\ status' = st
  /\ pendingFinal' = FALSE
  /\ execs' = [i \in DOMAIN execs |->
                 IF i = action THEN [execs[i] EXCEPT !.status = "FAILED"] ELSE execs[i]]
  /\ pc' = "idle"
  /\ UNCHANGED <<science, step, toolCalls, adaptiveUsed, costLeft, agents, trace, crashes>>

Step(there) ==
  /\ pc' = there
  /\ UNCHANGED <<status, science, budget, agents, pendingFinal, trace, crashes>>

\* A status save that is refused when the table does not allow it: the
\* ValueError leaves the durable state alone and unwinds to the run service.
SaveStatus(new, there) ==
  /\ IF Legal(new) THEN status' = new /\ pc' = there
                   ELSE pc' = "raised" /\ UNCHANGED status
  /\ UNCHANGED <<science, budget, agents, pendingFinal, trace, crashes>>

-----------------------------------------------------------------------------
Init ==
  /\ status = "INITIALIZED" /\ step = 0 /\ done = {} /\ candidate = FALSE
  /\ execs = <<>> /\ toolCalls = 0 /\ adaptiveUsed = 0 /\ costLeft = MaxCost
  /\ proposal = [s \in Steps |-> None] /\ review = [s \in Steps |-> None]
  /\ revisions = 0 /\ recorded = {} /\ pendingFinal = FALSE /\ disposition = None
  /\ ledger = <<>> /\ trace = <<>> /\ pc = "idle" /\ crashes = <<>>

\* The drive loop calls advance until the run stops.
StartAdvance == pc = "idle" /\ ~CannotAdvance /\ Step("recover")

\* Nothing is PREPARED: the graph goes on to the Director's route.
NothingToRecover == pc = "recover" /\ Prepared = {} /\ Step("route")

\* Commit of a result: test completion, candidate, execution and status.
Commit(i, result) ==
  /\ status' = "UPDATING_EVIDENCE"
  /\ done' = IF execs[i].tool \in Baseline /\ result.status \in Successful
             THEN done \cup {execs[i].tool} ELSE done
  /\ candidate' = (candidate \/ (execs[i].tool = Search /\ result.status = "SUCCESS"))
  /\ execs' = [execs EXCEPT ![i].status = IF result.status = "FAILED" THEN "FAILED"
                                                                     ELSE "COMPLETED"]
  /\ UNCHANGED <<ledger, disposition, step, toolCalls, adaptiveUsed, costLeft, agents,
                 pendingFinal, trace, crashes>>

\* Mutant: the evidence is found, and the execution left as it was.
RecoverUncommitted ==
  pc = "recover" /\ (\E i \in Prepared : RecordOf(i) # {}) /\ Step("recovered")
\* The evidence of a PREPARED action is already in the ledger: commit it
\* without running the tool again.
RecoverFromLedger ==
  /\ pc = "recover"
  /\ \E i \in Prepared : \E n \in RecordOf(i) : Commit(i, ledger[n])
  /\ pc' = "recovered"

\* Mutants: the ledger is not consulted; the rerun is charged.
ReexecuteAlways == pc = "recover" /\ Prepared # {} /\ Step("rerunning")
ReexecuteCharged ==
  /\ Goto("recover", "rerunning")
  /\ \E i \in Prepared : RecordOf(i) = {}
  /\ toolCalls' = toolCalls + 1
  /\ UNCHANGED <<status, science, step, execs, adaptiveUsed, costLeft, agents, pendingFinal,
                 trace, crashes>>
\* No evidence yet: run the same invocation again, charging nothing.
Reexecute == pc = "recover" /\ (\E i \in Prepared : RecordOf(i) = {}) /\ Step("rerunning")

EmitRecovery ==
  /\ Goto("recovered", "recover")
  /\ Emit("recovery.completed")
  /\ UNCHANGED <<status, science, budget, agents, pendingFinal, crashes>>

\* determine_route, before any step has been charged in this call.
RouteDurable ==
  /\ pc = "route"
  /\ \/ status = "FINALIZING" /\ Step("finalize")
     \/ PendingEvaluation /\ Step("evaluate")

\* The Skeptic of the current step exists: resume at the Critic or its verdict.
RouteProposal ==
  /\ pc = "route" /\ status # "FINALIZING" /\ ~PendingEvaluation /\ ~RequiresBegin
  /\ Proposed
  /\ \/ ~Reviewed /\ Step("critic")
     \/ /\ Reviewed /\ review[step].verdict = "REVISE" /\ revisions # Revisions
        /\ Step("critic_route")
     \/ /\ Reviewed /\ ~(review[step].verdict = "REVISE" /\ revisions # Revisions)
        /\ Step(IF Vetoed \/ Selected = Stop THEN "finalize" ELSE "prepare_adaptive")

\* Mutant: no ceiling on steps.
BeginCycleUnbounded ==
  /\ Goto("route", "begun") /\ status # "FINALIZING" /\ RequiresBegin
  /\ step' = step + 1
  /\ UNCHANGED <<status, science, execs, toolCalls, adaptiveUsed, costLeft, agents,
                 pendingFinal, trace, crashes>>
\* begin_cycle charges the step in state.json, then emits budget.updated.
BeginCycle ==
  /\ pc = "route" /\ status # "FINALIZING" /\ RequiresBegin
  /\ IF step >= MaxSteps
     THEN Terminate("BUDGET_EXHAUSTED", 0)
     ELSE /\ step' = step + 1 /\ pc' = "begun"
          /\ UNCHANGED <<status, science, execs, toolCalls, adaptiveUsed, costLeft, agents,
                         pendingFinal, trace, crashes>>

EmitBudget ==
  /\ Goto("begun", "fresh")
  /\ Emit("budget.updated")
  /\ UNCHANGED <<status, science, budget, agents, pendingFinal, crashes>>

\* The policy route of a cycle without a durable proposal.  WAITING_FOR_CRITIC
\* and RUNNING_TOOL never get here: the node would abort on them.
FreshRoute ==
  /\ \/ pc = "fresh"
     \/ /\ pc = "route" /\ status \notin {"FINALIZING", "WAITING_FOR_CRITIC", "RUNNING_TOOL"}
        /\ ~PendingEvaluation /\ ~RequiresBegin /\ ~Proposed
  /\ \/ Missing # {} /\ Step("mandatory")
     \/ Missing = {} /\ ~candidate /\ Step("terminate")
     \/ Missing = {} /\ candidate /\ (AdaptiveBudgetSpent \/ Available = {}) /\ Step("finalize")
     \/ /\ Missing = {} /\ candidate /\ ~AdaptiveBudgetSpent /\ Available # {}
        /\ SaveStatus("SELECTING_ADAPTIVE_EXPERIMENT", "skeptic")

RunMandatory == pc = "mandatory" /\ SaveStatus("VETTING_MANDATORY", "prepare_mandatory")

\* The Skeptic's validated decision is saved, then its role record and events,
\* then the status in which its execution is legal.
SkepticDecides(request) ==
  /\ Goto("skeptic", "skeptic_saved")
  /\ request \in Available
  /\ request # Stop => toolCalls < MaxTools
  /\ proposal' = [proposal EXCEPT ![step] = request]
  /\ UNCHANGED <<status, science, budget, review, revisions, recorded, pendingFinal, trace,
                 crashes>>

\* _persist_required_role_record, after the decision itself is durable.
RecordDecision(role, here, there) ==
  /\ Goto(here, there)
  /\ recorded' = recorded \cup {<<role, step>>}
  /\ UNCHANGED <<status, science, budget, proposal, review, revisions, pendingFinal, trace,
                 crashes>>

SkepticRecorded == RecordDecision("skeptic", "skeptic_saved", "skeptic_recorded")
SkepticWaits == pc = "skeptic_recorded" /\ SaveStatus("WAITING_FOR_CRITIC", "critic")

CriticDecides(verdict, revised) ==
  /\ Goto("critic", "critic_saved")
  /\ IF verdict = "REVISE"
     THEN /\ revisions < MaxRevisions
          /\ revised \in Available
          /\ revised # Stop => toolCalls < MaxTools
     ELSE revised = None
  /\ review' = [review EXCEPT ![step] = [verdict |-> verdict, revised |-> revised]]
  /\ UNCHANGED <<status, science, budget, proposal, revisions, recorded, pendingFinal, trace,
                 crashes>>

CriticRecorded == RecordDecision("critic", "critic_saved", "critic_route")

\* Retries, repair and fallback failed, or a budget check of _infer aborted.
InferenceAborts(st) ==
  /\ pc \in {"skeptic", "critic"}
  /\ st \in {"FAILED", "BUDGET_EXHAUSTED"}
  /\ Terminate(st, 0)

ResolveCritic ==
  /\ pc = "critic_route"
  /\ IF review[step].verdict = "REVISE" /\ Revisions > MaxRevisions
     THEN Terminate("BUDGET_EXHAUSTED", 0)
     ELSE /\ revisions' = IF review[step].verdict = "REVISE" THEN Revisions ELSE revisions
          /\ pc' = IF Vetoed \/ Selected = Stop THEN "finalize" ELSE "prepare_adaptive"
          /\ UNCHANGED <<status, science, budget, proposal, review, recorded, pendingFinal,
                         trace, crashes>>

ReadsFiles == NeedsCandidate \cup {Search}

\* The checks of _execute_action in order, then the PREPARED save that charges
\* every budget before the handler is invoked.
Refusal(tool, adaptive) ==
  IF toolCalls >= MaxTools THEN {"BUDGET_EXHAUSTED"}
  ELSE IF adaptive /\ (adaptiveUsed >= MaxAdaptive \/ Cost[tool] > costLeft)
       THEN {"BUDGET_EXHAUSTED"}
  ELSE IF tool \in Accepted \/ (adaptive /\ (tool \notin Available \/ Missing # {}))
       THEN {"FAILED"}
  ELSE IF tool \in NeedsCandidate /\ ~candidate THEN {"INSUFFICIENT_EVIDENCE"}
  ELSE {}

Prepare(tool, adaptive) ==
  \/ \E st \in Refusal(tool, adaptive) : Terminate(st, 0)
  \/ /\ Refusal(tool, adaptive) = {} /\ tool \in ReadsFiles
     /\ Terminate("INSUFFICIENT_EVIDENCE", 0)   \* the input files are gone
  \/ /\ Refusal(tool, adaptive) = {} /\ ~Legal("RUNNING_TOOL") /\ Step("raised")
  \/ /\ Refusal(tool, adaptive) = {} /\ Legal("RUNNING_TOOL")
     /\ status' = "RUNNING_TOOL"
     /\ toolCalls' = toolCalls + 1
     /\ adaptiveUsed' = IF adaptive THEN adaptiveUsed + 1 ELSE adaptiveUsed
     /\ costLeft' = IF adaptive THEN costLeft - Cost[tool] ELSE costLeft
     /\ execs' = Append(execs, [tool |-> tool, step |-> step, status |-> "PREPARED"])
     /\ pc' = "running"
     /\ UNCHANGED <<science, step, agents, pendingFinal, trace, crashes>>

PrepareMandatory ==
  pc = "prepare_mandatory" /\ \E t \in Baseline : First(t) /\ Prepare(t, FALSE)
PrepareAdaptive == pc = "prepare_adaptive" /\ Prepare(Selected, TRUE)

\* The handler's validated result is appended to the ledger before the state
\* is saved; a rerun writes the same kind of record.
HandlerReturns(outcome) ==
  /\ \/ Goto("running", "ledgered")
     \/ Goto("rerunning", "reledgered")
  /\ LET i == LastOf(Prepared) IN
       ledger' = Append(ledger, [action |-> i, tool |-> execs[i].tool,
                                 status |-> outcome.status, code |-> outcome.code])
  /\ UNCHANGED <<status, done, candidate, disposition, budget, agents, pendingFinal, trace,
                 crashes>>

\* Deadline, exception, a result that does not match its invocation, or input
\* files that are gone when the invocation is run again.
HandlerFails ==
  \/ pc \in {"running", "rerunning"} /\ Terminate("FAILED", LastOf(Prepared))
  \/ /\ pc = "rerunning" /\ execs[LastOf(Prepared)].tool \in ReadsFiles
     /\ Terminate("INSUFFICIENT_EVIDENCE", LastOf(Prepared))

CommitResult ==
  /\ \/ Goto("ledgered", "committed")
     \/ Goto("reledgered", "recommitted")
  /\ Commit(LastOf(Prepared), ledger[Len(ledger)])

EmitEvidence ==
  /\ \/ Goto("committed", "evaluate")
     \/ Goto("recommitted", "recovered")
  /\ Emit("evidence.appended")
  /\ UNCHANGED <<status, science, budget, agents, pendingFinal, crashes>>

\* _after_result on the evidence of the last execution of this step.
Finalizing ==
  /\ status' = "FINALIZING" /\ pendingFinal' = TRUE /\ pc' = "finalize"
  /\ UNCHANGED <<science, budget, agents, trace, crashes>>

Evaluated == LastOf({i \in DOMAIN execs : execs[i].step = step /\ RecordOf(i) # {}})

EvaluateResult ==
  /\ pc = "evaluate"
  /\ LET result == ledger[LastOf(RecordOf(Evaluated))]
         adaptive == result.tool \in Adaptive
         replan == AdaptiveBudgetSpent \/ Available = {}
     IN \/ result.status = "FAILED" /\ Terminate("FAILED", Evaluated)
        \/ /\ result.status = "PRECONDITION_FAILED" /\ adaptive
           /\ IF Available # {} THEN SaveStatus("SELECTING_ADAPTIVE_EXPERIMENT", "idle")
                                ELSE Finalizing
        \/ /\ \/ result.status = "PRECONDITION_FAILED" /\ ~adaptive
              \/ result.status = "NOT_IMPLEMENTED"
           /\ Terminate("INSUFFICIENT_EVIDENCE", 0)
        \/ /\ result.status \in Successful /\ Missing # {}
           /\ SaveStatus("VETTING_MANDATORY", "idle")
        \/ /\ result.status \in Successful /\ Missing = {}
           /\ IF \/ LedgerCodes \cap Decisive # {}
                 \/ adaptive /\ replan
                 \/ ~adaptive /\ result.status # "SUCCESS" /\ adaptiveUsed >= MaxAdaptive
              THEN Finalizing
              ELSE SaveStatus("SELECTING_ADAPTIVE_EXPERIMENT", "idle")

\* finalize_cycle: a durable reason must exist; the optional Director echo
\* changes nothing here.  READY_TO_LOCK needs the baseline and a disposition.
FinalReason ==
  IF status = "FINALIZING" THEN pendingFinal
  ELSE Vetoed \/ StopRequested \/ AdaptiveBudgetSpent \/ Available = {}

Finalize ==
  /\ pc = "finalize"
  /\ LET verdict == DispositionOf(LedgerCodes, candidate) IN
     IF ~FinalReason THEN Terminate("FAILED", 0)
     ELSE IF Missing # {} \/ verdict = None THEN Terminate("INSUFFICIENT_EVIDENCE", 0)
     ELSE IF ~Legal("READY_TO_LOCK") THEN Step("raised")
     ELSE /\ status' = "READY_TO_LOCK"
          /\ disposition' = verdict
          /\ pendingFinal' = FALSE
          /\ pc' = "idle"
          /\ UNCHANGED <<done, candidate, ledger, budget, agents, trace, crashes>>

TerminateCycle == pc = "terminate" /\ Terminate("INSUFFICIENT_EVIDENCE", 0)

-----------------------------------------------------------------------------
(* The environment: the run service, the API and the operating system.     *)

\* Where the event loop may deliver the run service's deadline: between
\* graph nodes and while a model or a tool is awaited.
AwaitPoints == {"idle", "recover", "route", "mandatory", "skeptic", "critic", "critic_route",
                "prepare_adaptive", "running", "rerunning", "evaluate", "finalize",
                "terminate"}

\* Mutant: the exception is retried.
FailRun == ~CannotAdvance /\ Terminate("FAILED", LastOf(Prepared))
DeadlineFails == pc \in AwaitPoints /\ FailRun
ExceptionRetries == pc = "raised" /\ Step("idle")
ExceptionFails == pc = "raised" /\ FailRun

LockResult ==
  /\ pc # "down" /\ status = "READY_TO_LOCK" /\ status' = "RESULT_LOCKED"
  /\ UNCHANGED <<science, budget, agents, pendingFinal, trace, pc, crashes>>

RevealCatalog ==
  /\ pc # "down" /\ status = "RESULT_LOCKED" /\ status' = "REVEALED"
  /\ UNCHANGED <<science, budget, agents, pendingFinal, trace, pc, crashes>>

\* A decision is saved and its role record, or the status that its execution
\* needs, is not; a result is committed and no event says that it is over.
RecordGap == {"skeptic_saved", "critic_saved"}
StatusGap == {"skeptic_saved", "skeptic_recorded"}
EventGap == {"committed", "recommitted", "recovered"}
Gaps == RecordGap \cup StatusGap \cup EventGap

Crash ==
  /\ pc # "down" /\ Len(crashes) < MaxCrashes
  /\ pc' = "down"
  /\ crashes' = Append(crashes, IF pc \in Gaps THEN pc ELSE "elsewhere")
  /\ UNCHANGED <<status, science, budget, agents, pendingFinal, trace>>

\* A new process with an empty cache; POST /resume starts the drive loop.
Resume == pc = "down" /\ Step("idle")

-----------------------------------------------------------------------------
Agent ==
  \/ \E r \in Requests : SkepticDecides(r)
  \/ SkepticRecorded \/ SkepticWaits \/ CriticRecorded
  \/ \E v \in Verdicts, r \in Requests \cup {None} : CriticDecides(v, r)
  \/ \E st \in Failures : InferenceAborts(st)
  \/ ResolveCritic

Tool ==
  \/ PrepareMandatory \/ PrepareAdaptive
  \/ \E o \in Outcomes : HandlerReturns(o)
  \/ HandlerFails \/ CommitResult \/ EmitEvidence

Cycle ==
  \/ StartAdvance \/ NothingToRecover \/ RecoverFromLedger \/ Reexecute \/ EmitRecovery
  \/ RouteDurable \/ RouteProposal \/ BeginCycle \/ EmitBudget \/ FreshRoute
  \/ RunMandatory \/ EvaluateResult \/ Finalize \/ TerminateCycle
  \/ ExceptionFails

Driver == Cycle \/ Agent \/ Tool
Environment == DeadlineFails \/ LockResult \/ RevealCatalog \/ Crash \/ Resume
Next == Driver \/ Environment

Spec == Init /\ [][Next]_vars
\* While the process runs, the event loop keeps executing the driver task and
\* every awaited model or tool call has a deadline; nothing forces a resume.
FairSpec == Spec /\ WF_vars(Driver)
-----------------------------------------------------------------------------
(* Properties.                                                             *)

PcValues == AwaitPoints \cup
  {"recovered", "begun", "fresh", "prepare_mandatory", "skeptic_saved", "skeptic_recorded",
   "critic_saved", "ledgered", "reledgered", "committed", "recommitted", "raised", "down"}
Executions == [tool : Tools, step : Steps, status : {"PREPARED", "COMPLETED", "FAILED"}]
EvidenceRecords == [action : Nat \ {0}, tool : Tools, status : ToolStatus, code : Codes]
Events == [type : {"budget.updated", "evidence.appended", "recovery.completed"}, step : Steps]

\* Every variable has its type.
TypeOK ==
  /\ status \in Open \cup Closed /\ step \in 0..MaxSteps
  /\ done \subseteq Baseline /\ candidate \in BOOLEAN
  /\ execs \in Seq(Executions) /\ toolCalls \in Nat /\ adaptiveUsed \in Nat
  /\ costLeft \in Nat
  /\ proposal \in [Steps -> Requests \cup {None}]
  /\ review \in [Steps -> Reviews \cup {None}]
  /\ revisions \in Nat /\ recorded \subseteq {"skeptic", "critic"} \X Steps
  /\ pendingFinal \in BOOLEAN /\ disposition \in {"REJECTED", "WEAK", "SURVIVES", None}
  /\ ledger \in Seq(EvidenceRecords) /\ trace \in Seq(Events)
  /\ pc \in PcValues
  /\ crashes \in Seq(Gaps \cup {"elsewhere"}) /\ Len(crashes) \in 0..MaxCrashes

\* The ledger and tool_executions agree whatever write a crash falls after: a
\* record names an execution of its tool, no action is recorded twice, and an
\* execution is COMPLETED only with its evidence durable.
LedgerMatchesExecutions ==
  /\ \A n \in DOMAIN ledger :
       /\ ledger[n].action \in DOMAIN execs
       /\ ledger[n].tool = execs[ledger[n].action].tool
  /\ \A m, n \in DOMAIN ledger : ledger[m].action = ledger[n].action => m = n
  /\ \A i \in ActionsIn("COMPLETED") : RecordOf(i) # {}

\* An adaptive tool runs only as the Critic left it: its step holds a Skeptic
\* proposal and a review of it that is no veto, and the tool is the one the
\* review selects, also when the verdict was read back after a restart.
AdaptiveWasApproved ==
  \A i \in DOMAIN execs : execs[i].tool \in Adaptive =>
    LET s == execs[i].step IN
      /\ proposal[s] # None /\ review[s] # None
      /\ review[s].verdict # "VETO"
      /\ execs[i].tool = IF review[s].verdict = "REVISE" THEN review[s].revised
                                                         ELSE proposal[s]

\* Mandatory vetting comes first: no adaptive tool has run, and no result is
\* ready to be locked, before every mandatory test is durably complete.
BaselineFirst ==
  (\/ \E i \in DOMAIN execs : execs[i].tool \in Adaptive
   \/ status \in {"READY_TO_LOCK", "RESULT_LOCKED", "REVEALED"}) => done = Baseline

\* RUNNING_TOOL is the durable mark of unfinished work: it is the status
\* exactly while one execution is PREPARED, so recovery never misses one and a
\* stopped run leaves none behind.
RunningMeansPrepared ==
  /\ (status = "RUNNING_TOOL") <=> (Prepared # {})
  /\ Prepared \subseteq {Len(execs)}

\* Every budget is charged once per execution, also when the execution is
\* recovered or run again after a crash, and never past its maximum.
BudgetsConserved ==
  /\ toolCalls = Len(execs) /\ toolCalls <= MaxTools
  /\ adaptiveUsed = Cardinality({i \in DOMAIN execs : execs[i].tool \in Adaptive})
  /\ adaptiveUsed <= MaxAdaptive /\ Revisions <= MaxRevisions
  /\ costLeft + SpentUnits = MaxCost

\* No tool is accepted twice: two executions of one tool never both stand as
\* PREPARED or COMPLETED, so no measurement is counted twice.
NoIdenticalAction ==
  \A i, j \in Prepared \cup ActionsIn("COMPLETED") :
    execs[i].tool = execs[j].tool => i = j

\* A published disposition answers for the whole ledger, recovered records
\* included: nothing that rejects or weakens the candidate was passed over.
DispositionHonoursLedger ==
  status \in {"READY_TO_LOCK", "RESULT_LOCKED", "REVEALED"} =>
    /\ (disposition = "REJECTED") <=> (LedgerCodes \cap Rejecting # {})
    /\ (disposition = "SURVIVES") => (LedgerCodes \cap (Weak \cup {"WEAK_NOISY"}) = {})
    /\ (disposition = "WEAK") => ("WEAK_NOISY" \notin LedgerCodes)
    /\ disposition # None

\* Evidence is counted once: the ledger, the executions, the tools they name
\* and the status agree at every durable write, also while a crash is recovered.
LedgerIsSound == LedgerMatchesExecutions /\ NoIdenticalAction /\ RunningMeansPrepared

\* An adaptive tool has earned its run: the baseline is complete and durable,
\* and the step's Skeptic and Critic left exactly this tool.
AdaptiveIsEarned == BaselineFirst /\ AdaptiveWasApproved

\* The finalize node is only entered with a reason that is durable: the run
\* never dies on "finalize route has no durable stopping reason".
FinalizeHasReason == pc = "finalize" => FinalReason /\ Missing = {}

\* A run that stopped stays stopped: its evidence, executions, budgets and
\* decisions are frozen and only lock and then reveal may change the status.
ClosedIsFinal ==
  [][CannotAdvance =>
       /\ UNCHANGED <<science, budget, agents, pendingFinal>>
       /\ \/ UNCHANGED status
          \/ status = "READY_TO_LOCK" /\ status' = "RESULT_LOCKED"
          \/ status = "RESULT_LOCKED" /\ status' = "REVEALED"]_vars

\* The decisions of step s are what they were before.
Kept(s) == /\ proposal[s] # None => proposal'[s] = proposal[s]
           /\ review[s] # None => review'[s] = review[s]
AllKept == \A s \in Steps : Kept(s)
\* An accepted decision is never asked for again nor replaced: resume does not
\* put a second Skeptic or Critic answer in place of the first.
DecisionsAreKept == [][AllKept]_vars

\* What is written stands: neither a stopped run nor an accepted decision is
\* touched again, by a resume, a deadline, or a late node.
HistoryStands == ClosedIsFinal /\ DecisionsAreKept

\* Unless the process stays down, the driver brings every run to a stop.
RunStops == <>[](pc = "down") \/ <>CannotAdvance

(* Work.  What is ahead of a run is a number that every step makes smaller *)
(* - a node's, the deadline's, a lock's, and a crash's as well, since only *)
(* so many of them are in a behaviour.  So no recovery, route or revision  *)
(* can go in circles: a run makes as many steps as it has Work at most,    *)
(* and whoever keeps the driver going brings it to its end.                *)

\* The nodes ahead of each program counter, until the status changes,
Ahead(p) ==
  CASE p = "raised" -> 0
    [] p \in {"finalize", "terminate", "ledgered", "reledgered"} -> 1
    [] p \in {"prepare_mandatory", "prepare_adaptive", "running", "rerunning"} -> 2
    [] p = "critic_route" -> 3
    [] p = "critic_saved" -> 4
    [] p = "critic" -> 5
    [] p = "skeptic_recorded" -> 6
    [] p = "skeptic_saved" -> 7
    [] p \in {"mandatory", "skeptic"} -> 8
    [] p = "fresh" -> 9
    [] p \in {"begun", "evaluate"} -> 10
    [] p \in {"route", "committed"} -> 11
    [] p = "recover" -> 12
    [] p \in {"idle", "recovered"} -> 13
    [] OTHER -> 14
\* and the changes of status ahead of each status, until a tool is prepared.
Stage(s) ==
  CASE s = "RUNNING_TOOL" -> 5
    [] s = "UPDATING_EVIDENCE" -> 4
    [] s = "READY_TO_LOCK" -> 2
    [] s = "RESULT_LOCKED" -> 1
    [] s \in {"REVEALED"} \cup Failures -> 0
    [] OTHER -> 3
BudgetLeft == (MaxSteps - step) + (MaxTools - toolCalls)
CrashesLeft == MaxCrashes - Len(crashes)
Work == Ahead(pc) + 15 * (Stage(status) + CrashesLeft + 3 * BudgetLeft)
\* Every step brings the run nearer to its end, a recovery, a revision or a
\* replanning no less than a measurement: none of them goes in circles.
EveryStepCounts == [][Work' \in Nat /\ Work' < Work]_vars

\* What is left of a run for whoever only asks what it measures: the tool in
\* hand has no result yet, and nobody sees steps, decisions and restarts.
Phase == CASE status \in Open -> "open"
           [] status = "READY_TO_LOCK" -> "ready"
           [] status = "RESULT_LOCKED" -> "locked"
           [] status = "REVEALED" -> "revealed"
           [] OTHER -> "failed"
InHand == {execs[i].tool : i \in {j \in Prepared : RecordOf(j) = {}}}
Measurements == [n \in DOMAIN ledger |-> [tool |-> ledger[n].tool, status |-> ledger[n].status,
                                          code |-> ledger[n].code]]
Vet == INSTANCE Vetting WITH phase <- Phase, running <- InHand, evidence <- Measurements,
                             verdict <- disposition
\* Interrupted, recovered and rerouted as it may be, a run vets its target as
\* one that is never interrupted would: Vetting.
VetsAsPromised == Vet!Spec

\* Some crash has fallen into the gap.
Fell(gap) == \E n \in DOMAIN crashes : crashes[n] \in gap

\* Each charged step executes one tool at most, over every crash but one
\* between a committed result and the event that ends its measurement.
OneToolPerStep ==
  ~Fell(EventGap) => \A i, j \in DOMAIN execs : execs[i].step = execs[j].step => i = j

\* The nodes never ask for a change the lifecycle table forbids, wherever they
\* are resumed but between a Skeptic decision and WAITING_FOR_CRITIC.
TransitionsLegal == ~Fell(StatusGap) => pc # "raised"

\* What the harness documents: a restart does not make a run fail.
NoIllegalTransition == pc # "raised"

\* The decision a tool runs on is in agent_decisions.jsonl by the time it runs,
DecisionsAreRecorded ==
  \A i \in DOMAIN execs : execs[i].tool \in Adaptive =>
    {<<"skeptic", execs[i].step>>, <<"critic", execs[i].step>>} \subseteq recorded

\* as long as no crash fell between a decision and its record.
RecordedUnlessCut == ~Fell(RecordGap) => DecisionsAreRecorded

\* Nodes that do not know each other fit together, over every crash that does
\* not separate two writes that belong together: finalize has its reason, a
\* step runs one tool, every change of status is legal, and a tool runs only
\* on decisions that are on record.
NodesFitTogether ==
  FinalizeHasReason /\ OneToolPerStep /\ TransitionsLegal /\ RecordedUnlessCut

\* An approved proposal whose tool already completed is not executed again.
CompletedIsNotReselected == pc = "prepare_adaptive" => Selected \notin Accepted
=============================================================================
