------------------------ MODULE InvestigationProofs ------------------------
(***************************************************************************)
(* Safety of the policy loop for every value of its constants.  The        *)
(* invariants of the runs are not inductive as they stand: StateInv adds   *)
(* what the durable state alone tells a restarted controller, PhaseInv     *)
(* what an advance in progress knows at each of its program counters.      *)
(***************************************************************************)
EXTENDS Investigation, TLAPS, SequenceTheorems, FiniteSetTheorems, WellFoundedInduction

\* A step is charged before anything is written on its behalf.
StepIsCharged ==
  /\ execs # <<>> => step \in Steps
  /\ status \notin {"INITIALIZED"} \cup Failures => step \in Steps

\* No decision for a step to come; no review without its proposal; a revised
\* request exactly in a REVISE; no decision before the baseline is complete.
DecisionsOK ==
  \A s \in Steps :
    /\ s > step => proposal[s] = None
    /\ review[s] # None =>
         /\ proposal[s] # None
         /\ (review[s].verdict = "REVISE") <=> (review[s].revised # None)
    /\ proposal[s] # None => done = Baseline

StateInv ==
  /\ TypeOK /\ StepIsCharged /\ DecisionsOK
  /\ RunningMeansPrepared /\ LedgerMatchesExecutions
  /\ BaselineFirst /\ AdaptiveWasApproved /\ NoIdenticalAction

Running == {"running", "rerunning"}
Ledgered == {"ledgered", "reledgered"}
AfterRecovery == PcValues \ (Running \cup Ledgered \cup {"idle", "recover", "down"})
Charged == {"recovered", "committed", "recommitted", "evaluate", "finalize"}
Undecided == {"begun", "fresh", "mandatory", "prepare_mandatory", "skeptic"}
Deciding == {"skeptic_saved", "skeptic_recorded", "critic", "critic_saved", "critic_route",
             "prepare_adaptive"}

PhaseInv ==
  /\ pc \notin {"idle", "down"} => ~CannotAdvance
  /\ pc \in AfterRecovery => Prepared = {}
  /\ pc \in Running => Prepared # {} /\ RecordOf(Len(execs)) = {}
  /\ pc \in Ledgered =>
       Prepared # {} /\ ledger # <<>> /\ ledger[Len(ledger)].action = Len(execs)
  /\ pc \in Charged => step \in Steps
  /\ pc \in Undecided => step \in Steps /\ ~Proposed
  /\ pc \in Deciding => Proposed
  /\ pc \in {"skeptic_saved", "skeptic_recorded", "critic"} => ~Reviewed
  /\ pc \in {"critic_saved", "critic_route", "prepare_adaptive"} => Reviewed
  /\ pc = "prepare_adaptive" => ~Vetoed /\ Selected # Stop
  /\ pc = "skeptic" => done = Baseline

IInv == StateInv /\ PhaseInv

-----------------------------------------------------------------------------
(* What the shared writes do to tool_executions.                           *)

\* The shape of tool_executions, and of the only execution that may be open.
LEMMA ExecsShape ==
  ASSUME TypeOK
  PROVE  /\ Len(execs) \in Nat /\ DOMAIN execs = 1..Len(execs)
         /\ execs \in [1..Len(execs) -> Executions]
         /\ execs = <<>> <=> Len(execs) = 0
         /\ \A i \in DOMAIN execs : execs[i] \in Executions
  BY DEF TypeOK

\* LastOf picks the one PREPARED execution, which is the last.
LEMMA LastPrepared ==
  ASSUME TypeOK, RunningMeansPrepared, Prepared # {}
  PROVE  LastOf(Prepared) = Len(execs) /\ Prepared = {Len(execs)} /\ Len(execs) \in Nat \ {0}
<1>1. Prepared = {Len(execs)} /\ Len(execs) \in DOMAIN execs
  BY DEF RunningMeansPrepared, Prepared, ActionsIn
<1>2. Len(execs) \in Nat \ {0}
  BY <1>1, ExecsShape
<1>3. \A j \in Prepared : j <= Len(execs)
  BY <1>1, <1>2
<1>4. LastOf(Prepared) = Len(execs)
  BY <1>1, <1>3, <1>2 DEF LastOf
<1> QED BY <1>1, <1>2, <1>4

\* A save that fails one execution leaves every other field of every execution alone.
LEMMA FailExecs ==
  ASSUME TypeOK, NEW a,
         execs' = [i \in DOMAIN execs |->
                     IF i = a THEN [execs[i] EXCEPT !.status = "FAILED"] ELSE execs[i]]
  PROVE  /\ execs' \in Seq(Executions) /\ Len(execs') = Len(execs)
         /\ DOMAIN execs' = DOMAIN execs
         /\ \A i \in DOMAIN execs :
              /\ execs'[i].tool = execs[i].tool /\ execs'[i].step = execs[i].step
              /\ execs'[i].status = IF i = a THEN "FAILED" ELSE execs[i].status
<1>1. execs' \in [1..Len(execs) -> Executions]
  BY ExecsShape DEF Executions
<1>2. execs' \in Seq(Executions) /\ Len(execs') = Len(execs)
  BY <1>1, ExecsShape, SeqDef
<1>3. \A i \in DOMAIN execs :
        /\ execs'[i].tool = execs[i].tool /\ execs'[i].step = execs[i].step
        /\ execs'[i].status = IF i = a THEN "FAILED" ELSE execs[i].status
  BY ExecsShape DEF Executions
<1> QED BY <1>1, <1>2, <1>3, ExecsShape

\* Terminating keeps the whole invariant wherever nothing is open, or the open
\* execution is the one that is failed.
LEMMA TerminateKeepsInv ==
  ASSUME IInv, NEW st \in Failures, NEW a, Terminate(st, a),
         Prepared = {} \/ a = Len(execs)
  PROVE  IInv'
<1> USE DEF IInv, StateInv
<1> DEFINE Same == /\ execs' \in Seq(Executions) /\ Len(execs') = Len(execs)
                   /\ DOMAIN execs' = DOMAIN execs
                   /\ \A i \in DOMAIN execs :
                        /\ execs'[i].tool = execs[i].tool /\ execs'[i].step = execs[i].step
                        /\ execs'[i].status = IF i = a THEN "FAILED" ELSE execs[i].status
<1>1. Same
  BY FailExecs DEF Terminate
<1>2. TypeOK'
  BY <1>1 DEF TypeOK, Terminate, science, agents, Closed, PcValues, AwaitPoints
<1>3. Prepared' = {} /\ ActionsIn("COMPLETED")' \subseteq ActionsIn("COMPLETED")
  BY <1>1 DEF RunningMeansPrepared, Prepared, ActionsIn
<1>4. RunningMeansPrepared'
  BY <1>3 DEF RunningMeansPrepared, Terminate, Failures
<1>5. StepIsCharged'
  BY <1>1, ExecsShape DEF StepIsCharged, Terminate, Steps, TypeOK
<1>6. DecisionsOK'
  BY DEF DecisionsOK, Terminate, agents, science
<1>7. LedgerMatchesExecutions'
  BY <1>1, <1>3 DEF LedgerMatchesExecutions, RecordOf, Terminate, science
<1>8. BaselineFirst'
  BY <1>1 DEF BaselineFirst, Terminate, science, Failures
<1>9. AdaptiveWasApproved'
  BY <1>1 DEF AdaptiveWasApproved, Terminate, agents
<1>10. NoIdenticalAction'
  BY <1>1, <1>3, ExecsShape DEF NoIdenticalAction, ActionsIn
<1>11. PhaseInv'
  BY DEF PhaseInv, Terminate, PcValues, AwaitPoints, AfterRecovery, Running, Ledgered,
         Charged, Undecided, Deciding
<1> QED BY <1>2, <1>4, <1>5, <1>6, <1>7, <1>8, <1>9, <1>10, <1>11

-----------------------------------------------------------------------------
\* A move of the program counter keeps everything said of the durable state.
LEMMA StepKeepsState ==
  ASSUME StateInv, NEW there \in PcValues, Step(there)
  PROVE  StateInv'
<1> USE DEF StateInv
<1>1. TypeOK'
  BY DEF TypeOK, Step, science, budget, agents
<1>2. StepIsCharged' /\ DecisionsOK'
  BY DEF StepIsCharged, DecisionsOK, Step, science, budget, agents
<1>3. RunningMeansPrepared' /\ NoIdenticalAction'
  BY DEF RunningMeansPrepared, NoIdenticalAction, Prepared, ActionsIn, Step, budget
<1>4. LedgerMatchesExecutions'
  BY DEF LedgerMatchesExecutions, RecordOf, ActionsIn, Step, science, budget
<1>5. BaselineFirst' /\ AdaptiveWasApproved'
  BY DEF BaselineFirst, AdaptiveWasApproved, Step, science, budget, agents
<1> QED BY <1>1, <1>2, <1>3, <1>4, <1>5

\* A status save keeps it too, when nothing is open, the step is charged and
\* the new status neither opens an execution nor publishes a result.
LEMMA SaveKeepsState ==
  ASSUME StateInv, Prepared = {}, step \in Steps,
         NEW st \in {"VETTING_MANDATORY", "SELECTING_ADAPTIVE_EXPERIMENT", "WAITING_FOR_CRITIC"},
         NEW there \in PcValues, SaveStatus(st, there)
  PROVE  StateInv'
<1> USE DEF StateInv
<1>1. TypeOK'
  BY DEF TypeOK, SaveStatus, science, budget, agents, PcValues, Open
<1>2. StepIsCharged' /\ DecisionsOK'
  BY DEF StepIsCharged, DecisionsOK, SaveStatus, science, budget, agents
<1>3. RunningMeansPrepared' /\ NoIdenticalAction'
  BY DEF RunningMeansPrepared, NoIdenticalAction, Prepared, ActionsIn, SaveStatus, budget
<1>4. LedgerMatchesExecutions'
  BY DEF LedgerMatchesExecutions, RecordOf, ActionsIn, SaveStatus, science, budget
<1>5. BaselineFirst' /\ AdaptiveWasApproved'
  BY DEF BaselineFirst, AdaptiveWasApproved, SaveStatus, science, budget, agents
<1> QED BY <1>1, <1>2, <1>3, <1>4, <1>5

\* An event of a charged step only grows the trace.
LEMMA EmitKeepsState ==
  ASSUME StateInv, step \in Steps, NEW type, Emit(type), pc' \in PcValues,
         type \in {"budget.updated", "evidence.appended", "recovery.completed"},
         UNCHANGED <<status, science, budget, agents, pendingFinal, crashes>>
  PROVE  StateInv'
<1> USE DEF StateInv
<1>1. trace' \in Seq(Events)
  BY DEF TypeOK, Emit, Events
<1>2. TypeOK'
  BY <1>1 DEF TypeOK, science, budget, agents
<1>3. StepIsCharged' /\ DecisionsOK'
  BY DEF StepIsCharged, DecisionsOK, science, budget, agents
<1>4. RunningMeansPrepared' /\ NoIdenticalAction'
  BY DEF RunningMeansPrepared, NoIdenticalAction, Prepared, ActionsIn, budget
<1>5. LedgerMatchesExecutions'
  BY DEF LedgerMatchesExecutions, RecordOf, ActionsIn, science, budget
<1>6. BaselineFirst' /\ AdaptiveWasApproved'
  BY DEF BaselineFirst, AdaptiveWasApproved, science, budget, agents
<1> QED BY <1>2, <1>3, <1>4, <1>5, <1>6

\* Committing a durable record closes the open execution and nothing else.
LEMMA CommitKeepsInv ==
  ASSUME IInv, NEW i \in Prepared, RecordOf(i) # {}, NEW r \in EvidenceRecords, Commit(i, r),
         pc' \in {"recovered", "committed", "recommitted"}
  PROVE  IInv'
<1> USE DEF IInv, StateInv
<1> DEFINE closed == IF r.status = "FAILED" THEN "FAILED" ELSE "COMPLETED"
<1>1. i = Len(execs) /\ i \in 1..Len(execs) /\ Len(execs) \in Nat \ {0}
  BY LastPrepared, ExecsShape
<1>2. /\ execs' \in Seq(Executions) /\ Len(execs') = Len(execs)
      /\ DOMAIN execs' = DOMAIN execs
      /\ \A j \in DOMAIN execs :
           /\ execs'[j].tool = execs[j].tool /\ execs'[j].step = execs[j].step
           /\ execs'[j].status = IF j = i THEN closed ELSE execs[j].status
  <2>1. execs' = [execs EXCEPT ![i].status = closed]
    BY DEF Commit
  <2>2. execs' \in [1..Len(execs) -> Executions]
    BY <2>1, <1>1, ExecsShape DEF Executions
  <2>3. execs' \in Seq(Executions) /\ Len(execs') = Len(execs)
    BY <2>2, ExecsShape, SeqDef
  <2>4. \A j \in DOMAIN execs :
           /\ execs'[j].tool = execs[j].tool /\ execs'[j].step = execs[j].step
           /\ execs'[j].status = IF j = i THEN closed ELSE execs[j].status
    BY <2>1, <1>1, ExecsShape DEF Executions
  <2> QED BY <2>2, <2>3, <2>4, ExecsShape
<1>3. done' \subseteq Baseline /\ done \subseteq done'
  BY DEF TypeOK, Commit
<1>4. TypeOK'
  BY <1>2, <1>3 DEF TypeOK, Commit, agents, Open, PcValues
<1>5. Prepared' = {} /\ ActionsIn("COMPLETED")' \subseteq ActionsIn("COMPLETED") \cup {i}
  BY <1>1, <1>2, LastPrepared DEF Prepared, ActionsIn
<1>6. RunningMeansPrepared'
  BY <1>5 DEF RunningMeansPrepared, Commit
<1>7. StepIsCharged'
  BY <1>1, ExecsShape DEF StepIsCharged, Commit, Steps, TypeOK
<1>8. DecisionsOK'
  BY <1>3 DEF DecisionsOK, Commit, agents
<1>9. LedgerMatchesExecutions'
  BY <1>2, <1>5 DEF LedgerMatchesExecutions, RecordOf, Commit
<1>10. BaselineFirst'
  BY <1>2, <1>3 DEF BaselineFirst, Commit
<1>11. AdaptiveWasApproved'
  BY <1>2 DEF AdaptiveWasApproved, Commit, agents
<1>12. NoIdenticalAction'
  BY <1>2, <1>5, ExecsShape DEF NoIdenticalAction, ActionsIn, Prepared
<1>13. PhaseInv'
  BY <1>1, <1>2, <1>5, <1>7 DEF StepIsCharged, PhaseInv, Commit, CannotAdvance, Closed, Failures, Running, Ledgered,
              Charged, Undecided, Deciding
<1> QED BY <1>4, <1>6, <1>7, <1>8, <1>9, <1>10, <1>11, <1>12, <1>13

\* The PREPARED save, and every way it is refused: what it relies on is that
\* nothing is open and that an adaptive tool is the one the review selected.
LEMMA PrepareKeepsInv ==
  ASSUME IInv, NEW tool \in Tools, NEW adaptive \in BOOLEAN, Prepare(tool, adaptive),
         Prepared = {}, step \in Steps, ~CannotAdvance,
         tool \in Adaptive <=> adaptive,
         adaptive => /\ Reviewed /\ ~Vetoed /\ tool = Selected /\ done = Baseline
  PROVE  IInv'
<1> USE DEF IInv, StateInv
<1>1. ASSUME NEW st \in Refusal(tool, adaptive), Terminate(st, 0) PROVE IInv'
  <2>1. st \in Failures
    BY <1>1 DEF Refusal, Failures
  <2> QED BY <1>1, <2>1, TerminateKeepsInv
<1>2. ASSUME Terminate("INSUFFICIENT_EVIDENCE", 0) PROVE IInv'
  BY <1>2, TerminateKeepsInv DEF Failures
<1>3. ASSUME Step("raised") PROVE IInv'
  <2>1. StateInv'
    BY <1>3, StepKeepsState DEF PcValues
  <2>2. PhaseInv'
    BY <1>3 DEF PhaseInv, Step, CannotAdvance, Prepared, ActionsIn, budget, Running,
                Ledgered, Charged, Undecided, Deciding
  <2> QED BY <2>1, <2>2
<1>4. ASSUME Refusal(tool, adaptive) = {}, status' = "RUNNING_TOOL", pc' = "running",
             toolCalls' = toolCalls + 1,
             adaptiveUsed' = (IF adaptive THEN adaptiveUsed + 1 ELSE adaptiveUsed),
             costLeft' = (IF adaptive THEN costLeft - Cost[tool] ELSE costLeft),
             execs' = Append(execs, [tool |-> tool, step |-> step, status |-> "PREPARED"]),
             UNCHANGED <<science, step, agents, pendingFinal, trace, crashes>>
      PROVE  IInv'
  <2> DEFINE new == [tool |-> tool, step |-> step, status |-> "PREPARED"]
             last == Len(execs) + 1
  <2>1. new \in Executions
    BY DEF Executions
  <2>2. /\ execs' \in Seq(Executions) /\ Len(execs') = last /\ last \in Nat \ {0}
        /\ DOMAIN execs' = DOMAIN execs \cup {last} /\ last \notin DOMAIN execs
        /\ execs'[last] = new /\ \A i \in DOMAIN execs : execs'[i] = execs[i]
    BY <1>4, <2>1, ExecsShape
  <2>3. costLeft' \in Nat
    <3>1. adaptive => ~(Cost[tool] > costLeft)
      BY <1>4 DEF Refusal
    <3>2. adaptive => Cost[tool] \in Nat
      BY ToolsAssumption
    <3> QED BY <1>4, <3>1, <3>2 DEF TypeOK
  <2>4. TypeOK'
    BY <1>4, <2>2, <2>3 DEF TypeOK, science, agents, Open, PcValues, AwaitPoints
  <2>5. Prepared' = {last} /\ ActionsIn("COMPLETED")' = ActionsIn("COMPLETED")
    BY <2>2 DEF Prepared, ActionsIn
  <2>6. RunningMeansPrepared'
    BY <1>4, <2>2, <2>5 DEF RunningMeansPrepared
  <2>7. StepIsCharged' /\ DecisionsOK'
    BY <1>4 DEF StepIsCharged, DecisionsOK, science, agents, Steps
  <2>8. LedgerMatchesExecutions'
    BY <1>4, <2>2, <2>5 DEF LedgerMatchesExecutions, RecordOf, science
  <2>9. BaselineFirst'
    BY <1>4, <2>2 DEF BaselineFirst, science
  <2>10. AdaptiveWasApproved'
    BY <1>4, <2>2 DEF AdaptiveWasApproved, agents, Reviewed, Vetoed, Proposed, Selected
  <2>11. NoIdenticalAction'
    <3>1. tool \notin Accepted
      BY <1>4 DEF Refusal
    <3> QED BY <2>2, <2>5, <3>1 DEF NoIdenticalAction, Accepted, Prepared, ActionsIn
  <2>12. RecordOf(Len(execs))' = {}
    BY <1>4, <2>2 DEF RecordOf, LedgerMatchesExecutions, science
  <2>13. PhaseInv'
    BY <1>4, <2>2, <2>5, <2>12
       DEF PhaseInv, CannotAdvance, Closed, Failures, AfterRecovery, Running, Ledgered,
           Charged, Undecided, Deciding
  <2> QED BY <2>4, <2>6, <2>7, <2>8, <2>9, <2>10, <2>11, <2>13
<1> QED BY <1>1, <1>2, <1>3, <1>4 DEF Prepare

-----------------------------------------------------------------------------
(* One step per action, in the groups of Next.                             *)

\* A step that RequiresBegin would not open has been charged already.
LEMMA BegunIsCharged ==
  ASSUME TypeOK, StepIsCharged, ~RequiresBegin
  PROVE  step \in Steps
<1>1. CASE status \in {"WAITING_FOR_CRITIC", "RUNNING_TOOL", "FINALIZING"} \/ PendingEvaluation
  BY <1>1 DEF StepIsCharged, PendingEvaluation, Failures
<1>2. CASE TraceOf({"budget.updated"}) # {}
  <2>1. PICK n \in DOMAIN trace : trace[n].step = step
    BY <1>2 DEF TraceOf
  <2>2. trace[n] \in Events
    BY <2>1 DEF TypeOK
  <2> QED BY <2>1, <2>2 DEF Events
<1>3. CASE TraceOf({"budget.updated"}) = {}
  BY <1>1, <1>3 DEF RequiresBegin, LastOf
<1> QED BY <1>2, <1>3

\* Advancing, recovery and routing.
LEMMA CycleKeepsInv ==
  ASSUME IInv, Cycle
  PROVE  IInv'
<1> USE DEF IInv, StateInv, PhaseInv, AfterRecovery, Running, Ledgered, Charged, Undecided, Deciding,
            PcValues, AwaitPoints
<1>1. CASE StartAdvance
  <2>1. StateInv'
    BY <1>1, StepKeepsState DEF StartAdvance
  <2>2. PhaseInv'
    BY <1>1 DEF StartAdvance, Step, CannotAdvance
  <2> QED BY <2>1, <2>2
<1>2. CASE NothingToRecover
  <2>1. StateInv'
    BY <1>2, StepKeepsState DEF NothingToRecover
  <2>2. PhaseInv'
    BY <1>2 DEF NothingToRecover, Step, CannotAdvance, Prepared, ActionsIn, budget
  <2> QED BY <2>1, <2>2
<1>3. CASE RecoverFromLedger
  <2>1. PICK i \in Prepared : \E n \in RecordOf(i) : Commit(i, ledger[n])
    BY <1>3 DEF RecoverFromLedger
  <2>2. PICK n \in RecordOf(i) : Commit(i, ledger[n])
    BY <2>1
  <2>3. ledger[n] \in EvidenceRecords
    BY <2>2 DEF RecordOf, TypeOK
  <2> QED BY <1>3, <2>2, <2>3, CommitKeepsInv DEF RecoverFromLedger
<1>4. CASE Reexecute
  <2>1. StateInv'
    BY <1>4, StepKeepsState DEF Reexecute
  <2>2. Prepared # {} /\ RecordOf(Len(execs)) = {}
    BY <1>4, LastPrepared DEF Reexecute
  <2>3. PhaseInv'
    BY <1>4, <2>2 DEF Reexecute, Step, CannotAdvance, Prepared, ActionsIn, RecordOf, budget,
                      science
  <2> QED BY <2>1, <2>3
<1>5. CASE EmitRecovery
  <2>1. StateInv'
    BY <1>5, EmitKeepsState DEF EmitRecovery, Goto
  <2>2. PhaseInv'
    BY <1>5 DEF EmitRecovery, Goto, CannotAdvance
  <2> QED BY <2>1, <2>2
<1>6. CASE RouteDurable
  <2>1. step \in Steps
    BY <1>6 DEF RouteDurable, PendingEvaluation, StepIsCharged, Failures
  <2>2. PICK there \in {"finalize", "evaluate"} : Step(there)
    BY <1>6 DEF RouteDurable
  <2>3. StateInv'
    BY <2>2, StepKeepsState
  <2>4. PhaseInv'
    BY <1>6, <2>1, <2>2 DEF RouteDurable, Step, CannotAdvance, Prepared, ActionsIn, budget
  <2> QED BY <2>3, <2>4
<1>7. CASE RouteProposal
  <2>1. PICK there \in {"critic", "critic_route", "finalize", "prepare_adaptive"} :
          /\ Step(there) /\ Proposed
          /\ there = "critic" => ~Reviewed
          /\ there \in {"critic_route", "prepare_adaptive"} => Reviewed
          /\ there = "prepare_adaptive" => ~Vetoed /\ Selected # Stop
    BY <1>7 DEF RouteProposal
  <2>2. StateInv'
    BY <2>1, StepKeepsState
  <2>3. PhaseInv'
    BY <1>7, <2>1 DEF RouteProposal, Step, CannotAdvance, Prepared, ActionsIn, budget, agents,
                      Proposed, Reviewed, Vetoed, Selected
  <2> QED BY <2>2, <2>3
<1>8. CASE BeginCycle
  <2>1. CASE Terminate("BUDGET_EXHAUSTED", 0)
    BY <1>8, <2>1, TerminateKeepsInv DEF BeginCycle, Failures
  <2>2. CASE /\ step < MaxSteps /\ step' = step + 1 /\ pc' = "begun"
             /\ UNCHANGED <<status, science, execs, toolCalls, adaptiveUsed, costLeft, agents,
                            pendingFinal, trace, crashes>>
    <3>1. step' \in Steps /\ step \in 0..MaxSteps
      BY <2>2, BudgetsAssumption DEF TypeOK, Steps
    <3>2. TypeOK'
      BY <2>2, <3>1 DEF TypeOK, Steps, science, agents
    <3>3. StepIsCharged' /\ DecisionsOK'
      BY <2>2, <3>1 DEF StepIsCharged, DecisionsOK, Steps, science, agents
    <3>4. RunningMeansPrepared' /\ NoIdenticalAction'
      BY <2>2 DEF RunningMeansPrepared, NoIdenticalAction, Prepared, ActionsIn
    <3>5. LedgerMatchesExecutions'
      BY <2>2 DEF LedgerMatchesExecutions, RecordOf, ActionsIn, science
    <3>6. BaselineFirst' /\ AdaptiveWasApproved'
      BY <2>2 DEF BaselineFirst, AdaptiveWasApproved, science, agents
    <3>7. PhaseInv'
      BY <1>8, <2>2, <3>1 DEF BeginCycle, CannotAdvance, Prepared, ActionsIn, DecisionsOK,
                              Proposed, agents, Steps
    <3> QED BY <3>2, <3>3, <3>4, <3>5, <3>6, <3>7
  <2>3. ~(step >= MaxSteps) => step < MaxSteps
    BY BudgetsAssumption DEF TypeOK
  <2> HIDE DEF IInv
  <2> QED BY <1>8, <2>1, <2>2, <2>3 DEF BeginCycle
<1>9. CASE EmitBudget
  <2>1. StateInv'
    BY <1>9, EmitKeepsState DEF EmitBudget, Goto
  <2>2. PhaseInv'
    BY <1>9 DEF EmitBudget, Goto, CannotAdvance, Prepared, ActionsIn, budget, agents, Proposed
  <2> QED BY <2>1, <2>2
<1>10. CASE FreshRoute
  <2>1. step \in Steps /\ ~Proposed /\ Prepared = {} /\ ~CannotAdvance
    BY <1>10, BegunIsCharged DEF FreshRoute
  <2>2. ASSUME NEW there \in {"mandatory", "terminate", "finalize"}, Step(there) PROVE IInv'
    <3>1. StateInv'
      BY <2>2, StepKeepsState
    <3>2. PhaseInv'
      BY <2>1, <2>2 DEF Step, CannotAdvance, Prepared, ActionsIn, budget, agents, Proposed
    <3> QED BY <3>1, <3>2
  <2>3. ASSUME Missing = {}, SaveStatus("SELECTING_ADAPTIVE_EXPERIMENT", "skeptic") PROVE IInv'
    <3>1. StateInv'
      BY <2>1, <2>3, SaveKeepsState
    <3>2. done = Baseline
      BY <2>3 DEF Missing, TypeOK
    <3>3. PhaseInv'
      BY <2>1, <2>3, <3>2 DEF SaveStatus, CannotAdvance, Closed, Failures, Prepared, ActionsIn,
                              science, budget, agents, Proposed
    <3> QED BY <3>1, <3>3
  <2>4. \/ \E there \in {"mandatory", "terminate", "finalize"} : Step(there)
        \/ Missing = {} /\ SaveStatus("SELECTING_ADAPTIVE_EXPERIMENT", "skeptic")
    BY <1>10 DEF FreshRoute
  <2> HIDE DEF IInv
  <2> QED BY <2>2, <2>3, <2>4
<1>11. CASE RunMandatory
  <2>1. StateInv'
    BY <1>11, SaveKeepsState DEF RunMandatory
  <2>2. PhaseInv'
    BY <1>11 DEF RunMandatory, SaveStatus, CannotAdvance, Closed, Failures, Prepared, ActionsIn,
                 budget, agents, Proposed
  <2> QED BY <2>1, <2>2
<1>12. CASE EvaluateResult
  <2>1. step \in Steps /\ Prepared = {} /\ ~CannotAdvance
    <3>1. pc = "evaluate"
      BY <1>12 DEF EvaluateResult
    <3> QED BY <3>1
  <2>2. ASSUME NEW st \in Failures, NEW a, Terminate(st, a) PROVE IInv'
    BY <2>1, <2>2, TerminateKeepsInv
  <2>3. ASSUME NEW st \in {"VETTING_MANDATORY", "SELECTING_ADAPTIVE_EXPERIMENT"},
               SaveStatus(st, "idle")
        PROVE  IInv'
    <3>1. StateInv'
      BY <2>1, <2>3, SaveKeepsState
    <3>2. PhaseInv'
      BY <2>1, <2>3 DEF SaveStatus, CannotAdvance, Prepared, ActionsIn, budget
    <3> QED BY <3>1, <3>2
  <2>4. ASSUME Finalizing PROVE IInv'
    <3>1. TypeOK'
      BY <2>4 DEF TypeOK, Finalizing, Open, science, budget, agents
    <3>2. StepIsCharged' /\ DecisionsOK'
      BY <2>1, <2>4 DEF StepIsCharged, DecisionsOK, Finalizing, science, budget, agents
    <3>3. RunningMeansPrepared' /\ NoIdenticalAction'
      BY <2>1, <2>4 DEF RunningMeansPrepared, NoIdenticalAction, Prepared, ActionsIn, Finalizing,
                        budget
    <3>4. LedgerMatchesExecutions'
      BY <2>4 DEF LedgerMatchesExecutions, RecordOf, ActionsIn, Finalizing, science, budget
    <3>5. BaselineFirst' /\ AdaptiveWasApproved'
      BY <2>4 DEF BaselineFirst, AdaptiveWasApproved, Finalizing, science, budget, agents
    <3>6. PhaseInv'
      BY <2>1, <2>4 DEF Finalizing, CannotAdvance, Closed, Failures, Prepared, ActionsIn, budget
    <3> QED BY <3>1, <3>2, <3>3, <3>4, <3>5, <3>6
  <2> QED BY <1>12, <2>2, <2>3, <2>4 DEF EvaluateResult, Failures
<1>13. CASE Finalize
  <2>1. step \in Steps /\ Prepared = {} /\ ~CannotAdvance
    <3>1. pc = "finalize"
      BY <1>13 DEF Finalize
    <3> QED BY <3>1
  <2>2. ASSUME NEW st \in Failures, Terminate(st, 0) PROVE IInv'
    BY <2>1, <2>2, TerminateKeepsInv
  <2>3. ASSUME Step("raised") PROVE IInv'
    <3>1. StateInv'
      BY <2>3, StepKeepsState
    <3>2. PhaseInv'
      BY <2>1, <2>3 DEF Step, CannotAdvance, Prepared, ActionsIn, budget
    <3> QED BY <3>1, <3>2
  <2>4. ASSUME Missing = {}, status' = "READY_TO_LOCK", pc' = "idle", pendingFinal' = FALSE,
               disposition' = DispositionOf(LedgerCodes, candidate),
               UNCHANGED <<done, candidate, ledger, budget, agents, trace, crashes>>
        PROVE  IInv'
    <3>1. disposition' \in {"REJECTED", "WEAK", "SURVIVES", None}
      BY <2>4 DEF DispositionOf
    <3>2. TypeOK'
      BY <2>4, <3>1 DEF TypeOK, Closed, budget, agents
    <3>3. StepIsCharged' /\ DecisionsOK'
      BY <2>1, <2>4 DEF StepIsCharged, DecisionsOK, budget, agents
    <3>4. RunningMeansPrepared' /\ NoIdenticalAction'
      BY <2>1, <2>4 DEF RunningMeansPrepared, NoIdenticalAction, Prepared, ActionsIn, budget
    <3>5. LedgerMatchesExecutions'
      BY <2>4 DEF LedgerMatchesExecutions, RecordOf, ActionsIn, budget
    <3>6. BaselineFirst' /\ AdaptiveWasApproved'
      BY <2>4 DEF BaselineFirst, AdaptiveWasApproved, Missing, TypeOK, budget, agents
    <3>7. PhaseInv'
      BY <2>4
    <3> QED BY <3>2, <3>3, <3>4, <3>5, <3>6, <3>7
  <2> QED BY <1>13, <2>2, <2>3, <2>4 DEF Finalize, Failures
<1>14. CASE TerminateCycle
  BY <1>14, TerminateKeepsInv DEF TerminateCycle, Failures
<1>15. CASE ExceptionFails
  BY <1>15, TerminateKeepsInv DEF ExceptionFails, FailRun, Failures
<1> QED BY <1>1, <1>2, <1>3, <1>4, <1>5, <1>6, <1>7, <1>8, <1>9, <1>10, <1>11, <1>12, <1>13,
           <1>14, <1>15 DEF Cycle

\* The Skeptic, the Critic and the resolution of their decisions.
LEMMA AgentKeepsInv ==
  ASSUME IInv, Agent
  PROVE  IInv'
<1> USE DEF IInv, StateInv, PhaseInv, AfterRecovery, Running, Ledgered, Charged, Undecided,
            Deciding, PcValues, AwaitPoints
<1>1. ASSUME NEW r \in Requests, SkepticDecides(r) PROVE IInv'
  <2>1. /\ pc = "skeptic" /\ step \in Steps /\ proposal[step] = None /\ review[step] = None
        /\ done = Baseline /\ Prepared = {} /\ ~CannotAdvance
    BY <1>1 DEF SkepticDecides, Goto, Proposed, DecisionsOK
  <2>2. /\ proposal' = [proposal EXCEPT ![step] = r] /\ pc' = "skeptic_saved" /\ r # None
        /\ UNCHANGED <<status, science, budget, review, revisions, recorded, pendingFinal,
                       trace, crashes>>
    BY <1>1, ValuesAssumption DEF SkepticDecides, Goto
  <2>3. /\ proposal' \in [Steps -> Requests \cup {None}] /\ proposal'[step] = r
        /\ \A s \in Steps : s # step => proposal'[s] = proposal[s]
    BY <2>1, <2>2 DEF TypeOK
  <2>4. TypeOK'
    BY <2>2, <2>3 DEF TypeOK, science, budget
  <2>5. StepIsCharged' /\ DecisionsOK'
    BY <2>1, <2>2, <2>3 DEF StepIsCharged, DecisionsOK, Steps, TypeOK, science, budget
  <2>6. RunningMeansPrepared' /\ NoIdenticalAction'
    BY <2>2 DEF RunningMeansPrepared, NoIdenticalAction, Prepared, ActionsIn, budget
  <2>7. LedgerMatchesExecutions' /\ BaselineFirst'
    BY <2>2 DEF LedgerMatchesExecutions, BaselineFirst, RecordOf, ActionsIn, science, budget
  <2>8. AdaptiveWasApproved'
    BY <2>1, <2>2, <2>3, ExecsShape DEF AdaptiveWasApproved, Executions, budget
  <2>9. PhaseInv'
    BY <2>1, <2>2, <2>3 DEF CannotAdvance, Prepared, ActionsIn, Proposed, Reviewed, budget
  <2> QED BY <2>4, <2>5, <2>6, <2>7, <2>8, <2>9
<1>2. ASSUME NEW role, role \in {"skeptic", "critic"}, NEW here, NEW there,
             <<here, there>> \in {<<"skeptic_saved", "skeptic_recorded">>,
                                  <<"critic_saved", "critic_route">>},
             RecordDecision(role, here, there)
      PROVE  IInv'
  <2>1. step \in Steps /\ Prepared = {} /\ ~CannotAdvance /\ pc = here /\ pc' = there
    BY <1>2 DEF RecordDecision, Goto, Proposed
  <2>2. TypeOK'
    BY <1>2, <2>1 DEF TypeOK, RecordDecision, science, budget
  <2>3. StepIsCharged' /\ DecisionsOK'
    BY <1>2 DEF StepIsCharged, DecisionsOK, RecordDecision, science, budget
  <2>4. RunningMeansPrepared' /\ NoIdenticalAction'
    BY <1>2 DEF RunningMeansPrepared, NoIdenticalAction, Prepared, ActionsIn, RecordDecision,
                budget
  <2>5. LedgerMatchesExecutions' /\ BaselineFirst' /\ AdaptiveWasApproved'
    BY <1>2 DEF LedgerMatchesExecutions, BaselineFirst, AdaptiveWasApproved, RecordOf,
                ActionsIn, RecordDecision, science, budget
  <2>6. PhaseInv'
    BY <1>2, <2>1 DEF RecordDecision, CannotAdvance, Prepared, ActionsIn, Proposed, Reviewed,
                      budget
  <2> QED BY <2>2, <2>3, <2>4, <2>5, <2>6
<1>3. CASE SkepticWaits
  <2>1. step \in Steps /\ Prepared = {} /\ ~CannotAdvance /\ Proposed /\ ~Reviewed
    BY <1>3 DEF SkepticWaits, Proposed
  <2>2. StateInv'
    BY <1>3, <2>1, SaveKeepsState DEF SkepticWaits
  <2>3. PhaseInv'
    BY <1>3, <2>1 DEF SkepticWaits, SaveStatus, CannotAdvance, Closed, Failures, Prepared,
                      ActionsIn, Proposed, Reviewed, budget, agents
  <2> QED BY <2>2, <2>3
<1>4. ASSUME NEW v \in Verdicts, NEW r \in Requests \cup {None}, CriticDecides(v, r) PROVE IInv'
  <2> DEFINE new == [verdict |-> v, revised |-> r]
  <2>1. /\ pc = "critic" /\ step \in Steps /\ proposal[step] # None /\ review[step] = None
        /\ Prepared = {} /\ ~CannotAdvance
    BY <1>4 DEF CriticDecides, Goto, Proposed, Reviewed
  <2>2. /\ review' = [review EXCEPT ![step] = new] /\ pc' = "critic_saved"
        /\ UNCHANGED <<status, science, budget, proposal, revisions, recorded, pendingFinal,
                       trace, crashes>>
    BY <1>4 DEF CriticDecides, Goto
  <2>3. new \in Reviews /\ new # None
    BY ValuesAssumption DEF Reviews
  <2>4. (v = "REVISE") <=> (r # None)
    <3>1. CASE v = "REVISE"
      <4>1. r \in Available
        BY <1>4, <3>1 DEF CriticDecides
      <4>2. Available \subseteq Requests
        BY DEF Available, Requests
      <4> QED BY <3>1, <4>1, <4>2, ValuesAssumption
    <3>2. CASE v # "REVISE"
      BY <1>4, <3>2 DEF CriticDecides
    <3> QED BY <3>1, <3>2
  <2>5. /\ review' \in [Steps -> Reviews \cup {None}] /\ review'[step] = new
        /\ \A s \in Steps : s # step => review'[s] = review[s]
    BY <2>1, <2>2, <2>3 DEF TypeOK
  <2>6. TypeOK'
    BY <2>2, <2>5 DEF TypeOK, science, budget
  <2>7. StepIsCharged'
    BY <2>2 DEF StepIsCharged, science, budget
  <2>8. DecisionsOK'
    BY <2>1, <2>2, <2>4, <2>5 DEF DecisionsOK, science, budget
  <2>9. RunningMeansPrepared' /\ NoIdenticalAction'
    BY <2>2 DEF RunningMeansPrepared, NoIdenticalAction, Prepared, ActionsIn, budget
  <2>10. LedgerMatchesExecutions' /\ BaselineFirst'
    BY <2>2 DEF LedgerMatchesExecutions, BaselineFirst, RecordOf, ActionsIn, science, budget
  <2>11. AdaptiveWasApproved'
    BY <2>1, <2>2, <2>5, ExecsShape DEF AdaptiveWasApproved, Executions, budget
  <2>12. PhaseInv'
    BY <2>1, <2>2, <2>3, <2>5 DEF CannotAdvance, Prepared, ActionsIn, Proposed, Reviewed, budget
  <2> QED BY <2>6, <2>7, <2>8, <2>9, <2>10, <2>11, <2>12
<1>5. ASSUME NEW st \in Failures, InferenceAborts(st) PROVE IInv'
  BY <1>5, TerminateKeepsInv DEF InferenceAborts
<1>6. CASE ResolveCritic
  <2>1. pc = "critic_route" /\ Proposed /\ Reviewed /\ Prepared = {} /\ ~CannotAdvance
    BY <1>6 DEF ResolveCritic
  <2>2. CASE Terminate("BUDGET_EXHAUSTED", 0)
    BY <2>1, <2>2, TerminateKeepsInv DEF Failures
  <2>3. CASE /\ revisions' \in Nat
             /\ pc' = IF Vetoed \/ Selected = Stop THEN "finalize" ELSE "prepare_adaptive"
             /\ UNCHANGED <<status, science, budget, proposal, review, recorded, pendingFinal,
                            trace, crashes>>
    <3>1. TypeOK'
      BY <2>3 DEF TypeOK, science, budget
    <3>2. StepIsCharged' /\ DecisionsOK'
      BY <2>3 DEF StepIsCharged, DecisionsOK, science, budget
    <3>3. RunningMeansPrepared' /\ NoIdenticalAction'
      BY <2>3 DEF RunningMeansPrepared, NoIdenticalAction, Prepared, ActionsIn, budget
    <3>4. LedgerMatchesExecutions' /\ BaselineFirst' /\ AdaptiveWasApproved'
      BY <2>3 DEF LedgerMatchesExecutions, BaselineFirst, AdaptiveWasApproved, RecordOf,
                  ActionsIn, science, budget
    <3>5. PhaseInv'
      BY <2>1, <2>3 DEF CannotAdvance, Prepared, ActionsIn, Proposed, Reviewed, Vetoed, Selected,
                        budget
    <3> QED BY <3>1, <3>2, <3>3, <3>4, <3>5
  <2>4. Revisions \in Nat
    <3>1. {s \in Steps : review[s] # None /\ review[s].verdict = "REVISE"} \in SUBSET Steps
      OBVIOUS
    <3>2. IsFiniteSet(Steps)
      BY BudgetsAssumption, FS_Interval DEF Steps
    <3> QED BY <3>1, <3>2, FS_Subset, FS_CardinalityType DEF Revisions
  <2> HIDE DEF IInv
  <2> QED BY <1>6, <2>2, <2>3, <2>4 DEF ResolveCritic, TypeOK, IInv, StateInv
<1> HIDE DEF IInv
<1> QED BY <1>1, <1>2, <1>3, <1>4, <1>5, <1>6 DEF Agent, SkepticRecorded, CriticRecorded

\* Preparing, running and committing a tool.
LEMMA ToolKeepsInv ==
  ASSUME IInv, Tool
  PROVE  IInv'
<1> USE DEF IInv, StateInv, PhaseInv, AfterRecovery, Running, Ledgered, Charged, Undecided,
            Deciding, PcValues, AwaitPoints
<1>1. CASE PrepareMandatory
  <2>1. PICK t \in Baseline : Prepare(t, FALSE)
    BY <1>1 DEF PrepareMandatory
  <2>2. Prepared = {} /\ step \in Steps /\ ~CannotAdvance
    BY <1>1 DEF PrepareMandatory
  <2>3. t \in Tools /\ t \notin Adaptive
    BY <2>1, ToolsAssumption DEF Tools
  <2> HIDE DEF IInv
  <2> QED BY <2>1, <2>2, <2>3, PrepareKeepsInv
<1>2. CASE PrepareAdaptive
  <2>1. Prepare(Selected, TRUE)
    BY <1>2 DEF PrepareAdaptive
  <2>2. /\ Prepared = {} /\ step \in Steps /\ ~CannotAdvance
        /\ Proposed /\ Reviewed /\ ~Vetoed /\ Selected # Stop
    BY <1>2 DEF PrepareAdaptive, Proposed
  <2>3. Selected \in Requests
    <3>1. proposal[step] \in Requests /\ review[step] \in Reviews
      BY <2>2 DEF TypeOK, Proposed, Reviewed
    <3>2. review[step].verdict = "REVISE" => review[step].revised \in Requests
      BY <2>2, <3>1 DEF DecisionsOK, Reviewed, Reviews
    <3> QED BY <3>1, <3>2 DEF Selected
  <2>4. Selected \in Adaptive /\ Selected \in Tools /\ done = Baseline
    BY <2>2, <2>3 DEF Requests, Tools, DecisionsOK, Proposed
  <2> HIDE DEF IInv
  <2> QED BY <2>1, <2>2, <2>4, PrepareKeepsInv
<1>3. ASSUME NEW o \in Outcomes, HandlerReturns(o) PROVE IInv'
  <2> DEFINE new == [action |-> Len(execs), tool |-> execs[Len(execs)].tool,
                     status |-> o.status, code |-> o.code]
             last == Len(ledger) + 1
  <2>1. pc \in Running /\ pc' \in Ledgered /\ Prepared # {} /\ RecordOf(Len(execs)) = {}
    BY <1>3 DEF HandlerReturns, Goto
  <2>2. /\ LastOf(Prepared) = Len(execs) /\ Prepared = {Len(execs)}
        /\ Len(execs) \in Nat \ {0} /\ Len(execs) \in DOMAIN execs
    BY <2>1, LastPrepared, ExecsShape
  <2>3. /\ ledger' = Append(ledger, new)
        /\ UNCHANGED <<status, done, candidate, disposition, budget, agents, pendingFinal,
                       trace, crashes>>
    BY <1>3, <2>2 DEF HandlerReturns
  <2>4. new \in EvidenceRecords
    BY <2>2, ExecsShape, OutcomesAssumption DEF EvidenceRecords, Executions
  <2>5. /\ ledger' \in Seq(EvidenceRecords) /\ Len(ledger') = last /\ last \in Nat \ {0}
        /\ DOMAIN ledger' = DOMAIN ledger \cup {last} /\ last \notin DOMAIN ledger
        /\ ledger'[last] = new /\ \A n \in DOMAIN ledger : ledger'[n] = ledger[n]
    BY <2>3, <2>4 DEF TypeOK
  <2>6. TypeOK'
    BY <2>1, <2>3, <2>5 DEF TypeOK, budget, agents
  <2>7. StepIsCharged' /\ DecisionsOK'
    BY <2>3 DEF StepIsCharged, DecisionsOK, budget, agents
  <2>8. RunningMeansPrepared' /\ NoIdenticalAction'
    BY <2>3 DEF RunningMeansPrepared, NoIdenticalAction, Prepared, ActionsIn, budget
  <2>9. LedgerMatchesExecutions'
    <3>1. \A n \in DOMAIN ledger : ledger[n].action # Len(execs)
      BY <2>1 DEF RecordOf
    <3>2. \A i \in ActionsIn("COMPLETED") : RecordOf(i)' # {}
      BY <2>5 DEF LedgerMatchesExecutions, RecordOf
    <3>3. ActionsIn("COMPLETED")' = ActionsIn("COMPLETED")
      BY <2>3 DEF ActionsIn, budget
    <3>4. ASSUME NEW n \in DOMAIN ledger' PROVE
            ledger'[n].action \in DOMAIN execs /\ ledger'[n].tool = execs[ledger'[n].action].tool
      <4>1. CASE n = last
        BY <2>2, <2>5, <4>1
      <4>2. CASE n \in DOMAIN ledger
        BY <2>5, <4>2 DEF LedgerMatchesExecutions
      <4> QED BY <2>5, <4>1, <4>2
    <3>5. \A m, n \in DOMAIN ledger' : ledger'[m].action = ledger'[n].action => m = n
      BY <2>5, <3>1 DEF LedgerMatchesExecutions
    <3> QED BY <2>3, <3>2, <3>3, <3>4, <3>5 DEF LedgerMatchesExecutions, budget, RecordOf
  <2>10. BaselineFirst' /\ AdaptiveWasApproved'
    BY <2>3 DEF BaselineFirst, AdaptiveWasApproved, budget, agents
  <2>11. PhaseInv'
    BY <2>1, <2>3, <2>5 DEF CannotAdvance, Prepared, ActionsIn, budget
  <2> QED BY <2>6, <2>7, <2>8, <2>9, <2>10, <2>11
<1>4. CASE HandlerFails
  BY <1>4, LastPrepared, TerminateKeepsInv DEF HandlerFails, Failures
<1>5. CASE CommitResult
  <2>1. pc \in Ledgered /\ Prepared # {} /\ pc' \in {"committed", "recommitted"}
    BY <1>5 DEF CommitResult, Goto
  <2>2. /\ LastOf(Prepared) = Len(execs) /\ Len(execs) \in Prepared
        /\ Commit(Len(execs), ledger[Len(ledger)])
    BY <1>5, <2>1, LastPrepared DEF CommitResult
  <2>3. ledger[Len(ledger)] \in EvidenceRecords /\ Len(ledger) \in RecordOf(Len(execs))
    BY <2>1 DEF TypeOK, RecordOf
  <2> HIDE DEF IInv
  <2> QED BY <2>1, <2>2, <2>3, CommitKeepsInv
<1>6. CASE EmitEvidence
  <2>1. StateInv'
    BY <1>6, EmitKeepsState DEF EmitEvidence, Goto
  <2>2. PhaseInv'
    BY <1>6 DEF EmitEvidence, Goto, CannotAdvance, Prepared, ActionsIn, budget
  <2> QED BY <2>1, <2>2
<1> HIDE DEF IInv
<1> QED BY <1>1, <1>2, <1>3, <1>4, <1>5, <1>6 DEF Tool

\* A crash is put down where it fell, and the others stay.
LEMMA CrashIsCounted ==
  ASSUME TypeOK, Crash
  PROVE  /\ crashes' \in Seq(Gaps \cup {"elsewhere"}) /\ Len(crashes') \in 0..MaxCrashes
         /\ Len(crashes') = Len(crashes) + 1
         /\ \A n \in DOMAIN crashes : n \in DOMAIN crashes' /\ crashes'[n] = crashes[n]
         /\ pc \in Gaps => Len(crashes') \in DOMAIN crashes' /\ crashes'[Len(crashes')] = pc
<1> DEFINE here == IF pc \in Gaps THEN pc ELSE "elsewhere"
<1>1. /\ crashes' = Append(crashes, here) /\ here \in Gaps \cup {"elsewhere"}
      /\ Len(crashes) < MaxCrashes
  BY DEF Crash
<1>2. crashes \in Seq(Gaps \cup {"elsewhere"}) /\ Len(crashes) \in Nat /\ MaxCrashes \in Nat
  BY BudgetsAssumption DEF TypeOK
<1>3. pc \in Gaps => here = pc
  OBVIOUS
<1> HIDE DEF here
<1> QED BY <1>1, <1>2, <1>3

\* Deadlines, the API's lock and reveal, crashes and restarts.
LEMMA EnvironmentKeepsInv ==
  ASSUME IInv, Environment
  PROVE  IInv'
<1> USE DEF IInv, StateInv, PhaseInv, AfterRecovery, Running, Ledgered, Charged, Undecided,
            Deciding, PcValues, AwaitPoints
<1>1. CASE DeadlineFails
  <2>1. Prepared = {} \/ LastOf(Prepared) = Len(execs)
    BY LastPrepared
  <2> QED BY <1>1, <2>1, TerminateKeepsInv DEF DeadlineFails, FailRun, Failures
<1>2. ASSUME status \in {"READY_TO_LOCK", "RESULT_LOCKED"},
             status' \in {"RESULT_LOCKED", "REVEALED"},
             UNCHANGED <<science, budget, agents, pendingFinal, trace, pc, crashes>>
      PROVE  IInv'
  <2>1. TypeOK' /\ StepIsCharged' /\ DecisionsOK'
    BY <1>2 DEF TypeOK, StepIsCharged, DecisionsOK, Closed, Failures, science, budget, agents
  <2>2. RunningMeansPrepared' /\ NoIdenticalAction'
    BY <1>2 DEF RunningMeansPrepared, NoIdenticalAction, Prepared, ActionsIn, budget
  <2>3. LedgerMatchesExecutions'
    BY <1>2 DEF LedgerMatchesExecutions, RecordOf, ActionsIn, science, budget
  <2>4. BaselineFirst' /\ AdaptiveWasApproved'
    BY <1>2 DEF BaselineFirst, AdaptiveWasApproved, science, budget, agents
  <2>5. pc \in {"idle", "down"} /\ pc' = pc
    BY <1>2 DEF CannotAdvance, Closed
  <2>6. PhaseInv'
    BY <2>5
  <2> QED BY <2>1, <2>2, <2>3, <2>4, <2>6
<1>3. CASE Crash
  <2>1. TypeOK' /\ StepIsCharged' /\ DecisionsOK'
    BY <1>3, CrashIsCounted
       DEF Crash, TypeOK, StepIsCharged, DecisionsOK, science, budget, agents
  <2>2. RunningMeansPrepared' /\ NoIdenticalAction'
    BY <1>3 DEF Crash, RunningMeansPrepared, NoIdenticalAction, Prepared, ActionsIn, budget
  <2>3. LedgerMatchesExecutions'
    BY <1>3 DEF Crash, LedgerMatchesExecutions, RecordOf, ActionsIn, science, budget
  <2>4. BaselineFirst' /\ AdaptiveWasApproved'
    BY <1>3 DEF Crash, BaselineFirst, AdaptiveWasApproved, science, budget, agents
  <2>5. PhaseInv'
    BY <1>3 DEF Crash
  <2> QED BY <2>1, <2>2, <2>3, <2>4, <2>5
<1>4. CASE Resume
  <2>1. StateInv'
    BY <1>4, StepKeepsState DEF Resume
  <2>2. PhaseInv'
    BY <1>4 DEF Resume, Step
  <2> QED BY <2>1, <2>2
<1> HIDE DEF IInv
<1> QED BY <1>1, <1>2, <1>3, <1>4 DEF Environment, LockResult, RevealCatalog

-----------------------------------------------------------------------------
(* The results.                                                            *)

\* The initial states satisfy the invariant.
LEMMA InitInv == Init => IInv
<1> SUFFICES ASSUME Init PROVE IInv
  OBVIOUS
<1>1. status \in Open \cup Closed /\ step \in 0..MaxSteps /\ costLeft \in Nat
  BY BudgetsAssumption DEF Init, Open
<1>2. done \subseteq Baseline /\ candidate \in BOOLEAN /\ pendingFinal \in BOOLEAN
  BY DEF Init
<1>3. execs \in Seq(Executions) /\ ledger \in Seq(EvidenceRecords) /\ trace \in Seq(Events)
  BY DEF Init
<1>4. toolCalls \in Nat /\ adaptiveUsed \in Nat /\ revisions \in Nat
  BY DEF Init
<1>5. proposal \in [Steps -> Requests \cup {None}] /\ review \in [Steps -> Reviews \cup {None}]
  BY DEF Init
<1>6. recorded \subseteq {"skeptic", "critic"} \X Steps
  BY DEF Init
<1>7. disposition \in {"REJECTED", "WEAK", "SURVIVES", None}
  BY DEF Init
<1>8. pc \in PcValues /\ crashes \in Seq(Gaps \cup {"elsewhere"}) /\ Len(crashes) \in 0..MaxCrashes
  BY BudgetsAssumption DEF Init, PcValues, AwaitPoints
<1>9. TypeOK
  BY <1>1, <1>2, <1>3, <1>4, <1>5, <1>6, <1>7, <1>8 DEF TypeOK
<1>10. StepIsCharged /\ DecisionsOK
  BY DEF Init, StepIsCharged, DecisionsOK
<1>11. RunningMeansPrepared /\ LedgerMatchesExecutions /\ NoIdenticalAction
  BY DEF Init, RunningMeansPrepared, LedgerMatchesExecutions, NoIdenticalAction, Prepared, ActionsIn
<1>12. BaselineFirst /\ AdaptiveWasApproved
  BY DEF Init, BaselineFirst, AdaptiveWasApproved
<1>13. PhaseInv
  BY DEF Init, PhaseInv, AfterRecovery, Running, Ledgered, Charged, Undecided, Deciding
<1> QED BY <1>9, <1>10, <1>11, <1>12, <1>13 DEF IInv, StateInv

\* So does a step that changes nothing.
LEMMA StutterInv == ASSUME IInv, UNCHANGED vars PROVE IInv'
<1> USE DEF IInv, StateInv, vars, science, budget, agents
<1>1. TypeOK' /\ StepIsCharged' /\ DecisionsOK'
  BY DEF TypeOK, StepIsCharged, DecisionsOK
<1>2. RunningMeansPrepared' /\ NoIdenticalAction' /\ LedgerMatchesExecutions'
  BY DEF RunningMeansPrepared, NoIdenticalAction, LedgerMatchesExecutions, Prepared, ActionsIn,
         RecordOf
<1>3. BaselineFirst' /\ AdaptiveWasApproved'
  BY DEF BaselineFirst, AdaptiveWasApproved
<1>4. PhaseInv'
  BY DEF PhaseInv, Prepared, ActionsIn, RecordOf, Proposed, Reviewed, Vetoed, Selected,
         CannotAdvance
<1> QED BY <1>1, <1>2, <1>3, <1>4

\* The inductive invariant holds in every reachable state.
THEOREM Inductive == Spec => []IInv
<1>1. IInv /\ [Next]_vars => IInv'
  BY CycleKeepsInv, AgentKeepsInv, ToolKeepsInv, EnvironmentKeepsInv, StutterInv
     DEF Next, Driver
<1> QED BY <1>1, InitInv, PTL DEF Spec

\* Every variable of the run keeps its type.
THEOREM TypeCorrect == Spec => []TypeOK
<1>1. IInv => TypeOK
  BY DEF IInv, StateInv
<1> QED BY <1>1, Inductive, PTL

\* The ledger and tool_executions agree after every crash.
THEOREM LedgerSound == Spec => []LedgerMatchesExecutions
<1>1. IInv => LedgerMatchesExecutions
  BY DEF IInv, StateInv
<1> QED BY <1>1, Inductive, PTL

\* RUNNING_TOOL marks exactly the runs that hold a PREPARED execution.
THEOREM RecoveryMarked == Spec => []RunningMeansPrepared
<1>1. IInv => RunningMeansPrepared
  BY DEF IInv, StateInv
<1> QED BY <1>1, Inductive, PTL

\* No adaptive tool runs, and no result is published, before the baseline.
THEOREM BaselineIsFirst == Spec => []BaselineFirst
<1>1. IInv => BaselineFirst
  BY DEF IInv, StateInv
<1> QED BY <1>1, Inductive, PTL

\* Every adaptive execution is the one its step's review selected.
THEOREM ApprovalIsRequired == Spec => []AdaptiveWasApproved
<1>1. IInv => AdaptiveWasApproved
  BY DEF IInv, StateInv
<1> QED BY <1>1, Inductive, PTL

\* No measurement stands twice.
THEOREM NoRepetition == Spec => []NoIdenticalAction
<1>1. IInv => NoIdenticalAction
  BY DEF IInv, StateInv
<1> QED BY <1>1, Inductive, PTL

\* An advance is only ever under way on an open run.
LEMMA DriverIsOpen ==
  ASSUME IInv, Driver
  PROVE  ~CannotAdvance
<1>1. CASE Cycle
  <2>1. pc \notin {"idle", "down"} \/ ~CannotAdvance
    BY <1>1 DEF Cycle, StartAdvance, NothingToRecover, RecoverFromLedger, Reexecute, EmitRecovery,
                RouteDurable, RouteProposal, BeginCycle, EmitBudget, FreshRoute, RunMandatory,
                EvaluateResult, Finalize, TerminateCycle, ExceptionFails, Goto
  <2> QED BY <2>1 DEF IInv, PhaseInv
<1>2. CASE Agent
  <2>1. pc \notin {"idle", "down"}
    BY <1>2 DEF Agent, SkepticDecides, SkepticRecorded, SkepticWaits, CriticRecorded,
                CriticDecides, RecordDecision, InferenceAborts, ResolveCritic, Goto
  <2> QED BY <2>1 DEF IInv, PhaseInv
<1>3. CASE Tool
  <2>1. pc \notin {"idle", "down"}
    BY <1>3 DEF Tool, PrepareMandatory, PrepareAdaptive, HandlerReturns, HandlerFails,
                CommitResult, EmitEvidence, Goto
  <2> QED BY <2>1 DEF IInv, PhaseInv
<1> QED BY <1>1, <1>2, <1>3 DEF Driver

\* What a step may do to a run that stopped: lock it, then reveal.
Frozen == /\ UNCHANGED <<science, budget, agents, pendingFinal>>
          /\ \/ UNCHANGED status
             \/ status = "READY_TO_LOCK" /\ status' = "RESULT_LOCKED"
             \/ status = "RESULT_LOCKED" /\ status' = "REVEALED"

\* No step does more.
LEMMA ClosedIsFrozen ==
  ASSUME IInv, [Next]_vars, CannotAdvance
  PROVE  Frozen
<1>1. CASE UNCHANGED vars
  BY <1>1 DEF vars, Frozen
<1>2. CASE Driver
  BY <1>2, DriverIsOpen
<1>3. CASE DeadlineFails
  BY <1>3 DEF DeadlineFails, FailRun
<1>4. CASE LockResult \/ RevealCatalog
  BY <1>4 DEF LockResult, RevealCatalog, Frozen
<1>5. CASE Crash \/ Resume
  BY <1>5 DEF Crash, Resume, Step, Frozen
<1> QED BY <1>1, <1>2, <1>3, <1>4, <1>5 DEF Next, Environment

\* A stopped run is frozen except for lock and reveal.
THEOREM Closed_IsFinal == Spec => ClosedIsFinal
<1>1. IInv /\ [Next]_vars => [CannotAdvance => Frozen]_vars
  BY ClosedIsFrozen
<1> QED BY <1>1, Inductive, PTL DEF Spec, ClosedIsFinal, Frozen

\* No accepted decision is replaced: the Skeptic and the Critic are only asked
\* where the invariant says that their step has no answer yet.
THEOREM Decisions_AreKept == Spec => DecisionsAreKept
<1>1. ASSUME IInv, [Next]_vars PROVE AllKept
  <2>1. UNCHANGED <<proposal, review>> => AllKept
    BY DEF AllKept, Kept
  <2>2. CASE UNCHANGED vars
    BY <2>1, <2>2 DEF vars, agents
  <2>3. CASE Cycle
    <3>1. UNCHANGED agents
      BY <2>3 DEF Cycle, StartAdvance, NothingToRecover, RecoverFromLedger, Reexecute,
                  EmitRecovery, RouteDurable, RouteProposal, BeginCycle, EmitBudget, FreshRoute,
                  RunMandatory, EvaluateResult, Finalize, TerminateCycle, ExceptionFails, FailRun,
                  Step, SaveStatus, Terminate, Finalizing, Commit
    <3> QED BY <2>1, <3>1 DEF agents
  <2>4. CASE Tool
    <3>1. UNCHANGED agents
      BY <2>4 DEF Tool, PrepareMandatory, PrepareAdaptive, Prepare, HandlerReturns, HandlerFails,
                  CommitResult, EmitEvidence, Step, Terminate, Commit
    <3> QED BY <2>1, <3>1 DEF agents
  <2>5. ASSUME NEW r \in Requests, SkepticDecides(r) PROVE AllKept
    <3>1. step \in Steps => proposal[step] = None
      BY <1>1, <2>5 DEF SkepticDecides, Goto, IInv, PhaseInv, Undecided, Proposed
    <3>2. proposal' = [proposal EXCEPT ![step] = r] /\ review' = review
      BY <2>5 DEF SkepticDecides
    <3> QED BY <1>1, <3>1, <3>2 DEF IInv, StateInv, TypeOK, AllKept, Kept
  <2>6. ASSUME NEW v \in Verdicts, NEW r \in Requests \cup {None}, CriticDecides(v, r) PROVE AllKept
    <3>1. step \in Steps => review[step] = None
      BY <1>1, <2>6 DEF CriticDecides, Goto, IInv, PhaseInv, Deciding, Proposed, Reviewed
    <3>2. /\ review' = [review EXCEPT ![step] = [verdict |-> v, revised |-> r]]
          /\ proposal' = proposal
      BY <2>6 DEF CriticDecides
    <3> QED BY <1>1, <3>1, <3>2 DEF IInv, StateInv, TypeOK, AllKept, Kept
  <2>7. CASE SkepticRecorded \/ SkepticWaits \/ CriticRecorded \/ ResolveCritic
    BY <2>1, <2>7 DEF SkepticRecorded, SkepticWaits, CriticRecorded, ResolveCritic, RecordDecision,
                      SaveStatus, Terminate, agents
  <2>8. CASE Environment \/ \E st \in Failures : InferenceAborts(st)
    BY <2>1, <2>8 DEF Environment, DeadlineFails, FailRun, LockResult, RevealCatalog, Crash, Resume,
                      InferenceAborts, Terminate, Step, agents
  <2> QED BY <1>1, <2>2, <2>3, <2>4, <2>5, <2>6, <2>7, <2>8 DEF Next, Driver, Agent
<1>2. IInv /\ [Next]_vars => [AllKept]_vars
  BY <1>1
<1> QED BY <1>2, Inductive, PTL DEF Spec, DecisionsAreKept

\* What the ledger says is what the executions did, once each: LedgerIsSound.
THEOREM Ledger_IsSound == Spec => []LedgerIsSound
<1>1. LedgerMatchesExecutions /\ NoIdenticalAction /\ RunningMeansPrepared => LedgerIsSound
  BY DEF LedgerIsSound
<1> QED BY <1>1, LedgerSound, NoRepetition, RecoveryMarked, PTL

\* An adaptive tool follows the baseline and its step's review: AdaptiveIsEarned.
THEOREM Adaptive_IsEarned == Spec => []AdaptiveIsEarned
<1>1. BaselineFirst /\ AdaptiveWasApproved => AdaptiveIsEarned
  BY DEF AdaptiveIsEarned
<1> QED BY <1>1, BaselineIsFirst, ApprovalIsRequired, PTL

\* Neither a stopped run nor an accepted decision is touched: HistoryStands.
THEOREM History_Stands == Spec => HistoryStands
<1> QED BY Closed_IsFinal, Decisions_AreKept DEF HistoryStands

-----------------------------------------------------------------------------
(* What is published, and what was charged for it.                         *)

Published == {"READY_TO_LOCK", "RESULT_LOCKED", "REVEALED"}

\* A published disposition is the one that the rules give for the ledger.
Ruled ==
  status \in Published =>
    disposition # None /\ disposition = DispositionOf(LedgerCodes, candidate)

\* On an open run only the finalize node publishes, and it asks the rules.
LEMMA PublishingIsRuled ==
  ASSUME IInv, Next, ~CannotAdvance
  PROVE  Ruled'
<1> USE DEF Ruled, Published
<1>1. status \notin Published
  BY DEF CannotAdvance, Closed
<1>2. CASE Finalize
  <2>1. DispositionOf(LedgerCodes, candidate)' = DispositionOf(LedgerCodes', candidate')
    OBVIOUS
  <2>2. ledger' = ledger => LedgerCodes' = LedgerCodes
    BY DEF LedgerCodes
  <2>3. CASE \E st \in Failures : Terminate(st, 0)
    BY <2>3 DEF Terminate, Failures
  <2>4. CASE Step("raised")
    BY <1>1, <2>4 DEF Step
  <2>5. CASE /\ DispositionOf(LedgerCodes, candidate) # None
             /\ disposition' = DispositionOf(LedgerCodes, candidate)
             /\ candidate' = candidate /\ ledger' = ledger
    BY <2>1, <2>2, <2>5
  <2> QED BY <1>2, <2>3, <2>4, <2>5 DEF Finalize, Failures
<1>3. CASE Cycle /\ ~Finalize
  <2>1. status' = status \/ status' \in Open \cup Failures
    BY <1>3 DEF Cycle, StartAdvance, NothingToRecover, RecoverFromLedger, Reexecute,
                EmitRecovery, RouteDurable, RouteProposal, BeginCycle, EmitBudget, FreshRoute,
                RunMandatory, EvaluateResult, TerminateCycle, ExceptionFails, FailRun,
                Step, SaveStatus, Terminate, Finalizing, Commit, Open, Failures
  <2> QED BY <1>1, <2>1 DEF Open, Failures
<1>4. CASE Agent
  <2>1. status' = status \/ status' \in Open \cup Failures
    BY <1>4 DEF Agent, SkepticDecides, SkepticRecorded, SkepticWaits, CriticRecorded,
                CriticDecides, RecordDecision, InferenceAborts, ResolveCritic, SaveStatus,
                Terminate, Open, Failures
  <2> QED BY <1>1, <2>1 DEF Open, Failures
<1>5. CASE Tool
  <2>1. status' = status \/ status' \in Open \cup Failures
    BY <1>5 DEF Tool, PrepareMandatory, PrepareAdaptive, Prepare, Refusal, HandlerReturns,
                HandlerFails, CommitResult, EmitEvidence, Commit, Terminate, Step, Open, Failures
  <2> QED BY <1>1, <2>1 DEF Open, Failures
<1>6. CASE Environment
  BY <1>1, <1>6 DEF Environment, DeadlineFails, FailRun, LockResult, RevealCatalog, Crash, Resume,
                    Terminate, Step
<1> QED BY <1>2, <1>3, <1>4, <1>5, <1>6 DEF Next, Driver

\* Nothing that rejects or weakens the candidate is passed over in what a run
\* publishes: DispositionHonoursLedger.
THEOREM Disposition_HonoursLedger == Spec => []DispositionHonoursLedger
<1>1. Init => Ruled
  BY DEF Init, Ruled, Published
<1>2. IInv /\ Ruled /\ [Next]_vars => Ruled'
  <2> SUFFICES ASSUME IInv, Ruled, [Next]_vars PROVE Ruled'
    OBVIOUS
  <2>1. CASE ~CannotAdvance /\ Next
    BY <2>1, PublishingIsRuled
  <2>2. CASE UNCHANGED vars
    BY <2>2 DEF vars, science, Ruled, LedgerCodes, DispositionOf
  <2>3. CASE CannotAdvance
    <3>1. Frozen
      BY <2>3, ClosedIsFrozen
    <3>2. status' \in Published => status \in Published
      BY <2>3, <3>1 DEF Frozen, Published
    <3> QED BY <3>1, <3>2 DEF Frozen, science, Ruled, LedgerCodes, DispositionOf
  <2> QED BY <2>1, <2>2, <2>3
<1>3. Ruled => DispositionHonoursLedger
  BY ValuesAssumption
     DEF Ruled, Published, DispositionHonoursLedger, DispositionOf, Weak, Rejecting
<1> QED BY <1>1, <1>2, <1>3, Inductive, PTL DEF Spec

-----------------------------------------------------------------------------
(* Sums: what Total says of a function on 1..n, by induction on n.  The    *)
(* set of the numbers for which a claim holds stands for the claim.        *)

\* Whatever holds of 0 and goes from each number to the next holds of all.
LEMMA Numbers ==
  ASSUME NEW S, S \subseteq Nat, 0 \in S, \A n \in S : n + 1 \in S
  PROVE  S = Nat
<1> DEFINE T == Nat \ S
           R == OpToRel(<, Nat)
<1>1. SUFFICES ASSUME T # {} PROVE FALSE
  OBVIOUS
<1>2. IsWellFoundedOn(R, Nat)
  BY NatLessThanWellFounded
<1>3. PICK m \in T : \A n \in T : ~ (<<n, m>> \in R)
  <2>1. T \subseteq Nat
    OBVIOUS
  <2> HIDE DEF T, R
  <2> QED BY <1>1, <1>2, <2>1, WFMin
<1>4. m # 0 /\ m - 1 \in Nat /\ m - 1 < m
  OBVIOUS
<1>5. m - 1 \in S
  <2>1. <<m - 1, m>> \in R
    BY <1>4, Zenon DEF OpToRel
  <2> QED BY <1>3, <1>4, <2>1
<1>6. (m - 1) + 1 \in S
  BY <1>5
<1> QED BY <1>4, <1>6

\* A running sum over 1..n, and the one that Total picks.
RunningSum(h, n, g) == g = [k \in 0..n |-> IF k = 0 THEN 0 ELSE g[k - 1] + h[k]]
SumOf(h, n) == CHOOSE g : RunningSum(h, n, g)

\* There is one.
LEMMA SumExists ==
  ASSUME NEW n \in Nat, NEW h \in [1..n -> Nat]
  PROVE  /\ RunningSum(h, n, SumOf(h, n)) /\ SumOf(h, n) \in [0..n -> Nat]
         /\ Total(h, n) = SumOf(h, n)[n]
<1> DEFINE Has(m) == \E g \in [0..m -> Nat] : RunningSum(h, m, g)
           P == {m \in Nat : m <= n => Has(m)}
<1>1. Has(0)
  <2> DEFINE g == [k \in 0..0 |-> 0]
  <2>1. g \in [0..0 -> Nat] /\ RunningSum(h, 0, g)
    BY DEF RunningSum
  <2> QED BY <2>1
<1>2. ASSUME NEW m \in Nat, m + 1 <= n, Has(m) PROVE Has(m + 1)
  <2>1. m + 1 \in 1..n
    BY <1>2
  <2>2. PICK f \in [0..m -> Nat] : RunningSum(h, m, f)
    BY <1>2
  <2>3. \A k \in 0..m : f[k] = IF k = 0 THEN 0 ELSE f[k - 1] + h[k]
    BY <2>2 DEF RunningSum
  <2> DEFINE g == [k \in 0..(m + 1) |-> IF k = m + 1 THEN f[m] + h[k] ELSE f[k]]
  <2>4. g \in [0..(m + 1) -> Nat]
    <3>1. f[m] + h[m + 1] \in Nat
      BY <2>1
    <3> QED BY <3>1
  <2>5. ASSUME NEW k \in 0..(m + 1) PROVE g[k] = IF k = 0 THEN 0 ELSE g[k - 1] + h[k]
    <3>1. CASE k = m + 1
      BY <3>1
    <3>2. CASE k # m + 1
      BY <2>3, <3>2
    <3> QED BY <3>1, <3>2
  <2>6. RunningSum(h, m + 1, g)
    <3>1. g = [k \in 0..(m + 1) |-> g[k]]
      OBVIOUS
    <3> HIDE DEF g
    <3> QED BY <2>5, <3>1 DEF RunningSum
  <2> QED BY <2>4, <2>6
<1>3. Has(n)
  <2> HIDE DEF Has
  <2>1. P \subseteq Nat /\ 0 \in P /\ \A m \in P : m + 1 \in P
    BY <1>1, <1>2
  <2>2. P = Nat
    <3> HIDE DEF P
    <3> QED BY <2>1, Numbers
  <2> QED BY <2>2
<1>4. PICK g \in [0..n -> Nat] : RunningSum(h, n, g)
  BY <1>3
<1>5. RunningSum(h, n, SumOf(h, n))
  BY <1>4 DEF SumOf
<1>6. SumOf(h, n) \in [0..n -> Nat]
  <2> DEFINE s == SumOf(h, n)
             Q == {m \in Nat : m <= n => s[m] \in Nat}
  <2>1. \A k \in 0..n : s[k] = IF k = 0 THEN 0 ELSE s[k - 1] + h[k]
    BY <1>5 DEF RunningSum
  <2>2. s = [k \in 0..n |-> s[k]]
    BY <1>5 DEF RunningSum
  <2> HIDE DEF s
  <2>3. 0 \in Q
    BY <2>1
  <2>4. ASSUME NEW m \in Q PROVE m + 1 \in Q
    <3> SUFFICES ASSUME m + 1 <= n PROVE s[m + 1] \in Nat
      OBVIOUS
    <3>1. m + 1 \in 0..n /\ m + 1 \in 1..n /\ m + 1 # 0 /\ (m + 1) - 1 = m
      OBVIOUS
    <3>2. s[m] \in Nat /\ h[m + 1] \in Nat
      BY <3>1
    <3> QED BY <2>1, <3>1, <3>2
  <2>5. Q = Nat
    <3> HIDE DEF Q
    <3>1. Q \subseteq Nat
      BY DEF Q
    <3> QED BY <2>3, <2>4, <3>1, Numbers
  <2>6. ASSUME NEW k \in 0..n PROVE s[k] \in Nat
    <3>1. k \in Nat /\ k <= n
      OBVIOUS
    <3>2. k \in Q
      BY <2>5, <3>1
    <3> QED BY <3>1, <3>2
  <2> QED BY <2>2, <2>6 DEF s
<1>7. Total(h, n) = SumOf(h, n)[n]
  BY Zenon DEF Total, SumOf, RunningSum
<1> QED BY <1>5, <1>6, <1>7

\* It depends on no more than the numbers it sums.
LEMMA SumAgrees ==
  ASSUME NEW n \in Nat, NEW h \in [1..n -> Nat], NEW m \in Nat, NEW f \in [1..m -> Nat],
         NEW l \in Nat, l <= n, l <= m, \A i \in 1..l : h[i] = f[i]
  PROVE  SumOf(h, n)[l] = SumOf(f, m)[l]
<1> DEFINE s == SumOf(h, n)
           t == SumOf(f, m)
           P == {k \in Nat : k <= l => s[k] = t[k]}
<1>1. /\ \A k \in 0..n : s[k] = IF k = 0 THEN 0 ELSE s[k - 1] + h[k]
      /\ \A k \in 0..m : t[k] = IF k = 0 THEN 0 ELSE t[k - 1] + f[k]
  <2>1. RunningSum(h, n, s) /\ RunningSum(f, m, t)
    BY SumExists
  <2> HIDE DEF s, t
  <2> QED BY <2>1 DEF RunningSum
<1> HIDE DEF s, t
<1>2. 0 \in P
  BY <1>1
<1>3. ASSUME NEW k \in P PROVE k + 1 \in P
  <2> SUFFICES ASSUME k + 1 <= l PROVE s[k + 1] = t[k + 1]
    OBVIOUS
  <2>1. k + 1 \in 0..n /\ k + 1 \in 0..m /\ k + 1 \in 1..l /\ k + 1 # 0 /\ (k + 1) - 1 = k
    OBVIOUS
  <2>2. s[k] = t[k]
    BY <2>1
  <2> QED BY <1>1, <2>1, <2>2
<1>4. P = Nat
  <2> HIDE DEF P
  <2>1. P \subseteq Nat
    BY DEF P
  <2> QED BY <1>2, <1>3, <2>1, Numbers
<1> QED BY <1>4 DEF s, t

\* One more number adds itself, and the sums of equal numbers are equal.
LEMMA TotalGrows ==
  ASSUME NEW n \in Nat, NEW h \in [1..n -> Nat], NEW f \in [1..(n + 1) -> Nat],
         \A i \in 1..n : h[i] = f[i]
  PROVE  Total(f, n + 1) = Total(h, n) + f[n + 1] /\ Total(h, n) \in Nat
<1>1. /\ Total(h, n) = SumOf(h, n)[n] /\ SumOf(h, n) \in [0..n -> Nat]
      /\ Total(f, n + 1) = SumOf(f, n + 1)[n + 1]
  <2>1. n + 1 \in Nat
    OBVIOUS
  <2> QED BY <2>1, SumExists
<1>2. SumOf(f, n + 1)[n + 1] = SumOf(f, n + 1)[n] + f[n + 1]
  <2>1. \A k \in 0..(n + 1) : SumOf(f, n + 1)[k] = IF k = 0 THEN 0 ELSE SumOf(f, n + 1)[k - 1] + f[k]
    BY SumExists DEF RunningSum
  <2>2. n + 1 \in 0..(n + 1) /\ n + 1 # 0 /\ (n + 1) - 1 = n
    OBVIOUS
  <2> QED BY <2>1, <2>2
<1>3. SumOf(f, n + 1)[n] = SumOf(h, n)[n]
  BY SumAgrees
<1> QED BY <1>1, <1>2, <1>3

-----------------------------------------------------------------------------
(* Charges.                                                                *)

\* The executions whose tool is adaptive.
AdaptiveExecs == {i \in DOMAIN execs : execs[i].tool \in Adaptive}

\* Each execution on record is charged once, and none is past its budget.
ChargedOnce ==
  /\ toolCalls = Len(execs) /\ toolCalls <= MaxTools
  /\ adaptiveUsed = Cardinality(AdaptiveExecs) /\ adaptiveUsed <= MaxAdaptive
  /\ costLeft + SpentUnits = MaxCost

\* What changes neither the number nor the tools of the executions charges nothing.
LEMMA SameToolsSameCharge ==
  ASSUME ChargedOnce, UNCHANGED <<toolCalls, adaptiveUsed, costLeft>>,
         Len(execs') = Len(execs), DOMAIN execs' = DOMAIN execs,
         \A i \in DOMAIN execs : execs'[i].tool = execs[i].tool
  PROVE  ChargedOnce'
<1>1. AdaptiveExecs' = AdaptiveExecs
  BY DEF AdaptiveExecs
<1>2. SpentUnits' = SpentUnits
  BY DEF SpentUnits, Units
<1> QED BY <1>1, <1>2 DEF ChargedOnce

\* Failing an execution refunds nothing.
LEMMA TerminateKeepsCharge ==
  ASSUME TypeOK, ChargedOnce, NEW st, NEW a, Terminate(st, a)
  PROVE  ChargedOnce'
<1>1. execs' = [i \in DOMAIN execs |->
                  IF i = a THEN [execs[i] EXCEPT !.status = "FAILED"] ELSE execs[i]]
  BY DEF Terminate
<1>2. UNCHANGED <<toolCalls, adaptiveUsed, costLeft>>
  BY DEF Terminate
<1> QED BY <1>1, <1>2, FailExecs, SameToolsSameCharge

\* Nor does committing its result, also when it was recovered or run again.
LEMMA CommitKeepsCharge ==
  ASSUME TypeOK, ChargedOnce, NEW i \in DOMAIN execs, NEW r, Commit(i, r)
  PROVE  ChargedOnce'
<1> DEFINE closed == IF r.status = "FAILED" THEN "FAILED" ELSE "COMPLETED"
<1>1. execs' = [execs EXCEPT ![i].status = closed] /\ UNCHANGED <<toolCalls, adaptiveUsed, costLeft>>
  BY DEF Commit
<1>2. execs' \in [1..Len(execs) -> Executions]
  BY <1>1, ExecsShape DEF Executions
<1>3. Len(execs') = Len(execs) /\ DOMAIN execs' = DOMAIN execs
  BY <1>2, ExecsShape, SeqDef
<1>4. \A j \in DOMAIN execs : execs'[j].tool = execs[j].tool
  BY <1>1, ExecsShape DEF Executions
<1> QED BY <1>1, <1>3, <1>4, SameToolsSameCharge

\* The PREPARED save charges the execution it adds, within the budgets.
LEMMA PrepareCharges ==
  ASSUME TypeOK, ChargedOnce, NEW tool \in Tools, NEW adaptive \in BOOLEAN,
         tool \in Adaptive <=> adaptive, Prepare(tool, adaptive)
  PROVE  ChargedOnce'
<1>1. CASE \E st : Terminate(st, 0)
  BY <1>1, TerminateKeepsCharge
<1>2. CASE Step("raised")
  BY <1>2, ExecsShape, SameToolsSameCharge DEF Step, budget
<1>3. CASE /\ Refusal(tool, adaptive) = {}
           /\ toolCalls' = toolCalls + 1
           /\ adaptiveUsed' = (IF adaptive THEN adaptiveUsed + 1 ELSE adaptiveUsed)
           /\ costLeft' = (IF adaptive THEN costLeft - Cost[tool] ELSE costLeft)
           /\ execs' = Append(execs, [tool |-> tool, step |-> step, status |-> "PREPARED"])
  <2> DEFINE new == [tool |-> tool, step |-> step, status |-> "PREPARED"]
             last == Len(execs) + 1
  <2>1. /\ Len(execs') = last /\ last \in Nat \ {0}
        /\ DOMAIN execs' = DOMAIN execs \cup {last} /\ last \notin DOMAIN execs
        /\ execs'[last].tool = tool /\ \A i \in DOMAIN execs : execs'[i] = execs[i]
    BY <1>3, ExecsShape
  <2> HIDE DEF last
  <2>2. ~(toolCalls >= MaxTools) /\ (adaptive => ~(adaptiveUsed >= MaxAdaptive))
    BY <1>3 DEF Refusal
  <2>3. toolCalls' = Len(execs') /\ toolCalls' <= MaxTools
    BY <1>3, <2>1, <2>2, BudgetsAssumption DEF ChargedOnce, TypeOK, last
  <2>4. adaptiveUsed' <= MaxAdaptive
    BY <1>3, <2>2, BudgetsAssumption DEF ChargedOnce, TypeOK
  <2>5. IsFiniteSet(AdaptiveExecs) /\ last \notin AdaptiveExecs
    <3>1. IsFiniteSet(DOMAIN execs)
      BY ExecsShape, FS_Interval
    <3>2. AdaptiveExecs \subseteq DOMAIN execs
      BY DEF AdaptiveExecs
    <3> QED BY <2>1, <3>1, <3>2, FS_Subset
  <2>6. AdaptiveExecs' = IF adaptive THEN AdaptiveExecs \cup {last} ELSE AdaptiveExecs
    BY <2>1 DEF AdaptiveExecs
  <2>7. adaptiveUsed' = Cardinality(AdaptiveExecs)'
    BY <1>3, <2>5, <2>6, FS_AddElement DEF ChargedOnce
  <2>8. costLeft' + SpentUnits' = MaxCost
    <3>1. Units \in [1..Len(execs) -> Nat]
      BY ExecsShape, ToolsAssumption DEF Units
    <3>2. Units' \in [1..last -> Nat]
      <4>1. DOMAIN execs' = 1..last
        BY <1>3, ExecsShape DEF last
      <4> QED BY <4>1, ToolsAssumption DEF Units
    <3>3. \A i \in 1..Len(execs) : Units[i] = Units'[i]
      BY <2>1, ExecsShape DEF Units
    <3>4. Units'[last] = IF adaptive THEN Cost[tool] ELSE 0
      BY <2>1 DEF Units
    <3>5. SpentUnits' = Total(Units', last) /\ SpentUnits = Total(Units, Len(execs))
      BY <2>1 DEF SpentUnits
    <3>6. Total(Units', last) = Total(Units, Len(execs)) + Units'[last] /\ Total(Units, Len(execs)) \in Nat
      <4> DEFINE n == Len(execs)
                 h == Units
                 f == Units'
      <4>1. n \in Nat /\ h \in [1..n -> Nat] /\ f \in [1..(n + 1) -> Nat] /\ \A i \in 1..n : h[i] = f[i]
        BY <3>1, <3>2, <3>3, ExecsShape DEF last
      <4> HIDE DEF n, h, f
      <4>2. Total(f, n + 1) = Total(h, n) + f[n + 1] /\ Total(h, n) \in Nat
        BY <4>1, TotalGrows
      <4> QED BY <4>2 DEF n, h, f, last
    <3>7. (adaptive => Cost[tool] \in Nat) /\ costLeft \in Nat /\ MaxCost \in Nat
      BY BudgetsAssumption, ToolsAssumption DEF TypeOK
    <3>8. costLeft + Total(Units, Len(execs)) = MaxCost
      BY <3>5 DEF ChargedOnce
    <3> QED BY <1>3, <3>4, <3>5, <3>6, <3>7, <3>8
  <2> QED BY <2>3, <2>4, <2>7, <2>8 DEF ChargedOnce
<1> QED BY <1>1, <1>2, <1>3 DEF Prepare

\* A tool call or an adaptive experiment is charged once for each execution on
\* record, whatever was lost, recovered or run again, and within its budget;
\* so are the cost units.
THEOREM Charged_Once == Spec => []ChargedOnce
<1>1. Init => ChargedOnce
  <2> SUFFICES ASSUME Init PROVE ChargedOnce
    OBVIOUS
  <2>1. AdaptiveExecs = {}
    BY DEF Init, AdaptiveExecs
  <2>2. SpentUnits = 0
    <3>1. Len(execs) = 0 /\ DOMAIN execs = {} /\ 1..0 = {}
      BY DEF Init
    <3>2. Units \in [1..0 -> Nat]
      BY <3>1 DEF Units
    <3>3. Total(Units, 0) = SumOf(Units, 0)[0] /\ RunningSum(Units, 0, SumOf(Units, 0))
      <4> DEFINE h == Units
      <4>1. h \in [1..0 -> Nat]
        BY <3>2
      <4> HIDE DEF h
      <4> QED BY <4>1, SumExists DEF h
    <3>4. SumOf(Units, 0)[0] = 0
      BY <3>3 DEF RunningSum
    <3> QED BY <3>1, <3>3, <3>4 DEF SpentUnits
  <2> QED BY <2>1, <2>2, FS_EmptySet, BudgetsAssumption DEF Init, ChargedOnce
<1>2. IInv /\ ChargedOnce /\ [Next]_vars => ChargedOnce'
  <2> SUFFICES ASSUME IInv, ChargedOnce, [Next]_vars PROVE ChargedOnce'
    OBVIOUS
  <2> USE DEF IInv, StateInv
  <2>1. CASE UNCHANGED <<execs, toolCalls, adaptiveUsed, costLeft>>
    BY <2>1, SameToolsSameCharge
  <2>2. ASSUME NEW st, NEW a, Terminate(st, a) PROVE ChargedOnce'
    BY <2>2, TerminateKeepsCharge
  <2>3. ASSUME NEW i \in Prepared, NEW r, Commit(i, r) PROVE ChargedOnce'
    BY <2>3, CommitKeepsCharge DEF Prepared, ActionsIn
  <2>4. CASE PrepareMandatory
    <3>1. PICK t \in Baseline : First(t) /\ Prepare(t, FALSE)
      BY <2>4 DEF PrepareMandatory
    <3>2. t \in Tools /\ t \notin Adaptive
      BY ToolsAssumption DEF Tools
    <3> QED BY <3>1, <3>2, PrepareCharges
  <2>5. CASE PrepareAdaptive
    <3>1. Proposed /\ Reviewed /\ Selected # Stop /\ Prepare(Selected, TRUE)
      BY <2>5 DEF PrepareAdaptive, PhaseInv, Deciding
    <3>2. Selected \in Requests
      <4>1. step \in Steps /\ proposal[step] \in Requests /\ review[step] \in Reviews
        BY <3>1 DEF Proposed, Reviewed, TypeOK
      <4>2. review[step].verdict = "REVISE" => review[step].revised # None
        BY <3>1, <4>1 DEF Reviewed, DecisionsOK
      <4> QED BY <4>1, <4>2 DEF Selected, Reviews
    <3>3. Selected \in Tools /\ Selected \in Adaptive
      BY <3>1, <3>2 DEF Requests, Tools
    <3> QED BY <3>1, <3>3, PrepareCharges
  <2>6. CASE Cycle
    <3>1. \/ UNCHANGED <<execs, toolCalls, adaptiveUsed, costLeft>>
          \/ \E st, a : Terminate(st, a)
          \/ RecoverFromLedger
      BY <2>6 DEF Cycle, StartAdvance, NothingToRecover, Reexecute, EmitRecovery, RouteDurable,
                  RouteProposal, BeginCycle, EmitBudget, FreshRoute, RunMandatory, EvaluateResult,
                  Finalize, TerminateCycle, ExceptionFails, FailRun, Step, SaveStatus, Finalizing,
                  budget
    <3> QED BY <2>1, <2>2, <2>3, <3>1 DEF RecoverFromLedger
  <2>7. CASE Agent
    <3>1. UNCHANGED <<execs, toolCalls, adaptiveUsed, costLeft>> \/ \E st, a : Terminate(st, a)
      BY <2>7 DEF Agent, SkepticDecides, SkepticRecorded, SkepticWaits, CriticRecorded,
                  CriticDecides, RecordDecision, InferenceAborts, ResolveCritic, SaveStatus, budget
    <3> QED BY <2>1, <2>2, <3>1
  <2>8. CASE CommitResult
    <3>1. pc \in Ledgered
      BY <2>8 DEF CommitResult, Goto, Ledgered
    <3>2. LastOf(Prepared) \in Prepared
      BY <3>1, LastPrepared DEF PhaseInv, Ledgered
    <3> QED BY <2>3, <2>8, <3>2 DEF CommitResult
  <2>9. CASE (\E o \in Outcomes : HandlerReturns(o)) \/ HandlerFails \/ EmitEvidence
    <3>1. UNCHANGED <<execs, toolCalls, adaptiveUsed, costLeft>> \/ \E st, a : Terminate(st, a)
      BY <2>9 DEF HandlerReturns, HandlerFails, EmitEvidence, budget
    <3> QED BY <2>1, <2>2, <3>1
  <2>10. CASE Environment \/ UNCHANGED vars
    <3>1. UNCHANGED <<execs, toolCalls, adaptiveUsed, costLeft>> \/ \E st, a : Terminate(st, a)
      BY <2>10 DEF Environment, DeadlineFails, FailRun, LockResult, RevealCatalog, Crash, Resume,
                   Step, vars, budget
    <3> QED BY <2>1, <2>2, <3>1
  <2> QED BY <2>4, <2>5, <2>6, <2>7, <2>8, <2>9, <2>10 DEF Next, Driver, Tool
<1> QED BY <1>1, <1>2, Inductive, PTL DEF Spec

-----------------------------------------------------------------------------
(* What every node may rely on, crashes or not: the step of the last        *)
(* execution and what the trace says of it, since that decides whether an   *)
(* advance opens a new one, and that whoever goes to finalize has a durable *)
(* reason.                                                                  *)

\* The current step is charged and its budget.updated is in the trace.
Budgeted == TraceOf({"budget.updated"}) # {}
\* The last execution is one of the current step.
LastIsNow == execs # <<>> /\ execs[Len(execs)].step = step

\* Nothing is on file for a step to come.
Placed ==
  /\ \A i \in DOMAIN execs : execs[i].step <= step
  /\ \A n \in DOMAIN trace : trace[n].step <= step

\* The nodes that work on a step before it has a proposal.
Working == {"fresh", "mandatory", "prepare_mandatory", "skeptic"}

\* A step's work begins behind its budget.updated, also after a restart.
Opened ==
  /\ LastIsNow => Budgeted
  /\ Proposed => Budgeted
  /\ pc \in Working => Budgeted

\* The statuses of a measurement belong to the last execution, of this step.
Measured ==
  /\ status \in {"RUNNING_TOOL", "UPDATING_EVIDENCE"} => LastIsNow
  /\ status = "UPDATING_EVIDENCE" => RecordOf(Len(execs)) # {}
  /\ pc \in {"recovered", "committed", "recommitted", "evaluate"} => status = "UPDATING_EVIDENCE"

\* FINALIZING keeps its reason and the finalize node finds one.
Settled ==
  /\ status = "FINALIZING" => pendingFinal /\ Missing = {}
  /\ FinalizeHasReason

FitInv == Placed /\ Opened /\ Measured /\ Settled

\* The executions keep their number, tools and steps.
SameExecs ==
  /\ Len(execs') = Len(execs) /\ DOMAIN execs' = DOMAIN execs
  /\ \A i \in DOMAIN execs :
       execs'[i].tool = execs[i].tool /\ execs'[i].step = execs[i].step
\* The four things a step may do to the files that tell the steps apart.
Calm == UNCHANGED <<step, trace>> /\ SameExecs
Opens == /\ pc = "route" /\ RequiresBegin /\ status # "FINALIZING"
         /\ pc' = "begun" /\ step' = step + 1
         /\ UNCHANGED <<status, science, execs, agents, pendingFinal, trace, crashes>>
Emits == \E type \in {"budget.updated", "evidence.appended", "recovery.completed"} :
           /\ Emit(type)
           /\ <<pc, type, pc'>> \in {<<"begun", "budget.updated", "fresh">>,
                <<"committed", "evidence.appended", "evaluate">>,
                <<"recommitted", "evidence.appended", "recovered">>,
                <<"recovered", "recovery.completed", "recover">>}
           /\ UNCHANGED <<status, science, budget, agents, pendingFinal, crashes>>
Prepares == \E tool \in Tools :
  /\ \/ pc = "prepare_mandatory" /\ tool \notin Adaptive
     \/ pc = "prepare_adaptive" /\ tool \in Adaptive /\ Proposed /\ Reviewed
  /\ status' = "RUNNING_TOOL" /\ pc' = "running"
  /\ execs' = Append(execs, [tool |-> tool, step |-> step, status |-> "PREPARED"])
  /\ UNCHANGED <<science, step, agents, pendingFinal, trace, crashes>>

\* A step that touches none of the three files is calm.
LEMMA SameIsCalm ==
  ASSUME UNCHANGED <<step, execs, trace>> PROVE Calm
  BY DEF Calm, SameExecs

\* Closing a run is calm.
LEMMA TerminateIsCalm ==
  ASSUME TypeOK, NEW st, NEW a, Terminate(st, a) PROVE Calm
<1>1. execs' = [i \in DOMAIN execs |->
                  IF i = a THEN [execs[i] EXCEPT !.status = "FAILED"] ELSE execs[i]]
  BY DEF Terminate
<1>2. SameExecs
  BY <1>1, FailExecs DEF SameExecs
<1> QED BY <1>2 DEF Terminate, Calm

\* So is committing a result.
LEMMA CommitIsCalm ==
  ASSUME TypeOK, NEW i \in DOMAIN execs, NEW r, Commit(i, r) PROVE Calm
<1> DEFINE closed == IF r.status = "FAILED" THEN "FAILED" ELSE "COMPLETED"
<1>1. execs' = [execs EXCEPT ![i].status = closed] /\ UNCHANGED <<step, trace>>
  BY DEF Commit
<1>2. execs' \in [1..Len(execs) -> Executions]
  BY <1>1, ExecsShape DEF Executions
<1>3. Len(execs') = Len(execs) /\ DOMAIN execs' = DOMAIN execs
  BY <1>2, ExecsShape, SeqDef
<1>4. \A j \in DOMAIN execs : execs'[j].tool = execs[j].tool /\ execs'[j].step = execs[j].step
  BY <1>1, ExecsShape DEF Executions
<1> QED BY <1>1, <1>3, <1>4 DEF Calm, SameExecs

\* The PREPARED save adds its execution, and its refusals add nothing.
LEMMA PrepareEffect ==
  ASSUME TypeOK, NEW tool \in Tools, NEW adaptive, Prepare(tool, adaptive),
         \/ pc = "prepare_mandatory" /\ tool \notin Adaptive
         \/ pc = "prepare_adaptive" /\ tool \in Adaptive /\ Proposed /\ Reviewed
  PROVE  Calm \/ Prepares
<1>1. CASE \E st : Terminate(st, 0)
  BY <1>1, TerminateIsCalm
<1>2. CASE Step("raised")
  BY <1>2, SameIsCalm DEF Step, budget
<1>3. CASE /\ status' = "RUNNING_TOOL" /\ pc' = "running"
           /\ execs' = Append(execs, [tool |-> tool, step |-> step, status |-> "PREPARED"])
           /\ UNCHANGED <<science, step, agents, pendingFinal, trace, crashes>>
  BY <1>3 DEF Prepares
<1> QED BY <1>1, <1>2, <1>3 DEF Prepare

\* CommitResult commits the open execution.
LEMMA LastCommitted ==
  ASSUME IInv, CommitResult PROVE LastOf(Prepared) \in Prepared
<1>1. pc \in Ledgered
  BY DEF CommitResult, Goto, Ledgered
<1> QED BY <1>1, LastPrepared DEF PhaseInv, Ledgered, IInv, StateInv

\* The adaptive node runs an adaptive tool, on a review.
LEMMA SelectedIsTool ==
  ASSUME IInv, pc = "prepare_adaptive"
  PROVE  Proposed /\ Reviewed /\ Selected \in Tools /\ Selected \in Adaptive
<1>1. Proposed /\ Reviewed /\ Selected # Stop
  BY DEF IInv, PhaseInv, Deciding
<1>2. step \in Steps /\ proposal[step] \in Requests /\ review[step] \in Reviews
  BY <1>1 DEF IInv, StateInv, Proposed, Reviewed, TypeOK
<1>3. review[step].verdict = "REVISE" => review[step].revised # None
  BY <1>1, <1>2 DEF Reviewed, IInv, StateInv, DecisionsOK
<1>4. Selected \in Requests
  BY <1>2, <1>3 DEF Selected, Reviews
<1> QED BY <1>1, <1>4 DEF Requests, Tools

\* Every step is one of the four.
LEMMA Effects ==
  ASSUME IInv, [Next]_vars
  PROVE  Calm \/ Opens \/ Emits \/ Prepares
<1> USE DEF IInv, StateInv
<1>1. CASE UNCHANGED <<step, execs, trace>>
  BY <1>1, SameIsCalm
<1>2. ASSUME NEW st, NEW a, Terminate(st, a) PROVE Calm
  BY <1>2, TerminateIsCalm
<1>3. ASSUME NEW i \in Prepared, NEW r, Commit(i, r) PROVE Calm
  BY <1>3, CommitIsCalm DEF Prepared, ActionsIn
<1>4. CASE PrepareMandatory
  <2>1. PICK t \in Baseline : First(t) /\ Prepare(t, FALSE)
    BY <1>4 DEF PrepareMandatory
  <2>2. t \in Tools /\ t \notin Adaptive
    BY ToolsAssumption DEF Tools
  <2> HIDE DEF IInv
  <2> QED BY <1>4, <2>1, <2>2, PrepareEffect DEF PrepareMandatory, IInv
<1>5. CASE PrepareAdaptive
  BY <1>5, SelectedIsTool, PrepareEffect DEF PrepareAdaptive
<1>6. CASE Cycle /\ ~EmitRecovery /\ ~EmitBudget
  <2>1. \/ UNCHANGED <<step, execs, trace>>
        \/ \E st, a : Terminate(st, a)
        \/ RecoverFromLedger
        \/ Opens
    BY <1>6 DEF Cycle, StartAdvance, NothingToRecover, Reexecute, RouteDurable,
                RouteProposal, BeginCycle, FreshRoute, RunMandatory, EvaluateResult,
                Finalize, TerminateCycle, ExceptionFails, FailRun, Step, SaveStatus, Finalizing,
                budget, Opens
  <2> QED BY <1>1, <1>2, <1>3, <2>1 DEF RecoverFromLedger
<1>7. CASE Agent
  <2>1. UNCHANGED <<step, execs, trace>> \/ \E st, a : Terminate(st, a)
    BY <1>7 DEF Agent, SkepticDecides, SkepticRecorded, SkepticWaits, CriticRecorded,
                CriticDecides, RecordDecision, InferenceAborts, ResolveCritic, SaveStatus, budget
  <2> QED BY <1>1, <1>2, <2>1
<1>8. CASE CommitResult
  BY <1>3, <1>8, LastCommitted DEF CommitResult
<1>9. CASE (\E o \in Outcomes : HandlerReturns(o)) \/ HandlerFails
  <2>1. UNCHANGED <<step, execs, trace>> \/ \E st, a : Terminate(st, a)
    BY <1>9 DEF HandlerReturns, HandlerFails, budget
  <2> QED BY <1>1, <1>2, <2>1
<1>10. CASE EmitRecovery \/ EmitBudget \/ EmitEvidence
  BY <1>10 DEF EmitRecovery, EmitBudget, EmitEvidence, Goto, Emits
<1>11. CASE Environment \/ UNCHANGED vars
  <2>1. UNCHANGED <<step, execs, trace>> \/ \E st, a : Terminate(st, a)
    BY <1>11 DEF Environment, DeadlineFails, FailRun, LockResult, RevealCatalog, Crash, Resume,
                 Step, vars, budget
  <2> QED BY <1>1, <1>2, <2>1
<1> QED BY <1>4, <1>5, <1>6, <1>7, <1>8, <1>9, <1>10, <1>11 DEF Next, Driver, Tool

\* Executions and events carry the step in which they were made.
LEMMA PlacedStep ==
  ASSUME IInv, Placed, Calm \/ Opens \/ Emits \/ Prepares
  PROVE  Placed'
<1> USE DEF IInv, StateInv, Placed
<1>0. /\ step \in Nat /\ \A i \in DOMAIN execs : execs[i].step \in Nat
      /\ \A n \in DOMAIN trace : trace[n].step \in Nat
  <2>1. \A n \in DOMAIN trace : trace[n] \in Events
    BY DEF TypeOK
  <2> QED BY <2>1, ExecsShape DEF TypeOK, Events, Steps, Executions
<1>1. CASE Calm
  BY <1>1 DEF Calm, SameExecs
<1>2. CASE Opens
  BY <1>0, <1>2 DEF Opens
<1>3. CASE Emits
  <2>1. PICK type \in {"budget.updated", "evidence.appended", "recovery.completed"} : Emit(type)
    BY <1>3 DEF Emits
  <2> DEFINE new == [type |-> type, step |-> step]
  <2>2. \A n \in DOMAIN trace' : trace'[n] = new \/ (n \in DOMAIN trace /\ trace'[n] = trace[n])
    BY <2>1 DEF Emit, TypeOK
  <2>3. UNCHANGED <<step, execs>>
    BY <1>3 DEF Emits, budget
  <2> QED BY <1>0, <2>2, <2>3
<1>4. CASE Prepares
  <2>1. PICK tool \in Tools :
          execs' = Append(execs, [tool |-> tool, step |-> step, status |-> "PREPARED"])
    BY <1>4 DEF Prepares
  <2> DEFINE new == [tool |-> tool, step |-> step, status |-> "PREPARED"]
  <2>2. \A n \in DOMAIN execs' : execs'[n] = new \/ (n \in DOMAIN execs /\ execs'[n] = execs[n])
    BY <2>1, ExecsShape
  <2>3. UNCHANGED <<step, trace>>
    BY <1>4 DEF Prepares
  <2> QED BY <1>0, <2>2, <2>3
<1> QED BY <1>1, <1>2, <1>3, <1>4

\* What routing reads of the trace stays.
LEMMA TraceOfCalm ==
  ASSUME UNCHANGED <<step, trace>>, NEW types PROVE TraceOf(types)' = TraceOf(types)
  BY DEF TraceOf

\* Where a calm step puts the driver to work, or adds a proposal.
LEMMA CalmOpened ==
  ASSUME IInv, [Next]_vars, Opened, Calm
  PROVE  /\ pc' \in Working => Budgeted
         /\ Proposed' => Budgeted
<1> USE DEF IInv, StateInv, Working, Opened
<1>1. ~Emits
  <2>1. SUFFICES ASSUME NEW type, Emit(type), trace' = trace PROVE FALSE
    BY DEF Emits, Calm
  <2>2. trace \in Seq(Events)
    BY DEF TypeOK
  <2>3. Len(trace') = Len(trace) + 1 /\ Len(trace) \in Nat
    BY <2>1, <2>2 DEF Emit
  <2> QED BY <2>1, <2>3
<1>2. pc' \in Working => \/ pc \in Working \/ FreshRoute
  BY <1>1 DEF Next, Driver, Cycle, Agent, Tool, Environment, StartAdvance, NothingToRecover,
       RecoverFromLedger, Reexecute, EmitRecovery, RouteDurable, RouteProposal, BeginCycle,
       EmitBudget, RunMandatory, EvaluateResult, Finalize, TerminateCycle,
       ExceptionFails, FailRun, Step, SaveStatus, Terminate, Finalizing, SkepticDecides,
       SkepticRecorded, SkepticWaits, CriticRecorded, CriticDecides, RecordDecision,
       InferenceAborts, ResolveCritic, PrepareMandatory, PrepareAdaptive, Prepare,
       HandlerReturns, HandlerFails, CommitResult, EmitEvidence, DeadlineFails, LockResult,
       RevealCatalog, Crash, Resume, vars, Goto, Emits, budget, science
<1>3. FreshRoute => Budgeted
  <2>1. FreshRoute => pc = "fresh" \/ (~RequiresBegin /\ ~PendingEvaluation
             /\ status \notin {"FINALIZING", "WAITING_FOR_CRITIC", "RUNNING_TOOL"})
    BY DEF FreshRoute
  <2>2. ~Budgeted => LastOf(TraceOf({"budget.updated"})) = 0
    BY DEF Budgeted, LastOf
  <2> QED BY <2>1, <2>2 DEF RequiresBegin
<1>4. Proposed' => Proposed \/ pc \in Working
  <2>1. CASE \E r \in Requests : SkepticDecides(r)
    BY <2>1 DEF SkepticDecides, Goto
  <2>2. CASE UNCHANGED <<proposal, step>>
    BY <2>2 DEF Proposed
  <2>3. (\E r \in Requests : SkepticDecides(r)) \/ UNCHANGED proposal
    BY DEF Next, Driver, Cycle, Agent, Tool, Environment, StartAdvance, NothingToRecover,
       RecoverFromLedger, Reexecute, EmitRecovery, RouteDurable, RouteProposal, BeginCycle,
       EmitBudget, FreshRoute, RunMandatory, EvaluateResult, Finalize, TerminateCycle,
       ExceptionFails, FailRun, Step, SaveStatus, Terminate, Finalizing, Commit,
       SkepticRecorded, SkepticWaits, CriticRecorded, CriticDecides, RecordDecision,
       InferenceAborts, ResolveCritic, PrepareMandatory, PrepareAdaptive, Prepare,
       HandlerReturns, HandlerFails, CommitResult, EmitEvidence, DeadlineFails, LockResult,
       RevealCatalog, Crash, Resume, vars, agents
  <2> QED BY <2>1, <2>2, <2>3 DEF Calm
<1> QED BY <1>2, <1>3, <1>4

\* Work on a step follows its budget.updated.
LEMMA OpenedStep ==
  ASSUME IInv, [Next]_vars, Placed, Opened, Calm \/ Opens \/ Emits \/ Prepares
  PROVE  Opened'
<1> USE DEF IInv, StateInv
<1>1. CASE Calm
  <2>1. Budgeted' = Budgeted
    BY <1>1, TraceOfCalm DEF Calm, Budgeted
  <2>2. LastIsNow' => LastIsNow
    BY <1>1, ExecsShape DEF Calm, SameExecs, LastIsNow
  <2> QED BY <1>1, <2>1, <2>2, CalmOpened DEF Opened
<1>2. CASE Opens
  <2>1. ~LastIsNow'
    <3>1. \A i \in DOMAIN execs : execs[i].step < step + 1
      BY ExecsShape DEF Placed, TypeOK, Executions, Steps
    <3>2. execs # <<>> => Len(execs) \in DOMAIN execs
      BY ExecsShape
    <3>3. \A i \in DOMAIN execs : execs[i].step # step + 1
      BY <3>1, ExecsShape DEF Executions, Steps, TypeOK
    <3> QED BY <1>2, <3>2, <3>3 DEF Opens, LastIsNow
  <2>2. ~Proposed'
    BY <1>2 DEF Opens, Proposed, DecisionsOK, agents, Steps, TypeOK
  <2> QED BY <1>2, <2>1, <2>2 DEF Opens, Opened, Working
<1>3. CASE Emits
  <2>1. PICK type \in {"budget.updated", "evidence.appended", "recovery.completed"} :
          /\ Emit(type)
          /\ <<pc, type, pc'>> \in {<<"begun", "budget.updated", "fresh">>,
                <<"committed", "evidence.appended", "evaluate">>,
                <<"recommitted", "evidence.appended", "recovered">>,
                <<"recovered", "recovery.completed", "recover">>}
    BY <1>3 DEF Emits
  <2> DEFINE new == [type |-> type, step |-> step]
             last == Len(trace) + 1
  <2>2. /\ last \in DOMAIN trace' /\ trace'[last] = new
        /\ \A n \in DOMAIN trace : n \in DOMAIN trace' /\ trace'[n] = trace[n]
    BY <2>1 DEF Emit, TypeOK
  <2>3. UNCHANGED <<step, execs, proposal>>
    BY <1>3 DEF Emits, budget, agents
  <2>4. Budgeted => Budgeted'
    BY <2>2, <2>3 DEF Budgeted, TraceOf
  <2>5. type = "budget.updated" => Budgeted'
    BY <2>2, <2>3 DEF Budgeted, TraceOf
  <2>6. pc' \in Working => type = "budget.updated"
    BY <2>1 DEF Working
  <2> QED BY <2>3, <2>4, <2>5, <2>6 DEF Opened, LastIsNow, Proposed
<1>4. CASE Prepares
  <2>1. Budgeted
    BY <1>4 DEF Prepares, Opened, Working
  <2>2. Budgeted' = Budgeted
    BY <1>4, TraceOfCalm DEF Prepares, Budgeted
  <2> QED BY <2>1, <2>2 DEF Opened
<1> QED BY <1>1, <1>2, <1>3, <1>4

\* A commit closes the last execution, whose record is durable.
LEMMA CommitsTheLast ==
  ASSUME IInv, RecoverFromLedger \/ CommitResult
  PROVE  /\ Prepared # {} /\ RecordOf(Len(execs)) # {} /\ Calm
         /\ status' = "UPDATING_EVIDENCE" /\ ledger' = ledger
         /\ pc \in {"recover", "ledgered", "reledgered"}
         /\ pc' \in {"recovered", "committed", "recommitted"}
<1> USE DEF IInv, StateInv
<1>1. CASE RecoverFromLedger
  <2>1. PICK i \in Prepared : \E n \in RecordOf(i) : Commit(i, ledger[n])
    BY <1>1 DEF RecoverFromLedger
  <2>2. i = Len(execs) /\ i \in DOMAIN execs
    BY <2>1, LastPrepared DEF Prepared, ActionsIn
  <2>3. Calm
    BY <2>1, <2>2, CommitIsCalm
  <2> QED BY <1>1, <2>1, <2>2, <2>3 DEF RecoverFromLedger, Commit
<1>2. CASE CommitResult
  <2>1. pc \in Ledgered /\ LastOf(Prepared) \in Prepared
    BY <1>2, LastCommitted DEF CommitResult, Goto, Ledgered
  <2>2. LastOf(Prepared) \in DOMAIN execs
    BY <2>1 DEF Prepared, ActionsIn
  <2>3. Calm
    BY <1>2, <2>2, CommitIsCalm DEF CommitResult
  <2>4. Len(ledger) \in DOMAIN ledger
    BY <2>1 DEF PhaseInv, TypeOK
  <2>5. RecordOf(Len(execs)) # {}
    BY <2>1, <2>4 DEF PhaseInv, RecordOf
  <2> QED BY <1>2, <2>1, <2>3, <2>5 DEF CommitResult, Commit, Goto, Ledgered
<1> QED BY <1>1, <1>2

\* A status that speaks of a measurement speaks of the last one.
LEMMA MeasuredStep ==
  ASSUME IInv, [Next]_vars, Placed, Opened, Measured
  PROVE  Measured'
<1> USE DEF IInv, StateInv
<1>1. CASE Calm /\ ledger' = ledger /\ UNCHANGED status
  <2>1. LastIsNow => LastIsNow'
    BY <1>1, ExecsShape DEF Calm, SameExecs, LastIsNow
  <2>2. RecordOf(Len(execs))' = RecordOf(Len(execs))
    BY <1>1 DEF Calm, SameExecs, RecordOf
  <2>3. pc' \in {"recovered", "committed", "recommitted", "evaluate"} =>
          status = "UPDATING_EVIDENCE"
    <3>1. ~Emits /\ ~CommitResult /\ ~RecoverFromLedger => pc' = pc \/ PendingEvaluation
             \/ pc' \notin {"recovered", "committed", "recommitted", "evaluate"}
      BY DEF Next, Driver, Cycle, Agent, Tool, Environment, StartAdvance, NothingToRecover,
       Reexecute, EmitRecovery, RouteDurable, RouteProposal, BeginCycle,
       EmitBudget, FreshRoute, RunMandatory, EvaluateResult, Finalize, TerminateCycle,
       ExceptionFails, FailRun, Step, SaveStatus, Terminate, Finalizing, SkepticDecides,
       SkepticRecorded, SkepticWaits, CriticRecorded, CriticDecides, RecordDecision,
       InferenceAborts, ResolveCritic, PrepareMandatory, PrepareAdaptive, Prepare,
       HandlerReturns, HandlerFails, EmitEvidence, DeadlineFails, LockResult,
       RevealCatalog, Crash, Resume, vars, Goto, Emits, budget, science
    <3>2. Emits => pc \in {"begun", "committed", "recommitted", "recovered"}
                   /\ (pc' = "evaluate" => pc = "committed")
                   /\ (pc' = "recovered" => pc = "recommitted")
                   /\ pc' \in {"fresh", "evaluate", "recovered", "recover"}
      BY DEF Emits
    <3>3. CommitResult \/ RecoverFromLedger => status' = "UPDATING_EVIDENCE"
      BY CommitsTheLast
    <3> QED BY <1>1, <3>1, <3>2, <3>3 DEF Measured, PendingEvaluation
  <2> QED BY <1>1, <2>1, <2>2, <2>3 DEF Measured
<1>2. CASE RecoverFromLedger \/ CommitResult
  <2>1. status = "RUNNING_TOOL"
    BY <1>2, CommitsTheLast DEF RunningMeansPrepared
  <2>2. LastIsNow'
    BY <1>2, <2>1, CommitsTheLast, ExecsShape DEF Measured, LastIsNow, Calm, SameExecs
  <2>3. RecordOf(Len(execs))' = RecordOf(Len(execs))
    BY <1>2, CommitsTheLast DEF RecordOf, Calm, SameExecs
  <2> QED BY <1>2, <2>2, <2>3, CommitsTheLast DEF Measured
<1>3. CASE \E o \in Outcomes : HandlerReturns(o)
  <2>1. pc' \in Ledgered /\ pc \in Running /\ UNCHANGED <<status, execs, step>>
    BY <1>3 DEF HandlerReturns, Goto, Ledgered, Running, budget
  <2>2. status = "RUNNING_TOOL"
    BY <2>1 DEF PhaseInv, RunningMeansPrepared
  <2> QED BY <2>1, <2>2 DEF Measured, LastIsNow, Ledgered
<1>4. CASE status' \notin {"RUNNING_TOOL", "UPDATING_EVIDENCE"}
           /\ pc' \notin {"recovered", "committed", "recommitted", "evaluate"}
  BY <1>4 DEF Measured
<1>5. CASE Opens
  <2>1. status \notin {"RUNNING_TOOL", "UPDATING_EVIDENCE"}
    <3>1. status # "RUNNING_TOOL" /\ ~PendingEvaluation
      BY <1>5 DEF Opens, RequiresBegin
    <3>2. Budgeted => TraceOf({"budget.updated", "recovery.completed"}) # {}
      BY DEF Budgeted, TraceOf
    <3> QED BY <3>1, <3>2 DEF Measured, Opened, PendingEvaluation
  <2> QED BY <1>5, <2>1 DEF Opens, Measured
<1>6. CASE Emits
  <2>1. UNCHANGED <<status, execs, ledger, step>>
    BY <1>6 DEF Emits, science, budget
  <2>2. LastIsNow' = LastIsNow /\ RecordOf(Len(execs))' = RecordOf(Len(execs))
    BY <2>1 DEF LastIsNow, RecordOf
  <2>3. pc' \in {"recovered", "committed", "recommitted", "evaluate"} =>
          pc \in {"committed", "recommitted"}
    BY <1>6 DEF Emits
  <2> QED BY <2>1, <2>2, <2>3 DEF Measured
<1>7. CASE Prepares
  <2>1. PICK tool \in Tools :
          execs' = Append(execs, [tool |-> tool, step |-> step, status |-> "PREPARED"])
    BY <1>7 DEF Prepares
  <2> DEFINE new == [tool |-> tool, step |-> step, status |-> "PREPARED"]
  <2>2. Len(execs') = Len(execs) + 1 /\ execs'[Len(execs) + 1] = new /\ execs' # <<>>
    BY <2>1, ExecsShape
  <2>3. step' = step /\ status' = "RUNNING_TOOL" /\ pc' = "running"
    BY <1>7 DEF Prepares
  <2> QED BY <2>2, <2>3 DEF Measured, LastIsNow
<1>8. \/ ledger' = ledger /\ UNCHANGED status
      \/ RecoverFromLedger \/ CommitResult \/ (\E o \in Outcomes : HandlerReturns(o))
      \/ Prepares
      \/ /\ status' \notin {"RUNNING_TOOL", "UPDATING_EVIDENCE"}
         /\ pc' \notin {"recovered", "committed", "recommitted", "evaluate"}
  <2>1. CASE Cycle
    BY <2>1 DEF Cycle, StartAdvance, NothingToRecover,
       Reexecute, EmitRecovery, RouteDurable, RouteProposal, BeginCycle,
       EmitBudget, FreshRoute, RunMandatory, EvaluateResult, Finalize, TerminateCycle,
       ExceptionFails, FailRun, Step, SaveStatus, Terminate, Finalizing, science, Failures
  <2>2. CASE Agent
    BY <2>2 DEF Agent, SkepticDecides,
       SkepticRecorded, SkepticWaits, CriticRecorded, CriticDecides, RecordDecision,
       InferenceAborts, ResolveCritic, SaveStatus, Terminate, science, Failures
  <2>3. CASE Tool
    <3>1. CASE PrepareMandatory \/ PrepareAdaptive
      <4>1. ASSUME NEW tool \in Tools, NEW adaptive, Prepare(tool, adaptive),
                   \/ pc = "prepare_mandatory" /\ tool \notin Adaptive
                   \/ pc = "prepare_adaptive" /\ tool \in Adaptive /\ Proposed /\ Reviewed
            PROVE  \/ Prepares
                   \/ ledger' = ledger /\ UNCHANGED status
                   \/ /\ status' \notin {"RUNNING_TOOL", "UPDATING_EVIDENCE"}
                      /\ pc' \notin {"recovered", "committed", "recommitted", "evaluate"}
        BY <4>1 DEF Prepare, Prepares, Refusal, Terminate, Step, science
      <4>2. CASE PrepareMandatory
        <5>1. PICK t \in Baseline : First(t) /\ Prepare(t, FALSE)
          BY <4>2 DEF PrepareMandatory
        <5>2. t \in Tools /\ t \notin Adaptive /\ pc = "prepare_mandatory"
          BY <4>2, ToolsAssumption DEF Tools, PrepareMandatory
        <5> HIDE DEF IInv
        <5> QED BY <4>1, <5>1, <5>2
      <4>3. CASE PrepareAdaptive
        BY <4>1, <4>3, SelectedIsTool DEF PrepareAdaptive
      <4> QED BY <3>1, <4>2, <4>3
    <3>2. CASE HandlerFails \/ EmitEvidence
      BY <3>2 DEF HandlerFails, EmitEvidence, Terminate, science
    <3> QED BY <2>3, <3>1, <3>2 DEF Tool
  <2>4. CASE Environment \/ UNCHANGED vars
    <3>1. CASE LockResult \/ RevealCatalog
      BY <3>1 DEF LockResult, RevealCatalog, Measured
    <3>2. CASE DeadlineFails \/ Crash \/ Resume \/ UNCHANGED vars
      BY <3>2 DEF DeadlineFails, FailRun, Crash, Resume, Terminate, Step, vars, science
    <3> QED BY <2>4, <3>1, <3>2 DEF Environment
  <2> QED BY <2>1, <2>2, <2>3, <2>4 DEF Next, Driver
<1>9. Calm \/ Opens \/ Emits \/ Prepares
  BY Effects
<1> QED BY <1>1, <1>2, <1>3, <1>4, <1>5, <1>6, <1>7, <1>8, <1>9

\* LastOf is the greatest element of a set that has one.
LEMMA LastIs ==
  ASSUME NEW S, NEW k \in Int, k \in S, \A i \in S : i \in Int /\ i <= k
  PROVE  LastOf(S) = k
<1>1. LastOf(S) = CHOOSE i \in S : \A j \in S : j <= i
  BY DEF LastOf
<1>2. \A i \in S : (\A j \in S : j <= i) <=> i = k
  OBVIOUS
<1> QED BY <1>1, <1>2

\* The evidence that is evaluated is the one record of the last execution.
LEMMA EvaluatedRecord ==
  ASSUME IInv, Measured, pc = "evaluate"
  PROVE  /\ Evaluated = Len(execs) /\ Len(execs) \in DOMAIN execs
         /\ LastOf(RecordOf(Evaluated)) \in DOMAIN ledger
         /\ RecordOf(Len(execs)) = {LastOf(RecordOf(Evaluated))}
         /\ ledger[LastOf(RecordOf(Evaluated))].action = Len(execs)
<1> USE DEF IInv, StateInv
<1>1. Evaluated = Len(execs) /\ Len(execs) \in DOMAIN execs /\ RecordOf(Len(execs)) # {}
  <2>1. LastIsNow /\ RecordOf(Len(execs)) # {}
    BY DEF Measured
  <2>2. /\ Len(execs) \in DOMAIN execs /\ Len(execs) \in Int
        /\ \A i \in DOMAIN execs : i <= Len(execs) /\ i \in Int
    BY <2>1, ExecsShape DEF LastIsNow
  <2> DEFINE S == {i \in DOMAIN execs : execs[i].step = step /\ RecordOf(i) # {}}
  <2>3. Len(execs) \in S /\ \A i \in S : i <= Len(execs) /\ i \in Int
    BY <2>1, <2>2 DEF LastIsNow
  <2>4. LastOf(S) = Len(execs)
    <3> HIDE DEF S
    <3> QED BY <2>2, <2>3, LastIs
  <2> QED BY <2>1, <2>2, <2>4 DEF Evaluated
<1>2. PICK n \in RecordOf(Len(execs)) : TRUE
  BY <1>1
<1>3. RecordOf(Len(execs)) = {n} /\ n \in DOMAIN ledger /\ n \in Int /\ n <= n
      /\ ledger[n].action = Len(execs)
  BY <1>2 DEF RecordOf, LedgerMatchesExecutions, TypeOK
<1>4. LastOf(RecordOf(Len(execs))) = n
  BY <1>3, LastIs
<1> QED BY <1>1, <1>3, <1>4

\* If its tool is adaptive, the baseline is complete.
LEMMA MeasuredTool ==
  ASSUME IInv, Measured, pc = "evaluate",
         ledger[LastOf(RecordOf(Evaluated))].tool \in Adaptive
  PROVE  Missing = {}
<1> USE DEF IInv, StateInv
<1>1. execs[Len(execs)].tool \in Adaptive
  BY EvaluatedRecord DEF LedgerMatchesExecutions
<1> QED BY <1>1, EvaluatedRecord DEF BaselineFirst, Missing

\* The reason with which a node goes to finalize is one the node will find.
LEMMA SettledStep ==
  ASSUME IInv, [Next]_vars, Placed, Opened, Measured, Settled
  PROVE  Settled'
<1> USE DEF IInv, StateInv
<1>0. done' \subseteq Baseline /\ done \subseteq Baseline
  <2>1. IInv'
    BY CycleKeepsInv, AgentKeepsInv, ToolKeepsInv, EnvironmentKeepsInv, StutterInv
       DEF Next, Driver
  <2> QED BY <2>1 DEF TypeOK
<1>1. CASE UNCHANGED <<status, done, pendingFinal>> /\ pc' # "finalize"
  BY <1>1 DEF Settled, FinalizeHasReason, Missing
<1>2. CASE status' # "FINALIZING" /\ pc' # "finalize"
  BY <1>2 DEF Settled, FinalizeHasReason
<1>3. CASE pc = "finalize" /\ UNCHANGED vars
  BY <1>3 DEF Settled, FinalizeHasReason, FinalReason, vars, Missing, science, budget, agents,
       Vetoed, StopRequested, AdaptiveBudgetSpent, Available, Reviewed, Proposed, Accepted,
       Prepared, ActionsIn
<1>4. ASSUME Step("finalize"), Missing = {},
             status = "FINALIZING" \/ Vetoed \/ StopRequested \/ AdaptiveBudgetSpent
                \/ Available = {}
      PROVE  Settled'
  <2>1. FinalReason
    BY <1>4 DEF FinalReason, Settled
  <2>2. UNCHANGED <<status, science, budget, agents, pendingFinal>> /\ pc' = "finalize"
    BY <1>4 DEF Step
  <2>3. FinalReason' = FinalReason
    BY <2>2 DEF FinalReason, science, budget, agents,
       Vetoed, StopRequested, AdaptiveBudgetSpent, Available, Reviewed, Proposed, Accepted,
       Prepared, ActionsIn
  <2>4. Missing' = {}
    BY <1>4, <2>2 DEF Missing, science
  <2> QED BY <2>1, <2>2, <2>3, <2>4 DEF Settled, FinalizeHasReason
<1>5. ASSUME Proposed PROVE Missing = {}
  BY <1>5 DEF Proposed, DecisionsOK, Missing
<1>6. ASSUME Reviewed, Selected = Stop PROVE StopRequested
  BY <1>6 DEF Reviewed, Selected, StopRequested
<1>7. CASE RouteDurable
  <2>1. CASE status = "FINALIZING" /\ Step("finalize")
    BY <1>4, <2>1 DEF Settled
  <2>2. CASE Step("evaluate")
    BY <1>1, <2>2 DEF Step, science
  <2> QED BY <1>7, <2>1, <2>2 DEF RouteDurable
<1>8. CASE RouteProposal
  <2>1. Proposed
    BY <1>8 DEF RouteProposal
  <2>2. CASE Step("critic") \/ Step("critic_route") \/ Step("prepare_adaptive")
    BY <1>1, <2>2 DEF Step, science
  <2>3. CASE Step("finalize") /\ Reviewed /\ (Vetoed \/ Selected = Stop)
    BY <1>4, <1>5, <1>6, <2>1, <2>3
  <2> QED BY <1>8, <2>2, <2>3 DEF RouteProposal
<1>9. CASE FreshRoute
  <2>1. CASE Step("mandatory") \/ Step("terminate")
    BY <1>1, <2>1 DEF Step, science
  <2>2. CASE Missing = {} /\ (AdaptiveBudgetSpent \/ Available = {}) /\ Step("finalize")
    BY <1>4, <2>2
  <2>3. CASE SaveStatus("SELECTING_ADAPTIVE_EXPERIMENT", "skeptic")
    BY <1>1, <1>2, <2>3 DEF SaveStatus, science
  <2> QED BY <1>9, <2>1, <2>2, <2>3 DEF FreshRoute
<1>10. CASE ResolveCritic
  <2>1. CASE Terminate("BUDGET_EXHAUSTED", 0)
    BY <1>2, <2>1 DEF Terminate
  <2>2. CASE /\ pc' = IF Vetoed \/ Selected = Stop THEN "finalize" ELSE "prepare_adaptive"
             /\ UNCHANGED <<status, science, budget, proposal, review, recorded, pendingFinal>>
    <3>1. CASE pc' # "finalize"
      BY <1>1, <2>2, <3>1 DEF science
    <3>2. CASE pc' = "finalize"
      <4>1. Reviewed /\ Proposed /\ (Vetoed \/ Selected = Stop)
        BY <1>10, <2>2, <3>2 DEF ResolveCritic, PhaseInv, Deciding
      <4>2. FinalReason
        BY <1>6, <4>1 DEF FinalReason, Settled
      <4>3. FinalReason' = FinalReason
        BY <2>2 DEF FinalReason, science, budget,
           Vetoed, StopRequested, AdaptiveBudgetSpent, Available, Reviewed, Proposed, Accepted,
           Prepared, ActionsIn
      <4>4. Missing' = {}
        BY <1>5, <2>2, <4>1 DEF Missing, science
      <4> QED BY <2>2, <4>2, <4>3, <4>4 DEF Settled, FinalizeHasReason
    <3> QED BY <3>1, <3>2
  <2> QED BY <1>10, <2>1, <2>2 DEF ResolveCritic
<1>11. CASE EvaluateResult
  <2>1. CASE \E st \in Failures : \E a : Terminate(st, a)
    BY <1>2, <2>1 DEF Terminate, Failures
  <2>2. CASE SaveStatus("SELECTING_ADAPTIVE_EXPERIMENT", "idle")
             \/ SaveStatus("VETTING_MANDATORY", "idle")
    BY <1>1, <1>2, <2>2 DEF SaveStatus, science
  <2>3. CASE Finalizing /\ Missing = {}
    <3>1. Missing' = {} /\ status' = "FINALIZING" /\ pendingFinal'
      BY <2>3 DEF Finalizing, Missing, science
    <3> QED BY <3>1 DEF Settled, FinalizeHasReason, FinalReason
  <2>4. CASE Finalizing /\ Missing # {}
    <3> DEFINE result == ledger[LastOf(RecordOf(Evaluated))]
    <3>1. pc = "evaluate" /\ result.status = "PRECONDITION_FAILED" /\ result.tool \in Adaptive
      <4>1. status' = "FINALIZING" /\ status # "FINALIZING"
        BY <1>11, <2>4 DEF Finalizing, EvaluateResult, Measured
      <4>2. \A st, a : Terminate(st, a) => status' = st
        BY DEF Terminate
      <4>3. \A st, there : SaveStatus(st, there) => status' \in {status, st}
        BY DEF SaveStatus
      <4> QED BY <1>11, <2>4, <4>1, <4>2, <4>3 DEF EvaluateResult
    <3> QED BY <2>4, <3>1, MeasuredTool
  <2> QED BY <1>11, <2>1, <2>2, <2>3, <2>4 DEF EvaluateResult, Failures
<1>12. CASE Cycle /\ ~RouteDurable /\ ~RouteProposal /\ ~FreshRoute /\ ~EvaluateResult
  <2>1. \/ UNCHANGED <<status, done, pendingFinal>> /\ pc' # "finalize"
        \/ status' # "FINALIZING" /\ pc' # "finalize"
    BY <1>12, CommitsTheLast
       DEF Cycle, StartAdvance, NothingToRecover, Reexecute, EmitRecovery, BeginCycle,
           EmitBudget, RunMandatory, Finalize, TerminateCycle, ExceptionFails, FailRun, Step,
           SaveStatus, Terminate, Goto, science, Failures
  <2> QED BY <1>1, <1>2, <2>1
<1>13. CASE Agent /\ ~ResolveCritic
  <2>1. \/ UNCHANGED <<status, done, pendingFinal>> /\ pc' # "finalize"
        \/ status' # "FINALIZING" /\ pc' # "finalize"
    BY <1>13 DEF Agent, SkepticDecides, SkepticRecorded, SkepticWaits, CriticRecorded,
       CriticDecides, RecordDecision, InferenceAborts, SaveStatus, Terminate, Goto, science,
       Failures
  <2> QED BY <1>1, <1>2, <2>1
<1>14. CASE Tool
  <2>1. ASSUME NEW tool, NEW adaptive, Prepare(tool, adaptive)
        PROVE  \/ UNCHANGED <<status, done, pendingFinal>> /\ pc' # "finalize"
               \/ status' # "FINALIZING" /\ pc' # "finalize"
    BY <2>1 DEF Prepare, Refusal, Terminate, Step, science
  <2>2. \/ UNCHANGED <<status, done, pendingFinal>> /\ pc' # "finalize"
        \/ status' # "FINALIZING" /\ pc' # "finalize"
    BY <1>14, <2>1, CommitsTheLast
       DEF Tool, PrepareMandatory, PrepareAdaptive, HandlerReturns, HandlerFails, EmitEvidence,
           Terminate, Goto, science
  <2> QED BY <1>1, <1>2, <2>2
<1>15. CASE Environment
  <2>1. CASE LockResult \/ RevealCatalog
    <3>1. pc # "finalize"
      BY <2>1 DEF PhaseInv, CannotAdvance, Closed, LockResult, RevealCatalog
    <3> QED BY <1>2, <2>1, <3>1 DEF LockResult, RevealCatalog
  <2>2. CASE DeadlineFails \/ Crash \/ Resume
    BY <1>1, <1>2, <2>2 DEF DeadlineFails, FailRun, Crash, Resume, Terminate, Step, science
  <2> QED BY <1>15, <2>1, <2>2 DEF Environment
<1>16. CASE UNCHANGED vars
  BY <1>1, <1>3, <1>16 DEF vars, science
<1> QED BY <1>7, <1>8, <1>9, <1>10, <1>11, <1>12, <1>13, <1>14, <1>15, <1>16
     DEF Next, Driver

-----------------------------------------------------------------------------
\* FitInv holds in every reachable state.
LEMMA FitInvariant == Spec => []FitInv
<1>1. Init => FitInv
  <2> SUFFICES ASSUME Init PROVE FitInv
    OBVIOUS
  <2>1. Placed /\ Opened
    BY DEF Init, Placed, Opened, LastIsNow, Proposed, Working
  <2>2. Measured /\ Settled
    BY DEF Init, Measured, Settled, FinalizeHasReason
  <2> QED BY <2>1, <2>2 DEF FitInv
<1>2. IInv /\ FitInv /\ [Next]_vars => FitInv'
  <2> SUFFICES ASSUME IInv, FitInv, [Next]_vars PROVE FitInv'
    OBVIOUS
  <2>1. CASE UNCHANGED vars
    BY <2>1
       DEF vars, science, budget, agents, FitInv, Placed, Opened, Measured, Settled,
           FinalizeHasReason, FinalReason, LastIsNow, Budgeted, TraceOf, RecordOf, Missing,
           Vetoed, StopRequested, AdaptiveBudgetSpent, Available, Reviewed, Proposed, Accepted,
           Prepared, ActionsIn
  <2> QED BY <2>1, Effects, PlacedStep, OpenedStep, MeasuredStep, SettledStep DEF FitInv
<1> QED BY <1>1, <1>2, Inductive, PTL DEF Spec

-----------------------------------------------------------------------------
(* Revisions.  state.json counts them one node later than the review that  *)
(* asks for one is saved, so the ceiling that CriticDecides tests is the   *)
(* right one only if no review can be asked for in between: the step of an *)
(* uncounted revision must not be left before the Critic's route is taken. *)

\* The current step's measurement, or its recovery, is in the trace.
Ended == LastOf(TraceOf({"evidence.appended", "recovery.completed"})) >
           LastOf(TraceOf({"budget.updated"}))

Busy == {"RUNNING_TOOL", "UPDATING_EVIDENCE", "FINALIZING"}
Awaiting == {"fresh", "skeptic", "skeptic_saved", "skeptic_recorded", "critic"}
Carrying == {"idle", "recover", "route", "critic_saved", "critic_route", "raised", "down"}

\* Decisions are asked for before the step's measurement, and the reviews that
\* revise are counted, but for one that is saved and not yet routed.
Counted ==
  /\ Revisions <= MaxRevisions
  /\ pc \in Awaiting \/ status = "WAITING_FOR_CRITIC" => ~Ended
  /\ pc = "critic" => status \notin Busy
  /\ revisions # Revisions =>
       /\ Revisions = revisions + 1 /\ Reviewed /\ review[step].verdict = "REVISE"
       /\ status \notin Busy /\ pc \in Carrying /\ ~Ended

\* A step that leaves the decisions and the trace alone.
LEMMA CountedMove ==
  ASSUME Counted, UNCHANGED <<step, trace, proposal, review, revisions>>,
         pc' \in Awaiting \/ status' = "WAITING_FOR_CRITIC" => ~Ended,
         pc' = "critic" => status' \notin Busy,
         revisions # Revisions => pc' \in Carrying /\ status' \notin Busy
  PROVE  Counted'
<1>1. Ended' = Ended /\ Revisions' = Revisions /\ Reviewed' = Reviewed
  BY DEF Ended, TraceOf, Revisions, Reviewed, Proposed
<1> QED BY <1>1 DEF Counted

\* A step that finds and leaves every revision counted.
LEMMA CountedEven ==
  ASSUME Revisions <= MaxRevisions, revisions = Revisions, UNCHANGED <<review, revisions>>,
         pc' \in Awaiting \/ status' = "WAITING_FOR_CRITIC" => ~Ended',
         pc' = "critic" => status' \notin Busy
  PROVE  Counted'
<1>1. Revisions' = Revisions
  BY DEF Revisions
<1> QED BY <1>1 DEF Counted

\* Closing the run: the count no longer matters.
LEMMA CountedTerminate ==
  ASSUME Counted, NEW st \in Failures, NEW a, Terminate(st, a)
  PROVE  Counted'
<1>1. /\ UNCHANGED <<step, trace, proposal, review, revisions>>
      /\ pc' = "idle" /\ status' \in Failures
  BY DEF Terminate, agents
<1> QED BY <1>1, CountedMove DEF Failures, Awaiting, Carrying, Busy

\* A step that is not begun anew and has a budget is not over.
LEMMA NotOver ==
  ASSUME IInv, pc = "route", ~RequiresBegin, ~PendingEvaluation, status # "FINALIZING",
         Counted
  PROVE  ~Ended
<1>1. status # "RUNNING_TOOL"
  BY DEF IInv, StateInv, PhaseInv, RunningMeansPrepared, AfterRecovery, PcValues, AwaitPoints,
         Running, Ledgered
<1> QED BY <1>1 DEF RequiresBegin, Ended, Counted

\* A set of numbers up to n that has an element has a last one.
LEMMA LastExists ==
  ASSUME NEW n \in Nat, NEW S, S \subseteq 1..n, S # {}
  PROVE  LastOf(S) \in S
<1> DEFINE HasLast(U) == \E k \in U : \A i \in U : i <= k
           Good == {m \in Nat : \A U \in SUBSET (1..m) : U # {} => HasLast(U)}
<1>1. 0 \in Good
  <2>1. 1..0 = {}
    OBVIOUS
  <2> QED BY <2>1
<1>2. ASSUME NEW m \in Good PROVE m + 1 \in Good
  <2> SUFFICES ASSUME NEW U \in SUBSET (1..(m + 1)), U # {} PROVE HasLast(U)
    OBVIOUS
  <2>1. CASE m + 1 \in U
    BY <2>1
  <2>2. CASE m + 1 \notin U
    <3>1. U \in SUBSET (1..m)
      BY <2>2
    <3> QED BY <3>1
  <2> QED BY <2>1, <2>2
<1>3. Good = Nat
  <2> HIDE DEF Good
  <2>1. Good \subseteq Nat
    BY DEF Good
  <2> QED BY <1>1, <1>2, <2>1, Numbers
<1>4. HasLast(S)
  BY <1>3
<1>5. PICK k \in S : \A i \in S : i <= k
  BY <1>4
<1>6. k \in Int /\ \A i \in S : i \in Int /\ i <= k
  BY <1>5
<1> QED BY <1>5, <1>6, LastIs

\* The step that is begun has no revision to be counted.
LEMMA BegunIsCounted ==
  ASSUME IInv, FitInv, Counted, RequiresBegin
  PROVE  revisions = Revisions
<1> SUFFICES ASSUME revisions # Revisions PROVE FALSE
  OBVIOUS
<1>1. Budgeted /\ ~Ended
  BY DEF Counted, FitInv, Opened, Reviewed
<1>2. LastOf(TraceOf({"budget.updated"})) # 0
  <2> DEFINE S == TraceOf({"budget.updated"})
  <2>1. S # {} /\ S \subseteq DOMAIN trace /\ trace \in Seq(Events)
    BY <1>1 DEF Budgeted, TraceOf, IInv, StateInv, TypeOK
  <2>2. S \subseteq 1..Len(trace) /\ Len(trace) \in Nat
    BY <2>1
  <2> HIDE DEF S
  <2>3. LastOf(S) \in S
    BY <2>1, <2>2, LastExists
  <2> QED BY <2>2, <2>3 DEF S
<1> QED BY <1>1, <1>2 DEF RequiresBegin, Ended

\* What is appended last is not overtaken.
LEMMA LastBelow ==
  ASSUME NEW n \in Nat, NEW S, S \subseteq 1..(n + 1), n + 1 \in S, NEW T, T \subseteq 1..n
  PROVE  LastOf(T) \in Nat /\ LastOf(S) \in Nat /\ LastOf(T) < LastOf(S)
<1>1. LastOf(S) = n + 1
  <2>1. n + 1 \in Int /\ \A i \in S : i \in Int /\ i <= n + 1
    OBVIOUS
  <2> QED BY <2>1, LastIs
<1>2. LastOf(T) \in Nat /\ LastOf(T) <= n
  <2>1. CASE T = {}
    BY <2>1 DEF LastOf
  <2>2. CASE T # {}
    <3>1. LastOf(T) \in T
      BY <2>2, LastExists
    <3>2. LastOf(T) \in 1..n
      BY <3>1
    <3> QED BY <3>2
  <2> QED BY <2>1, <2>2
<1> QED BY <1>1, <1>2

\* What is on record of the revisions is kept by every node.
LEMMA CountedCycle ==
  ASSUME IInv, FitInv, Counted, Cycle
  PROVE  Counted'
<1>1. ASSUME NEW st \in Failures, NEW a, Terminate(st, a) PROVE Counted'
  BY <1>1, CountedTerminate
<1>2. CASE StartAdvance \/ NothingToRecover \/ Reexecute
  <2>1. pc = "recover" /\ Prepared # {} => revisions = Revisions
    BY DEF IInv, StateInv, RunningMeansPrepared, Counted, Busy
  <2> QED BY <1>2, <2>1, CountedMove
       DEF StartAdvance, NothingToRecover, Reexecute, Step, budget, agents, Awaiting, Carrying,
           Counted
<1>3. CASE RecoverFromLedger
  <2>1. status = "RUNNING_TOOL" /\ Calm /\ status' = "UPDATING_EVIDENCE"
        /\ pc' \in {"recovered", "committed", "recommitted"}
    BY <1>3, CommitsTheLast DEF IInv, StateInv, RunningMeansPrepared
  <2>2. UNCHANGED <<review, revisions>>
    BY <1>3 DEF RecoverFromLedger, Commit, agents
  <2> QED BY <2>1, <2>2, CountedEven DEF Counted, Busy, Awaiting
<1>4. CASE EmitRecovery
  BY <1>4, CountedEven
     DEF EmitRecovery, Goto, agents, Counted, Awaiting, Carrying, FitInv, Measured
<1>5. CASE EmitBudget
  <2>1. ~Ended'
    <3> DEFINE In(types) == {n \in DOMAIN trace' : trace'[n].step = step' /\ trace'[n].type \in types}
               S == In({"budget.updated"})
               T == In({"evidence.appended", "recovery.completed"})
               n == Len(trace)
    <3>1. /\ trace' = Append(trace, [type |-> "budget.updated", step |-> step])
          /\ step' = step /\ trace \in Seq(Events)
      BY <1>5 DEF EmitBudget, Emit, budget, IInv, StateInv, TypeOK
    <3>2. n \in Nat /\ n + 1 \in S /\ S \subseteq 1..(n + 1) /\ T \subseteq 1..n
      BY <3>1
    <3>3. Ended' <=> LastOf(T) > LastOf(S)
      BY Zenon DEF Ended, TraceOf
    <3> HIDE DEF S, T, n
    <3>4. LastOf(T) \in Nat /\ LastOf(S) \in Nat /\ LastOf(T) < LastOf(S)
      BY <3>2, LastBelow
    <3>5. ~(LastOf(T) > LastOf(S))
      BY <3>4
    <3> QED BY <3>3, <3>5
  <2> QED BY <1>5, <2>1, CountedEven DEF EmitBudget, Goto, agents, Counted, Carrying
<1>6. CASE RouteDurable
  BY <1>6, CountedEven
     DEF RouteDurable, PendingEvaluation, Step, agents, Counted, Busy, Awaiting
<1>7. CASE RouteProposal
  <2>1. ~Ended
    BY <1>7, NotOver DEF RouteProposal
  <2>2. status \notin Busy
    <3>1. status # "RUNNING_TOOL"
      BY <1>7 DEF RouteProposal, IInv, StateInv, PhaseInv, RunningMeansPrepared, AfterRecovery,
                  PcValues, AwaitPoints, Running, Ledgered
    <3>2. Budgeted => TraceOf({"budget.updated", "recovery.completed"}) # {}
      BY DEF Budgeted, TraceOf
    <3> QED BY <1>7, <3>1, <3>2 DEF RouteProposal, PendingEvaluation, FitInv, Opened, Busy
  <2>3. /\ UNCHANGED <<status, step, trace, proposal, review, revisions>>
        /\ \/ pc' = "critic" /\ ~Reviewed
           \/ pc' = "critic_route"
           \/ /\ pc' \in {"finalize", "prepare_adaptive"}
              /\ ~(review[step].verdict = "REVISE" /\ revisions # Revisions)
    BY <1>7 DEF RouteProposal, Step, budget, agents
  <2>4. revisions # Revisions => pc' = "critic_route"
    BY <2>3 DEF Counted
  <2> QED BY <2>1, <2>2, <2>3, <2>4, CountedMove DEF Carrying
<1>8. CASE BeginCycle
  <2>1. CASE Terminate("BUDGET_EXHAUSTED", 0)
    BY <1>1, <2>1 DEF Failures
  <2>2. CASE pc' = "begun" /\ RequiresBegin /\ UNCHANGED <<status, agents>>
    BY <2>2, BegunIsCounted, CountedEven DEF RequiresBegin, agents, Counted, Awaiting
  <2> QED BY <1>8, <2>1, <2>2 DEF BeginCycle
<1>9. CASE FreshRoute
  <2>1. ~Ended
    BY <1>9, NotOver DEF FreshRoute, Counted, Awaiting
  <2>2. revisions = Revisions
    BY <1>9 DEF FreshRoute, Counted, Reviewed, Carrying
  <2>3. UNCHANGED <<step, trace, proposal, review, revisions>> /\ pc' # "critic"
    BY <1>9 DEF FreshRoute, Step, SaveStatus, budget, agents
  <2> QED BY <2>1, <2>2, <2>3, CountedMove
<1>10. CASE RunMandatory
  BY <1>10, CountedMove
     DEF RunMandatory, SaveStatus, budget, agents, Counted, Awaiting, Carrying
<1>11. CASE EvaluateResult
  <2>1. CASE \E st \in Failures : \E a : Terminate(st, a)
    BY <1>1, <2>1
  <2>2. CASE \/ SaveStatus("SELECTING_ADAPTIVE_EXPERIMENT", "idle")
             \/ SaveStatus("VETTING_MANDATORY", "idle")
             \/ Finalizing
    BY <1>11, <2>2, CountedMove
       DEF EvaluateResult, SaveStatus, Finalizing, budget, agents, Counted, Awaiting, Carrying
  <2> QED BY <1>11, <2>1, <2>2 DEF EvaluateResult, Failures
<1>12. CASE Finalize
  <2>1. CASE \E st \in Failures : Terminate(st, 0)
    BY <1>1, <2>1
  <2>2. CASE Step("raised") \/ (status' = "READY_TO_LOCK" /\ pc' = "idle"
                                /\ UNCHANGED <<budget, agents, trace>>)
    BY <1>12, <2>2, CountedMove
       DEF Finalize, Step, budget, agents, Counted, Awaiting, Carrying
  <2> QED BY <1>12, <2>1, <2>2 DEF Finalize, Failures
<1>13. CASE TerminateCycle \/ ExceptionFails
  BY <1>1, <1>13 DEF TerminateCycle, ExceptionFails, FailRun, Failures
<1> QED BY <1>2, <1>3, <1>4, <1>5, <1>6, <1>7, <1>8, <1>9, <1>10, <1>11, <1>12, <1>13 DEF Cycle

\* By the decisions: a review adds its revision below the ceiling.
LEMMA CountedAgent ==
  ASSUME IInv, Counted, Agent
  PROVE  Counted'
<1>1. ASSUME NEW st \in Failures, NEW a, Terminate(st, a) PROVE Counted'
  BY <1>1, CountedTerminate
<1>2. ASSUME NEW r \in Requests, SkepticDecides(r) PROVE Counted'
  <2>1. Ended' = Ended
    BY <1>2 DEF SkepticDecides, Ended, TraceOf, budget
  <2> QED BY <1>2, <2>1, CountedEven
       DEF SkepticDecides, Goto, Counted, Awaiting, Carrying
<1>3. CASE SkepticRecorded \/ CriticRecorded
  BY <1>3, CountedMove
     DEF SkepticRecorded, CriticRecorded, RecordDecision, Goto, budget, Counted, Awaiting,
         Carrying
<1>4. CASE SkepticWaits
  BY <1>4, CountedMove
     DEF SkepticWaits, SaveStatus, budget, agents, Counted, Awaiting, Carrying, Busy
<1>5. ASSUME NEW v \in Verdicts, NEW r \in Requests \cup {None}, CriticDecides(v, r)
      PROVE  Counted'
  <2> DEFINE new == [verdict |-> v, revised |-> r]
             old == {s \in Steps : review[s] # None /\ review[s].verdict = "REVISE"}
  <2>1. /\ pc = "critic" /\ pc' = "critic_saved" /\ review' = [review EXCEPT ![step] = new]
        /\ UNCHANGED <<status, step, trace, proposal, revisions>>
        /\ v = "REVISE" => revisions < MaxRevisions
    BY <1>5 DEF CriticDecides, Goto, budget
  <2>2. Proposed /\ ~Reviewed /\ step \in Steps /\ review[step] = None
    BY <2>1 DEF IInv, PhaseInv, Deciding, Reviewed, Proposed
  <2>3. revisions = Revisions /\ status \notin Busy /\ ~Ended
    BY <2>1 DEF Counted, Carrying, Awaiting
  <2>4. Ended' = Ended
    BY <2>1 DEF Ended, TraceOf
  <2>5. /\ review \in [Steps -> Reviews \cup {None}] /\ new \in Reviews /\ new # None
        /\ revisions \in Nat
    BY <1>5, ValuesAssumption DEF IInv, StateInv, TypeOK, Reviews
  <2>6. Revisions' = Cardinality(IF v = "REVISE" THEN old \cup {step} ELSE old)
    <3>1. {s \in Steps : review'[s] # None /\ review'[s].verdict = "REVISE"} =
            IF v = "REVISE" THEN old \cup {step} ELSE old
      BY <2>1, <2>2, <2>5
    <3> QED BY <3>1 DEF Revisions
  <2>7. step \notin old /\ IsFiniteSet(old)
    <3>1. IsFiniteSet(Steps) /\ old \subseteq Steps
      BY FS_Interval, BudgetsAssumption DEF Steps
    <3> QED BY <2>2, <3>1, FS_Subset
  <2>8. Revisions = Cardinality(old)
    BY DEF Revisions
  <2> HIDE DEF old
  <2>9. CASE v = "REVISE"
    <3>1. Revisions' = Revisions + 1
      BY <2>6, <2>7, <2>8, <2>9, FS_AddElement
    <3>2. Revisions' <= MaxRevisions
      BY <2>1, <2>3, <2>5, <2>9, <3>1, BudgetsAssumption
    <3>3. Reviewed' /\ review'[step].verdict = "REVISE"
      BY <2>1, <2>2, <2>5, <2>9 DEF Reviewed, Proposed
    <3> QED BY <2>1, <2>3, <2>4, <3>1, <3>2, <3>3 DEF Counted, Carrying
  <2>10. CASE v # "REVISE"
    <3>1. Revisions' = Revisions
      BY <2>6, <2>8, <2>10
    <3> QED BY <2>1, <2>3, <2>4, <3>1 DEF Counted
  <2> QED BY <2>9, <2>10
<1>6. CASE \E st \in Failures : InferenceAborts(st)
  BY <1>1, <1>6 DEF InferenceAborts
<1>7. CASE ResolveCritic
  <2>1. CASE Terminate("BUDGET_EXHAUSTED", 0)
    BY <1>1, <2>1 DEF Failures
  <2>2. CASE /\ revisions' = IF review[step].verdict = "REVISE" THEN Revisions ELSE revisions
             /\ pc' \in {"finalize", "prepare_adaptive"}
             /\ UNCHANGED <<status, step, trace, review>>
    <3>1. Revisions' = Revisions /\ revisions' = Revisions /\ Ended' = Ended
      BY <2>2 DEF Revisions, Counted, Ended, TraceOf
    <3> QED BY <2>2, <3>1 DEF Counted, Awaiting
  <2> QED BY <1>7, <2>1, <2>2 DEF ResolveCritic, budget
<1> QED BY <1>2, <1>3, <1>4, <1>5, <1>6, <1>7 DEF Agent

\* By the tools and by the environment, which decide nothing.
LEMMA CountedRest ==
  ASSUME IInv, FitInv, Counted, Tool \/ Environment
  PROVE  Counted'
<1>1. ASSUME NEW st \in Failures, NEW a, Terminate(st, a) PROVE Counted'
  BY <1>1, CountedTerminate
<1>2. ASSUME NEW tool, NEW adaptive, Prepare(tool, adaptive),
             pc \in {"prepare_mandatory", "prepare_adaptive"}
      PROVE  Counted'
  <2>1. CASE \E st \in Failures : Terminate(st, 0)
    BY <1>1, <2>1
  <2>2. CASE Step("raised") \/ (status' = "RUNNING_TOOL" /\ pc' = "running"
                                /\ UNCHANGED <<step, agents, trace>>)
    BY <1>2, <2>2, CountedMove DEF Step, budget, agents, Counted, Awaiting, Carrying
  <2> QED BY <1>2, <2>1, <2>2 DEF Prepare, Refusal, Failures
<1>3. CASE PrepareMandatory \/ PrepareAdaptive
  BY <1>2, <1>3 DEF PrepareMandatory, PrepareAdaptive
<1>4. CASE \E o \in Outcomes : HandlerReturns(o)
  BY <1>4, CountedMove DEF HandlerReturns, Goto, budget, agents, Counted, Awaiting, Carrying
<1>5. CASE HandlerFails
  BY <1>1, <1>5 DEF HandlerFails, Failures
<1>6. CASE CommitResult
  <2>1. /\ pc \in Ledgered /\ pc' \in {"committed", "recommitted"}
        /\ status' = "UPDATING_EVIDENCE" /\ UNCHANGED <<review, revisions>>
    BY <1>6 DEF CommitResult, Goto, Commit, agents, Ledgered
  <2> QED BY <2>1, CountedEven DEF Ledgered, Counted, Awaiting, Carrying
<1>7. CASE EmitEvidence
  BY <1>7, CountedEven
     DEF EmitEvidence, Goto, agents, Counted, Awaiting, Carrying, FitInv, Measured
<1>8. CASE DeadlineFails
  BY <1>1, <1>8 DEF DeadlineFails, FailRun, Failures
<1>9. CASE LockResult \/ RevealCatalog
  <2>1. pc \notin Awaiting
    BY <1>9 DEF IInv, PhaseInv, CannotAdvance, Closed, LockResult, RevealCatalog, Awaiting
  <2> QED BY <1>9, <2>1, CountedMove
       DEF LockResult, RevealCatalog, budget, agents, Counted, Awaiting, Busy
<1>10. CASE Crash \/ Resume
  BY <1>10, CountedMove DEF Crash, Resume, Step, budget, agents, Counted, Awaiting, Carrying
<1> QED BY <1>3, <1>4, <1>5, <1>6, <1>7, <1>8, <1>9, <1>10 DEF Tool, Environment

\* No revision is lost count of.
LEMMA CountedInvariant == Spec => []Counted
<1>1. Init => Counted
  <2> SUFFICES ASSUME Init PROVE Counted
    OBVIOUS
  <2>1. Revisions = 0
    <3>1. {s \in Steps : review[s] # None /\ review[s].verdict = "REVISE"} = {}
      BY DEF Init
    <3> QED BY <3>1, FS_EmptySet DEF Revisions
  <2> QED BY <2>1, BudgetsAssumption DEF Init, Counted, Awaiting
<1>2. IInv /\ FitInv /\ Counted /\ [Next]_vars => Counted'
  <2> SUFFICES ASSUME IInv, FitInv, Counted, [Next]_vars PROVE Counted'
    OBVIOUS
  <2>1. CASE UNCHANGED vars
    <3>1. UNCHANGED <<step, trace, proposal, review, revisions, pc, status>>
      BY <2>1 DEF vars, budget, agents
    <3> QED BY <3>1, CountedMove DEF Counted
  <2> QED BY <2>1, CountedCycle, CountedAgent, CountedRest DEF Next, Driver
<1> QED BY <1>1, <1>2, Inductive, FitInvariant, PTL DEF Spec

\* Budgets are charged once and kept, revisions included: BudgetsConserved.
THEOREM Budgets_AreConserved == Spec => []BudgetsConserved
<1>1. ChargedOnce /\ Counted => BudgetsConserved
  BY DEF ChargedOnce, Counted, BudgetsConserved, AdaptiveExecs
<1> QED BY <1>1, CountedInvariant, Charged_Once, PTL

-----------------------------------------------------------------------------
(* Work.                                                                   *)

\* The factors are large enough for what they multiply.
LEMMA Levels ==
  /\ \A p \in PcValues : Ahead(p) \in 0..14
  /\ \A s \in Open \cup Closed : Stage(s) \in 0..5
  /\ \A s \in Open : Stage(s) \in 3..5
  /\ Stage("RUNNING_TOOL") = 5 /\ Stage("UPDATING_EVIDENCE") = 4
  /\ \A s \in Open \ {"RUNNING_TOOL", "UPDATING_EVIDENCE"} : Stage(s) = 3
  /\ Stage("READY_TO_LOCK") = 2 /\ Stage("RESULT_LOCKED") = 1
  /\ \A s \in Failures \cup {"REVEALED"} : Stage(s) = 0
<1>1. \A p : Ahead(p) \in 0..14
  BY DEF Ahead
<1>2. \A s : Stage(s) \in 0..5
  BY DEF Stage
<1>3. \A s \in Open : Stage(s) \in 3..5
  BY DEF Stage, Open, Failures
<1>4. \A s \in Open \ {"RUNNING_TOOL", "UPDATING_EVIDENCE"} : Stage(s) = 3
  BY DEF Stage, Open, Failures
<1>5. /\ Stage("RUNNING_TOOL") = 5 /\ Stage("UPDATING_EVIDENCE") = 4
      /\ Stage("READY_TO_LOCK") = 2 /\ Stage("RESULT_LOCKED") = 1
  BY DEF Stage, Failures
<1>6. \A s \in Failures \cup {"REVEALED"} : Stage(s) = 0
  BY DEF Stage, Failures
<1> QED BY <1>1, <1>2, <1>3, <1>4, <1>5, <1>6

\* What is left of the budgets is no debt.
LEMMA NoDebt ==
  ASSUME NEW n \in 0..MaxSteps, NEW t \in Nat, t <= MaxTools, NEW c \in 0..MaxCrashes
  PROVE  (MaxSteps - n) + (MaxTools - t) \in Nat /\ MaxCrashes - c \in Nat
<1>1. MaxSteps - n \in Nat /\ MaxTools - t \in Nat /\ MaxCrashes - c \in Nat
  BY BudgetsAssumption
<1> QED BY <1>1

LEMMA WorkIsNatural ==
  ASSUME TypeOK, ChargedOnce
  PROVE  BudgetLeft \in Nat /\ CrashesLeft \in Nat /\ Work \in Nat
<1>1. BudgetLeft \in Nat /\ CrashesLeft \in Nat
  BY NoDebt DEF TypeOK, ChargedOnce, BudgetLeft, CrashesLeft
<1>2. Ahead(pc) \in 0..14 /\ Stage(status) \in 0..5
  BY Levels DEF TypeOK
<1> QED BY <1>1, <1>2 DEF Work

LEMMA WorkStaysNatural ==
  ASSUME TypeOK', ChargedOnce'
  PROVE  BudgetLeft' \in Nat /\ CrashesLeft' \in Nat /\ Work' \in Nat
<1>1. step' \in 0..MaxSteps /\ toolCalls' \in Nat /\ Len(crashes') \in 0..MaxCrashes
  BY DEF TypeOK
<1>2. toolCalls' <= MaxTools
  BY DEF ChargedOnce
<1>3. (MaxSteps - step') + (MaxTools - toolCalls') \in Nat /\ MaxCrashes - Len(crashes') \in Nat
  BY <1>1, <1>2, NoDebt
<1>4. BudgetLeft' \in Nat /\ CrashesLeft' \in Nat
  BY <1>3 DEF BudgetLeft, CrashesLeft
<1>5. Ahead(pc') \in 0..14 /\ Stage(status') \in 0..5
  BY Levels DEF TypeOK
<1>6. Work' \in Nat
  BY <1>4, <1>5 DEF Work
<1> QED BY <1>4, <1>6

\* Fewer crashes, budgets or changes of status outweigh all the nodes ahead.
LEMMA Weights ==
  ASSUME NEW a \in 0..14, NEW s \in 0..5, NEW c \in Nat, NEW b \in Nat,
         NEW aa \in 0..14, NEW ss \in 0..5, NEW cc \in Nat, NEW bb \in Nat,
         \/ cc = c /\ bb = b /\ ss <= s /\ (ss < s \/ aa < a)
         \/ cc = c - 1 /\ bb = b /\ ss = s
         \/ cc = c /\ bb = b - 1 /\ ss <= s + 2
  PROVE  aa + 15 * (ss + cc + 3 * bb) < a + 15 * (s + c + 3 * b)
  OBVIOUS

\* Three ways to have less to do.
LEMMA LessWork ==
  ASSUME TypeOK, TypeOK', ChargedOnce, ChargedOnce',
         \/ /\ UNCHANGED <<BudgetLeft, crashes>> /\ Stage(status') <= Stage(status)
            /\ Stage(status') < Stage(status) \/ Ahead(pc') < Ahead(pc)
         \/ /\ UNCHANGED <<BudgetLeft, status>> /\ Len(crashes') = Len(crashes) + 1
         \/ /\ BudgetLeft' = BudgetLeft - 1 /\ UNCHANGED crashes
            /\ Stage(status') <= Stage(status) + 2
  PROVE  Work' < Work
<1>1. BudgetLeft \in Nat /\ CrashesLeft \in Nat /\ BudgetLeft' \in Nat /\ CrashesLeft' \in Nat
  BY WorkIsNatural, WorkStaysNatural
<1>2. /\ Ahead(pc) \in 0..14 /\ Stage(status) \in 0..5
      /\ Ahead(pc') \in 0..14 /\ Stage(status') \in 0..5
  BY Levels DEF TypeOK
<1>3. /\ UNCHANGED crashes => CrashesLeft' = CrashesLeft
      /\ Len(crashes') = Len(crashes) + 1 => CrashesLeft' = CrashesLeft - 1
  <2>1. Len(crashes) \in Nat /\ Len(crashes') \in Nat /\ MaxCrashes \in Nat
    BY BudgetsAssumption DEF TypeOK
  <2> QED BY <2>1 DEF CrashesLeft
<1>4. /\ Work = Ahead(pc) + 15 * (Stage(status) + CrashesLeft + 3 * BudgetLeft)
      /\ Work' = Ahead(pc') + 15 * (Stage(status') + CrashesLeft' + 3 * BudgetLeft')
  BY DEF Work
<1>5. \/ /\ CrashesLeft' = CrashesLeft /\ BudgetLeft' = BudgetLeft /\ Stage(status') <= Stage(status)
         /\ Stage(status') < Stage(status) \/ Ahead(pc') < Ahead(pc)
      \/ CrashesLeft' = CrashesLeft - 1 /\ BudgetLeft' = BudgetLeft /\ Stage(status') = Stage(status)
      \/ /\ CrashesLeft' = CrashesLeft /\ BudgetLeft' = BudgetLeft - 1
         /\ Stage(status') <= Stage(status) + 2
  BY <1>3
<1> QED BY <1>1, <1>2, <1>4, <1>5, Weights

\* A node that leaves the status alone has fewer nodes ahead,
LEMMA LessAhead ==
  ASSUME TypeOK, TypeOK', ChargedOnce, ChargedOnce',
         UNCHANGED <<status, step, toolCalls, crashes>>, Ahead(pc') < Ahead(pc)
  PROVE  Work' < Work
<1>1. Stage(status) \in 0..5 /\ Stage(status') = Stage(status)
  BY Levels DEF TypeOK
<1>2. UNCHANGED BudgetLeft
  BY DEF BudgetLeft
<1> QED BY <1>1, <1>2, LessWork

\* a node that saves one has fewer of these ahead, or leads on,
LEMMA LessStage ==
  ASSUME TypeOK, TypeOK', ChargedOnce, ChargedOnce',
         UNCHANGED <<step, toolCalls, crashes>>,
         \/ Stage(status') < Stage(status)
         \/ Stage(status') = Stage(status) /\ Ahead(pc') < Ahead(pc)
  PROVE  Work' < Work
<1>1. Stage(status) \in 0..5 /\ Stage(status') \in 0..5
  BY Levels DEF TypeOK
<1>2. UNCHANGED BudgetLeft
  BY DEF BudgetLeft
<1> QED BY <1>1, <1>2, LessWork

\* and an open run that is closed has nothing ahead.
LEMMA LessOnClosing ==
  ASSUME TypeOK, TypeOK', ChargedOnce, ChargedOnce', ~CannotAdvance,
         NEW st \in Failures, NEW a, Terminate(st, a)
  PROVE  Work' < Work
<1>1. UNCHANGED <<step, toolCalls, crashes>> /\ status' = st
  BY DEF Terminate
<1>2. Stage(status') = 0
  BY <1>1 DEF Stage, Failures
<1>3. Stage(status) \in 3..5
  BY Levels DEF TypeOK, CannotAdvance
<1> QED BY <1>1, <1>2, <1>3, LessStage

\* A refused change of status unwinds; an accepted one leads on.
LEMMA LessOnSaving ==
  ASSUME TypeOK, TypeOK', ChargedOnce, ChargedOnce', ~CannotAdvance,
         NEW new, Stage(new) = 3, NEW there, SaveStatus(new, there), Ahead(pc) > 0,
         Ahead(there) < Ahead(pc) \/ Stage(status) > 3
  PROVE  Work' < Work
<1>1. UNCHANGED <<step, toolCalls, crashes>>
  BY DEF SaveStatus, budget
<1>2. Stage(status) \in 3..5
  BY Levels DEF TypeOK, CannotAdvance
<1>3. CASE status' = status /\ pc' = "raised"
  BY <1>1, <1>3, LessAhead DEF Ahead
<1>4. CASE status' = new /\ pc' = there
  <2>1. Stage(status') = 3 /\ Ahead(pc') = Ahead(there)
    BY <1>4
  <2>2. Ahead(pc) \in 0..14 /\ Ahead(pc') \in 0..14
    BY Levels DEF TypeOK
  <2> QED BY <1>1, <1>2, <2>1, <2>2, LessStage
<1> QED BY <1>3, <1>4 DEF SaveStatus

\* Every node of the graph has less ahead than the one before.
LEMMA LessByCycle ==
  ASSUME IInv, IInv', FitInv, ChargedOnce, ChargedOnce', Cycle
  PROVE  Work' < Work
<1> USE DEF IInv, StateInv
<1>0. ~CannotAdvance
  BY DriverIsOpen DEF Driver
<1>1. ASSUME NEW st \in Failures, NEW a, Terminate(st, a) PROVE Work' < Work
  BY <1>0, <1>1, LessOnClosing
<1>2. CASE StartAdvance \/ NothingToRecover \/ Reexecute \/ RouteDurable \/ RouteProposal
  <2>1. UNCHANGED <<status, step, toolCalls, crashes>>
    BY <1>2 DEF StartAdvance, NothingToRecover, Reexecute, RouteDurable, RouteProposal, Step,
                budget
  <2>2. Ahead(pc') < Ahead(pc)
    BY <1>2 DEF StartAdvance, NothingToRecover, Reexecute, RouteDurable, RouteProposal, Step,
                Ahead
  <2> QED BY <2>1, <2>2, LessAhead
<1>3. CASE RecoverFromLedger
  <2>1. status = "RUNNING_TOOL" /\ status' = "UPDATING_EVIDENCE"
    BY <1>3, CommitsTheLast DEF RunningMeansPrepared
  <2>2. UNCHANGED <<step, toolCalls, crashes>>
    BY <1>3 DEF RecoverFromLedger, Commit
  <2>3. Stage(status') < Stage(status)
    BY <2>1, Levels
  <2> QED BY <2>2, <2>3, LessStage
<1>4. CASE EmitRecovery \/ EmitBudget
  BY <1>4, LessAhead DEF EmitRecovery, EmitBudget, Goto, budget, Ahead
<1>5. CASE BeginCycle
  <2>1. CASE Terminate("BUDGET_EXHAUSTED", 0)
    BY <1>1, <2>1 DEF Failures
  <2>2. CASE step' = step + 1 /\ UNCHANGED <<status, toolCalls, crashes>>
    <3>1. BudgetLeft' = BudgetLeft - 1
      BY <2>2, BudgetsAssumption DEF BudgetLeft, TypeOK
    <3>2. Stage(status) \in 0..5 /\ Stage(status') = Stage(status)
      BY <2>2, Levels DEF TypeOK
    <3> QED BY <2>2, <3>1, <3>2, LessWork
  <2> QED BY <1>5, <2>1, <2>2 DEF BeginCycle
<1>6. CASE FreshRoute
  <2>1. Ahead(pc) \in {9, 11}
    BY <1>6 DEF FreshRoute, Ahead
  <2>2. CASE Step("mandatory") \/ Step("terminate") \/ Step("finalize")
    <3>1. Ahead(pc') < 9
      BY <2>2 DEF Step, Ahead
    <3>2. Ahead(pc') \in 0..14
      BY Levels DEF TypeOK
    <3>3. UNCHANGED <<status, step, toolCalls, crashes>>
      BY <2>2 DEF Step, budget
    <3> QED BY <2>1, <3>1, <3>2, <3>3, LessAhead
  <2>3. CASE SaveStatus("SELECTING_ADAPTIVE_EXPERIMENT", "skeptic")
    <3>1. Ahead("skeptic") = 8 /\ Stage("SELECTING_ADAPTIVE_EXPERIMENT") = 3
      BY DEF Ahead, Stage, Failures
    <3> QED BY <1>0, <2>1, <2>3, <3>1, LessOnSaving
  <2> QED BY <1>6, <2>2, <2>3 DEF FreshRoute
<1>7. CASE RunMandatory
  <2>1. /\ Ahead(pc) = 8 /\ Ahead("prepare_mandatory") = 2 /\ Stage("VETTING_MANDATORY") = 3
    BY <1>7 DEF RunMandatory, Ahead, Stage, Failures
  <2> QED BY <1>0, <1>7, <2>1, LessOnSaving DEF RunMandatory
<1>8. CASE EvaluateResult
  <2>0. pc = "evaluate" /\ status = "UPDATING_EVIDENCE"
    BY <1>8 DEF EvaluateResult, FitInv, Measured
  <2>1. Ahead(pc) = 10 /\ Stage(status) = 4
    BY <2>0, Levels DEF Ahead
  <2>2. CASE \E st \in Failures : \E a : Terminate(st, a)
    BY <1>1, <2>2
  <2>3. CASE \/ SaveStatus("SELECTING_ADAPTIVE_EXPERIMENT", "idle")
             \/ SaveStatus("VETTING_MANDATORY", "idle")
    <3>1. Stage("SELECTING_ADAPTIVE_EXPERIMENT") = 3 /\ Stage("VETTING_MANDATORY") = 3
      BY DEF Stage, Failures
    <3> QED BY <1>0, <2>1, <2>3, <3>1, LessOnSaving
  <2>4. CASE Finalizing
    <3>1. UNCHANGED <<step, toolCalls, crashes>> /\ Stage(status') = 3
      BY <2>4 DEF Finalizing, budget, Stage, Failures
    <3> QED BY <2>1, <3>1, LessStage
  <2> QED BY <1>8, <2>2, <2>3, <2>4 DEF EvaluateResult, Failures
<1>9. CASE Finalize
  <2>1. CASE \E st \in Failures : Terminate(st, 0)
    BY <1>1, <2>1
  <2>2. CASE Step("raised")
    BY <1>9, <2>2, LessAhead DEF Finalize, Step, budget, Ahead
  <2>3. CASE status' = "READY_TO_LOCK" /\ UNCHANGED <<step, toolCalls, crashes>>
    <3>1. Stage(status) \in 3..5 /\ Stage(status') = 2
      BY <1>0, <2>3, Levels DEF TypeOK, CannotAdvance
    <3> QED BY <2>3, <3>1, LessStage
  <2> QED BY <1>9, <2>1, <2>2, <2>3 DEF Finalize, Failures, budget
<1>10. CASE TerminateCycle \/ ExceptionFails
  BY <1>1, <1>10 DEF TerminateCycle, ExceptionFails, FailRun, Failures
<1> QED BY <1>2, <1>3, <1>4, <1>5, <1>6, <1>7, <1>8, <1>9, <1>10 DEF Cycle

\* So has every decision,
LEMMA LessByAgent ==
  ASSUME IInv, IInv', ChargedOnce, ChargedOnce', Agent
  PROVE  Work' < Work
<1> USE DEF IInv, StateInv
<1>0. ~CannotAdvance
  BY DriverIsOpen DEF Driver
<1>1. ASSUME NEW st \in Failures, NEW a, Terminate(st, a) PROVE Work' < Work
  BY <1>0, <1>1, LessOnClosing
<1>2. CASE \/ \E r \in Requests : SkepticDecides(r)
           \/ \E v \in Verdicts, r \in Requests \cup {None} : CriticDecides(v, r)
           \/ SkepticRecorded \/ CriticRecorded
  <2>1. UNCHANGED <<status, step, toolCalls, crashes>>
    BY <1>2 DEF SkepticDecides, CriticDecides, SkepticRecorded, CriticRecorded, RecordDecision,
                budget
  <2>2. Ahead(pc') < Ahead(pc)
    BY <1>2 DEF SkepticDecides, CriticDecides, SkepticRecorded, CriticRecorded, RecordDecision,
                Goto, Ahead
  <2> QED BY <2>1, <2>2, LessAhead
<1>3. CASE SkepticWaits
  <2>1. Ahead(pc) = 6 /\ Ahead("critic") = 5 /\ Stage("WAITING_FOR_CRITIC") = 3
    BY <1>3 DEF SkepticWaits, Ahead, Stage, Failures
  <2> QED BY <1>0, <1>3, <2>1, LessOnSaving DEF SkepticWaits
<1>4. CASE \E st \in Failures : InferenceAborts(st)
  BY <1>1, <1>4 DEF InferenceAborts
<1>5. CASE ResolveCritic
  <2>1. CASE Terminate("BUDGET_EXHAUSTED", 0)
    BY <1>1, <2>1 DEF Failures
  <2>2. CASE /\ pc' \in {"finalize", "prepare_adaptive"}
             /\ UNCHANGED <<status, budget, crashes>>
    BY <1>5, <2>2, LessAhead DEF ResolveCritic, Ahead, budget
  <2> QED BY <1>5, <2>1, <2>2 DEF ResolveCritic
<1> QED BY <1>2, <1>3, <1>4, <1>5 DEF Agent

\* every measurement,
LEMMA LessByTool ==
  ASSUME IInv, IInv', FitInv, ChargedOnce, ChargedOnce', Tool
  PROVE  Work' < Work
<1> USE DEF IInv, StateInv
<1>0. ~CannotAdvance
  BY DriverIsOpen DEF Driver
<1>1. ASSUME NEW st \in Failures, NEW a, Terminate(st, a) PROVE Work' < Work
  BY <1>0, <1>1, LessOnClosing
<1>2. ASSUME NEW tool, NEW adaptive, Prepare(tool, adaptive),
             pc \in {"prepare_mandatory", "prepare_adaptive"}
      PROVE  Work' < Work
  <2>1. CASE \E st \in Failures : Terminate(st, 0)
    BY <1>1, <2>1
  <2>2. CASE Step("raised")
    BY <1>2, <2>2, LessAhead DEF Step, budget, Ahead
  <2>3. CASE status' = "RUNNING_TOOL" /\ toolCalls' = toolCalls + 1 /\ UNCHANGED <<step, crashes>>
    <3>1. BudgetLeft' = BudgetLeft - 1
      BY <2>3, BudgetsAssumption DEF BudgetLeft, TypeOK
    <3>2. Stage(status) \in 3..5 /\ Stage(status') = 5
      BY <1>0, <2>3, Levels DEF TypeOK, CannotAdvance
    <3> QED BY <2>3, <3>1, <3>2, LessWork
  <2> QED BY <1>2, <2>1, <2>2, <2>3 DEF Prepare, Refusal, Failures
<1>3. CASE PrepareMandatory \/ PrepareAdaptive
  BY <1>2, <1>3 DEF PrepareMandatory, PrepareAdaptive
<1>4. CASE (\E o \in Outcomes : HandlerReturns(o)) \/ EmitEvidence
  <2>0. \/ pc = "running" /\ pc' = "ledgered"
        \/ pc = "rerunning" /\ pc' = "reledgered"
        \/ pc = "committed" /\ pc' = "evaluate"
        \/ pc = "recommitted" /\ pc' = "recovered"
    BY <1>4 DEF HandlerReturns, EmitEvidence, Goto
  <2>1. UNCHANGED <<status, step, toolCalls, crashes>>
    BY <1>4 DEF HandlerReturns, EmitEvidence, budget
  <2>2. Ahead(pc') < Ahead(pc)
    BY <2>0 DEF Ahead
  <2> QED BY <2>1, <2>2, LessAhead
<1>5. CASE HandlerFails
  BY <1>1, <1>5 DEF HandlerFails, Failures
<1>6. CASE CommitResult
  <2>1. status = "RUNNING_TOOL" /\ status' = "UPDATING_EVIDENCE"
    BY <1>6, CommitsTheLast DEF RunningMeansPrepared
  <2>2. UNCHANGED <<step, toolCalls, crashes>>
    BY <1>6 DEF CommitResult, Commit
  <2>3. Stage(status') < Stage(status)
    BY <2>1, Levels
  <2> QED BY <2>2, <2>3, LessStage
<1> QED BY <1>3, <1>4, <1>5, <1>6 DEF Tool

\* and whatever the environment does.
LEMMA LessByEnvironment ==
  ASSUME IInv, IInv', ChargedOnce, ChargedOnce', Environment
  PROVE  Work' < Work
<1> USE DEF IInv, StateInv
<1>1. CASE DeadlineFails
  BY <1>1, LessOnClosing DEF DeadlineFails, FailRun, Failures
<1>2. CASE LockResult \/ RevealCatalog
  <2>1. UNCHANGED <<step, toolCalls, crashes>>
    BY <1>2 DEF LockResult, RevealCatalog, budget
  <2>2. \/ status = "READY_TO_LOCK" /\ status' = "RESULT_LOCKED"
        \/ status = "RESULT_LOCKED" /\ status' = "REVEALED"
    BY <1>2 DEF LockResult, RevealCatalog
  <2>3. Stage(status') < Stage(status)
    BY <2>2, Levels
  <2> QED BY <2>1, <2>3, LessStage
<1>3. CASE Crash
  <2>1. Len(crashes') = Len(crashes) + 1 /\ UNCHANGED <<BudgetLeft, status>>
    BY <1>3, CrashIsCounted DEF Crash, budget, BudgetLeft
  <2> QED BY <2>1, LessWork
<1>4. CASE Resume
  BY <1>4, LessAhead DEF Resume, Step, budget, Ahead
<1> QED BY <1>1, <1>2, <1>3, <1>4 DEF Environment

\* Every step brings the run nearer to its end, and it can only be so far
\* away: EveryStepCounts.
THEOREM EveryStep_Counts == Spec => EveryStepCounts /\ [](Work \in Nat)
<1>1. TypeOK /\ ChargedOnce => Work \in Nat
  BY WorkIsNatural
<1>2. IInv /\ IInv' /\ FitInv /\ ChargedOnce /\ ChargedOnce' /\ [Next]_vars
        => [Work' \in Nat /\ Work' < Work]_vars
  BY WorkStaysNatural, LessByCycle, LessByAgent, LessByTool, LessByEnvironment
  DEF Next, Driver, IInv, StateInv
<1>3. IInv => TypeOK
  BY DEF IInv, StateInv
<1> QED BY <1>1, <1>2, <1>3, Inductive, FitInvariant, Charged_Once, PTL DEF Spec, EveryStepCounts

-----------------------------------------------------------------------------
(* Vetting.  What the abstract specification knows of a run is its ledger; *)
(* what the nodes look at are the tests done, the candidate, the statuses  *)
(* of the executions and of the run.  VetInv says that the two agree while *)
(* the run is open: a halting result is the last one, and still to be      *)
(* evaluated; so is a decisive one, unless the baseline is incomplete or   *)
(* the run is already on its way to an end.                                *)

Measuring == {"RUNNING_TOOL", "UPDATING_EVIDENCE"}
Calling == {"INITIALIZED", "VETTING_MANDATORY", "SELECTING_ADAPTIVE_EXPERIMENT",
            "WAITING_FOR_CRITIC"}

Usable(r) == r.status \in Successful
Halts(r) == ~Usable(r) /\ (r.tool \in Baseline \/ r.status # "PRECONDITION_FAILED")
Settles(r) == Usable(r) /\ r.code \in Decisive
IsLast(n) == ledger[n].action = Len(execs)
\* The records whose result is committed.
Committed == {n \in DOMAIN ledger : ledger[n].action \notin Prepared}

TestsAgree ==
  \A t \in Baseline : t \in done <=> \E n \in Committed : Usable(ledger[n]) /\ ledger[n].tool = t
CandidateAgrees ==
  candidate <=> \E n \in Committed : ledger[n].tool = Search /\ ledger[n].status = "SUCCESS"
FailuresAgree ==
  \A n \in Committed : execs[ledger[n].action].status = "FAILED" => ledger[n].status = "FAILED"
HaltsLast == \A n \in DOMAIN ledger : Halts(ledger[n]) => status \in Measuring /\ IsLast(n)
SettlesLast ==
  \A n \in DOMAIN ledger : Settles(ledger[n]) =>
    \/ Missing # {} \/ status = "FINALIZING"
    \/ status \in Measuring /\ (IsLast(n) \/ execs[Len(execs)].tool \notin Adaptive)

\* The nodes behind the route have left a result to be evaluated behind.
Routed == Undecided \cup Deciding \cup {"finalize", "terminate"}
IsRouted == pc \in Routed => status # "UPDATING_EVIDENCE"

VetInv ==
  /\ IsRouted
  /\ ~CannotAdvance =>
       TestsAgree /\ CandidateAgrees /\ FailuresAgree /\ HaltsLast /\ SettlesLast

\* What a step may do to an open run: close it,
Closes == \E st \in Failures : \E a : Terminate(st, a)
\* leave its science alone,
Rests ==
  /\ UNCHANGED <<done, candidate, ledger, disposition, execs>>
  /\ UNCHANGED status \/ (status \in Calling /\ status' \in Calling)
\* prepare a tool,
Takes(tool) ==
  /\ tool \notin Accepted /\ Prepared = {}
  /\ (tool \in Baseline /\ First(tool)) \/ (tool \in Adaptive /\ Missing = {})
  /\ status \in Calling /\ status' = "RUNNING_TOOL"
  /\ execs' = Append(execs, [tool |-> tool, step |-> step, status |-> "PREPARED"])
  /\ UNCHANGED <<done, candidate, ledger, disposition>>
\* or conclude; the other deeds are actions.
Concludes ==
  /\ pc = "finalize" /\ Missing = {} /\ status' = "READY_TO_LOCK"
  /\ DispositionOf(LedgerCodes, candidate) # None
  /\ disposition' = DispositionOf(LedgerCodes, candidate)
  /\ UNCHANGED <<done, candidate, ledger, execs>>

\* A result that waits to be evaluated is routed there.
LEMMA UpdatingIsPending ==
  ASSUME Measured, Opened, status = "UPDATING_EVIDENCE" PROVE PendingEvaluation
<1>1. TraceOf({"budget.updated"}) # {}
  BY DEF Measured, Opened, Budgeted
<1> QED BY <1>1 DEF TraceOf, PendingEvaluation

\* Whoever changes the status between two measurements rests.
LEMMA SaveRests ==
  ASSUME ~CannotAdvance, TypeOK, status \notin Measuring, NEW new \in Calling, NEW there,
         SaveStatus(new, there)
  PROVE  Rests
<1>1. /\ UNCHANGED <<done, candidate, ledger, disposition, execs>>
      /\ UNCHANGED status \/ (status' = new /\ Legal(new))
  BY DEF SaveStatus, budget, science
<1>2. status \in Calling \cup {"FINALIZING"}
  BY DEF CannotAdvance, TypeOK, Open, Measuring, Calling
<1>3. status = "FINALIZING" => ~Legal(new)
  BY DEF Legal, Allowed, Calling, Failures, Open
<1> QED BY <1>1, <1>2, <1>3 DEF Rests

LEMMA DeedsOfCycle ==
  ASSUME IInv, FitInv, VetInv, Cycle
  PROVE  Closes \/ Rests \/ Concludes \/ EvaluateResult \/ RecoverFromLedger
<1> USE DEF IInv, StateInv
<1>0. ~CannotAdvance
  BY DriverIsOpen DEF Driver
<1>1. CASE StartAdvance \/ NothingToRecover \/ Reexecute \/ RouteDurable \/ RouteProposal
           \/ EmitRecovery \/ EmitBudget
  BY <1>1 DEF StartAdvance, NothingToRecover, Reexecute, RouteDurable, RouteProposal, Step,
              EmitRecovery, EmitBudget, budget, science, Rests
<1>2. CASE BeginCycle
  BY <1>2 DEF BeginCycle, science, Rests, Closes, Failures
<1>3. CASE FreshRoute \/ RunMandatory
  <2>1. status \notin Measuring
    <3>1. pc = "route" \/ pc \in Routed
      BY <1>3 DEF FreshRoute, RunMandatory, Routed, Undecided
    <3>2. Prepared = {}
      BY <3>1 DEF PhaseInv, AfterRecovery, PcValues, AwaitPoints, Routed, Undecided, Deciding,
                  Running, Ledgered
    <3>3. pc = "route" => ~PendingEvaluation
      BY <1>3 DEF FreshRoute, RunMandatory
    <3> QED BY <3>1, <3>2, <3>3, UpdatingIsPending
         DEF VetInv, IsRouted, RunningMeansPrepared, FitInv, Measuring
  <2>2. CASE \E there : Step(there)
    BY <2>2 DEF Step, budget, science, Rests
  <2>3. CASE \E new \in Calling : \E there : SaveStatus(new, there)
    BY <1>0, <2>1, <2>3, SaveRests
  <2> QED BY <1>3, <2>2, <2>3 DEF FreshRoute, RunMandatory, Calling
<1>4. CASE Finalize
  BY <1>4 DEF Finalize, Step, budget, science, Rests, Closes, Concludes, Failures
<1>5. CASE TerminateCycle \/ ExceptionFails
  BY <1>5 DEF TerminateCycle, ExceptionFails, FailRun, Closes, Failures
<1> QED BY <1>1, <1>2, <1>3, <1>4, <1>5 DEF Cycle

LEMMA DeedsOfAgent ==
  ASSUME IInv, FitInv, VetInv, Agent
  PROVE  Closes \/ Rests
<1> USE DEF IInv, StateInv
<1>0. ~CannotAdvance
  BY DriverIsOpen DEF Driver
<1>1. CASE SkepticWaits
  <2>1. pc \in Routed /\ Prepared = {}
    BY <1>1 DEF SkepticWaits, Routed, Deciding, PhaseInv, AfterRecovery, PcValues, Running, Ledgered
  <2>2. status \notin Measuring
    BY <2>1 DEF VetInv, IsRouted, RunningMeansPrepared, Measuring
  <2> QED BY <1>0, <1>1, <2>2, SaveRests DEF SkepticWaits, Calling
<1>2. CASE Agent /\ ~SkepticWaits
  BY <1>2 DEF Agent, SkepticDecides, SkepticRecorded, CriticRecorded, CriticDecides,
              RecordDecision, InferenceAborts, ResolveCritic, budget, science, Rests, Closes, Failures
<1> QED BY <1>1, <1>2

LEMMA DeedsOfTool ==
  ASSUME IInv, FitInv, VetInv, Tool
  PROVE  \/ Closes \/ Rests \/ CommitResult
         \/ \E o \in Outcomes : HandlerReturns(o)
         \/ \E tool \in Tools : Takes(tool)
<1> USE DEF IInv, StateInv
<1>0. ~CannotAdvance
  BY DriverIsOpen DEF Driver
<1>1. ASSUME NEW tool \in Tools, NEW adaptive \in BOOLEAN, Prepare(tool, adaptive), Prepared = {},
             IF adaptive THEN tool \in Adaptive ELSE tool \in Baseline /\ First(tool)
      PROVE  Closes \/ Rests \/ Takes(tool)
  <2>1. CASE \E st \in Failures : Terminate(st, 0)
    BY <2>1 DEF Closes
  <2>2. CASE Step("raised")
    BY <2>2 DEF Step, budget, science, Rests
  <2>3. CASE /\ Refusal(tool, adaptive) = {} /\ Legal("RUNNING_TOOL") /\ status' = "RUNNING_TOOL"
             /\ execs' = Append(execs, [tool |-> tool, step |-> step, status |-> "PREPARED"])
             /\ UNCHANGED <<done, candidate, ledger, disposition>>
    <3>1. tool \notin Accepted /\ (adaptive => Missing = {})
      BY <2>3 DEF Refusal
    <3>2. status # "RUNNING_TOOL"
      BY <1>1 DEF RunningMeansPrepared
    <3>3. status \in Calling
      BY <1>0, <2>3, <3>2 DEF Legal, Allowed, Calling, Open, Failures, TypeOK, CannotAdvance
    <3> QED BY <1>1, <2>3, <3>1, <3>3 DEF Takes
  <2> QED BY <1>1, <2>1, <2>2, <2>3 DEF Prepare, Refusal, Failures, science
<1>2. CASE PrepareMandatory
  <2>1. PICK t \in Baseline : First(t) /\ Prepare(t, FALSE)
    BY <1>2 DEF PrepareMandatory
  <2>2. t \in Tools /\ Prepared = {}
    BY <1>2 DEF Tools, PrepareMandatory, PhaseInv, AfterRecovery, PcValues, Running, Ledgered
  <2> QED BY <1>1, <2>1, <2>2
<1>3. CASE PrepareAdaptive
  <2>1. Selected \in Tools /\ Selected \in Adaptive /\ Prepared = {}
    BY <1>3, SelectedIsTool
       DEF PrepareAdaptive, PhaseInv, AfterRecovery, PcValues, AwaitPoints, Running, Ledgered
  <2> QED BY <1>1, <1>3, <2>1 DEF PrepareAdaptive
<1>4. CASE HandlerFails \/ EmitEvidence
  BY <1>4 DEF HandlerFails, EmitEvidence, budget, science, Rests, Closes, Failures
<1> QED BY <1>2, <1>3, <1>4 DEF Tool

\* Every step of an open run is one of them.
LEMMA Deeds ==
  ASSUME IInv, FitInv, VetInv, [Next]_vars, ~CannotAdvance
  PROVE  \/ Closes \/ Rests \/ Concludes \/ EvaluateResult \/ RecoverFromLedger \/ CommitResult
         \/ \E o \in Outcomes : HandlerReturns(o)
         \/ \E tool \in Tools : Takes(tool)
<1>1. CASE Environment
  BY <1>1 DEF Environment, DeadlineFails, FailRun, LockResult, RevealCatalog, CannotAdvance,
              Closed, Crash, Resume, Step, budget, science, Rests, Closes, Failures
<1>2. CASE UNCHANGED vars
  BY <1>2 DEF vars, budget, science, Rests
<1> QED BY <1>1, <1>2, DeedsOfCycle, DeedsOfAgent, DeedsOfTool DEF Next, Driver

\* Only a route with nothing to evaluate leads behind the route.
LEMMA RoutedStep ==
  ASSUME IInv, FitInv, VetInv, [Next]_vars
  PROVE  IsRouted'
<1> USE DEF IInv, StateInv
<1> SUFFICES ASSUME pc' \in Routed, status' = "UPDATING_EVIDENCE" PROVE FALSE
  BY DEF IsRouted
<1>1. status = "UPDATING_EVIDENCE" => pc \notin Routed /\ PendingEvaluation
  BY UpdatingIsPending DEF VetInv, IsRouted, FitInv
<1>2. ~RecoverFromLedger /\ ~CommitResult
  BY CommitsTheLast DEF Routed, Undecided, Deciding
<1>3. \A st \in Failures : \A a : ~Terminate(st, a)
  BY DEF Terminate, Failures
<1> HIDE DEF IInv, StateInv
<1>4. \A new, there : SaveStatus(new, there) => status = "UPDATING_EVIDENCE" \/ new = status'
  BY DEF SaveStatus
<1>5. \A there : Step(there) => status = "UPDATING_EVIDENCE" /\ pc' = there
  BY DEF Step
<1>6. ~Cycle
  BY <1>1, <1>2, <1>3, <1>4, <1>5
     DEF Cycle, StartAdvance, NothingToRecover, Reexecute, EmitRecovery, RouteDurable,
         RouteProposal, BeginCycle, EmitBudget, FreshRoute, RunMandatory, EvaluateResult,
         Finalize, TerminateCycle, ExceptionFails, FailRun, Finalizing, SaveStatus, Goto,
         RequiresBegin, Routed, Undecided, Deciding, Failures
<1>7. ~Agent
  BY <1>1, <1>3, <1>4
     DEF Agent, SkepticDecides, SkepticRecorded, SkepticWaits, CriticRecorded, CriticDecides,
         RecordDecision, InferenceAborts, ResolveCritic, Goto, Routed, Undecided, Deciding,
         Failures
<1>8. ~Tool
  <2>1. ASSUME NEW tool, NEW adaptive, Prepare(tool, adaptive), pc \in Routed PROVE FALSE
    BY <1>1, <1>3, <1>5, <2>1 DEF Prepare, Refusal, Failures
  <2> QED BY <1>1, <1>2, <1>3, <2>1
     DEF Tool, PrepareMandatory, PrepareAdaptive, HandlerReturns, HandlerFails, EmitEvidence,
         Goto, Routed, Undecided, Deciding, Failures
<1>9. ~Environment /\ ~UNCHANGED vars
  BY <1>1, <1>3, <1>5
     DEF Environment, DeadlineFails, FailRun, LockResult, RevealCatalog, Crash, Resume, vars,
         Routed, Undecided, Deciding, Failures
<1> QED BY <1>6, <1>7, <1>8, <1>9 DEF Next, Driver

\* What VetInv says of an open run.
VetOpen == TestsAgree /\ CandidateAgrees /\ FailuresAgree /\ HaltsLast /\ SettlesLast

LEMMA VetRests ==
  ASSUME VetOpen, Rests
  PROVE  VetOpen'
<1>1. Prepared' = Prepared /\ Committed' = Committed /\ Missing' = Missing
  BY DEF Rests, Prepared, ActionsIn, Committed, Missing
<1>2. TestsAgree' /\ CandidateAgrees' /\ FailuresAgree'
  BY <1>1 DEF VetOpen, Rests, TestsAgree, CandidateAgrees, FailuresAgree
<1>3. HaltsLast' /\ SettlesLast'
  BY <1>1 DEF VetOpen, Rests, HaltsLast, SettlesLast, IsLast, Measuring, Calling
<1> QED BY <1>2, <1>3 DEF VetOpen

\* The evaluation leaves neither a halting nor, the baseline complete, a
\* decisive result behind.
LEMMA VetJudges ==
  ASSUME IInv, FitInv, VetOpen, EvaluateResult, ~CannotAdvance'
  PROVE  VetOpen'
<1> USE DEF IInv, StateInv
<1> DEFINE n == LastOf(RecordOf(Evaluated))
           r == ledger[n]
<1>0. /\ n \in DOMAIN ledger /\ Len(execs) \in DOMAIN execs /\ RecordOf(Len(execs)) = {n}
      /\ r.action = Len(execs) /\ r.tool = execs[Len(execs)].tool
  BY EvaluatedRecord DEF EvaluateResult, FitInv, LedgerMatchesExecutions
<1>1. \A m \in DOMAIN ledger : IsLast(m) => m = n
  BY <1>0 DEF IsLast, RecordOf
<1>2. r \in EvidenceRecords
  BY <1>0 DEF TypeOK
<1>3. status = "UPDATING_EVIDENCE" /\ Prepared = {}
  BY DEF EvaluateResult, FitInv, Measured, RunningMeansPrepared
<1>4. \A st \in Failures : \A a : ~Terminate(st, a)
  BY DEF Terminate, CannotAdvance, Closed
<1> HIDE DEF n
<1>5. /\ UNCHANGED <<done, candidate, ledger, disposition, execs>>
      /\ status' \in {status, "SELECTING_ADAPTIVE_EXPERIMENT", "VETTING_MANDATORY", "FINALIZING"}
      /\ ~Halts(r)
      /\ status' # "FINALIZING" =>
           \/ r.status = "PRECONDITION_FAILED" /\ r.tool \in Adaptive
           \/ Missing # {}
           \/ LedgerCodes \cap Decisive = {}
  <2>1. CASE /\ r.status = "PRECONDITION_FAILED" /\ r.tool \in Adaptive
             /\ SaveStatus("SELECTING_ADAPTIVE_EXPERIMENT", "idle") \/ Finalizing
    BY <2>1, ToolsAssumption
       DEF SaveStatus, Finalizing, science, budget, Halts, Usable, Successful
  <2>2. CASE /\ r.status \in Successful /\ Missing # {}
             /\ SaveStatus("VETTING_MANDATORY", "idle")
    BY <2>2 DEF SaveStatus, science, budget, Halts, Usable
  <2>3. CASE r.status \in Successful /\ Finalizing
    BY <2>3 DEF Finalizing, science, budget, Halts, Usable
  <2>4. CASE /\ r.status \in Successful /\ LedgerCodes \cap Decisive = {}
             /\ SaveStatus("SELECTING_ADAPTIVE_EXPERIMENT", "idle")
    BY <2>4 DEF SaveStatus, science, budget, Halts, Usable
  <2> QED BY <1>4, <2>1, <2>2, <2>3, <2>4 DEF EvaluateResult, n, Failures
<1>6. Prepared' = Prepared /\ Committed' = Committed /\ Missing' = Missing
  BY <1>5 DEF Prepared, ActionsIn, Committed, Missing
<1>7. TestsAgree' /\ CandidateAgrees' /\ FailuresAgree'
  BY <1>5, <1>6 DEF VetOpen, TestsAgree, CandidateAgrees, FailuresAgree
<1>8. HaltsLast'
  <2>1. \A m \in DOMAIN ledger : ~Halts(ledger[m])
    BY <1>1, <1>5 DEF VetOpen, HaltsLast
  <2> QED BY <1>5, <2>1 DEF HaltsLast
<1>9. SettlesLast'
  <2> SUFFICES ASSUME NEW m \in DOMAIN ledger, Settles(ledger[m]), status' # "FINALIZING",
                      Missing = {}
               PROVE  /\ status' \in Measuring
                      /\ IsLast(m) \/ execs[Len(execs)].tool \notin Adaptive
    BY <1>5, <1>6 DEF SettlesLast, IsLast
  <2>1. LedgerCodes \cap Decisive # {}
    BY DEF LedgerCodes, Settles
  <2>2. r.status = "PRECONDITION_FAILED" /\ r.tool \in Adaptive
    BY <1>5, <2>1
  <2>3. IsLast(m)
    BY <1>0, <1>3, <2>2 DEF VetOpen, SettlesLast
  <2>4. m = n
    BY <1>1, <2>3
  <2> QED BY <2>2, <2>4 DEF Settles, Usable, Successful
<1> QED BY <1>7, <1>8, <1>9 DEF VetOpen

\* What is committed is the record of the one open execution.
LEMMA CommitsRecord ==
  ASSUME IInv, RecoverFromLedger \/ CommitResult
  PROVE  \E n \in DOMAIN ledger : /\ ledger[n].action = Len(execs) /\ RecordOf(Len(execs)) = {n}
                                  /\ Commit(Len(execs), ledger[n])
<1> USE DEF IInv, StateInv
<1>1. \E n \in DOMAIN ledger : ledger[n].action = Len(execs) /\ Commit(Len(execs), ledger[n])
  <2>1. CASE RecoverFromLedger
    <3>1. PICK i \in Prepared : \E n \in RecordOf(i) : Commit(i, ledger[n])
      BY <2>1 DEF RecoverFromLedger
    <3>2. i = Len(execs)
      BY <3>1, LastPrepared
    <3> QED BY <3>1, <3>2 DEF RecordOf
  <2>2. CASE CommitResult
    <3>1. pc \in Ledgered
      BY <2>2 DEF CommitResult, Goto, Ledgered
    <3>2. LastOf(Prepared) = Len(execs)
      BY <3>1, LastPrepared DEF PhaseInv
    <3>3. Len(ledger) \in DOMAIN ledger /\ ledger[Len(ledger)].action = Len(execs)
      BY <3>1 DEF PhaseInv, TypeOK
    <3> QED BY <2>2, <3>2, <3>3 DEF CommitResult
  <2> QED BY <2>1, <2>2
<1> QED BY <1>1 DEF LedgerMatchesExecutions, RecordOf

LEMMA VetCommits ==
  ASSUME IInv, IInv', VetOpen, RecoverFromLedger \/ CommitResult
  PROVE  VetOpen'
<1> USE DEF IInv, StateInv
<1> DEFINE last == Len(execs)
<1>1. PICK n \in DOMAIN ledger : /\ ledger[n].action = last /\ RecordOf(last) = {n}
                                 /\ Commit(last, ledger[n])
  BY CommitsRecord
<1>2. Prepared = {last} /\ last \in DOMAIN execs /\ status = "RUNNING_TOOL"
  <2>1. Prepared # {}
    BY CommitsTheLast
  <2> QED BY <2>1, LastPrepared DEF Prepared, ActionsIn, RunningMeansPrepared
<1>3. /\ Prepared' = {} /\ status' = "UPDATING_EVIDENCE" /\ ledger' = ledger /\ SameExecs
      /\ RunningMeansPrepared'
  BY CommitsTheLast DEF RunningMeansPrepared, Calm
<1>4. Len(execs') = last /\ execs'[last].tool = execs[last].tool
  BY <1>2, <1>3 DEF SameExecs
<1>5. Committed' = Committed \cup {n} /\ n \notin Committed
  BY <1>1, <1>2, <1>3 DEF Committed, RecordOf
<1>6. ledger[n].tool = execs[last].tool /\ ledger[n] \in EvidenceRecords
  <2>1. ledger[n].tool = execs[ledger[n].action].tool
    BY <1>1 DEF LedgerMatchesExecutions
  <2>2. ledger[n] \in EvidenceRecords
    BY <1>1 DEF TypeOK
  <2> QED BY <1>1, <2>1, <2>2
<1>7. TestsAgree'
  <2>1. done' = IF ledger[n].tool \in Baseline /\ Usable(ledger[n])
                THEN done \cup {ledger[n].tool} ELSE done
    BY <1>1, <1>6 DEF Commit, Usable
  <2> QED BY <1>3, <1>5, <2>1 DEF VetOpen, TestsAgree, Usable
<1>8. CandidateAgrees'
  <2>1. candidate' = (candidate \/ (ledger[n].tool = Search /\ ledger[n].status = "SUCCESS"))
    BY <1>1, <1>6 DEF Commit
  <2> QED BY <1>3, <1>5, <2>1 DEF VetOpen, CandidateAgrees
<1>9. FailuresAgree'
  <2>1. execs' = [execs EXCEPT ![last].status = IF ledger[n].status = "FAILED" THEN "FAILED"
                                                                            ELSE "COMPLETED"]
    BY <1>1 DEF Commit
  <2>2. execs'[last].status = "FAILED" => ledger[n].status = "FAILED"
    BY <1>2, <2>1, ExecsShape DEF Executions
  <2>3. \A i \in DOMAIN execs \ {last} : execs'[i] = execs[i]
    BY <2>1
  <2>4. \A m \in Committed : ledger[m].action \in DOMAIN execs \ {last}
    BY <1>2 DEF Committed, LedgerMatchesExecutions
  <2> HIDE DEF last
  <2> QED BY <1>1, <1>3, <1>5, <2>2, <2>3, <2>4 DEF VetOpen, FailuresAgree
<1>10. HaltsLast'
  BY <1>3, <1>4 DEF VetOpen, HaltsLast, IsLast, Measuring
<1>11. SettlesLast'
  <2>1. execs[last].tool \in Adaptive => Missing = {}
    BY <1>2 DEF BaselineFirst, Missing
  <2> SUFFICES ASSUME NEW m \in DOMAIN ledger, Settles(ledger[m])
               PROVE  IsLast(m) \/ execs[last].tool \notin Adaptive
    BY <1>3, <1>4 DEF SettlesLast, IsLast, Measuring
  <2> QED BY <1>2, <2>1 DEF VetOpen, SettlesLast
<1> QED BY <1>7, <1>8, <1>9, <1>10, <1>11 DEF VetOpen

\* A result is written for the open execution only.
LEMMA RecordsLast ==
  ASSUME IInv, NEW o \in Outcomes, HandlerReturns(o)
  PROVE  /\ Prepared = {Len(execs)} /\ Len(execs) \in DOMAIN execs /\ RecordOf(Len(execs)) = {}
         /\ ledger' = Append(ledger, [action |-> Len(execs), tool |-> execs[Len(execs)].tool,
                                      status |-> o.status, code |-> o.code])
         /\ status = "RUNNING_TOOL"
         /\ UNCHANGED <<status, done, candidate, disposition, execs>>
<1> USE DEF IInv, StateInv
<1>1. pc \in Running
  BY DEF HandlerReturns, Goto, Running
<1>2. Prepared # {} /\ RecordOf(Len(execs)) = {}
  BY <1>1 DEF PhaseInv
<1>3. LastOf(Prepared) = Len(execs) /\ Prepared = {Len(execs)}
  BY <1>2, LastPrepared
<1> QED BY <1>2, <1>3 DEF HandlerReturns, budget, RunningMeansPrepared, Prepared, ActionsIn

LEMMA VetRecords ==
  ASSUME IInv, VetOpen, NEW o \in Outcomes, HandlerReturns(o)
  PROVE  VetOpen'
<1> USE DEF IInv, StateInv
<1> DEFINE last == Len(execs)
           new == [action |-> last, tool |-> execs[last].tool, status |-> o.status,
                   code |-> o.code]
<1>1. /\ Prepared = {last} /\ status = "RUNNING_TOOL" /\ ledger' = Append(ledger, new)
      /\ UNCHANGED <<status, done, candidate, disposition, execs>>
  BY RecordsLast
<1> HIDE DEF new
<1>2. /\ DOMAIN ledger' = DOMAIN ledger \cup {Len(ledger) + 1}
      /\ Len(ledger) + 1 \notin DOMAIN ledger /\ ledger'[Len(ledger) + 1] = new
      /\ \A n \in DOMAIN ledger : ledger'[n] = ledger[n]
  BY <1>1 DEF TypeOK
<1>3. new.action = last
  BY DEF new
<1>4. Prepared' = Prepared /\ Committed' = Committed /\ Missing' = Missing
  <2>1. Prepared' = Prepared /\ Missing' = Missing
    BY <1>1 DEF Prepared, ActionsIn, Missing
  <2> QED BY <1>1, <1>2, <1>3, <2>1 DEF Committed
<1>5. \A n \in Committed : n \in DOMAIN ledger
  BY DEF Committed
<1>6. TestsAgree' /\ CandidateAgrees' /\ FailuresAgree'
  BY <1>1, <1>2, <1>4, <1>5 DEF VetOpen, TestsAgree, CandidateAgrees, FailuresAgree
<1>7. HaltsLast' /\ SettlesLast'
  BY <1>1, <1>2, <1>3, <1>4 DEF VetOpen, HaltsLast, SettlesLast, IsLast, Measuring
<1> QED BY <1>6, <1>7 DEF VetOpen

LEMMA VetTakes ==
  ASSUME IInv, VetOpen, NEW tool \in Tools, Takes(tool)
  PROVE  VetOpen'
<1> USE DEF IInv, StateInv
<1> DEFINE new == [tool |-> tool, step |-> step, status |-> "PREPARED"]
<1>1. /\ Prepared = {} /\ status \in Calling /\ status' = "RUNNING_TOOL"
      /\ execs' = Append(execs, new) /\ UNCHANGED <<done, candidate, ledger, disposition>>
  BY DEF Takes
<1>2. /\ Len(execs') = Len(execs) + 1 /\ DOMAIN execs' = DOMAIN execs \cup {Len(execs) + 1}
      /\ execs'[Len(execs) + 1] = new /\ Len(execs) + 1 \notin DOMAIN execs
      /\ \A i \in DOMAIN execs : execs'[i] = execs[i]
  BY <1>1, ExecsShape
<1>3. Prepared' = {Len(execs) + 1}
  BY <1>1, <1>2 DEF Prepared, ActionsIn
<1>4. \A n \in DOMAIN ledger : ledger[n].action \in DOMAIN execs
  BY DEF LedgerMatchesExecutions
<1>5. Committed' = Committed /\ Committed = DOMAIN ledger /\ Missing' = Missing
  BY <1>1, <1>2, <1>3, <1>4 DEF Committed, Missing
<1>6. TestsAgree' /\ CandidateAgrees' /\ FailuresAgree'
  BY <1>1, <1>2, <1>4, <1>5 DEF VetOpen, TestsAgree, CandidateAgrees, FailuresAgree
<1>7. HaltsLast'
  BY <1>1 DEF VetOpen, HaltsLast, Measuring, Calling
<1>8. SettlesLast'
  <2>1. \A n \in DOMAIN ledger : Settles(ledger[n]) => Missing # {}
    BY <1>1 DEF VetOpen, SettlesLast, Measuring, Calling
  <2> QED BY <1>1, <1>5, <2>1 DEF SettlesLast
<1> QED BY <1>6, <1>7, <1>8 DEF VetOpen

LEMMA VetStep ==
  ASSUME IInv, IInv', FitInv, VetInv, [Next]_vars
  PROVE  VetInv'
<1>1. IsRouted'
  BY RoutedStep
<1>2. ASSUME ~CannotAdvance' PROVE VetOpen'
  <2>1. ~CannotAdvance
    BY <1>2, ClosedIsFrozen DEF Frozen, CannotAdvance, Closed
  <2>2. VetOpen
    BY <2>1 DEF VetInv, VetOpen
  <2>3. CASE Closes \/ Concludes
    BY <1>2, <2>3 DEF Closes, Concludes, Terminate, CannotAdvance, Closed
  <2> QED BY <1>2, <2>1, <2>2, <2>3, Deeds, VetRests, VetJudges, VetCommits, VetRecords, VetTakes
<1> QED BY <1>1, <1>2 DEF VetInv, VetOpen

LEMMA VetInit == Init => VetInv
<1> SUFFICES ASSUME Init PROVE VetInv
  OBVIOUS
<1>1. ledger = <<>> /\ DOMAIN ledger = {} /\ done = {} /\ ~candidate /\ pc = "idle"
  BY DEF Init
<1> QED BY <1>1 DEF VetInv, IsRouted, Routed, Undecided, Deciding, TestsAgree, CandidateAgrees,
                    FailuresAgree, HaltsLast, SettlesLast, Committed

LEMMA VetInvariant == Spec => []VetInv
<1>1. IInv /\ IInv' /\ FitInv /\ VetInv /\ [Next]_vars => VetInv'
  BY VetStep
<1> QED BY <1>1, VetInit, Inductive, FitInvariant, PTL DEF Spec

\* What the abstract run knows is what the ledger says,
LEMMA WhatIsKnown ==
  /\ \A n \in DOMAIN ledger :
       \E r \in Vet!Results : /\ r.tool = ledger[n].tool /\ r.status = ledger[n].status
                              /\ r.code = ledger[n].code
  /\ \A r \in Vet!Results :
       \E n \in DOMAIN ledger : /\ r.tool = ledger[n].tool /\ r.status = ledger[n].status
                                /\ r.code = ledger[n].code
<1> DEFINE of(n) == [tool |-> ledger[n].tool, status |-> ledger[n].status,
                     code |-> ledger[n].code]
<1>1. DOMAIN Measurements = DOMAIN ledger /\ \A n \in DOMAIN ledger : Measurements[n] = of(n)
  BY DEF Measurements
<1>2. Vet!Results = {of(n) : n \in DOMAIN ledger}
  BY <1>1 DEF Vet!Results
<1>3. \A n : of(n).tool = ledger[n].tool /\ of(n).status = ledger[n].status
             /\ of(n).code = ledger[n].code
  OBVIOUS
<1> HIDE DEF of
<1> QED BY <1>2, <1>3

\* and, with nothing open, what the nodes look at.
LEMMA WhatIsSeen ==
  ASSUME IInv, VetOpen, Prepared = {}
  PROVE  /\ Vet!Codes = LedgerCodes
         /\ Baseline \ {r.tool : r \in Vet!Usable} = Missing
         /\ candidate <=> \E r \in Vet!Results : r.tool = Search /\ r.status = "SUCCESS"
         /\ status \notin Measuring => ~Vet!Halted
         /\ status \in Calling /\ Missing = {} => ~Vet!Decided
         /\ \A t \in Vet!Measured :
              t \in Accepted \/ (\E n \in DOMAIN ledger : ledger[n].tool = t /\ ledger[n].status = "FAILED")
<1> USE DEF IInv, StateInv
<1>1. Committed = DOMAIN ledger
  BY DEF Committed
<1>2. Vet!Codes = LedgerCodes
  <2>1. \A c : c \in Vet!Codes <=> \E r \in Vet!Results : r.code = c
    BY DEF Vet!Codes
  <2>2. \A c : c \in LedgerCodes <=> \E n \in DOMAIN ledger : ledger[n].code = c
    BY DEF LedgerCodes
  <2>3. \A c : c \in Vet!Codes <=> c \in LedgerCodes
    BY <2>1, <2>2, WhatIsKnown
  <2> QED BY <2>3
<1>3. Baseline \ {r.tool : r \in Vet!Usable} = Missing
  <2>1. \A t : t \in {r.tool : r \in Vet!Usable} <=>
                 \E r \in Vet!Results : r.status \in Successful /\ r.tool = t
    BY DEF Vet!Usable
  <2>2. \A t \in Baseline : t \in done <=>
          \E n \in DOMAIN ledger : ledger[n].status \in Successful /\ ledger[n].tool = t
    BY <1>1 DEF VetOpen, TestsAgree, Usable
  <2>3. \A t \in Baseline : t \in {r.tool : r \in Vet!Usable} <=> t \in done
    BY <2>1, <2>2, WhatIsKnown
  <2> QED BY <2>3 DEF Missing
<1>4. candidate <=> \E r \in Vet!Results : r.tool = Search /\ r.status = "SUCCESS"
  BY <1>1, WhatIsKnown DEF VetOpen, CandidateAgrees
<1>5. ASSUME status \notin Measuring, Vet!Halted PROVE FALSE
  <2>1. PICK r \in Vet!Results : /\ r.status \notin Successful
                                 /\ r.tool \in Baseline \/ r.status # "PRECONDITION_FAILED"
    BY <1>5 DEF Vet!Halted, Vet!Usable
  <2>2. \E n \in DOMAIN ledger : Halts(ledger[n])
    BY <2>1, WhatIsKnown DEF Halts, Usable
  <2> QED BY <1>5, <2>2 DEF VetOpen, HaltsLast
<1>6. ASSUME status \in Calling, Missing = {}, Vet!Decided PROVE FALSE
  <2>1. PICK r \in Vet!Results : r.status \in Successful /\ r.code \in Decisive
    BY <1>6 DEF Vet!Decided, Vet!Usable
  <2>2. \E n \in DOMAIN ledger : Settles(ledger[n])
    BY <2>1, WhatIsKnown DEF Settles, Usable
  <2> QED BY <1>6, <2>2 DEF VetOpen, SettlesLast, Measuring, Calling
<1>7. ASSUME NEW t \in Vet!Measured
      PROVE  t \in Accepted
               \/ (\E n \in DOMAIN ledger : ledger[n].tool = t /\ ledger[n].status = "FAILED")
  <2>1. PICK n \in DOMAIN ledger : ledger[n].tool = t
    BY WhatIsKnown DEF Vet!Measured
  <2> DEFINE i == ledger[n].action
  <2>2. i \in DOMAIN execs /\ execs[i].tool = t
    BY <2>1 DEF LedgerMatchesExecutions
  <2>3. execs[i].status \in {"COMPLETED", "FAILED"}
    BY <2>2, ExecsShape DEF Executions, Prepared, ActionsIn
  <2>4. CASE execs[i].status = "COMPLETED"
    BY <2>2, <2>4 DEF Accepted, ActionsIn
  <2>5. CASE execs[i].status = "FAILED"
    BY <1>1, <2>1, <2>5 DEF VetOpen, FailuresAgree
  <2> QED BY <2>3, <2>4, <2>5
<1> QED BY <1>2, <1>3, <1>4, <1>5, <1>6, <1>7

\* A tool is in hand only while its execution runs.
LEMMA NothingInHand ==
  /\ Prepared = {} => InHand = {}
  /\ Prepared' = {} => InHand' = {}
  BY DEF InHand

LEMMA VetTakesTakes ==
  ASSUME IInv, IInv', VetOpen, NEW tool \in Tools, Takes(tool)
  PROVE  Vet!Take(tool)
<1> USE DEF IInv, StateInv
<1>1. /\ Prepared = {} /\ status \in Calling /\ status' = "RUNNING_TOOL"
      /\ UNCHANGED <<done, candidate, ledger, disposition>>
      /\ execs' = Append(execs, [tool |-> tool, step |-> step, status |-> "PREPARED"])
  BY DEF Takes
<1>2. Phase = "open" /\ Phase' = "open" /\ Measurements' = Measurements
  BY <1>1 DEF Phase, Open, Calling, Measurements
<1>3. InHand = {} /\ ~Vet!Halted
  BY <1>1, NothingInHand, WhatIsSeen DEF Measuring, Calling
<1>4. tool \notin Vet!Measured
  <2>1. \A n \in DOMAIN ledger : ledger[n].status # "FAILED"
    BY <1>1 DEF VetOpen, HaltsLast, Halts, Usable, Successful, Measuring, Calling
  <2> QED BY <1>1, <2>1, WhatIsSeen DEF Takes
<1>5. InHand' = {tool}
  <2>1. /\ Len(execs') = Len(execs) + 1 /\ Len(execs) + 1 \notin DOMAIN execs
        /\ execs'[Len(execs) + 1].tool = tool /\ execs'[Len(execs) + 1].status = "PREPARED"
        /\ Len(execs) + 1 \in DOMAIN execs'
    BY <1>1, ExecsShape
  <2>2. Prepared' = {Len(execs) + 1}
    BY <2>1 DEF RunningMeansPrepared, Prepared, ActionsIn
  <2>3. \A n \in DOMAIN ledger' : ledger'[n].action # Len(execs) + 1
    BY <1>1, <2>1 DEF LedgerMatchesExecutions
  <2>4. {j \in Prepared' : RecordOf(j)' = {}} = {Len(execs) + 1}
    BY <2>2, <2>3 DEF RecordOf
  <2>5. InHand' = {execs'[i].tool : i \in {j \in Prepared' : RecordOf(j)' = {}}}
    BY DEF InHand
  <2> QED BY <2>1, <2>4, <2>5
<1>6. IF tool \in Baseline
      THEN \A u \in Baseline \ {r.tool : r \in Vet!Usable} : tool <= u
      ELSE Vet!Complete /\ ~Vet!Decided
  BY <1>1, WhatIsSeen, ToolsAssumption DEF Takes, First, Vet!Complete
<1> QED BY <1>1, <1>2, <1>3, <1>4, <1>5, <1>6 DEF Vet!Take, Tools

LEMMA VetRecordsRecord ==
  ASSUME IInv, NEW o \in Outcomes, HandlerReturns(o)
  PROVE  \E tool \in Tools : Vet!Record(tool, o)
<1> USE DEF IInv, StateInv
<1> DEFINE tool == execs[Len(execs)].tool
           new == [action |-> Len(execs), tool |-> tool, status |-> o.status, code |-> o.code]
           short == [tool |-> tool, status |-> o.status, code |-> o.code]
<1>1. /\ Prepared = {Len(execs)} /\ Len(execs) \in DOMAIN execs /\ RecordOf(Len(execs)) = {}
      /\ status = "RUNNING_TOOL" /\ ledger' = Append(ledger, new)
      /\ UNCHANGED <<status, done, candidate, disposition, execs>>
  BY RecordsLast
<1>2. tool \in Tools
  BY <1>1, ExecsShape DEF Executions
<1>3. Phase = "open" /\ Phase' = "open"
  BY <1>1 DEF Phase, Open
<1>4. InHand = {tool}
  BY <1>1 DEF InHand
<1>5. /\ Len(ledger) \in Nat /\ DOMAIN ledger = 1..Len(ledger)
      /\ DOMAIN ledger' = 1..(Len(ledger) + 1) /\ ledger'[Len(ledger) + 1] = new
      /\ \A n \in DOMAIN ledger : ledger'[n] = ledger[n]
  BY <1>1 DEF TypeOK
<1>6. InHand' = {}
  <2>1. Len(ledger) + 1 \in RecordOf(Len(execs))'
    BY <1>1, <1>5 DEF RecordOf
  <2>2. Prepared' = {Len(execs)}
    BY <1>1 DEF Prepared, ActionsIn
  <2> QED BY <1>1, <2>1, <2>2 DEF InHand
<1>7. Measurements' = Append(Measurements, short)
  <2> DEFINE of(n) == [tool |-> ledger[n].tool, status |-> ledger[n].status,
                       code |-> ledger[n].code]
  <2>1. Measurements = [n \in 1..Len(ledger) |-> of(n)] /\ Measurements \in Seq({of(n) : n \in 1..Len(ledger)})
        /\ Len(Measurements) = Len(ledger)
    BY <1>5 DEF Measurements
  <2>2. Append(Measurements, short) =
          [n \in 1..(Len(ledger) + 1) |-> IF n = Len(ledger) + 1 THEN short ELSE Measurements[n]]
    BY <1>5, <2>1
  <2>3. Measurements' = [n \in 1..(Len(ledger) + 1) |-> IF n = Len(ledger) + 1 THEN short ELSE of(n)]
    BY <1>5 DEF Measurements
  <2> QED BY <1>5, <2>1, <2>2, <2>3
<1> QED BY <1>1, <1>2, <1>3, <1>4, <1>6, <1>7 DEF Vet!Record

LEMMA VetConcludes ==
  ASSUME IInv, IInv', FitInv, VetInv, ~CannotAdvance, Concludes
  PROVE  Vet!Conclude
<1> USE DEF IInv, StateInv
<1> DEFINE verdict == DispositionOf(LedgerCodes, candidate)
<1>1. Prepared = {} /\ Prepared' = {}
  BY DEF Concludes, PhaseInv, AfterRecovery, PcValues, AwaitPoints, Running, Ledgered,
         RunningMeansPrepared
<1>2. status \notin Measuring /\ VetOpen
  BY <1>1 DEF Concludes, VetInv, VetOpen, IsRouted, Routed, RunningMeansPrepared, Measuring
<1>3. InHand = {} /\ InHand' = {} /\ ~Vet!Halted
  BY <1>1, <1>2, NothingInHand, WhatIsSeen
<1>4. Vet!Complete
  BY <1>1, <1>2, WhatIsSeen DEF Vet!Complete, Concludes
<1>5. Phase = "open" /\ Phase' = "ready" /\ Measurements' = Measurements
  BY DEF Phase, CannotAdvance, TypeOK, Open, Concludes, Measurements
<1>6. Vet!Codes = LedgerCodes
      /\ (candidate <=> \E r \in Vet!Results : r.tool = Search /\ r.status = "SUCCESS")
  BY <1>1, <1>2, WhatIsSeen
<1>7. /\ verdict \in {"REJECTED", "WEAK", "SURVIVES"}
      /\ (verdict = "REJECTED") <=> (LedgerCodes \cap Rejecting # {})
      /\ (verdict = "WEAK") => (LedgerCodes \cap Weak # {}) /\ "WEAK_NOISY" \notin LedgerCodes
      /\ (verdict = "SURVIVES") =>
           /\ LedgerCodes \cap Weak = {} /\ "WEAK_NOISY" \notin LedgerCodes
           /\ "CLEAN_PLANET_LIKE" \in LedgerCodes \/ candidate
  BY ValuesAssumption DEF Concludes, DispositionOf
<1>8. disposition' = verdict
  BY DEF Concludes
<1> HIDE DEF verdict
<1> QED BY <1>3, <1>4, <1>5, <1>6, <1>7, <1>8 DEF Vet!Conclude

\* Every step is one of the abstract run or none.
LEMMA StepVets ==
  ASSUME IInv, IInv', FitInv, VetInv, [Next]_vars
  PROVE  [Vet!Next]_(Vet!vars)
<1> USE DEF IInv, StateInv
<1>1. CASE CannotAdvance
  <2>1. Frozen
    BY <1>1, ClosedIsFrozen
  <2>2. Prepared = {} /\ Prepared' = {}
    BY <1>1, <2>1 DEF RunningMeansPrepared, Frozen, CannotAdvance, Closed, Failures
  <2>3. InHand = {} /\ InHand' = {}
    BY <2>2, NothingInHand
  <2>4. Measurements' = Measurements /\ disposition' = disposition
    BY <2>1 DEF Frozen, science, Measurements
  <2>5. CASE UNCHANGED status
    BY <2>3, <2>4, <2>5 DEF Vet!vars, Phase
  <2>6. CASE status = "READY_TO_LOCK" /\ status' = "RESULT_LOCKED"
    <3>1. Phase = "ready" /\ Phase' = "locked"
      BY <2>6 DEF Phase, Open
    <3> QED BY <2>3, <2>4, <3>1 DEF Vet!Next, Vet!Lock
  <2>7. CASE status = "RESULT_LOCKED" /\ status' = "REVEALED"
    <3>1. Phase = "locked" /\ Phase' = "revealed"
      BY <2>7 DEF Phase, Open
    <3> QED BY <2>3, <2>4, <3>1 DEF Vet!Next, Vet!Reveal
  <2> QED BY <2>1, <2>5, <2>6, <2>7 DEF Frozen
<1>2. CASE ~CannotAdvance
  <2>0. status \in Open /\ Phase = "open" /\ VetOpen
    BY <1>2 DEF CannotAdvance, TypeOK, Phase, Open, VetInv, VetOpen
  <2>1. CASE Closes
    <3>1. PICK st \in Failures : \E a : Terminate(st, a)
      BY <2>1 DEF Closes
    <3>2. status' \in Failures /\ UNCHANGED science
      BY <3>1 DEF Terminate
    <3>3. Prepared' = {}
      BY <3>2 DEF RunningMeansPrepared, Failures
    <3>4. Phase' = "failed" /\ InHand' = {} /\ UNCHANGED <<Measurements, disposition>>
      BY <3>2, <3>3, NothingInHand DEF Phase, Open, Failures, science, Measurements
    <3> QED BY <2>0, <3>4 DEF Vet!Next, Vet!Fail
  <2>2. CASE Rests
    <3>1. Phase' = "open"
      BY <2>0, <2>2 DEF Rests, Phase, Calling, Open
    <3>2. InHand' = InHand /\ Measurements' = Measurements /\ disposition' = disposition
      BY <2>2 DEF Rests, InHand, Prepared, ActionsIn, RecordOf, Measurements
    <3> QED BY <2>0, <3>1, <3>2 DEF Vet!vars
  <2>3. CASE EvaluateResult
    <3>1. CASE Closes
      BY <2>1, <3>1
    <3>2. CASE status' \in Open /\ UNCHANGED <<science, execs>>
      <4>1. Phase' = "open"
        BY <3>2 DEF Phase, Open
      <4>2. InHand' = InHand /\ Measurements' = Measurements /\ disposition' = disposition
        BY <3>2 DEF InHand, Prepared, ActionsIn, RecordOf, Measurements, science
      <4> QED BY <2>0, <4>1, <4>2 DEF Vet!vars
    <3> QED BY <2>0, <2>3, <3>1, <3>2
         DEF EvaluateResult, Closes, SaveStatus, Finalizing, budget, Failures, Open
  <2>4. CASE RecoverFromLedger \/ CommitResult
    <3>1. Prepared' = {} /\ status' = "UPDATING_EVIDENCE" /\ ledger' = ledger
      BY <2>4, CommitsTheLast DEF RunningMeansPrepared
    <3>2. InHand = {} /\ InHand' = {}
      BY <2>4, <3>1, CommitsTheLast, LastPrepared, NothingInHand DEF InHand
    <3>3. disposition' = disposition
      BY <2>4, CommitsRecord DEF Commit
    <3> QED BY <2>0, <3>1, <3>2, <3>3 DEF Vet!vars, Phase, Open, Measurements
  <2>5. ASSUME NEW o \in Outcomes, HandlerReturns(o) PROVE Vet!Next
    BY <2>5, VetRecordsRecord DEF Vet!Next, Tools
  <2>6. ASSUME NEW tool \in Tools, Takes(tool) PROVE Vet!Next
    BY <2>0, <2>6, VetTakesTakes DEF Vet!Next, Tools
  <2>7. CASE Concludes
    BY <1>2, <2>7, VetConcludes DEF Vet!Next
  <2> QED BY <1>2, <2>1, <2>2, <2>3, <2>4, <2>5, <2>6, <2>7, Deeds
<1> QED BY <1>1, <1>2

\* The policy loop, with every crash, recovery and route, implements the vetting
\* of a target that is never interrupted: VetsAsPromised.
THEOREM Vets_AsPromised == Spec => VetsAsPromised
<1>1. Init => Vet!Init
  <2> SUFFICES ASSUME Init PROVE Vet!Init
    OBVIOUS
  <2>1. Prepared = {} /\ ledger = <<>> /\ status = "INITIALIZED" /\ disposition = None
    BY DEF Init, Prepared, ActionsIn
  <2>2. Measurements = <<>>
    BY <2>1 DEF Measurements
  <2> QED BY <2>1, <2>2, NothingInHand DEF Vet!Init, Phase, Open
<1>2. IInv /\ IInv' /\ FitInv /\ VetInv /\ [Next]_vars => [Vet!Next]_(Vet!vars)
  BY StepVets
<1> QED BY <1>1, <1>2, Inductive, FitInvariant, VetInvariant, PTL
     DEF Spec, VetsAsPromised, Vet!Spec

-----------------------------------------------------------------------------
(* Gaps.  Some saves have a second write that belongs to them: a decision   *)
(* has its record and its status, a result the event that ends its          *)
(* measurement.  Every node is shown to find what it needs wherever a crash *)
(* fell and the run was resumed, unless a crash fell into the one gap that  *)
(* its need is in.  Plain and Filed need no such condition.                 *)

Resting == {"INITIALIZED", "VETTING_MANDATORY", "SELECTING_ADAPTIVE_EXPERIMENT"}
Proposing == {"skeptic", "skeptic_saved", "skeptic_recorded"}
Reading == {"critic", "critic_saved", "critic_route", "prepare_adaptive"}
Selecting == {"SELECTING_ADAPTIVE_EXPERIMENT", "WAITING_FOR_CRITIC"}

\* Wherever it was resumed, a node meets a status it can go on from, but for
\* the PREPARED save of an adaptive tool, which may meet SELECTING.
Plain ==
  /\ status = "INITIALIZED" => done = {}
  /\ status = "VETTING_MANDATORY" => Missing # {}
  /\ status \in Selecting => Missing = {}
  /\ pc \in {"begun", "fresh", "mandatory"} => status \in Resting
  /\ pc = "mandatory" => Missing # {}
  /\ pc = "prepare_mandatory" => status = "VETTING_MANDATORY"
  /\ pc \in Proposing => status = "SELECTING_ADAPTIVE_EXPERIMENT"
  /\ pc \in Reading => status \in Selecting
  /\ pc = "finalize" => status \in Selecting \cup {"FINALIZING"}

\* The one change of status that may be refused.
Refused ==
  /\ pc = "prepare_adaptive" /\ status = "SELECTING_ADAPTIVE_EXPERIMENT"
  /\ Selected \notin Accepted /\ Step("raised")

\* The entries of the lifecycle table that the nodes rely on.
LEMMA LegalChanges ==
  /\ status \in {"INITIALIZED", "VETTING_MANDATORY", "UPDATING_EVIDENCE"} =>
       Legal("VETTING_MANDATORY")
  /\ status \in {"INITIALIZED", "SELECTING_ADAPTIVE_EXPERIMENT", "UPDATING_EVIDENCE"} =>
       Legal("SELECTING_ADAPTIVE_EXPERIMENT")
  /\ status = "SELECTING_ADAPTIVE_EXPERIMENT" => Legal("WAITING_FOR_CRITIC")
  /\ status \in {"VETTING_MANDATORY", "WAITING_FOR_CRITIC"} => Legal("RUNNING_TOOL")
  /\ status \in {"SELECTING_ADAPTIVE_EXPERIMENT", "WAITING_FOR_CRITIC", "FINALIZING"} =>
       Legal("READY_TO_LOCK")
<1>1. \A s \in {"INITIALIZED", "VETTING_MANDATORY", "UPDATING_EVIDENCE",
                "SELECTING_ADAPTIVE_EXPERIMENT", "WAITING_FOR_CRITIC", "FINALIZING"} :
        s \in Open \cup Closed
  BY DEF Open
<1>2. /\ Allowed["INITIALIZED"] = {"VETTING_MANDATORY", "UPDATING_EVIDENCE",
                                   "SELECTING_ADAPTIVE_EXPERIMENT"} \cup Failures
      /\ Allowed["VETTING_MANDATORY"] = {"RUNNING_TOOL"} \cup Failures
      /\ Allowed["SELECTING_ADAPTIVE_EXPERIMENT"] =
           {"WAITING_FOR_CRITIC", "READY_TO_LOCK"} \cup Failures
      /\ Allowed["WAITING_FOR_CRITIC"] = {"RUNNING_TOOL", "READY_TO_LOCK"} \cup Failures
      /\ Allowed["UPDATING_EVIDENCE"] =
           {"VETTING_MANDATORY", "SELECTING_ADAPTIVE_EXPERIMENT", "FINALIZING",
            "READY_TO_LOCK"} \cup Failures
      /\ Allowed["FINALIZING"] = {"READY_TO_LOCK"} \cup Failures
  BY <1>1 DEF Allowed
<1> QED BY <1>2 DEF Legal

\* A node that leaves the status and the tests alone.
LEMMA PlainMove ==
  ASSUME Plain, UNCHANGED <<status, done>>, pc' # "raised",
         pc' \in {"begun", "fresh", "mandatory"} => status \in Resting,
         pc' = "mandatory" => Missing # {},
         pc' = "prepare_mandatory" => status = "VETTING_MANDATORY",
         pc' \in Proposing => status = "SELECTING_ADAPTIVE_EXPERIMENT",
         pc' \in Reading => status \in Selecting,
         pc' = "finalize" => status \in Selecting \cup {"FINALIZING"}
  PROVE  Plain' /\ pc' # "raised"
  BY DEF Plain, Missing

\* A node that saves a status none of the others waits for.
LEMMA PlainSave ==
  ASSUME status' \notin Selecting \cup {"INITIALIZED", "VETTING_MANDATORY"},
         pc' \notin {"begun", "fresh", "mandatory", "prepare_mandatory", "raised"},
         pc' \notin Proposing \cup Reading,
         pc' = "finalize" => status' = "FINALIZING"
  PROVE  Plain' /\ pc' # "raised"
  BY DEF Plain

\* Nor does one that closes the run.
LEMMA PlainTerminate ==
  ASSUME NEW st \in Failures, NEW a, Terminate(st, a)
  PROVE  Plain' /\ pc' # "raised"
<1>1. status' = st /\ pc' = "idle"
  BY DEF Terminate
<1> QED BY <1>1, PlainSave DEF Failures, Selecting, Proposing, Reading

\* Where a resumed run finds a proposal, it is selecting.
LEMMA ProposalIsSelecting ==
  ASSUME IInv, FitInv, Plain, RouteProposal
  PROVE  status \in Selecting
<1> USE DEF IInv, StateInv
<1>1. pc = "route" /\ status # "FINALIZING" /\ ~PendingEvaluation /\ Proposed
  BY DEF RouteProposal
<1>2. ~CannotAdvance /\ Prepared = {}
  BY <1>1 DEF PhaseInv, AfterRecovery, PcValues, AwaitPoints, Running, Ledgered
<1>3. status # "RUNNING_TOOL"
  BY <1>2 DEF RunningMeansPrepared
<1>4. status # "UPDATING_EVIDENCE"
  BY <1>1, UpdatingIsPending DEF FitInv
<1>5. done = Baseline
  BY <1>1 DEF DecisionsOK, Proposed
<1>6. Missing = {} /\ done # {}
  BY <1>5, ToolsAssumption DEF Missing
<1>7. status \in Open
  BY <1>2 DEF TypeOK, CannotAdvance
<1> QED BY <1>1, <1>3, <1>4, <1>6, <1>7 DEF Plain, Open, Selecting

\* The driver's nodes,
LEMMA PlainCycle ==
  ASSUME IInv, FitInv, Plain, Cycle
  PROVE  Plain' /\ pc' # "raised"
<1> USE DEF IInv, StateInv
<1>1. ASSUME NEW st \in Failures, NEW a, Terminate(st, a) PROVE Plain' /\ pc' # "raised"
  BY <1>1, PlainTerminate
<1>2. CASE StartAdvance \/ NothingToRecover \/ Reexecute \/ EmitRecovery
  BY <1>2, PlainMove DEF StartAdvance, NothingToRecover, Reexecute, EmitRecovery, Goto, Step,
                         science, Proposing, Reading
<1>3. CASE RecoverFromLedger
  BY <1>3, CommitsTheLast, PlainSave DEF Selecting, Proposing, Reading
<1>4. CASE RouteDurable
  BY <1>4, PlainMove DEF RouteDurable, Step, science, Proposing, Reading
<1>5. CASE RouteProposal
  <2>1. /\ pc' \in Reading \cup {"finalize"} /\ pc' # "raised"
        /\ UNCHANGED <<status, done>>
    BY <1>5 DEF RouteProposal, Step, science, Reading
  <2> QED BY <1>5, <2>1, ProposalIsSelecting, PlainMove DEF Reading, Proposing
<1>6. CASE BeginCycle
  <2>1. CASE Terminate("BUDGET_EXHAUSTED", 0)
    BY <1>1, <2>1 DEF Failures
  <2>2. CASE pc' = "begun" /\ UNCHANGED <<status, science>>
    <3>1. status \in Open /\ status # "UPDATING_EVIDENCE"
      BY <1>6, UpdatingIsPending
         DEF BeginCycle, RequiresBegin, FitInv, PhaseInv, CannotAdvance, TypeOK
    <3>2. status \in Resting
      BY <1>6, <3>1 DEF BeginCycle, RequiresBegin, Open, Resting
    <3> QED BY <2>2, <3>2, PlainMove DEF science, Proposing, Reading
  <2> QED BY <1>6, <2>1, <2>2 DEF BeginCycle
<1>7. CASE EmitBudget
  BY <1>7, PlainMove DEF EmitBudget, Goto, Plain, science, Proposing, Reading
<1>8. CASE FreshRoute
  <2>1. status \in Resting
    <3>1. status \in Open /\ (pc = "route" => status # "UPDATING_EVIDENCE")
      BY <1>8, UpdatingIsPending DEF FreshRoute, FitInv, PhaseInv, CannotAdvance, TypeOK
    <3> QED BY <1>8, <3>1 DEF FreshRoute, Plain, Open, Resting
  <2>2. Missing = {} => status = "SELECTING_ADAPTIVE_EXPERIMENT"
    BY <2>1, ToolsAssumption DEF Plain, Missing, Resting
  <2>3. CASE Missing # {} /\ Step("mandatory")
    BY <2>1, <2>3, PlainMove DEF Step, science, Proposing, Reading
  <2>4. CASE Step("terminate")
    BY <2>4, PlainMove DEF Step, science, Proposing, Reading
  <2>5. CASE Missing = {} /\ Step("finalize")
    BY <2>2, <2>5, PlainMove DEF Step, science, Proposing, Reading, Selecting
  <2>6. CASE Missing = {} /\ SaveStatus("SELECTING_ADAPTIVE_EXPERIMENT", "skeptic")
    <3>1. pc' = "skeptic" /\ UNCHANGED <<status, done>>
      BY <2>2, <2>6, LegalChanges DEF SaveStatus, science
    <3> QED BY <2>2, <2>6, <3>1, PlainMove DEF Proposing, Reading
  <2> QED BY <1>8, <2>3, <2>4, <2>5, <2>6 DEF FreshRoute
<1>9. CASE RunMandatory
  <2>1. Missing # {} /\ status \in {"INITIALIZED", "VETTING_MANDATORY"}
    BY <1>9 DEF RunMandatory, Plain, Resting, Selecting
  <2>2. status' = "VETTING_MANDATORY" /\ pc' = "prepare_mandatory" /\ done' = done
    BY <1>9, <2>1, LegalChanges DEF RunMandatory, SaveStatus, science
  <2> QED BY <2>1, <2>2 DEF Plain, Missing, Selecting, Proposing, Reading
<1>10. CASE EvaluateResult
  <2>1. status = "UPDATING_EVIDENCE" /\ pc = "evaluate"
    BY <1>10 DEF EvaluateResult, FitInv, Measured
  <2>2. CASE \E st \in Failures : \E a : Terminate(st, a)
    BY <1>1, <2>2
  <2>3. CASE Finalizing
    BY <2>3, PlainSave DEF Finalizing, Selecting, Proposing, Reading
  <2>4. CASE Missing # {} /\ SaveStatus("VETTING_MANDATORY", "idle")
    <3>1. status' = "VETTING_MANDATORY" /\ pc' = "idle" /\ done' = done
      BY <2>1, <2>4, LegalChanges DEF SaveStatus, science
    <3> QED BY <2>4, <3>1 DEF Plain, Missing, Selecting, Proposing, Reading
  <2>5. CASE Missing = {} /\ SaveStatus("SELECTING_ADAPTIVE_EXPERIMENT", "idle")
    <3>1. status' = "SELECTING_ADAPTIVE_EXPERIMENT" /\ pc' = "idle" /\ done' = done
      BY <2>1, <2>5, LegalChanges DEF SaveStatus, science
    <3> QED BY <2>5, <3>1 DEF Plain, Missing, Selecting, Proposing, Reading
  <2>6. \/ \E st \in Failures : \E a : Terminate(st, a)
        \/ Finalizing
        \/ Missing # {} /\ SaveStatus("VETTING_MANDATORY", "idle")
        \/ Missing = {} /\ SaveStatus("SELECTING_ADAPTIVE_EXPERIMENT", "idle")
    <3> HIDE DEF IInv
    <3> QED BY <1>10, MeasuredTool DEF EvaluateResult, Failures, FitInv
  <2> QED BY <2>2, <2>3, <2>4, <2>5, <2>6
<1>11. CASE Finalize
  <2>1. status \in Selecting \cup {"FINALIZING"}
    BY <1>11 DEF Finalize, Plain
  <2>2. Legal("READY_TO_LOCK")
    BY <2>1, LegalChanges DEF Selecting
  <2>3. CASE \E st \in Failures : Terminate(st, 0)
    BY <1>1, <2>3
  <2>4. CASE status' = "READY_TO_LOCK" /\ pc' = "idle"
    BY <2>4, PlainSave DEF Selecting, Proposing, Reading
  <2> QED BY <1>11, <2>2, <2>3, <2>4 DEF Finalize, Failures
<1>12. CASE TerminateCycle \/ ExceptionFails
  BY <1>1, <1>12 DEF TerminateCycle, ExceptionFails, FailRun, Failures
<1> QED BY <1>2, <1>3, <1>4, <1>5, <1>6, <1>7, <1>8, <1>9, <1>10, <1>11, <1>12 DEF Cycle

\* those of the agents,
LEMMA PlainAgent ==
  ASSUME IInv, Plain, Agent
  PROVE  Plain' /\ pc' # "raised"
<1>1. CASE \E r \in Requests : SkepticDecides(r)
  BY <1>1, PlainMove DEF SkepticDecides, Goto, Plain, science, Proposing, Reading
<1>2. CASE SkepticRecorded \/ CriticRecorded
  BY <1>2, PlainMove DEF SkepticRecorded, CriticRecorded, RecordDecision, Goto, Plain, science,
                         Proposing, Reading
<1>3. CASE SkepticWaits
  <2>1. status = "SELECTING_ADAPTIVE_EXPERIMENT" /\ Missing = {}
    BY <1>3 DEF SkepticWaits, Plain, Proposing, Selecting
  <2>2. status' = "WAITING_FOR_CRITIC" /\ pc' = "critic" /\ done' = done
    BY <1>3, <2>1, LegalChanges DEF SkepticWaits, SaveStatus, science
  <2> QED BY <2>1, <2>2 DEF Plain, Missing, Selecting, Proposing, Reading
<1>4. CASE \E v \in Verdicts, r \in Requests \cup {None} : CriticDecides(v, r)
  BY <1>4, PlainMove DEF CriticDecides, Goto, Plain, science, Proposing, Reading
<1>5. CASE \E st \in Failures : InferenceAborts(st)
  BY <1>5, PlainTerminate DEF InferenceAborts
<1>6. CASE ResolveCritic
  <2>1. CASE Terminate("BUDGET_EXHAUSTED", 0)
    BY <2>1, PlainTerminate DEF Failures
  <2>2. CASE pc' \in {"finalize", "prepare_adaptive"} /\ UNCHANGED <<status, science>>
    BY <1>6, <2>2, PlainMove DEF ResolveCritic, Plain, science, Proposing, Reading
  <2> QED BY <1>6, <2>1, <2>2 DEF ResolveCritic
<1> QED BY <1>1, <1>2, <1>3, <1>4, <1>5, <1>6 DEF Agent

\* of the tools,
LEMMA PlainTool ==
  ASSUME IInv, Plain, Tool
  PROVE  Plain' /\ (pc' = "raised" => Refused)
<1>1. CASE PrepareMandatory
  <2>1. status = "VETTING_MANDATORY" /\ Legal("RUNNING_TOOL")
    BY <1>1, LegalChanges DEF PrepareMandatory, Plain
  <2>2. \/ \E st \in Failures : Terminate(st, 0)
        \/ status' = "RUNNING_TOOL" /\ pc' = "running"
    BY <1>1, <2>1 DEF PrepareMandatory, Prepare, Refusal, Failures
  <2> QED BY <2>2, PlainTerminate, PlainSave DEF Selecting, Proposing, Reading
<1>2. CASE PrepareAdaptive
  <2>1. pc = "prepare_adaptive" /\ status \in Selecting
    BY <1>2 DEF PrepareAdaptive, Plain, Reading
  <2>2. status = "WAITING_FOR_CRITIC" => Legal("RUNNING_TOOL")
    BY LegalChanges
  <2>3. Refusal(Selected, TRUE) = {} => Selected \notin Accepted
    BY DEF Refusal
  <2>4. \/ \E st \in Failures : Terminate(st, 0)
        \/ status' = "RUNNING_TOOL" /\ pc' = "running"
        \/ Refusal(Selected, TRUE) = {} /\ ~Legal("RUNNING_TOOL") /\ Step("raised")
    BY <1>2 DEF PrepareAdaptive, Prepare, Refusal, Failures
  <2>5. CASE Refusal(Selected, TRUE) = {} /\ ~Legal("RUNNING_TOOL") /\ Step("raised")
    <3>1. Refused
      BY <2>1, <2>2, <2>3, <2>5 DEF Refused, Selecting
    <3>2. UNCHANGED <<status, done>> /\ pc' = "raised"
      BY <2>5 DEF Step, science
    <3> QED BY <3>1, <3>2 DEF Plain, Missing, Proposing, Reading
  <2> QED BY <2>4, <2>5, PlainTerminate, PlainSave DEF Selecting, Proposing, Reading
<1>3. CASE \E o \in Outcomes : HandlerReturns(o)
  BY <1>3, PlainMove DEF HandlerReturns, Goto, Proposing, Reading
<1>4. CASE HandlerFails
  BY <1>4, PlainTerminate DEF HandlerFails, Failures
<1>5. CASE CommitResult
  BY <1>5, CommitsTheLast, PlainSave DEF Selecting, Proposing, Reading
<1>6. CASE EmitEvidence
  BY <1>6, PlainMove DEF EmitEvidence, Goto, science, Proposing, Reading
<1> QED BY <1>1, <1>2, <1>3, <1>4, <1>5, <1>6 DEF Tool

\* and whatever goes on around them.
LEMMA PlainStep ==
  ASSUME IInv, FitInv, Plain, Next
  PROVE  Plain' /\ (pc' = "raised" => Refused)
<1>1. CASE DeadlineFails
  BY <1>1, PlainTerminate DEF DeadlineFails, FailRun, Failures
<1>2. CASE LockResult \/ RevealCatalog
  <2>1. pc \in {"idle", "down"} /\ pc' = pc /\ status' \in {"RESULT_LOCKED", "REVEALED"}
    BY <1>2 DEF IInv, PhaseInv, CannotAdvance, Closed, LockResult, RevealCatalog
  <2> QED BY <2>1, PlainSave DEF Selecting, Proposing, Reading
<1>3. CASE Crash \/ Resume
  BY <1>3, PlainMove DEF Crash, Resume, Step, science, Proposing, Reading
<1> QED BY <1>1, <1>2, <1>3, PlainCycle, PlainAgent, PlainTool DEF Next, Driver, Environment

\* What a node may do to the status of an open run.
LEMMA StatusMoves ==
  ASSUME IInv, FitInv, Plain, Next
  PROVE  \/ UNCHANGED status
         \/ status' \in Closed
         \/ status \in Resting
         \/ Prepares
         \/ status = "RUNNING_TOOL" /\ status' = "UPDATING_EVIDENCE" /\ pc' \in EventGap
         \/ pc = "evaluate" /\ status = "UPDATING_EVIDENCE"
         \/ pc = "skeptic_recorded"
<1> USE DEF IInv, StateInv
<1>1. ASSUME NEW st \in Failures, NEW a, Terminate(st, a) PROVE status' \in Closed
  BY <1>1 DEF Terminate, Closed
<1>2. CASE RecoverFromLedger \/ CommitResult
  BY <1>2, CommitsTheLast DEF RunningMeansPrepared, EventGap
<1>3. CASE Cycle /\ ~RecoverFromLedger
  <2>1. CASE FreshRoute
    <3>1. status \in Resting
      <4>1. status \in Open /\ (pc = "route" => status # "UPDATING_EVIDENCE")
        BY <2>1, UpdatingIsPending DEF FreshRoute, FitInv, PhaseInv, CannotAdvance, TypeOK
      <4> QED BY <2>1, <4>1 DEF FreshRoute, Plain, Open, Resting
    <3> QED BY <3>1
  <2>2. CASE RunMandatory
    BY <2>2 DEF RunMandatory, Plain
  <2>3. CASE EvaluateResult
    BY <2>3 DEF EvaluateResult, FitInv, Measured
  <2>4. CASE BeginCycle \/ Finalize \/ TerminateCycle \/ ExceptionFails
    BY <1>1, <2>4 DEF BeginCycle, Finalize, TerminateCycle, ExceptionFails, FailRun, Step,
                      Failures, Closed
  <2>5. CASE StartAdvance \/ NothingToRecover \/ Reexecute \/ EmitRecovery \/ RouteDurable
             \/ RouteProposal \/ EmitBudget
    BY <2>5 DEF StartAdvance, NothingToRecover, Reexecute, EmitRecovery, RouteDurable,
                RouteProposal, EmitBudget, Step
  <2> QED BY <1>3, <2>1, <2>2, <2>3, <2>4, <2>5 DEF Cycle
<1>4. CASE Agent
  BY <1>1, <1>4 DEF Agent, SkepticDecides, SkepticRecorded, SkepticWaits, CriticRecorded,
     CriticDecides, RecordDecision, InferenceAborts, ResolveCritic, SaveStatus, Failures
<1>5. CASE PrepareMandatory \/ PrepareAdaptive
  <2>1. PICK tool \in Tools, adaptive \in BOOLEAN :
          /\ Prepare(tool, adaptive)
          /\ \/ pc = "prepare_mandatory" /\ tool \notin Adaptive
             \/ pc = "prepare_adaptive" /\ tool \in Adaptive /\ Proposed /\ Reviewed
    BY <1>5, SelectedIsTool, ToolsAssumption DEF PrepareMandatory, PrepareAdaptive, Tools
  <2>2. \/ \E st \in Failures : Terminate(st, 0)
        \/ Step("raised")
        \/ /\ status' = "RUNNING_TOOL" /\ pc' = "running"
           /\ execs' = Append(execs, [tool |-> tool, step |-> step, status |-> "PREPARED"])
           /\ UNCHANGED <<science, step, agents, pendingFinal, trace, crashes>>
    BY <2>1 DEF Prepare, Refusal, Failures
  <2> QED BY <1>1, <2>1, <2>2 DEF Prepares, Step
<1>6. CASE Tool /\ ~CommitResult /\ ~PrepareMandatory /\ ~PrepareAdaptive
  BY <1>1, <1>6 DEF Tool, HandlerReturns, HandlerFails, EmitEvidence, Failures
<1>7. CASE Environment
  BY <1>1, <1>7 DEF Environment, DeadlineFails, FailRun, LockResult, RevealCatalog, Crash,
                    Resume, Step, Failures, Closed
<1> QED BY <1>2, <1>3, <1>4, <1>5, <1>6, <1>7 DEF Next, Driver, Tool

\* A crash that fell into a gap has fallen there for good.
LEMMA FellStays ==
  ASSUME TypeOK, [Next]_vars, NEW gap \in SUBSET Gaps
  PROVE  /\ Fell(gap) => Fell(gap)'
         /\ Crash /\ pc \in gap => Fell(gap)'
<1>1. CASE Crash
  <2>1. /\ \A n \in DOMAIN crashes : n \in DOMAIN crashes' /\ crashes'[n] = crashes[n]
        /\ pc \in Gaps => Len(crashes') \in DOMAIN crashes' /\ crashes'[Len(crashes')] = pc
    BY <1>1, CrashIsCounted
  <2> QED BY <2>1 DEF Fell
<1>2. CASE ~Crash
  <2>1. crashes' = crashes
    BY <1>2 DEF Next, Driver, Cycle, Agent, Tool, Environment, StartAdvance, NothingToRecover,
       RecoverFromLedger, Reexecute, EmitRecovery, RouteDurable, RouteProposal, BeginCycle,
       EmitBudget, FreshRoute, RunMandatory, EvaluateResult, Finalize, TerminateCycle,
       ExceptionFails, FailRun, Step, SaveStatus, Terminate, Finalizing, Commit,
       SkepticDecides, SkepticRecorded, SkepticWaits, CriticRecorded, CriticDecides,
       RecordDecision, InferenceAborts, ResolveCritic, PrepareMandatory, PrepareAdaptive,
       Prepare, HandlerReturns, HandlerFails, CommitResult, EmitEvidence, DeadlineFails,
       LockResult, RevealCatalog, Resume, vars
  <2> QED BY <1>2, <2>1 DEF Fell
<1> QED BY <1>1, <1>2

\* A stopped run stays stopped.
LEMMA ClosedStays ==
  ASSUME IInv, [Next]_vars, status \in Closed
  PROVE  status' \in Closed
<1>1. Frozen
  BY ClosedIsFrozen DEF CannotAdvance
<1> QED BY <1>1 DEF Frozen, Closed

\* In a gap the process writes on, or it crashes: nothing awaits there.
LEMMA InGap ==
  ASSUME IInv, Next, pc \in Gaps
  PROVE  \/ Crash \/ EmitRecovery \/ EmitEvidence
         \/ SkepticRecorded \/ SkepticWaits \/ CriticRecorded
<1>0. pc \in {"skeptic_saved", "skeptic_recorded", "critic_saved", "committed", "recommitted",
              "recovered"}
  BY DEF Gaps, RecordGap, StatusGap, EventGap
<1>1. Cycle => EmitRecovery
  BY <1>0 DEF Cycle, StartAdvance, NothingToRecover, RecoverFromLedger, Reexecute, EmitRecovery,
     RouteDurable, RouteProposal, BeginCycle, EmitBudget, FreshRoute, RunMandatory,
     EvaluateResult, Finalize, TerminateCycle, ExceptionFails, Goto
<1>2. Agent => SkepticRecorded \/ SkepticWaits \/ CriticRecorded
  BY <1>0 DEF Agent, SkepticDecides, CriticDecides, InferenceAborts, ResolveCritic, Goto
<1>3. Tool => EmitEvidence
  BY <1>0 DEF Tool, PrepareMandatory, PrepareAdaptive, HandlerReturns, HandlerFails,
     CommitResult, EmitEvidence, Goto
<1>4. Environment => Crash
  BY <1>0 DEF Environment, DeadlineFails, AwaitPoints, LockResult, RevealCatalog, Resume,
     IInv, PhaseInv, CannotAdvance, Closed
<1> QED BY <1>1, <1>2, <1>3, <1>4 DEF Next, Driver

\* Whoever leaves a decision alone leaves all of them alone.
LEMMA Undeciding ==
  ASSUME Next, ~(\E r \in Requests : SkepticDecides(r)),
         ~(\E v \in Verdicts, r \in Requests \cup {None} : CriticDecides(v, r))
  PROVE  UNCHANGED <<proposal, review>>
<1>1. CASE Cycle
  BY <1>1 DEF Cycle, StartAdvance, NothingToRecover, RecoverFromLedger, Reexecute, EmitRecovery,
     RouteDurable, RouteProposal, BeginCycle, EmitBudget, FreshRoute, RunMandatory,
     EvaluateResult, Finalize, TerminateCycle, ExceptionFails, FailRun, Step, SaveStatus,
     Terminate, Finalizing, Commit, agents
<1>2. CASE Agent
  BY <1>2 DEF Agent, SkepticRecorded, SkepticWaits, CriticRecorded, RecordDecision,
     InferenceAborts, ResolveCritic, SaveStatus, Terminate, agents
<1>3. CASE Tool \/ Environment
  BY <1>3 DEF Tool, Environment, PrepareMandatory, PrepareAdaptive, Prepare, HandlerReturns,
     HandlerFails, CommitResult, Commit, EmitEvidence, DeadlineFails, FailRun, LockResult,
     RevealCatalog, Crash, Resume, Step, Terminate, agents
<1> QED BY <1>1, <1>2, <1>3 DEF Next, Driver

(* StatusGap: an adaptive tool is prepared only while WAITING_FOR_CRITIC.  *)

\* The step's adaptive tool has been prepared.
Tried == LastIsNow /\ execs[Len(execs)].tool \in Adaptive
\* A proposal is in the status it is to be judged in, or behind it.
Asks ==
  /\ pc # "raised"
  /\ Proposed => \/ pc \in StatusGap
                 \/ status \in {"WAITING_FOR_CRITIC"} \cup Closed
                 \/ Tried
\* An open run has evidence of each failed execution.
Filed == ~CannotAdvance => \A i \in ActionsIn("FAILED") : RecordOf(i) # {}

\* Only a commit fails an execution and leaves the run open, and it has its record.
LEMMA FiledStep ==
  ASSUME IInv, FitInv, VetInv, Filed, [Next]_vars
  PROVE  Filed'
<1> USE DEF IInv, StateInv
<1> SUFFICES ASSUME ~CannotAdvance', NEW i \in ActionsIn("FAILED")' PROVE RecordOf(i)' # {}
  BY DEF Filed
<1>1. ~CannotAdvance
  BY ClosedStays DEF CannotAdvance
<1>2. CASE Closes
  BY <1>2 DEF Closes, Terminate, CannotAdvance, Closed
<1>3. CASE UNCHANGED <<execs, ledger>>
  BY <1>1, <1>3 DEF Filed, ActionsIn, RecordOf
<1>4. CASE RecoverFromLedger \/ CommitResult
  <2>1. PICK n \in DOMAIN ledger : /\ ledger[n].action = Len(execs) /\ Commit(Len(execs), ledger[n])
    BY <1>4, CommitsRecord
  <2>2. ledger' = ledger
    BY <2>1 DEF Commit
  <2>3. CASE i = Len(execs)
    BY <2>1, <2>2, <2>3 DEF RecordOf
  <2>4. CASE i # Len(execs)
    <3>1. i \in ActionsIn("FAILED")
      BY <2>1, <2>4, ExecsShape DEF Commit, ActionsIn
    <3> QED BY <1>1, <2>2, <3>1 DEF Filed, RecordOf
  <2> QED BY <2>3, <2>4
<1>5. ASSUME NEW o \in Outcomes, HandlerReturns(o) PROVE RecordOf(i)' # {}
  <2>1. execs' = execs /\ \E r : ledger' = Append(ledger, r)
    BY <1>5, RecordsLast
  <2>2. \A n \in DOMAIN ledger : n \in DOMAIN ledger' /\ ledger'[n] = ledger[n]
    BY <2>1 DEF TypeOK
  <2>3. i \in ActionsIn("FAILED")
    BY <2>1 DEF ActionsIn
  <2> QED BY <1>1, <2>2, <2>3 DEF Filed, RecordOf
<1>6. ASSUME NEW tool \in Tools, Takes(tool) PROVE RecordOf(i)' # {}
  <2> DEFINE new == [tool |-> tool, step |-> step, status |-> "PREPARED"]
  <2>1. execs' = Append(execs, new) /\ ledger' = ledger
    BY <1>6 DEF Takes
  <2>2. \A n \in DOMAIN execs' : execs'[n] = new \/ (n \in DOMAIN execs /\ execs'[n] = execs[n])
    BY <2>1, ExecsShape
  <2>3. i \in ActionsIn("FAILED")
    BY <2>2 DEF ActionsIn
  <2> QED BY <1>1, <2>1, <2>3 DEF Filed, RecordOf
<1>7. CASE EvaluateResult
  <2>1. Closes \/ UNCHANGED <<execs, ledger>>
    BY <1>7 DEF EvaluateResult, SaveStatus, Finalizing, Closes, Failures, budget, science
  <2> QED BY <1>2, <1>3, <2>1
<1>8. CASE Rests \/ Concludes
  BY <1>3, <1>8 DEF Rests, Concludes
<1> HIDE DEF IInv, StateInv
<1> QED BY <1>1, <1>2, <1>4, <1>5, <1>6, <1>7, <1>8, Deeds

\* The step's tool, once tried, is accepted, or its failure closes the run.
LEMMA NotRefused ==
  ASSUME IInv, VetInv, Filed, Tried PROVE ~Refused
<1> USE DEF IInv, StateInv
<1> SUFFICES ASSUME Refused PROVE FALSE
  OBVIOUS
<1> DEFINE last == Len(execs)
<1>1. last \in DOMAIN execs /\ execs[last].step = step /\ execs[last].tool \in Adaptive
  BY ExecsShape DEF Tried, LastIsNow
<1>2. execs[last].tool = Selected
  BY <1>1 DEF AdaptiveWasApproved, Selected
<1>3. status = "SELECTING_ADAPTIVE_EXPERIMENT" /\ Selected \notin Accepted
  BY DEF Refused
<1>4. ~CannotAdvance /\ Prepared = {}
  BY <1>3 DEF CannotAdvance, Closed, Failures, RunningMeansPrepared
<1>5. last \in ActionsIn("FAILED")
  <2>1. execs[last].status \in {"PREPARED", "COMPLETED", "FAILED"}
    BY <1>1, ExecsShape DEF Executions
  <2>2. execs[last].status # "PREPARED"
    BY <1>1, <1>4 DEF Prepared, ActionsIn
  <2>3. execs[last].status # "COMPLETED"
    BY <1>1, <1>2, <1>3 DEF Accepted, ActionsIn
  <2> QED BY <1>1, <2>1, <2>2, <2>3 DEF ActionsIn
<1>6. PICK n \in DOMAIN ledger : ledger[n].action = last
  BY <1>4, <1>5 DEF Filed, RecordOf
<1>7. ledger[n].status = "FAILED"
  BY <1>4, <1>5, <1>6 DEF VetInv, FailuresAgree, Committed, ActionsIn
<1>8. status \in Measuring
  BY <1>4, <1>6, <1>7 DEF VetInv, HaltsLast, Halts, Usable, Successful
<1> QED BY <1>3, <1>8 DEF Measuring

\* So no proposal meets a status that refuses it.
LEMMA AsksStep ==
  ASSUME IInv, FitInv, VetInv, Plain, Filed, Asks, Next, ~Fell(StatusGap)'
  PROVE  Asks'
<1> USE DEF IInv, StateInv
<1>1. ~(Crash /\ pc \in StatusGap)
  BY FellStays DEF Gaps
<1>2. pc' # "raised"
  <2> SUFFICES ASSUME Refused PROVE FALSE
    BY PlainStep
  <2>1. Proposed /\ pc \notin StatusGap /\ status = "SELECTING_ADAPTIVE_EXPERIMENT"
    BY DEF Refused, PhaseInv, Deciding, StatusGap
  <2>2. Tried
    BY <2>1 DEF Asks, Closed, Failures
  <2> QED BY <2>2, NotRefused
<1>3. CASE \E r \in Requests : SkepticDecides(r)
  BY <1>2, <1>3 DEF SkepticDecides, Goto, StatusGap, Asks
<1>4. CASE ~(\E r \in Requests : SkepticDecides(r))
  <2> SUFFICES ASSUME Proposed'
               PROVE  \/ pc' \in StatusGap
                      \/ status' \in {"WAITING_FOR_CRITIC"} \cup Closed
                      \/ Tried'
    BY <1>2 DEF Asks
  <2>1. proposal' = proposal
    BY <1>4, Undeciding DEF CriticDecides
  <2>2. ~Opens
    <3> SUFFICES ASSUME Opens PROVE FALSE
      OBVIOUS
    <3>1. step' = step + 1 /\ step \in Nat
      BY DEF Opens, TypeOK
    <3>2. step' > step /\ step' \in Steps /\ proposal[step'] # None
      BY <2>1, <3>1 DEF Proposed
    <3> QED BY <3>2 DEF DecisionsOK
  <2>3. (Calm \/ Emits \/ Prepares) /\ step' = step
    BY <2>2, Effects DEF Calm, Emits, Prepares, budget
  <2>4. Proposed
    BY <2>1, <2>3 DEF Proposed
  <2>5. CASE Prepares
    <3>1. PICK tool \in Tools :
            /\ pc = "prepare_mandatory" \/ tool \in Adaptive
            /\ execs' = Append(execs, [tool |-> tool, step |-> step, status |-> "PREPARED"])
      BY <2>5 DEF Prepares
    <3>2. pc # "prepare_mandatory"
      BY <2>4 DEF DecisionsOK, Proposed, Plain, Missing
    <3>3. execs' # <<>> /\ execs'[Len(execs')] = [tool |-> tool, step |-> step, status |-> "PREPARED"]
      BY <3>1, ExecsShape
    <3> QED BY <2>3, <3>1, <3>2, <3>3 DEF Tried, LastIsNow
  <2>6. CASE Tried
    <3>1. CASE Calm \/ Emits
      <4>1. SameExecs
        BY <3>1, SameIsCalm DEF Calm, Emits, budget, SameExecs
      <4>2. Len(execs) \in DOMAIN execs /\ execs' # <<>>
        BY <2>6, <4>1, ExecsShape DEF Tried, LastIsNow, SameExecs
      <4> QED BY <2>3, <2>6, <4>1, <4>2 DEF Tried, LastIsNow, SameExecs
    <3> QED BY <2>3, <2>5, <3>1
  <2>7. CASE pc \in StatusGap
    <3>1. SkepticRecorded \/ SkepticWaits
      BY <1>1, <2>7, InGap DEF Gaps, RecordGap, StatusGap, EventGap, EmitRecovery, EmitEvidence,
                               CriticRecorded, RecordDecision, Goto
    <3>2. CASE SkepticRecorded
      BY <3>2 DEF SkepticRecorded, RecordDecision, Goto, StatusGap
    <3>3. CASE SkepticWaits
      <4>1. status = "SELECTING_ADAPTIVE_EXPERIMENT"
        BY <3>3 DEF SkepticWaits, Plain, Proposing
      <4> QED BY <3>3, <4>1, LegalChanges DEF SkepticWaits, SaveStatus
    <3> QED BY <3>1, <3>2, <3>3
  <2>8. CASE status \in Closed
    BY <2>8, ClosedStays
  <2>9. CASE status = "WAITING_FOR_CRITIC" /\ pc \notin StatusGap
    <3>1. status' \in {"WAITING_FOR_CRITIC"} \cup Closed \/ Prepares
      BY <2>9, StatusMoves DEF StatusGap, Resting
    <3> QED BY <2>5, <3>1
  <2> QED BY <2>4, <2>6, <2>7, <2>8, <2>9 DEF Asks
<1> QED BY <1>3, <1>4

(* EventGap: a measurement that is over is marked in the trace.            *)

Unused == {"begun", "fresh", "mandatory", "prepare_mandatory"} \cup Proposing \cup Reading
\* The step has an execution.
Taken == \E i \in DOMAIN execs : execs[i].step = step
\* A step has one execution at most, and none while it can still get one: its
\* measurement is in progress, or its end is in the trace or about to be.
Single ==
  /\ \A i, j \in DOMAIN execs : execs[i].step = execs[j].step => i = j
  /\ pc \in Unused => ~Taken
  /\ Taken => \/ status \in {"RUNNING_TOOL", "FINALIZING"} \cup Closed
              \/ Ended
              \/ status = "UPDATING_EVIDENCE" /\ pc \in EventGap

\* How an advance gets where it may prepare a tool.
LEMMA UnusedFrom ==
  ASSUME IInv, Next, pc' \in Unused
  PROVE  \/ Opens
         \/ pc \in Unused
         \/ pc = "route" /\ ~RequiresBegin /\ ~PendingEvaluation /\ status # "FINALIZING"
<1> USE DEF Unused, Proposing, Reading
<1>1. CASE BeginCycle
  BY <1>1 DEF BeginCycle, Terminate, Opens, science
<1>2. CASE Cycle /\ ~BeginCycle
  BY <1>2 DEF Cycle, StartAdvance, NothingToRecover, RecoverFromLedger, Reexecute, EmitRecovery,
     RouteDurable, RouteProposal, EmitBudget, FreshRoute, RunMandatory, EvaluateResult,
     Finalize, TerminateCycle, ExceptionFails, FailRun, Step, SaveStatus, Terminate, Finalizing,
     Goto
<1>3. CASE Agent
  BY <1>3 DEF Agent, SkepticDecides, SkepticRecorded, SkepticWaits, CriticRecorded,
     CriticDecides, RecordDecision, InferenceAborts, ResolveCritic, Goto
<1>4. CASE Tool
  BY <1>4 DEF Tool, PrepareMandatory, PrepareAdaptive, HandlerReturns, HandlerFails,
     CommitResult, EmitEvidence, Terminate, Goto
<1>5. CASE Environment
  BY <1>5 DEF Environment, DeadlineFails, FailRun, LockResult, RevealCatalog, Crash, Resume,
     Step, Terminate
<1> QED BY <1>1, <1>2, <1>3, <1>4, <1>5 DEF Next, Driver

\* An event that ends a measurement comes after its budget.updated.
LEMMA AppendedEnds ==
  ASSUME TypeOK, NEW type \in {"evidence.appended", "recovery.completed"}, Emit(type), step' = step
  PROVE  Ended'
<1> DEFINE In(types) == {n \in DOMAIN trace' : trace'[n].step = step' /\ trace'[n].type \in types}
           S == In({"evidence.appended", "recovery.completed"})
           T == In({"budget.updated"})
           n == Len(trace)
<1>1. trace' = Append(trace, [type |-> type, step |-> step]) /\ trace \in Seq(Events)
  BY DEF Emit, TypeOK
<1>2. n \in Nat /\ n + 1 \in S /\ S \subseteq 1..(n + 1) /\ T \subseteq 1..n
  BY <1>1
<1>3. Ended' <=> LastOf(S) > LastOf(T)
  BY Zenon DEF Ended, TraceOf
<1> HIDE DEF S, T, n
<1>4. LastOf(T) \in Nat /\ LastOf(S) \in Nat /\ LastOf(T) < LastOf(S)
  BY <1>2, LastBelow
<1>5. LastOf(S) > LastOf(T)
  BY <1>4
<1> QED BY <1>3, <1>5

\* An advance that may prepare a tool has prepared none in this step.
LEMMA UnusedStep ==
  ASSUME IInv, FitInv, Counted, Single, Next, pc' \in Unused, ~Opens
  PROVE  ~Taken
<1>1. CASE pc \in Unused
  BY <1>1 DEF Single
<1>2. CASE pc = "route" /\ ~RequiresBegin /\ ~PendingEvaluation /\ status # "FINALIZING"
  <2>1. ~Ended
    BY <1>2, NotOver
  <2>2. status \notin {"RUNNING_TOOL"} \cup Closed
    BY <1>2 DEF IInv, StateInv, PhaseInv, RunningMeansPrepared, AfterRecovery, PcValues,
                AwaitPoints, Running, Ledgered, CannotAdvance
  <2>3. pc \notin EventGap
    BY <1>2 DEF EventGap
  <2> QED BY <1>2, <2>1, <2>2, <2>3 DEF Single
<1> QED BY <1>1, <1>2, UnusedFrom

\* And no step gets a second execution.
LEMMA SingleStep ==
  ASSUME IInv, FitInv, Plain, Counted, Single, Next, ~Fell(EventGap)'
  PROVE  Single'
<1> USE DEF IInv, StateInv
<1>1. CASE Calm \/ Emits
  <2>1. SameExecs /\ step' = step
    BY <1>1, SameIsCalm DEF Calm, Emits, budget, SameExecs
  <2>2. /\ Taken' <=> Taken
        /\ (\A i, j \in DOMAIN execs : execs[i].step = execs[j].step => i = j)'
    BY <2>1 DEF Taken, SameExecs, Single
  <2>3. ~Opens
    BY <2>1 DEF Opens, TypeOK
  <2>4. pc' \in Unused => ~Taken'
    <3> HIDE DEF IInv, StateInv
    <3> QED BY <2>2, <2>3, UnusedStep
  <2>5. ASSUME Taken
        PROVE  \/ status' \in {"RUNNING_TOOL", "FINALIZING"} \cup Closed
               \/ Ended'
               \/ status' = "UPDATING_EVIDENCE" /\ pc' \in EventGap
    <3>1. CASE Emits
      <4>1. PICK type \in {"budget.updated", "evidence.appended", "recovery.completed"} :
              Emit(type) /\ (type = "budget.updated" => pc = "begun")
        BY <3>1 DEF Emits
      <4>2. type # "budget.updated"
        BY <2>5, <4>1 DEF Single, Unused
      <4> QED BY <2>1, <4>1, <4>2, AppendedEnds
    <3>2. CASE Calm /\ ~Emits
      <4>1. Ended' = Ended
        BY <3>2 DEF Calm, Ended, TraceOf
      <4>2. CASE status \in Closed
        BY <4>2, ClosedStays
      <4>3. CASE status = "RUNNING_TOOL" \/ status = "FINALIZING"
        <5>1. pc # "skeptic_recorded"
          BY <4>3 DEF Plain, Proposing
        <5>2. Prepares => status' = "RUNNING_TOOL"
          BY DEF Prepares
        <5> HIDE DEF IInv, StateInv
        <5> QED BY <4>3, <5>1, <5>2, StatusMoves DEF Resting
      <4>4. CASE pc \in EventGap
        <5>1. ~Crash
          BY <4>4, FellStays DEF Gaps
        <5>2. ~EmitRecovery /\ ~EmitEvidence
          BY <3>2 DEF EmitRecovery, EmitEvidence, Goto, Emits
        <5>3. ~SkepticRecorded /\ ~SkepticWaits /\ ~CriticRecorded
          BY <4>4 DEF SkepticRecorded, SkepticWaits, CriticRecorded, RecordDecision, Goto, EventGap
        <5> QED BY <4>4, <5>1, <5>2, <5>3, InGap DEF Gaps
      <4> QED BY <2>5, <4>1, <4>2, <4>3, <4>4 DEF Single
    <3> QED BY <1>1, <3>1, <3>2
  <2> QED BY <2>2, <2>4, <2>5 DEF Single
<1>2. CASE Opens
  <2>1. \A i \in DOMAIN execs : execs[i].step # step + 1
    BY ExecsShape DEF FitInv, Placed, Executions, Steps, TypeOK
  <2>2. UNCHANGED execs /\ step' = step + 1
    BY <1>2 DEF Opens
  <2> QED BY <2>1, <2>2 DEF Single, Taken
<1>3. CASE Prepares
  <2>1. PICK tool \in Tools :
          execs' = Append(execs, [tool |-> tool, step |-> step, status |-> "PREPARED"])
    BY <1>3 DEF Prepares
  <2> DEFINE new == [tool |-> tool, step |-> step, status |-> "PREPARED"]
             last == Len(execs) + 1
  <2>2. /\ DOMAIN execs' = DOMAIN execs \cup {last} /\ last \notin DOMAIN execs
        /\ execs'[last] = new /\ \A i \in DOMAIN execs : execs'[i] = execs[i]
    BY <2>1, ExecsShape
  <2>3. \A i \in DOMAIN execs : execs[i].step # step
    BY <1>3 DEF Prepares, Single, Taken, Unused, Reading
  <2>4. pc' \notin Unused /\ status' = "RUNNING_TOOL"
    BY <1>3 DEF Prepares, Unused, Proposing, Reading
  <2> HIDE DEF last
  <2> QED BY <2>2, <2>3, <2>4 DEF Single
<1> QED BY <1>1, <1>2, <1>3, Effects

(* RecordGap: what a tool runs on is on record.                            *)

\* A decision is on record, or its record is the next write.
OnRecord ==
  /\ DecisionsAreRecorded
  /\ \A s \in Steps :
       /\ proposal[s] # None =>
            <<"skeptic", s>> \in recorded \/ (s = step /\ pc = "skeptic_saved")
       /\ review[s] # None =>
            <<"critic", s>> \in recorded \/ (s = step /\ pc = "critic_saved")

\* A crash apart, nothing comes between a decision and its record.
LEMMA OnRecordStep ==
  ASSUME IInv, OnRecord, Next, ~Fell(RecordGap)'
  PROVE  OnRecord'
<1> USE DEF IInv, StateInv
<1>0. recorded \subseteq recorded'
  BY DEF Next, Driver, Cycle, Agent, Tool, Environment, StartAdvance, NothingToRecover,
       RecoverFromLedger, Reexecute, EmitRecovery, RouteDurable, RouteProposal, BeginCycle,
       EmitBudget, FreshRoute, RunMandatory, EvaluateResult, Finalize, TerminateCycle,
       ExceptionFails, FailRun, Step, SaveStatus, Terminate, Finalizing, Commit, SkepticDecides,
       SkepticRecorded, SkepticWaits, CriticRecorded, CriticDecides, RecordDecision,
       InferenceAborts, ResolveCritic, PrepareMandatory, PrepareAdaptive, Prepare,
       HandlerReturns, HandlerFails, CommitResult, EmitEvidence, DeadlineFails, LockResult,
       RevealCatalog, Crash, Resume, vars, agents
<1>1. DecisionsAreRecorded'
  <2>1. CASE Calm \/ Emits \/ Opens
    <3>1. SameExecs
      BY <2>1, SameIsCalm DEF Calm, Emits, Opens, budget, SameExecs
    <3> QED BY <1>0, <3>1 DEF OnRecord, DecisionsAreRecorded, SameExecs
  <2>2. CASE Prepares
    <3>1. PICK tool \in Tools :
            /\ tool \notin Adaptive \/ (pc = "prepare_adaptive" /\ Proposed /\ Reviewed)
            /\ execs' = Append(execs, [tool |-> tool, step |-> step, status |-> "PREPARED"])
      BY <2>2 DEF Prepares
    <3> DEFINE new == [tool |-> tool, step |-> step, status |-> "PREPARED"]
               last == Len(execs) + 1
    <3>2. /\ DOMAIN execs' = DOMAIN execs \cup {last} /\ last \notin DOMAIN execs
          /\ execs'[last] = new /\ \A i \in DOMAIN execs : execs'[i] = execs[i]
      BY <3>1, ExecsShape
    <3>3. tool \in Adaptive =>
            {<<"skeptic", step>>, <<"critic", step>>} \subseteq recorded
      BY <3>1 DEF OnRecord, Proposed, Reviewed
    <3> HIDE DEF last
    <3> QED BY <1>0, <3>2, <3>3 DEF OnRecord, DecisionsAreRecorded
  <2> QED BY <2>1, <2>2, Effects
<1>2. ~(Crash /\ pc \in RecordGap)
  BY FellStays DEF Gaps
<1>3. pc \in RecordGap =>
        /\ step' = step
        /\ pc = "skeptic_saved" => <<"skeptic", step>> \in recorded'
        /\ pc = "critic_saved" => <<"critic", step>> \in recorded'
  <2> SUFFICES ASSUME pc \in RecordGap
               PROVE  /\ step' = step
                      /\ pc = "skeptic_saved" => <<"skeptic", step>> \in recorded'
                      /\ pc = "critic_saved" => <<"critic", step>> \in recorded'
    OBVIOUS
  <2>1. SkepticRecorded \/ CriticRecorded
    BY <1>2, InGap DEF Gaps, RecordGap, SkepticWaits, EmitEvidence, EmitRecovery, Goto
  <2> QED BY <2>1 DEF SkepticRecorded, CriticRecorded, RecordDecision, Goto, budget
<1>4. ASSUME NEW s \in Steps, proposal[s] # None
      PROVE  <<"skeptic", s>> \in recorded'
  BY <1>0, <1>3, <1>4 DEF OnRecord, RecordGap
<1>5. ASSUME NEW s \in Steps, review[s] # None
      PROVE  <<"critic", s>> \in recorded'
  BY <1>0, <1>3, <1>5 DEF OnRecord, RecordGap
<1>6. ASSUME NEW s \in Steps, proposal'[s] # None
      PROVE  <<"skeptic", s>> \in recorded' \/ (s = step' /\ pc' = "skeptic_saved")
  <2>1. CASE \E r \in Requests : SkepticDecides(r)
    BY <1>4, <1>6, <2>1 DEF SkepticDecides, Goto, budget, TypeOK
  <2>2. CASE ~(\E r \in Requests : SkepticDecides(r))
    <3>1. proposal' = proposal
      BY <2>2, Undeciding DEF CriticDecides
    <3> QED BY <1>4, <1>6, <3>1
  <2> QED BY <2>1, <2>2
<1>7. ASSUME NEW s \in Steps, review'[s] # None
      PROVE  <<"critic", s>> \in recorded' \/ (s = step' /\ pc' = "critic_saved")
  <2>1. CASE \E v \in Verdicts, r \in Requests \cup {None} : CriticDecides(v, r)
    BY <1>5, <1>7, <2>1 DEF CriticDecides, Goto, budget, TypeOK
  <2>2. CASE ~(\E v \in Verdicts, r \in Requests \cup {None} : CriticDecides(v, r))
    <3>1. review' = review
      BY <2>2, Undeciding DEF SkepticDecides
    <3> QED BY <1>5, <1>7, <3>1
  <2> QED BY <2>1, <2>2
<1> QED BY <1>1, <1>6, <1>7 DEF OnRecord

\* What is known of any run, and what of one without a crash in the gap.
GapInv ==
  /\ Plain /\ Filed
  /\ ~Fell(StatusGap) => Asks
  /\ ~Fell(EventGap) => Single
  /\ ~Fell(RecordGap) => OnRecord

\* It holds at the start,
LEMMA GapInit == Init => GapInv
<1> SUFFICES ASSUME Init PROVE GapInv
  OBVIOUS
<1>1. Plain
  BY DEF Init, Plain, Selecting, Proposing, Reading
<1>2. Filed /\ Asks
  BY DEF Init, Filed, ActionsIn, Asks, Proposed
<1>3. Single /\ OnRecord
  BY DEF Init, Single, Unused, Proposing, Reading, Taken, OnRecord, DecisionsAreRecorded
<1> QED BY <1>1, <1>2, <1>3 DEF GapInv

\* when nothing happens,
LEMMA GapStutter ==
  ASSUME GapInv, UNCHANGED vars PROVE GapInv'
<1> USE DEF vars, science, budget, agents
<1>1. Plain'
  BY DEF GapInv, Plain, Missing
<1>2. Filed'
  BY DEF GapInv, Filed, CannotAdvance, ActionsIn, RecordOf
<1>3. \A gap : Fell(gap)' = Fell(gap)
  BY DEF Fell
<1>4. Asks' = Asks /\ Single' = Single /\ OnRecord' = OnRecord
  BY DEF Asks, Proposed, Tried, LastIsNow, Single, Taken, Ended, TraceOf, OnRecord,
         DecisionsAreRecorded
<1> QED BY <1>1, <1>2, <1>3, <1>4 DEF GapInv

\* and over every step.
LEMMA GapInvariant == Spec => []GapInv
<1>1. IInv /\ FitInv /\ VetInv /\ Counted /\ GapInv /\ [Next]_vars => GapInv'
  <2> SUFFICES ASSUME IInv, FitInv, VetInv, Counted, GapInv, [Next]_vars PROVE GapInv'
    OBVIOUS
  <2>1. CASE UNCHANGED vars
    BY <2>1, GapStutter
  <2>2. CASE Next
    <3>1. Plain' /\ Filed'
      BY <2>2, PlainStep, FiledStep DEF GapInv
    <3>2. \A gap \in {StatusGap, EventGap, RecordGap} : Fell(gap) => Fell(gap)'
      BY <2>2, FellStays DEF Gaps, IInv, StateInv
    <3>3. ~Fell(StatusGap)' => Asks'
      BY <2>2, <3>2, AsksStep DEF GapInv
    <3>4. ~Fell(EventGap)' => Single'
      BY <2>2, <3>2, SingleStep DEF GapInv
    <3>5. ~Fell(RecordGap)' => OnRecord'
      BY <2>2, <3>2, OnRecordStep DEF GapInv
    <3> QED BY <3>1, <3>3, <3>4, <3>5 DEF GapInv
  <2> QED BY <2>1, <2>2
<1> QED BY <1>1, GapInit, Inductive, FitInvariant, VetInvariant, CountedInvariant, PTL DEF Spec

\* The nodes fit together over every number of crashes, each conjunct unless a
\* crash fell into its own gap: NodesFitTogether.
THEOREM Nodes_FitTogether == Spec => []NodesFitTogether
<1>1. FitInv /\ GapInv => NodesFitTogether
  BY DEF FitInv, Settled, GapInv, Asks, Single, OnRecord, NodesFitTogether, OneToolPerStep,
         TransitionsLegal, RecordedUnlessCut
<1> QED BY <1>1, FitInvariant, GapInvariant, PTL
=============================================================================
