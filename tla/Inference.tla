----------------------------- MODULE Inference -----------------------------
(***************************************************************************)
(* The inference harness of one run: the model roles of an adaptive cycle  *)
(* in the order of the graph, the attempts each of them makes, the shared  *)
(* call and retry budgets, and the durable records of their answers.       *)
(* Observer and Signal are awaited together by one gather.                 *)
(*                                                                         *)
(* One event loop runs all of it.  A task that is "ready" holds the loop:  *)
(* between two awaits no other task runs, but a crash may fall between two *)
(* durable writes.  "final" is the Director in its FINAL phase.            *)
(***************************************************************************)
EXTENDS Naturals, Sequences, FiniteSets

CONSTANTS
  Supported,    \* advisory roles the configured client can play
  Limit,        \* per-role call limit of each advisory role
  MaxCalls, MaxRetries,      \* model-call and retry budgets of the run
  Fallback,     \* whether a fallback client is configured
  Raises,       \* whether a client call may raise an unexpected exception
  MaxCycles, MaxCrashes      \* model bounds: evidence versions, crashes

Advisory == {"observer", "signal", "transit_hunter", "director", "final"}
Required == {"skeptic", "critic"}
Roles == Advisory \cup Required
Nodes == {"specialists", "transit_hunter", "director", "skeptic", "critic", "final"}
Reserve == 2

ASSUME BudgetAssumption ==
  /\ MaxCalls \in Nat /\ MaxRetries \in Nat /\ MaxCycles \in Nat \ {0} /\ MaxCrashes \in Nat
  /\ Limit \in [Advisory -> Nat \ {0}] /\ Supported \subseteq Advisory
  /\ Fallback \in BOOLEAN /\ Raises \in BOOLEAN

VARIABLES
  \* durable
  calls, retries,     \* model_call_count, model_retry_count
  attempts,           \* inference.attempt events in trace.jsonl
  context,            \* context_version
  records,            \* agent_decisions.jsonl as <<role, context>>
  checkpoints,        \* role_checkpoints of the state
  accepted,           \* required decisions saved for the current step
  approved,           \* whether the saved review lets a tool run
  finalizing, closed, \* status FINALIZING; how the run stopped, or "open"
  \* volatile
  pc,                 \* the graph node being executed
  task,               \* the inference of each role
  crashes

ledger == <<calls, retries, attempts>>
agents == <<records, checkpoints, accepted, approved>>
run == <<context, finalizing, closed>>
vars == <<ledger, agents, run, pc, task, crashes>>

Idle == [at |-> "idle", kind |-> "primary", count |-> 0, again |-> 0, repairs |-> 0]
At(states) == {r \in Roles : task[r].at \in states}
LoopIsFree == At({"ready"}) = {}
Members(n) == IF n = "specialists" THEN {"observer", "signal"} ELSE {n}
After == [n \in Nodes \ {"final"} |->
            CASE n = "specialists" -> "transit_hunter" [] n = "transit_hunter" -> "director"
              [] n = "director" -> "skeptic" [] n = "skeptic" -> "critic" [] OTHER -> "act"]
Key(r) == <<r, context>>
Recorded == {records[n] : n \in DOMAIN records}
Answered(r) == IF r \in Advisory THEN Key(r) \in checkpoints ELSE r \in accepted

Init ==
  /\ calls = 0 /\ retries = 0 /\ attempts = 0 /\ context = 1
  /\ records = <<>> /\ checkpoints = {} /\ accepted = {} /\ approved = FALSE
  /\ finalizing \in BOOLEAN /\ closed = "open"
  /\ pc = "route" /\ task = [r \in Roles |-> Idle] /\ crashes = 0

-----------------------------------------------------------------------------
(* The nodes of the graph.                                                 *)

Route(known) ==
  /\ pc = "route" /\ closed = "open"
  /\ checkpoints' = known
  /\ pc' = IF finalizing THEN "final"
           ELSE IF "critic" \in accepted THEN "act"
           ELSE IF "skeptic" \in accepted THEN "critic"
           ELSE IF {<<"observer", context>>, <<"signal", context>>,
                    <<"transit_hunter", context>>} \subseteq known
           THEN IF Key("director") \in known THEN "skeptic" ELSE "director"
           ELSE "specialists"
  /\ UNCHANGED <<ledger, records, accepted, approved, run, task, crashes>>
\* Mutant: checkpoints are not rebuilt from the append-only records.
RouteUnrecovered == Route(checkpoints)
\* determine_route first rebuilds missing checkpoints from the records.
RouteRecovered == Route(checkpoints \cup Recorded)

\* A node creates one task per role that has no answer for this context.
EnterNode(n) ==
  /\ pc = n /\ \A r \in Members(n) : task[r].at = "idle"
  /\ \E r \in Members(n) : ~Answered(r)
  /\ task' = [r \in Roles |->
                IF r \in Members(n) /\ ~Answered(r)
                THEN [Idle EXCEPT !.at = IF r \in Advisory THEN "entered" ELSE "ready"]
                ELSE task[r]]
  /\ UNCHANGED <<ledger, agents, run, pc, crashes>>

LeaveNode(n) ==
  /\ pc = n /\ \A r \in Members(n) : task[r].at = "idle" /\ Answered(r)
  /\ IF n = "final" THEN closed' = "ready" /\ pc' = "idle"
                    ELSE pc' = After[n] /\ UNCHANGED closed
  /\ UNCHANGED <<ledger, agents, context, finalizing, task, crashes>>

\* The critic's verdict: finalize, or run the tool, whose evidence makes a new
\* context; its evaluation finalizes or opens the next cycle.
Act ==
  /\ pc = "act"
  /\ \/ ~approved /\ pc' = "final" /\ UNCHANGED <<context, finalizing, accepted, approved>>
     \/ /\ approved
        /\ context' = context + 1 /\ accepted' = {} /\ approved' = FALSE
        /\ \/ finalizing' = TRUE /\ pc' = "final"
           \/ context < MaxCycles /\ pc' = "route" /\ UNCHANGED finalizing
  /\ UNCHANGED <<ledger, records, checkpoints, closed, task, crashes>>

-----------------------------------------------------------------------------
(* One inference: attempts, retries, the repair and the fallback.          *)

Set(r, fields) == task' = [task EXCEPT ![r] = fields]
End(r) == Set(r, [task[r] EXCEPT !.at = "ended"])
Close(how) == closed' = how /\ pc' = "idle" /\ task' = [r \in Roles |-> Idle]
\* _HarnessAbort: an advisory role is skipped, a required one ends the run.
Abort(r, how) == IF r \in Advisory THEN End(r) /\ UNCHANGED <<closed, pc>> ELSE Close(how)

\* _run_optional_role up to its inference, in one stretch of the loop.
EnterRole(r) ==
  /\ task[r].at = "entered" /\ LoopIsFree
  /\ IF r \notin Supported \/ MaxCalls - calls <= Reserve
     THEN End(r) ELSE Set(r, [task[r] EXCEPT !.at = "ready"])
  /\ UNCHANGED <<ledger, agents, run, pc, crashes>>

\* Mutant: the call budget is not looked at.
ChargeUnbounded(r) ==
  /\ calls' = calls + 1
  /\ Set(r, [task[r] EXCEPT !.at = "awaiting", !.count = @ + 1,
                            !.repairs = IF task[r].kind = "repair" THEN @ + 1 ELSE @])
  /\ UNCHANGED <<closed, pc>>
\* The call is charged in state.json before the client is awaited.
Charge(r) ==
  IF calls >= MaxCalls THEN Abort(r, "exhausted") /\ UNCHANGED calls
  ELSE /\ calls' = calls + 1
       /\ Set(r, [task[r] EXCEPT !.at = "awaiting", !.count = @ + 1,
                                 !.repairs = IF task[r].kind = "repair" THEN @ + 1 ELSE @])
       /\ UNCHANGED <<closed, pc>>
Attempt(r) ==
  /\ task[r].at = "ready"
  /\ IF r \in Advisory /\ task[r].count >= Limit[r] THEN Abort(r, "failed") /\ UNCHANGED calls
     ELSE Charge(r)
  /\ UNCHANGED <<retries, attempts, agents, context, finalizing, crashes>>

Again(r, kind) == Set(r, [task[r] EXCEPT !.at = "ready", !.kind = kind])
                  /\ UNCHANGED <<closed, pc>>
FallbackOrAbort(r) ==
  IF r \in Advisory \/ ~Fallback \/ task[r].kind = "fallback" THEN Abort(r, "failed")
  ELSE Again(r, "fallback")

\* Mutant: an answer that does not validate leaves no trace event.
TracedIfValid(outcome) == attempts' = IF outcome = "invalid" THEN attempts ELSE attempts + 1
Traced(outcome) == attempts' = attempts + 1
\* Mutant: a strict retry is not counted.
RetryUncounted(r) == IF retries >= MaxRetries THEN FallbackOrAbort(r) /\ UNCHANGED retries
                     ELSE UNCHANGED retries /\ Again(r, task[r].kind)
Retry(r) == IF retries >= MaxRetries THEN FallbackOrAbort(r) /\ UNCHANGED retries
            ELSE retries' = retries + 1 /\ Again(r, task[r].kind)
\* Advisory retries are counted in the inference, not in the run.
RetryAdvisory(r) ==
  /\ IF task[r].again >= MaxRetries THEN Abort(r, "failed")
     ELSE /\ Set(r, [task[r] EXCEPT !.at = "ready", !.again = @ + 1])
          /\ UNCHANGED <<closed, pc>>
  /\ UNCHANGED retries

\* The awaited call ended: with a decision that validates; with output that is
\* invalid, truncated, or answers another context; with a timeout or a
\* provider failure; or with a decision that no budget of the run can pay for.
Answer(r, outcome) ==
  /\ task[r].at = "awaiting" /\ LoopIsFree
  /\ Traced(outcome)
  /\ \/ outcome = "valid" /\ End(r) /\ UNCHANGED <<retries, closed, pc>>
     \/ /\ outcome = "invalid" /\ UNCHANGED retries
        /\ IF task[r].kind = "primary" THEN Again(r, "repair") ELSE FallbackOrAbort(r)
     \/ /\ outcome = "transient"
        /\ IF task[r].kind = "fallback" THEN Abort(r, "failed") /\ UNCHANGED retries
           ELSE IF r \in Advisory THEN RetryAdvisory(r) ELSE Retry(r)
     \/ /\ outcome = "unaffordable" /\ r \in Required /\ UNCHANGED retries
        /\ Abort(r, IF task[r].kind = "fallback" THEN "failed" ELSE "exhausted")
  /\ UNCHANGED <<calls, agents, context, finalizing, crashes>>

\* An exception that is neither a typed failure nor a timeout leaves _infer,
\* the gather and the graph; sibling tasks keep running.
AnswerRaises(r) ==
  /\ Raises /\ task[r].at = "awaiting" /\ LoopIsFree
  /\ Set(r, [task[r] EXCEPT !.at = "raised"])
  /\ pc' = IF pc \in Nodes /\ r \in Members(pc) THEN "raised" ELSE pc
  /\ UNCHANGED <<ledger, agents, run, crashes>>

-----------------------------------------------------------------------------
(* Persisting the answers.                                                 *)

\* A required decision is saved in the state before its record is appended.
Decide(r) ==
  /\ r \in Required /\ task[r].at = "ended" /\ pc = r
  /\ accepted' = accepted \cup {r}
  /\ IF r = "critic" THEN approved' \in BOOLEAN ELSE UNCHANGED approved
  /\ Set(r, [task[r] EXCEPT !.at = "decided"])
  /\ UNCHANGED <<ledger, records, checkpoints, run, pc, crashes>>

\* The gather returned, and results are persisted in role order.
Turn(r) == /\ \A q \in Members(pc) : task[q].at \in {"idle", "ended", "recorded"}
           /\ r = "signal" => task["observer"].at = "idle"

\* The append-only record, then its checkpoint; a known checkpoint ends both.
Record(r) ==
  /\ \/ r \in Advisory /\ task[r].at = "ended" /\ pc \in Nodes /\ r \in Members(pc) /\ Turn(r)
     \/ r \in Required /\ task[r].at = "decided"
  /\ IF Key(r) \in checkpoints
     THEN Set(r, Idle) /\ UNCHANGED records
     ELSE records' = Append(records, Key(r)) /\ Set(r, [task[r] EXCEPT !.at = "recorded"])
  /\ UNCHANGED <<ledger, checkpoints, accepted, approved, run, pc, crashes>>

Checkpoint(r) ==
  /\ task[r].at = "recorded"
  /\ checkpoints' = checkpoints \cup {Key(r)}
  /\ Set(r, Idle)
  /\ UNCHANGED <<ledger, records, accepted, approved, run, pc, crashes>>

-----------------------------------------------------------------------------
(* The run service and the process.                                        *)

\* advance raised: fail_run.  Tasks that nobody awaits any more are not cancelled.
RunnerFails ==
  /\ pc = "raised" /\ closed' = "error" /\ pc' = "idle"
  /\ task' = [r \in Roles |-> IF task[r].at = "raised" THEN Idle ELSE task[r]]
  /\ UNCHANGED <<ledger, agents, context, finalizing, crashes>>

Awaits == pc \in Nodes /\ LoopIsFree /\ \E r \in Members(pc) : task[r].at = "awaiting"
\* Mutant: the deadline leaves the awaited calls running.
DeadlineKeepsTasks ==
  /\ Awaits /\ closed' = "timeout" /\ pc' = "idle"
  /\ UNCHANGED <<ledger, agents, context, finalizing, task, crashes>>
\* The wall-clock deadline cancels the advance, its gather and every child.
DeadlineFails ==
  /\ Awaits /\ Close("timeout")
  /\ UNCHANGED <<ledger, agents, context, finalizing, crashes>>

Crash ==
  /\ pc # "down" /\ crashes < MaxCrashes
  /\ pc' = "down" /\ task' = [r \in Roles |-> Idle] /\ crashes' = crashes + 1
  /\ UNCHANGED <<ledger, agents, run>>

Resume ==
  /\ pc = "down" /\ closed = "open" /\ pc' = "route"
  /\ UNCHANGED <<ledger, agents, run, task, crashes>>

Outcomes == {"valid", "invalid", "transient", "unaffordable"}
Infer ==
  \E r \in Roles :
    \/ EnterRole(r) \/ Attempt(r) \/ AnswerRaises(r)
    \/ \E o \in Outcomes : Answer(r, o)
Persist == \E r \in Roles : Decide(r) \/ Record(r) \/ Checkpoint(r)
Graph == RouteRecovered \/ Act \/ (\E n \in Nodes : EnterNode(n) \/ LeaveNode(n))
Next == Graph \/ Infer \/ Persist \/ RunnerFails \/ DeadlineFails \/ Crash \/ Resume
Spec == Init /\ [][Next]_vars
-----------------------------------------------------------------------------
(* Properties.                                                             *)

Tasks == [at : {"idle", "entered", "ready", "awaiting", "ended", "decided", "recorded", "raised"},
          kind : {"primary", "repair", "fallback"}, count : Nat, again : 0..MaxRetries,
          repairs : Nat]

\* Every variable has its type, and the call budget is never passed.
TypeOK ==
  /\ calls \in 0..MaxCalls /\ retries \in 0..MaxRetries /\ attempts \in Nat
  /\ context \in Nat \ {0} /\ records \in Seq(Roles \X Nat)
  /\ checkpoints \subseteq Roles \X Nat
  /\ accepted \subseteq Required /\ approved \in BOOLEAN /\ finalizing \in BOOLEAN
  /\ closed \in {"open", "ready", "failed", "exhausted", "timeout", "error"}
  /\ pc \in Nodes \cup {"route", "act", "idle", "raised", "down"}
  /\ task \in [Roles -> Tasks] /\ crashes \in 0..MaxCrashes

\* Every charged call is either awaited or traced, also with two roles in
\* parallel, as long as neither a crash nor a deadline cut an await short.
CallsAreTraced ==
  crashes = 0 /\ closed \notin {"timeout", "error"} =>
    calls = attempts + Cardinality(At({"awaiting", "raised"}))

\* A role whose answer is on record for this evidence is never asked, or
\* recorded, again, whatever write a crash fell after.
AnsweredOnce ==
  /\ \A m, n \in DOMAIN records : records[m] = records[n] => m = n
  /\ \A r \in Advisory \cap At({"ready", "awaiting"}) : Key(r) \notin Recorded

\* The advisory records of one context are in role order, whichever of the
\* parallel roles answers first and wherever the run was restarted.
Rank == [r \in Advisory |-> CASE r = "observer" -> 1 [] r = "signal" -> 2
                              [] r = "transit_hunter" -> 3 [] r = "director" -> 4 [] OTHER -> 5]
StableOrder ==
  \A m, n \in DOMAIN records :
    /\ m < n /\ records[m][2] = records[n][2]
    /\ records[m][1] \in Advisory /\ records[n][1] \in Advisory
    => Rank[records[m][1]] < Rank[records[n][1]]

\* No inference outlives its bounds: an advisory role makes at most its limit
\* of calls, a required one a primary, a repair, a fallback and the retries.
AttemptsBounded ==
  \A r \in Roles : task[r].count <= IF r \in Advisory THEN Limit[r] ELSE MaxRetries + 3

\* The append-only records read as one conversation: each answer once, in role
\* order, although two roles answer in parallel and a crash may fall anywhere.
AnswersInOrder == AnsweredOnce /\ StableOrder

\* Unless an exception left the graph, nobody charges calls or traces attempts
\* of a run that was closed.
QuietWhenClosed == [][ledger' # ledger => closed \in {"open", "error"}]_vars

\* What the docstring of advance says: counters and trace change only under
\* the single-writer guard, while an advance is in progress.
SingleWriter == [][ledger' # ledger => closed = "open"]_vars
=============================================================================
