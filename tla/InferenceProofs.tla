--------------------------- MODULE InferenceProofs ---------------------------
(***************************************************************************)
(* Proofs about Inference, for any budgets, limits and number of crashes:  *)
(* the types and the call budget, the bounds of an inference, that each    *)
(* charged call is traced, and that records come once and in role order.   *)
(*                                                                         *)
(* What makes it true: the tasks that are alive are those of the current   *)
(* node, but for the siblings that an exception left behind; and a record  *)
(* without a checkpoint belongs to a task that is about to write it.       *)
(***************************************************************************)
EXTENDS Inference, FiniteSetTheorems, TLAPS

Live(r) == task[r].at # "idle"
Everybody == [r \in Roles |-> Idle]

\* Whose tasks may be alive.
Alone == pc \in {"route", "act", "down"} \/ closed \notin {"open", "error"} => \A r \in Roles : ~Live(r)
OnlyMembers == pc \in Nodes => \A r \in Roles \ Members(pc) : ~Live(r)
StillOpen == pc \in Nodes \cup {"route", "act", "raised"} => closed = "open"
OwnNode == \A r \in Required : Live(r) => pc = r \/ (pc = "raised" /\ task[r].at = "raised")
Staffed == Alone /\ OnlyMembers /\ StillOpen /\ OwnNode

\* Which answers of the current context are on record, and where they are kept.
Has(r) == Key(r) \in Recorded
Early == {"specialists", "transit_hunter", "director", "skeptic"}
Asking == {"entered", "ready", "awaiting"}
Dated == \A k \in Recorded : k[2] <= context
Once == \A m, n \in DOMAIN records : records[m] = records[n] => m = n
Known == pc \in Nodes \cup {"act"} =>
           \A r \in Advisory : Has(r) => Key(r) \in checkpoints \/ task[r].at = "recorded"
Asked == \A r \in Advisory : task[r].at \in Asking => ~Has(r)
Saved == \A r \in Required :
           /\ Has(r) => r \in accepted
           /\ task[r].at \in Asking \cup {"ended"} => r \notin accepted
           /\ task[r].at = "decided" => r \in accepted /\ ~Has(r)
Backed == checkpoints \subseteq Recorded /\ \A r \in Roles : task[r].at = "recorded" => Has(r)
Written == Dated /\ Once /\ Known /\ Asked /\ Saved /\ Backed

\* How far the roles of the current context have come.
Concluded == finalizing \/ ("critic" \in accepted /\ ~approved)
Chain == /\ Has("signal") => Has("observer")
         /\ Has("transit_hunter") => Has("signal")
         /\ Has("director") => Has("transit_hunter")
         /\ Has("final") => Concluded
Gates == /\ pc = "final" => Concluded
         /\ pc \in Early \cup {"critic", "act"} => ~finalizing
         /\ pc \in Early => "critic" \notin accepted
         /\ pc = "act" => "critic" \in accepted
         /\ pc = "transit_hunter" => Has("signal")
         /\ pc = "director" => Has("transit_hunter")
InTurn == /\ pc = "specialists" /\ task["observer"].at = "idle"
          /\ task["signal"].at \in Asking \cup {"ended"}
          => Has("observer")
Ordered == StableOrder /\ Chain /\ Gates /\ InTurn

\* How often a required role has been asked, with n retries of the run.
Tried(kind) == CASE kind = "primary" -> 0 [] kind = "repair" -> 1 [] OTHER -> 2
Fits(r, t, n) ==
  IF r \in Advisory THEN t.count <= Limit[r]
  ELSE /\ t.at = "entered" => t.count = 0
       /\ t.at = "ready" => t.count <= Tried(t.kind) + n
       /\ t.at = "awaiting" => t.count <= Tried(t.kind) + 1 + n
       /\ t.count <= MaxRetries + 3
Fitting == \A r \in Roles : Fits(r, task[r], retries)

-----------------------------------------------------------------------------
(* Tasks and types.                                                        *)

\* The nodes are staffed from the roles, a required role alone in its own node.
LEMMA NodesAndRoles ==
  /\ \A n \in Nodes : Members(n) \subseteq Roles /\ Members(n) # {}
  /\ \A r \in Required : r \in Nodes /\ Members(r) = {r} /\ r \notin Advisory
  /\ Roles = Advisory \cup Required
  /\ IsFiniteSet(Roles)
<1>1. Roles = {"observer"} \cup {"signal"} \cup {"transit_hunter"} \cup {"director"} \cup {"final"}
              \cup {"skeptic"} \cup {"critic"}
  BY DEF Roles, Advisory, Required
<1>2. IsFiniteSet(Roles)
  BY <1>1, FS_Singleton, FS_Union
<1> QED BY <1>2 DEF Nodes, Members, Roles, Advisory, Required

\* The fields that the actions give a task.
LEMMA TaskTypes ==
  ASSUME NEW t \in Tasks
  PROVE  /\ \A here \in {"idle", "entered", "ready", "awaiting", "ended", "decided", "recorded", "raised"} :
              [t EXCEPT !.at = here] \in Tasks
         /\ \A kind \in {"primary", "repair", "fallback"} :
              [t EXCEPT !.at = "ready", !.kind = kind] \in Tasks
         /\ t.again < MaxRetries => [t EXCEPT !.at = "ready", !.again = @ + 1] \in Tasks
         /\ [t EXCEPT !.at = "awaiting", !.count = @ + 1,
                      !.repairs = IF t.kind = "repair" THEN @ + 1 ELSE @] \in Tasks
<1> USE BudgetAssumption
<1>1. \A here \in {"idle", "entered", "ready", "awaiting", "ended", "decided", "recorded", "raised"} :
        [t EXCEPT !.at = here] \in Tasks
  BY DEF Tasks
<1>2. \A kind \in {"primary", "repair", "fallback"} : [t EXCEPT !.at = "ready", !.kind = kind] \in Tasks
  BY DEF Tasks
<1>3. ASSUME t.again < MaxRetries PROVE [t EXCEPT !.at = "ready", !.again = @ + 1] \in Tasks
  <2>1. t.again \in 0..MaxRetries /\ t.again + 1 \in 0..MaxRetries
    BY <1>3 DEF Tasks
  <2> QED BY <2>1 DEF Tasks
<1>4. [t EXCEPT !.at = "awaiting", !.count = @ + 1,
                !.repairs = IF t.kind = "repair" THEN @ + 1 ELSE @] \in Tasks
  <2>1. t.count + 1 \in Nat /\ (IF t.kind = "repair" THEN t.repairs + 1 ELSE t.repairs) \in Nat
    BY DEF Tasks
  <2> QED BY <2>1 DEF Tasks
<1> QED BY <1>1, <1>2, <1>3, <1>4

\* An idle task is a task.
LEMMA IdleType == Idle \in Tasks /\ Everybody \in [Roles -> Tasks]
<1>1. Idle \in Tasks
  BY BudgetAssumption DEF Idle, Tasks
<1> QED BY <1>1 DEF Everybody

\* What one step of an inference does: it takes its own task further, or, for
\* a required role, closes the run; and how it changes the ledger.
Billed(r, after) ==
  \/ /\ after = "awaiting" /\ task[r].at = "ready"
     /\ calls' = calls + 1 /\ attempts' = attempts
  \/ /\ after \in {"ready", "ended", "idle"} /\ task[r].at = "awaiting"
     /\ calls' = calls /\ attempts' = attempts + 1
  \/ /\ \/ after \in {"ended", "idle"} /\ task[r].at \in {"entered", "ready"}
        \/ after = "ready" /\ task[r].at = "entered"
     /\ calls' = calls /\ attempts' = attempts
  \/ /\ after = "raised" /\ task[r].at = "awaiting"
     /\ calls' = calls /\ attempts' = attempts
Further(r, t) ==
  /\ task' = [task EXCEPT ![r] = t] /\ t \in Tasks
  /\ t.at \in {"ready", "awaiting", "ended", "raised"}
  /\ t.at = "awaiting" => calls < MaxCalls
  /\ closed' = closed
  /\ pc' = IF t.at = "raised" /\ pc \in Nodes /\ r \in Members(pc) THEN "raised" ELSE pc
  /\ Fits(r, t, retries') /\ Billed(r, t.at)
Closes(r) ==
  /\ r \in Required /\ task' = Everybody /\ pc' = "idle" /\ closed' \in {"failed", "exhausted"}
  /\ Billed(r, "idle")
Proceeds(r) == (\E t \in Tasks : Further(r, t)) \/ Closes(r)

Step(r) == EnterRole(r) \/ Attempt(r) \/ AnswerRaises(r) \/ \E o \in Outcomes : Answer(r, o)

\* An inference that ends.
LEMMA EndStep ==
  ASSUME TypeOK, NEW r \in Roles, Fits(r, task[r], retries), End(r),
         UNCHANGED <<closed, pc, retries>>, Billed(r, "ended")
  PROVE  Proceeds(r)
<1> DEFINE t == [task[r] EXCEPT !.at = "ended"]
<1>1. task[r] \in Tasks
  BY DEF TypeOK
<1>2. t \in Tasks /\ t.at = "ended" /\ t.count = task[r].count
  <2>1. t \in Tasks
    BY <1>1, TaskTypes
  <2>2. t.at = "ended" /\ t.count = task[r].count
    BY <1>1 DEF Tasks
  <2> QED BY <2>1, <2>2
<1>3. task' = [task EXCEPT ![r] = t]
  BY DEF End, Set
<1>4. Fits(r, t, retries')
  <2> HIDE DEF t
  <2> QED BY <1>2 DEF Fits
<1> HIDE DEF t
<1>5. Further(r, t)
  BY <1>2, <1>3, <1>4 DEF Further
<1> QED BY <1>2, <1>5 DEF Proceeds

\* An inference that gives up: an advisory role ends, a required one closes the run.
LEMMA AbortStep ==
  ASSUME TypeOK, NEW r \in Roles, NEW how \in {"failed", "exhausted"}, Abort(r, how),
         Fits(r, task[r], retries), retries' = retries, Billed(r, "ended")
  PROVE  Proceeds(r)
<1>1. CASE r \in Advisory
  BY <1>1, EndStep DEF Abort
<1>2. CASE r \notin Advisory
  <2>1. Billed(r, "idle")
    BY DEF Billed
  <2> QED BY <1>2, <2>1, NodesAndRoles DEF Abort, Close, Closes, Everybody, Proceeds
<1> QED BY <1>1, <1>2

\* A role that is asked again, in the same way or in another.
LEMMA AgainStep ==
  ASSUME TypeOK, NEW r \in Roles, NEW kind \in {"primary", "repair", "fallback"},
         Again(r, kind), Fits(r, task[r], retries), retries' \in Nat,
         r \notin Advisory => Tried(task[r].kind) + 1 + retries <= Tried(kind) + retries',
         task[r].at = "awaiting", Billed(r, "ready")
  PROVE  Proceeds(r)
<1> DEFINE t == [task[r] EXCEPT !.at = "ready", !.kind = kind]
<1>1. task[r] \in Tasks
  BY DEF TypeOK
<1>2. t \in Tasks /\ t.at = "ready" /\ t.count = task[r].count /\ t.kind = kind
  <2>1. t \in Tasks
    BY <1>1, TaskTypes
  <2>2. t.at = "ready" /\ t.count = task[r].count /\ t.kind = kind
    BY <1>1 DEF Tasks
  <2> QED BY <2>1, <2>2
<1>3. task' = [task EXCEPT ![r] = t] /\ UNCHANGED <<closed, pc>>
  BY DEF Again, Set
<1>4. Fits(r, t, retries')
  <2> HIDE DEF t
  <2>1. CASE r \in Advisory
    BY <2>1, <1>2 DEF Fits
  <2>2. CASE r \notin Advisory
    <3>1. task[r].count \in Nat /\ Tried(task[r].kind) \in Nat /\ Tried(kind) \in Nat /\ retries \in Nat
      BY <1>1 DEF Tasks, Tried, TypeOK
    <3>2. task[r].count <= Tried(task[r].kind) + 1 + retries
      BY <2>2 DEF Fits
    <3>3. task[r].count <= Tried(kind) + retries'
      BY <2>2, <3>1, <3>2
    <3> QED BY <2>2, <1>2, <3>3 DEF Fits
  <2> QED BY <2>1, <2>2
<1> HIDE DEF t
<1>5. Further(r, t)
  BY <1>2, <1>3, <1>4 DEF Further
<1> QED BY <1>2, <1>5 DEF Proceeds

\* An answer that cannot be used: the fallback model is tried once, or the role gives up.
LEMMA FallbackStep ==
  ASSUME TypeOK, NEW r \in Roles, FallbackOrAbort(r), Fits(r, task[r], retries),
         retries' = retries, task[r].at = "awaiting", Billed(r, "ended")
  PROVE  Proceeds(r)
<1>1. task[r] \in Tasks /\ retries \in Nat
  BY DEF TypeOK
<1>2. CASE r \in Advisory \/ ~Fallback \/ task[r].kind = "fallback"
  BY <1>2, AbortStep DEF FallbackOrAbort
<1>3. CASE ~(r \in Advisory \/ ~Fallback \/ task[r].kind = "fallback")
  <2>1. Again(r, "fallback") /\ Billed(r, "ready")
    BY <1>3 DEF FallbackOrAbort, Billed
  <2>2. Tried(task[r].kind) + 1 <= Tried("fallback")
    BY <1>1, <1>3 DEF Tried, Tasks
  <2>3. Tried(task[r].kind) \in Nat /\ Tried("fallback") \in Nat
    BY DEF Tried
  <2> QED BY <1>1, <2>1, <2>2, <2>3, AgainStep
<1> QED BY <1>2, <1>3

-----------------------------------------------------------------------------
(* One step of an inference.                                               *)

\* A role that starts.
LEMMA EnterRoleStep ==
  ASSUME TypeOK, NEW r \in Roles, Fits(r, task[r], retries), EnterRole(r)
  PROVE  Proceeds(r)
<1> DEFINE t == [task[r] EXCEPT !.at = "ready"]
<1>1. task[r] \in Tasks /\ retries \in Nat
  BY DEF TypeOK
<1>2. Billed(r, "ended") /\ Billed(r, "ready") /\ UNCHANGED <<closed, pc, retries>>
  BY DEF EnterRole, Billed, ledger, run
<1>3. CASE End(r)
  BY <1>2, <1>3, EndStep
<1>4. CASE ~End(r)
  <2>1. task' = [task EXCEPT ![r] = t]
    BY <1>4 DEF EnterRole, Set
  <2>2. t \in Tasks /\ t.at = "ready" /\ t.count = task[r].count /\ t.kind = task[r].kind
    <3>1. t \in Tasks
      BY <1>1, TaskTypes
    <3>2. t.at = "ready" /\ t.count = task[r].count /\ t.kind = task[r].kind
      BY <1>1 DEF Tasks
    <3> QED BY <3>1, <3>2
  <2> HIDE DEF t
  <2>3. Fits(r, t, retries')
    <3>1. task[r].at = "entered" /\ Tried(t.kind) \in Nat
      BY DEF EnterRole, Tried
    <3> QED BY <1>1, <1>2, <2>2, <3>1 DEF Fits
  <2>4. Further(r, t)
    BY <1>2, <2>1, <2>2, <2>3 DEF Further
  <2> QED BY <2>2, <2>4 DEF Proceeds
<1> QED BY <1>3, <1>4

\* An attempt is within the limits and the call budget, and is charged.
LEMMA AttemptStep ==
  ASSUME TypeOK, NEW r \in Roles, Fits(r, task[r], retries), Attempt(r)
  PROVE  Proceeds(r) /\ calls' \in 0..MaxCalls
<1> USE BudgetAssumption
<1> DEFINE t == [task[r] EXCEPT !.at = "awaiting", !.count = @ + 1,
                                !.repairs = IF task[r].kind = "repair" THEN @ + 1 ELSE @]
<1>1. task[r] \in Tasks /\ retries \in 0..MaxRetries /\ calls \in 0..MaxCalls /\ task[r].at = "ready"
  BY DEF TypeOK, Attempt
<1>2. UNCHANGED <<retries, attempts>>
  BY DEF Attempt
<1>3. CASE Abort(r, "failed") /\ UNCHANGED calls
  <2>1. Billed(r, "ended")
    BY <1>1, <1>2, <1>3 DEF Billed
  <2> QED BY <1>1, <1>2, <1>3, <2>1, AbortStep
<1>4. CASE Abort(r, "exhausted") /\ UNCHANGED calls
  <2>1. Billed(r, "ended")
    BY <1>1, <1>2, <1>4 DEF Billed
  <2> QED BY <1>1, <1>2, <1>4, <2>1, AbortStep
<1>5. CASE ~(r \in Advisory /\ task[r].count >= Limit[r]) /\ ~(calls >= MaxCalls) /\ Charge(r)
  <2>1. task' = [task EXCEPT ![r] = t] /\ UNCHANGED <<closed, pc>> /\ calls' = calls + 1
    BY <1>5 DEF Charge, Set
  <2>2. t \in Tasks
    BY <1>1, TaskTypes
  <2>3. t.at = "awaiting" /\ t.count = task[r].count + 1 /\ t.kind = task[r].kind
    BY <1>1 DEF Tasks
  <2> HIDE DEF t
  <2>4. calls < MaxCalls /\ calls' \in 0..MaxCalls
    BY <1>1, <1>5, <2>1
  <2>5. Fits(r, t, retries')
    <3>1. task[r].count \in Nat
      BY <1>1 DEF Tasks
    <3>2. CASE r \in Advisory
      <4>1. Limit[r] \in Nat
        BY <3>2
      <4>2. t.count <= Limit[r]
        BY <1>5, <2>3, <3>1, <3>2, <4>1
      <4> QED BY <3>2, <4>2 DEF Fits
    <3>3. CASE r \notin Advisory
      <4>1. Tried(t.kind) \in 0..2
        BY DEF Tried
      <4>2. task[r].count <= Tried(t.kind) + retries
        BY <1>1, <2>3, <3>3 DEF Fits
      <4>3. t.count <= Tried(t.kind) + 1 + retries' /\ t.count <= MaxRetries + 3
        BY <1>1, <1>2, <2>3, <3>1, <4>1, <4>2
      <4> QED BY <2>3, <3>3, <4>3 DEF Fits
    <3> QED BY <3>2, <3>3
  <2>6. Billed(r, t.at)
    BY <1>1, <1>2, <2>1, <2>3 DEF Billed
  <2>7. Further(r, t)
    BY <2>1, <2>2, <2>3, <2>4, <2>5, <2>6 DEF Further
  <2> QED BY <2>2, <2>4, <2>7 DEF Proceeds
<1> QED BY <1>3, <1>4, <1>5 DEF Attempt, Charge

\* A provider that raises something the harness does not handle.
LEMMA RaiseStep ==
  ASSUME TypeOK, NEW r \in Roles, Fits(r, task[r], retries), AnswerRaises(r)
  PROVE  Proceeds(r)
<1> DEFINE t == [task[r] EXCEPT !.at = "raised"]
<1>1. task[r] \in Tasks /\ task[r].at = "awaiting" /\ retries' = retries
  BY DEF TypeOK, AnswerRaises, ledger
<1>2. t \in Tasks
  BY <1>1, TaskTypes
<1>3. t.at = "raised" /\ t.count = task[r].count
  BY <1>1 DEF Tasks
<1>4. task' = [task EXCEPT ![r] = t]
  BY DEF AnswerRaises, Set
<1> HIDE DEF t
<1>5. Fits(r, t, retries') /\ Billed(r, t.at)
  BY <1>1, <1>3 DEF Fits, Billed, AnswerRaises, ledger
<1>6. Further(r, t)
  BY <1>2, <1>3, <1>4, <1>5 DEF Further, AnswerRaises, run
<1> QED BY <1>2, <1>6 DEF Proceeds

\* A retry of a required role counts against the run.
LEMMA RetryStep ==
  ASSUME TypeOK, NEW r \in Roles, Fits(r, task[r], retries), task[r].at = "awaiting",
         calls' = calls, attempts' = attempts + 1, r \notin Advisory, Retry(r)
  PROVE  Proceeds(r) /\ retries' \in 0..MaxRetries /\ retries' >= retries
<1> USE BudgetAssumption
<1>1. Billed(r, "ended") /\ Billed(r, "ready") /\ retries \in 0..MaxRetries
  BY DEF Billed, TypeOK
<1>2. CASE retries >= MaxRetries
  BY <1>1, <1>2, FallbackStep DEF Retry
<1>3. CASE ~(retries >= MaxRetries)
  <2>1. retries' = retries + 1 /\ Again(r, task[r].kind) /\ retries' \in 0..MaxRetries
    BY <1>1, <1>3 DEF Retry
  <2>2. task[r].kind \in {"primary", "repair", "fallback"} /\ Tried(task[r].kind) \in Nat
    BY DEF TypeOK, Tasks, Tried
  <2>3. Tried(task[r].kind) + 1 + retries <= Tried(task[r].kind) + retries'
    BY <1>1, <2>1, <2>2
  <2>4. Proceeds(r)
    BY <1>1, <2>1, <2>2, <2>3, AgainStep
  <2> QED BY <1>1, <2>1, <2>4
<1> QED BY <1>2, <1>3

\* A retry of an advisory role counts against its own inference.
LEMMA RetryAdvisoryStep ==
  ASSUME TypeOK, NEW r \in Advisory, Fits(r, task[r], retries), task[r].at = "awaiting",
         calls' = calls, attempts' = attempts + 1, RetryAdvisory(r)
  PROVE  Proceeds(r)
<1> DEFINE t == [task[r] EXCEPT !.at = "ready", !.again = @ + 1]
<1>1. r \in Roles /\ task[r] \in Tasks /\ Billed(r, "ended") /\ Billed(r, "ready") /\ retries' = retries
  BY DEF TypeOK, Billed, RetryAdvisory, Roles
<1>2. CASE task[r].again >= MaxRetries
  BY <1>1, <1>2, AbortStep DEF RetryAdvisory
<1>3. CASE ~(task[r].again >= MaxRetries)
  <2>1. task' = [task EXCEPT ![r] = t] /\ UNCHANGED <<closed, pc>>
    BY <1>3 DEF RetryAdvisory, Set
  <2>2. task[r].again < MaxRetries
    BY <1>1, <1>3, BudgetAssumption DEF Tasks
  <2>3. t \in Tasks
    BY <1>1, <2>2, TaskTypes
  <2>4. t.at = "ready" /\ t.count = task[r].count
    BY <1>1 DEF Tasks
  <2> HIDE DEF t
  <2>5. Further(r, t)
    BY <1>1, <2>1, <2>3, <2>4 DEF Further, Fits
  <2> QED BY <2>3, <2>5 DEF Proceeds
<1> QED BY <1>2, <1>3

\* Every outcome of an attempt that is answered.
LEMMA AnswerStep ==
  ASSUME TypeOK, NEW r \in Roles, Fits(r, task[r], retries), NEW o \in Outcomes, Answer(r, o)
  PROVE  Proceeds(r) /\ retries' \in 0..MaxRetries /\ retries' >= retries
<1> USE BudgetAssumption
<1>1. /\ task[r] \in Tasks /\ task[r].at = "awaiting" /\ retries \in 0..MaxRetries
      /\ calls' = calls /\ attempts' = attempts + 1
      /\ Billed(r, "ended") /\ Billed(r, "ready")
  BY DEF TypeOK, Answer, Traced, Billed
<1>2. CASE o = "valid"
  BY <1>1, <1>2, EndStep DEF Answer
<1>3. CASE o = "invalid"
  <2>1. retries' = retries
    BY <1>3 DEF Answer
  <2>2. CASE task[r].kind = "primary"
    <3>1. Again(r, "repair")
      BY <1>3, <2>2 DEF Answer
    <3>2. Tried("primary") + 1 + retries <= Tried("repair") + retries'
      BY <1>1, <2>1 DEF Tried
    <3>3. Proceeds(r)
      BY <1>1, <2>1, <2>2, <3>1, <3>2, AgainStep
    <3> QED BY <1>1, <2>1, <3>3
  <2>3. CASE task[r].kind # "primary"
    <3>1. FallbackOrAbort(r)
      BY <1>3, <2>3 DEF Answer
    <3> QED BY <1>1, <2>1, <3>1, FallbackStep
  <2> QED BY <2>2, <2>3
<1>4. CASE o = "transient"
  <2>1. CASE task[r].kind = "fallback"
    <3>1. Abort(r, "failed") /\ retries' = retries
      BY <1>4, <2>1 DEF Answer
    <3> QED BY <1>1, <3>1, AbortStep
  <2>2. CASE task[r].kind # "fallback" /\ r \in Advisory
    <3>1. RetryAdvisory(r) /\ retries' = retries
      BY <1>4, <2>2 DEF Answer, RetryAdvisory
    <3> QED BY <1>1, <2>2, <3>1, RetryAdvisoryStep
  <2>3. CASE task[r].kind # "fallback" /\ r \notin Advisory
    <3>1. Retry(r)
      BY <1>4, <2>3 DEF Answer
    <3> QED BY <1>1, <2>3, <3>1, RetryStep
  <2> QED BY <2>1, <2>2, <2>3
<1>5. CASE o = "unaffordable"
  <2>1. retries' = retries
    BY <1>5 DEF Answer
  <2>2. Abort(r, "failed") \/ Abort(r, "exhausted")
    BY <1>5 DEF Answer
  <2> QED BY <1>1, <2>1, <2>2, AbortStep
<1> QED BY <1>2, <1>3, <1>4, <1>5 DEF Outcomes

\* All of it: a step of an inference touches its own task and the ledger.
LEMMA InferenceStep ==
  ASSUME TypeOK, NEW r \in Roles, Fits(r, task[r], retries), Step(r)
  PROVE  /\ Proceeds(r) /\ task[r].at \in {"entered", "ready", "awaiting"}
         /\ calls' \in 0..MaxCalls /\ retries' \in 0..MaxRetries /\ retries' >= retries
         /\ UNCHANGED <<agents, context, finalizing, crashes>>
<1> USE BudgetAssumption
<1>1. calls \in 0..MaxCalls /\ retries \in 0..MaxRetries
  BY DEF TypeOK
<1>2. CASE EnterRole(r)
  <2>1. UNCHANGED <<calls, retries>> /\ task[r].at = "entered"
    BY <1>2 DEF EnterRole, ledger
  <2>2. UNCHANGED <<agents, context, finalizing, crashes>>
    BY <1>2 DEF EnterRole, run
  <2> QED BY <1>1, <1>2, <2>1, <2>2, EnterRoleStep
<1>3. CASE Attempt(r)
  <2>1. UNCHANGED <<retries>> /\ task[r].at = "ready" /\ UNCHANGED <<agents, context, finalizing, crashes>>
    BY <1>3 DEF Attempt
  <2> QED BY <1>1, <1>3, <2>1, AttemptStep
<1>4. CASE AnswerRaises(r)
  <2>1. UNCHANGED <<calls, retries>> /\ task[r].at = "awaiting"
    BY <1>4 DEF AnswerRaises, ledger
  <2>2. UNCHANGED <<agents, context, finalizing, crashes>>
    BY <1>4 DEF AnswerRaises, run
  <2> QED BY <1>1, <1>4, <2>1, <2>2, RaiseStep
<1>5. ASSUME NEW o \in Outcomes, Answer(r, o)
      PROVE  /\ Proceeds(r) /\ task[r].at \in {"entered", "ready", "awaiting"}
             /\ calls' \in 0..MaxCalls /\ retries' \in 0..MaxRetries /\ retries' >= retries
             /\ UNCHANGED <<agents, context, finalizing, crashes>>
  <2>1. calls' = calls /\ task[r].at = "awaiting" /\ UNCHANGED <<agents, context, finalizing, crashes>>
    BY <1>5 DEF Answer
  <2> QED BY <1>1, <1>5, <2>1, AnswerStep
<1> QED BY <1>2, <1>3, <1>4, <1>5 DEF Step

-----------------------------------------------------------------------------
(* The invariant.                                                          *)

InFlight == At({"awaiting", "raised"})
IInv == TypeOK /\ Fitting /\ Staffed /\ CallsAreTraced /\ Written /\ Ordered

\* A step that gives one task a new value.
LEMMA OneTask ==
  ASSUME TypeOK, NEW r \in Roles, NEW t \in Tasks, task' = [task EXCEPT ![r] = t]
  PROVE  task' \in [Roles -> Tasks] /\ task'[r] = t /\ \A q \in Roles \ {r} : task'[q] = task[q]
  BY DEF TypeOK

\* A record or a decision is one step of one task, or none.
Writes(r, before, after) ==
  /\ task[r].at \in before /\ task' = [task EXCEPT ![r] = after]
  /\ after \in Tasks /\ after.at \in {"idle", "decided", "recorded"} /\ Fits(r, after, retries)

\* Deciding, recording and checkpointing move one answer on.
LEMMA WritingStep ==
  ASSUME TypeOK, Fitting, NEW r \in Roles, Decide(r) \/ Record(r) \/ Checkpoint(r)
  PROVE  /\ \E t \in Tasks : Writes(r, {"ended", "decided", "recorded"}, t)
         /\ UNCHANGED <<ledger, run, pc, crashes>>
<1> USE BudgetAssumption
<1>1. task[r] \in Tasks /\ Fits(r, task[r], retries)
  BY DEF TypeOK, Fitting
<1>2. ASSUME NEW here \in {"decided", "recorded"}
      PROVE  [task[r] EXCEPT !.at = here] \in Tasks /\ Fits(r, [task[r] EXCEPT !.at = here], retries)
  <2> DEFINE t == [task[r] EXCEPT !.at = here]
  <2>1. t \in Tasks
    BY <1>1, TaskTypes
  <2>2. t.at = here /\ t.count = task[r].count
    BY <1>1 DEF Tasks
  <2> HIDE DEF t
  <2>3. Fits(r, t, retries)
    BY <1>1, <2>2 DEF Fits
  <2> QED BY <2>1, <2>3 DEF t
<1>3. Idle \in Tasks /\ Fits(r, Idle, retries)
  <2>1. r \in Advisory => Limit[r] \in Nat
    OBVIOUS
  <2> QED BY <2>1, IdleType DEF Fits, Idle
<1>4. ASSUME NEW t \in {Idle, [task[r] EXCEPT !.at = "decided"], [task[r] EXCEPT !.at = "recorded"]},
             task[r].at \in {"ended", "decided", "recorded"}, Set(r, t)
      PROVE  \E u \in Tasks : Writes(r, {"ended", "decided", "recorded"}, u)
  <2>1. t \in Tasks /\ Fits(r, t, retries)
    BY <1>2, <1>3, <1>4
  <2>2. t.at \in {"idle", "decided", "recorded"}
    BY <1>1, <1>4 DEF Idle, Tasks
  <2>3. Writes(r, {"ended", "decided", "recorded"}, t)
    BY <1>4, <2>1, <2>2 DEF Writes, Set
  <2> QED BY <2>1, <2>3
<1>5. CASE Decide(r)
  <2>1. Set(r, [task[r] EXCEPT !.at = "decided"]) /\ task[r].at = "ended"
    BY <1>5 DEF Decide
  <2>2. UNCHANGED <<ledger, run, pc, crashes>>
    BY <1>5 DEF Decide
  <2> QED BY <1>4, <2>1, <2>2
<1>6. CASE Record(r)
  <2>1. task[r].at \in {"ended", "decided"}
    BY <1>6 DEF Record
  <2>2. Set(r, Idle) \/ Set(r, [task[r] EXCEPT !.at = "recorded"])
    BY <1>6 DEF Record
  <2>3. UNCHANGED <<ledger, run, pc, crashes>>
    BY <1>6 DEF Record
  <2> QED BY <1>4, <2>1, <2>2, <2>3
<1>7. CASE Checkpoint(r)
  <2>1. Set(r, Idle) /\ task[r].at = "recorded"
    BY <1>7 DEF Checkpoint
  <2>2. UNCHANGED <<ledger, run, pc, crashes>>
    BY <1>7 DEF Checkpoint
  <2> QED BY <1>4, <2>1, <2>2
<1> QED BY <1>5, <1>6, <1>7

\* The tasks of a node that is entered, and those that a failure leaves.
LEMMA EnterTasks ==
  ASSUME TypeOK, Fitting, NEW n \in Nodes, EnterNode(n)
  PROVE  /\ task' \in [Roles -> Tasks] /\ Fitting'
         /\ \A q \in Roles \ Members(n) : task'[q] = task[q]
         /\ \A q \in Roles : task'[q].at \in {"entered", "ready"} \/ task'[q] = task[q]
<1> USE BudgetAssumption
<1> DEFINE new(q) == [Idle EXCEPT !.at = IF q \in Advisory THEN "entered" ELSE "ready"]
<1>1. ASSUME NEW q \in Roles
      PROVE  new(q) \in Tasks /\ new(q).at \in {"entered", "ready"} /\ Fits(q, new(q), retries)
  <2>1. new(q) \in Tasks /\ new(q).at \in {"entered", "ready"} /\ new(q).count = 0 /\ new(q).kind = "primary"
    BY DEF Idle, Tasks
  <2>2. retries \in Nat /\ (q \in Advisory => Limit[q] \in Nat) /\ Tried("primary") = 0
    BY DEF TypeOK, Tried
  <2>3. q \notin Advisory => new(q).at = "ready"
    BY DEF Idle
  <2> HIDE DEF new
  <2> QED BY <2>1, <2>2, <2>3 DEF Fits
<1>2. task' = [q \in Roles |-> IF q \in Members(n) /\ ~Answered(q) THEN new(q) ELSE task[q]]
  BY DEF EnterNode
<1>3. retries' = retries
  BY DEF EnterNode, ledger
<1> HIDE DEF new
<1>4. \A q \in Roles : task'[q] \in Tasks /\ Fits(q, task'[q], retries)
  BY <1>1, <1>2 DEF TypeOK, Fitting
<1> QED BY <1>1, <1>2, <1>3, <1>4 DEF Fitting

\* When the runner fails, the task that raised is gone and its siblings stay.
LEMMA FailedTasks ==
  ASSUME TypeOK, Fitting, RunnerFails
  PROVE  /\ task' \in [Roles -> Tasks] /\ Fitting'
         /\ \A q \in Roles : task'[q] = IF task[q].at = "raised" THEN Idle ELSE task[q]
<1> USE BudgetAssumption
<1>1. task' = [q \in Roles |-> IF task[q].at = "raised" THEN Idle ELSE task[q]] /\ retries' = retries
  BY DEF RunnerFails, ledger
<1>2. \A q \in Roles : Idle \in Tasks /\ Fits(q, Idle, retries)
  <2>1. \A q \in Roles : q \in Advisory => Limit[q] \in Nat
    OBVIOUS
  <2> QED BY <2>1, IdleType DEF Fits, Idle
<1>3. \A q \in Roles : task'[q] \in Tasks /\ Fits(q, task'[q], retries)
  BY <1>1, <1>2 DEF TypeOK, Fitting
<1> QED BY <1>1, <1>3 DEF Fitting

\* A run without tasks is within all bounds.
LEMMA EverybodyFits ==
  ASSUME TypeOK, task' = Everybody
  PROVE  Fitting' /\ task' \in [Roles -> Tasks] /\ \A q \in Roles : ~Live(q)'
<1>1. \A q \in Roles : q \in Advisory => Limit[q] \in Nat
  BY BudgetAssumption
<1>2. \A q \in Roles : task'[q] = Idle
  BY DEF Everybody
<1> QED BY <1>1, <1>2, IdleType, BudgetAssumption DEF Fitting, Fits, Idle, Live

\* The cases of a step, by what happens to the tasks.
Calm == RouteRecovered \/ Act \/ (\E n \in Nodes : LeaveNode(n)) \/ Resume \/ UNCHANGED vars
Cuts == DeadlineFails \/ Crash
\* The kinds of steps that the cases below distinguish.
LEMMA StepCases ==
  ASSUME [Next]_vars
  PROVE  \/ Calm \/ Cuts \/ RunnerFails \/ \E n \in Nodes : EnterNode(n)
         \/ \E r \in Roles : Step(r)
         \/ \E r \in Roles : Decide(r) \/ Record(r) \/ Checkpoint(r)
<1>1. CASE Infer
  BY <1>1 DEF Infer, Step
<1> QED BY <1>1 DEF Next, Graph, Persist, Calm, Cuts

\* Routing and acting touch no task and no bill.
LEMMA CalmStep ==
  ASSUME Calm
  PROVE  UNCHANGED <<ledger, task, crashes>>
  BY DEF Calm, RouteRecovered, Route, Act, LeaveNode, Resume, vars, ledger

\* The deadline and a crash end every task.
LEMMA CutStep ==
  ASSUME Cuts
  PROVE  /\ task' = Everybody /\ UNCHANGED <<ledger, agents, context, finalizing>>
         /\ \/ pc' = "idle" /\ closed' = "timeout" /\ crashes' = crashes
            \/ pc' = "down" /\ closed' = closed /\ crashes' = crashes + 1 /\ crashes < MaxCrashes
  BY DEF Cuts, DeadlineFails, Crash, Close, run, Everybody

\* What a step does to the tasks, in one of four ways.
LEMMA TaskStep ==
  ASSUME TypeOK, Fitting, [Next]_vars
  PROVE  /\ task' \in [Roles -> Tasks] /\ Fitting'
         /\ calls' \in 0..MaxCalls /\ retries' \in 0..MaxRetries /\ attempts' \in Nat
<1> USE BudgetAssumption
<1>1. /\ calls \in 0..MaxCalls /\ retries \in 0..MaxRetries /\ attempts \in Nat
      /\ task \in [Roles -> Tasks] /\ \A r \in Roles : Fits(r, task[r], retries)
  BY DEF TypeOK, Fitting
<1>2. CASE Calm
  BY <1>1, <1>2, CalmStep DEF ledger, Fitting
<1>3. CASE Cuts
  BY <1>1, <1>3, CutStep, EverybodyFits DEF ledger
<1>4. CASE RunnerFails
  <2>1. UNCHANGED ledger
    BY <1>4 DEF RunnerFails
  <2> QED BY <1>1, <1>4, <2>1, FailedTasks DEF ledger
<1>5. ASSUME NEW n \in Nodes, EnterNode(n)
      PROVE  /\ task' \in [Roles -> Tasks] /\ Fitting'
             /\ calls' \in 0..MaxCalls /\ retries' \in 0..MaxRetries /\ attempts' \in Nat
  <2>1. UNCHANGED ledger
    BY <1>5 DEF EnterNode
  <2> QED BY <1>1, <1>5, <2>1, EnterTasks DEF ledger
<1>6. ASSUME NEW r \in Roles, Step(r)
      PROVE  /\ task' \in [Roles -> Tasks] /\ Fitting'
             /\ calls' \in 0..MaxCalls /\ retries' \in 0..MaxRetries /\ attempts' \in Nat
  <2>1. Proceeds(r) /\ calls' \in 0..MaxCalls /\ retries' \in 0..MaxRetries /\ retries' >= retries
    BY <1>1, <1>6, InferenceStep
  <2>2. \A q \in Roles : Fits(q, task[q], retries')
    <3>1. \A q \in Roles : task[q].count \in Nat /\ Tried(task[q].kind) \in Nat
      BY <1>1 DEF Tasks, Tried
    <3> QED BY <1>1, <2>1, <3>1 DEF Fits
  <2>3. ASSUME NEW t \in Tasks, Further(r, t)
        PROVE  task' \in [Roles -> Tasks] /\ Fitting' /\ attempts' \in Nat
    <3>1. task' = [task EXCEPT ![r] = t] /\ Fits(r, t, retries') /\ Billed(r, t.at)
      BY <2>3 DEF Further
    <3>2. task' \in [Roles -> Tasks] /\ task'[r] = t /\ \A q \in Roles \ {r} : task'[q] = task[q]
      BY <3>1, OneTask
    <3>3. Fitting'
      BY <2>2, <3>1, <3>2 DEF Fitting
    <3> QED BY <1>1, <3>1, <3>2, <3>3 DEF Billed
  <2>4. CASE Closes(r)
    <3>1. task' = Everybody /\ Billed(r, "idle")
      BY <2>4 DEF Closes
    <3> QED BY <1>1, <2>1, <3>1, EverybodyFits DEF Billed
  <2> QED BY <2>1, <2>3, <2>4 DEF Proceeds
<1>7. ASSUME NEW r \in Roles, Decide(r) \/ Record(r) \/ Checkpoint(r)
      PROVE  /\ task' \in [Roles -> Tasks] /\ Fitting'
             /\ calls' \in 0..MaxCalls /\ retries' \in 0..MaxRetries /\ attempts' \in Nat
  <2>1. PICK t \in Tasks : Writes(r, {"ended", "decided", "recorded"}, t)
    BY <1>7, WritingStep
  <2>2. UNCHANGED ledger
    BY <1>7, WritingStep
  <2>3. task' = [task EXCEPT ![r] = t] /\ Fits(r, t, retries)
    BY <2>1 DEF Writes
  <2>4. task' \in [Roles -> Tasks] /\ task'[r] = t /\ \A q \in Roles \ {r} : task'[q] = task[q]
    BY <2>3, OneTask
  <2>5. Fitting'
    BY <1>1, <2>2, <2>3, <2>4 DEF Fitting, ledger
  <2> QED BY <1>1, <2>2, <2>4, <2>5 DEF ledger
<1> QED BY <1>2, <1>3, <1>4, <1>5, <1>6, <1>7, StepCases

\* The variables that are no tasks and no counters.
Rest == /\ context \in Nat \ {0} /\ checkpoints \subseteq Roles \X Nat
        /\ accepted \subseteq Required /\ approved \in BOOLEAN /\ finalizing \in BOOLEAN
        /\ closed \in {"open", "ready", "failed", "exhausted", "timeout", "error"}
        /\ pc \in Nodes \cup {"route", "act", "idle", "raised", "down"}
        /\ crashes \in 0..MaxCrashes
Listed == records \in Seq(Roles \X Nat)

\* A step keeps the types.
LEMMA Types ==
  ASSUME TypeOK, Fitting, [Next]_vars
  PROVE  TypeOK'
<1> USE BudgetAssumption
<1>1. Rest /\ Listed
  BY DEF TypeOK, Rest, Listed
<1>2. ASSUME RouteRecovered PROVE Rest'
  <2>1. Recorded \subseteq Roles \X Nat
    BY <1>1 DEF Recorded, Listed
  <2> QED BY <1>1, <1>2, <2>1 DEF RouteRecovered, Route, run, Nodes, Rest
<1>3. ASSUME Act PROVE Rest'
  <2>1. context' \in Nat \ {0}
    BY <1>1, <1>3 DEF Act, Rest
  <2>2. approved' \in BOOLEAN /\ finalizing' \in BOOLEAN
    BY <1>1, <1>3, Zenon DEF Act, Rest
  <2>3. pc' \in {"final", "route"} /\ accepted' \in {accepted, {}} /\ UNCHANGED <<checkpoints, closed, crashes>>
    BY <1>3 DEF Act
  <2> QED BY <1>1, <2>1, <2>2, <2>3 DEF Rest, Nodes
<1>4. ASSUME NEW n \in Nodes, LeaveNode(n) PROVE Rest'
  <2>1. pc' \in Nodes \cup {"act", "idle"}
    BY <1>4 DEF LeaveNode, After, Nodes
  <2> QED BY <1>1, <1>4, <2>1 DEF LeaveNode, agents, Rest
<1>5. ASSUME Resume \/ UNCHANGED vars PROVE Rest'
  BY <1>1, <1>5 DEF Resume, vars, agents, run, Rest
<1>6. ASSUME Cuts PROVE Rest'
  BY <1>1, <1>6, CutStep DEF agents, Rest
<1>7. ASSUME RunnerFails PROVE Rest'
  BY <1>1, <1>7 DEF RunnerFails, agents, Rest
<1>8. ASSUME NEW n \in Nodes, EnterNode(n) PROVE Rest'
  BY <1>1, <1>8 DEF EnterNode, agents, run, Rest
<1>9. ASSUME NEW r \in Roles, Step(r) PROVE Rest'
  <2>1. Proceeds(r) /\ UNCHANGED <<agents, context, finalizing, crashes>>
    BY <1>9, InferenceStep DEF Fitting
  <2>2. closed' \in {closed, "failed", "exhausted"} /\ pc' \in {pc, "raised", "idle"}
    BY <2>1 DEF Proceeds, Further, Closes
  <2> QED BY <1>1, <2>1, <2>2 DEF agents, Rest
<1>10. ASSUME NEW r \in Roles, Decide(r) PROVE Rest'
  BY <1>1, <1>10 DEF Decide, run, Rest
<1>11. ASSUME NEW r \in Roles, Record(r) PROVE Rest'
  BY <1>1, <1>11 DEF Record, run, Rest
<1>12. ASSUME NEW r \in Roles, Checkpoint(r) PROVE Rest'
  <2>1. Key(r) \in Roles \X Nat
    BY <1>1 DEF Key, Rest
  <2> QED BY <1>1, <1>12, <2>1 DEF Checkpoint, run, Rest
<1>13. Rest'
  BY <1>2, <1>3, <1>4, <1>5, <1>6, <1>7, <1>8, <1>9, <1>10, <1>11, <1>12, StepCases DEF Calm
<1>14. Listed'
  <2>1. ASSUME NEW r \in Roles, Record(r) PROVE Listed'
    <3>1. Key(r) \in Roles \X Nat
      BY <1>1 DEF Key, Rest
    <3>2. records' = records \/ records' = Append(records, Key(r))
      BY <2>1 DEF Record
    <3> DEFINE k == Key(r)
               both == Roles \X Nat
    <3>3. k \in both /\ records \in Seq(both)
      BY <1>1, <3>1 DEF Listed
    <3>4. Append(records, k) \in Seq(both)
      <4> HIDE DEF k, both
      <4> QED BY <3>3
    <3> QED BY <1>1, <3>2, <3>4 DEF Listed
  <2>2. ASSUME NEW r \in Roles, Step(r) PROVE Listed'
    <3>1. records' = records
      BY <2>2, InferenceStep DEF Fitting, agents
    <3> QED BY <1>1, <3>1 DEF Listed
  <2>3. Calm => records' = records
    BY DEF Calm, RouteRecovered, Route, Act, LeaveNode, Resume, vars, agents
  <2>4. Cuts => records' = records
    BY CutStep DEF agents
  <2>5. \A n \in Nodes : EnterNode(n) => records' = records
    BY DEF EnterNode, agents
  <2>6. RunnerFails => records' = records
    BY DEF RunnerFails, agents
  <2>7. \A r \in Roles : Decide(r) \/ Checkpoint(r) => records' = records
    BY DEF Decide, Checkpoint
  <2> QED BY <1>1, <2>1, <2>2, <2>3, <2>4, <2>5, <2>6, <2>7, StepCases DEF Listed
<1> QED BY <1>13, <1>14, TaskStep DEF TypeOK, Rest, Listed

\* Who is alive: a step gives life only to the members of the current node.
LEMMA Staffing ==
  ASSUME TypeOK, Fitting, Staffed, [Next]_vars
  PROVE  Staffed'
<1>1. \A n \in Nodes : Members(n) \subseteq Roles
  BY NodesAndRoles
<1>2. Required \subseteq Roles /\ (\A q \in Required : q \in Nodes /\ Members(q) = {q})
  BY NodesAndRoles
<1>3. pc \in Nodes \cup {"route", "act", "idle", "raised", "down"}
  BY DEF TypeOK
<1>4. ASSUME RouteRecovered PROVE Staffed'
  <2>1. pc = "route" /\ pc' \in Nodes \cup {"act"} /\ UNCHANGED <<closed, task>>
    BY <1>4 DEF RouteRecovered, Route, run, Nodes
  <2>2. \A q \in Roles : ~Live(q)
    BY <2>1 DEF Staffed, Alone
  <2> QED BY <1>2, <2>1, <2>2 DEF Staffed, Alone, OnlyMembers, StillOpen, OwnNode, Live, Nodes
<1>5. ASSUME Act PROVE Staffed'
  <2>1. pc = "act" /\ pc' \in {"final", "route"} /\ UNCHANGED <<closed, task>>
    BY <1>5 DEF Act
  <2>2. \A q \in Roles : ~Live(q)
    BY <2>1 DEF Staffed, Alone
  <2> QED BY <1>2, <2>1, <2>2 DEF Staffed, Alone, OnlyMembers, StillOpen, OwnNode, Live, Nodes
<1>6. ASSUME NEW n \in Nodes, LeaveNode(n) PROVE Staffed'
  <2>1. /\ pc = n /\ UNCHANGED task
        /\ \/ closed' = "ready" /\ pc' = "idle"
           \/ pc' \in Nodes \cup {"act"} /\ UNCHANGED closed
    BY <1>6 DEF LeaveNode, After, Nodes
  <2>2. \A q \in Roles : ~Live(q)
    BY <1>6, <2>1 DEF Staffed, OnlyMembers, LeaveNode, Live
  <2> QED BY <1>2, <2>1, <2>2 DEF Staffed, Alone, OnlyMembers, StillOpen, OwnNode, Live, Nodes
<1>7. ASSUME Resume PROVE Staffed'
  BY <1>2, <1>7 DEF Resume, run, Staffed, Alone, OnlyMembers, StillOpen, OwnNode, Live, Nodes
<1>8. ASSUME UNCHANGED vars PROVE Staffed'
  BY <1>8 DEF vars, run, Staffed, Alone, OnlyMembers, StillOpen, OwnNode, Live
<1>9. ASSUME Cuts PROVE Staffed'
  <2>1. \A q \in Roles : ~Live(q)'
    BY <1>9, CutStep, EverybodyFits
  <2>2. pc' \in {"idle", "down"}
    BY <1>9, CutStep
  <2> QED BY <1>2, <2>1, <2>2 DEF Staffed, Alone, OnlyMembers, StillOpen, OwnNode, Nodes
<1>10. ASSUME RunnerFails PROVE Staffed'
  <2>1. pc = "raised" /\ pc' = "idle" /\ closed' = "error"
    BY <1>10 DEF RunnerFails
  <2>2. \A q \in Roles : task'[q] = IF task[q].at = "raised" THEN Idle ELSE task[q]
    BY <1>10, FailedTasks
  <2>3. \A q \in Required : ~Live(q)'
    BY <1>2, <2>1, <2>2 DEF Staffed, OwnNode, Live, Idle, Nodes
  <2> QED BY <2>1, <2>3 DEF Staffed, Alone, OnlyMembers, StillOpen, OwnNode, Nodes
<1>11. ASSUME NEW n \in Nodes, EnterNode(n) PROVE Staffed'
  <2>1. pc = n /\ UNCHANGED <<pc, closed>>
    BY <1>11 DEF EnterNode, run
  <2>2. \A q \in Roles \ Members(n) : task'[q] = task[q]
    BY <1>11, EnterTasks
  <2>3. closed = "open"
    BY <2>1 DEF Staffed, StillOpen
  <2>4. \A q \in Roles \ Members(n) : ~Live(q)'
    BY <2>1, <2>2 DEF Staffed, OnlyMembers, Live
  <2>5. \A q \in Required : q \in Members(n) => q = n
    BY DEF Required, Members, Nodes
  <2>6. Alone' /\ StillOpen'
    BY <2>1, <2>3 DEF Alone, StillOpen, Nodes
  <2>7. OnlyMembers'
    BY <2>1, <2>4 DEF OnlyMembers
  <2>8. ASSUME NEW q \in Required, Live(q)' PROVE pc' = q
    <3>1. q \in Members(n)
      BY <1>2, <2>4, <2>8
    <3>2. q = n
      BY <2>5, <3>1
    <3> QED BY <2>1, <3>2
  <2>9. OwnNode'
    BY <2>8 DEF OwnNode
  <2> QED BY <2>6, <2>7, <2>9 DEF Staffed
<1>12. ASSUME NEW r \in Roles, Step(r) PROVE Staffed'
  <2>1. Proceeds(r) /\ task[r].at \in {"entered", "ready", "awaiting"}
    BY <1>12, InferenceStep DEF Fitting
  <2>2. Live(r) /\ task[r].at # "raised"
    BY <2>1 DEF Live
  <2>3. pc \notin {"route", "act", "down"} /\ closed \in {"open", "error"}
    BY <2>2 DEF Staffed, Alone
  <2>4. CASE Closes(r)
    <3>1. \A q \in Roles : ~Live(q)'
      BY <2>4, EverybodyFits DEF Closes
    <3> QED BY <1>2, <2>4, <3>1 DEF Closes, Staffed, Alone, OnlyMembers, StillOpen, OwnNode, Nodes
  <2>5. ASSUME NEW t \in Tasks, Further(r, t) PROVE Staffed'
    <3>1. /\ task' = [task EXCEPT ![r] = t] /\ closed' = closed
          /\ pc' = IF t.at = "raised" /\ pc \in Nodes /\ r \in Members(pc) THEN "raised" ELSE pc
      BY <2>5 DEF Further
    <3>2. task'[r] = t /\ \A q \in Roles \ {r} : task'[q] = task[q]
      BY <3>1, OneTask
    <3>3. \A q \in Roles : Live(q)' => Live(q)
      BY <2>2, <3>2 DEF Live
    <3>4. pc' \in {pc, "raised"} /\ (pc' # pc => pc \in Nodes)
      BY <3>1
    <3>5. Alone' /\ OnlyMembers' /\ StillOpen'
      BY <2>3, <3>1, <3>3, <3>4 DEF Staffed, Alone, OnlyMembers, StillOpen, Nodes
    <3>6. ASSUME NEW q \in Required, Live(q)'
          PROVE  pc' = q \/ (pc' = "raised" /\ task'[q].at = "raised")
      <4>1. Live(q) /\ q \in Roles /\ q \in Nodes /\ Members(q) = {q}
        BY <1>2, <3>3, <3>6
      <4>2. pc = q \/ (pc = "raised" /\ task[q].at = "raised")
        BY <4>1 DEF Staffed, OwnNode
      <4>3. CASE pc = q
        <5>1. q = r
          BY <2>2, <4>1, <4>3 DEF Staffed, OnlyMembers
        <5>2. r \in Members(pc) /\ pc \in Nodes
          BY <4>1, <4>3, <5>1
        <5>3. t.at = "raised" => pc' = "raised"
          BY <3>1, <5>2
        <5>4. t.at # "raised" => pc' = q
          BY <3>1, <4>3
        <5>5. task'[q].at = t.at
          BY <3>2, <5>1
        <5>6. CASE t.at = "raised"
          BY <5>3, <5>5, <5>6
        <5>7. CASE t.at # "raised"
          BY <5>4, <5>7
        <5> QED BY <5>6, <5>7
      <4>4. CASE pc # q
        <5>1. q # r
          BY <2>2, <4>2, <4>4
        <5> QED BY <3>2, <3>4, <4>1, <4>2, <4>4, <5>1 DEF Nodes
      <4> QED BY <4>3, <4>4
    <3> QED BY <3>5, <3>6 DEF Staffed, OwnNode
  <2> QED BY <2>1, <2>4, <2>5 DEF Proceeds
<1>13. ASSUME NEW r \in Roles, Decide(r) \/ Record(r) \/ Checkpoint(r) PROVE Staffed'
  <2>1. PICK t \in Tasks : Writes(r, {"ended", "decided", "recorded"}, t)
    BY <1>13, WritingStep
  <2>2. UNCHANGED <<closed, pc>>
    BY <1>13, WritingStep DEF run
  <2>3. task'[r] = t /\ \A q \in Roles \ {r} : task'[q] = task[q]
    BY <2>1, OneTask DEF Writes
  <2>4. task[r].at \notin {"idle", "raised"}
    BY <2>1 DEF Writes
  <2>5. \A q \in Roles : Live(q)' => Live(q)
    BY <2>3, <2>4 DEF Live
  <2>6. \A q \in Required : task[q].at = "raised" => task'[q].at = "raised"
    BY <1>2, <2>3, <2>4
  <2> QED BY <1>2, <2>2, <2>5, <2>6 DEF Staffed, Alone, OnlyMembers, StillOpen, OwnNode
<1> QED BY <1>4, <1>5, <1>6, <1>7, <1>8, <1>9, <1>10, <1>11, <1>12, <1>13, StepCases DEF Calm

-----------------------------------------------------------------------------
(* Every charged call is awaited or traced.                                *)

\* A step keeps the account of charged calls: answered, awaited, or lost by a crash.
LEMMA Billing ==
  ASSUME TypeOK, Fitting, Staffed, CallsAreTraced, [Next]_vars
  PROVE  CallsAreTraced'
<1>1. /\ task \in [Roles -> Tasks] /\ task' \in [Roles -> Tasks] /\ crashes \in Nat
      /\ calls \in Nat /\ attempts \in Nat /\ IsFiniteSet(Roles)
  BY TaskStep, NodesAndRoles, BudgetAssumption DEF TypeOK
<1>2. InFlight \subseteq Roles /\ IsFiniteSet(InFlight) /\ Cardinality(InFlight) \in Nat
  BY <1>1, FS_Subset, FS_CardinalityType DEF InFlight, At
<1> DEFINE Short == ~(crashes = 0 /\ closed \notin {"timeout", "error"})
<1>3. ASSUME UNCHANGED <<ledger, InFlight>>, Short => Short' PROVE CallsAreTraced'
  BY <1>3 DEF CallsAreTraced, InFlight, ledger
<1>4. ASSUME Calm PROVE CallsAreTraced'
  <2>1. UNCHANGED <<ledger, task, crashes>>
    BY <1>4, CalmStep
  <2>2. closed' \in {closed, "ready"} /\ (closed' # closed => closed = "open")
    BY <1>4 DEF Calm, RouteRecovered, Route, Act, LeaveNode, Resume, vars, run, Staffed, StillOpen
  <2>3. UNCHANGED InFlight
    BY <2>1 DEF InFlight, At
  <2> QED BY <1>3, <2>1, <2>2, <2>3
<1>5. ASSUME Cuts PROVE CallsAreTraced'
  BY <1>1, <1>5, CutStep DEF CallsAreTraced
<1>6. ASSUME RunnerFails PROVE CallsAreTraced'
  BY <1>6 DEF RunnerFails, CallsAreTraced
<1>7. ASSUME NEW n \in Nodes, EnterNode(n) PROVE CallsAreTraced'
  <2>1. UNCHANGED <<ledger, closed, crashes>>
    BY <1>7 DEF EnterNode, run
  <2>2. \A q \in Roles : task'[q].at \in {"awaiting", "raised"} <=> task[q].at \in {"awaiting", "raised"}
    <3>1. \A q \in Roles : task'[q].at \in {"entered", "ready"} \/ task'[q] = task[q]
      BY <1>7, EnterTasks
    <3>2. \A q \in Members(n) : task[q].at = "idle"
      BY <1>7 DEF EnterNode
    <3>3. \A q \in Roles \ Members(n) : task'[q] = task[q]
      BY <1>7, EnterTasks
    <3> QED BY <3>1, <3>2, <3>3
  <2>3. UNCHANGED InFlight
    BY <2>2 DEF InFlight, At
  <2> QED BY <1>3, <2>1, <2>3
<1>8. ASSUME NEW r \in Roles, Decide(r) \/ Record(r) \/ Checkpoint(r) PROVE CallsAreTraced'
  <2>1. PICK t \in Tasks : Writes(r, {"ended", "decided", "recorded"}, t)
    BY <1>8, WritingStep
  <2>2. UNCHANGED <<ledger, closed, crashes>>
    BY <1>8, WritingStep DEF run
  <2>3. task'[r] = t /\ \A q \in Roles \ {r} : task'[q] = task[q]
    BY <2>1, OneTask DEF Writes
  <2>4. \A q \in Roles : task'[q].at \in {"awaiting", "raised"} <=> task[q].at \in {"awaiting", "raised"}
    BY <2>1, <2>3 DEF Writes
  <2>5. UNCHANGED InFlight
    BY <2>4 DEF InFlight, At
  <2> QED BY <1>3, <2>2, <2>5
<1>9. ASSUME NEW r \in Roles, Step(r) PROVE CallsAreTraced'
  <2>1. Proceeds(r) /\ task[r].at \in {"entered", "ready", "awaiting"} /\ UNCHANGED crashes
    BY <1>9, InferenceStep DEF Fitting
  <2>2. ASSUME NEW t \in Tasks, Further(r, t) PROVE CallsAreTraced'
    <3>1. task' = [task EXCEPT ![r] = t] /\ closed' = closed /\ Billed(r, t.at)
      BY <2>2 DEF Further
    <3>2. task'[r] = t /\ \A q \in Roles \ {r} : task'[q] = task[q]
      BY <3>1, OneTask
    <3>3. CASE t.at = "awaiting" /\ task[r].at = "ready" /\ calls' = calls + 1 /\ attempts' = attempts
      <4>1. InFlight' = InFlight \cup {r} /\ r \notin InFlight
        BY <3>2, <3>3 DEF InFlight, At
      <4>2. Cardinality(InFlight') = Cardinality(InFlight) + 1
        BY <1>2, <4>1, FS_AddElement
      <4> QED BY <1>1, <1>2, <2>1, <3>1, <3>3, <4>2 DEF CallsAreTraced, InFlight
    <3>4. CASE /\ t.at \in {"ready", "ended", "idle"} /\ task[r].at = "awaiting"
               /\ calls' = calls /\ attempts' = attempts + 1
      <4>1. InFlight' = InFlight \ {r} /\ r \in InFlight
        BY <3>2, <3>4 DEF InFlight, At
      <4>2. Cardinality(InFlight') = Cardinality(InFlight) - 1
        BY <1>2, <4>1, FS_RemoveElement
      <4> QED BY <1>1, <1>2, <2>1, <3>1, <3>4, <4>2 DEF CallsAreTraced, InFlight
    <3>5. CASE calls' = calls /\ attempts' = attempts
               /\ (t.at \in {"awaiting", "raised"} <=> task[r].at \in {"awaiting", "raised"})
      <4>1. InFlight' = InFlight
        BY <3>2, <3>5 DEF InFlight, At
      <4> QED BY <2>1, <3>1, <3>5, <4>1 DEF CallsAreTraced, InFlight
    <3> QED BY <3>1, <3>3, <3>4, <3>5 DEF Billed
  <2>3. ASSUME Closes(r) PROVE CallsAreTraced'
    <3>1. Live(r) /\ task[r].at # "raised" /\ r \in Required /\ Members(r) = {r} /\ r \in Nodes
      BY <2>1, <2>3, NodesAndRoles DEF Live, Closes
    <3>2. pc = r /\ closed = "open"
      BY <3>1 DEF Staffed, OwnNode, StillOpen
    <3>3. \A q \in Roles \ {r} : ~Live(q)
      BY <3>1, <3>2 DEF Staffed, OnlyMembers
    <3>4. InFlight \subseteq {r} /\ (r \in InFlight <=> task[r].at = "awaiting")
      BY <3>1, <3>3 DEF InFlight, At, Live
    <3>5. InFlight' = {}
      <4>1. \A q \in Roles : ~Live(q)'
        BY <2>3, EverybodyFits DEF Closes
      <4> QED BY <4>1 DEF InFlight, At, Live
    <3>6. Cardinality(InFlight') = 0
      BY <3>5, FS_EmptySet
    <3>7. CASE task[r].at = "awaiting"
      <4>1. InFlight = {r} /\ Cardinality(InFlight) = 1
        BY <3>4, <3>7, FS_Singleton
      <4>2. calls' = calls /\ attempts' = attempts + 1
        BY <2>3, <3>7 DEF Closes, Billed
      <4> QED BY <1>1, <2>1, <3>2, <3>6, <4>1, <4>2 DEF CallsAreTraced, InFlight
    <3>8. CASE task[r].at # "awaiting"
      <4>1. InFlight = {} /\ Cardinality(InFlight) = 0
        BY <3>4, <3>8, FS_EmptySet
      <4>2. calls' = calls /\ attempts' = attempts
        BY <2>3, <3>8 DEF Closes, Billed
      <4> QED BY <1>1, <2>1, <3>2, <3>6, <4>1, <4>2 DEF CallsAreTraced, InFlight
    <3> QED BY <3>7, <3>8
  <2> QED BY <2>1, <2>2, <2>3 DEF Proceeds
<1> QED BY <1>4, <1>5, <1>6, <1>7, <1>8, <1>9, StepCases

-----------------------------------------------------------------------------
(* The records and their checkpoints.                                      *)

\* A step that writes no record.
LEMMA SameRecords ==
  ASSUME UNCHANGED <<records, context>>
  PROVE  Recorded' = Recorded /\ \A r \in Roles : Key(r)' = Key(r) /\ (Has(r)' <=> Has(r))
BY DEF Recorded, Has, Key

\* A step that appends one record.
LEMMA OneMoreRecord ==
  ASSUME TypeOK, NEW r \in Roles, records' = Append(records, Key(r)), context' = context
  PROVE  /\ Recorded' = Recorded \cup {Key(r)}
         /\ \A q \in Roles : Key(q)' = Key(q) /\ (Has(q)' <=> Has(q) \/ q = r)
         /\ Len(records) \in Nat /\ DOMAIN records = 1..Len(records)
         /\ DOMAIN records' = 1..(Len(records) + 1)
         /\ records'[Len(records) + 1] = Key(r)
         /\ \A n \in DOMAIN records : records'[n] = records[n]
<1> DEFINE k == Key(r)
           both == Roles \X Nat
<1>1. records \in Seq(both) /\ k \in both
  BY DEF TypeOK, Key
<1>2. /\ Len(records) \in Nat /\ DOMAIN records = 1..Len(records)
      /\ DOMAIN records' = 1..(Len(records) + 1)
      /\ records'[Len(records) + 1] = k
      /\ \A n \in DOMAIN records : records'[n] = records[n]
  <2>1. records' = Append(records, k)
    OBVIOUS
  <2> HIDE DEF k, both
  <2> QED BY <1>1, <2>1
<1>3. Recorded' = Recorded \cup {k}
  <2> HIDE DEF k, both
  <2>1. ASSUME NEW x \in Recorded' PROVE x \in Recorded \cup {k}
    <3>1. PICK n \in 1..(Len(records) + 1) : x = records'[n]
      BY <1>2, <2>1 DEF Recorded
    <3>2. CASE n = Len(records) + 1
      BY <1>2, <3>1, <3>2
    <3>3. CASE n # Len(records) + 1
      <4>1. n \in DOMAIN records
        BY <1>2, <3>3
      <4> QED BY <1>2, <3>1, <4>1 DEF Recorded
    <3> QED BY <3>2, <3>3
  <2>2. ASSUME NEW x \in Recorded \cup {k} PROVE x \in Recorded'
    <3>1. CASE x = k
      BY <1>2, <3>1 DEF Recorded
    <3>2. CASE x \in Recorded
      <4>1. PICK n \in DOMAIN records : x = records[n]
        BY <3>2 DEF Recorded
      <4>2. n \in DOMAIN records' /\ x = records'[n]
        BY <1>2, <4>1
      <4> QED BY <4>2 DEF Recorded
    <3> QED BY <2>2, <3>1, <3>2
  <2> QED BY <2>1, <2>2
<1>4. \A q \in Roles : Key(q)' = Key(q) /\ (Key(q) = k <=> q = r)
  BY DEF Key
<1>5. \A q \in Roles : Has(q)' <=> Has(q) \/ q = r
  <2> HIDE DEF k
  <2> QED BY <1>3, <1>4 DEF Has
<1> QED BY <1>2, <1>3, <1>4, <1>5

\* A record comes once: its role is in its own node, or has just been decided.
LEMMA FreshRecord ==
  ASSUME TypeOK, Written, NEW r \in Roles, Record(r), Key(r) \notin checkpoints
  PROVE  ~Has(r)
<1>1. CASE r \in Advisory
  <2>1. task[r].at = "ended" /\ pc \in Nodes
    BY <1>1, NodesAndRoles DEF Record
  <2> QED BY <1>1, <2>1 DEF Written, Known
<1>2. CASE r \notin Advisory
  BY <1>2, NodesAndRoles DEF Record, Written, Saved
<1> QED BY <1>1, <1>2

\* A step keeps what is known of the records and checkpoints.
LEMMA WrittenStep ==
  ASSUME TypeOK, Fitting, Staffed, Written, [Next]_vars
  PROVE  Written'
<1>1. /\ records \in Seq(Roles \X Nat) /\ context \in Nat
      /\ Required \subseteq Roles /\ Advisory \subseteq Roles
  BY NodesAndRoles DEF TypeOK
<1>2. ASSUME RouteRecovered PROVE Written'
  <2>1. /\ pc = "route" /\ UNCHANGED <<records, accepted, context, task>>
        /\ checkpoints' = checkpoints \cup Recorded
    BY <1>2 DEF RouteRecovered, Route, run
  <2>2. Recorded' = Recorded /\ \A r \in Roles : Key(r)' = Key(r) /\ (Has(r)' <=> Has(r))
    BY <2>1, SameRecords
  <2>3. \A r \in Advisory : Has(r)' => Key(r)' \in checkpoints'
    BY <1>1, <2>1, <2>2 DEF Has
  <2> QED BY <1>1, <2>1, <2>2, <2>3 DEF Written, Dated, Once, Known, Asked, Saved, Backed
<1>3. ASSUME Act PROVE Written'
  <2>1. /\ pc = "act" /\ UNCHANGED <<records, checkpoints, task>>
        /\ \/ UNCHANGED <<context, accepted>>
           \/ context' = context + 1
    BY <1>3 DEF Act
  <2>2. \A r \in Roles : task[r].at = "idle"
    BY <2>1 DEF Staffed, Alone, Live
  <2>3. Recorded' = Recorded
    BY <2>1 DEF Recorded
  <2>4. CASE UNCHANGED <<context, accepted>>
    <3>1. \A r \in Roles : Key(r)' = Key(r) /\ (Has(r)' <=> Has(r))
      BY <2>1, <2>4, SameRecords
    <3> QED BY <1>1, <2>1, <2>2, <2>3, <2>4, <3>1 DEF Written, Dated, Once, Known, Asked, Saved, Backed
  <2>5. CASE context' = context + 1
    <3>1. \A k \in Recorded : k \in Roles \X Nat
      BY <1>1 DEF Recorded
    <3>2. Dated'
      BY <1>1, <2>3, <2>5, <3>1 DEF Written, Dated
    <3>3. \A r \in Roles : ~Has(r)'
      <4> SUFFICES ASSUME NEW r \in Roles, <<r, context + 1>> \in Recorded PROVE FALSE
        BY <2>3, <2>5 DEF Has, Key
      <4>1. <<r, context + 1>>[2] <= context
        BY DEF Written, Dated
      <4> QED BY <1>1, <4>1
    <3>4. Known' /\ Asked' /\ Saved'
      BY <1>1, <2>1, <2>2, <3>3 DEF Known, Asked, Saved, Asking
    <3>5. Backed' /\ Once'
      BY <2>1, <2>2, <2>3 DEF Written, Backed, Once
    <3> QED BY <3>2, <3>4, <3>5 DEF Written
  <2> QED BY <2>1, <2>4, <2>5
<1>4. ASSUME UNCHANGED <<records, checkpoints, accepted, context>>,
             \A r \in Roles : task'[r] = task[r] \/ task'[r].at = "idle",
             pc' \in Nodes \cup {"act"} => pc \in Nodes \cup {"act"} /\ task' = task
      PROVE  Written'
  <2>1. Recorded' = Recorded /\ \A r \in Roles : Key(r)' = Key(r) /\ (Has(r)' <=> Has(r))
    BY <1>4, SameRecords
  <2>2. Known'
    BY <1>1, <1>4, <2>1 DEF Written, Known
  <2>3. Asked' /\ Saved' /\ Backed'
    BY <1>1, <1>4, <2>1 DEF Written, Asked, Saved, Backed, Asking
  <2>4. Dated' /\ Once'
    BY <1>4, <2>1 DEF Written, Dated, Once
  <2> QED BY <2>2, <2>3, <2>4 DEF Written
<1>5. ASSUME NEW n \in Nodes, LeaveNode(n) PROVE Written'
  BY <1>4, <1>5 DEF LeaveNode, agents
<1>6. ASSUME Resume \/ UNCHANGED vars PROVE Written'
  BY <1>4, <1>6 DEF Resume, vars, agents, run, Nodes
<1>7. ASSUME Cuts PROVE Written'
  <2>1. \A r \in Roles : task'[r].at = "idle"
    BY <1>7, CutStep DEF Everybody, Idle
  <2> QED BY <1>4, <1>7, <2>1, CutStep DEF agents, Nodes
<1>8. ASSUME RunnerFails PROVE Written'
  <2>1. \A r \in Roles : task'[r] = task[r] \/ task'[r].at = "idle"
    BY <1>8, FailedTasks DEF Idle
  <2> QED BY <1>4, <1>8, <2>1 DEF RunnerFails, agents, Nodes
<1>9. ASSUME NEW n \in Nodes, EnterNode(n) PROVE Written'
  <2>1. /\ pc = n /\ UNCHANGED <<pc, records, checkpoints, accepted, context>>
        /\ \A r \in Members(n) : task[r].at = "idle"
    BY <1>9 DEF EnterNode, agents, run
  <2>2. Recorded' = Recorded /\ \A r \in Roles : Key(r)' = Key(r) /\ (Has(r)' <=> Has(r))
    BY <2>1, SameRecords
  <2>3. \A r \in Roles : \/ task'[r] = task[r]
                         \/ /\ r \in Members(n) /\ ~Answered(r)
                            /\ task'[r].at \in {"entered", "ready"}
    BY <1>9 DEF EnterNode, Idle
  <2>4. \A r \in Members(n) \cap Advisory : ~Answered(r) => ~Has(r)
    BY <2>1 DEF Written, Known, Answered
  <2>5. \A r \in Required : ~Answered(r) => r \notin accepted
    BY NodesAndRoles DEF Answered
  <2>6. Asked'
    BY <1>1, <2>2, <2>3, <2>4 DEF Written, Asked
  <2>7. Saved'
    BY <1>1, <2>1, <2>2, <2>3, <2>5 DEF Written, Saved
  <2>8. Known' /\ Backed'
    BY <1>1, <2>1, <2>2, <2>3 DEF Written, Known, Backed
  <2>9. Dated' /\ Once'
    BY <2>1, <2>2 DEF Written, Dated, Once
  <2> QED BY <2>6, <2>7, <2>8, <2>9 DEF Written
<1>10. ASSUME NEW r \in Roles, Step(r) PROVE Written'
  <2>1. /\ Proceeds(r) /\ task[r].at \in Asking /\ UNCHANGED <<records, checkpoints, accepted, context>>
    BY <1>10, InferenceStep DEF Fitting, agents, Asking
  <2>2. CASE Closes(r)
    <3>1. \A q \in Roles : task'[q].at = "idle"
      BY <2>2 DEF Closes, Everybody, Idle
    <3> QED BY <1>4, <2>1, <2>2, <3>1 DEF Closes, Nodes
  <2>3. ASSUME NEW t \in Tasks, Further(r, t) PROVE Written'
    <3>1. /\ task' = [task EXCEPT ![r] = t] /\ t.at \in {"ready", "awaiting", "ended", "raised"}
          /\ pc' \in Nodes \cup {"act"} => pc' = pc
      BY <2>3 DEF Further, Nodes
    <3>2. task'[r] = t /\ \A q \in Roles \ {r} : task'[q] = task[q]
      BY <3>1, OneTask
    <3>3. Recorded' = Recorded /\ \A q \in Roles : Key(q)' = Key(q) /\ (Has(q)' <=> Has(q))
      BY <2>1, SameRecords
    <3>4. Known'
      BY <1>1, <2>1, <3>1, <3>2, <3>3 DEF Written, Known, Asking
    <3>5. Asked'
      BY <1>1, <2>1, <3>2, <3>3 DEF Written, Asked
    <3>6. Saved'
      BY <1>1, <2>1, <3>1, <3>2, <3>3 DEF Written, Saved
    <3>7. Backed'
      BY <1>1, <2>1, <3>1, <3>2, <3>3 DEF Written, Backed
    <3>8. Dated' /\ Once'
      BY <2>1, <3>3 DEF Written, Dated, Once
    <3> QED BY <3>4, <3>5, <3>6, <3>7, <3>8 DEF Written
  <2> QED BY <2>1, <2>2, <2>3 DEF Proceeds
<1>11. ASSUME NEW r \in Roles, Decide(r) PROVE Written'
  <2>1. /\ r \in Required /\ task[r].at = "ended" /\ accepted' = accepted \cup {r}
        /\ task' = [task EXCEPT ![r] = [task[r] EXCEPT !.at = "decided"]]
        /\ UNCHANGED <<records, checkpoints, context, pc>>
    BY <1>11 DEF Decide, Set, run
  <2>2. task'[r].at = "decided" /\ \A q \in Roles \ {r} : task'[q] = task[q]
    BY <2>1 DEF TypeOK, Tasks
  <2>3. Recorded' = Recorded /\ \A q \in Roles : Key(q)' = Key(q) /\ (Has(q)' <=> Has(q))
    BY <2>1, SameRecords
  <2>4. r \notin Advisory /\ ~Has(r)
    BY <2>1, NodesAndRoles DEF Written, Saved
  <2>5. Known' /\ Asked'
    BY <1>1, <2>1, <2>2, <2>3, <2>4 DEF Written, Known, Asked
  <2>6. Saved'
    BY <1>1, <2>1, <2>2, <2>3, <2>4 DEF Written, Saved, Asking
  <2>7. Backed' /\ Dated' /\ Once'
    BY <1>1, <2>1, <2>2, <2>3 DEF Written, Backed, Dated, Once
  <2> QED BY <2>5, <2>6, <2>7 DEF Written
<1>12. ASSUME NEW r \in Roles, Record(r), Key(r) \in checkpoints PROVE Written'
  <2>1. /\ task' = [task EXCEPT ![r] = Idle] /\ task[r].at \in {"ended", "decided"}
        /\ UNCHANGED <<records, checkpoints, accepted, context, pc>>
    BY <1>12 DEF Record, Set, run
  <2>2. task'[r].at = "idle" /\ \A q \in Roles \ {r} : task'[q] = task[q]
    BY <2>1, OneTask, IdleType DEF Idle
  <2>3. Recorded' = Recorded /\ \A q \in Roles : Key(q)' = Key(q) /\ (Has(q)' <=> Has(q))
    BY <2>1, SameRecords
  <2>4. Known' /\ Asked'
    BY <1>1, <1>12, <2>1, <2>2, <2>3 DEF Written, Known, Asked, Asking
  <2>5. Saved' /\ Backed'
    BY <1>1, <2>1, <2>2, <2>3 DEF Written, Saved, Backed, Asking
  <2>6. Dated' /\ Once'
    BY <2>1, <2>3 DEF Written, Dated, Once
  <2> QED BY <2>4, <2>5, <2>6 DEF Written
<1>13. ASSUME NEW r \in Roles, Record(r), Key(r) \notin checkpoints PROVE Written'
  <2>1. /\ task' = [task EXCEPT ![r] = [task[r] EXCEPT !.at = "recorded"]]
        /\ records' = Append(records, Key(r))
        /\ UNCHANGED <<checkpoints, accepted, context, pc>>
        /\ (r \in Advisory /\ task[r].at = "ended") \/ (r \in Required /\ task[r].at = "decided")
    BY <1>13 DEF Record, Set, run
  <2>2. task'[r].at = "recorded" /\ \A q \in Roles \ {r} : task'[q] = task[q]
    BY <2>1 DEF TypeOK, Tasks
  <2>3. /\ Recorded' = Recorded \cup {Key(r)}
        /\ \A q \in Roles : Key(q)' = Key(q) /\ (Has(q)' <=> Has(q) \/ q = r)
        /\ Len(records) \in Nat /\ DOMAIN records = 1..Len(records)
        /\ DOMAIN records' = 1..(Len(records) + 1)
        /\ records'[Len(records) + 1] = Key(r)
        /\ \A n \in DOMAIN records : records'[n] = records[n]
    BY <2>1, OneMoreRecord
  <2>4. ~Has(r)
    BY <1>13, FreshRecord
  <2>5. Known' /\ Asked'
    BY <1>1, <2>1, <2>2, <2>3 DEF Written, Known, Asked, Asking
  <2>6. Saved'
    <3>1. r \in Required => r \in accepted
      BY <2>1, NodesAndRoles DEF Written, Saved
    <3> QED BY <1>1, <2>1, <2>2, <2>3, <3>1 DEF Written, Saved, Asking
  <2>7. Backed'
    BY <1>1, <2>1, <2>2, <2>3 DEF Written, Backed
  <2>8. Dated'
    <3>1. Key(r)[2] <= context
      BY <1>1 DEF Key
    <3> QED BY <2>1, <2>3, <3>1 DEF Written, Dated
  <2>9. Once'
    <3>1. \A n \in DOMAIN records : records[n] # Key(r)
      BY <2>4 DEF Has, Recorded
    <3>2. \A n \in DOMAIN records' : n = Len(records) + 1 \/ n \in DOMAIN records
      BY <2>3
    <3> QED BY <2>3, <3>1, <3>2 DEF Written, Once
  <2> QED BY <2>5, <2>6, <2>7, <2>8, <2>9 DEF Written
<1>14. ASSUME NEW r \in Roles, Checkpoint(r) PROVE Written'
  <2>1. /\ task' = [task EXCEPT ![r] = Idle] /\ task[r].at = "recorded"
        /\ checkpoints' = checkpoints \cup {Key(r)}
        /\ UNCHANGED <<records, accepted, context, pc>>
    BY <1>14 DEF Checkpoint, Set, run
  <2>2. task'[r].at = "idle" /\ \A q \in Roles \ {r} : task'[q] = task[q]
    BY <2>1, OneTask, IdleType DEF Idle
  <2>3. Recorded' = Recorded /\ \A q \in Roles : Key(q)' = Key(q) /\ (Has(q)' <=> Has(q))
    BY <2>1, SameRecords
  <2>4. Known' /\ Asked'
    BY <1>1, <2>1, <2>2, <2>3 DEF Written, Known, Asked, Asking
  <2>5. Saved'
    BY <1>1, <2>1, <2>2, <2>3 DEF Written, Saved, Asking
  <2>6. Backed'
    <3>1. Key(r) \in Recorded
      BY <2>1 DEF Written, Backed, Has
    <3> QED BY <2>1, <2>2, <2>3, <3>1 DEF Written, Backed
  <2>7. Dated' /\ Once'
    BY <2>1, <2>3 DEF Written, Dated, Once
  <2> QED BY <2>4, <2>5, <2>6, <2>7 DEF Written
<1> QED BY <1>2, <1>3, <1>5, <1>6, <1>7, <1>8, <1>9, <1>10, <1>11, <1>12, <1>13, <1>14, StepCases DEF Calm

-----------------------------------------------------------------------------
(* The order of the records.                                               *)

\* What the nodes have in common: who is a member of which, and its rank.
LEMMA Places ==
  /\ \A n \in Nodes : "observer" \in Members(n) \/ "signal" \in Members(n) => n = "specialists"
  /\ \A n \in Nodes, r \in Roles \ {"observer", "signal"} : r \in Members(n) => n = r
  /\ Members("specialists") = {"observer", "signal"}
  /\ \A r \in Roles : r \in {"observer", "signal", "transit_hunter", "director", "final"} <=> r \in Advisory
  /\ {"observer", "signal", "transit_hunter", "director", "final", "critic", "skeptic"} = Roles
  /\ Early \subseteq Nodes /\ "final" \in Nodes /\ "critic" \in Nodes
BY DEF Nodes, Members, Roles, Advisory, Required, Early

\* An answered advisory role has its record.
LEMMA AnsweredIsRecorded ==
  ASSUME Backed, NEW r \in Advisory, Answered(r)
  PROVE  Has(r)
BY DEF Backed, Answered, Has

\* Steps that neither record nor decide anything.
LEMMA OrderedByRecords ==
  ASSUME UNCHANGED <<records, context, accepted, approved, finalizing>>, StableOrder, Chain
  PROVE  StableOrder' /\ Chain' /\ (Concluded' <=> Concluded)
<1>1. \A r \in Roles : Has(r)' <=> Has(r)
  BY SameRecords
<1>2. Chain' /\ (Concluded' <=> Concluded)
  BY <1>1, Places DEF Chain, Concluded
<1> QED BY <1>2 DEF StableOrder

\* When a role is recorded, the roles before it have been and those after it
\* have not.
LEMMA InOrder ==
  ASSUME TypeOK, Written, Ordered, NEW r \in Advisory, Record(r), ~Has(r)
  PROVE  /\ \A q \in Advisory : Has(q) => Rank[q] < Rank[r]
         /\ r = "signal" => Has("observer")
         /\ r = "transit_hunter" => Has("signal")
         /\ r = "director" => Has("transit_hunter")
         /\ r = "final" => Concluded
<1>1. pc \in Nodes /\ r \in Members(pc) /\ Turn(r) /\ task[r].at = "ended" /\ r \in Roles
  BY NodesAndRoles DEF Record
<1>2. /\ Rank["observer"] = 1 /\ Rank["signal"] = 2 /\ Rank["transit_hunter"] = 3
      /\ Rank["director"] = 4 /\ Rank["final"] = 5
  BY DEF Rank, Advisory
<1>3. pc \in Early => ~Has("final")
  BY DEF Ordered, Gates, Chain, Concluded
<1>4. Chain /\ Gates /\ InTurn
  BY DEF Ordered
<1>5. \A q \in Advisory : q \in {"observer", "signal", "transit_hunter", "director", "final"}
  BY DEF Advisory
<1>6. CASE r = "observer"
  <2>1. pc = "specialists"
    BY <1>1, <1>6, Places
  <2>2. ~Has("final") /\ ~Has("signal") /\ ~Has("transit_hunter") /\ ~Has("director")
    BY <1>3, <1>4, <1>6, <2>1 DEF Chain, Early
  <2> QED BY <1>5, <1>6, <2>2
<1>7. CASE r = "signal"
  <2>1. pc = "specialists"
    BY <1>1, <1>7, Places
  <2>2. ~Has("final") /\ ~Has("transit_hunter") /\ ~Has("director")
    BY <1>3, <1>4, <1>7, <2>1 DEF Chain, Early
  <2>3. Has("observer")
    BY <1>1, <1>4, <1>7, <2>1 DEF InTurn, Turn
  <2> QED BY <1>2, <1>5, <1>7, <2>2, <2>3
<1>8. CASE r = "transit_hunter"
  <2>1. pc = "transit_hunter"
    BY <1>1, <1>8, Places
  <2>2. ~Has("final") /\ ~Has("director") /\ Has("signal")
    BY <1>3, <1>4, <1>8, <2>1 DEF Chain, Early, Gates
  <2> QED BY <1>2, <1>5, <1>8, <2>2
<1>9. CASE r = "director"
  <2>1. pc = "director"
    BY <1>1, <1>9, Places
  <2>2. ~Has("final") /\ Has("transit_hunter")
    BY <1>3, <1>4, <1>9, <2>1 DEF Early, Gates
  <2> QED BY <1>2, <1>5, <1>9, <2>2
<1>10. CASE r = "final"
  <2>1. pc = "final"
    BY <1>1, <1>10, Places
  <2>2. Concluded
    BY <1>4, <2>1 DEF Gates
  <2> QED BY <1>2, <1>5, <1>10, <2>2
<1> QED BY <1>5, <1>6, <1>7, <1>8, <1>9, <1>10

\* The steps of the graph.
LEMMA GraphOrder ==
  ASSUME TypeOK, Staffed, Written, Ordered, Calm
  PROVE  Ordered'
<1> USE DEF Early
<1>1. ASSUME RouteRecovered PROVE Ordered'
  <2>1. /\ pc = "route" /\ UNCHANGED <<records, context, accepted, approved, finalizing, task>>
        /\ pc' = IF finalizing THEN "final"
                 ELSE IF "critic" \in accepted THEN "act"
                 ELSE IF "skeptic" \in accepted THEN "critic"
                 ELSE IF {<<"observer", context>>, <<"signal", context>>,
                          <<"transit_hunter", context>>} \subseteq checkpoints \cup Recorded
                 THEN IF Key("director") \in checkpoints \cup Recorded THEN "skeptic" ELSE "director"
                 ELSE "specialists"
    BY <1>1 DEF RouteRecovered, Route, run
  <2>2. StableOrder' /\ Chain' /\ (Concluded' <=> Concluded)
    BY <2>1, OrderedByRecords DEF Ordered
  <2>3. \A r \in Roles : Has(r)' <=> Has(r)
    BY <2>1, SameRecords
  <2>4. pc' = "director" => Has("transit_hunter")
    BY <2>1 DEF Has, Key, Written, Backed
  <2>5. Gates'
    BY <2>1, <2>2, <2>3, <2>4, Places DEF Gates, Concluded
  <2>6. InTurn'
    BY <2>1 DEF InTurn, Staffed, Alone, Live, Roles, Advisory, Asking
  <2> QED BY <2>2, <2>5, <2>6 DEF Ordered
<1>2. ASSUME Act PROVE Ordered'
  <2>1. pc = "act" /\ UNCHANGED records /\ pc' \in {"final", "route"}
    BY <1>2 DEF Act
  <2>2. StableOrder'
    BY <2>1 DEF Ordered, StableOrder
  <2>3. InTurn'
    BY <2>1 DEF InTurn
  <2>4. CASE ~approved /\ pc' = "final" /\ UNCHANGED <<context, finalizing, accepted, approved>>
    <3>1. Chain' /\ (Concluded' <=> Concluded)
      BY <2>1, <2>4, OrderedByRecords DEF Ordered
    <3>2. Concluded
      BY <2>1, <2>4 DEF Ordered, Gates, Concluded
    <3> QED BY <2>2, <2>3, <2>4, <3>1, <3>2 DEF Ordered, Gates
  <2>5. CASE context' = context + 1 /\ (finalizing' = TRUE \/ pc' = "route")
    <3>1. \A r \in Roles : ~Has(r)'
      <4> SUFFICES ASSUME NEW r \in Roles, <<r, context + 1>> \in Recorded PROVE FALSE
        BY <2>1, <2>5 DEF Has, Key, Recorded
      <4>1. <<r, context + 1>>[2] <= context
        BY DEF Written, Dated
      <4> QED BY <4>1 DEF TypeOK
    <3>2. Chain'
      BY <3>1, Places DEF Chain
    <3>3. Gates'
      BY <2>1, <2>5 DEF Gates, Concluded
    <3> QED BY <2>2, <2>3, <3>2, <3>3 DEF Ordered
  <2> QED BY <1>2, <2>4, <2>5 DEF Act
<1>3. ASSUME NEW n \in Nodes, LeaveNode(n) PROVE Ordered'
  <2>1. /\ pc = n /\ UNCHANGED <<records, context, accepted, approved, finalizing, task>>
        /\ pc' = IF n = "final" THEN "idle" ELSE After[n]
        /\ \A r \in Members(n) : Answered(r)
    BY <1>3 DEF LeaveNode, agents
  <2>2. StableOrder' /\ Chain' /\ (Concluded' <=> Concluded)
    BY <2>1, OrderedByRecords DEF Ordered
  <2>3. \A r \in Roles : Has(r)' <=> Has(r)
    BY <2>1, SameRecords
  <2>4. \A r \in Members(n) : r \in Advisory => Has(r)
    BY <2>1, AnsweredIsRecorded DEF Written
  <2>5. CASE n = "specialists"
    <3>1. pc' = "transit_hunter" /\ Has("signal")
      BY <2>1, <2>4, <2>5, Places DEF After, Nodes
    <3> QED BY <2>1, <2>2, <2>3, <2>5, <3>1, Places DEF Ordered, Gates, InTurn
  <2>6. CASE n = "transit_hunter"
    <3>1. pc' = "director"
      BY <2>1, <2>6 DEF After, Nodes
    <3>2. Has("transit_hunter")
      BY <2>4, <2>6 DEF Members, Advisory
    <3> QED BY <2>1, <2>2, <2>3, <2>6, <3>1, <3>2, Places DEF Ordered, Gates, InTurn
  <2>7. CASE n \in {"director", "skeptic"}
    <3>1. pc' \in {"skeptic", "critic"}
      BY <2>1, <2>7 DEF After, Nodes
    <3> QED BY <2>1, <2>2, <2>7, <3>1 DEF Ordered, Gates, InTurn
  <2>8. CASE n = "critic"
    <3>1. pc' = "act"
      BY <2>1, <2>8 DEF After, Nodes
    <3>2. "critic" \in accepted
      BY <2>1, <2>8 DEF Members, Answered, Advisory
    <3> QED BY <2>1, <2>2, <2>8, <3>1, <3>2 DEF Ordered, Gates, InTurn
  <2>9. CASE n = "final"
    BY <2>1, <2>2, <2>9 DEF Ordered, Gates, InTurn
  <2> QED BY <2>5, <2>6, <2>7, <2>8, <2>9 DEF Nodes
<1>4. ASSUME Resume \/ UNCHANGED vars PROVE Ordered'
  <2>1. /\ UNCHANGED <<records, context, accepted, approved, finalizing, task>>
        /\ pc' = "route" \/ pc' = pc
    BY <1>4 DEF Resume, vars, agents, run
  <2>2. StableOrder' /\ Chain' /\ (Concluded' <=> Concluded)
    BY <2>1, OrderedByRecords DEF Ordered
  <2>3. \A r \in Roles : Has(r)' <=> Has(r)
    BY <2>1, SameRecords
  <2> QED BY <2>1, <2>2, <2>3, Places DEF Ordered, Gates, InTurn
<1> QED BY <1>1, <1>2, <1>3, <1>4 DEF Calm

\* The steps of the tasks.
LEMMA TaskOrder ==
  ASSUME TypeOK, Fitting, Staffed, Written, Ordered, [Next]_vars, ~Calm
  PROVE  Ordered'
<1> USE DEF Early
<1>1. ASSUME UNCHANGED <<records, context, accepted, approved, finalizing>>,
             pc' \in {pc, "raised", "idle", "down"}, InTurn'
      PROVE  Ordered'
  <2>1. StableOrder' /\ Chain' /\ (Concluded' <=> Concluded)
    BY <1>1, OrderedByRecords DEF Ordered
  <2>2. \A r \in Roles : Has(r)' <=> Has(r)
    BY <1>1, SameRecords
  <2>3. Gates'
    BY <1>1, <2>1, <2>2, Places DEF Ordered, Gates
  <2> QED BY <1>1, <2>1, <2>3 DEF Ordered
<1>2. ASSUME Cuts \/ RunnerFails PROVE Ordered'
  <2>1. UNCHANGED <<records, context, accepted, approved, finalizing>> /\ pc' \in {"idle", "down"}
    BY <1>2, CutStep DEF RunnerFails, agents
  <2> QED BY <1>1, <2>1 DEF InTurn
<1>3. ASSUME NEW n \in Nodes, EnterNode(n) PROVE Ordered'
  <2>1. /\ pc = n /\ UNCHANGED <<pc, records, context, accepted, approved, finalizing>>
    BY <1>3 DEF EnterNode, agents, run
  <2>2. InTurn'
    <3> SUFFICES ASSUME pc = "specialists", task'["observer"].at = "idle" PROVE Has("observer")'
      BY <2>1 DEF InTurn
    <3>1. Answered("observer")
      BY <1>3, <2>1, Places DEF EnterNode, Idle
    <3> QED BY <2>1, <3>1, AnsweredIsRecorded, SameRecords, Places DEF Written
  <2> QED BY <1>1, <2>1, <2>2
<1>4. ASSUME NEW r \in Roles, Step(r) PROVE Ordered'
  <2>1. /\ Proceeds(r) /\ task[r].at \in Asking
        /\ UNCHANGED <<records, accepted, approved, context, finalizing>>
    BY <1>4, InferenceStep DEF Fitting, agents, Asking
  <2>2. CASE Closes(r)
    BY <1>1, <2>1, <2>2 DEF Closes, InTurn
  <2>3. ASSUME NEW t \in Tasks, Further(r, t) PROVE Ordered'
    <3>1. /\ task' = [task EXCEPT ![r] = t] /\ t.at \in {"ready", "awaiting", "ended", "raised"}
          /\ pc' \in {pc, "raised"}
      BY <2>3 DEF Further
    <3>2. task'[r] = t /\ \A q \in Roles \ {r} : task'[q] = task[q]
      BY <3>1, OneTask
    <3>3. Has("observer")' <=> Has("observer")
      BY <2>1, SameRecords, Places
    <3>4. task'["observer"].at = "idle" => task["observer"].at = "idle"
      BY <3>1, <3>2, Places
    <3>5. task'["signal"].at \in Asking \cup {"ended"} => task["signal"].at \in Asking \cup {"ended"}
      BY <2>1, <3>2, Places
    <3>6. InTurn'
      BY <3>1, <3>3, <3>4, <3>5 DEF Ordered, InTurn
    <3> QED BY <1>1, <2>1, <3>1, <3>6
  <2> QED BY <2>1, <2>2, <2>3 DEF Proceeds
<1>5. ASSUME NEW r \in Roles, Decide(r) PROVE Ordered'
  <2>1. /\ r \in Required /\ task[r].at = "ended" /\ pc = r /\ accepted' = accepted \cup {r}
        /\ (r = "critic" \/ UNCHANGED approved)
        /\ UNCHANGED <<records, context, finalizing, pc>>
    BY <1>5 DEF Decide, run
  <2>2. r \notin accepted /\ r \in {"skeptic", "critic"}
    BY <2>1 DEF Written, Saved, Required
  <2>3. \A q \in Roles : Has(q)' <=> Has(q)
    BY <2>1, SameRecords
  <2>4. Concluded => Concluded'
    BY <2>1, <2>2 DEF Ordered, Gates, Concluded
  <2>5. Chain'
    BY <2>3, <2>4, Places DEF Ordered, Chain
  <2>6. Gates'
    BY <2>1, <2>2, <2>3, <2>4, Places DEF Ordered, Gates
  <2>7. StableOrder' /\ InTurn'
    BY <2>1, <2>2 DEF Ordered, StableOrder, InTurn
  <2> QED BY <2>5, <2>6, <2>7 DEF Ordered
<1>6. ASSUME NEW r \in Roles, Checkpoint(r) \/ (Record(r) /\ Key(r) \in checkpoints) PROVE Ordered'
  <2>1. /\ task' = [task EXCEPT ![r] = Idle]
        /\ UNCHANGED <<records, accepted, approved, context, finalizing, pc>>
    BY <1>6 DEF Checkpoint, Record, Set, run
  <2>2. task'[r].at = "idle" /\ \A q \in Roles \ {r} : task'[q] = task[q]
    BY <2>1, OneTask, IdleType DEF Idle
  <2>3. Has(r)
    BY <1>6 DEF Written, Backed, Has, Checkpoint
  <2>4. Has("observer")' <=> Has("observer")
    BY <2>1, SameRecords, Places
  <2>5. InTurn'
    <3>1. CASE r = "observer"
      BY <2>3, <2>4, <3>1 DEF InTurn
    <3>2. CASE r # "observer"
      <4>1. task'["observer"].at = "idle" => task["observer"].at = "idle"
        BY <2>2, <3>2, Places
      <4>2. task'["signal"].at \in Asking \cup {"ended"} => task["signal"].at \in Asking \cup {"ended"}
        BY <2>2, Places DEF Asking
      <4> QED BY <2>1, <2>4, <4>1, <4>2 DEF Ordered, InTurn
    <3> QED BY <3>1, <3>2
  <2> QED BY <1>1, <2>1, <2>5
<1>7. ASSUME NEW r \in Roles, Record(r), Key(r) \notin checkpoints PROVE Ordered'
  <2>1. /\ task' = [task EXCEPT ![r] = [task[r] EXCEPT !.at = "recorded"]]
        /\ records' = Append(records, Key(r))
        /\ UNCHANGED <<accepted, approved, context, finalizing, pc>>
    BY <1>7 DEF Record, Set, run
  <2>2. task'[r].at = "recorded" /\ \A q \in Roles \ {r} : task'[q] = task[q]
    BY <2>1 DEF TypeOK, Tasks
  <2>3. /\ \A q \in Roles : Has(q)' <=> Has(q) \/ q = r
        /\ Len(records) \in Nat /\ DOMAIN records = 1..Len(records)
        /\ DOMAIN records' = 1..(Len(records) + 1)
        /\ records'[Len(records) + 1] = Key(r)
        /\ \A n \in DOMAIN records : records'[n] = records[n]
    BY <2>1, OneMoreRecord
  <2>4. ~Has(r)
    BY <1>7, FreshRecord
  <2>5. r \in Advisory => /\ \A q \in Advisory : Has(q) => Rank[q] < Rank[r]
                          /\ r = "signal" => Has("observer")
                          /\ r = "transit_hunter" => Has("signal")
                          /\ r = "director" => Has("transit_hunter")
                          /\ r = "final" => Concluded
    BY <1>7, <2>4, InOrder
  <2>6. Concluded' <=> Concluded
    BY <2>1 DEF Concluded
  <2>7. Chain'
    BY <2>3, <2>5, <2>6, Places DEF Ordered, Chain
  <2>8. Gates'
    BY <2>1, <2>3, <2>6, Places DEF Ordered, Gates
  <2>9. InTurn'
    <3>1. task'["observer"].at = "idle" => task["observer"].at = "idle"
      BY <2>2, Places
    <3>2. task'["signal"].at \in Asking \cup {"ended"} => task["signal"].at \in Asking \cup {"ended"}
      BY <2>2, Places DEF Asking
    <3> QED BY <2>1, <2>3, <3>1, <3>2, Places DEF Ordered, InTurn
  <2>10. StableOrder'
    <3> SUFFICES ASSUME NEW m \in DOMAIN records', NEW n \in DOMAIN records', m < n,
                        records'[m][2] = records'[n][2],
                        records'[m][1] \in Advisory, records'[n][1] \in Advisory
                 PROVE  Rank[records'[m][1]] < Rank[records'[n][1]]
      BY DEF StableOrder
    <3>1. m \in DOMAIN records /\ records'[m] = records[m]
      BY <2>3
    <3>2. CASE n \in DOMAIN records
      BY <2>3, <3>1, <3>2 DEF Ordered, StableOrder
    <3>3. CASE n = Len(records) + 1
      <4>1. records'[n] = <<r, context>> /\ r \in Advisory
        BY <2>3, <3>3 DEF Key
      <4>2. records[m] \in Roles \X Nat /\ records[m] \in Recorded
        BY <3>1 DEF TypeOK, Recorded
      <4>3. records[m] = Key(records[m][1])
        BY <3>1, <4>1, <4>2 DEF Key
      <4>4. Has(records[m][1])
        BY <4>2, <4>3 DEF Has
      <4> QED BY <2>5, <3>1, <4>1, <4>4
    <3> QED BY <2>3, <3>2, <3>3
  <2> QED BY <2>7, <2>8, <2>9, <2>10 DEF Ordered
<1> QED BY <1>2, <1>3, <1>4, <1>5, <1>6, <1>7, StepCases

-----------------------------------------------------------------------------
(* The theorems.                                                           *)

\* The invariant holds at the start and every step keeps it.
LEMMA Inductive ==
  /\ Init => IInv
  /\ IInv /\ [Next]_vars => IInv'
<1>1. Init => IInv
  <2> SUFFICES ASSUME Init PROVE IInv
    OBVIOUS
  <2>1. \A q \in Roles : task[q] = Idle
    BY DEF Init
  <2>2. TypeOK
    <3>1. task = Everybody /\ records = <<>>
      BY DEF Init, Everybody
    <3>2. finalizing \in BOOLEAN /\ approved \in BOOLEAN
      BY DEF Init
    <3>4. records \in Seq(Roles \X Nat)
      BY <3>1
    <3>3. /\ calls \in 0..MaxCalls /\ retries \in 0..MaxRetries /\ attempts \in Nat
          /\ context \in Nat \ {0} /\ crashes \in 0..MaxCrashes
      BY BudgetAssumption DEF Init
    <3> QED BY <3>1, <3>2, <3>3, <3>4, IdleType DEF Init, TypeOK
  <2>3. Fitting
    <3>1. \A q \in Roles : q \in Advisory => Limit[q] \in Nat
      BY BudgetAssumption
    <3> QED BY <2>1, <3>1, BudgetAssumption DEF Fitting, Fits, Idle
  <2>4. Staffed
    BY <2>1, NodesAndRoles DEF Init, Staffed, Alone, OnlyMembers, StillOpen, OwnNode, Live, Idle, Nodes
  <2>5. CallsAreTraced
    <3>1. At({"awaiting", "raised"}) = {}
      BY <2>1 DEF At, Idle
    <3>2. calls = 0 /\ attempts = 0
      BY DEF Init
    <3> QED BY <3>1, <3>2, FS_EmptySet DEF CallsAreTraced
  <2>6. Recorded = {} /\ records = <<>>
    BY DEF Init, Recorded
  <2>7. Written
    <3>1. \A r \in Roles : ~Has(r)
      BY <2>6 DEF Has
    <3>2. Dated /\ Once /\ Backed
      BY <2>1, <2>6 DEF Init, Dated, Once, Backed, Idle
    <3>3. Known /\ Asked /\ Saved
      BY <2>1, <3>1, NodesAndRoles DEF Init, Known, Asked, Saved, Idle
    <3> QED BY <3>2, <3>3 DEF Written
  <2>8. Ordered
    BY <2>6, Places DEF Init, Ordered, StableOrder, Chain, Gates, InTurn, Has, Early, Nodes
  <2> QED BY <2>2, <2>3, <2>4, <2>5, <2>7, <2>8 DEF IInv
<1>2. IInv /\ [Next]_vars => IInv'
  BY Types, TaskStep, Staffing, Billing, WrittenStep, GraphOrder, TaskOrder DEF IInv
<1> QED BY <1>1, <1>2

\* The invariant holds, for any budgets, limits and number of crashes.
THEOREM Invariance == Spec => []IInv
BY Inductive, PTL DEF Spec

\* Every variable has its type, and the two budgets of the run are never
\* passed, whatever fails and is retried: TypeOK.
THEOREM TypeCorrect == Spec => []TypeOK
<1>1. IInv => TypeOK
  BY DEF IInv
<1> QED BY <1>1, Invariance, PTL

\* No inference outlives its bounds: AttemptsBounded.
THEOREM Attempts_AreBounded == Spec => []AttemptsBounded
<1>1. IInv => AttemptsBounded
  BY DEF IInv, Fitting, Fits, AttemptsBounded
<1> QED BY <1>1, Invariance, PTL

\* Every charged call is awaited or traced: CallsAreTraced.
THEOREM Calls_AreTraced == Spec => []CallsAreTraced
<1>1. IInv => CallsAreTraced
  BY DEF IInv
<1> QED BY <1>1, Invariance, PTL

\* Nobody works for a run that was closed: QuietWhenClosed.
THEOREM Quiet_WhenClosed == Spec => QuietWhenClosed
<1>1. IInv /\ [Next]_vars => [ledger' # ledger => closed \in {"open", "error"}]_vars
  <2> SUFFICES ASSUME IInv, [Next]_vars, ledger' # ledger PROVE closed \in {"open", "error"}
    OBVIOUS
  <2>1. TypeOK /\ Fitting /\ Staffed
    BY DEF IInv
  <2>2. ~Calm /\ ~Cuts
    BY CalmStep, CutStep
  <2>3. ~RunnerFails /\ \A n \in Nodes : ~EnterNode(n)
    BY DEF RunnerFails, EnterNode
  <2>4. \A r \in Roles : ~(Decide(r) \/ Record(r) \/ Checkpoint(r))
    BY <2>1, WritingStep
  <2>5. PICK r \in Roles : Step(r)
    BY <2>2, <2>3, <2>4, StepCases
  <2>6. Live(r)
    BY <2>1, <2>5, InferenceStep DEF Fitting, Live
  <2> QED BY <2>1, <2>6 DEF Staffed, Alone
<1> QED BY <1>1, Invariance, PTL DEF Spec, QuietWhenClosed

\* The records come once and in role order, whatever the interleaving of the
\* parallel roles and wherever a crash fell: AnswersInOrder.
THEOREM Answers_InOrder == Spec => []AnswersInOrder
<1>1. IInv => AnswersInOrder
  BY DEF IInv, Written, Once, Asked, Has, Asking, At, Ordered, AnswersInOrder, AnsweredOnce
<1> QED BY <1>1, Invariance, PTL
-----------------------------------------------------------------------------
(* Effort: what is left to do of a run.  A role that is asked goes through *)
(* its stages; a charged call pays for its answer to be asked for again, a *)
(* node for the failures of its roles, and a new context, like a crash,    *)
(* for the roles to be asked anew.                                         *)

Pending(r) == CASE task[r].at = "idle" -> IF closed = "open" /\ ~Answered(r) THEN 6 ELSE 0
                [] task[r].at \in {"entered", "awaiting"} -> 5
                [] task[r].at = "ready" -> 4
                [] task[r].at = "ended" -> 3
                [] task[r].at = "decided" -> 2
                [] task[r].at = "recorded" -> 1
                [] OTHER -> 0
AllPending == Pending("observer") + Pending("signal") + Pending("transit_hunter")
              + Pending("director") + Pending("final") + Pending("skeptic") + Pending("critic")
Level == CASE pc = "down" -> 10 [] pc = "route" -> 9 [] pc = "specialists" -> 8
           [] pc = "transit_hunter" -> 7 [] pc = "director" -> 6 [] pc = "skeptic" -> 5
           [] pc = "critic" -> 4 [] pc = "act" -> 3 [] pc = "final" -> 2
           [] pc = "raised" -> 1 [] OTHER -> 0
Chances == (MaxCycles + 1 - context) + (MaxCrashes - crashes)
Effort == AllPending + 3 * (MaxCalls - calls) + Level + 60 * Chances
\* The contexts of a run are counted until it goes to its final phase.
InCycle == context <= MaxCycles + 1 /\ (finalizing \/ context <= MaxCycles)

\* What a role has before it is bounded, and so is what all of them have.
LEMMA PendingTypes ==
  /\ \A r \in Roles : Pending(r) \in 0..6 /\ Pending(r)' \in 0..6
  /\ AllPending \in 0..42 /\ AllPending' \in 0..42
  /\ Level \in 0..10 /\ Level' \in 0..10
<1>1. \A r \in Roles : Pending(r) \in 0..6 /\ Pending(r)' \in 0..6
  BY DEF Pending
<1>2. AllPending \in 0..42 /\ AllPending' \in 0..42
  BY <1>1 DEF AllPending, Roles, Advisory, Required
<1>3. Level \in 0..10 /\ Level' \in 0..10
  BY DEF Level
<1> QED BY <1>1, <1>2, <1>3

\* Where no role has more before it than it had, all together have no more,
\* and less if one of them has less.
LEMMA PendingAdds ==
  ASSUME \A q \in Roles : Pending(q)' <= Pending(q)
  PROVE  /\ AllPending' <= AllPending
         /\ (\E r \in Roles : Pending(r)' < Pending(r)) => AllPending' < AllPending
<1>1. /\ \A q \in Roles : Pending(q) \in Nat /\ Pending(q)' \in Nat
      /\ Roles = {"observer", "signal", "transit_hunter", "director", "final", "skeptic", "critic"}
  BY PendingTypes DEF Roles, Advisory, Required
<1>2. AllPending' <= AllPending
  BY <1>1 DEF AllPending
<1>3. ASSUME NEW r \in Roles, Pending(r)' < Pending(r)
      PROVE  AllPending' < AllPending
  <2>1. CASE r = "observer"
    BY <1>1, <1>3, <2>1 DEF AllPending
  <2>2. CASE r = "signal"
    BY <1>1, <1>3, <2>2 DEF AllPending
  <2>3. CASE r = "transit_hunter"
    BY <1>1, <1>3, <2>3 DEF AllPending
  <2>4. CASE r = "director"
    BY <1>1, <1>3, <2>4 DEF AllPending
  <2>5. CASE r = "final"
    BY <1>1, <1>3, <2>5 DEF AllPending
  <2>6. CASE r = "skeptic"
    BY <1>1, <1>3, <2>6 DEF AllPending
  <2>7. CASE r = "critic"
    BY <1>1, <1>3, <2>7 DEF AllPending
  <2> QED BY <1>1, <2>1, <2>2, <2>3, <2>4, <2>5, <2>6, <2>7
<1> QED BY <1>2, <1>3

\* A role whose call is charged may still be asked once more.
LEMMA PendingRises ==
  ASSUME NEW r \in Roles, Pending(r)' <= Pending(r) + 1,
         \A q \in Roles \ {r} : Pending(q)' <= Pending(q)
  PROVE  AllPending' <= AllPending + 1
<1>1. /\ \A q \in Roles : Pending(q) \in Nat /\ Pending(q)' \in Nat
      /\ Roles = {"observer", "signal", "transit_hunter", "director", "final", "skeptic", "critic"}
  BY PendingTypes DEF Roles, Advisory, Required
<1>2. CASE r \in {"observer", "signal", "transit_hunter", "director"}
  BY <1>1, <1>2 DEF AllPending
<1>3. CASE r \in {"final", "skeptic", "critic"}
  BY <1>1, <1>3 DEF AllPending
<1> QED BY <1>1, <1>2, <1>3

\* What is left of the budgets of a run.
LEMMA LeftTypes ==
  ASSUME TypeOK, InCycle
  PROVE  MaxCalls - calls \in Nat /\ Chances \in Nat /\ Effort \in Nat
<1> USE BudgetAssumption
<1>1. calls \in 0..MaxCalls /\ context \in Nat /\ crashes \in 0..MaxCrashes
  BY DEF TypeOK
<1>2. context <= MaxCycles + 1
  BY DEF InCycle
<1>3. MaxCalls - calls \in Nat /\ Chances \in Nat
  BY <1>1, <1>2 DEF Chances
<1> QED BY <1>3, PendingTypes DEF Effort

\* A step counts if a role or the run goes on at the same budgets,
LEMMA LessByProgress ==
  ASSUME TypeOK, InCycle, UNCHANGED <<calls, context, crashes>>,
         AllPending' <= AllPending, Level' <= Level,
         AllPending' < AllPending \/ Level' < Level
  PROVE  Effort' < Effort
<1>1. MaxCalls - calls' = MaxCalls - calls /\ Chances' = Chances
  BY DEF Chances
<1>2. MaxCalls - calls \in Nat /\ Chances \in Nat
  BY LeftTypes
<1> QED BY <1>1, <1>2, PendingTypes DEF Effort

\* if it is charged for,
LEMMA LessByCharge ==
  ASSUME TypeOK, InCycle, calls' = calls + 1, UNCHANGED <<context, crashes>>,
         AllPending' <= AllPending + 1, Level' <= Level
  PROVE  Effort' < Effort
<1>1. Chances' = Chances
  BY DEF Chances
<1>2. MaxCalls - calls \in Nat /\ Chances \in Nat
  BY LeftTypes
<1>3. MaxCalls - calls' = (MaxCalls - calls) - 1
  BY BudgetAssumption DEF TypeOK
<1> QED BY <1>1, <1>2, <1>3, PendingTypes DEF Effort

\* and if it uses up a context or a crash, whatever has to be done again.
LEMMA LessByChance ==
  ASSUME TypeOK, InCycle, calls' = calls,
         \/ context' = context + 1 /\ crashes' = crashes
         \/ context' = context /\ crashes' = crashes + 1
  PROVE  Effort' < Effort
<1>1. MaxCalls - calls' = MaxCalls - calls
  OBVIOUS
<1>2. MaxCalls - calls \in Nat /\ Chances \in Nat
  BY LeftTypes
<1>3. Chances' = Chances - 1
  BY BudgetAssumption DEF Chances, TypeOK
<1> QED BY <1>1, <1>2, <1>3, PendingTypes DEF Effort

\* A role that is left alone has no more before it, unless the run is opened
\* again or its answer is forgotten.
LEMMA PendingKept ==
  ASSUME NEW q \in Roles, task'[q].at = task[q].at, closed' = "open" => closed = "open",
         Answered(q) => Answered(q)'
  PROVE  Pending(q)' <= Pending(q)
<1>1. CASE task[q].at = "idle"
  BY <1>1 DEF Pending
<1>2. CASE task[q].at # "idle"
  <2>1. Pending(q)' = Pending(q)
    BY <1>2 DEF Pending
  <2> QED BY <2>1, PendingTypes
<1> QED BY <1>1, <1>2

\* An idle role that has answered, or whose run is closed, has nothing left.
LEMMA NothingPending ==
  ASSUME NEW q \in Roles, task'[q].at = "idle", closed' # "open" \/ Answered(q)'
  PROVE  Pending(q)' = 0 /\ Pending(q)' <= Pending(q)
<1>1. Pending(q)' = 0
  BY DEF Pending
<1> QED BY <1>1, PendingTypes

\* Routing, leaving a node and acting on a verdict count,
LEMMA LessByGraph ==
  ASSUME TypeOK, InCycle, RouteRecovered \/ Act \/ Resume \/ \E n \in Nodes : LeaveNode(n)
  PROVE  Effort' < Effort
<1>1. ASSUME UNCHANGED <<calls, context, crashes, task, accepted>>, checkpoints \subseteq checkpoints',
             closed' = "open" => closed = "open", Level' < Level
      PROVE  Effort' < Effort
  <2>1. ASSUME NEW q \in Roles PROVE Pending(q)' <= Pending(q)
    <3>1. Answered(q) => Answered(q)'
      BY <1>1 DEF Answered, Key
    <3> QED BY <1>1, <3>1, PendingKept
  <2> QED BY <1>1, <2>1, PendingAdds, PendingTypes, LessByProgress
<1>2. CASE RouteRecovered
  BY <1>1, <1>2 DEF RouteRecovered, Route, ledger, run, Level
<1>3. CASE Resume
  BY <1>1, <1>3 DEF Resume, ledger, agents, run, Level
<1>4. ASSUME NEW n \in Nodes, LeaveNode(n) PROVE Effort' < Effort
  <2>1. UNCHANGED <<calls, context, crashes, task, accepted, checkpoints>>
    BY <1>4 DEF LeaveNode, ledger, agents
  <2>2. closed' = closed \/ closed' = "ready"
    BY <1>4 DEF LeaveNode
  <2>3. Level' < Level
    BY <1>4 DEF LeaveNode, Level, After, Nodes
  <2> QED BY <1>1, <2>1, <2>2, <2>3
<1>5. CASE Act
  <2>1. CASE approved
    BY <1>5, <2>1, LessByChance DEF Act, ledger
  <2>2. CASE ~approved
    BY <1>1, <1>5, <2>2 DEF Act, ledger, Level
  <2> QED BY <2>1, <2>2
<1> QED BY <1>2, <1>3, <1>4, <1>5

\* so does what ends all tasks, or those that nobody awaits,
LEMMA LessByFailure ==
  ASSUME TypeOK, InCycle, Cuts \/ RunnerFails
  PROVE  Effort' < Effort
<1>1. CASE Crash
  <2>1. calls' = calls /\ context' = context /\ crashes' = crashes + 1
    BY <1>1 DEF Crash, ledger, run
  <2> QED BY <2>1, LessByChance
<1>2. CASE DeadlineFails \/ RunnerFails
  <2>1. UNCHANGED <<calls, context, crashes>> /\ closed' \in {"timeout", "error"}
    BY <1>2 DEF DeadlineFails, RunnerFails, Close, ledger
  <2>2. Level' < Level
    BY <1>2 DEF DeadlineFails, RunnerFails, Close, Awaits, Level, Nodes
  <2>3. ASSUME NEW q \in Roles PROVE Pending(q)' <= Pending(q)
    <3>1. task'[q] = Idle \/ task'[q] = task[q]
      BY <1>2 DEF DeadlineFails, RunnerFails, Close
    <3>2. CASE task'[q] = Idle
      BY <2>1, <3>2, NothingPending DEF Idle
    <3>3. CASE task'[q].at = task[q].at /\ task[q].at # "idle"
      <4>1. Pending(q)' = Pending(q)
        BY <3>3 DEF Pending
      <4> QED BY <4>1, PendingTypes
    <3>4. CASE task'[q].at = task[q].at /\ task[q].at = "idle"
      BY <2>1, <3>4, NothingPending
    <3> QED BY <3>1, <3>2, <3>3, <3>4
  <2> QED BY <2>1, <2>2, <2>3, PendingAdds, PendingTypes, LessByProgress
<1> QED BY <1>1, <1>2 DEF Cuts

\* and asking the roles of a node,
LEMMA LessByNode ==
  ASSUME TypeOK, Fitting, Staffed, InCycle, NEW n \in Nodes, EnterNode(n)
  PROVE  Effort' < Effort
<1>1. UNCHANGED <<calls, context, crashes, agents, closed, pc>>
  BY DEF EnterNode, ledger, run
<1>2. PICK r \in Members(n) : ~Answered(r) /\ task[r].at = "idle"
  BY DEF EnterNode
<1>3. r \in Roles /\ closed = "open"
  BY NodesAndRoles DEF EnterNode, Staffed, StillOpen
<1>4. ASSUME NEW q \in Roles, task'[q].at \in {"entered", "ready"},
             task[q].at = "idle", ~Answered(q)
      PROVE  Pending(q)' < Pending(q)
  BY <1>3, <1>4 DEF Pending
<1>5. ASSUME NEW q \in Roles
      PROVE  \/ task'[q] = task[q]
             \/ task'[q].at \in {"entered", "ready"} /\ task[q].at = "idle" /\ ~Answered(q)
  BY DEF EnterNode, Idle
<1>6. task'[r].at \in {"entered", "ready"}
  BY <1>2, <1>3 DEF EnterNode, Idle
<1>7. ASSUME NEW q \in Roles PROVE Pending(q)' <= Pending(q)
  <2>1. CASE task'[q] = task[q]
    <3>1. Answered(q) => Answered(q)'
      BY <1>1 DEF Answered, Key, agents
    <3> QED BY <1>1, <2>1, <3>1, PendingKept
  <2> QED BY <1>4, <1>5, <2>1, PendingTypes
<1>8. Level' = Level
  BY <1>1 DEF Level
<1> QED BY <1>1, <1>2, <1>3, <1>4, <1>6, <1>7, <1>8, PendingAdds, PendingTypes, LessByProgress

\* and each step of an inference,
LEMMA LessByInference ==
  ASSUME TypeOK, Fitting, InCycle, NEW r \in Roles, Step(r)
  PROVE  Effort' < Effort
<1>1. /\ Proceeds(r) /\ task[r].at \in {"entered", "ready", "awaiting"}
      /\ UNCHANGED <<agents, context, crashes>>
  BY InferenceStep DEF Fitting
<1>2. CASE Closes(r)
  <2>1. /\ closed' # "open" /\ calls' = calls /\ \A q \in Roles : task'[q].at = "idle"
        /\ Level' = 0
    BY <1>1, <1>2 DEF Closes, Billed, Everybody, Idle, Level
  <2>2. \A q \in Roles : Pending(q)' = 0 /\ Pending(q)' <= Pending(q)
    BY <2>1, NothingPending
  <2>3. Pending(r)' < Pending(r)
    BY <1>1, <2>2 DEF Pending
  <2> QED BY <1>1, <2>1, <2>2, <2>3, PendingAdds, PendingTypes, LessByProgress
<1>3. ASSUME NEW t \in Tasks, Further(r, t) PROVE Effort' < Effort
  <2>1. /\ task'[r] = t /\ \A q \in Roles \ {r} : task'[q] = task[q]
        /\ closed' = closed /\ t.at \in {"ready", "awaiting", "ended", "raised"} /\ Billed(r, t.at)
    BY <1>3, OneTask DEF Further
  <2>2. Level' <= Level
    <3>1. pc' = pc \/ (pc \in Nodes /\ pc' = "raised")
      BY <1>3 DEF Further
    <3>2. pc' = pc => Level' = Level
      BY DEF Level
    <3>3. pc \in Nodes /\ pc' = "raised" => Level' < Level
      BY DEF Level, Nodes
    <3> QED BY <3>1, <3>2, <3>3, PendingTypes
  <2>3. \A q \in Roles \ {r} : Pending(q)' <= Pending(q)
    <3> SUFFICES ASSUME NEW q \in Roles \ {r} PROVE Pending(q)' <= Pending(q)
      OBVIOUS
    <3>1. Answered(q) => Answered(q)'
      BY <1>1 DEF Answered, Key, agents
    <3> QED BY <2>1, <3>1, PendingKept
  <2>4. CASE t.at = "awaiting"
    <3>1. calls' = calls + 1 /\ task[r].at = "ready"
      BY <2>1, <2>4 DEF Billed
    <3>2. Pending(r)' <= Pending(r) + 1
      BY <2>1, <2>4, <3>1 DEF Pending
    <3>3. AllPending' <= AllPending + 1
      BY <2>3, <3>2, PendingRises
    <3> QED BY <1>1, <2>2, <3>1, <3>3, LessByCharge
  <2>5. CASE t.at # "awaiting"
    <3>1. calls' = calls /\ Pending(r)' < Pending(r)
      BY <1>1, <2>1, <2>5 DEF Billed, Pending
    <3> QED BY <1>1, <2>2, <2>3, <3>1, PendingAdds, PendingTypes, LessByProgress
  <2> QED BY <2>4, <2>5
<1> QED BY <1>1, <1>2, <1>3 DEF Proceeds

\* and of what is written of its answer.
LEMMA LessByWriting ==
  ASSUME TypeOK, Fitting, Written, InCycle, NEW r \in Roles,
         Decide(r) \/ Record(r) \/ Checkpoint(r)
  PROVE  Effort' < Effort
<1>1. UNCHANGED <<calls, context, crashes, closed, pc>>
  BY WritingStep DEF ledger, run
<1>2. PICK t \in Tasks : Writes(r, {"ended", "decided", "recorded"}, t)
  BY WritingStep
<1>3. task'[r] = t /\ \A q \in Roles \ {r} : task'[q] = task[q]
  BY <1>2, OneTask DEF Writes
<1>4. accepted \subseteq accepted' /\ checkpoints \subseteq checkpoints'
  BY DEF Decide, Record, Checkpoint
<1>5. ASSUME NEW q \in Roles \ {r} PROVE Pending(q)' <= Pending(q)
  <2>1. Answered(q) => Answered(q)'
    BY <1>1, <1>4 DEF Answered, Key
  <2> QED BY <1>1, <1>3, <2>1, PendingKept
<1>6. ASSUME task'[r].at = "idle", task[r].at \in {"ended", "decided", "recorded"}, Answered(r)'
      PROVE  Pending(r)' < Pending(r)
  <2>1. Pending(r)' = 0
    BY <1>6, NothingPending
  <2> QED BY <1>6, <2>1 DEF Pending
<1>7. task[r] \in Tasks
  BY DEF TypeOK
<1>8. Key(r)' = Key(r)
  BY <1>1 DEF Key
<1>9. r \in Required => r \notin Advisory
  BY NodesAndRoles
<1>10. ASSUME Decide(r) PROVE Pending(r)' < Pending(r)
  <2>1. task[r].at = "ended" /\ task'[r] = [task[r] EXCEPT !.at = "decided"]
    BY <1>10 DEF Decide, Set, TypeOK
  <2>2. task'[r].at = "decided"
    BY <1>7, <2>1 DEF Tasks
  <2> QED BY <2>1, <2>2 DEF Pending
<1>11. ASSUME Record(r) PROVE Pending(r)' < Pending(r)
  <2>1. task[r].at \in {"ended", "decided"}
    BY <1>11 DEF Record
  <2>2. CASE Key(r) \in checkpoints
    <3>1. task'[r] = Idle
      BY <1>11, <2>2 DEF Record, Set, TypeOK
    <3>2. r \in Advisory \/ r \in accepted
      BY <1>11 DEF Record, Written, Saved
    <3>3. Answered(r)'
      BY <1>4, <1>8, <1>9, <2>2, <3>2 DEF Answered
    <3> QED BY <1>6, <2>1, <3>1, <3>3 DEF Idle
  <2>3. CASE Key(r) \notin checkpoints
    <3>1. task'[r] = [task[r] EXCEPT !.at = "recorded"]
      BY <1>11, <2>3 DEF Record, Set, TypeOK
    <3>2. task'[r].at = "recorded"
      BY <1>7, <3>1 DEF Tasks
    <3> QED BY <2>1, <3>2 DEF Pending
  <2> QED BY <2>2, <2>3
<1>12. ASSUME Checkpoint(r) PROVE Pending(r)' < Pending(r)
  <2>1. task[r].at = "recorded" /\ task'[r] = Idle /\ Key(r) \in checkpoints'
    BY <1>12 DEF Checkpoint, Set, TypeOK
  <2>2. r \in Advisory \/ r \in accepted
    BY <2>1 DEF Written, Backed, Saved, Roles
  <2>3. Answered(r)'
    BY <1>4, <1>8, <2>1, <2>2, <1>9 DEF Answered
  <2> QED BY <1>6, <2>1, <2>3 DEF Idle
<1>13. Pending(r)' < Pending(r)
  BY <1>10, <1>11, <1>12
<1>14. \A q \in Roles : Pending(q)' <= Pending(q)
  BY <1>5, <1>13, PendingTypes
<1>15. Level' = Level
  BY <1>1 DEF Level
<1> QED BY <1>1, <1>13, <1>14, <1>15, PendingAdds, PendingTypes, LessByProgress

\* A context is counted only by a verdict that lets a tool run.
LEMMA CyclesAreCounted ==
  ASSUME TypeOK, Gates, InCycle, Next
  PROVE  InCycle'
<1> USE BudgetAssumption
<1>1. CASE Act
  <2>1. ~finalizing /\ context \in Nat
    BY <1>1 DEF Act, Gates, TypeOK
  <2> QED BY <1>1, <2>1 DEF Act, InCycle
<1>2. CASE UNCHANGED <<context, finalizing>>
  BY <1>2 DEF InCycle
<1>3. Act \/ UNCHANGED <<context, finalizing>>
  BY DEF Next, Graph, Infer, Persist, RouteRecovered, Route, EnterNode, LeaveNode, EnterRole, Attempt,
         AnswerRaises, Answer, Decide, Record, Checkpoint, RunnerFails, DeadlineFails, Crash, Resume, run
<1> QED BY <1>1, <1>2, <1>3

\* Every step, a retry, a restart or an abandoned sibling's included, brings the
\* roles of the run nearer to their end, for any limits, budgets and failures:
\* neither _infer nor the graph around it can go round in circles.
THEOREM EveryStep_Counts == Spec => [][Effort' < Effort]_vars /\ [](Effort \in Nat)
<1>1. IInv /\ InCycle /\ [Next]_vars => [Effort' < Effort]_vars
  <2> SUFFICES ASSUME IInv, InCycle, Next, vars' # vars PROVE Effort' < Effort
    OBVIOUS
  <2>1. TypeOK /\ Fitting /\ Staffed /\ Written
    BY DEF IInv
  <2>2. ASSUME Calm PROVE RouteRecovered \/ Act \/ Resume \/ \E n \in Nodes : LeaveNode(n)
    BY <2>2 DEF Calm
  <2> QED BY <2>1, <2>2, StepCases, LessByGraph, LessByFailure, LessByNode, LessByInference, LessByWriting
<1>2. Init => InCycle
  BY BudgetAssumption DEF Init, InCycle
<1>3. IInv /\ InCycle /\ [Next]_vars => InCycle'
  <2>1. CASE UNCHANGED vars
    BY <2>1 DEF InCycle, vars, run
  <2> QED BY <2>1, CyclesAreCounted DEF IInv, Ordered
<1>4. IInv /\ InCycle => Effort \in Nat
  BY LeftTypes DEF IInv
<1> QED BY <1>1, <1>2, <1>3, <1>4, Invariance, PTL DEF Spec
=============================================================================
