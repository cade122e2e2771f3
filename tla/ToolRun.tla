------------------------------- MODULE ToolRun -------------------------------
(***************************************************************************)
(* How the controller runs the tools of one run: in a subprocess that it   *)
(* kills at the deadline or in a thread that it can only abandon, with the *)
(* artifact of the search written to a staging directory, published and    *)
(* only then named by the ledger; a crash at any step runs the prepared    *)
(* tool again, maybe with other library versions.                          *)
(*                                                                         *)
(* The staged and the durable file are those of the one search of a run: a *)
(* repeated tool keeps its action id.  A crash takes the subprocess along, *)
(* as it does when the container is stopped.                               *)
(***************************************************************************)
EXTENDS Science, Sequences

CONSTANTS
  Sky,           \* stars that may be investigated
  Isolations,    \* of SUBPROCESS (the registry) and THREAD (the default of a spec)
  MaxLibrary,    \* library versions
  MaxCrashes

\* The longest period that is searched is a third of the baseline.
ASSUME SkyAssumption ==
  /\ Sky \subseteq Stars
  /\ \A s \in Sky : /\ IsFiniteSet(s.transits)
                    /\ Searchable(s) => 3 * s.period <= s.baseline
ASSUME IsolationsAssumption == Isolations \subseteq {"SUBPROCESS", "THREAD"}
ASSUME BoundsAssumption ==
  /\ MaxLibrary \in Nat \ {0} /\ MaxCrashes \in Nat /\ None \notin Nat \cup Codes
  /\ None \notin [whole : BOOLEAN, by : Nat]
  /\ None \notin Tools \cup {"result", "error", "REJECTED", "WEAK", "SURVIVES",
                             "insufficient", "failed"}

VARIABLES
  star, isolation,
  library,   \* versions the service runs with
  ledger,    \* evidence: tool, status, code, versions it was computed with
  prepared,  \* the tool whose execution is PREPARED in the saved state
  pc,        \* of the controller
  worker,    \* of the process or thread that runs the handler
  running,   \* the tool it runs
  answer,    \* what the worker has sent
  abandoned, \* the event of the threaded variant
  staged, durable,  \* the artifact in staging, and published
  outcome,   \* why the run is closed: a disposition, or how it ended
  crashes

input == <<star, isolation>>
files == <<staged, durable>>
work == <<worker, running, answer, abandoned>>
vars == <<input, library, ledger, prepared, pc, work, files, outcome, crashes>>

Versions == 1..MaxLibrary
Files == [whole : BOOLEAN, by : Versions]
Evidence == DOMAIN ledger
Recorded == {ledger[n].tool : n \in Evidence}
Completed == {ledger[n].tool : n \in {m \in Evidence : ledger[m].status \in {"SUCCESS", "NO_EVIDENCE"}}}
Found == \E n \in Evidence : ledger[n].tool = Search /\ ledger[n].status = "SUCCESS"
CodesOf == {ledger[n].code : n \in Evidence} \ {None}
Working == worker \notin {"none", "gone"}

-----------------------------------------------------------------------------
(* The handler.                                                            *)

Artifact == [whole |-> TRUE, by |-> library]
Step(here, there) ==
  /\ worker = here /\ worker' = there
  /\ UNCHANGED <<input, library, ledger, prepared, pc, running, abandoned, outcome, crashes>>

\* The result is there; the search goes on to write it down.
Compute ==
  /\ UNCHANGED files
  /\ IF running # Search \/ ~WritesArtifact(star)
     THEN Step("computing", "leaving") /\ answer' = "result"
     ELSE IF SearchRaises(star) THEN Step("computing", "leaving") /\ answer' = "error"
     ELSE Step("computing", "checking") /\ UNCHANGED answer
\* _write_artifact: a file that is there must have the same bytes.
Check ==
  /\ IF staged = None
     THEN Step("checking", "writing") /\ staged' = [Artifact EXCEPT !.whole = FALSE]
          /\ UNCHANGED answer
     ELSE Step("checking", "leaving") /\ answer' = (IF staged = Artifact THEN "result" ELSE "error")
          /\ UNCHANGED staged
  /\ UNCHANGED durable
Write ==
  /\ Step("writing", "leaving")
  /\ staged' = Artifact /\ answer' = "result" /\ UNCHANGED durable
\* A thread discards what it staged if nobody waits for it any more, in its
\* finally clause or in the callback of its future.
\* Mutant: it does not.
LeaveStaged == Step("leaving", "gone") /\ UNCHANGED <<answer, files>>
Leave ==
  /\ Step("leaving", "gone")
  /\ staged' = IF isolation = "THREAD" /\ abandoned THEN None ELSE staged
  /\ UNCHANGED <<answer, durable>>
\* A subprocess may be killed by the system.
Die ==
  /\ isolation = "SUBPROCESS" /\ Working
  /\ Step(worker, "gone") /\ UNCHANGED <<answer, files>>
Worker == Compute \/ Check \/ Write \/ Leave \/ Die

-----------------------------------------------------------------------------
(* The controller.                                                         *)

Init ==
  /\ star \in Sky /\ isolation \in Isolations /\ library = 1
  /\ ledger = <<>> /\ prepared = None /\ pc = "next" /\ worker = "none" /\ running = None /\ answer = None
  /\ abandoned = FALSE /\ staged = None /\ durable = None /\ outcome = None /\ crashes = 0

Close(how) ==
  pc' = "closed" /\ outcome' = how /\ UNCHANGED <<input, library, ledger, crashes>>
Invoke(tool) ==
  /\ prepared' = tool /\ pc' = "waiting"
  /\ worker' = "computing" /\ running' = tool /\ answer' = None /\ abandoned' = FALSE

\* The ledger decides what comes next: the end of a run whose tool failed or
\* could not be applied, the first missing mandatory tool, the disposition, or
\* the harmonic test if the roles choose it.
Missing == Mandatory \ Completed
FirstMissing == CHOOSE t \in Missing : \A u \in Missing : Order(t) <= Order(u)
FailedBy(status) == \E n \in Evidence : ledger[n].status = status /\ ledger[n].tool \in Mandatory
Goes(how) == Close(how) /\ UNCHANGED <<prepared, work>>
Runs(tool) == Invoke(tool) /\ UNCHANGED <<input, library, ledger, outcome, crashes>>
Decide ==
  /\ pc = "next" /\ UNCHANGED files
  /\ IF FailedBy("FAILED") THEN Goes("failed")
     ELSE IF FailedBy("PRECONDITION_FAILED") THEN Goes("insufficient")
     ELSE IF Missing # {}
     THEN IF FirstMissing = Search \/ Found THEN Runs(FirstMissing) ELSE Goes("insufficient")
     ELSE \/ Goes(DispositionOf(CodesOf, Found))
          \/ /\ "ODD_EVEN_MISMATCH" \notin CodesOf /\ "harmonic_test" \notin Recorded
             /\ Runs("harmonic_test")

\* TOOL_TIMEOUT, or the drive is cancelled at its own deadline.  A subprocess
\* is terminated and what it staged stays; a thread goes on.
\* Mutant: a worker that has answered is waited for.
GiveUpUnanswered ==
  /\ pc = "waiting" /\ answer = None
  /\ worker' = (IF isolation = "SUBPROCESS" THEN "gone" ELSE worker)
  /\ abandoned' = TRUE /\ prepared' = None
  /\ Close("failed") /\ UNCHANGED <<running, answer, files>>
GiveUp ==
  /\ pc = "waiting"
  /\ worker' = (IF isolation = "SUBPROCESS" THEN "gone" ELSE worker)
  /\ abandoned' = TRUE /\ prepared' = None
  /\ staged' = (IF isolation = "THREAD" /\ worker = "gone" THEN None ELSE staged)
  /\ Close("failed") /\ UNCHANGED <<running, answer, durable>>
\* The worker is gone; without a result the action has failed.  The registered
\* tools answer for the action they were given: a result for another one, which
\* the code discards and fails like an error of a thread, does not occur.
Receive ==
  /\ pc = "waiting" /\ worker = "gone" /\ UNCHANGED <<worker, running, answer, durable>>
  /\ IF answer = "result"
     THEN /\ pc' = "promote"
          /\ UNCHANGED <<input, library, ledger, prepared, abandoned, staged, outcome, crashes>>
     ELSE /\ abandoned' = TRUE /\ prepared' = None /\ Close("failed")
          /\ staged' = IF isolation = "THREAD" THEN None ELSE staged

\* _promote_staged_artifacts: a published artifact is never replaced.
\* Mutant: whatever is published is good enough.
PromoteAny ==
  /\ pc = "promote" /\ staged' = None /\ pc' = "append"
  /\ durable' = (IF durable = None THEN staged ELSE durable)
  /\ UNCHANGED <<input, library, ledger, prepared, work, outcome, crashes>>
Promote ==
  /\ pc = "promote" /\ staged' = None /\ UNCHANGED work
  /\ IF staged # None /\ durable \notin {None, staged}
     THEN Close("failed") /\ prepared' = None /\ UNCHANGED durable
     ELSE /\ durable' = (IF staged # None THEN staged ELSE durable) /\ pc' = "append"
          /\ UNCHANGED <<input, library, ledger, prepared, outcome, crashes>>
\* _commit_result: the record, then the state.
AppendEvidence ==
  /\ pc = "append" /\ pc' = "save"
  /\ LET result == AnswerOf(prepared, star) IN
     ledger' = Append(ledger, [tool |-> prepared, status |-> result.status,
                               code |-> result.code, by |-> library])
  /\ UNCHANGED <<input, library, prepared, work, files, outcome, crashes>>
Save ==
  /\ pc = "save" /\ pc' = "next" /\ prepared' = None
  /\ UNCHANGED <<input, library, ledger, work, files, outcome, crashes>>

Crash ==
  /\ pc \notin {"closed", "down"} /\ crashes < MaxCrashes
  /\ pc' = "down" /\ crashes' = crashes + 1
  /\ worker' = "none" /\ running' = None /\ answer' = None /\ abandoned' = FALSE
  /\ UNCHANGED <<input, library, ledger, prepared, files, outcome>>
\* A prepared tool with a record is committed, one without a record is run
\* again with its action id and whatever it left in staging.
\* Mutant: versions are not bounded.
ResumeUnbounded ==
  /\ pc = "down" /\ library' = library + 1 /\ pc' = "next" /\ prepared' = None
  /\ UNCHANGED <<input, ledger, work, files, outcome, crashes>>
Resume ==
  /\ pc = "down" /\ library' \in {v \in Versions : v \in {library, library + 1}}
  /\ UNCHANGED <<input, ledger, files, outcome, crashes>>
  /\ IF prepared = None \/ prepared \in Recorded
     THEN pc' = "next" /\ prepared' = None /\ UNCHANGED work
     ELSE Invoke(prepared)

Controller == Decide \/ GiveUp \/ Receive \/ Promote \/ AppendEvidence \/ Save \/ Resume
Next == Worker \/ Controller \/ Crash
Spec == Init /\ [][Next]_vars
\* The controller and whoever restarts it go on; a handler may hang for ever.
FairSpec == Spec /\ WF_vars(Controller)
-----------------------------------------------------------------------------
(* Properties.                                                             *)

Records == [tool : Tools, status : Statuses, code : Codes \cup {None}, by : Versions]
Outcomes == {None, "REJECTED", "WEAK", "SURVIVES", "insufficient", "failed"}

\* Every variable has its type.
TypeOK ==
  /\ star \in Sky /\ isolation \in Isolations /\ library \in Versions
  /\ ledger \in Seq(Records) /\ prepared \in Tools \cup {None}
  /\ pc \in {"next", "waiting", "promote", "append", "save", "closed", "down"}
  /\ worker \in {"none", "computing", "checking", "writing", "leaving", "gone"}
  /\ running \in Tools \cup {None} /\ answer \in {None, "result", "error"} /\ abandoned \in BOOLEAN
  /\ staged \in Files \cup {None} /\ durable \in Files \cup {None}
  /\ outcome \in Outcomes /\ crashes \in 0..MaxCrashes

\* Whatever is interrupted and repeated, the evidence of a search stands on a
\* complete published artifact of the same versions.
ArtifactBacksRecord ==
  \A n \in Evidence :
    ledger[n].tool = Search /\ ledger[n].status \in {"SUCCESS", "NO_EVIDENCE"} =>
      durable = [whole |-> TRUE, by |-> ledger[n].by]

\* The verdict is the star's: neither crashes nor repetitions nor the order of
\* the commits change it, and no tool runs twice.
VerdictFollowsStar ==
  /\ \A m, n \in Evidence : ledger[m].tool = ledger[n].tool => m = n
  /\ outcome = "REJECTED" =>
       Candidate(star) /\ star.mismatch >= 3 /\ star.secondary # None /\ star.crowding # None
  /\ outcome \in {"WEAK", "SURVIVES"} =>
       Candidate(star) /\ star.mismatch < 3 /\ Cardinality(Odd(star.transits)) \in 2..(Cardinality(star.transits) - 2)
  /\ outcome = "SURVIVES" => star.secondary < 5 /\ star.crowding < star.depth
  /\ outcome = "insufficient" =>
       \/ ~Searchable(star) \/ ~Candidate(star) \/ OddEven(star) = Unmet
       \/ star.secondary = None \/ star.crowding = None

\* Nothing is left in staging, except by a subprocess whose action failed; a
\* thread cleans up after itself however late.
StagingIsCleared ==
  pc = "closed" /\ ~Working /\ (isolation = "THREAD" \/ outcome # "failed") => staged = None

\* Evidence stands: every record is backed from the step that writes it, and a
\* closed run keeps its ledger and its artifact, whatever a late worker, a
\* repeated tool or a resume does.
KeepsEvidence == ArtifactBacksRecord' /\ (pc = "closed" => UNCHANGED <<ledger, durable, outcome>>)
EvidenceStands == [][KeepsEvidence]_vars

\* Every run ends, though its tools may never answer.
ToolsEnd == <>(pc = "closed")
=============================================================================
