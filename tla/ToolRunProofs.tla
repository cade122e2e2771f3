---------------------------- MODULE ToolRunProofs ----------------------------
(***************************************************************************)
(* Proofs about ToolRun: for every set of stars, number of crashes and     *)
(* library versions, evidence stands on its artifact, the verdict is the   *)
(* star's, staging is cleared and a closed run is still.                   *)
(*                                                                         *)
(* What makes it true: only one handler's answer is ever taken, and while  *)
(* it is awaited neither the versions nor the star change under it.        *)
(***************************************************************************)
EXTENDS ToolRun, FiniteSetTheorems, TLAPS

\* Who runs for whom.  Only a waiting controller has a worker that can still
\* be heard.
Awaiting == {"waiting", "promote"}
Handling ==
  /\ pc \in Awaiting => running = prepared /\ worker # "none" /\ ~abandoned
  /\ pc \in Awaiting \cup {"append", "save"} => prepared # None
  /\ pc = "promote" => answer = "result"
  /\ pc \in {"promote", "append", "save"} => worker = "gone"
  /\ pc = "next" => prepared = None /\ worker \in {"none", "gone"}
  /\ pc = "down" => worker = "none"
  /\ pc = "closed" /\ Working => isolation = "THREAD" /\ abandoned
  /\ worker \in {"computing", "checking", "writing"} => answer = None
  /\ worker \in {"checking", "writing"} => running = Search

\* Each record is the answer of its tool to this star, once.
Answered ==
  /\ \A n \in Evidence :
       LET given == AnswerOf(ledger[n].tool, star) IN
       ledger[n].status = given.status /\ ledger[n].code = given.code
  /\ \A m, n \in Evidence : ledger[m].tool = ledger[n].tool => m = n
  /\ pc \in Awaiting \cup {"append"} => prepared \notin Recorded

\* Where the artifact of a search is, before its evidence is.
Backed ==
  /\ ArtifactBacksRecord
  /\ (/\ pc \in Awaiting /\ worker \in {"leaving", "gone"} /\ answer = "result"
      /\ running = Search /\ Searchable(star)) => staged = Artifact
  /\ pc = "append" /\ prepared = Search /\ Searchable(star) => durable = Artifact

\* Staging holds nothing but what a handler that may be repeated left there.
Cleared ==
  /\ pc \in {"next", "append", "save"} => staged = None
  /\ pc = "down" /\ prepared \in Recorded \cup {None} => staged = None
  /\ StagingIsCleared

\* What the verdict of a closed run says about the star.
Judged ==
  /\ outcome = "REJECTED" =>
       Candidate(star) /\ star.mismatch >= 3 /\ star.secondary # None /\ star.crowding # None
  /\ outcome \in {"WEAK", "SURVIVES"} =>
       Candidate(star) /\ star.mismatch < 3 /\ Cardinality(Odd(star.transits)) \in 2..(Cardinality(star.transits) - 2)
  /\ outcome = "SURVIVES" => star.secondary < 5 /\ star.crowding < star.depth
  /\ outcome = "insufficient" =>
       \/ ~Searchable(star) \/ ~Candidate(star) \/ OddEven(star) = Unmet
       \/ star.secondary = None \/ star.crowding = None

IInv == TypeOK /\ Handling /\ Answered /\ Backed /\ Cleared /\ Judged

-----------------------------------------------------------------------------
(* The tools and what their answers mean.                                  *)

\* Every tool answers with a status and a code.
LEMMA AnswerType ==
  ASSUME NEW tool, NEW s \in Stars
  PROVE  AnswerOf(tool, s) \in Results
<1> USE DEF Answer, Unmet, Verdict, Results, Statuses, Codes
<1>1. SearchAnswer(s) \in Results
  BY DEF SearchAnswer
<1>2. OddEven(s) \in Results
  BY DEF OddEven
<1>3. SecondaryEclipse(s) \in Results
  BY DEF SecondaryEclipse
<1>4. Contamination(s) \in Results
  BY DEF Contamination
<1>5. Harmonic(s) \in Results
  BY DEF Harmonic
<1> QED BY <1>1, <1>2, <1>3, <1>4, <1>5, Zenon DEF AnswerOf

\* AnswerOf tells the tools apart.
LEMMA EachAnswers ==
  ASSUME NEW s
  PROVE  /\ AnswerOf(Search, s) = SearchAnswer(s)
         /\ AnswerOf("odd_even", s) = OddEven(s)
         /\ AnswerOf("secondary_eclipse", s) = SecondaryEclipse(s)
         /\ AnswerOf("contamination_screening", s) = Contamination(s)
BY DEF AnswerOf, Search

\* What each tool says of the star when it completes.
Complete == {"SUCCESS", "NO_EVIDENCE"}

\* What the evidence of the transit search rests on.
LEMMA SearchMeans ==
  ASSUME NEW s, SearchAnswer(s).status \in Complete
  PROVE  Searchable(s) /\ (SearchAnswer(s).status = "SUCCESS" <=> Candidate(s))
BY DEF SearchAnswer, Answer, Unmet, Verdict, Complete

\* The same for the odd-even test.
LEMMA OddEvenMeans ==
  ASSUME NEW s \in Sky, OddEven(s).status \in Complete
  PROVE  /\ Candidate(s)
         /\ Cardinality(Odd(s.transits)) \in 2..(Cardinality(s.transits) - 2)
         /\ OddEven(s).code =
              IF s.mismatch >= 3 THEN "ODD_EVEN_MISMATCH" ELSE "ODD_EVEN_CONSISTENT"
<1> DEFINE T == s.transits
           O == Odd(T)
<1>1. /\ Candidate(s) /\ ~(Cardinality(O) < 2) /\ ~(Cardinality(T \ O) < 2)
      /\ OddEven(s).code =
           IF s.mismatch >= 3 THEN "ODD_EVEN_MISMATCH" ELSE "ODD_EVEN_CONSISTENT"
  BY DEF OddEven, Verdict, Answer, Unmet, Complete
<1>2. IsFiniteSet(T) /\ O \subseteq T
  BY SkyAssumption DEF Odd
<1> HIDE DEF T, O
<1>3. IsFiniteSet(O) /\ T \cap O = O
  BY <1>2, FS_Subset
<1>4. Cardinality(T \ O) = Cardinality(T) - Cardinality(O)
  BY <1>2, <1>3, FS_Difference
<1>5. Cardinality(O) \in Nat /\ Cardinality(T) \in Nat
  BY <1>2, <1>3, FS_CardinalityType
<1>6. Cardinality(O) \in 2..(Cardinality(T) - 2)
  BY <1>1, <1>4, <1>5
<1> QED BY <1>1, <1>6 DEF O, T

\* The same for the secondary eclipse.
LEMMA SecondaryMeans ==
  ASSUME NEW s \in Sky, SecondaryEclipse(s).status \in Complete
  PROVE  /\ s.secondary # None
         /\ SecondaryEclipse(s).code # "SECONDARY_ECLIPSE_DETECTED" => s.secondary < 5
<1>1. s.secondary \in Nat \cup {None}
  BY SkyAssumption DEF Stars
<1> QED BY <1>1 DEF SecondaryEclipse, Verdict, Answer, Unmet, Complete

\* The same for the contamination test.
LEMMA ContaminationMeans ==
  ASSUME NEW s \in Sky, Contamination(s).status \in Complete
  PROVE  /\ s.crowding # None
         /\ Contamination(s).code # "CONTAMINATION_POSSIBLE" => s.crowding < s.depth
<1>1. s.crowding \in Nat \cup {None} /\ s.depth \in Nat
  BY SkyAssumption DEF Stars
<1> QED BY <1>1 DEF Contamination, Verdict, Answer, Unmet, Complete

\* What it says when it cannot be applied.
LEMMA UnmetMeans ==
  ASSUME NEW s \in Sky, NEW tool \in Mandatory, AnswerOf(tool, s).status = "PRECONDITION_FAILED"
  PROVE  \/ ~Searchable(s) \/ ~Candidate(s) \/ OddEven(s) = Unmet
         \/ s.secondary = None \/ s.crowding = None
<1>1. /\ s.depth \in Nat /\ s.period \in Nat /\ s.baseline \in Nat
      /\ Searchable(s) => 3 * s.period <= s.baseline
  BY SkyAssumption DEF Stars
<1>2. CASE tool = Search
  BY <1>2, EachAnswers DEF SearchAnswer, Verdict, Answer
<1>3. CASE tool = "odd_even"
  BY <1>3, EachAnswers DEF OddEven, Verdict, Answer
<1>4. CASE tool = "secondary_eclipse"
  <2>1. ~Candidate(s) \/ s.baseline < 2 * s.period \/ s.secondary = None
    BY <1>4, EachAnswers DEF SecondaryEclipse, Verdict, Answer
  <2> QED BY <2>1, <1>1
<1>5. CASE tool = "contamination_screening"
  <2>1. ~Candidate(s) \/ s.depth = 0 \/ s.crowding = None
    BY <1>5, EachAnswers DEF Contamination, Verdict, Answer
  <2> QED BY <2>1, <1>1 DEF Candidate
<1> QED BY <1>2, <1>3, <1>4, <1>5 DEF Mandatory

\* A mismatch is found by one tool alone.
LEMMA MismatchIsOddEven ==
  ASSUME NEW s, NEW tool \in Tools, AnswerOf(tool, s).code = "ODD_EVEN_MISMATCH"
  PROVE  tool = "odd_even"
<1> USE BoundsAssumption DEF Codes
<1>1. SearchAnswer(s).code # "ODD_EVEN_MISMATCH"
  BY DEF SearchAnswer, Verdict, Answer, Unmet
<1>2. SecondaryEclipse(s).code # "ODD_EVEN_MISMATCH"
  BY DEF SecondaryEclipse, Verdict, Answer, Unmet
<1>3. Contamination(s).code # "ODD_EVEN_MISMATCH"
  BY DEF Contamination, Verdict, Answer, Unmet
<1>4. Harmonic(s).code # "ODD_EVEN_MISMATCH"
  BY DEF Harmonic, Verdict, Answer, Unmet
<1>5. tool = "harmonic_test" => AnswerOf(tool, s) = Harmonic(s)
  BY DEF AnswerOf, Search
<1> QED BY <1>1, <1>2, <1>3, <1>4, <1>5, EachAnswers DEF Tools, Mandatory

\* Of missing tools one is the first, and the search is before all others.
LEMMA FirstIsMissing ==
  ASSUME Missing # {}
  PROVE  FirstMissing \in Missing /\ (Search \in Missing => FirstMissing = Search)
<1>1. \E t \in Missing : \A u \in Missing : Order(t) <= Order(u)
  <2>1. CASE Search \in Missing
    BY <2>1 DEF Missing, Mandatory, Order, Search
  <2>2. CASE Search \notin Missing /\ "odd_even" \in Missing
    BY <2>2 DEF Missing, Mandatory, Order, Search
  <2>3. CASE Search \notin Missing /\ "odd_even" \notin Missing /\ "secondary_eclipse" \in Missing
    BY <2>3 DEF Missing, Mandatory, Order, Search
  <2>4. CASE Missing = {"contamination_screening"}
    BY <2>4 DEF Order, Search
  <2> QED BY <2>1, <2>2, <2>3, <2>4 DEF Missing, Mandatory
<1>2. FirstMissing \in Missing /\ \A u \in Missing : Order(FirstMissing) <= Order(u)
  BY <1>1 DEF FirstMissing
<1>3. \A t \in Missing : Order(t) <= Order(Search) => t = Search
  BY DEF Missing, Mandatory, Order, Search
<1> QED BY <1>2, <1>3
-----------------------------------------------------------------------------
(* Types.                                                                  *)

\* Every step keeps the types.
LEMMA TypesKept == TypeOK /\ Handling /\ [Next]_vars => TypeOK'
<1> SUFFICES ASSUME TypeOK, Handling, [Next]_vars PROVE TypeOK'
  OBVIOUS
<1> USE SkyAssumption, IsolationsAssumption, BoundsAssumption
    DEF TypeOK, Versions, Files, Outcomes, input, files, work
<1>1. CASE Compute
  BY <1>1 DEF Compute, Step
<1>2. CASE Check
  <2>1. Artifact \in Files /\ [Artifact EXCEPT !.whole = FALSE] \in Files
    BY DEF Artifact
  <2>2. staged' \in Files \cup {None} /\ answer' \in {None, "result", "error"}
    BY <1>2, <2>1 DEF Check
  <2> QED BY <1>2, <2>2 DEF Check, Step
<1>3. CASE Write
  BY <1>3 DEF Write, Step, Artifact
<1>4. CASE Leave
  BY <1>4 DEF Leave, Step
<1>5. CASE Die
  BY <1>5 DEF Die, Step, Working
<1>6. CASE Decide
  <2>1. \A how \in Outcomes : Goes(how) /\ UNCHANGED files => TypeOK'
    BY DEF Goes, Close
  <2>2. ASSUME NEW tool \in Tools, Runs(tool), UNCHANGED files PROVE TypeOK'
    BY <2>2 DEF Runs, Invoke
  <2>3. DispositionOf(CodesOf, Found) \in Outcomes
    BY DEF DispositionOf
  <2>4. Missing # {} => FirstMissing \in Tools
    BY FirstIsMissing DEF Missing, Tools
  <2>5. "harmonic_test" \in Tools
    BY DEF Tools
  <2> QED BY <1>6, <2>1, <2>2, <2>3, <2>4, <2>5 DEF Decide
<1>7. CASE GiveUp
  BY <1>7 DEF GiveUp, Close
<1>8. CASE Receive
  BY <1>8 DEF Receive, Close
<1>9. CASE Promote
  BY <1>9 DEF Promote, Close
<1>10. CASE AppendEvidence
  <2> DEFINE given == AnswerOf(prepared, star)
             record == [tool |-> prepared, status |-> given.status, code |-> given.code, by |-> library]
  <2>1. given \in Results
    BY AnswerType
  <2>2. prepared \in Tools
    BY <1>10 DEF AppendEvidence, Handling
  <2> HIDE DEF given
  <2>3. record \in Records
    BY <2>1, <2>2 DEF Results, Records
  <2>4. ledger' = Append(ledger, record)
    BY <1>10 DEF AppendEvidence, given
  <2> HIDE DEF record
  <2>5. ledger' \in Seq(Records)
    BY <2>3, <2>4
  <2> QED BY <1>10, <2>5 DEF AppendEvidence
<1>11. CASE Save
  BY <1>11 DEF Save
<1>12. CASE Resume
  <2>1. library' \in Versions /\ UNCHANGED <<star, isolation, ledger, staged, durable, outcome, crashes>>
    BY <1>12 DEF Resume
  <2>2. CASE prepared = None \/ prepared \in Recorded
    BY <1>12, <2>1, <2>2 DEF Resume
  <2>3. CASE ~(prepared = None \/ prepared \in Recorded)
    BY <1>12, <2>1, <2>3 DEF Resume, Invoke
  <2> QED BY <2>2, <2>3
<1>13. CASE Crash
  <2>1. crashes' \in 0..MaxCrashes
    BY <1>13 DEF Crash
  <2> QED BY <1>13, <2>1 DEF Crash
<1>14. CASE UNCHANGED vars
  BY <1>14 DEF vars
<1> QED BY <1>1, <1>2, <1>3, <1>4, <1>5, <1>6, <1>7, <1>8, <1>9, <1>10, <1>11, <1>12, <1>13, <1>14 DEF Next, Worker, Controller

-----------------------------------------------------------------------------
(* Each part of the invariant, action by action.                           *)

\* Every step keeps what is known of the handler and its staging.
LEMMA HandlingKept == TypeOK /\ Handling /\ [Next]_vars => Handling'
<1> SUFFICES ASSUME TypeOK, Handling, [Next]_vars PROVE Handling'
  OBVIOUS
<1> USE BoundsAssumption DEF TypeOK, Handling, Awaiting, Working, input, files, work
<1>1. CASE Compute
  BY <1>1 DEF Compute, Step
<1>2. CASE Check
  BY <1>2 DEF Check, Step
<1>3. CASE Write
  BY <1>3 DEF Write, Step
<1>4. CASE Leave
  BY <1>4 DEF Leave, Step
<1>5. CASE Die
  BY <1>5 DEF Die, Step
<1>6. CASE Decide
  <2>1. FirstMissing \in Missing => FirstMissing \in Tools
    BY DEF Missing, Tools
  <2>2. "harmonic_test" \in Tools
    BY DEF Tools
  <2> QED BY <1>6, <2>1, <2>2, FirstIsMissing DEF Decide, Goes, Runs, Close, Invoke
<1>7. CASE GiveUp
  <2>1. pc' = "closed" /\ abandoned' /\ answer' = answer /\ running' = running
        /\ worker' \in {worker, "gone"} /\ (isolation = "SUBPROCESS" => worker' = "gone")
    BY <1>7 DEF GiveUp, Close
  <2>2. isolation' = isolation /\ isolation \in {"SUBPROCESS", "THREAD"}
    BY <1>7, IsolationsAssumption DEF GiveUp, Close
  <2> QED BY <2>1, <2>2
<1>8. CASE Receive
  BY <1>8 DEF Receive, Close
<1>9. CASE Promote
  BY <1>9 DEF Promote, Close
<1>10. CASE AppendEvidence
  BY <1>10 DEF AppendEvidence
<1>11. CASE Save
  BY <1>11 DEF Save
<1>12. CASE Resume
  BY <1>12 DEF Resume, Invoke
<1>13. CASE Crash
  BY <1>13 DEF Crash
<1>14. CASE UNCHANGED vars
  BY <1>14 DEF vars
<1> QED BY <1>1, <1>2, <1>3, <1>4, <1>5, <1>6, <1>7, <1>8, <1>9, <1>10, <1>11, <1>12, <1>13, <1>14 DEF Next, Worker, Controller

\* A missing tool has no record at all, or the run would have ended.
LEMMA MissingIsUnrecorded ==
  ASSUME TypeOK, ~FailedBy("FAILED"), ~FailedBy("PRECONDITION_FAILED")
  PROVE  \A t \in Missing : t \notin Recorded
<1> SUFFICES ASSUME NEW t \in Missing, NEW n \in Evidence, ledger[n].tool = t PROVE FALSE
  BY DEF Recorded
<1>1. ledger[n] \in Records
  BY DEF TypeOK, Evidence
<1>2. t \in Mandatory /\ ledger[n].status \notin {"SUCCESS", "NO_EVIDENCE"}
  BY DEF Missing, Completed
<1> QED BY <1>1, <1>2 DEF Records, Statuses, FailedBy

\* Records are the tools' answers, one each.
LEMMA AnsweredKept ==
  ASSUME TypeOK, Handling, Answered, [Next]_vars
  PROVE  Answered'
<1> USE DEF Handling, Awaiting, Working, input, files, work
<1> DEFINE Free == pc' \in Awaiting \cup {"append"} => prepared' \notin Recorded
<1>same. UNCHANGED <<ledger, star>> /\ Free => Answered'
  BY DEF Answered, Evidence, Recorded
<1>free. pc \in Awaiting \cup {"append"} => prepared \notin Recorded
  BY DEF Answered
<1>1. CASE Compute
  BY <1>1, <1>same, <1>free DEF Compute, Step
<1>2. CASE Check
  BY <1>2, <1>same, <1>free DEF Check, Step
<1>3. CASE Write
  BY <1>3, <1>same, <1>free DEF Write, Step
<1>4. CASE Leave
  BY <1>4, <1>same, <1>free DEF Leave, Step
<1>5. CASE Die
  BY <1>5, <1>same, <1>free DEF Die, Step
<1>6. CASE Decide
  <2>1. \A tool : Runs(tool) /\ tool \notin Recorded => Answered'
    BY <1>same DEF Runs, Invoke
  <2>2. \A how : Goes(how) => Answered'
    BY <1>same DEF Goes, Close
  <2> QED BY <1>6, <2>1, <2>2, MissingIsUnrecorded, FirstIsMissing DEF Decide
<1>7. CASE GiveUp
  BY <1>7, <1>same, <1>free DEF GiveUp, Close
<1>8. CASE Receive
  BY <1>8, <1>same, <1>free DEF Receive, Close
<1>9. CASE Promote
  BY <1>9, <1>same, <1>free DEF Promote, Close
<1>10. CASE AppendEvidence
  <2> DEFINE given == AnswerOf(prepared, star)
             record == [tool |-> prepared, status |-> given.status, code |-> given.code, by |-> library]
             k == Len(ledger) + 1
  <2>1. /\ ledger' = Append(ledger, record) /\ star' = star /\ pc' = "save"
        /\ prepared \notin Recorded
    BY <1>10, <1>free DEF AppendEvidence
  <2>2. record.tool = prepared /\ record.status = given.status /\ record.code = given.code
    OBVIOUS
  <2>3. ledger \in Seq(Records)
    BY DEF TypeOK
  <2> HIDE DEF record
  <2>4. DOMAIN ledger' = DOMAIN ledger \cup {k} /\ k \notin DOMAIN ledger /\ ledger'[k] = record
        /\ \A n \in DOMAIN ledger : ledger'[n] = ledger[n]
    BY <2>1, <2>3
  <2>5. \A n \in DOMAIN ledger : ledger[n].tool # record.tool
    BY <2>1, <2>2 DEF Recorded, Evidence
  <2> HIDE DEF given, k
  <2>6. \A n \in DOMAIN ledger' :
          LET answered == AnswerOf(ledger'[n].tool, star) IN
          ledger'[n].status = answered.status /\ ledger'[n].code = answered.code
    BY <2>2, <2>4 DEF Answered, Evidence, given
  <2>7. \A m, n \in DOMAIN ledger' : ledger'[m].tool = ledger'[n].tool => m = n
    BY <2>4, <2>5 DEF Answered, Evidence
  <2> QED BY <2>1, <2>6, <2>7 DEF Answered, Evidence
<1>11. CASE Save
  BY <1>11, <1>same, <1>free DEF Save
<1>12. CASE Resume
  BY <1>12, <1>same, <1>free DEF Resume, Invoke
<1>13. CASE Crash
  BY <1>13, <1>same, <1>free DEF Crash
<1>14. CASE UNCHANGED vars
  BY <1>14, <1>same, <1>free DEF vars
<1> QED BY <1>1, <1>2, <1>3, <1>4, <1>5, <1>6, <1>7, <1>8, <1>9, <1>10, <1>11, <1>12, <1>13, <1>14 DEF Next, Worker, Controller

\* The artifact is there before its evidence, and stays.
LEMMA BackedKept ==
  ASSUME TypeOK, Handling, Answered, Backed, [Next]_vars
  PROVE  Backed'
<1> USE BoundsAssumption DEF Handling, Awaiting, Working, input, files, work
<1> DEFINE Ready ==
      (/\ pc \in Awaiting /\ worker \in {"leaving", "gone"} /\ answer = "result"
       /\ running = Search /\ Searchable(star)) => staged = Artifact
    Out == pc = "append" /\ prepared = Search /\ Searchable(star) => durable = Artifact
<1>back. UNCHANGED <<ledger, durable>> => ArtifactBacksRecord'
  BY DEF Backed, ArtifactBacksRecord, Evidence
<1>kept. UNCHANGED <<ledger, durable>> /\ Ready' /\ Out' => Backed'
  BY <1>back DEF Backed
<1>now. Ready /\ Out
  BY DEF Backed
<1> USE DEF Artifact
<1>1. CASE Compute
  BY <1>1, <1>kept, <1>now DEF Compute, Step, WritesArtifact
<1>2. CASE Check
  BY <1>2, <1>kept, <1>now DEF Check, Step
<1>3. CASE Write
  BY <1>3, <1>kept, <1>now DEF Write, Step
<1>4. CASE Leave
  BY <1>4, <1>kept, <1>now DEF Leave, Step
<1>5. CASE Die
  <2>1. worker \in {"computing", "checking", "writing", "leaving"} /\ None # "result"
    BY <1>5 DEF Die, TypeOK
  <2> QED BY <1>5, <2>1, <1>kept, <1>now DEF Die, Step
<1>6. CASE Decide
  BY <1>6, <1>kept, <1>now DEF Decide, Goes, Runs, Close, Invoke
<1>7. CASE GiveUp
  BY <1>7, <1>kept, <1>now DEF GiveUp, Close
<1>8. CASE Receive
  BY <1>8, <1>kept, <1>now DEF Receive, Close
<1>9. CASE Promote
  <2>1. CASE staged # None /\ durable \notin {None, staged}
    BY <1>9, <2>1, <1>kept DEF Promote, Close
  <2>2. CASE ~(staged # None /\ durable \notin {None, staged})
    <3>1. /\ durable' = (IF staged # None THEN staged ELSE durable) /\ pc' = "append"
          /\ UNCHANGED <<star, ledger, prepared, library>>
      BY <1>9, <2>2 DEF Promote
    <3>2. \A v \in Nat : [whole |-> TRUE, by |-> v] # None
      <4>1. \A v \in Nat : [whole |-> TRUE, by |-> v] \in [whole : BOOLEAN, by : Nat]
        OBVIOUS
      <4> QED BY <4>1
    <3>3. library \in Nat
      BY DEF TypeOK, Versions
    <3>4. Out'
      BY <1>9, <1>now, <2>2, <3>1, <3>2, <3>3 DEF Promote
    <3>5. \A n \in Evidence : ledger[n].by \in Nat
      <4>1. \A n \in Evidence : ledger[n] \in Records
        BY DEF TypeOK, Evidence
      <4> QED BY <4>1 DEF Records, Versions
    <3>6. ArtifactBacksRecord'
      <4> SUFFICES ASSUME NEW n \in Evidence, ledger[n].tool = Search,
                          ledger[n].status \in {"SUCCESS", "NO_EVIDENCE"}
                   PROVE  durable' = [whole |-> TRUE, by |-> ledger[n].by]
        BY <3>1 DEF ArtifactBacksRecord, Evidence
      <4>1. durable = [whole |-> TRUE, by |-> ledger[n].by]
        BY DEF Backed, ArtifactBacksRecord
      <4>2. durable # None
        BY <4>1, <3>2, <3>5
      <4> QED BY <2>2, <3>1, <4>1, <4>2
    <3> QED BY <3>1, <3>4, <3>6 DEF Backed
  <2> QED BY <2>1, <2>2
<1>10. CASE AppendEvidence
  <2> DEFINE given == AnswerOf(prepared, star)
             record == [tool |-> prepared, status |-> given.status, code |-> given.code, by |-> library]
             k == Len(ledger) + 1
  <2>1. /\ ledger' = Append(ledger, record) /\ pc' = "save"
        /\ UNCHANGED <<star, durable>>
    BY <1>10 DEF AppendEvidence
  <2>2. record.tool = prepared /\ record.status = given.status /\ record.by = library
    OBVIOUS
  <2>3. ledger \in Seq(Records)
    BY DEF TypeOK
  <2>4. prepared = Search /\ given.status \in {"SUCCESS", "NO_EVIDENCE"} =>
          durable = [whole |-> TRUE, by |-> library]
    <3> SUFFICES ASSUME prepared = Search, given.status \in {"SUCCESS", "NO_EVIDENCE"}
                 PROVE  durable = [whole |-> TRUE, by |-> library]
      OBVIOUS
    <3>1. Searchable(star)
      BY EachAnswers, SearchMeans DEF Complete
    <3> QED BY <1>10, <3>1, <1>now DEF AppendEvidence
  <2> HIDE DEF record, given
  <2>5. DOMAIN ledger' = DOMAIN ledger \cup {k} /\ ledger'[k] = record
        /\ \A n \in DOMAIN ledger : ledger'[n] = ledger[n]
    BY <2>1, <2>3
  <2> HIDE DEF k
  <2>6. ArtifactBacksRecord'
    BY <2>1, <2>2, <2>4, <2>5 DEF Backed, ArtifactBacksRecord, Evidence
  <2> QED BY <2>1, <2>6 DEF Backed
<1>11. CASE Save
  BY <1>11, <1>kept, <1>now DEF Save
<1>12. CASE Resume
  BY <1>12, <1>kept, <1>now DEF Resume, Invoke
<1>13. CASE Crash
  BY <1>13, <1>kept, <1>now DEF Crash
<1>14. CASE UNCHANGED vars
  BY <1>14, <1>kept, <1>now DEF vars
<1> QED BY <1>1, <1>2, <1>3, <1>4, <1>5, <1>6, <1>7, <1>8, <1>9, <1>10, <1>11, <1>12, <1>13, <1>14 DEF Next, Worker, Controller

\* Staging is cleared by whoever ends the run, or later by its thread.
LEMMA ClearedKept ==
  ASSUME TypeOK, Handling, Answered, Cleared, [Next]_vars
  PROVE  Cleared'
<1> USE BoundsAssumption DEF Handling, Awaiting, Working, Cleared, StagingIsCleared, input, files, work
<1>unrecorded. pc \in Awaiting \cup {"append"} => prepared \notin Recorded
  BY DEF Answered
<1>recorded. ledger' = ledger => Recorded' = Recorded
  BY DEF Recorded, Evidence
<1>isolation. /\ isolation \in {"SUBPROCESS", "THREAD"}
               /\ pc \in {"next", "waiting", "promote", "append", "save", "closed", "down"}
  BY IsolationsAssumption DEF TypeOK
<1>1. CASE Compute
  BY <1>1, <1>unrecorded, <1>recorded, <1>isolation DEF Compute, Step
<1>2. CASE Check
  BY <1>2, <1>unrecorded, <1>recorded, <1>isolation DEF Check, Step
<1>3. CASE Write
  BY <1>3, <1>unrecorded, <1>recorded, <1>isolation DEF Write, Step
<1>4. CASE Leave
  BY <1>4, <1>unrecorded, <1>recorded, <1>isolation DEF Leave, Step
<1>5. CASE Die
  BY <1>5, <1>unrecorded, <1>recorded, <1>isolation DEF Die, Step
<1>6. CASE Decide
  BY <1>6, <1>unrecorded, <1>recorded, <1>isolation DEF Decide, Goes, Runs, Close, Invoke
<1>7. CASE GiveUp
  BY <1>7, <1>unrecorded, <1>recorded, <1>isolation DEF GiveUp, Close
<1>8. CASE Receive
  BY <1>8, <1>unrecorded, <1>recorded, <1>isolation DEF Receive, Close
<1>9. CASE Promote
  BY <1>9, <1>unrecorded, <1>recorded, <1>isolation DEF Promote, Close
<1>10. CASE AppendEvidence
  BY <1>10, <1>unrecorded, <1>recorded, <1>isolation DEF AppendEvidence
<1>11. CASE Save
  BY <1>11, <1>unrecorded, <1>recorded, <1>isolation DEF Save
<1>12. CASE Resume
  BY <1>12, <1>unrecorded, <1>recorded, <1>isolation DEF Resume, Invoke
<1>13. CASE Crash
  BY <1>13, <1>unrecorded, <1>recorded, <1>isolation DEF Crash
<1>14. CASE UNCHANGED vars
  BY <1>14, <1>unrecorded, <1>recorded, <1>isolation DEF vars
<1> QED BY <1>1, <1>2, <1>3, <1>4, <1>5, <1>6, <1>7, <1>8, <1>9, <1>10, <1>11, <1>12, <1>13, <1>14 DEF Next, Worker, Controller

\* A run is closed with what its ledger says, and that is what the star says.
LEMMA JudgedKept ==
  ASSUME TypeOK, Answered, Judged, [Next]_vars
  PROVE  Judged'
<1>same. UNCHANGED <<star, outcome>> => Judged'
  BY DEF Judged
<1>failed. outcome' = "failed" => Judged'
  BY DEF Judged
<1>sky. star \in Sky
  BY DEF TypeOK
<1>records. \A n \in Evidence : /\ ledger[n].status = AnswerOf(ledger[n].tool, star).status
                                /\ ledger[n].code = AnswerOf(ledger[n].tool, star).code
                                /\ ledger[n].tool \in Tools
  <2>1. \A n \in Evidence : ledger[n] \in Records
    BY DEF TypeOK, Evidence
  <2> QED BY <2>1 DEF Answered, Records
<1>completed. \A t \in Completed : AnswerOf(t, star).status \in Complete
  BY <1>records DEF Completed, Complete
<1>coded. \A t \in Completed : AnswerOf(t, star).code # None => AnswerOf(t, star).code \in CodesOf
  BY <1>records DEF Completed, CodesOf
<1> DEFINE Lacking == \/ ~Searchable(star) \/ ~Candidate(star) \/ OddEven(star) = Unmet
                      \/ star.secondary = None \/ star.crowding = None
<1>insufficient. Lacking /\ outcome' = "insufficient" /\ star' = star => Judged'
  BY DEF Judged
<1>1. CASE Decide
  <2>1. CASE FailedBy("FAILED")
    BY <1>1, <2>1, <1>failed DEF Decide, Goes, Close
  <2>2. CASE ~FailedBy("FAILED") /\ FailedBy("PRECONDITION_FAILED")
    <3>1. Lacking
      BY <2>2, <1>records, <1>sky, UnmetMeans DEF FailedBy
    <3> QED BY <1>1, <2>2, <3>1, <1>insufficient DEF Decide, Goes, Close, input
  <2>3. CASE ~FailedBy("FAILED") /\ ~FailedBy("PRECONDITION_FAILED") /\ Missing # {}
    <3>1. CASE FirstMissing = Search \/ Found
      BY <1>1, <2>3, <3>1, <1>same DEF Decide, Runs, Invoke, input
    <3>2. CASE ~(FirstMissing = Search \/ Found)
      <4>1. Search \in Completed
        BY <2>3, <3>2, FirstIsMissing DEF Missing, Mandatory
      <4>2. PICK n \in Evidence : ledger[n].tool = Search /\ ledger[n].status \in Complete
        BY <4>1 DEF Completed, Complete
      <4>3. ledger[n].status # "SUCCESS" /\ ledger[n].status = SearchAnswer(star).status
        BY <3>2, <4>2, <1>records, EachAnswers DEF Found
      <4>4. ~Candidate(star)
        BY <4>2, <4>3, SearchMeans
      <4> QED BY <1>1, <2>3, <3>2, <4>4, <1>insufficient DEF Decide, Goes, Close, input
    <3> QED BY <3>1, <3>2
  <2>4. CASE ~FailedBy("FAILED") /\ ~FailedBy("PRECONDITION_FAILED") /\ Missing = {}
    <3>1. Mandatory \subseteq Completed
      BY <2>4 DEF Missing
    <3>2. /\ OddEven(star).status \in Complete
          /\ SecondaryEclipse(star).status \in Complete
          /\ Contamination(star).status \in Complete
      BY <3>1, <1>completed, EachAnswers DEF Mandatory
    <3>3. /\ "ODD_EVEN_MISMATCH" \in CodesOf <=> OddEven(star).code = "ODD_EVEN_MISMATCH"
      <4>1. ASSUME "ODD_EVEN_MISMATCH" \in CodesOf PROVE OddEven(star).code = "ODD_EVEN_MISMATCH"
        <5>1. PICK n \in Evidence : ledger[n].code = "ODD_EVEN_MISMATCH"
          BY <4>1 DEF CodesOf
        <5>2. ledger[n].tool = "odd_even"
          BY <5>1, <1>records, MismatchIsOddEven
        <5> QED BY <5>1, <5>2, <1>records, EachAnswers
      <4>2. ASSUME OddEven(star).code = "ODD_EVEN_MISMATCH" PROVE "ODD_EVEN_MISMATCH" \in CodesOf
        BY <4>2, <3>1, <1>coded, EachAnswers, BoundsAssumption DEF Mandatory, Codes
      <4> QED BY <4>1, <4>2
    <3>4. /\ Candidate(star)
          /\ Cardinality(Odd(star.transits)) \in 2..(Cardinality(star.transits) - 2)
          /\ "ODD_EVEN_MISMATCH" \in CodesOf => star.mismatch >= 3
          /\ "ODD_EVEN_MISMATCH" \notin CodesOf => star.mismatch < 3
          /\ star.secondary # None /\ star.crowding # None
      <4>1. star.mismatch \in Nat
        BY <1>sky, SkyAssumption DEF Stars
      <4> QED BY <4>1, <1>sky, <3>2, <3>3, OddEvenMeans, SecondaryMeans, ContaminationMeans
    <3>5. CodesOf \cap {"SECONDARY_ECLIPSE_DETECTED", "CONTAMINATION_POSSIBLE"} = {} =>
            star.secondary < 5 /\ star.crowding < star.depth
      <4>1. SecondaryEclipse(star).code \in CodesOf \cup {None} /\ Contamination(star).code \in CodesOf \cup {None}
        BY <3>1, <1>coded, EachAnswers DEF Mandatory
      <4> QED BY <4>1, <1>sky, <3>2, SecondaryMeans, ContaminationMeans, BoundsAssumption DEF Codes
    <3>6. ASSUME Goes(DispositionOf(CodesOf, Found)) PROVE Judged'
      <4> DEFINE D == DispositionOf(CodesOf, Found)
      <4>1. /\ D = "REJECTED" => "ODD_EVEN_MISMATCH" \in CodesOf
            /\ D \in {"WEAK", "SURVIVES"} => "ODD_EVEN_MISMATCH" \notin CodesOf
            /\ D = "SURVIVES" => CodesOf \cap {"SECONDARY_ECLIPSE_DETECTED", "CONTAMINATION_POSSIBLE"} = {}
            /\ D # "insufficient"
        BY BoundsAssumption DEF DispositionOf
      <4>2. outcome' = D /\ star' = star
        BY <3>6 DEF Goes, Close, input
      <4> HIDE DEF D
      <4> QED BY <4>1, <4>2, <3>4, <3>5 DEF Judged
    <3>7. ASSUME Runs("harmonic_test") PROVE Judged'
      BY <3>7, <1>same DEF Runs, Invoke, input
    <3> QED BY <1>1, <2>4, <3>6, <3>7 DEF Decide
  <2> QED BY <2>1, <2>2, <2>3, <2>4
<1>2. CASE Worker
  BY <1>2, <1>same DEF Worker, Compute, Check, Write, Leave, Die, Step, input
<1>3. CASE GiveUp \/ Receive \/ Promote
  BY <1>3, <1>same, <1>failed DEF GiveUp, Receive, Promote, Close, input
<1>4. CASE AppendEvidence \/ Save \/ Resume \/ Crash \/ UNCHANGED vars
  BY <1>4, <1>same DEF AppendEvidence, Save, Resume, Crash, vars, input
<1> QED BY <1>1, <1>2, <1>3, <1>4 DEF Next, Controller

-----------------------------------------------------------------------------
(* The theorems.                                                           *)

\* Whatever hangs, dies, answers late or is repeated, in any order.
THEOREM Invariance == Spec => []IInv
<1>1. ASSUME Init PROVE IInv
  <2> USE <1>1, BoundsAssumption DEF Init
  <2>1. ledger \in Seq(Records) /\ Evidence = {} /\ Recorded = {}
    BY DEF Evidence, Recorded
  <2>2. TypeOK
    <3>1. library \in Versions /\ crashes \in 0..MaxCrashes
      BY DEF Versions
    <3>2. abandoned \in BOOLEAN
      OBVIOUS
    <3> QED BY <2>1, <3>1, <3>2 DEF TypeOK, Outcomes
  <2>3. Handling /\ Cleared
    BY DEF Handling, Awaiting, Working, Cleared, StagingIsCleared
  <2>4. Answered /\ Backed
    BY <2>1 DEF Answered, Backed, ArtifactBacksRecord, Awaiting
  <2>5. Judged
    BY DEF Judged
  <2> QED BY <2>2, <2>3, <2>4, <2>5 DEF IInv
<1>2. IInv /\ [Next]_vars => IInv'
  BY TypesKept, HandlingKept, AnsweredKept, BackedKept, ClearedKept, JudgedKept DEF IInv
<1> QED BY <1>1, <1>2, PTL DEF Spec

\* Every variable keeps its type: TypeOK.
THEOREM TypeCorrect == Spec => []TypeOK
<1>1. IInv => TypeOK
  BY DEF IInv
<1> QED BY <1>1, Invariance, PTL

\* The verdict is the star's and no tool has two records: VerdictFollowsStar.
THEOREM Verdict_FollowsStar == Spec => []VerdictFollowsStar
<1>1. IInv => VerdictFollowsStar
  BY DEF IInv, Answered, Judged, VerdictFollowsStar
<1> QED BY <1>1, Invariance, PTL

\* Staging is empty once a closed run's worker is gone: StagingIsCleared.
THEOREM Staging_IsCleared == Spec => []StagingIsCleared
<1>1. IInv => StagingIsCleared
  BY DEF IInv, Cleared
<1> QED BY <1>1, Invariance, PTL

\* Evidence is backed by its artifact and a closed run is still:
\* EvidenceStands.
THEOREM Evidence_Stands == Spec => EvidenceStands
<1>1. IInv => ArtifactBacksRecord
  BY DEF IInv, Backed
<1>2. IInv /\ [Next]_vars => [pc = "closed" => UNCHANGED <<ledger, durable, outcome>>]_vars
  <2> SUFFICES ASSUME IInv, [Next]_vars, pc = "closed"
               PROVE  UNCHANGED <<ledger, durable, outcome>>
    OBVIOUS
  <2>1. CASE Worker
    BY <2>1 DEF Worker, Compute, Check, Write, Leave, Die, Step, files
  <2>2. ~Controller /\ ~Crash
    BY DEF Controller, Decide, GiveUp, Receive, Promote, AppendEvidence, Save, Resume, Crash
  <2>3. CASE UNCHANGED vars
    BY <2>3 DEF vars, files
  <2> QED BY <2>1, <2>2, <2>3 DEF Next
<1>3. ArtifactBacksRecord' /\ [pc = "closed" => UNCHANGED <<ledger, durable, outcome>>]_vars
      => [KeepsEvidence]_vars
  BY DEF KeepsEvidence
<1> QED BY <1>1, <1>2, <1>3, Invariance, PTL DEF Spec, EvidenceStands
-----------------------------------------------------------------------------
(* Effort: what is left to do of a run.  The tools without a record weigh  *)
(* more than the stages of one tool, the crashes to come more than all the *)
(* stages they can undo, and the worker goes its own way to its end.       *)

Toil == CASE worker = "computing" -> 4
          [] worker = "checking" -> 3
          [] worker = "writing" -> 2
          [] worker = "leaving" -> 1
          [] OTHER -> 0
Stage == CASE pc = "down" -> 5
           [] pc = "save" -> 4
           [] pc = "next" -> 3
           [] pc = "waiting" -> 2
           [] pc = "promote" -> 1
           [] OTHER -> 0
Unmeasured == Cardinality(Tools \ Recorded)
Effort == Toil + 5 * (Stage + 5 * Unmeasured + 6 * (MaxCrashes - crashes))

\* What is used within a bound leaves no debt.
LEMMA NoDebt ==
  ASSUME NEW bound \in Nat, NEW used \in 0..bound
  PROVE  bound - used \in Nat
OBVIOUS

\* There are five tools.
LEMMA ToolsAreFinite == IsFiniteSet(Tools)
<1>1. IsFiniteSet({}) /\ Tools = ((((({} \cup {"search_bls"}) \cup {"odd_even"}) \cup
        {"secondary_eclipse"}) \cup {"contamination_screening"}) \cup {"harmonic_test"})
  BY FS_EmptySet DEF Tools, Mandatory, Search
<1> QED BY <1>1, FS_AddElement

\* What is left of a measurement, of a worker and of the crashes is a number.
LEMMA EffortTypes ==
  ASSUME TypeOK
  PROVE  /\ Toil \in 0..4 /\ Stage \in 0..5 /\ MaxCrashes - crashes \in Nat
         /\ Unmeasured \in Nat /\ Effort \in Nat
<1>1. Toil \in 0..4 /\ Stage \in 0..5
  BY DEF Toil, Stage
<1>2. MaxCrashes - crashes \in Nat
  BY BoundsAssumption DEF TypeOK
<1>3. Unmeasured \in Nat
  BY ToolsAreFinite, FS_Difference, FS_CardinalityType DEF Unmeasured
<1> QED BY <1>1, <1>2, <1>3 DEF Effort

\* The same after a step.
LEMMA EffortTypesNext ==
  ASSUME TypeOK'
  PROVE  /\ Toil' \in 0..4 /\ Stage' \in 0..5 /\ MaxCrashes - crashes' \in Nat
         /\ Unmeasured' \in Nat
<1>1. Toil' \in 0..4 /\ Stage' \in 0..5
  BY DEF Toil, Stage
<1>2. MaxCrashes - crashes' \in Nat
  <2>1. MaxCrashes \in Nat
    BY BoundsAssumption
  <2>2. crashes' \in 0..MaxCrashes
    BY DEF TypeOK
  <2> QED BY <2>1, <2>2, NoDebt
<1>3. Unmeasured' \in Nat
  BY ToolsAreFinite, FS_Difference, FS_CardinalityType DEF Unmeasured
<1> QED BY <1>1, <1>2, <1>3

\* A record leaves one tool less to measure.
LEMMA MeasuringCounts ==
  ASSUME IInv, AppendEvidence
  PROVE  Unmeasured' = Unmeasured - 1
<1> USE DEF IInv
<1>1. prepared \in Tools \ Recorded
  BY DEF TypeOK, AppendEvidence, Handling, Answered, Awaiting
<1>2. Recorded' = Recorded \cup {prepared}
  <2> DEFINE r == [tool |-> prepared, status |-> AnswerOf(prepared, star).status,
                   code |-> AnswerOf(prepared, star).code, by |-> library]
  <2>1. ledger \in Seq(Records) /\ ledger' = Append(ledger, r) /\ r.tool = prepared
    BY DEF TypeOK, AppendEvidence
  <2> HIDE DEF r
  <2>2. /\ Len(ledger) \in Nat /\ Evidence = 1..Len(ledger) /\ Evidence' = 1..(Len(ledger) + 1)
        /\ ledger'[Len(ledger) + 1] = r /\ \A n \in Evidence : ledger'[n] = ledger[n]
    BY <2>1 DEF Evidence
  <2>3. Evidence' = Evidence \cup {Len(ledger) + 1}
    BY <2>2
  <2> HIDE DEF Evidence
  <2> QED BY <2>1, <2>2, <2>3 DEF Recorded
<1>3. (Tools \ Recorded)' = (Tools \ Recorded) \ {prepared}
  BY <1>2
<1> QED BY <1>1, <1>3, ToolsAreFinite, FS_Difference, FS_RemoveElement DEF Unmeasured

\* Nobody else takes a record away or forgets a crash.
LEMMA EffortDrops ==
  ASSUME IInv, TypeOK', Next
  PROVE  Effort' < Effort
<1>1. /\ Toil \in 0..4 /\ Stage \in 0..5 /\ MaxCrashes - crashes \in Nat /\ Unmeasured \in Nat
      /\ Toil' \in 0..4 /\ Stage' \in 0..5 /\ MaxCrashes - crashes' \in Nat /\ Unmeasured' \in Nat
  BY EffortTypes, EffortTypesNext DEF IInv
<1> DEFINE left == MaxCrashes - crashes
<1>2. ledger' = ledger => Unmeasured' = Unmeasured
  BY DEF Unmeasured, Recorded, Evidence
<1>3. ASSUME left' = left, Unmeasured' = Unmeasured, Stage' = Stage, Toil' < Toil
      PROVE  Effort' < Effort
  BY <1>1, <1>3 DEF Effort
<1>4. ASSUME left' = left, Unmeasured' = Unmeasured, Stage' < Stage
      PROVE  Effort' < Effort
  BY <1>1, <1>4 DEF Effort
<1>5. CASE Worker
  <2>1. left' = left /\ Unmeasured' = Unmeasured /\ Stage' = Stage
    BY <1>2, <1>5 DEF Worker, Compute, Check, Write, Leave, Die, Step, Stage
  <2>2. Toil' < Toil
    <3>1. TypeOK
      BY DEF IInv
    <3> QED BY <1>5, <3>1 DEF Worker, Compute, Check, Write, Leave, Die, Step, Toil, Working, TypeOK
  <2> QED BY <1>3, <2>1, <2>2
<1>6. CASE Decide \/ GiveUp \/ Receive \/ Promote \/ Save \/ Resume
  <2>1. left' = left /\ Unmeasured' = Unmeasured
    BY <1>2, <1>6 DEF Decide, Goes, Runs, Invoke, Close, GiveUp, Receive, Promote, Save, Resume
  <2>2. Stage' < Stage
    BY <1>6 DEF Decide, Goes, Runs, Invoke, Close, GiveUp, Receive, Promote, Save, Resume, Stage
  <2> QED BY <1>4, <2>1, <2>2
<1>7. CASE AppendEvidence
  <2>1. /\ left' = left /\ Stage = 0 /\ Stage' = 4 /\ Toil' = Toil
        /\ Unmeasured' = Unmeasured - 1
    BY <1>7, MeasuringCounts DEF AppendEvidence, Stage, Toil, work
  <2> QED BY <1>1, <2>1 DEF Effort
<1>8. CASE Crash
  <2>1. left' = left - 1 /\ Unmeasured' = Unmeasured /\ Toil' = 0
    BY <1>2, <1>8, BoundsAssumption DEF Crash, Toil, IInv, TypeOK
  <2> QED BY <1>1, <2>1 DEF Effort
<1> QED BY <1>5, <1>6, <1>7, <1>8 DEF Next, Controller

\* Whatever hangs, dies or is repeated, every step brings the run and its
\* worker nearer to their end: _drive cannot go round in circles, for any star,
\* any number of crashes and any number of library versions.
THEOREM EveryStep_Counts == Spec => [][Effort' < Effort]_vars /\ [](Effort \in Nat)
<1>1. IInv => Effort \in Nat
  BY EffortTypes DEF IInv
<1>2. IInv /\ IInv' /\ [Next]_vars => [Effort' < Effort]_vars
  BY EffortDrops DEF IInv
<1> QED BY <1>1, <1>2, Invariance, PTL DEF Spec
=============================================================================
