------------------------------- MODULE Science -------------------------------
(***************************************************************************)
(* What each scientific tool answers, as a function of the star: the       *)
(* checks of the deterministic tools in their order, on measurements that  *)
(* stand for the curve.  How a tool is run, interrupted and repeated is in *)
(* ToolRun.  Times are in half days, the shortest period that is searched. *)
(***************************************************************************)
EXTENDS Naturals, FiniteSets

CONSTANT None

Search == "search_bls"
Mandatory == {Search, "odd_even", "secondary_eclipse", "contamination_screening"}
Tools == Mandatory \cup {"harmonic_test"}
Order(tool) ==
  CASE tool = Search -> 10 [] tool = "odd_even" -> 20 [] tool = "secondary_eclipse" -> 30
    [] tool = "contamination_screening" -> 40 [] OTHER -> 50
Codes == {"ODD_EVEN_MISMATCH", "ODD_EVEN_CONSISTENT", "SECONDARY_ECLIPSE_DETECTED",
  "NO_SECONDARY_ECLIPSE", "CONTAMINATION_POSSIBLE", "NO_CONTAMINATION_CAPACITY",
  "HARMONIC_ALIAS_PREFERRED", "CANDIDATE_PERIOD_PREFERRED"}
Statuses == {"SUCCESS", "NO_EVIDENCE", "PRECONDITION_FAILED", "FAILED"}
Results == [status : Statuses, code : Codes \cup {None}]

\* source   the cached file, as far as its contract goes
\* clean    enough usable cadences are left, in order, around a finite trend
\* baseline, period, depth, snr, transits   of the best box; the transits by number
\* trials   whether every trial of the periodogram is a finite number
\* mismatch, secondary   significance of the depth difference, of the best box
\*                       outside the primary, None if no box holds three samples
\* crowding   foreign light in the aperture, in units of depth, None if unknown
\* half, double   the statistic at half and at twice the period
Stars == [source : {"absent", "unreadable", "unfit", "fit"}, clean : BOOLEAN,
  baseline : Nat, period : Nat \ {0}, depth : Nat, snr : Nat, transits : SUBSET Nat,
  trials : {"finite", "mixed", "none"}, mismatch : Nat, secondary : Nat \cup {None},
  crowding : Nat \cup {None}, half : Nat, double : Nat]

Answer(status, code) == [status |-> status, code |-> code]
Unmet == Answer("PRECONDITION_FAILED", None)
Verdict(found, yes, no) == IF found THEN Answer("SUCCESS", yes) ELSE Answer("NO_EVIDENCE", no)

\* load_cached_tess_fits, preprocess_lightcurve and the checks of the search:
\* at least three transits fit into the baseline at the shortest period.
Readable(star) == star.source \notin {"absent", "unreadable"}
Searchable(star) ==
  Readable(star) /\ star.source = "fit" /\ star.clean /\ star.baseline > 3
Candidate(star) ==
  /\ star.trials # "none" /\ star.snr >= 6 /\ star.depth > 0
  /\ Cardinality(star.transits) >= 3
SearchAnswer(star) ==
  IF ~Readable(star) THEN Answer("FAILED", None)
  ELSE IF ~Searchable(star) THEN Unmet
  ELSE Verdict(Candidate(star), None, None)
\* The artifact holds the whole periodogram and is written without NaN or
\* infinity: one trial that is not finite makes the search raise, with or
\* without a candidate.
SearchRaises(star) == Searchable(star) /\ star.trials # "finite"
WritesArtifact(star) == Searchable(star)

\* load_candidate_artifact refuses an artifact without a candidate.
Odd(transits) == {n \in transits : n % 2 = 1}
\* Mutant: the parities are not counted apart.
OddEvenAnyParity(star) ==
  IF ~Candidate(star) \/ Cardinality(star.transits) < 4 THEN Unmet
  ELSE Verdict(star.mismatch > 3, "ODD_EVEN_MISMATCH", "ODD_EVEN_CONSISTENT")
OddEven(star) ==
  IF \/ ~Candidate(star) \/ Cardinality(star.transits) < 4
     \/ Cardinality(Odd(star.transits)) < 2
     \/ Cardinality(star.transits \ Odd(star.transits)) < 2 THEN Unmet
  ELSE Verdict(star.mismatch >= 3, "ODD_EVEN_MISMATCH", "ODD_EVEN_CONSISTENT")
SecondaryEclipse(star) ==
  IF ~Candidate(star) \/ star.baseline < 2 * star.period \/ star.secondary = None THEN Unmet
  ELSE Verdict(star.secondary >= 5, "SECONDARY_ECLIPSE_DETECTED", "NO_SECONDARY_ECLIPSE")
\* No neighbours are supplied: the aggregate crowding of the product decides.
Contamination(star) ==
  IF ~Candidate(star) \/ star.depth = 0 \/ star.crowding = None THEN Unmet
  ELSE Verdict(star.crowding >= star.depth, "CONTAMINATION_POSSIBLE",
               "NO_CONTAMINATION_CAPACITY")
Harmonic(star) ==
  IF ~Candidate(star) \/ star.baseline < 2 * star.period THEN Unmet
  ELSE Verdict(star.half >= star.snr + 1 \/ star.double >= star.snr + 1,
               "HARMONIC_ALIAS_PREFERRED", "CANDIDATE_PERIOD_PREFERRED")

AnswerOf(tool, star) ==
  CASE tool = Search -> SearchAnswer(star)
    [] tool = "odd_even" -> OddEven(star)
    [] tool = "secondary_eclipse" -> SecondaryEclipse(star)
    [] tool = "contamination_screening" -> Contamination(star)
    [] OTHER -> Harmonic(star)

\* The disposition that a ledger's codes and a candidate lead to.
DispositionOf(codes, candidate) ==
  IF "ODD_EVEN_MISMATCH" \in codes THEN "REJECTED"
  ELSE IF codes \cap {"SECONDARY_ECLIPSE_DETECTED", "CONTAMINATION_POSSIBLE",
                      "HARMONIC_ALIAS_PREFERRED"} # {} THEN "WEAK"
  ELSE IF candidate THEN "SURVIVES" ELSE None
=============================================================================
