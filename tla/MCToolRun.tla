------------------------------ MODULE MCToolRun ------------------------------
(* Stars that differ from a clean planet in one or two measurements, on both
   sides of each threshold. *)
EXTENDS ToolRun

Planet == [source |-> "fit", clean |-> TRUE, baseline |-> 12, period |-> 3, depth |-> 2,
  snr |-> 6, transits |-> 0..3, trials |-> "finite", mismatch |-> 2, secondary |-> 4,
  crowding |-> 1, half |-> 6, double |-> 6]
Unusual ==
  {[Planet EXCEPT !.source = s] : s \in {"absent", "unreadable", "unfit"}}
  \cup {[Planet EXCEPT !.clean = FALSE], [Planet EXCEPT !.baseline = 3],
        [Planet EXCEPT !.snr = 5], [Planet EXCEPT !.depth = 0],
        [Planet EXCEPT !.trials = "mixed"], [Planet EXCEPT !.trials = "none"]}
  \cup {[Planet EXCEPT !.transits = t] : t \in {{0, 1}, 0..2, {0, 1, 3, 5}, {0, 2, 4, 6}}}
  \cup {[Planet EXCEPT !.crowding = None], [Planet EXCEPT !.secondary = None]}
MCSky ==
  Unusual
  \cup {[Planet EXCEPT !.mismatch = m, !.secondary = s, !.crowding = c, !.half = h, !.double = d] :
          m \in {2, 3}, s \in {4, 5}, c \in {1, 2}, h \in {6, 7}, d \in {6, 7}}
=============================================================================
