--------------------------- MODULE BlindProtocol ---------------------------
(***************************************************************************)
(* What locking and revealing promise, whatever files, processes and locks *)
(* do it: one result is sealed, only then is the ground truth looked up,   *)
(* it answers for exactly the sealed result, and nothing is ever taken     *)
(* back.                                                                   *)
(***************************************************************************)
CONSTANTS Result, None     \* the byte strings that may be locked; none of them

VARIABLES sealed,      \* the result the run answers with
          truth,       \* the result that the ground truth was looked up for
          published    \* whether the comparison is public

vars == <<sealed, truth, published>>

Init == sealed = None /\ truth = None /\ published = FALSE

Seal == sealed = None /\ sealed' \in Result /\ UNCHANGED <<truth, published>>
LookUp == sealed # None /\ truth = None /\ truth' = sealed /\ UNCHANGED <<sealed, published>>
Publish == truth # None /\ ~published /\ published' = TRUE /\ UNCHANGED <<sealed, truth>>

Next == Seal \/ LookUp \/ Publish
Spec == Init /\ [][Next]_vars
=============================================================================
