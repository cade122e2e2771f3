---------------------------- MODULE MCResultLock ----------------------------
(* The driver's process with two API threads, and another one with one thread. *)
EXTENDS ResultLock

CONSTANTS p1, p2, c1, c2, c3

TwoProcesses == {p1, p2}
ThreeCallers == {c1, c2, c3}
Spread == [c \in ThreeCallers |-> IF c = c3 THEN p2 ELSE p1]
=============================================================================
