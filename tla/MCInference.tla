---------------------------- MODULE MCInference ----------------------------
(* Limits of the checked instances: two calls per advisory role, as in the
   registered prompts. *)
EXTENDS Inference

TwoCalls == [r \in Advisory |-> 2]
AllRoles == Advisory
\* A client without a script for the FINAL phase of the Director.
SomeRoles == Advisory \ {"final"}
=============================================================================
