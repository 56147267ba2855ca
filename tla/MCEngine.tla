------------------------------ MODULE MCEngine ------------------------------
(* Model-checking instances of Engine. *)
EXTENDS EngineInvariants
=============================================================================
