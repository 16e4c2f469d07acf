------------------------------ MODULE MCInputs ------------------------------
(* Inputs on a small instance.                                             *)
EXTENDS Inputs
=============================================================================
