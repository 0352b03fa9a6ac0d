----------------------------- MODULE MCValidators -----------------------------
(* Values of the constants of Validators that a configuration cannot write.  *)
EXTENDS Validators

\* Four validators, three of them at the floor or one step above it.
MCGenesis == <<12, 2, 1, 1>>
=============================================================================
