------------------------------ MODULE MCFixRun ------------------------------
(* FixRun on a few files. *)
EXTENDS FixRun
=============================================================================
