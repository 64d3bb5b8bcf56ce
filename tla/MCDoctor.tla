------------------------------ MODULE MCDoctor ------------------------------
(* The doctor over every world with a few things wrong in it.              *)
EXTENDS Doctor
=============================================================================
