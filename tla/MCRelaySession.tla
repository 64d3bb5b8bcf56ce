--------------------------- MODULE MCRelaySession ---------------------------
(* RelaySession for model checking, with the mutants its runs must catch.  *)
EXTENDS RelaySession
=============================================================================
