-------------------------- MODULE MCInstanceAccess --------------------------
(* Small instances of InstanceAccess for TLC. *)
EXTENDS InstanceAccess
=============================================================================
