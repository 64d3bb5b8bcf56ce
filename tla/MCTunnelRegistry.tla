-------------------------- MODULE MCTunnelRegistry --------------------------
(* Small instances of TunnelRegistry for TLC. *)
EXTENDS TunnelRegistry
=============================================================================
