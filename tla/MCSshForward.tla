-------------------------- MODULE MCSshForward --------------------------
(* Small instances of SshForward for TLC. *)
EXTENDS SshForward
=============================================================================
