-------------------------- MODULE MCSftpTransfer --------------------------
(* Small instances of SftpTransfer for TLC. *)
EXTENDS SftpTransfer
=============================================================================
