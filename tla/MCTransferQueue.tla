-------------------------- MODULE MCTransferQueue --------------------------
(* Small instances of TransferQueue for TLC. *)
EXTENDS TransferQueue
=============================================================================
