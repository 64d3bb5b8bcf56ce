------------------------------- MODULE MCMounts -------------------------------
(* Small instances of Mounts for TLC. *)
EXTENDS Mounts

CONSTANTS home, etc

\* A directory of the user's, and one of the system's that a mount must refuse.
HomeAndSystem == [p \in Places |-> IF p = etc THEN "system" ELSE "home"]
Sshfs == {"sshfs", "/dev/fuse", "fusermount"}
=============================================================================
