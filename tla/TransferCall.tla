---------------------------- MODULE TransferCall ----------------------------
(***************************************************************************)
(* One call of sftp_upload_parallel or sftp_download_parallel as the queue *)
(* sees it: it can be cancelled only between the registration of its flag  *)
(* and its return, it may succeed in spite of the flag, and once it has    *)
(* returned it stays returned.                                             *)
(***************************************************************************)
VARIABLES
    phase,  \* "none", "setup", "copy" (its flag is registered), "ok", "err"
    flag    \* its cancellation flag

Returned == phase \in {"ok", "err"}

Init == phase = "setup" /\ flag = FALSE

\* A retry runs the same transfer again.
Start ==
    /\ phase = "none" \/ Returned
    /\ phase' = "setup"
    /\ flag' = FALSE

Register ==
    /\ phase = "setup"
    /\ phase' = "copy"
    /\ flag' = FALSE

\* The flag is set by a cancellation, or by a worker for its siblings.
Trip ==
    /\ phase = "copy"
    /\ flag' = TRUE
    /\ UNCHANGED phase

Succeed ==
    /\ phase = "copy"
    /\ phase' = "ok"
    /\ flag' = FALSE

Fail ==
    /\ phase \in {"setup", "copy"}
    /\ phase' = "err"
    /\ flag' = FALSE

Next == Register \/ Trip \/ Succeed \/ Fail

Spec == Init /\ [][Next]_<<phase, flag>>
=============================================================================
