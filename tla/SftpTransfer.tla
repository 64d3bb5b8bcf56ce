---------------------------- MODULE SftpTransfer ----------------------------
(***************************************************************************)
(* One transfer of native/src/sftp.rs: sftp_upload_file_parallel or        *)
(* sftp_download_file_parallel, with the single-connection path both fall  *)
(* back to.                                                                *)
(*                                                                         *)
(* The coordinator sizes the destination, registers the cancellation flag  *)
(* and gives each worker thread a range of the file and a connection of    *)
(* its own.  The workers share the flag and the count of those that are    *)
(* still at it; when it reaches zero the coordinator joins them, looks for *)
(* an error, verifies and returns.  The file is counted in units of one    *)
(* buffer.                                                                 *)
(***************************************************************************)
EXTENDS Integers, FiniteSets

CONSTANTS
    Size,     \* units in the file
    Workers   \* K, after its clamp

\* PARALLEL_MIN_SIZE is far more units than the most workers.
ASSUME SizeAssumption == Workers \in Nat \ {0} /\ Size \in Nat /\ Workers <= Size

VARIABLES
    dir,        \* "up" or "down"
    source,     \* units the source file still has
    pc,         \* the call: "setup", "single", "parallel", "ok", "err"
    dest,       \* the destination file: "before", "created" or "removed"
    wrote,      \* the units of the source it holds
    worker,     \* each worker: "idle", "copy", "done", "failed", "panicked"
    left,       \* units left of its range
    remaining,  \* workers that have not dropped their RemainingGuard
    errors,     \* how many sent an error
    cancel,     \* the shared flag
    registered, \* it is in cancellations()
    unlinked    \* FALSE once the removal of a partial file failed

workerVars == <<worker, left, remaining, errors>>
vars == <<dir, source, pc, dest, wrote, workerVars, cancel, registered, unlinked>>

W == 1..Workers
Units == 0..(Size - 1)

\* Mutant: the last range is as long as the others.
EqualRanges(size, k) ==
    LET n == IF k < size THEN k ELSE size
    IN  [i \in 1..n |-> [offset |-> (i - 1) * (size \div n), len |-> size \div n]]

\* split_ranges of a size that is not zero.
SplitRanges(size, k) ==
    LET n == IF k < size THEN k ELSE size
        base == size \div n
    IN  [i \in 1..n |->
           [offset |-> (i - 1) * base,
            len |-> IF i = n THEN size - (i - 1) * base ELSE base]]

RangeOf(w) == SplitRanges(Size, Workers)[w]

Finished == pc \in {"ok", "err"}

-----------------------------------------------------------------------------
Init ==
    /\ dir \in {"up", "down"}
    /\ source = Size
    /\ pc = "setup"
    /\ dest = "before" /\ wrote = {}
    /\ worker = [w \in W |-> "idle"]
    /\ left = [w \in W |-> 0]
    /\ remaining = 0 /\ errors = 0
    /\ cancel = FALSE /\ registered = FALSE
    /\ unlinked = TRUE

\* The call returns: its CancelGuard takes the flag out of the registry.
Return(result) ==
    /\ pc' = result
    /\ registered' = FALSE
    /\ cancel' = FALSE

\* The removal's own failure is ignored.
RemovePartial ==
    \/ dest' = "removed" /\ wrote' = {} /\ UNCHANGED unlinked
    \/ unlinked' = FALSE /\ UNCHANGED <<dest, wrote>>

-----------------------------------------------------------------------------
(* The coordinator *)

\* A path is refused, the source has no size or too large a one, or a session
\* fails; the destination may already be created, but not sized.
SetupFails ==
    /\ pc = "setup"
    /\ dest' \in {"before", "created"}
    /\ Return("err")
    /\ UNCHANGED <<dir, source, wrote, workerVars, unlinked>>

Register ==
    /\ dest' = "created" /\ wrote' = {}
    /\ registered' = TRUE
    /\ cancel' = FALSE

\* The file is sized and its ranges are given out.
SpawnsWorkers ==
    /\ pc = "setup"
    /\ pc' = "parallel"
    /\ Register
    /\ worker' = [w \in W |-> "copy"]
    /\ left' = [w \in W |-> RangeOf(w).len]
    /\ remaining' = Workers
    /\ UNCHANGED <<dir, source, errors, unlinked>>

\* Mutant: a panic returns early, past the removal.
ParallelReturnsEarly ==
    /\ pc = "parallel"
    /\ remaining = 0
    /\ IF errors > 0
       THEN Return("err") /\ RemovePartial
       ELSE /\ Return(IF \E w \in W : worker[w] = "panicked" THEN "err" ELSE "ok")
            /\ UNCHANGED <<dest, wrote, unlinked>>
    /\ UNCHANGED <<dir, source, workerVars>>

\* The workers are joined: an error, a panic or, for an upload, a byte count
\* that is not the size fails the call; then the size is looked at.
ParallelReturns ==
    /\ pc = "parallel"
    /\ remaining = 0
    /\ IF \/ errors > 0
          \/ \E w \in W : worker[w] = "panicked"
          \/ dir = "up" /\ Cardinality(wrote) # Size
       THEN Return("err") /\ RemovePartial
       ELSE \/ (Return("ok") \/ Return("err")) /\ UNCHANGED <<dest, wrote, unlinked>>
            \/ Return("err") /\ RemovePartial
    /\ UNCHANGED <<dir, source, workerVars>>

-----------------------------------------------------------------------------
(* A worker *)

\* The next unit of its range.
Position(w) == RangeOf(w).offset + RangeOf(w).len - left[w]

\* It reads a unit of its range and writes it at the same offset.
WorkerCopies(w) ==
    /\ worker[w] = "copy"
    /\ left[w] > 0
    /\ ~cancel
    /\ Position(w) < source
    /\ wrote' = wrote \union {Position(w)}
    /\ left' = [left EXCEPT ![w] = @ - 1]
    /\ UNCHANGED <<dir, source, pc, dest, worker, remaining, errors>>
    /\ UNCHANGED <<cancel, registered, unlinked>>

WorkerEnds(w, s) ==
    /\ worker' = [worker EXCEPT ![w] = s]
    /\ remaining' = remaining - 1
    /\ UNCHANGED <<dir, source, pc, dest, wrote, left, registered, unlinked>>

WorkerDone(w) ==
    /\ worker[w] = "copy"
    /\ left[w] = 0
    /\ WorkerEnds(w, "done")
    /\ UNCHANGED <<errors, cancel>>

\* An error of the connection or of a file, a source that shrank, or the flag:
\* it sets the flag for its siblings and sends its error.
WorkerFails(w) ==
    /\ worker[w] = "copy"
    /\ left[w] > 0
    /\ WorkerEnds(w, "failed")
    /\ errors' = errors + 1
    /\ cancel' = TRUE

\* Mutant: nothing is dropped when the thread unwinds.
WorkerPanicsHolding(w) ==
    /\ worker[w] = "copy"
    /\ worker' = [worker EXCEPT ![w] = "panicked"]
    /\ UNCHANGED <<dir, source, pc, dest, wrote, left, registered, unlinked, remaining,
                   errors, cancel>>

\* A panic unwinds through the RemainingGuard and says nothing to anybody.
WorkerPanics(w) ==
    /\ worker[w] = "copy"
    /\ WorkerEnds(w, "panicked")
    /\ UNCHANGED <<errors, cancel>>

-----------------------------------------------------------------------------
(* The single connection: sftp_upload_file_streaming, sftp_download_file *)

\* Small file, one worker, or a worker's session failed.
SingleStarts ==
    /\ pc = "setup"
    /\ pc' = "single"
    /\ Register
    /\ UNCHANGED <<dir, source, workerVars, unlinked>>

SingleCopies ==
    /\ pc = "single"
    /\ ~cancel
    /\ Cardinality(wrote) < source
    /\ wrote' = wrote \union {Cardinality(wrote)}
    /\ UNCHANGED <<dir, source, pc, dest, workerVars, cancel, registered, unlinked>>

\* The end of the source, wherever it is now.
SingleReturns ==
    /\ pc = "single"
    /\ ~cancel
    /\ Cardinality(wrote) >= source
    /\ Return("ok")
    /\ UNCHANGED <<dir, source, dest, wrote, workerVars, unlinked>>

\* The flag; a download also removes its file after an error.
SingleAborts ==
    /\ pc = "single"
    /\ cancel \/ dir = "down"
    /\ Return("err")
    /\ RemovePartial
    /\ UNCHANGED <<dir, source, workerVars>>

\* An upload that cannot read or write leaves what it wrote.
SingleUploadBreaks ==
    /\ pc = "single"
    /\ dir = "up"
    /\ Return("err")
    /\ UNCHANGED <<dir, source, dest, wrote, workerVars, unlinked>>

-----------------------------------------------------------------------------
\* Mutant: the flag exists before the call is under way.
CancelAlways ==
    /\ ~Finished
    /\ cancel' = TRUE
    /\ UNCHANGED <<dir, source, pc, dest, wrote, workerVars, registered, unlinked>>

\* sftp_cancel_transfer: nothing, unless the flag is registered.
Cancel ==
    /\ registered
    /\ cancel' = TRUE
    /\ UNCHANGED <<dir, source, pc, dest, wrote, workerVars, registered, unlinked>>

\* Somebody else truncates the source.
SourceShrinks ==
    /\ ~Finished
    /\ source' \in 0..(source - 1)
    /\ UNCHANGED <<dir, pc, dest, wrote, workerVars, cancel, registered, unlinked>>

Coordinator ==
    \/ SetupFails \/ SpawnsWorkers \/ ParallelReturns
    \/ SingleStarts \/ SingleCopies \/ SingleReturns \/ SingleAborts
    \/ SingleUploadBreaks

Worker(w) == WorkerCopies(w) \/ WorkerDone(w) \/ WorkerFails(w) \/ WorkerPanics(w)

Next == Coordinator \/ Cancel \/ SourceShrinks \/ \E w \in W : Worker(w)

Spec == Init /\ [][Next]_vars

(***************************************************************************)
(* Fairness: the coordinator looks at the count every 100 ms.  Nothing is  *)
(* asked of the workers: no session has a timeout, so that a stalled relay *)
(* blocks one, deaf to the flag, for as long as the tunnel stays open.     *)
(***************************************************************************)
FairSpec == Spec /\ WF_vars(ParallelReturns)

-----------------------------------------------------------------------------
(* Properties *)

\* The call's locals, its workers and the file keep their types.
TypeOK ==
    /\ dir \in {"up", "down"} /\ source \in 0..Size
    /\ pc \in {"setup", "single", "parallel", "ok", "err"}
    /\ dest \in {"before", "created", "removed"}
    /\ wrote \subseteq Units
    /\ worker \in [W -> {"idle", "copy", "done", "failed", "panicked"}]
    /\ left \in [W -> 0..Size]
    /\ remaining \in 0..Workers /\ errors \in 0..Workers
    /\ cancel \in BOOLEAN /\ registered \in BOOLEAN /\ unlinked \in BOOLEAN

\* A transfer that succeeded copied what the source still has and, if workers
\* shared it, every unit the file had, whichever of them failed, panicked, was
\* cancelled or found the source truncated: the destination was sized
\* beforehand, so its size would not tell.
OkIsWhole ==
    pc = "ok" =>
        /\ dest = "created" /\ 0..(source - 1) \subseteq wrote
        /\ (\E w \in W : worker[w] # "idle") => wrote = Units

\* A transfer that failed after its workers were started, or a download that
\* failed after its first byte, leaves no file with a hole in it, unless the
\* removal failed.
FailureLeavesNoHole ==
    pc = "err" /\ unlinked /\ dest = "created" /\ wrote # Units =>
        /\ \A w \in W : worker[w] = "idle"
        /\ dir = "down" => wrote = {}

\* When the last worker is done, failed or gone the call returns.
ReturnsWithItsWorkers ==
    pc = "parallel" /\ (\A w \in W : worker[w] # "copy") ~> Finished

\* It is a call as TransferCall describes it.
Call ==
    INSTANCE TransferCall
        WITH phase <- IF pc \in {"single", "parallel"} THEN "copy" ELSE pc,
             flag <- cancel
CallSpec == Call!Spec
=============================================================================
