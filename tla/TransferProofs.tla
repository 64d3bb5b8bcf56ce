---------------------------- MODULE TransferProofs ----------------------------
(***************************************************************************)
(* Theorems about SftpTransfer, for any size of the file and any number of *)
(* workers, and about TransferQueue, for any number of transfers and       *)
(* retries.                                                                *)
(*                                                                         *)
(* One transfer: the ranges cover the file (Covered), and a worker has     *)
(* written its range up to where it is (Progress): with the count of the   *)
(* workers that are still at it (Counted) this is what the coordinator's   *)
(* verdict rests on.                                                       *)
(*                                                                         *)
(* The queue: its list keeps every transfer once (ListOK); the loop runs   *)
(* exactly while one stream is awaited (LoopOK), so that a call in flight  *)
(* is the awaited one; what the loop left behind is not queued (Drained);  *)
(* and what is awaited is in the list (Listed).                            *)
(***************************************************************************)
EXTENDS SftpTransfer, TransferQueue, FiniteSetTheorems, TLAPS


Off(w) == RangeOf(w).offset
Length(w) == RangeOf(w).len

Copying == {w \in W : worker[w] = "copy"}

\* What a call has done before its workers or its connection are started.
NotStarted ==
    pc = "setup" =>
        /\ dest = "before" /\ wrote = {} /\ remaining = 0 /\ errors = 0
        /\ ~registered /\ unlinked

\* The workers are those of a call that shared the file out.
WorkersOf ==
    /\ pc \in {"setup", "single"} => \A w \in W : worker[w] = "idle"
    /\ pc = "parallel" => \A w \in W : worker[w] # "idle"
    /\ Copying # {} => pc = "parallel"
    /\ pc \in {"single", "parallel"} => dest = "created"

\* A worker's range is written up to its position, and to its end once it is done.
Progress ==
    pc = "parallel" => \A w \in W :
        /\ left[w] <= Length(w)
        /\ worker[w] = "done" => left[w] = 0
        /\ \A u \in Units : Off(w) <= u /\ u < Off(w) + Length(w) - left[w] => u \in wrote

\* The guards count the workers that are still at it, and errors those that failed.
Counted ==
    /\ pc \in {"setup", "single", "parallel"} => remaining = Cardinality(Copying)
    /\ errors + remaining <= Workers
    /\ (\E w \in W : worker[w] = "failed") => errors > 0

\* A single connection writes the file from its start.
Prefix == pc = "single" => wrote = 0..(Cardinality(wrote) - 1)

\* The flag is registered while the call can be cancelled.
Flagged == (registered <=> pc \in {"single", "parallel"}) /\ (cancel => registered)

IInv ==
    /\ TypeOK /\ NotStarted /\ WorkersOf /\ Progress /\ Counted /\ Prefix /\ Flagged
    /\ OkIsWhole /\ FailureLeavesNoHole

-----------------------------------------------------------------------------
(* The ranges *)

\* The workers and the ranges have the same numbers.
LEMMA Sizes == Workers \in Nat /\ Size \in Nat /\ 0 < Workers /\ Workers <= Size
  BY SizeAssumption

\* The quotient of the size by the workers.
LEMMA Quotient ==
  /\ Size \div Workers \in Nat /\ 0 < Size \div Workers
  /\ Workers * (Size \div Workers) <= Size
<1>1. /\ Size \div Workers \in Int
      /\ Workers * (Size \div Workers) <= Size
      /\ Size < Workers * (Size \div Workers) + Workers
  BY Sizes
<1>2. 0 < Size \div Workers
  <2> DEFINE q == Size \div Workers
  <2>1. q \in Int /\ Size < Workers * q + Workers
    BY <1>1
  <2> HIDE DEF q
  <2>2. q <= 0 => Workers * q <= 0
    BY Sizes, <2>1
  <2> QED  BY Sizes, <2>1, <2>2 DEF q
<1> QED  BY <1>1, <1>2

\* A range, as split_ranges gives it out.
LEMMA RangeIs ==
  ASSUME NEW w \in W
  PROVE  /\ Off(w) = (w - 1) * (Size \div Workers)
         /\ Length(w) = IF w = Workers THEN Size - (w - 1) * (Size \div Workers)
                        ELSE Size \div Workers
<1>1. (IF Workers < Size THEN Workers ELSE Size) = Workers
  BY Sizes
<1>2. SplitRanges(Size, Workers)
        = [i \in 1..Workers |->
             [offset |-> (i - 1) * (Size \div Workers),
              len |-> IF i = Workers THEN Size - (i - 1) * (Size \div Workers)
                      ELSE Size \div Workers]]
  BY <1>1 DEF SplitRanges
<1>3. RangeOf(w) = [offset |-> (w - 1) * (Size \div Workers),
                 len |-> IF w = Workers THEN Size - (w - 1) * (Size \div Workers)
                         ELSE Size \div Workers]
  BY <1>2 DEF RangeOf, W
<1> QED  BY <1>3 DEF Off, Length

\* Every range lies in the file.
LEMMA InFile ==
  ASSUME NEW w \in W
  PROVE  /\ Off(w) \in Nat /\ Length(w) \in Nat /\ Length(w) <= Size
         /\ Off(w) + Length(w) <= Size
<1> DEFINE q == Size \div Workers
<1>1. q \in Nat /\ Workers * q <= Size
  BY Quotient
<1>2. /\ Off(w) = (w - 1) * q
      /\ Length(w) = IF w = Workers THEN Size - (w - 1) * q ELSE q
  BY RangeIs
<1> HIDE DEF q
<1>3. w \in Nat /\ w >= 1 /\ w <= Workers
  BY DEF W
<1>4. /\ (w - 1) * q \in Nat /\ (w - 1) * q + q = w * q
      /\ w * q <= Workers * q
  BY <1>1, <1>3, Sizes
<1> QED  BY <1>1, <1>2, <1>3, <1>4, Sizes

\* Every unit of the file lies in a range: the last range takes the remainder.
LEMMA Covered ==
  ASSUME NEW u \in Units
  PROVE  \E w \in W : Off(w) <= u /\ u < Off(w) + Length(w)
<1> DEFINE q == Size \div Workers
           k == u \div q
<1>1. q \in Nat /\ 0 < q
  BY Quotient
<1>2. u \in Nat /\ u < Size
  BY Sizes DEF Units
<1> HIDE DEF q
<1>3. k \in Nat /\ k * q <= u /\ u < k * q + q
  BY <1>1, <1>2
<1> HIDE DEF k
<1>4. CASE k + 1 < Workers
  <2>1. k + 1 \in W /\ k + 1 # Workers /\ (k + 1) - 1 = k
    BY <1>3, <1>4, Sizes DEF W
  <2>2. Off(k + 1) = k * q /\ Length(k + 1) = q
    BY <2>1, RangeIs DEF q
  <2> QED  BY <1>3, <2>1, <2>2
<1>5. CASE Workers <= k + 1
  <2>1. Workers \in W
    BY Sizes DEF W
  <2>2. Off(Workers) = (Workers - 1) * q /\ Length(Workers) = Size - (Workers - 1) * q
    BY <2>1, RangeIs DEF q
  <2>3. (Workers - 1) * q <= k * q /\ (Workers - 1) * q \in Nat
    BY <1>1, <1>3, <1>5, Sizes
  <2> DEFINE p == (Workers - 1) * q
             r == k * q
  <2>4. p \in Nat /\ r \in Int /\ p <= r /\ r <= u
    BY <1>1, <1>3, <2>3
  <2>5. Off(Workers) = p /\ Length(Workers) = Size - p
    BY <2>2
  <2> HIDE DEF p, r
  <2>6. Off(Workers) <= u /\ u < Off(Workers) + Length(Workers)
    BY <1>2, <2>4, <2>5, Sizes
  <2> QED  BY <2>1, <2>6
<1> QED  BY <1>3, <1>4, <1>5, Sizes

-----------------------------------------------------------------------------
(* Counting the workers *)

\* The workers that copy are finitely many, and no more than there are.
LEMMA CopyingIsFinite ==
  /\ IsFiniteSet(Copying) /\ Cardinality(Copying) \in Nat
  /\ Cardinality(Copying) <= Workers
  /\ IsFiniteSet(W) /\ Cardinality(W) = Workers
<1>1. IsFiniteSet(W) /\ Cardinality(W) = Workers
  BY Sizes, FS_Interval DEF W
<1>2. Copying \in SUBSET W
  BY DEF Copying
<1>3. IsFiniteSet(Copying) /\ Cardinality(Copying) <= Workers
  BY <1>1, <1>2, FS_Subset
<1> QED  BY <1>1, <1>3, FS_CardinalityType

\* A worker that ends is one less.
LEMMA OneLess ==
  ASSUME TypeOK, NEW w \in W, worker[w] = "copy", NEW s \in {"done", "failed", "panicked"},
         worker' = [worker EXCEPT ![w] = s]
  PROVE  /\ Copying' = Copying \ {w} /\ Cardinality(Copying') = Cardinality(Copying) - 1
         /\ Cardinality(Copying) > 0
<1>1. Copying' = Copying \ {w} /\ w \in Copying
  BY DEF TypeOK, Copying
<1>2. Cardinality(Copying \ {w}) = Cardinality(Copying) - 1
  BY <1>1, CopyingIsFinite, FS_RemoveElement
<1>3. Cardinality(Copying) # 0
  BY <1>1, CopyingIsFinite, FS_EmptySet
<1> QED  BY <1>1, <1>2, <1>3, CopyingIsFinite

\* All of them, when they are started.
LEMMA AllCopy ==
  ASSUME worker' = [w \in W |-> "copy"]
  PROVE  Copying' = W /\ Cardinality(Copying') = Workers
<1>1. Copying' = W
  BY DEF Copying
<1> QED  BY <1>1, CopyingIsFinite

\* No worker is still at it when the count is zero.
LEMMA NobodyCopies ==
  ASSUME Cardinality(Copying) = 0
  PROVE  \A w \in W : worker[w] # "copy"
<1>1. Copying = {}
  BY CopyingIsFinite, FS_EmptySet
<1> QED  BY <1>1 DEF Copying

\* When every worker is done, every unit is written.
LEMMA DoneIsWhole ==
  ASSUME TypeOK, Progress, pc = "parallel", \A w \in W : worker[w] = "done"
  PROVE  wrote = Units
<1>1. ASSUME NEW u \in Units PROVE u \in wrote
  <2>1. PICK w \in W : Off(w) <= u /\ u < Off(w) + Length(w)
    BY Covered
  <2>2. left[w] = 0 /\ Off(w) \in Nat /\ Length(w) \in Nat
    BY InFile DEF Progress
  <2> QED  BY <2>1, <2>2 DEF Progress
<1> QED  BY <1>1 DEF TypeOK

-----------------------------------------------------------------------------
(* Every action keeps the invariant.                                        *)

\* A call that has returned is described by its verdict alone.
LEMMA Ended ==
  ASSUME IInv, pc' \in {"ok", "err"}, registered' = FALSE, cancel' = FALSE,
         UNCHANGED <<dir, source, workerVars>>, Copying = {},
         dest' \in {"before", "created", "removed"}, wrote' \subseteq Units, unlinked' \in BOOLEAN,
         OkIsWhole', FailureLeavesNoHole'
  PROVE  IInv'
<1>1. TypeOK'
  BY DEF IInv, TypeOK, workerVars
<1>2. Copying' = {}
  BY DEF Copying, workerVars
<1>3. NotStarted' /\ WorkersOf' /\ Progress' /\ Counted' /\ Prefix' /\ Flagged'
  <2>1. NotStarted' /\ WorkersOf' /\ Progress' /\ Prefix' /\ Flagged'
    BY <1>1, <1>2 DEF TypeOK, NotStarted, WorkersOf, Progress, Prefix, Flagged
  <2>2. Counted'
    BY DEF IInv, Counted, workerVars
  <2> QED  BY <2>1, <2>2
<1> QED  BY <1>1, <1>3 DEF IInv

\* The removal of a partial file leaves nothing, or is known to have failed.
LEMMA Removed ==
  ASSUME IInv, RemovePartial, pc' = "err"
  PROVE  /\ dest' \in {"before", "created", "removed"} /\ wrote' \subseteq Units
         /\ unlinked' \in BOOLEAN /\ OkIsWhole' /\ FailureLeavesNoHole'
  BY DEF IInv, TypeOK, RemovePartial, OkIsWhole, FailureLeavesNoHole

\* Before anything is copied, and on a single connection, no worker copies.
LEMMA NoneCopies == ASSUME IInv, pc \in {"setup", "single"} PROVE Copying = {}
  BY DEF IInv, WorkersOf, Copying

\* The call is refused, or a session fails.
LEMMA SetupFailsStep == ASSUME IInv, SetupFails PROVE IInv'
<1>1. /\ pc = "setup" /\ pc' = "err" /\ registered' = FALSE /\ cancel' = FALSE
      /\ dest' \in {"before", "created"}
      /\ UNCHANGED <<dir, source, wrote, workerVars, unlinked>>
  BY DEF SetupFails, Return
<1>2. wrote = {} /\ \A w \in W : worker[w] = "idle"
  BY <1>1 DEF IInv, NotStarted, WorkersOf
<1>3. OkIsWhole' /\ FailureLeavesNoHole'
  BY <1>1, <1>2 DEF OkIsWhole, FailureLeavesNoHole, workerVars
<1>4. wrote' \subseteq Units /\ unlinked' \in BOOLEAN /\ dest' \in {"before", "created", "removed"}
  BY <1>1 DEF IInv, TypeOK
<1>5. Copying = {}
  BY <1>1, NoneCopies
<1>6. UNCHANGED <<dir, source, workerVars>> /\ pc' \in {"ok", "err"}
  BY <1>1
<1> QED  BY <1>1, <1>3, <1>4, <1>5, <1>6, Ended

\* The ranges are given out.
LEMMA SpawnsStep == ASSUME IInv, SpawnsWorkers PROVE IInv'
<1>1. /\ pc = "setup" /\ pc' = "parallel" /\ dest' = "created" /\ wrote' = {}
      /\ registered' = TRUE /\ cancel' = FALSE
      /\ worker' = [w \in W |-> "copy"]
      /\ left' = [w \in W |-> Length(w)] /\ remaining' = Workers
      /\ UNCHANGED <<dir, source, errors, unlinked>>
  BY DEF SpawnsWorkers, Register, Length
<1>2. errors = 0 /\ remaining = 0
  BY <1>1 DEF IInv, NotStarted
<1>3. Copying' = W /\ Cardinality(Copying') = Workers
  BY <1>1, AllCopy
<1>4. TypeOK'
  <2>1. left' \in [W -> 0..Size] /\ remaining' \in 0..Workers
    BY <1>1, InFile, Sizes
  <2> QED  BY <1>1, <2>1 DEF IInv, TypeOK
<1>5. Progress'
  <2>1. ASSUME NEW w \in W
        PROVE  /\ left'[w] <= Length(w) /\ worker'[w] # "done"
               /\ \A u \in Units : ~(Off(w) <= u /\ u < Off(w) + Length(w) - left'[w])
    <3>1. left'[w] = Length(w) /\ Length(w) \in Nat /\ Off(w) \in Nat
      BY <1>1, InFile
    <3>2. \A u \in Units : u \in Nat
      BY DEF Units
    <3> QED  BY <1>1, <3>1, <3>2
  <2> QED  BY <2>1 DEF Progress, Off, Length, RangeOf
<1>6. Counted'
  BY <1>1, <1>2, <1>3, Sizes DEF Counted
<1>7. NotStarted' /\ WorkersOf' /\ Prefix' /\ Flagged' /\ OkIsWhole' /\ FailureLeavesNoHole'
  BY <1>1, <1>3 DEF NotStarted, WorkersOf, Prefix, Flagged, OkIsWhole, FailureLeavesNoHole
<1> QED  BY <1>4, <1>5, <1>6, <1>7 DEF IInv

\* The workers are joined, and the call returns.
LEMMA ParallelReturnsStep == ASSUME IInv, ParallelReturns PROVE IInv'
<1>1. /\ pc = "parallel" /\ remaining = 0 /\ UNCHANGED <<dir, source, workerVars>>
      /\ pc' \in {"ok", "err"} /\ registered' = FALSE /\ cancel' = FALSE /\ dest = "created" /\ TypeOK
  BY DEF ParallelReturns, Return, IInv, WorkersOf
<1>2. Cardinality(Copying) = 0 /\ \A w \in W : worker[w] \notin {"copy", "idle"}
  BY <1>1, NobodyCopies DEF IInv, Counted, WorkersOf
<1>3. Copying = {}
  BY <1>2 DEF Copying
<1>4. CASE RemovePartial /\ pc' = "err"
  BY <1>1, <1>3, <1>4, Removed, Ended
<1>5. CASE ~(errors > 0) /\ ~(\E w \in W : worker[w] = "panicked")
           /\ UNCHANGED <<dest, wrote, unlinked>>
  <2>1. \A w \in W : worker[w] = "done"
    BY <1>1, <1>2, <1>5 DEF IInv, TypeOK, Counted
  <2>2. wrote = Units
    BY <1>1, <2>1, DoneIsWhole DEF IInv
  <2>3. OkIsWhole' /\ FailureLeavesNoHole'
    BY <1>1, <1>5, <2>2, Sizes DEF OkIsWhole, FailureLeavesNoHole, TypeOK, Units
  <2>4. dest' \in {"before", "created", "removed"} /\ wrote' \subseteq Units /\ unlinked' \in BOOLEAN
    BY <1>1, <1>5 DEF TypeOK
  <2> QED  BY <1>1, <1>3, <2>3, <2>4, Ended
<1> QED  BY <1>4, <1>5 DEF ParallelReturns, Return

\* A worker's unit: its prefix grows by one.
LEMMA WorkerCopiesStep == ASSUME IInv, NEW w \in W, WorkerCopies(w) PROVE IInv'
<1>1. /\ worker[w] = "copy" /\ left[w] > 0 /\ wrote' = wrote \cup {Position(w)}
      /\ left' = [left EXCEPT ![w] = @ - 1] /\ TypeOK /\ Position(w) < source
      /\ UNCHANGED <<dir, source, pc, dest, worker, remaining, errors, cancel, registered, unlinked>>
  BY DEF IInv, WorkerCopies
<1>2. /\ pc = "parallel" /\ left[w] \in Nat /\ left[w] <= Length(w) /\ Off(w) \in Nat
      /\ Length(w) \in Nat /\ Off(w) + Length(w) <= Size
  <2>1. w \in Copying
    BY <1>1 DEF Copying
  <2>2. pc = "parallel"
    BY <2>1 DEF IInv, WorkersOf
  <2>3. left[w] \in 0..Size
    BY <1>1 DEF TypeOK
  <2> QED  BY <2>2, <2>3, InFile, Sizes DEF IInv, Progress
<1>3. Position(w) = Off(w) + Length(w) - left[w] /\ Position(w) \in Units
  BY <1>1, <1>2, Sizes DEF Position, Off, Length, Units
<1>4. TypeOK'
  BY <1>1, <1>2, <1>3, Sizes DEF TypeOK
<1>5. Progress'
  <2>1. ASSUME NEW v \in W
        PROVE  /\ left'[v] <= Length(v) /\ (worker'[v] = "done" => left'[v] = 0)
               /\ \A u \in Units : Off(v) <= u /\ u < Off(v) + Length(v) - left'[v] => u \in wrote'
    <3>1. CASE v = w
      <4>1. left'[v] = left[w] - 1 /\ worker'[v] = "copy"
        BY <1>1, <3>1 DEF TypeOK
      <4>2. ASSUME NEW u \in Units, Off(v) <= u, u < Off(v) + Length(v) - left'[v]
            PROVE  u \in wrote'
        <5>1. u \in Int
          BY DEF Units
        <5>2. u < Off(w) + Length(w) - left[w] \/ u = Position(w)
          BY <1>2, <1>3, <3>1, <4>1, <4>2, <5>1
        <5> QED  BY <1>1, <1>2, <3>1, <4>2, <5>2 DEF IInv, Progress
      <4> QED  BY <1>2, <3>1, <4>1, <4>2
    <3>2. CASE v # w
      BY <1>1, <1>2, <3>2 DEF IInv, TypeOK, Progress
    <3> QED  BY <3>1, <3>2
  <2> QED  BY <2>1 DEF Progress, Off, Length, RangeOf
<1>6. NotStarted' /\ WorkersOf' /\ Counted' /\ Prefix' /\ Flagged' /\ OkIsWhole' /\ FailureLeavesNoHole'
  BY <1>1, <1>2 DEF IInv, NotStarted, WorkersOf, Counted, Copying, Prefix, Flagged, OkIsWhole,
     FailureLeavesNoHole
<1> QED  BY <1>4, <1>5, <1>6 DEF IInv

\* A worker that ends releases its guard, however it ends.
LEMMA WorkerEndsStep ==
  ASSUME IInv, NEW w \in W, WorkerDone(w) \/ WorkerFails(w) \/ WorkerPanics(w)
  PROVE  IInv'
<1>1. /\ worker[w] = "copy" /\ remaining' = remaining - 1 /\ TypeOK
      /\ UNCHANGED <<dir, source, pc, dest, wrote, left, registered, unlinked>>
  BY DEF IInv, WorkerDone, WorkerFails, WorkerPanics, WorkerEnds
<1>2. PICK s \in {"done", "failed", "panicked"} :
        /\ worker' = [worker EXCEPT ![w] = s]
        /\ s = "done" => left[w] = 0
        /\ IF s = "failed" THEN errors' = errors + 1 /\ cancel' = TRUE
           ELSE UNCHANGED <<errors, cancel>>
  BY DEF WorkerDone, WorkerFails, WorkerPanics, WorkerEnds
<1>3. /\ Copying' = Copying \ {w} /\ Cardinality(Copying') = Cardinality(Copying) - 1
      /\ Cardinality(Copying) > 0 /\ Cardinality(Copying) <= Workers
      /\ Cardinality(Copying) \in Nat
  BY <1>1, <1>2, OneLess, CopyingIsFinite
<1>4. pc = "parallel" /\ remaining = Cardinality(Copying)
  BY <1>1 DEF IInv, WorkersOf, Counted, Copying
<1>5. /\ errors \in Nat /\ remaining \in Nat /\ errors' \in Nat /\ remaining' \in Nat
      /\ errors' + remaining' <= Workers /\ errors' >= errors
  <2>1. /\ errors \in 0..Workers /\ remaining \in 0..Workers
        /\ errors + remaining <= Workers /\ remaining > 0
    BY <1>1, <1>3, <1>4 DEF IInv, TypeOK, Counted
  <2>2. errors' = errors \/ errors' = errors + 1
    BY <1>2
  <2> QED  BY <1>1, <2>1, <2>2, Sizes
<1>6. TypeOK'
  <2>0. /\ errors' \in Nat /\ remaining' \in Nat
        /\ errors' + remaining' <= Workers /\ Workers \in Nat
    BY <1>5, Sizes
  <2>1. errors' \in 0..Workers /\ remaining' \in 0..Workers
    <3> DEFINE e == errors'
               r == remaining'
    <3>1. e \in Nat /\ r \in Nat /\ e + r <= Workers /\ Workers \in Nat
      BY <2>0
    <3> HIDE DEF e, r
    <3>2. e <= Workers /\ r <= Workers /\ 0 <= e /\ 0 <= r
      BY <3>1
    <3>3. e \in 0..Workers /\ r \in 0..Workers
      BY <3>1, <3>2
    <3> QED  BY <3>3 DEF e, r
  <2>2. worker' \in [W -> {"idle", "copy", "done", "failed", "panicked"}]
    BY <1>1, <1>2 DEF TypeOK
  <2>3. cancel' \in BOOLEAN
    BY <1>1, <1>2 DEF TypeOK
  <2> QED  BY <1>1, <2>1, <2>2, <2>3 DEF TypeOK
<1>7. Counted'
  <2>1. (\E v \in W : worker'[v] = "failed") => errors' > 0
    BY <1>1, <1>2, <1>5 DEF IInv, TypeOK, Counted
  <2> QED  BY <1>1, <1>3, <1>4, <1>5, <2>1 DEF Counted
<1>8. Progress'
  BY <1>1, <1>2 DEF IInv, TypeOK, Progress, Off, Length, RangeOf
<1>9. NotStarted' /\ WorkersOf' /\ Prefix' /\ Flagged' /\ OkIsWhole' /\ FailureLeavesNoHole'
  <2>1. \A v \in W : worker'[v] # "idle"
    BY <1>1, <1>2, <1>4 DEF IInv, TypeOK, WorkersOf
  <2>2. Copying' # {} => pc' = "parallel"
    BY <1>1, <1>4
  <2>3. dest' = "created"
    BY <1>1, <1>4 DEF IInv, WorkersOf
  <2> QED  BY <1>1, <1>4, <2>1, <2>2, <2>3 DEF IInv, NotStarted, WorkersOf, Prefix, Flagged,
              OkIsWhole, FailureLeavesNoHole
<1> QED  BY <1>6, <1>7, <1>8, <1>9 DEF IInv

\* A single connection begins.
LEMMA SingleStartsStep == ASSUME IInv, SingleStarts PROVE IInv'
<1>1. /\ pc = "setup" /\ pc' = "single" /\ dest' = "created" /\ wrote' = {}
      /\ registered' = TRUE /\ cancel' = FALSE
      /\ UNCHANGED <<dir, source, workerVars, unlinked>>
  BY DEF SingleStarts, Register
<1>2. Copying = {} /\ Copying' = Copying
  BY <1>1, NoneCopies DEF Copying, workerVars
<1>3. TypeOK' /\ NotStarted' /\ WorkersOf' /\ Progress' /\ Flagged'
  BY <1>1, <1>2 DEF IInv, TypeOK, NotStarted, WorkersOf, Progress, Flagged, workerVars
<1>4. Counted'
  BY <1>1, <1>2 DEF IInv, Counted, workerVars
<1>5. Prefix'
  <2>1. Cardinality(wrote') = 0
    BY <1>1, FS_EmptySet
  <2> QED  BY <1>1, <2>1 DEF Prefix
<1>6. OkIsWhole' /\ FailureLeavesNoHole'
  BY <1>1 DEF OkIsWhole, FailureLeavesNoHole
<1> QED  BY <1>3, <1>4, <1>5, <1>6 DEF IInv

\* What a single connection has written is finite, and so counted.
LEMMA PrefixCount ==
  ASSUME TypeOK, Prefix, pc = "single"
  PROVE  Cardinality(wrote) \in Nat /\ wrote = 0..(Cardinality(wrote) - 1)
<1>1. IsFiniteSet(Units)
  BY Sizes, FS_Interval DEF Units
<1>2. wrote \in SUBSET Units
  BY DEF TypeOK
<1>3. IsFiniteSet(wrote)
  BY <1>1, <1>2, FS_Subset
<1> QED  BY <1>3, FS_CardinalityType DEF Prefix

\* The next unit of a single connection.
LEMMA SingleCopiesStep == ASSUME IInv, SingleCopies PROVE IInv'
<1> DEFINE n == Cardinality(wrote)
<1>1. /\ pc = "single" /\ n < source /\ wrote' = wrote \cup {n} /\ TypeOK /\ source \in 0..Size
      /\ UNCHANGED <<dir, source, pc, dest, workerVars, cancel, registered, unlinked>>
  BY DEF IInv, TypeOK, SingleCopies
<1>2. n \in Nat /\ wrote = 0..(n - 1)
  BY <1>1, PrefixCount DEF IInv
<1> HIDE DEF n
<1>3. wrote' = 0..n /\ n \in Units
  BY <1>1, <1>2, Sizes DEF Units
<1>4. Cardinality(wrote') = n + 1
  <2>1. Cardinality(0..n) = IF 0 > n THEN 0 ELSE n - 0 + 1
    BY <1>2, FS_Interval
  <2> QED  BY <1>2, <1>3, <2>1
<1>5. Prefix'
  BY <1>1, <1>2, <1>3, <1>4 DEF Prefix
<1>6. TypeOK'
  BY <1>1, <1>3 DEF TypeOK, workerVars
<1>7. NotStarted' /\ WorkersOf' /\ Progress' /\ Counted' /\ Flagged' /\ OkIsWhole' /\ FailureLeavesNoHole'
  BY <1>1 DEF IInv, NotStarted, WorkersOf, Progress, Counted, Copying, Flagged, OkIsWhole,
     FailureLeavesNoHole, workerVars
<1> QED  BY <1>5, <1>6, <1>7 DEF IInv

\* The single connection ends: at the end of the source, or before.
LEMMA SingleEndsStep ==
  ASSUME IInv, SingleReturns \/ SingleAborts \/ SingleUploadBreaks
  PROVE  IInv'
<1>1. /\ pc = "single" /\ pc' \in {"ok", "err"} /\ registered' = FALSE /\ cancel' = FALSE
      /\ UNCHANGED <<dir, source, workerVars>> /\ TypeOK /\ dest = "created"
      /\ \A w \in W : worker[w] = "idle"
  BY DEF IInv, WorkersOf, SingleReturns, SingleAborts, SingleUploadBreaks, Return
<1>2. Copying = {}
  BY <1>1, NoneCopies
<1>3. CASE SingleAborts
  <2>1. RemovePartial /\ pc' = "err"
    BY <1>3 DEF SingleAborts, Return
  <2> QED  BY <1>1, <1>2, <2>1, Removed, Ended
<1>4. CASE SingleReturns \/ SingleUploadBreaks
  <2>1. UNCHANGED <<dest, wrote, unlinked>>
    BY <1>4 DEF SingleReturns, SingleUploadBreaks
  <2>2. dest' \in {"before", "created", "removed"} /\ wrote' \subseteq Units /\ unlinked' \in BOOLEAN
    BY <1>1, <2>1 DEF TypeOK
  <2>3. OkIsWhole'
    <3>1. CASE SingleReturns
      <4>1. Cardinality(wrote) \in Nat /\ wrote = 0..(Cardinality(wrote) - 1)
        BY <1>1, PrefixCount DEF IInv
      <4>2. source \in Nat /\ Cardinality(wrote) >= source
        BY <1>1, <3>1 DEF TypeOK, SingleReturns
      <4>3. 0..(source - 1) \subseteq wrote
        BY <4>1, <4>2
      <4> QED  BY <1>1, <2>1, <4>3 DEF OkIsWhole, workerVars
    <3>2. CASE SingleUploadBreaks
      BY <3>2 DEF OkIsWhole, SingleUploadBreaks, Return
    <3> QED  BY <1>4, <3>1, <3>2
  <2>4. FailureLeavesNoHole'
    <3>1. pc' = "err" => dir = "up"
      BY <1>4 DEF SingleReturns, SingleUploadBreaks, Return
    <3> QED  BY <1>1, <3>1 DEF FailureLeavesNoHole, workerVars
  <2> QED  BY <1>1, <1>2, <2>2, <2>3, <2>4, Ended
<1> QED  BY <1>3, <1>4

\* A cancellation, and somebody else's truncation of the source.
LEMMA OutsideStep == ASSUME IInv, Cancel \/ SourceShrinks PROVE IInv'
<1>1. /\ UNCHANGED <<dir, pc, dest, wrote, workerVars, registered, unlinked>> /\ TypeOK
      /\ source' \in 0..Size /\ cancel' \in BOOLEAN /\ (cancel' => cancel \/ registered)
  <2>1. CASE Cancel
    BY <2>1 DEF IInv, TypeOK, Cancel
  <2>2. CASE SourceShrinks
    <3>1. source \in 0..Size /\ source' \in 0..(source - 1)
      BY <2>2 DEF IInv, TypeOK, SourceShrinks
    <3>2. source' \in 0..Size
      BY <3>1, Sizes
    <3> QED  BY <2>2, <3>2 DEF IInv, TypeOK, SourceShrinks
  <2> QED  BY <2>1, <2>2
<1>2. source' = source \/ pc \notin {"ok", "err"}
  BY DEF Cancel, SourceShrinks, Finished
<1>3. TypeOK' /\ Flagged' /\ OkIsWhole' /\ FailureLeavesNoHole'
  BY <1>1, <1>2 DEF IInv, TypeOK, Flagged, OkIsWhole, FailureLeavesNoHole, workerVars
<1>4. NotStarted' /\ WorkersOf' /\ Progress' /\ Counted' /\ Prefix'
  BY <1>1 DEF IInv, NotStarted, WorkersOf, Progress, Counted, Copying, Prefix, workerVars
<1> QED  BY <1>3, <1>4 DEF IInv

-----------------------------------------------------------------------------
\* A call that has only been made satisfies the invariant.
LEMMA Initially == Init => IInv
<1> SUFFICES ASSUME Init PROVE IInv
  OBVIOUS
<1>1. Copying = {} /\ Cardinality(Copying) = 0
  BY FS_EmptySet DEF Init, Copying
<1>2. TypeOK
  <2>1. source \in 0..Size /\ remaining \in 0..Workers /\ errors \in 0..Workers
    BY Sizes DEF Init
  <2>2. left \in [W -> 0..Size] /\ worker \in [W -> {"idle", "copy", "done", "failed", "panicked"}]
    BY Sizes DEF Init
  <2> QED  BY <2>1, <2>2 DEF Init, TypeOK
<1>3. NotStarted /\ WorkersOf /\ Progress /\ Prefix /\ Flagged /\ OkIsWhole /\ FailureLeavesNoHole
  BY <1>1 DEF Init, NotStarted, WorkersOf, Progress, Prefix, Flagged, OkIsWhole, FailureLeavesNoHole
<1>4. Counted
  BY <1>1, Sizes DEF Init, Counted
<1> QED  BY <1>2, <1>3, <1>4 DEF IInv

\* Every step keeps it.
LEMMA Inductive == IInv /\ [Next]_vars => IInv'
<1> SUFFICES ASSUME IInv, [Next]_vars PROVE IInv'
  OBVIOUS
<1>1. CASE Coordinator
  BY <1>1, SetupFailsStep, SpawnsStep, ParallelReturnsStep, SingleStartsStep, SingleCopiesStep,
     SingleEndsStep DEF Coordinator
<1>2. CASE Cancel \/ SourceShrinks
  BY <1>2, OutsideStep
<1>3. ASSUME NEW w \in W, Worker(w) PROVE IInv'
  BY <1>3, WorkerCopiesStep, WorkerEndsStep DEF Worker
<1>4. CASE UNCHANGED vars
  BY <1>4 DEF vars, workerVars, IInv, TypeOK, NotStarted, WorkersOf, Progress, Counted, Copying,
     Prefix, Flagged, OkIsWhole, FailureLeavesNoHole
<1> QED  BY <1>1, <1>2, <1>3, <1>4 DEF Next

\* The invariant of every behaviour.
LEMMA Invariant == Spec => []IInv
<1>1. Init => IInv
  BY Initially
<1>2. IInv /\ [Next]_vars => IInv'
  BY Inductive
<1> QED  BY <1>1, <1>2, PTL DEF Spec

\* The call's locals, its workers and the file keep their types.
THEOREM TypeCorrect == Spec => []TypeOK
<1>1. IInv => TypeOK
  BY DEF IInv
<1> QED  BY <1>1, Invariant, PTL

\* A transfer that succeeded is whole, for any size and any number of workers:
\* the ranges of split_ranges cover the file, and no worker that failed,
\* panicked or was cancelled goes unnoticed.
THEOREM SuccessIsWhole == Spec => []OkIsWhole
<1>1. IInv => OkIsWhole
  BY DEF IInv
<1> QED  BY <1>1, Invariant, PTL

\* A transfer that failed leaves no file with a hole, unless its removal failed.
THEOREM NoHoleIsLeft == Spec => []FailureLeavesNoHole
<1>1. IInv => FailureLeavesNoHole
  BY DEF IInv
<1> QED  BY <1>1, Invariant, PTL

\* The detailed call, with its workers and their shared flag, is a call as the
\* queue sees it (TransferCall).
THEOREM CallImplemented == Spec => CallSpec
<1> DEFINE phase == IF pc \in {"single", "parallel"} THEN "copy" ELSE pc
<1>1. Init => Call!Init
  BY DEF Init, Call!Init
<1>2. ASSUME IInv, [Next]_vars
      PROVE  Call!Next \/ UNCHANGED <<phase, cancel>>
  <2>1. TypeOK /\ Flagged
    BY <1>2 DEF IInv
  <2>2. CASE SetupFails \/ SpawnsWorkers \/ SingleStarts
    BY <2>2 DEF SetupFails, SpawnsWorkers, SingleStarts, Register, Return, Call!Next, Call!Register,
       Call!Fail
  <2>3. CASE ParallelReturns \/ SingleReturns \/ SingleAborts \/ SingleUploadBreaks
    <3>1. /\ pc \in {"single", "parallel"} /\ pc' \in {"ok", "err"} /\ cancel' = FALSE
      BY <2>3 DEF ParallelReturns, SingleReturns, SingleAborts, SingleUploadBreaks, Return
    <3> QED  BY <3>1 DEF Call!Next, Call!Succeed, Call!Fail
  <2>4. CASE SingleCopies \/ SourceShrinks \/ UNCHANGED vars
    BY <2>4 DEF SingleCopies, SourceShrinks, vars
  <2>5. CASE Cancel
    BY <2>1, <2>5 DEF Cancel, Flagged, Call!Next, Call!Trip
  <2>6. ASSUME NEW w \in W, Worker(w)
        PROVE  Call!Next \/ UNCHANGED <<phase, cancel>>
    <3>1. pc = "parallel" /\ pc' = pc
      BY <1>2, <2>6 DEF IInv, WorkersOf, Copying, Worker, WorkerCopies, WorkerDone, WorkerFails,
         WorkerPanics, WorkerEnds
    <3>2. cancel' = cancel \/ cancel' = TRUE
      BY <2>6 DEF Worker, WorkerCopies, WorkerDone, WorkerFails, WorkerPanics
    <3> QED  BY <3>1, <3>2 DEF Call!Next, Call!Trip
  <2> QED  BY <1>2, <2>2, <2>3, <2>4, <2>5, <2>6 DEF Next, Coordinator
<1> HIDE DEF phase
<1>3. IInv /\ [Next]_vars => [Call!Next]_(<<phase, cancel>>)
  BY <1>2
<1>4. IInv /\ [Next]_vars
        => [Call!Next]_<<IF pc \in {"single", "parallel"} THEN "copy" ELSE pc, cancel>>
  BY <1>3 DEF phase
<1> QED  BY <1>1, <1>4, Invariant, PTL DEF Spec, CallSpec, Call!Spec

-----------------------------------------------------------------------------
(* The queue *)


CallRecs == [phase : {"none", "setup", "copy", "ok", "err"}, flag : BOOLEAN]

\* A list of transfers numbered up to n, each there once.
ListOK(its, n) ==
    /\ its \in Seq(Item) /\ Len(its) <= n
    /\ \A m \in DOMAIN its : its[m].id <= n
    /\ \A l, m \in DOMAIN its : its[l].id = its[m].id => l = m

CountsOK ==
    /\ posted \subseteq Ids /\ closed \in BOOLEAN
    /\ made \in 0..MaxItems /\ retries \in 0..MaxRetries

CallsOK == calls \in [Ids -> CallRecs]

\* The loop awaits one stream, and every call in flight is the awaited one.
LoopOK ==
    /\ running \in BOOLEAN /\ awaited \subseteq Ids
    /\ running <=> awaited # {}
    /\ \A i, j \in awaited : i = j
    /\ \A i \in Ids : InFlight(i) => i \in awaited

Drained == ~running => Queued(items) = {}

\* The transfers a are in the list its, not ended, and only they are active.
Listed(its, a) ==
    /\ \A i \in a : \E n \in DOMAIN its :
          its[n].id = i /\ its[n].status \in {"active", "cancelled", "queued"}
    /\ \A n \in DOMAIN its : its[n].status = "active" => its[n].id \in a

QueueInv ==
    /\ CountsOK /\ CallsOK /\ ListOK(items, made)
    /\ LoopOK /\ Drained /\ Listed(items, awaited)

\* It holds more than the type invariant.
LEMMA TypeParts == QueueInv => QueueTypeOK
  BY BoundsAssumption DEF QueueInv, CountsOK, CallsOK, ListOK, LoopOK, QueueTypeOK, CallRecs

-----------------------------------------------------------------------------
\* A new status changes the status of that transfer and nothing else.
LEMMA UpdatedList ==
  ASSUME NEW n \in Nat, NEW its, ListOK(its, n), NEW i, NEW s \in Status
  PROVE  /\ ListOK(Updated(its, i, s), n)
         /\ DOMAIN Updated(its, i, s) = DOMAIN its
         /\ \A m \in DOMAIN its :
              /\ Updated(its, i, s)[m].id = its[m].id
              /\ Updated(its, i, s)[m].status = IF its[m].id = i THEN s ELSE its[m].status
<1> DEFINE u == Updated(its, i, s)
<1>1. its \in Seq(Item) /\ DOMAIN its = 1..Len(its) /\ Len(its) \in Nat
  BY DEF ListOK
<1>2. u = [m \in 1..Len(its) |-> IF its[m].id = i THEN [its[m] EXCEPT !.status = s] ELSE its[m]]
  BY <1>1 DEF Updated
<1>3. ASSUME NEW m \in 1..Len(its)
      PROVE  /\ u[m] \in Item /\ u[m].id = its[m].id
             /\ u[m].status = IF its[m].id = i THEN s ELSE its[m].status
  <2>1. its[m] \in Item
    BY <1>1
  <2> QED  BY <1>2, <2>1 DEF Item
<1>4. u \in Seq(Item) /\ Len(u) = Len(its) /\ DOMAIN u = DOMAIN its
  BY <1>1, <1>2, <1>3
<1> HIDE DEF u
<1>5. ListOK(u, n)
  BY <1>1, <1>3, <1>4 DEF ListOK
<1> QED  BY <1>1, <1>3, <1>4, <1>5 DEF u

\* What a turn of the loop needs, and what it leaves.
LEMMA TurnKeeps ==
  ASSUME CallsOK, NEW n \in Nat, NEW its, ListOK(its, n), NEW a \in SUBSET Ids,
         a = {}, Listed(its, a), \A j \in Ids : ~InFlight(j), Turn(its, a)
  PROVE  CallsOK' /\ ListOK(items', n) /\ LoopOK' /\ Drained' /\ Listed(items', awaited')
<1>1. CASE Queued(its) = {}
  <2>1. items' = its /\ awaited' = a /\ running' = FALSE /\ calls' = calls
    BY <1>1 DEF Turn
  <2> QED  BY <1>1, <2>1 DEF CallsOK, LoopOK, Drained, InFlight
<1>2. CASE Queued(its) # {}
  <2>1. PICK f \in Queued(its) :
          /\ items' = Updated(its, its[f].id, "active") /\ awaited' = a \cup {its[f].id}
          /\ running' = TRUE /\ calls' = [calls EXCEPT ![its[f].id] = At("setup", FALSE)]
    BY <1>2 DEF Turn, CallBecomes
  <2> DEFINE i == its[f].id
  <2>2. its \in Seq(Item)
    BY DEF ListOK
  <2>4. f \in DOMAIN its /\ its[f].status = "queued" /\ its[f] \in Item
    BY <2>2 DEF Queued
  <2>5. i \in Ids
    BY <2>4 DEF Item
  <2> HIDE DEF i
  <2>6. /\ "active" \in Status
        /\ items' = Updated(its, i, "active") /\ awaited' = a \cup {i} /\ running' = TRUE
        /\ calls' = [calls EXCEPT ![i] = At("setup", FALSE)] /\ its[f].id = i
    BY <2>1 DEF Status, i
  <2>7. /\ ListOK(items', n) /\ DOMAIN items' = DOMAIN its
        /\ \A m \in DOMAIN its :
              /\ items'[m].id = its[m].id
              /\ items'[m].status = IF its[m].id = i THEN "active" ELSE its[m].status
    BY <2>6, UpdatedList
  <2>8. CallsOK'
    BY <2>5, <2>6 DEF CallsOK, CallRecs, At
  <2>9. LoopOK'
    BY <2>5, <2>6 DEF LoopOK, InFlight, CallsOK
  <2>10. Listed(items', awaited')
    <3>1. items'[f].id = i /\ items'[f].status = "active" /\ f \in DOMAIN items'
      BY <2>4, <2>6, <2>7
    <3>2. \A m \in DOMAIN items' : items'[m].status = "active" => items'[m].id \in {i}
      BY <2>7 DEF Listed
    <3> QED  BY <2>6, <3>1, <3>2 DEF Listed
  <2> QED  BY <2>6, <2>7, <2>8, <2>9, <2>10 DEF Drained
<1> QED  BY <1>1, <1>2

\* A call of _pump on a list that keeps the awaited transfer.
LEMMA PumpKeeps ==
  ASSUME CallsOK, LoopOK, NEW n \in Nat, NEW its, ListOK(its, n), Listed(its, awaited), Pump(its)
  PROVE  CallsOK' /\ ListOK(items', n) /\ LoopOK' /\ Drained' /\ Listed(items', awaited')
<1>1. CASE running
  <2>1. items' = its /\ UNCHANGED <<running, awaited, calls>>
    BY <1>1 DEF Pump
  <2> QED  BY <1>1, <2>1 DEF CallsOK, LoopOK, Drained, InFlight
<1>2. CASE ~running
  <2>1. awaited = {} /\ awaited \in SUBSET Ids /\ \A j \in Ids : ~InFlight(j)
    BY <1>2 DEF LoopOK
  <2>2. Turn(its, awaited)
    BY <1>2 DEF Pump
  <2> QED  BY <2>1, <2>2, TurnKeeps
<1> QED  BY <1>1, <1>2

-----------------------------------------------------------------------------
(* Every action keeps the invariant.                                        *)

\* The numbers.
LEMMA MadeType == ASSUME QueueInv PROVE made \in Nat /\ MaxItems \in Nat /\ Ids = 1..MaxItems
  BY BoundsAssumption DEF QueueInv, CountsOK, Ids

\* Another transfer's list, loop or calls: what an action leaves alone stays.
LEMMA LoopFrame ==
  ASSUME LoopOK, UNCHANGED <<running, awaited>>,
         \A i \in Ids : InFlight(i)' => InFlight(i)
  PROVE  LoopOK'
  BY DEF LoopOK

\* New transfers join the list behind the others.
EnqueuedAs(its, n) ==
    /\ Pump(its) /\ ListOK(its, made + n)
    /\ \A m \in DOMAIN items : m \in DOMAIN its /\ its[m] = items[m]
    /\ \A m \in DOMAIN its : m \notin DOMAIN items => its[m].status = "queued"

LEMMA EnqueuedList ==
  ASSUME QueueInv, NEW n \in Ids, Enqueue(n)
  PROVE  \E its : EnqueuedAs(its, n)
<1> DEFINE new == [m \in 1..n |-> [id |-> made + m, status |-> "queued"]]
           its == items \o new
<1>1. /\ n \in Nat /\ made \in Nat /\ made + n <= MaxItems /\ MaxItems \in Nat
      /\ n > 0 /\ Ids = 1..MaxItems
  BY MadeType DEF Enqueue
<1>2. /\ items \in Seq(Item) /\ Len(items) \in Nat /\ Len(items) <= made
      /\ \A m \in DOMAIN items : items[m].id <= made
      /\ \A l, m \in DOMAIN items : items[l].id = items[m].id => l = m
      /\ DOMAIN items = 1..Len(items)
  BY DEF QueueInv, ListOK
<1>3. ASSUME NEW m \in 1..n
      PROVE  new[m] \in Item /\ new[m].id = made + m /\ new[m].status = "queued"
  <2>1. made + m \in Ids /\ new[m] = [id |-> made + m, status |-> "queued"]
    BY <1>1
  <2> QED  BY <2>1 DEF Item, Status
<1>4. new \in Seq(Item) /\ Len(new) = n
  <2>1. new = [m \in 1..n |-> new[m]]
    OBVIOUS
  <2> HIDE DEF new
  <2> QED  BY <1>1, <1>3, <2>1
<1> HIDE DEF new
<1>6. /\ its \in Seq(Item) /\ Len(its) = Len(items) + n /\ DOMAIN its = 1..(Len(items) + n)
      /\ \A m \in 1..Len(items) : its[m] = items[m]
      /\ \A m \in 1..(Len(items) + n) : m > Len(items) => its[m] = new[m - Len(items)]
  BY <1>1, <1>2, <1>4
<1> HIDE DEF its
<1>7. ASSUME NEW m \in DOMAIN its, m \notin DOMAIN items
      PROVE  /\ its[m].id = made + (m - Len(items)) /\ its[m].status = "queued"
             /\ m \in Nat /\ m > Len(items) /\ m <= Len(items) + n
  <2>1. m \in 1..(Len(items) + n) /\ m > Len(items)
    BY <1>1, <1>2, <1>6, <1>7
  <2>2. m - Len(items) \in 1..n /\ its[m] = new[m - Len(items)]
    BY <1>1, <1>2, <1>6, <2>1
  <2> QED  BY <1>1, <1>2, <1>3, <2>1, <2>2
<1>5. ASSUME NEW m \in DOMAIN items
      PROVE  m \in DOMAIN its /\ its[m] = items[m] /\ its[m].id \in Nat /\ its[m].id <= made
  <2>1. m \in 1..Len(items) /\ items[m] \in Item
    BY <1>2
  <2>2. items[m].id \in Nat
    BY <1>1, <2>1 DEF Item
  <2> QED  BY <1>1, <1>2, <1>6, <2>1, <2>2
<1>8. ListOK(its, made + n)
  <2>1. ASSUME NEW m \in DOMAIN its PROVE its[m].id <= made + n
    <3>1. CASE m \in DOMAIN items
      BY <1>1, <1>5, <3>1
    <3>2. CASE m \notin DOMAIN items
      BY <1>1, <1>2, <1>7, <3>2
    <3> QED  BY <3>1, <3>2
  <2>2. ASSUME NEW l \in DOMAIN its, NEW m \in DOMAIN its, its[l].id = its[m].id PROVE l = m
    <3>1. CASE l \in DOMAIN items /\ m \in DOMAIN items
      BY <1>2, <1>5, <2>2, <3>1
    <3>2. CASE l \in DOMAIN items /\ m \notin DOMAIN items
      <4>1. its[l].id <= made /\ its[l].id \in Nat
        BY <1>5, <3>2
      <4>2. its[m].id = made + (m - Len(items)) /\ m > Len(items) /\ m \in Nat
        BY <1>7, <3>2
      <4> QED  BY <1>1, <1>2, <2>2, <4>1, <4>2
    <3>3. CASE l \notin DOMAIN items /\ m \in DOMAIN items
      <4>1. its[m].id <= made /\ its[m].id \in Nat
        BY <1>5, <3>3
      <4>2. its[l].id = made + (l - Len(items)) /\ l > Len(items) /\ l \in Nat
        BY <1>7, <3>3
      <4> QED  BY <1>1, <1>2, <2>2, <4>1, <4>2
    <3>4. CASE l \notin DOMAIN items /\ m \notin DOMAIN items
      BY <1>1, <1>2, <1>7, <2>2, <3>4
    <3> QED  BY <3>1, <3>2, <3>3, <3>4
  <2> QED  BY <1>1, <1>2, <1>6, <2>1, <2>2 DEF ListOK
<1>9. Pump(its)
  BY DEF Enqueue, its, new
<1> QED  BY <1>5, <1>7, <1>8, <1>9 DEF EnqueuedAs

\* An enqueue.
LEMMA EnqueueStep == ASSUME QueueInv, NEW n \in Ids, Enqueue(n) PROVE QueueInv'
<1>1. PICK its : EnqueuedAs(its, n)
  BY EnqueuedList
<1>2. /\ made' = made + n /\ UNCHANGED <<posted, closed, retries>>
      /\ made \in Nat /\ made + n \in Nat /\ made + n <= MaxItems /\ MaxItems \in Nat
  BY MadeType DEF Enqueue
<1>3. Listed(its, awaited)
  BY <1>1 DEF EnqueuedAs, QueueInv, Listed
<1>4. CallsOK' /\ ListOK(items', made + n) /\ LoopOK' /\ Drained' /\ Listed(items', awaited')
  BY <1>1, <1>2, <1>3, PumpKeeps DEF EnqueuedAs, QueueInv
<1>5. CountsOK'
  BY <1>2 DEF QueueInv, CountsOK
<1> QED  BY <1>2, <1>4, <1>5 DEF QueueInv

\* A cancellation marks the transfer, before anything else.
LEMMA CancelStep == ASSUME QueueInv, NEW i \in Ids, CancelQueued(i) \/ CancelActive(i) PROVE QueueInv'
<1>1. /\ items' = Updated(items, i, "cancelled") /\ posted' \subseteq Ids
      /\ UNCHANGED <<running, awaited, calls, closed, made, retries>>
  BY DEF CancelQueued, CancelActive, QueueInv, CountsOK
<1>2. ListOK(items, made) /\ "cancelled" \in Status /\ made \in Nat
  BY MadeType DEF QueueInv, Status
<1>3. /\ ListOK(items', made) /\ DOMAIN items' = DOMAIN items
      /\ \A m \in DOMAIN items :
           /\ items'[m].id = items[m].id
           /\ items'[m].status = IF items[m].id = i THEN "cancelled" ELSE items[m].status
  BY <1>1, <1>2, UpdatedList
<1>4. Listed(items', awaited)
  BY <1>3 DEF QueueInv, Listed
<1>5. Drained'
  BY <1>1, <1>3 DEF QueueInv, Drained, Queued
<1>6. CountsOK' /\ CallsOK' /\ LoopOK'
  BY <1>1 DEF QueueInv, CountsOK, CallsOK, LoopOK, InFlight
<1> QED  BY <1>1, <1>3, <1>4, <1>5, <1>6 DEF QueueInv

\* A retry queues the transfer again where it is.
LEMMA RetryStep == ASSUME QueueInv, NEW i \in Ids, Retry(i) PROVE QueueInv'
<1> DEFINE its == Updated(items, i, "queued")
<1>1. /\ Pump(its) /\ retries' = retries + 1 /\ retries < MaxRetries
      /\ UNCHANGED <<posted, closed, made>>
  BY DEF Retry
<1>2. ListOK(items, made) /\ "queued" \in Status /\ made \in Nat /\ CallsOK /\ LoopOK
  BY MadeType DEF QueueInv, Status
<1>3. /\ ListOK(its, made) /\ DOMAIN its = DOMAIN items
      /\ \A m \in DOMAIN items :
           /\ its[m].id = items[m].id
           /\ its[m].status = IF items[m].id = i THEN "queued" ELSE items[m].status
  BY <1>2, UpdatedList
<1> HIDE DEF its
<1>4. Listed(its, awaited)
  BY <1>3 DEF QueueInv, Listed
<1>5. CallsOK' /\ ListOK(items', made) /\ LoopOK' /\ Drained' /\ Listed(items', awaited')
  BY <1>1, <1>2, <1>3, <1>4, PumpKeeps
<1>6. CountsOK'
  BY <1>1, BoundsAssumption DEF QueueInv, CountsOK
<1> QED  BY <1>1, <1>5, <1>6 DEF QueueInv

\* The list after a clearing is the one before, read along an order that leaves
\* out only what was done.
ClearedAlong(order, k) ==
    /\ DOMAIN order = 1..k /\ k \in Nat /\ k <= Len(items)
    /\ \A n \in 1..k : order[n] \in DOMAIN items /\ items[order[n]].status # "done"
    /\ \A m, n \in 1..k : order[m] = order[n] => m = n
    /\ items' \in Seq(Item) /\ Len(items') = k /\ DOMAIN items' = 1..k
    /\ \A n \in 1..k : items'[n] = items[order[n]]
    /\ \A n \in DOMAIN items : items[n].status # "done" => \E m \in 1..k : order[m] = n

LEMMA ClearedList == ASSUME QueueInv, ClearCompleted PROVE \E order, k : ClearedAlong(order, k)
<1> DEFINE keep == {n \in DOMAIN items : items[n].status # "done"}
<1>1. PICK order \in [1..Cardinality(keep) -> keep] :
        /\ \A m, n \in DOMAIN order : m < n => order[m] < order[n]
        /\ items' = [n \in DOMAIN order |-> items[order[n]]]
  BY DEF ClearCompleted
<1>3. /\ items \in Seq(Item) /\ DOMAIN items = 1..Len(items) /\ Len(items) \in Nat
      /\ Len(items) <= made /\ made \in Nat
      /\ \A m \in DOMAIN items : items[m].id <= made
      /\ \A l, m \in DOMAIN items : items[l].id = items[m].id => l = m
  BY MadeType DEF QueueInv, ListOK
<1>4. Cardinality(keep) \in Nat /\ Cardinality(keep) <= Len(items) /\ IsFiniteSet(keep)
  <2>2. keep \in SUBSET (1..Len(items))
    BY <1>3
  <2> HIDE DEF keep
  <2>1. IsFiniteSet(1..Len(items)) /\ Cardinality(1..Len(items)) = Len(items)
    <3> DEFINE l == Len(items)
    <3>1. l \in Int /\ 1 \in Int /\ l >= 0
      BY <1>3
    <3> HIDE DEF l
    <3>2. IsFiniteSet(1..l) /\ Cardinality(1..l) = IF 1 > l THEN 0 ELSE l - 1 + 1
      BY <3>1, FS_Interval
    <3>3. Cardinality(1..l) = l
      BY <3>1, <3>2
    <3> QED  BY <3>2, <3>3 DEF l
  <2>3. IsFiniteSet(keep) /\ Cardinality(keep) <= Cardinality(1..Len(items))
    <3> DEFINE all == 1..Len(items)
    <3>1. IsFiniteSet(all) /\ keep \in SUBSET all
      BY <2>1, <2>2
    <3> HIDE DEF all
    <3>2. IsFiniteSet(keep) /\ Cardinality(keep) <= Cardinality(all)
      BY ONLY <3>1, FS_Subset
    <3> QED  BY <3>2 DEF all
  <2> QED  BY <2>1, <2>3, FS_CardinalityType
<1> DEFINE k == Cardinality(keep)
<1>5. /\ DOMAIN order = 1..k /\ k \in Nat /\ k <= Len(items)
      /\ \A n \in 1..k : order[n] \in DOMAIN items /\ items[order[n]].status # "done"
      /\ \A m, n \in 1..k : order[m] = order[n] => m = n
  <2>1. \A n \in keep : n \in DOMAIN items /\ items[n].status # "done"
    OBVIOUS
  <2> HIDE DEF keep
  <2>2. k \in Nat /\ k <= Len(items)
    BY <1>4
  <2>3. DOMAIN order = 1..k /\ \A n \in 1..k : order[n] \in keep
    BY ONLY order \in [1..k -> keep]
  <2>4. \A m, n \in 1..k : m < n => order[m] < order[n]
    BY <1>1, <2>3
  <2>5. \A n \in 1..k : order[n] \in Int
    BY <1>3, <2>1, <2>3
  <2> HIDE DEF k
  <2>6. ASSUME NEW m \in 1..k, NEW n \in 1..k, order[m] = order[n] PROVE m = n
    <3>1. m \in Int /\ n \in Int /\ ~(m < n) /\ ~(n < m)
      BY <2>2, <2>4, <2>5, <2>6
    <3> QED  BY ONLY <3>1
  <2> QED  BY <2>1, <2>2, <2>3, <2>6
<1> HIDE DEF keep, k
<1>6. /\ items' \in Seq(Item) /\ Len(items') = k /\ DOMAIN items' = 1..k
      /\ \A n \in 1..k : items'[n] = items[order[n]]
  BY <1>1, <1>3, <1>5
<1>7. \A n \in DOMAIN items : items[n].status # "done" => \E m \in 1..k : order[m] = n
  <2>1. IsFiniteSet(1..k) /\ Cardinality(1..k) = k
    <3>1. 1 \in Int /\ k \in Int /\ (1 > k => k = 0) /\ k - 1 + 1 = k
      BY <1>5
    <3>2. IsFiniteSet(1..k) /\ Cardinality(1..k) = IF 1 > k THEN 0 ELSE k - 1 + 1
      BY <3>1, FS_Interval
    <3> QED
      BY <3>1, <3>2
  <2>2. IsFiniteSet(keep) /\ Cardinality(keep) = k /\ order \in [1..k -> keep]
    BY <1>1, <1>4 DEF k
  <2>3. order \in Injection(1..k, keep)
    BY <1>5, <2>2 DEF Injection, IsInjective
  <2>4. order \in Surjection(1..k, keep)
    BY <2>1, <2>2, <2>3, FS_Injection
  <2> QED  BY <2>4 DEF Surjection, keep
<1>8. /\ DOMAIN order = 1..k /\ k \in Nat /\ k <= Len(items)
      /\ \A n \in 1..k : order[n] \in DOMAIN items /\ items[order[n]].status # "done"
      /\ \A m, n \in 1..k : order[m] = order[n] => m = n
  BY <1>5
<1>9. ClearedAlong(order, k)
  BY ONLY <1>6, <1>7, <1>8 DEF ClearedAlong
<1> QED  BY <1>9

\* What is cleared was done; the rest stays, in order.
LEMMA ClearStep == ASSUME QueueInv, ClearCompleted PROVE QueueInv'
<1>1. PICK order, k : ClearedAlong(order, k)
  BY ClearedList
<1>2. UNCHANGED <<running, awaited, calls, posted, closed, made, retries>>
  BY DEF ClearCompleted
<1>3. /\ items \in Seq(Item) /\ DOMAIN items = 1..Len(items) /\ Len(items) \in Nat
      /\ Len(items) <= made /\ made \in Nat
      /\ \A m \in DOMAIN items : items[m].id <= made
      /\ \A l, m \in DOMAIN items : items[l].id = items[m].id => l = m
  BY MadeType DEF QueueInv, ListOK
<1>5. /\ DOMAIN order = 1..k /\ k \in Nat /\ k <= Len(items)
      /\ \A n \in 1..k : order[n] \in DOMAIN items /\ items[order[n]].status # "done"
      /\ \A m, n \in 1..k : order[m] = order[n] => m = n
  BY <1>1 DEF ClearedAlong
<1>6. /\ items' \in Seq(Item) /\ Len(items') = k /\ DOMAIN items' = 1..k
      /\ \A n \in 1..k : items'[n] = items[order[n]]
  BY <1>1 DEF ClearedAlong
<1>7. ListOK(items', made)
  BY <1>3, <1>5, <1>6 DEF ListOK
<1>8. Drained'
  BY <1>2, <1>5, <1>6 DEF QueueInv, Drained, Queued
<1>9. \A n \in DOMAIN items : items[n].status # "done" => \E m \in 1..k : order[m] = n
  BY <1>1 DEF ClearedAlong
<1>10. Listed(items', awaited)
  <2>1. Listed(items, awaited)
    BY DEF QueueInv
  <2>2. ASSUME NEW i \in awaited
        PROVE  \E n \in DOMAIN items' :
                  items'[n].id = i /\ items'[n].status \in {"active", "cancelled", "queued"}
    <3>1. PICK n \in DOMAIN items :
             items[n].id = i /\ items[n].status \in {"active", "cancelled", "queued"}
      BY <2>1 DEF Listed
    <3>2. PICK m \in 1..k : order[m] = n
      BY <1>9, <3>1
    <3> QED  BY <1>6, <3>1, <3>2
  <2>3. \A n \in DOMAIN items' : items'[n].status = "active" => items'[n].id \in awaited
    BY <1>5, <1>6, <2>1 DEF Listed
  <2> QED  BY <2>2, <2>3 DEF Listed
<1>11. CountsOK' /\ CallsOK' /\ LoopOK'
  BY <1>2 DEF QueueInv, CountsOK, CallsOK, LoopOK, InFlight
<1> QED  BY <1>2, <1>7, <1>8, <1>10, <1>11 DEF QueueInv

\* Closing the tab cancels what is active.
LEMMA CloseStep == ASSUME QueueInv, CloseTab PROVE QueueInv'
<1> DEFINE active == {i \in Ids : Is(i, "active")}
<1>1. /\ items' = [n \in DOMAIN items |-> IF items[n].id \in active
                       THEN [items[n] EXCEPT !.status = "cancelled"] ELSE items[n]]
      /\ posted' = posted \cup active /\ closed' = TRUE
      /\ UNCHANGED <<running, awaited, calls, made, retries>>
  BY DEF CloseTab
<1>2. /\ items \in Seq(Item) /\ DOMAIN items = 1..Len(items) /\ Len(items) \in Nat
      /\ ListOK(items, made) /\ active \subseteq Ids
  BY DEF QueueInv, ListOK
<1> HIDE DEF active
<1>3. ASSUME NEW n \in DOMAIN items
      PROVE  /\ items'[n] \in Item /\ items'[n].id = items[n].id
             /\ items'[n].status \in {items[n].status, "cancelled"}
  <2>1. items[n] \in Item
    BY <1>2
  <2> QED  BY <1>1, <2>1 DEF Item, Status
<1>4. items' \in Seq(Item) /\ Len(items') = Len(items) /\ DOMAIN items' = DOMAIN items
  BY <1>1, <1>2, <1>3
<1>5. ListOK(items', made)
  BY <1>2, <1>3, <1>4 DEF ListOK
<1>6. Listed(items', awaited)
  <2>1. Listed(items, awaited)
    BY DEF QueueInv
  <2>2. ASSUME NEW i \in awaited
        PROVE  \E n \in DOMAIN items' :
                  items'[n].id = i /\ items'[n].status \in {"active", "cancelled", "queued"}
    <3>1. PICK n \in DOMAIN items :
             items[n].id = i /\ items[n].status \in {"active", "cancelled", "queued"}
      BY <2>1 DEF Listed
    <3> QED  BY <1>3, <1>4, <3>1
  <2>3. \A n \in DOMAIN items' : items'[n].status = "active" => items'[n].id \in awaited
    BY <1>3, <1>4, <2>1 DEF Listed
  <2> QED  BY <2>2, <2>3 DEF Listed
<1>7. Drained'
  BY <1>1, <1>3, <1>4 DEF QueueInv, Drained, Queued
<1>8. CountsOK' /\ CallsOK' /\ LoopOK'
  BY <1>1, <1>2 DEF QueueInv, CountsOK, CallsOK, LoopOK, InFlight
<1> QED  BY <1>1, <1>5, <1>6, <1>7, <1>8 DEF QueueInv

\* A stream that ends leaves the loop to its next turn.
LEMMA StreamStep == ASSUME QueueInv, NEW i \in Ids, Stream(i) PROVE QueueInv'
<1>1. /\ CallsOK /\ LoopOK /\ ListOK(items, made) /\ made \in Nat /\ Listed(items, awaited)
      /\ "done" \in Status /\ "failed" \in Status
  BY MadeType DEF QueueInv, Status
<1>2. i \in awaited /\ ~InFlight(i) /\ UNCHANGED <<posted, closed, made, retries>>
  BY DEF Stream, StreamEnds, StreamFails, InFlight
<1> DEFINE a == awaited \ {i}
<1>3. /\ a = {} /\ a \in SUBSET Ids /\ (\A j \in Ids : ~InFlight(j))
      /\ \A n \in DOMAIN items : items[n].status = "active" => items[n].id = i
  BY <1>1, <1>2 DEF LoopOK, Listed
<1>4. ASSUME NEW s \in {"done", "failed"}
      PROVE  ListOK(Updated(items, i, s), made) /\ Listed(Updated(items, i, s), a)
  <2> DEFINE u == Updated(items, i, s)
  <2>1. s \in Status
    BY <1>1
  <2>2. /\ ListOK(u, made) /\ DOMAIN u = DOMAIN items
        /\ \A m \in DOMAIN items :
              /\ u[m].id = items[m].id
              /\ u[m].status = IF items[m].id = i THEN s ELSE items[m].status
    BY <1>1, <2>1, UpdatedList
  <2> HIDE DEF u
  <2>3. Listed(u, a)
    BY <1>3, <2>2 DEF Listed
  <2> QED  BY <2>2, <2>3 DEF u
<1>5. ASSUME Is(i, "cancelled") PROVE Listed(items, a)
  <2>1. PICK n \in DOMAIN items : items[n] = [id |-> i, status |-> "cancelled"]
    BY <1>5 DEF Is
  <2>2. \A m \in DOMAIN items : items[m].id = i => m = n
    BY <1>1, <2>1 DEF ListOK
  <2>3. \A m \in DOMAIN items : items[m].status # "active"
    BY <1>3, <2>1, <2>2
  <2> QED  BY <1>3, <2>3 DEF Listed
<1>6. \E its : ListOK(its, made) /\ Listed(its, a) /\ Turn(its, a)
  <2>1. CASE StreamEnds(i)
    BY <1>4, <2>1 DEF StreamEnds
  <2>2. CASE StreamFails(i)
    BY <1>1, <1>4, <1>5, <2>2 DEF StreamFails
  <2> QED  BY <2>1, <2>2 DEF Stream
<1> HIDE DEF a
<1>7. CallsOK' /\ ListOK(items', made) /\ LoopOK' /\ Drained' /\ Listed(items', awaited')
  BY <1>1, <1>3, <1>6, TurnKeeps
<1>8. CountsOK'
  BY <1>2 DEF QueueInv, CountsOK
<1> QED  BY <1>2, <1>7, <1>8 DEF QueueInv

\* The bridge's threads do not start a call.
LEMMA BridgeStep == ASSUME QueueInv, NEW i \in Ids, CancelArrives(i) \/ CallSteps(i) PROVE QueueInv'
<1>1. /\ UNCHANGED <<items, running, awaited, closed, made, retries>> /\ posted' \subseteq posted
      /\ CallsOK /\ LoopOK /\ ListOK(items, made) /\ Drained /\ Listed(items, awaited) /\ CountsOK
  BY DEF QueueInv, CancelArrives, CallSteps
<1>2. \/ calls' = calls
      \/ /\ InFlight(i)
         /\ \E phase \in {"setup", "copy", "ok", "err"}, flag \in BOOLEAN :
               calls' = [calls EXCEPT ![i] = [phase |-> phase, flag |-> flag]]
  BY DEF CancelArrives, CallSteps, CallBecomes, At, InFlight
<1>3. CallsOK' /\ LoopOK'
  <2>1. CASE calls' = calls
    BY <1>1, <2>1 DEF CallsOK, LoopOK, InFlight
  <2>2. CASE InFlight(i) /\ \E phase \in {"setup", "copy", "ok", "err"}, flag \in BOOLEAN :
               calls' = [calls EXCEPT ![i] = [phase |-> phase, flag |-> flag]]
    <3>1. PICK phase \in {"setup", "copy", "ok", "err"}, flag \in BOOLEAN :
             calls' = [calls EXCEPT ![i] = [phase |-> phase, flag |-> flag]]
      BY <2>2
    <3>2. CallsOK'
      BY <1>1, <3>1 DEF CallsOK, CallRecs
    <3>3. \A j \in Ids : j # i => calls'[j] = calls[j]
      BY <1>1, <3>1 DEF CallsOK
    <3> QED  BY <1>1, <2>2, <3>2, <3>3 DEF LoopOK, InFlight
  <2> QED  BY <1>2, <2>1, <2>2
<1>4. CountsOK' /\ Drained' /\ ListOK(items', made') /\ Listed(items', awaited')
  BY <1>1 DEF CountsOK, Drained, Queued
<1> QED  BY <1>3, <1>4 DEF QueueInv

-----------------------------------------------------------------------------
\* The empty queue satisfies the invariant.
LEMMA QueueInitially == QueueInit => QueueInv
<1> SUFFICES ASSUME QueueInit PROVE QueueInv
  OBVIOUS
<1>1. CountsOK
  <2>1. posted \subseteq Ids /\ closed \in BOOLEAN
    BY DEF QueueInit
  <2>2. made \in 0..MaxItems /\ retries \in 0..MaxRetries
    BY BoundsAssumption DEF QueueInit
  <2> QED  BY <2>1, <2>2 DEF CountsOK
<1>2. ListOK(items, made) /\ Listed(items, awaited) /\ Drained
  BY DEF QueueInit, ListOK, Listed, Drained, Queued
<1>3. CallsOK /\ LoopOK
  BY DEF QueueInit, CallsOK, CallRecs, At, LoopOK, InFlight
<1> QED  BY <1>1, <1>2, <1>3 DEF QueueInv

\* Every step keeps it.
LEMMA QueueInductive == QueueInv /\ [QueueNext]_queueVars => QueueInv'
<1> SUFFICES ASSUME QueueInv, [QueueNext]_queueVars PROVE QueueInv'
  OBVIOUS
<1>1. CASE UNCHANGED queueVars
  BY <1>1 DEF queueVars, QueueInv, CountsOK, CallsOK, LoopOK, InFlight, Drained, Queued
<1>2. CASE User
  BY <1>2, EnqueueStep, CancelStep, RetryStep, ClearStep, CloseStep DEF User
<1>3. ASSUME NEW i \in Ids, Stream(i) \/ CancelArrives(i) \/ CallSteps(i) PROVE QueueInv'
  BY <1>3, StreamStep, BridgeStep
<1> QED  BY <1>1, <1>2, <1>3 DEF QueueNext

\* The invariant of every behaviour.
LEMMA QueueInvariant == QueueSpec => []QueueInv
<1>1. QueueInit => QueueInv
  BY QueueInitially
<1>2. QueueInv /\ [QueueNext]_queueVars => QueueInv'
  BY QueueInductive
<1> QED  BY <1>1, <1>2, PTL DEF QueueSpec

\* The queue, its loop and the calls keep their types.
THEOREM QueueTypeCorrect == QueueSpec => []QueueTypeOK
  BY TypeParts, QueueInvariant, PTL

-----------------------------------------------------------------------------
(* What becomes of a queued transfer                                        *)

\* Transfer i is queued in the list its.
QueuedIn(its, i) == \E n \in DOMAIN its : its[n].id = i /\ its[n].status = "queued"

\* It stays queued, is cancelled, or starts alone.
Fate(i) ==
    \/ Is(i, "queued")'
    \/ Is(i, "cancelled")'
    \/ Is(i, "active")' /\ awaited' = {i} /\ calls'[i].phase = "setup"

\* A record of the list is known by its two fields.
LEMMA IsField ==
  ASSUME NEW its, its \in Seq(Item), items' = its, NEW i, NEW s \in {"queued", "cancelled", "active"},
         \E n \in DOMAIN its : its[n].id = i /\ its[n].status = s
  PROVE  Is(i, s)'
<1>1. PICK n \in DOMAIN its : its[n].id = i /\ its[n].status = s
  OBVIOUS
<1>2. its[n] \in Item
  BY <1>1
<1>3. its[n] = [id |-> i, status |-> s]
  BY <1>1, <1>2 DEF Item
<1> QED  BY <1>1, <1>3 DEF Is

\* The loop's next turn keeps a queued transfer or starts it.
LEMMA TurnTakes ==
  ASSUME CallsOK, NEW n \in Nat, NEW its, ListOK(its, n), Turn(its, {}),
         NEW i \in Ids, QueuedIn(its, i)
  PROVE  Fate(i)
<1>1. PICK q \in DOMAIN its : its[q].id = i /\ its[q].status = "queued"
  BY DEF QueuedIn
<1>2. q \in Queued(its)
  BY <1>1 DEF Queued
<1>3. PICK f \in Queued(its) :
        /\ items' = Updated(its, its[f].id, "active") /\ awaited' = {} \cup {its[f].id}
        /\ CallBecomes(its[f].id, At("setup", FALSE))
  BY <1>2 DEF Turn
<1> DEFINE j == its[f].id
<1> DEFINE new == Updated(its, j, "active")
<1>4. /\ new \in Seq(Item) /\ DOMAIN new = DOMAIN its
      /\ \A m \in DOMAIN its :
            /\ new[m].id = its[m].id
            /\ new[m].status = IF its[m].id = j THEN "active" ELSE its[m].status
  <2>1. "active" \in Status
    BY DEF Status
  <2> QED  BY <2>1, UpdatedList DEF ListOK
<1>5. items' = new /\ awaited' = {j} /\ calls' = [calls EXCEPT ![j] = At("setup", FALSE)]
  BY <1>3 DEF CallBecomes
<1> HIDE DEF new, j
<1>6. CASE j = i
  <2>1. new[q].id = i /\ new[q].status = "active" /\ q \in DOMAIN new
    BY <1>1, <1>4, <1>6
  <2>2. Is(i, "active")'
    BY <1>4, <1>5, <2>1, IsField
  <2>3. calls'[i].phase = "setup"
    BY <1>5, <1>6 DEF CallsOK, At
  <2> QED  BY <1>5, <1>6, <2>2, <2>3 DEF Fate
<1>7. CASE j # i
  <2>1. new[q].id = i /\ new[q].status = "queued" /\ q \in DOMAIN new
    BY <1>1, <1>4, <1>7
  <2>2. Is(i, "queued")'
    BY <1>4, <1>5, <2>1, IsField
  <2> QED  BY <2>2 DEF Fate
<1> QED  BY <1>6, <1>7

\* So does a call of _pump.
LEMMA PumpTakes ==
  ASSUME CallsOK, LoopOK, NEW n \in Nat, NEW its, ListOK(its, n), Pump(its),
         NEW i \in Ids, QueuedIn(its, i)
  PROVE  Fate(i)
<1>1. CASE running
  <2>1. items' = its /\ its \in Seq(Item)
    BY <1>1 DEF Pump, ListOK
  <2>2. Is(i, "queued")'
    BY <2>1, IsField DEF QueuedIn
  <2> QED  BY <2>2 DEF Fate
<1>2. CASE ~running
  <2>1. awaited = {} /\ Turn(its, awaited)
    BY <1>2 DEF LoopOK, Pump
  <2> QED  BY <2>1, TurnTakes
<1> QED  BY <1>1, <1>2

\* The update of another transfer's status leaves it queued.
LEMMA UpdatedKeepsQueued ==
  ASSUME NEW n \in Nat, NEW its, ListOK(its, n), NEW i, NEW k, NEW s \in Status,
         QueuedIn(its, i), k # i \/ s = "queued"
  PROVE  ListOK(Updated(its, k, s), n) /\ QueuedIn(Updated(its, k, s), i)
<1> DEFINE new == Updated(its, k, s)
<1>1. /\ ListOK(new, n) /\ DOMAIN new = DOMAIN its
      /\ \A m \in DOMAIN its :
            /\ new[m].id = its[m].id
            /\ new[m].status = IF its[m].id = k THEN s ELSE its[m].status
  BY UpdatedList
<1> HIDE DEF new
<1>2. PICK q \in DOMAIN its : its[q].id = i /\ its[q].status = "queued"
  BY DEF QueuedIn
<1>3. new[q].id = i /\ new[q].status = "queued" /\ q \in DOMAIN new
  BY <1>1, <1>2
<1>4. QueuedIn(new, i)
  BY <1>3 DEF QueuedIn
<1> QED  BY <1>1, <1>4 DEF new

\* What an enqueue appends leaves the others where they are.
LEMMA EnqueueTakes ==
  ASSUME QueueInv, NEW n \in Ids, Enqueue(n), NEW i \in Ids, QueuedIn(items, i)
  PROVE  Fate(i)
<1>1. PICK its : EnqueuedAs(its, n)
  BY EnqueuedList
<1>2. QueuedIn(its, i) /\ Pump(its) /\ ListOK(its, made + n)
  BY <1>1 DEF EnqueuedAs, QueuedIn
<1>3. made + n \in Nat
  BY MadeType
<1> QED  BY <1>2, <1>3, PumpTakes DEF QueueInv

\* What is queued is not cleared.
LEMMA ClearKeepsQueued ==
  ASSUME QueueInv, ClearCompleted, NEW i \in Ids, QueuedIn(items, i)
  PROVE  QueuedIn(items', i)
<1>1. PICK order, k : ClearedAlong(order, k)
  BY ClearedList
<1>2. PICK q \in DOMAIN items : items[q].id = i /\ items[q].status = "queued"
  BY DEF QueuedIn
<1>3. PICK m \in 1..k : order[m] = q
  BY <1>1, <1>2 DEF ClearedAlong
<1> QED  BY <1>1, <1>2, <1>3 DEF ClearedAlong, QueuedIn

\* Every step but the end of its own earlier call.
LEMMA StepTakes ==
  ASSUME QueueInv, QueueNext, NEW i \in Ids, Is(i, "queued"), i \notin awaited
  PROVE  Fate(i)
<1>1. /\ QueuedIn(items, i) /\ CallsOK /\ LoopOK /\ ListOK(items, made) /\ made \in Nat
      /\ items \in Seq(Item)
  <2>1. QueuedIn(items, i)
    BY DEF Is, QueuedIn
  <2> QED  BY <2>1, MadeType DEF QueueInv, ListOK
<1>2. ASSUME NEW n \in Ids, Enqueue(n) PROVE Fate(i)
  BY <1>1, <1>2, EnqueueTakes
<1>3. ASSUME NEW k \in Ids, CancelQueued(k) \/ CancelActive(k) PROVE Fate(i)
  <2>1. items' = Updated(items, k, "cancelled") /\ "cancelled" \in Status
    BY <1>3 DEF CancelQueued, CancelActive, Status
  <2>2. CASE k = i
    <3>1. /\ ListOK(items', made)
          /\ \E n \in DOMAIN items' : items'[n].id = i /\ items'[n].status = "cancelled"
      BY <1>1, <2>1, <2>2, UpdatedList DEF QueuedIn
    <3>2. items' \in Seq(Item)
      BY <3>1 DEF ListOK
    <3>3. Is(i, "cancelled")'
      BY <3>1, <3>2, IsField
    <3> QED  BY <3>3 DEF Fate
  <2>3. CASE k # i
    <3>1. ListOK(items', made) /\ QueuedIn(items', i)
      BY <1>1, <2>1, <2>3, UpdatedKeepsQueued
    <3>2. Is(i, "queued")'
      BY <3>1, IsField DEF ListOK, QueuedIn
    <3> QED  BY <3>2 DEF Fate
  <2> QED  BY <2>2, <2>3
<1>4. ASSUME NEW k \in Ids, Retry(k) PROVE Fate(i)
  <2>1. Pump(Updated(items, k, "queued")) /\ "queued" \in Status
    BY <1>4 DEF Retry, Status
  <2>2. ListOK(Updated(items, k, "queued"), made) /\ QueuedIn(Updated(items, k, "queued"), i)
    BY <1>1, <2>1, UpdatedKeepsQueued
  <2> QED  BY <1>1, <2>1, <2>2, PumpTakes
<1>5. ASSUME ClearCompleted PROVE Fate(i)
  <2>1. ListOK(items', made')
    BY <1>5, ClearStep DEF QueueInv
  <2>2. QueuedIn(items', i)
    BY <1>1, <1>5, ClearKeepsQueued
  <2>3. Is(i, "queued")'
    BY <2>1, <2>2, IsField DEF ListOK, QueuedIn
  <2> QED  BY <2>3 DEF Fate
<1>6. ASSUME CloseTab PROVE Fate(i)
  <2> DEFINE active == {j \in Ids : Is(j, "active")}
  <2>1. items' = [n \in DOMAIN items |-> IF items[n].id \in active
                       THEN [items[n] EXCEPT !.status = "cancelled"] ELSE items[n]]
    BY <1>6 DEF CloseTab
  <2> HIDE DEF active
  <2>2. PICK q \in DOMAIN items : items[q].id = i /\ items[q].status = "queued"
    BY <1>1 DEF QueuedIn
  <2>3. q \in DOMAIN items' /\ items'[q].id = i /\ items'[q].status \in {"queued", "cancelled"}
    <3>1. items[q] \in Item
      BY <1>1, <2>2
    <3> QED  BY <2>1, <2>2, <3>1 DEF Item
  <2>4. items' \in Seq(Item)
    BY <1>6, CloseStep DEF QueueInv, ListOK
  <2>5. Is(i, "queued")' \/ Is(i, "cancelled")'
    BY <2>3, <2>4, IsField
  <2> QED  BY <2>5 DEF Fate
<1>7. ASSUME NEW k \in Ids, Stream(k) PROVE Fate(i)
  <2>1. k \in awaited /\ k # i /\ awaited \ {k} = {}
    BY <1>1, <1>7 DEF Stream, StreamEnds, StreamFails, LoopOK
  <2>2. \E its : ListOK(its, made) /\ QueuedIn(its, i) /\ Turn(its, {})
    <3>1. "done" \in Status /\ "failed" \in Status
      BY DEF Status
    <3>2. \A s \in {"done", "failed"} :
             ListOK(Updated(items, k, s), made) /\ QueuedIn(Updated(items, k, s), i)
      BY <1>1, <2>1, <3>1, UpdatedKeepsQueued
    <3>3. CASE StreamEnds(k)
      BY <2>1, <3>2, <3>3 DEF StreamEnds
    <3>4. CASE StreamFails(k)
      BY <1>1, <2>1, <3>2, <3>4 DEF StreamFails
    <3> QED  BY <1>7, <3>3, <3>4 DEF Stream
  <2> QED  BY <1>1, <2>2, TurnTakes
<1>8. ASSUME items' = items PROVE Fate(i)
  BY <1>8 DEF Fate, Is
<1>9. ASSUME NEW k \in Ids, CancelArrives(k) \/ CallSteps(k) PROVE items' = items
  BY <1>9 DEF CancelArrives, CallSteps
<1> QED  BY <1>2, <1>3, <1>4, <1>5, <1>6, <1>7, <1>8, <1>9 DEF QueueNext, User

\* A queued transfer waits only while the loop waits for another one, and
\* leaves the queue only by a cancellation or because its call starts; the one
\* exception is a transfer retried while its own call winds down, whose end
\* marks it done or failed without it having run again.
THEOREM NothingForgotten == QueueSpec => []NoneForgotten /\ NoneSkipped
<1>1. QueueInv => NoneForgotten
  <2> SUFFICES ASSUME QueueInv, NEW i \in Ids, Is(i, "queued")
               PROVE  running /\ (RetriedEarly(i) \/ awaited \ {i} # {})
    BY DEF NoneForgotten
  <2>1. Queued(items) # {}
    BY DEF Is, Queued
  <2>2. running /\ awaited # {}
    BY <2>1 DEF QueueInv, Drained, LoopOK
  <2> QED  BY <2>2 DEF RetriedEarly
<1>2. QueueInv /\ [QueueNext]_queueVars =>
        [\A i \in Ids :
           Is(i, "queued") /\ ~RetriedEarly(i) =>
              \/ Is(i, "queued")'
              \/ Is(i, "cancelled")'
              \/ Is(i, "active")' /\ awaited' = {i} /\ calls'[i].phase = "setup"]_queueVars
  BY StepTakes DEF RetriedEarly, Fate
<1> QED  BY <1>1, <1>2, QueueInvariant, PTL DEF QueueSpec, NoneSkipped

\* The transfer whose stream is awaited is in the list and not ended, and what
\* is shown active is awaited.
THEOREM AwaitedStaysListed == QueueSpec => []AwaitedIsListed
<1>1. QueueInv => AwaitedIsListed
  <2> SUFFICES ASSUME QueueInv, NEW i \in Ids
               PROVE  /\ i \in awaited => Is(i, "active") \/ Is(i, "cancelled") \/ Is(i, "queued")
                      /\ Is(i, "active") => i \in awaited
    BY DEF AwaitedIsListed
  <2>1. Listed(items, awaited) /\ items \in Seq(Item)
    BY DEF QueueInv, ListOK
  <2>2. ASSUME i \in awaited PROVE Is(i, "active") \/ Is(i, "cancelled") \/ Is(i, "queued")
    <3>1. PICK n \in DOMAIN items :
             items[n].id = i /\ items[n].status \in {"active", "cancelled", "queued"}
      BY <2>1, <2>2 DEF Listed
    <3>a. items[n] \in Item
      BY <2>1
    <3>2. items[n] = [id |-> i, status |-> items[n].status]
      BY <3>1, <3>a DEF Item
    <3> QED  BY <3>1, <3>2 DEF Is
  <2>3. Is(i, "active") => i \in awaited
    BY <2>1 DEF Listed, Is
  <2> QED  BY <2>2, <2>3
<1> QED  BY <1>1, QueueInvariant, PTL

\* The queue is sequential: when a call starts, every earlier one has returned,
\* its own included.
THEOREM Sequential == QueueSpec => OneAtATime
<1> DEFINE Alone == \A i \in Ids :
                      calls'[i].phase = "setup" /\ calls[i].phase # "setup"
                         => \A j \in Ids : ~InFlight(j)
<1>1. ASSUME calls' = calls PROVE Alone
  BY <1>1
<1>2. ASSUME \A j \in Ids : ~InFlight(j) PROVE Alone
  BY <1>2
<1>3. ASSUME QueueInv, NEW its, Pump(its) PROVE Alone
  <2>1. CASE running
    BY <1>1, <1>3, <2>1 DEF Pump
  <2>2. CASE ~running
    BY <1>2, <1>3, <2>2 DEF QueueInv, LoopOK
  <2> QED  BY <2>1, <2>2
<1>4. ASSUME QueueInv, NEW i \in Ids, Stream(i) PROVE Alone
  BY <1>2, <1>4 DEF QueueInv, LoopOK, Stream, StreamEnds, StreamFails, InFlight
<1>5. ASSUME QueueInv, NEW i \in Ids, CallSteps(i) PROVE Alone
  <2>1. CallsOK /\ InFlight(i)
    BY <1>5 DEF QueueInv, CallSteps
  <2>2. PICK phase \in {"setup", "copy", "ok", "err"}, flag \in BOOLEAN :
          calls' = [calls EXCEPT ![i] = [phase |-> phase, flag |-> flag]]
    BY <1>5 DEF CallSteps, CallBecomes, At
  <2>3. calls'[i].phase = phase /\ \A j \in Ids : j # i => calls'[j] = calls[j]
    BY <2>1, <2>2 DEF CallsOK
  <2>4. calls'[i].phase = "setup" => calls[i].phase = "setup"
    BY <1>5, <2>1, <2>3 DEF CallSteps, InFlight, CallOf!Next, CallOf!Register, CallOf!Trip, CallOf!Succeed,
       CallOf!Fail
  <2> QED  BY <2>3, <2>4
<1>6. ASSUME QueueInv, NEW i \in Ids, CancelArrives(i) PROVE Alone
  BY <1>6 DEF QueueInv, CallsOK, CancelArrives, CallBecomes, At
<1> HIDE DEF Alone
<1>7. ASSUME QueueInv, User PROVE Alone
  BY <1>1, <1>3, <1>7 DEF User, Enqueue, CancelQueued, CancelActive, Retry, ClearCompleted, CloseTab
<1>8. QueueInv /\ [QueueNext]_queueVars => [Alone]_queueVars
  BY <1>4, <1>5, <1>6, <1>7 DEF QueueNext
<1>9. QueueInv /\ [QueueNext]_queueVars
        => [\A i \in Ids :
              calls'[i].phase = "setup" /\ calls[i].phase # "setup"
                 => \A j \in Ids : ~InFlight(j)]_queueVars
  BY <1>8 DEF Alone
<1> QED  BY <1>9, QueueInvariant, PTL DEF QueueSpec, OneAtATime
================================================================================
