---------------------------- MODULE TransferQueue ----------------------------
(***************************************************************************)
(* The transfer queue of an SFTP tab                                       *)
(* (lib/src/features/sftp/transfer_queue_provider.dart, the tab's dispose  *)
(* of sftp_dual_view.dart) over the calls of native/src/sftp.rs.           *)
(*                                                                         *)
(* The queue runs on the UI's event loop, where a handler is not           *)
(* interrupted; _pump holds the loop of one transfer after the other       *)
(* across the awaits of _runOne.  Each transfer is one call of the bridge  *)
(* (TransferCall), on a thread of its own.  A cancellation is posted to    *)
(* the bridge too, and takes effect when a thread gets to it.              *)
(***************************************************************************)
EXTENDS Naturals, Sequences, FiniteSets

CONSTANTS
    MaxItems,   \* bound: transfers enqueued
    MaxRetries  \* bound: retries, in all

ASSUME BoundsAssumption == MaxItems \in Nat /\ MaxRetries \in Nat

Ids == 1..MaxItems

VARIABLES
    items,    \* the queue's list: the id and the status of each
    running,  \* _running
    awaited,  \* the transfers whose stream a _runOne awaits
    calls,    \* their calls of the bridge: phase and flag
    posted,   \* cancellations not yet executed
    closed,   \* the tab is gone
    made,     \* transfers enqueued so far
    retries   \* retries so far

Status == {"queued", "active", "done", "failed", "cancelled"}
Item == [id : Ids, status : Status]

queueVars == <<items, running, awaited, calls, posted, closed, made, retries>>

Is(i, s) == \E n \in DOMAIN items : items[n] = [id |-> i, status |-> s]

\* _update of the status of transfer i.
Updated(its, i, s) ==
    [n \in DOMAIN its |-> IF its[n].id = i THEN [its[n] EXCEPT !.status = s] ELSE its[n]]

-----------------------------------------------------------------------------
(* The calls of the bridge *)

CallOf(i) == INSTANCE TransferCall WITH phase <- calls[i].phase, flag <- calls[i].flag

InFlight(i) == calls[i].phase \in {"setup", "copy"}

\* A step of the call of transfer i alone, to c.
CallBecomes(i, c) == calls' = [calls EXCEPT ![i] = c]

At(phase, flag) == [phase |-> phase, flag |-> flag]

-----------------------------------------------------------------------------
(* _pump *)

Queued(its) == {n \in DOMAIN its : its[n].status = "queued"}

\* The loop's next turn on the list its, with the transfers a still awaited:
\* the first queued transfer starts, or the loop ends.
Turn(its, a) ==
    IF Queued(its) = {}
    THEN /\ items' = its
         /\ awaited' = a
         /\ running' = FALSE
         /\ UNCHANGED calls
    ELSE \E n \in Queued(its) :
         /\ \A m \in Queued(its) : n <= m
         /\ items' = Updated(its, its[n].id, "active")
         /\ awaited' = a \union {its[n].id}
         /\ running' = TRUE
         /\ CallBecomes(its[n].id, At("setup", FALSE))

\* Mutant: _running is not looked at.
PumpAgain(its) == Turn(its, awaited)

\* A call of _pump returns at once while the loop runs.
Pump(its) ==
    IF running
    THEN items' = its /\ UNCHANGED <<running, awaited, calls>>
    ELSE Turn(its, awaited)

-----------------------------------------------------------------------------
QueueInit ==
    /\ items = <<>>
    /\ running = FALSE
    /\ awaited = {}
    /\ calls = [i \in Ids |-> At("none", FALSE)]
    /\ posted = {}
    /\ closed = FALSE
    /\ made = 0 /\ retries = 0

Enqueue(n) ==
    /\ ~closed
    /\ made + n <= MaxItems
    /\ made' = made + n
    /\ Pump(items \o [m \in 1..n |-> [id |-> made + m, status |-> "queued"]])
    /\ UNCHANGED <<posted, closed, retries>>

CancelQueued(i) ==
    /\ ~closed
    /\ Is(i, "queued")
    /\ items' = Updated(items, i, "cancelled")
    /\ UNCHANGED <<running, awaited, calls, posted, closed, made, retries>>

CancelActive(i) ==
    /\ ~closed
    /\ Is(i, "active")
    /\ items' = Updated(items, i, "cancelled")
    /\ posted' = posted \union {i}
    /\ UNCHANGED <<running, awaited, calls, closed, made, retries>>

\* Only what failed or was cancelled, whether or not its call is over.
Retry(i) ==
    /\ ~closed
    /\ retries < MaxRetries
    /\ Is(i, "failed") \/ Is(i, "cancelled")
    /\ retries' = retries + 1
    /\ Pump(Updated(items, i, "queued"))
    /\ UNCHANGED <<posted, closed, made>>

\* The others keep their order.
ClearCompleted ==
    LET keep == {n \in DOMAIN items : items[n].status # "done"} IN
    /\ ~closed
    /\ keep # DOMAIN items
    /\ \E order \in [1..Cardinality(keep) -> keep] :
         /\ \A m, n \in DOMAIN order : m < n => order[m] < order[n]
         /\ items' = [n \in DOMAIN order |-> items[order[n]]]
    /\ UNCHANGED <<running, awaited, calls, posted, closed, made, retries>>

\* The tab's dispose cancels what is active; nobody can reach the queue after.
CloseTab ==
    /\ ~closed
    /\ closed' = TRUE
    /\ LET active == {i \in Ids : Is(i, "active")} IN
       /\ items' = [n \in DOMAIN items |->
                      IF items[n].id \in active
                      THEN [items[n] EXCEPT !.status = "cancelled"] ELSE items[n]]
       /\ posted' = posted \union active
    /\ UNCHANGED <<running, awaited, calls, made, retries>>

-----------------------------------------------------------------------------
(* _runOne's stream *)

\* The call has returned and dropped its sink: the stream ends, the transfer is
\* done.  The call's error goes to a future nobody awaits.
StreamEnds(i) ==
    /\ i \in awaited
    /\ ~InFlight(i)
    /\ Turn(Updated(items, i, "done"), awaited \ {i})
    /\ UNCHANGED <<posted, closed, made, retries>>

\* Mutant: the first error ends the loop, and nobody resets _running.
StreamFailsStuck(i) ==
    /\ i \in awaited
    /\ calls[i].phase = "err"
    /\ items' = IF Is(i, "cancelled") THEN items ELSE Updated(items, i, "failed")
    /\ awaited' = awaited \ {i}
    /\ UNCHANGED <<running, calls, posted, closed, made, retries>>

\* Should the bridge hand the error to the stream, the catch leaves a
\* cancelled transfer alone.
StreamFails(i) ==
    /\ i \in awaited
    /\ calls[i].phase = "err"
    /\ Turn(IF Is(i, "cancelled") THEN items ELSE Updated(items, i, "failed"),
            awaited \ {i})
    /\ UNCHANGED <<posted, closed, made, retries>>

-----------------------------------------------------------------------------
(* The bridge's threads *)

\* sftp_cancel_transfer: nothing, unless the flag is registered.
CancelArrives(i) ==
    /\ i \in posted
    /\ posted' = posted \ {i}
    /\ IF calls[i].phase = "copy" THEN CallBecomes(i, At("copy", TRUE))
       ELSE UNCHANGED calls
    /\ UNCHANGED <<items, running, awaited, closed, made, retries>>

CallSteps(i) ==
    /\ InFlight(i)
    /\ \E phase \in {"setup", "copy", "ok", "err"}, flag \in BOOLEAN :
          CallBecomes(i, At(phase, flag))
    /\ CallOf(i)!Next
    /\ UNCHANGED <<items, running, awaited, posted, closed, made, retries>>

-----------------------------------------------------------------------------
User ==
    \/ \E n \in Ids : Enqueue(n)
    \/ \E i \in Ids : CancelQueued(i) \/ CancelActive(i) \/ Retry(i)
    \/ ClearCompleted
    \/ CloseTab

Stream(i) == StreamEnds(i) \/ StreamFails(i)

QueueNext == User \/ \E i \in Ids : Stream(i) \/ CancelArrives(i) \/ CallSteps(i)

QueueSpec == QueueInit /\ [][QueueNext]_queueVars

\* The event loop gets to the end of a stream.  Nothing makes a call return:
\* an SSH session has no timeout.
QueueFairSpec == QueueSpec /\ \A i \in Ids : WF_queueVars(Stream(i))

-----------------------------------------------------------------------------
(* Properties *)

\* The queue, its loop and the calls keep their types.
QueueTypeOK ==
    /\ items \in Seq(Item) /\ Len(items) <= MaxItems
    /\ running \in BOOLEAN /\ closed \in BOOLEAN
    /\ awaited \subseteq Ids /\ posted \subseteq Ids
    /\ calls \in [Ids -> [phase : {"none", "setup", "copy", "ok", "err"},
                          flag : BOOLEAN]]
    /\ made \in 0..MaxItems /\ retries \in 0..MaxRetries

\* The queue is sequential: a call starts only when every earlier one has
\* returned, its own included, although a cancelled transfer can be retried
\* while its call winds down.
OneAtATime ==
    [][\A i \in Ids :
         calls'[i].phase = "setup" /\ calls[i].phase # "setup"
            => \A j \in Ids : ~InFlight(j)]_queueVars

\* Cancelled and retried while its own call was still winding down: what the
\* loop waits for is that call, and its end marks the transfer done or failed
\* without it having run again (transfer_queue_provider.dart:159).
RetriedEarly(i) == Is(i, "queued") /\ i \in awaited

\* A queued transfer waits only while the loop waits for another one, unless it
\* was retried early: no enqueue, retry, cancellation or failed transfer leaves
\* it behind.
NoneForgotten ==
    \A i \in Ids : Is(i, "queued") => running /\ (RetriedEarly(i) \/ awaited \ {i} # {})

\* What was not retried early leaves the queue only by being cancelled, or when
\* the loop starts its call and waits for it alone: no end of another's call,
\* no clearing and no closing of the tab takes it for done, or drops it.
NoneSkipped ==
    [][\A i \in Ids :
         Is(i, "queued") /\ ~RetriedEarly(i) =>
            \/ Is(i, "queued")'
            \/ Is(i, "cancelled")'
            \/ Is(i, "active")' /\ awaited' = {i} /\ calls'[i].phase = "setup"]_queueVars

\* The transfer whose stream is awaited is in the list, not yet done or failed,
\* whatever was cancelled, retried or cleared meanwhile: the catch of _runOne
\* looks it up, and what is shown active is awaited.
AwaitedIsListed ==
    \A i \in Ids :
        /\ i \in awaited => Is(i, "active") \/ Is(i, "cancelled") \/ Is(i, "queued")
        /\ Is(i, "active") => i \in awaited

\* If every call returns, a queued transfer is started or cancelled, unless it
\* was retried early: that one the end of its earlier call marks done.
QueuedStarts ==
    (\A i \in Ids : []<>~InFlight(i)) =>
        \A i \in Ids :
            Is(i, "queued") /\ ~RetriedEarly(i) ~> Is(i, "active") \/ Is(i, "cancelled")

\* A cancelled transfer stays cancelled until it is retried ("Mark cancelled
\* up-front (deterministic), then flip the Rust token; the running stream
\* errors out and `_runOne`'s catch leaves it cancelled",
\* transfer_queue_provider.dart:108-109).
CancelStands ==
    [][\A i \in Ids : Is(i, "cancelled") => (Is(i, "cancelled") \/ Is(i, "queued"))']_queueVars
=============================================================================
