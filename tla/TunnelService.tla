---------------------------- MODULE TunnelService ----------------------------
(***************************************************************************)
(* What the tunnel registry promises its callers, without threads, engines *)
(* or time.  A start begins only on a key that has no tunnel, and opens at *)
(* most one, which nobody was given before.  That tunnel is the key's      *)
(* until it is closed, or until another start opens the key that had begun *)
(* before it; then it is never the tunnel of a key again.                  *)
(***************************************************************************)
EXTENDS Naturals

CONSTANTS Keys, Callers, Ids, NoKey

None == 0

VARIABLES
    entry,   \* the tunnel of each key, or None
    used,    \* tunnels opened, or that failed to open
    pending  \* the key each caller's start is to open, or NoKey

vars == <<entry, used, pending>>

Init ==
    /\ entry = [k \in Keys |-> None]
    /\ used = {}
    /\ pending = [c \in Callers |-> NoKey]

Begin(c, k) ==
    /\ pending[c] = NoKey
    /\ entry[k] = None
    /\ pending' = [pending EXCEPT ![c] = k]
    /\ UNCHANGED <<entry, used>>

Over(c) ==
    /\ pending[c] # NoKey
    /\ pending' = [pending EXCEPT ![c] = NoKey]

Open(c, b) ==
    /\ Over(c)
    /\ b \notin used
    /\ entry' = [entry EXCEPT ![pending[c]] = b]
    /\ used' = used \union {b}

\* Before there was anything to open, or after.
Fail(c) ==
    /\ Over(c)
    /\ used' = used \/ \E b \in Ids \ used : used' = used \union {b}
    /\ UNCHANGED entry

\* A stop closes one key; a cleanup or a sweep closes several at once.
Close(S) ==
    /\ entry' = [k \in Keys |-> IF k \in S THEN None ELSE entry[k]]
    /\ UNCHANGED <<used, pending>>

Next ==
    \/ \E c \in Callers, k \in Keys : Begin(c, k)
    \/ \E c \in Callers, b \in Ids : Open(c, b)
    \/ \E c \in Callers : Fail(c)
    \/ \E S \in SUBSET Keys : Close(S)

Spec == Init /\ [][Next]_vars
=============================================================================
