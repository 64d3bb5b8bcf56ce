------------------------------ MODULE MCFleet ------------------------------
(***************************************************************************)
(* The workspace and the panels of one of its VMs, for TLC. Two accounts   *)
(* with a project each, or an older version's stored list; three presses.  *)
(* The bounds keep apart what does not meet: the presses are all on the    *)
(* workspace, or all on one panel.                                         *)
(***************************************************************************)
EXTENDS VmConsole

CONSTANTS a, b, p, q, s, o, n

VARIABLE scene

Stored == {[x \in Accounts |-> IF x = a THEN {p} ELSE {q}], [x \in Accounts |-> {}]}

Init ==
    /\ WorkspaceInit /\ ConsoleInit
    /\ active = a /\ saved \in Stored /\ global = {p}
    /\ existing = {s, o} /\ entries = [d \in Dirs |-> {n}]
    /\ scene = IF saved[b] = {} THEN "workspace" ELSE "any"

Plays(what) == scene \in {"any", what} /\ scene' = what

(* No press follows one made in the middle of something, and the third is  *)
(* made when next to nothing is under way.                                 *)
Patient == spoilt = {} /\ (presses < 2 \/ (Calm /\ Cardinality(loads) <= 1))

(* A panel is opened and has answered; what is pressed then may overlap.   *)
OnePanel ==
    /\ presses = 1 => calls = {}
    /\ \A c, d \in calls' : Panel(c) = Panel(d)

Next ==
    \/ Patient /\ WorkspacePresses /\ Plays("workspace") /\ UNCHANGED consoleVars
    \/ WorkspaceSteps /\ UNCHANGED <<consoleVars, scene>>
    \/ WorkspaceRests /\ menu = active /\ Presses /\ OnePanel /\ Plays("console")
       /\ WorkspaceStays
    \/ CallsGoOn /\ UNCHANGED <<workspaceVars, scene>>

vars == <<workspaceVars, consoleVars, scene>>

Spec == Init /\ [][Next]_vars /\ WorkspaceFairness /\ ConsoleFairness
=============================================================================
