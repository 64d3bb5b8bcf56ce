------------------------ MODULE ConnectionsProofs -------------------------
(***************************************************************************)
(* Theorems about Connections, for any keys, calls and checks.             *)
(*                                                                         *)
(* The single flight of connects is inductive once the place of a task     *)
(* says which operation it runs (Placed). That connects lose no backend    *)
(* needs in addition what a connect knows while it launches: whatever is   *)
(* registered under its key by then, a reconnection started (Clear).       *)
(***************************************************************************)
EXTENDS Connections, TLAPS

TaskOps == {"none", "connect", "retry", "disconnect", "client", "tick"}
TaskRec == [pc : Pcs, op : TaskOps, key : Keys \cup {Nobody}, answer : Ports]

RowsOK ==
    /\ rows \in [Keys -> Rows] /\ forward \in [Keys -> BOOLEAN]
    /\ snap \in [Tasks -> [Keys -> Rows]]
    /\ keys \in [Tasks -> SUBSET Keys]
FlightOK == inFlight \in [Keys -> Calls \cup {Nobody}] /\ task \in [Tasks -> TaskRec]
LibraryOK ==
    /\ entry \in [Keys -> Ports]
    /\ health \in [1..MaxStarts -> {"up", "deaf", "dead"}]
    /\ maker \in [1..MaxStarts -> {"none", "connect", "retry", "tick"}]
    /\ starts \in 0..MaxStarts
    /\ \A k \in Keys : entry[k] <= starts
StepsOK == calls \in 0..MaxCalls /\ strayStop \in [Keys -> BOOLEAN] /\ reaped \in [Keys -> BOOLEAN]
Typed   == RowsOK /\ FlightOK /\ LibraryOK /\ StepsOK

\* The place of a task says which operation it runs, and for which key.
Placed(t) ==
    LET pc == task[t].pc  op == task[t].op  k == task[t].key IN
    /\ pc = "access" => op = "connect"
    /\ pc \in {"find", "launch", "answer"} => op \in {"connect", "retry", "tick"} /\ k \in Keys
    /\ pc \in {"stop", "stopped"} => op = "disconnect" /\ k \in Keys
    /\ pc = "client" => op = "client" /\ k \in Keys
    /\ pc \in {"visit", "sweep", "mark"} => op = "tick" /\ k = Nobody
    /\ pc \in {"check", "judge", "latency"} => op = "tick" /\ k \in Keys
    /\ op \in {"connect", "retry", "disconnect", "client"} => t \in Calls
    /\ op = "connect" => k \in Keys /\ pc \in {"access", "find", "launch", "answer"}
    /\ op = "tick" => t \in Ticks
    /\ pc = "idle" <=> op = "none"

\* While a connect launches, what its key has is none of a connect's.
Clear(t) ==
    At(t, "launch") /\ task[t].op = "connect" /\ entry[task[t].key] # 0 =>
        maker[entry[task[t].key]] # "connect"

IInv == Typed /\ OneConnect /\ \A t \in Tasks : Placed(t) /\ Clear(t)

\* A row that is shown is a row.
LEMMA RowType ==
  /\ NoRow \in Rows /\ Blank \in [Keys -> Rows]
  /\ \A port \in Ports : \A auto \in BOOLEAN : \A known \in BOOLEAN :
        \A status \in {"disconnected", "connecting", "connected", "error"} :
           Row(status, port, 0, FALSE, auto, known) \in Rows
<1>1. 0 \in 0..MaxAttempts /\ 0 \in Ports
  BY ConnectionsAssumption DEF Ports
<1> QED
  BY <1>1 DEF Row, NoRow, Rows, Blank

\* What a row becomes in place stays a row.
LEMMA RowChange ==
  ASSUME NEW row \in Rows
  PROVE  /\ AfterFailure(row) \in Rows /\ Marked(row) \in Rows
         /\ \A auto \in BOOLEAN : [row EXCEPT !.autoReconnectEnabled = auto] \in Rows
         /\ [row EXCEPT !.status = "reconnecting", !.attempts = 0, !.due = TRUE] \in Rows
         /\ [row EXCEPT !.status = "reconnecting", !.attempts = 0, !.due = FALSE] \in Rows
         /\ [row EXCEPT !.due = TRUE] \in Rows
         /\ [row EXCEPT !.status = "error"] \in Rows
         /\ [row EXCEPT !.status = "connected", !.attempts = 0] \in Rows
<1>1. 0 \in 0..MaxAttempts /\ MaxAttempts \in 0..MaxAttempts
  BY ConnectionsAssumption
<1>2. AfterFailure(row) \in Rows
  <2>1. row.attempts \in 0..MaxAttempts
    BY DEF Rows
  <2>2. row.attempts + 1 < MaxAttempts => row.attempts + 1 \in 0..MaxAttempts
    BY <2>1, ConnectionsAssumption
  <2>3. CASE row.attempts + 1 >= MaxAttempts
    BY <1>1, <2>3 DEF AfterFailure, Rows
  <2>4. CASE row.attempts + 1 < MaxAttempts
    <3> DEFINE more == row.attempts + 1
    <3>1. more \in 0..MaxAttempts /\ ~(more >= MaxAttempts)
      BY <2>1, <2>2, <2>4, ConnectionsAssumption
    <3>2. AfterFailure(row) = [row EXCEPT !.status = "reconnecting", !.attempts = more, !.due = FALSE]
      BY <3>1 DEF AfterFailure
    <3> HIDE DEF more
    <3> QED
      BY <3>1, <3>2 DEF Rows
  <2> QED
    BY <2>1, <2>3, <2>4, ConnectionsAssumption
<1> QED
  BY <1>1, <1>2 DEF Rows, Marked

-----------------------------------------------------------------------------
(* What a step does to its own task; the others' stay.                     *)

Others(t) == \A u \in Tasks \ {t} : task'[u] = task[u]

\* A task that has nothing to do is one.
LEMMA IdleType == Idle \in TaskRec
<1>1. 0 \in Ports
  BY ConnectionsAssumption DEF Ports
<1> QED
  BY <1>1 DEF Idle, TaskRec, Pcs, TaskOps

\* A task that moves keeps its operation and its key.
LEMMA MoveEffect ==
  ASSUME FlightOK, NEW t \in Tasks, NEW pc \in Pcs, NEW ans \in Ports, Move(t, pc, ans)
  PROVE  /\ task' \in [Tasks -> TaskRec] /\ Others(t)
         /\ task'[t].pc = pc /\ task'[t].op = task[t].op
         /\ task'[t].key = task[t].key /\ task'[t].answer = ans
<1> DEFINE r == [task[t] EXCEPT !.pc = pc, !.answer = ans]
<1>1. r \in TaskRec /\ r.pc = pc /\ r.op = task[t].op /\ r.key = task[t].key /\ r.answer = ans
  BY DEF FlightOK, TaskRec
<1>2. task' = [task EXCEPT ![t] = r]
  BY DEF Move
<1> HIDE DEF r
<1> QED
  BY <1>1, <1>2 DEF FlightOK, Others

\* A check goes on to the next key, or to the sweep.
LEMMA OnwardsEffect ==
  ASSUME FlightOK, NEW t \in Tasks, NEW left, Onwards(t, left)
  PROVE  /\ task' \in [Tasks -> TaskRec] /\ Others(t)
         /\ task'[t].pc \in {"sweep", "visit"} /\ task'[t].op = task[t].op
         /\ task'[t].key = Nobody
<1> DEFINE p == IF left = {} THEN "sweep" ELSE "visit"
           r == [task[t] EXCEPT !.pc = p, !.key = Nobody, !.answer = 0]
<1>1. p \in {"sweep", "visit"} /\ p \in Pcs /\ 0 \in Ports
  BY ConnectionsAssumption DEF Pcs, Ports
<1>2. task' = [task EXCEPT ![t] = r]
  BY DEF Onwards
<1> HIDE DEF p
<1>3. r \in TaskRec /\ r.pc = p /\ r.op = task[t].op /\ r.key = Nobody
  BY <1>1 DEF FlightOK, TaskRec
<1> HIDE DEF r
<1> QED
  BY <1>1, <1>2, <1>3 DEF FlightOK, Others

\* A task that ends is idle.
LEMMA FinishEffect ==
  ASSUME FlightOK, NEW t \in Tasks, Finish(t)
  PROVE  task' \in [Tasks -> TaskRec] /\ Others(t) /\ task'[t] = Idle
  BY IdleType DEF FlightOK, Finish, Others

\* A step moves its own task to where it runs the same operation, or ends it.
LEMMA StepPlaced ==
  ASSUME Typed, NEW t \in Tasks, Placed(t), Step(t)
  PROVE  task' \in [Tasks -> TaskRec] /\ Others(t) /\ Placed(t)'
<1> USE DEF Typed, FlightOK, LibraryOK
<1>1. ASSUME Find(t)
      PROVE  task' \in [Tasks -> TaskRec] /\ Others(t) /\ Placed(t)'
  <2> DEFINE g == entry[task[t].key]
  <2>1. g \in Ports /\ 0 \in Ports /\ task[t].pc = "find"
    BY <1>1, ConnectionsAssumption DEF Find, At, Placed, Ports
  <2>2. CASE g # 0
    <3>1. Move(t, "answer", g)
      BY <1>1, <2>2 DEF Find
    <3> QED
      BY <2>1, <3>1, MoveEffect DEF Placed, Pcs
  <2>3. CASE g = 0
    <3>1. Move(t, "launch", 0)
      BY <1>1, <2>3 DEF Find
    <3> QED
      BY <2>1, <3>1, MoveEffect DEF Placed, Pcs
  <2> QED
    BY <2>2, <2>3
<1>2. ASSUME Launched(t)
      PROVE  task' \in [Tasks -> TaskRec] /\ Others(t) /\ Placed(t)'
  <2>1. starts' \in Ports /\ task[t].pc = "launch" /\ Move(t, "answer", starts')
    BY <1>2, ConnectionsAssumption DEF Launched, At, Ports
  <2> QED
    BY <2>1, MoveEffect DEF Placed, Pcs
<1>3. ASSUME LaunchFails(t)
      PROVE  task' \in [Tasks -> TaskRec] /\ Others(t) /\ Placed(t)'
  <2>1. 0 \in Ports /\ task[t].pc = "launch" /\ Move(t, "answer", 0)
    BY <1>3, ConnectionsAssumption DEF LaunchFails, At, Ports
  <2> QED
    BY <2>1, MoveEffect DEF Placed, Pcs
<1>4. ASSUME Stop(t)
      PROVE  task' \in [Tasks -> TaskRec] /\ Others(t) /\ Placed(t)'
  <2>1. 0 \in Ports /\ task[t].pc = "stop" /\ Move(t, "stopped", 0)
    BY <1>4, ConnectionsAssumption DEF Stop, At, Ports
  <2> QED
    BY <2>1, MoveEffect DEF Placed, Pcs
<1>5. ASSUME Check(t)
      PROVE  task' \in [Tasks -> TaskRec] /\ Others(t) /\ Placed(t)'
  <2>1. 0 \in Ports /\ task[t].pc = "check" /\ (Move(t, "latency", 0) \/ Move(t, "judge", 0))
    BY <1>5, ConnectionsAssumption DEF Check, At, Ports
  <2> QED
    BY <2>1, MoveEffect DEF Placed, Pcs
<1>6. ASSUME Sweep(t)
      PROVE  task' \in [Tasks -> TaskRec] /\ Others(t) /\ Placed(t)'
  <2>1. 0 \in Ports /\ task[t].pc = "sweep" /\ Move(t, "mark", 0)
    BY <1>6, ConnectionsAssumption DEF Sweep, At, Ports
  <2> QED
    BY <2>1, MoveEffect DEF Placed, Pcs
<1>7. ASSUME AccessGranted(t)
      PROVE  task' \in [Tasks -> TaskRec] /\ Others(t) /\ Placed(t)'
  <2>1. 0 \in Ports /\ task[t].pc = "access" /\ Move(t, "find", 0)
    BY <1>7, ConnectionsAssumption DEF AccessGranted, At, Ports
  <2> QED
    BY <2>1, MoveEffect DEF Placed, Pcs
<1>8. ASSUME NEW abandoned \in BOOLEAN, AccessDenied(t, abandoned)
      PROVE  task' \in [Tasks -> TaskRec] /\ Others(t) /\ Placed(t)'
  BY <1>8, FinishEffect DEF AccessDenied, At, Placed, Idle
<1>9. ASSUME Connected(t)
      PROVE  task' \in [Tasks -> TaskRec] /\ Others(t) /\ Placed(t)'
  BY <1>9, FinishEffect DEF Connected, At, Placed, Idle
<1>10. ASSUME Disconnected(t)
      PROVE  task' \in [Tasks -> TaskRec] /\ Others(t) /\ Placed(t)'
  BY <1>10, FinishEffect DEF Disconnected, At, Placed, Idle
<1>11. ASSUME NEW launched \in BOOLEAN, ClientAnswers(t, launched)
      PROVE  task' \in [Tasks -> TaskRec] /\ Others(t) /\ Placed(t)'
  BY <1>11, FinishEffect DEF ClientAnswers, At, Placed, Idle
<1>12. ASSUME Attempted(t)
      PROVE  task' \in [Tasks -> TaskRec] /\ Others(t) /\ Placed(t)'
  <2>1. CASE task[t].op = "tick"
    <3>1. Onwards(t, keys[t]) /\ task[t].pc = "answer"
      BY <1>12, <2>1 DEF Attempted, At
    <3> QED
      BY <2>1, <3>1, OnwardsEffect DEF Placed
  <2>2. CASE task[t].op # "tick"
    <3>1. Finish(t)
      BY <1>12, <2>2 DEF Attempted
    <3> QED
      BY <3>1, FinishEffect DEF Placed, Idle
  <2> QED
    BY <2>1, <2>2
<1>13. ASSUME NEW k \in Keys, Visit(t, k)
      PROVE  task' \in [Tasks -> TaskRec] /\ Others(t) /\ Placed(t)'
  <2>1. CASE Onwards(t, keys[t] \ {k})
    BY <1>13, <2>1, OnwardsEffect DEF Visit, At, Placed
  <2>2. ASSUME NEW p \in {"find", "check"}, task' = [task EXCEPT ![t].pc = p, ![t].key = k]
        PROVE  task' \in [Tasks -> TaskRec] /\ Others(t) /\ Placed(t)'
    <3> DEFINE r == [task[t] EXCEPT !.pc = p, !.key = k]
    <3>1. r \in TaskRec /\ r.pc = p /\ r.op = task[t].op /\ r.key = k
      BY DEF TaskRec, Pcs
    <3>2. task' = [task EXCEPT ![t] = r] /\ task[t].pc = "visit"
      BY <1>13, <2>2 DEF Visit, At
    <3> HIDE DEF r
    <3>3. task' \in [Tasks -> TaskRec] /\ Others(t) /\ task'[t] = r
      BY <3>1, <3>2 DEF Others
    <3> QED
      BY <3>1, <3>2, <3>3 DEF Placed
  <2> QED
    BY <1>13, <2>1, <2>2 DEF Visit
<1>14. ASSUME Unhealthy(t)
      PROVE  task' \in [Tasks -> TaskRec] /\ Others(t) /\ Placed(t)'
  BY <1>14, OnwardsEffect DEF Unhealthy, At, Placed
<1>15. ASSUME Healthy(t)
      PROVE  task' \in [Tasks -> TaskRec] /\ Others(t) /\ Placed(t)'
  BY <1>15, OnwardsEffect DEF Healthy, At, Placed
<1>16. ASSUME Mark(t)
      PROVE  task' \in [Tasks -> TaskRec] /\ Others(t) /\ Placed(t)'
  BY <1>16, FinishEffect DEF Mark, At, Placed, Idle
<1> QED
  BY <1>1, <1>2, <1>3, <1>4, <1>5, <1>6, <1>7, <1>8, <1>9, <1>10, <1>11, <1>12, <1>13, <1>14, <1>15, <1>16 DEF Step

-----------------------------------------------------------------------------
(* What a step does to the library                                         *)

Kept == maker' = maker /\ \A k \in Keys : entry'[k] \in {0, entry[k]}

\* What is removed is removed, and the rest stays registered.
LEMMA RemoveEffect ==
  ASSUME LibraryOK, NEW ks, Remove(ks), UNCHANGED <<maker, starts>>
  PROVE  LibraryOK' /\ Kept
<1>1. \A k \in Keys : entry'[k] \in {0, entry[k]} /\ entry'[k] \in Ports /\ entry'[k] <= starts
  BY ConnectionsAssumption DEF Remove, LibraryOK, Ports
<1>2. entry' \in [Keys -> Ports]
  BY <1>1 DEF Remove
<1>3. health' \in [1..MaxStarts -> {"up", "deaf", "dead"}]
  BY DEF Remove, LibraryOK
<1> QED
  BY <1>1, <1>2, <1>3 DEF LibraryOK, Kept

\* A step that leaves the library alone.
LEMMA LibraryFrame == ASSUME LibraryOK, UNCHANGED library PROVE LibraryOK' /\ Kept
  BY DEF LibraryOK, library, Kept

\* A launched backend has a number and a maker of its own.
LEMMA LaunchedLibrary ==
  ASSUME LibraryOK, NEW t \in Tasks, task[t].op \in {"connect", "retry", "tick"},
         task[t].key \in Keys, Launched(t)
  PROVE  /\ LibraryOK' /\ entry' = [entry EXCEPT ![task[t].key] = starts']
         /\ maker'[starts'] = task[t].op
         /\ \A k \in Keys : entry[k] # 0 => maker'[entry[k]] = maker[entry[k]]
<1>1. /\ starts' = starts + 1 /\ starts' \in 1..MaxStarts /\ starts' \in Ports
      /\ starts' \in 0..MaxStarts /\ starts \in Nat
  BY ConnectionsAssumption DEF Launched, LibraryOK, Ports
<1>2. /\ entry' = [entry EXCEPT ![task[t].key] = starts']
      /\ maker' = [maker EXCEPT ![starts'] = task[t].op] /\ health' = health
  BY DEF Launched
<1>3. \A k \in Keys : entry[k] \in Ports /\ entry[k] <= starts /\ entry[k] # starts'
  BY <1>1 DEF LibraryOK, Ports
<1>4. \A k \in Keys : entry'[k] <= starts'
  BY <1>1, <1>2, <1>3 DEF LibraryOK, Ports
<1>5. maker' \in [1..MaxStarts -> {"none", "connect", "retry", "tick"}]
  BY <1>1, <1>2 DEF LibraryOK
<1>6. entry' \in [Keys -> Ports]
  BY <1>1, <1>2 DEF LibraryOK
<1>7. maker'[starts'] = task[t].op
  BY <1>1, <1>2 DEF LibraryOK
<1>8. \A k \in Keys : entry[k] # 0 => entry[k] \in 1..MaxStarts
  BY <1>3, ConnectionsAssumption DEF Ports
<1>9. \A k \in Keys : entry[k] # 0 => maker'[entry[k]] = maker[entry[k]]
  BY <1>2, <1>3, <1>8 DEF LibraryOK
<1> QED
  BY <1>1, <1>2, <1>4, <1>5, <1>6, <1>7, <1>9 DEF LibraryOK

\* A step of a task launches a backend or leaves what is registered, or less.
LEMMA StepLibrary ==
  ASSUME LibraryOK, NEW t \in Tasks, Placed(t), Step(t)
  PROVE  LibraryOK' /\ (Launched(t) \/ Kept)
<1>1. ASSUME Find(t)
      PROVE  LibraryOK' /\ (Launched(t) \/ Kept)
  BY <1>1, LibraryFrame DEF Find
<1>2. ASSUME Launched(t)
      PROVE  LibraryOK' /\ (Launched(t) \/ Kept)
  BY <1>2, LaunchedLibrary DEF Launched, At, Placed
<1>3. ASSUME LaunchFails(t)
      PROVE  LibraryOK' /\ (Launched(t) \/ Kept)
  BY <1>3, LibraryFrame DEF LaunchFails
<1>4. ASSUME Stop(t)
      PROVE  LibraryOK' /\ (Launched(t) \/ Kept)
  BY <1>4, RemoveEffect DEF Stop
<1>5. ASSUME Check(t)
      PROVE  LibraryOK' /\ (Launched(t) \/ Kept)
  BY <1>5, LibraryFrame DEF Check
<1>6. ASSUME Sweep(t)
      PROVE  LibraryOK' /\ (Launched(t) \/ Kept)
  <2>1. \E dead \in SUBSET Keys : Remove(dead)
    BY <1>6 DEF Sweep
  <2> QED
    BY <1>6, <2>1, RemoveEffect DEF Sweep
<1>7. ASSUME AccessGranted(t)
      PROVE  LibraryOK' /\ (Launched(t) \/ Kept)
  BY <1>7, LibraryFrame DEF AccessGranted
<1>8. ASSUME NEW abandoned \in BOOLEAN, AccessDenied(t, abandoned)
      PROVE  LibraryOK' /\ (Launched(t) \/ Kept)
  BY <1>8, LibraryFrame DEF AccessDenied
<1>9. ASSUME Connected(t)
      PROVE  LibraryOK' /\ (Launched(t) \/ Kept)
  BY <1>9, LibraryFrame DEF Connected
<1>10. ASSUME Disconnected(t)
      PROVE  LibraryOK' /\ (Launched(t) \/ Kept)
  BY <1>10, LibraryFrame DEF Disconnected
<1>11. ASSUME NEW launched \in BOOLEAN, ClientAnswers(t, launched)
      PROVE  LibraryOK' /\ (Launched(t) \/ Kept)
  BY <1>11, LibraryFrame DEF ClientAnswers
<1>12. ASSUME Attempted(t)
      PROVE  LibraryOK' /\ (Launched(t) \/ Kept)
  BY <1>12, LibraryFrame DEF Attempted
<1>13. ASSUME NEW k \in Keys, Visit(t, k)
      PROVE  LibraryOK' /\ (Launched(t) \/ Kept)
  BY <1>13, LibraryFrame DEF Visit
<1>14. ASSUME Unhealthy(t)
      PROVE  LibraryOK' /\ (Launched(t) \/ Kept)
  BY <1>14, LibraryFrame DEF Unhealthy
<1>15. ASSUME Healthy(t)
      PROVE  LibraryOK' /\ (Launched(t) \/ Kept)
  BY <1>15, LibraryFrame DEF Healthy
<1>16. ASSUME Mark(t)
      PROVE  LibraryOK' /\ (Launched(t) \/ Kept)
  BY <1>16, LibraryFrame DEF Mark
<1> QED
  BY <1>1, <1>2, <1>3, <1>4, <1>5, <1>6, <1>7, <1>8, <1>9, <1>10, <1>11, <1>12, <1>13, <1>14, <1>15, <1>16 DEF Step

-----------------------------------------------------------------------------
(* The single flight                                                       *)

\* The task's connect stays under way, or it has none ...
Keeps(t) == /\ inFlight' = inFlight
            /\ task'[t].op = "connect" <=> task[t].op = "connect"
            /\ task[t].op = "connect" => task'[t].key = task[t].key
\* ... or it has ended and left the table.
Ends(t) == task[t].op = "connect" /\ task[t].key \in Keys /\ Settled(t) /\ task'[t] = Idle

\* Either keeps the table.
LEMMA FlightKept ==
  ASSUME FlightOK, OneConnect, NEW t \in Tasks, Others(t), t \in Ticks => task'[t].op # "connect",
         task[t].op = "connect" => t \in Calls, Keeps(t) \/ Ends(t)
  PROVE  inFlight' \in [Keys -> Calls \cup {Nobody}] /\ OneConnect'
<1>1. CASE Keeps(t)
  BY <1>1 DEF FlightOK, OneConnect, Others, Keeps, Tasks
<1>2. CASE Ends(t)
  <2>1. /\ t \in Calls /\ inFlight[task[t].key] = t
        /\ inFlight' = [inFlight EXCEPT ![task[t].key] = Nobody] /\ task'[t].op = "none"
    BY <1>2 DEF Ends, Settled, OneConnect, Idle
  <2> QED
    BY <1>2, <2>1, ConnectionsAssumption DEF FlightOK, OneConnect, Others, Ends, Tasks
<1> QED
  BY <1>1, <1>2

\* A connect is in the table until it ends, and no other step touches it.
LEMMA StepFlight ==
  ASSUME Typed, NEW t \in Tasks, Placed(t), Step(t)
  PROVE  Keeps(t) \/ Ends(t)
<1> USE DEF Typed, FlightOK, LibraryOK
<1>1. ASSUME Find(t)
      PROVE  Keeps(t) \/ Ends(t)
  <2> DEFINE g == entry[task[t].key]
  <2>0. inFlight' = inFlight
    BY <1>1 DEF Find
  <2>1. g \in Ports /\ 0 \in Ports /\ task[t].pc = "find"
    BY <1>1, ConnectionsAssumption DEF Find, At, Placed, Ports
  <2>2. CASE g # 0
    <3>1. Move(t, "answer", g)
      BY <1>1, <2>2 DEF Find
    <3> QED
      BY <2>0, <2>1, <3>1, MoveEffect DEF Pcs, Keeps
  <2>3. CASE g = 0
    <3>1. Move(t, "launch", 0)
      BY <1>1, <2>3 DEF Find
    <3> QED
      BY <2>0, <2>1, <3>1, MoveEffect DEF Pcs, Keeps
  <2> QED
    BY <2>2, <2>3
<1>2. ASSUME Launched(t)
      PROVE  Keeps(t) \/ Ends(t)
  <2>1. starts' \in Ports /\ inFlight' = inFlight /\ task[t].pc = "launch" /\ Move(t, "answer", starts')
    BY <1>2, ConnectionsAssumption DEF Launched, At, Ports
  <2> QED
    BY <2>1, MoveEffect DEF Pcs, Keeps
<1>3. ASSUME LaunchFails(t)
      PROVE  Keeps(t) \/ Ends(t)
  <2>1. 0 \in Ports /\ inFlight' = inFlight /\ task[t].pc = "launch" /\ Move(t, "answer", 0)
    BY <1>3, ConnectionsAssumption DEF LaunchFails, At, Ports
  <2> QED
    BY <2>1, MoveEffect DEF Pcs, Keeps
<1>4. ASSUME Stop(t)
      PROVE  Keeps(t) \/ Ends(t)
  <2>1. 0 \in Ports /\ inFlight' = inFlight /\ task[t].pc = "stop" /\ Move(t, "stopped", 0)
    BY <1>4, ConnectionsAssumption DEF Stop, At, Ports
  <2> QED
    BY <2>1, MoveEffect DEF Pcs, Keeps
<1>5. ASSUME Check(t)
      PROVE  Keeps(t) \/ Ends(t)
  <2>1. 0 \in Ports /\ inFlight' = inFlight /\ task[t].pc = "check" /\ (Move(t, "latency", 0) \/ Move(t, "judge", 0))
    BY <1>5, ConnectionsAssumption DEF Check, At, Ports
  <2> QED
    BY <2>1, MoveEffect DEF Pcs, Keeps
<1>6. ASSUME Sweep(t)
      PROVE  Keeps(t) \/ Ends(t)
  <2>1. 0 \in Ports /\ inFlight' = inFlight /\ task[t].pc = "sweep" /\ Move(t, "mark", 0)
    BY <1>6, ConnectionsAssumption DEF Sweep, At, Ports
  <2> QED
    BY <2>1, MoveEffect DEF Pcs, Keeps
<1>7. ASSUME AccessGranted(t)
      PROVE  Keeps(t) \/ Ends(t)
  <2>1. 0 \in Ports /\ inFlight' = inFlight /\ task[t].pc = "access" /\ Move(t, "find", 0)
    BY <1>7, ConnectionsAssumption DEF AccessGranted, At, Ports
  <2> QED
    BY <2>1, MoveEffect DEF Pcs, Keeps
<1>8. ASSUME NEW abandoned \in BOOLEAN, AccessDenied(t, abandoned)
      PROVE  Keeps(t) \/ Ends(t)
  <2>1. task[t].op = "connect" /\ task[t].key \in Keys /\ Settled(t) /\ Finish(t)
    BY <1>8 DEF AccessDenied, At, Placed
  <2> QED
    BY <2>1, FinishEffect DEF Ends
<1>9. ASSUME Connected(t)
      PROVE  Keeps(t) \/ Ends(t)
  <2>1. task[t].op = "connect" /\ task[t].key \in Keys /\ Settled(t) /\ Finish(t)
    BY <1>9 DEF Connected, At, Placed
  <2> QED
    BY <2>1, FinishEffect DEF Ends
<1>10. ASSUME Disconnected(t)
      PROVE  Keeps(t) \/ Ends(t)
  BY <1>10, FinishEffect DEF Disconnected, At, Placed, Idle, Keeps
<1>11. ASSUME NEW launched \in BOOLEAN, ClientAnswers(t, launched)
      PROVE  Keeps(t) \/ Ends(t)
  BY <1>11, FinishEffect DEF ClientAnswers, At, Placed, Idle, Keeps
<1>12. ASSUME Attempted(t)
      PROVE  Keeps(t) \/ Ends(t)
  <2>1. task[t].op # "connect" /\ inFlight' = inFlight
    BY <1>12 DEF Attempted
  <2>2. CASE task[t].op = "tick"
    BY <1>12, <2>1, <2>2, OnwardsEffect DEF Attempted, Keeps
  <2>3. CASE task[t].op # "tick"
    BY <1>12, <2>1, <2>3, FinishEffect DEF Attempted, Keeps, Idle
  <2> QED
    BY <2>2, <2>3
<1>13. ASSUME NEW k \in Keys, Visit(t, k)
      PROVE  Keeps(t) \/ Ends(t)
  <2>1. task[t].op = "tick" /\ inFlight' = inFlight
    BY <1>13 DEF Visit, At, Placed
  <2>2. CASE Onwards(t, keys[t] \ {k})
    BY <2>1, <2>2, OnwardsEffect DEF Keeps
  <2>3. ASSUME NEW p \in {"find", "check"}, task' = [task EXCEPT ![t].pc = p, ![t].key = k]
        PROVE  Keeps(t)
    <3>1. task' = [task EXCEPT ![t] = [task[t] EXCEPT !.pc = p, !.key = k]]
      BY <2>3
    <3>2. task'[t].op = task[t].op
      BY <3>1 DEF TaskRec
    <3> QED
      BY <2>1, <3>2 DEF Keeps
  <2> QED
    BY <1>13, <2>2, <2>3 DEF Visit
<1>14. ASSUME Unhealthy(t)
      PROVE  Keeps(t) \/ Ends(t)
  BY <1>14, OnwardsEffect DEF Unhealthy, At, Placed, Keeps
<1>15. ASSUME Healthy(t)
      PROVE  Keeps(t) \/ Ends(t)
  BY <1>15, OnwardsEffect DEF Healthy, At, Placed, Keeps
<1>16. ASSUME Mark(t)
      PROVE  Keeps(t) \/ Ends(t)
  BY <1>16, FinishEffect DEF Mark, At, Placed, Idle, Keeps
<1> QED
  BY <1>1, <1>2, <1>3, <1>4, <1>5, <1>6, <1>7, <1>8, <1>9, <1>10, <1>11, <1>12, <1>13, <1>14, <1>15, <1>16 DEF Step

\* A task launches only after it found nothing registered.
LEMMA StepLaunches ==
  ASSUME Typed, NEW t \in Tasks, Placed(t), Step(t)
  PROVE  task'[t].pc = "launch" => entry'[task'[t].key] = 0
<1> USE DEF Typed, FlightOK, LibraryOK
<1>1. ASSUME Find(t)
      PROVE  task'[t].pc = "launch" => entry'[task'[t].key] = 0
  <2>1. CASE entry[task[t].key] # 0
    <3>1. Move(t, "answer", entry[task[t].key]) /\ entry[task[t].key] \in Ports
      BY <1>1, <2>1 DEF Find, At, Placed
    <3> QED
      BY <3>1, MoveEffect DEF Pcs
  <2>2. CASE entry[task[t].key] = 0
    <3>1. Move(t, "launch", 0) /\ entry' = entry /\ 0 \in Ports
      BY <1>1, <2>2, ConnectionsAssumption DEF Find, library, Ports
    <3> QED
      BY <2>2, <3>1, MoveEffect DEF Pcs
  <2> QED
    BY <2>1, <2>2
<1>2. ASSUME Launched(t)
      PROVE  task'[t].pc = "launch" => entry'[task'[t].key] = 0
  <2>1. starts' \in Ports /\ task[t].pc = "launch" /\ Move(t, "answer", starts')
    BY <1>2, ConnectionsAssumption DEF Launched, At, Ports
  <2> QED
    BY <2>1, MoveEffect DEF Pcs
<1>3. ASSUME LaunchFails(t)
      PROVE  task'[t].pc = "launch" => entry'[task'[t].key] = 0
  <2>1. 0 \in Ports /\ task[t].pc = "launch" /\ Move(t, "answer", 0)
    BY <1>3, ConnectionsAssumption DEF LaunchFails, At, Ports
  <2> QED
    BY <2>1, MoveEffect DEF Pcs
<1>4. ASSUME Stop(t)
      PROVE  task'[t].pc = "launch" => entry'[task'[t].key] = 0
  <2>1. 0 \in Ports /\ task[t].pc = "stop" /\ Move(t, "stopped", 0)
    BY <1>4, ConnectionsAssumption DEF Stop, At, Ports
  <2> QED
    BY <2>1, MoveEffect DEF Pcs
<1>5. ASSUME Check(t)
      PROVE  task'[t].pc = "launch" => entry'[task'[t].key] = 0
  <2>1. 0 \in Ports /\ task[t].pc = "check" /\ (Move(t, "latency", 0) \/ Move(t, "judge", 0))
    BY <1>5, ConnectionsAssumption DEF Check, At, Ports
  <2> QED
    BY <2>1, MoveEffect DEF Pcs
<1>6. ASSUME Sweep(t)
      PROVE  task'[t].pc = "launch" => entry'[task'[t].key] = 0
  <2>1. 0 \in Ports /\ task[t].pc = "sweep" /\ Move(t, "mark", 0)
    BY <1>6, ConnectionsAssumption DEF Sweep, At, Ports
  <2> QED
    BY <2>1, MoveEffect DEF Pcs
<1>7. ASSUME AccessGranted(t)
      PROVE  task'[t].pc = "launch" => entry'[task'[t].key] = 0
  <2>1. 0 \in Ports /\ task[t].pc = "access" /\ Move(t, "find", 0)
    BY <1>7, ConnectionsAssumption DEF AccessGranted, At, Ports
  <2> QED
    BY <2>1, MoveEffect DEF Pcs
<1>8. ASSUME NEW abandoned \in BOOLEAN, AccessDenied(t, abandoned)
      PROVE  task'[t].pc = "launch" => entry'[task'[t].key] = 0
  BY <1>8, FinishEffect DEF AccessDenied, Idle
<1>9. ASSUME Connected(t)
      PROVE  task'[t].pc = "launch" => entry'[task'[t].key] = 0
  BY <1>9, FinishEffect DEF Connected, Idle
<1>10. ASSUME Disconnected(t)
      PROVE  task'[t].pc = "launch" => entry'[task'[t].key] = 0
  BY <1>10, FinishEffect DEF Disconnected, Idle
<1>11. ASSUME NEW launched \in BOOLEAN, ClientAnswers(t, launched)
      PROVE  task'[t].pc = "launch" => entry'[task'[t].key] = 0
  BY <1>11, FinishEffect DEF ClientAnswers, Idle
<1>12. ASSUME Attempted(t)
      PROVE  task'[t].pc = "launch" => entry'[task'[t].key] = 0
  <2>1. CASE task[t].op = "tick"
    BY <1>12, <2>1, OnwardsEffect DEF Attempted
  <2>2. CASE task[t].op # "tick"
    BY <1>12, <2>2, FinishEffect DEF Attempted, Idle
  <2> QED
    BY <2>1, <2>2
<1>13. ASSUME NEW k \in Keys, Visit(t, k)
      PROVE  task'[t].pc = "launch" => entry'[task'[t].key] = 0
  <2>1. CASE Onwards(t, keys[t] \ {k})
    BY <2>1, OnwardsEffect
  <2>2. ASSUME NEW p \in {"find", "check"}, task' = [task EXCEPT ![t].pc = p, ![t].key = k]
        PROVE  task'[t].pc # "launch"
    <3>1. task' = [task EXCEPT ![t] = [task[t] EXCEPT !.pc = p, !.key = k]]
      BY <2>2
    <3> QED
      BY <3>1 DEF TaskRec
  <2> QED
    BY <1>13, <2>1, <2>2 DEF Visit
<1>14. ASSUME Unhealthy(t)
      PROVE  task'[t].pc = "launch" => entry'[task'[t].key] = 0
  BY <1>14, OnwardsEffect DEF Unhealthy
<1>15. ASSUME Healthy(t)
      PROVE  task'[t].pc = "launch" => entry'[task'[t].key] = 0
  BY <1>15, OnwardsEffect DEF Healthy
<1>16. ASSUME Mark(t)
      PROVE  task'[t].pc = "launch" => entry'[task'[t].key] = 0
  BY <1>16, FinishEffect DEF Mark, Idle
<1> QED
  BY <1>1, <1>2, <1>3, <1>4, <1>5, <1>6, <1>7, <1>8, <1>9, <1>10, <1>11, <1>12, <1>13, <1>14, <1>15, <1>16 DEF Step

-----------------------------------------------------------------------------
(* The rows                                                                *)

\* One row is shown; what a task remembers stays or is forgotten.
LEMMA ShowEffect ==
  ASSUME RowsOK, NEW k \in Keys, NEW row \in Rows, Show(k, row)
  PROVE  rows' \in [Keys -> Rows]
  BY DEF RowsOK, Show

\* A task that ends forgets the rows and the keys it had.
LEMMA ForgetEffect ==
  ASSUME RowsOK, NEW t \in Tasks, Forget(t)
  PROVE  snap' \in [Tasks -> [Keys -> Rows]] /\ keys' \in [Tasks -> SUBSET Keys]
  BY RowType DEF RowsOK, Forget

\* A row is overwritten with a row, old or new.
LEMMA StepRows ==
  ASSUME Typed, NEW t \in Tasks, Placed(t), Step(t)
  PROVE  RowsOK'
<1> USE DEF Typed
<1>1. ASSUME Find(t)
      PROVE  RowsOK'
  BY <1>1 DEF Find, RowsOK
<1>2. ASSUME Launched(t)
      PROVE  RowsOK'
  BY <1>2 DEF Launched, RowsOK
<1>3. ASSUME LaunchFails(t)
      PROVE  RowsOK'
  BY <1>3 DEF LaunchFails, RowsOK
<1>4. ASSUME Stop(t)
      PROVE  RowsOK'
  BY <1>4 DEF Stop, RowsOK
<1>5. ASSUME Check(t)
      PROVE  RowsOK'
  BY <1>5 DEF Check, RowsOK
<1>6. ASSUME Sweep(t)
      PROVE  RowsOK'
  <2>1. PICK dead \in SUBSET Keys : keys' = [keys EXCEPT ![t] = dead]
    BY <1>6 DEF Sweep
  <2> QED
    BY <1>6, <2>1 DEF Sweep, RowsOK
<1>7. ASSUME AccessGranted(t)
      PROVE  RowsOK'
  BY <1>7 DEF AccessGranted, RowsOK
<1>8. ASSUME NEW abandoned \in BOOLEAN, AccessDenied(t, abandoned)
      PROVE  RowsOK'
  <2> DEFINE row == IF abandoned THEN Row("disconnected", 0, 0, FALSE, TRUE, FALSE)
                    ELSE Row("error", 0, 0, FALSE, TRUE, TRUE)
  <2>1. row \in Rows
    <3>1. 0 \in Ports /\ TRUE \in BOOLEAN /\ FALSE \in BOOLEAN
      BY ConnectionsAssumption DEF Ports
    <3>2. Row("disconnected", 0, 0, FALSE, TRUE, FALSE) \in Rows
      BY <3>1, RowType
    <3>3. Row("error", 0, 0, FALSE, TRUE, TRUE) \in Rows
      BY <3>1, RowType
    <3> QED
      BY <3>2, <3>3
  <2>2. task[t].key \in Keys /\ Show(task[t].key, row) /\ Forget(t) /\ forward' = forward
    BY <1>8 DEF AccessDenied, At, Placed, Finish
  <2> HIDE DEF row
  <2> QED
    BY <2>1, <2>2, ShowEffect, ForgetEffect DEF RowsOK
<1>9. ASSUME Connected(t)
      PROVE  RowsOK'
  <2> DEFINE key == task[t].key
             port == task[t].answer
             auto == ~forward[key]
             row == IF port # 0 THEN Row("connected", port, 0, FALSE, auto, TRUE)
                    ELSE Row("error", 0, 0, FALSE, TRUE, TRUE)
  <2>1. key \in Keys /\ Show(key, row) /\ Forget(t) /\ forward' = forward
    BY <1>9 DEF Connected, At, Placed, Finish
  <2>2. auto \in BOOLEAN /\ port \in Ports
    BY DEF Typed, FlightOK, TaskRec
  <2> HIDE DEF auto, port
  <2>3. row \in Rows
    BY <2>2, RowType, ConnectionsAssumption DEF Ports
  <2> HIDE DEF row, key
  <2> QED
    BY <2>1, <2>3, ShowEffect, ForgetEffect DEF RowsOK
<1>10. ASSUME Disconnected(t)
      PROVE  RowsOK'
  <2>1. task[t].key \in Keys /\ Show(task[t].key, NoRow) /\ Forget(t) /\ forward' = forward
    BY <1>10 DEF Disconnected, At, Placed, Finish
  <2> QED
    BY <2>1, RowType, ShowEffect, ForgetEffect DEF RowsOK
<1>11. ASSUME NEW launched \in BOOLEAN, ClientAnswers(t, launched)
      PROVE  RowsOK'
  <2> DEFINE key == task[t].key
             port == snap[t][key].port
             row == Row("connected", port, 0, FALSE, TRUE, FALSE)
  <2>1. key \in Keys /\ Forget(t) /\ forward' = forward /\ (rows' = rows \/ Show(key, row))
    BY <1>11 DEF ClientAnswers, At, Placed, Finish
  <2>2. port \in Ports
    BY <2>1 DEF RowsOK, Rows
  <2> HIDE DEF port
  <2>3. row \in Rows
    BY <2>2, RowType
  <2> HIDE DEF row, key
  <2> QED
    BY <2>1, <2>3, ShowEffect, ForgetEffect DEF RowsOK
<1>12. ASSUME Attempted(t)
      PROVE  RowsOK'
  <2> DEFINE key == task[t].key
             port == task[t].answer
             auto == snap[t][key].autoReconnectEnabled
             row == IF port # 0 THEN Row("connected", port, 0, FALSE, auto, TRUE)
                    ELSE AfterFailure(snap[t][key])
  <2>1. /\ key \in Keys /\ Show(key, row) /\ forward' = forward
        /\ UNCHANGED <<snap, keys>> \/ Forget(t)
    BY <1>12 DEF Attempted, At, Placed, Finish
  <2>2. auto \in BOOLEAN /\ port \in Ports /\ snap[t][key] \in Rows
    BY <2>1 DEF Typed, FlightOK, TaskRec, RowsOK, Rows
  <2> HIDE DEF auto, port
  <2>3. row \in Rows
    <3>1. CASE port # 0
      BY <2>2, <3>1, RowType
    <3>2. CASE port = 0
      BY <2>2, <3>2, RowChange
    <3> QED
      BY <3>1, <3>2
  <2> HIDE DEF row, key
  <2>4. rows' \in [Keys -> Rows]
    BY <2>1, <2>3, ShowEffect
  <2> QED
    BY <2>1, <2>4, ForgetEffect DEF RowsOK
<1>13. ASSUME NEW k \in Keys, Visit(t, k)
      PROVE  RowsOK'
  BY <1>13 DEF Visit, RowsOK
<1>14. ASSUME Unhealthy(t)
      PROVE  RowsOK'
  <2> DEFINE key == task[t].key
             row == snap[t][key]
  <2>1. key \in Keys /\ row \in Rows /\ UNCHANGED <<forward, snap, keys>>
    BY <1>14 DEF Unhealthy, At, Placed, RowsOK
  <2>2. \/ Show(key, [row EXCEPT !.status = "reconnecting", !.attempts = 0, !.due = FALSE])
        \/ Show(key, [row EXCEPT !.status = "error"])
    BY <1>14 DEF Unhealthy
  <2> HIDE DEF row, key
  <2>3. rows' \in [Keys -> Rows]
    BY <2>1, <2>2, RowChange, ShowEffect
  <2> QED
    BY <2>1, <2>3 DEF RowsOK
<1>15. ASSUME Healthy(t)
      PROVE  RowsOK'
  <2> DEFINE key == task[t].key
             row == snap[t][key]
  <2>1. /\ key \in Keys /\ row \in Rows /\ UNCHANGED <<forward, snap, keys>>
        /\ Show(key, [row EXCEPT !.status = "connected", !.attempts = 0])
    BY <1>15 DEF Healthy, At, Placed, RowsOK
  <2> HIDE DEF row, key
  <2>2. rows' \in [Keys -> Rows]
    BY <2>1, RowChange, ShowEffect
  <2> QED
    BY <2>1, <2>2 DEF RowsOK
<1>16. ASSUME Mark(t)
      PROVE  RowsOK'
  <2>1. rows' = [k \in Keys |-> IF k \in keys[t] THEN Marked(rows[k]) ELSE rows[k]]
        /\ Forget(t) /\ forward' = forward
    BY <1>16 DEF Mark, Finish
  <2>2. \A k \in Keys : rows[k] \in Rows /\ Marked(rows[k]) \in Rows
    BY RowChange DEF RowsOK
  <2> QED
    BY <2>1, <2>2, ForgetEffect DEF RowsOK
<1> QED
  BY <1>1, <1>2, <1>3, <1>4, <1>5, <1>6, <1>7, <1>8, <1>9, <1>10, <1>11, <1>12, <1>13, <1>14, <1>15, <1>16 DEF Step

\* The counts and flags keep their types.
LEMMA StepSteps ==
  ASSUME StepsOK, NEW t \in Tasks, Step(t)
  PROVE  StepsOK'
<1>1. ASSUME Find(t)
      PROVE  StepsOK'
  BY <1>1 DEF Find, StepsOK, library
<1>2. ASSUME Launched(t)
      PROVE  StepsOK'
  <2>1. reaped' \in [Keys -> BOOLEAN]
    BY <1>2 DEF Launched, StepsOK
  <2> QED
    BY <1>2, <2>1 DEF Launched, StepsOK
<1>3. ASSUME LaunchFails(t)
      PROVE  StepsOK'
  BY <1>3 DEF LaunchFails, StepsOK, library
<1>4. ASSUME Stop(t)
      PROVE  StepsOK'
  BY <1>4 DEF Stop, StepsOK
<1>5. ASSUME Check(t)
      PROVE  StepsOK'
  BY <1>5 DEF Check, StepsOK, library
<1>6. ASSUME Sweep(t)
      PROVE  StepsOK'
  BY <1>6 DEF Sweep, StepsOK
<1>7. ASSUME AccessGranted(t)
      PROVE  StepsOK'
  BY <1>7 DEF AccessGranted, StepsOK, library
<1>8. ASSUME NEW abandoned \in BOOLEAN, AccessDenied(t, abandoned)
      PROVE  StepsOK'
  BY <1>8 DEF AccessDenied, StepsOK, library
<1>9. ASSUME Connected(t)
      PROVE  StepsOK'
  BY <1>9 DEF Connected, StepsOK, library
<1>10. ASSUME Disconnected(t)
      PROVE  StepsOK'
  BY <1>10 DEF Disconnected, StepsOK, library
<1>11. ASSUME NEW launched \in BOOLEAN, ClientAnswers(t, launched)
      PROVE  StepsOK'
  BY <1>11 DEF ClientAnswers, StepsOK, library
<1>12. ASSUME Attempted(t)
      PROVE  StepsOK'
  BY <1>12 DEF Attempted, StepsOK, library
<1>13. ASSUME NEW k \in Keys, Visit(t, k)
      PROVE  StepsOK'
  BY <1>13 DEF Visit, StepsOK, library
<1>14. ASSUME Unhealthy(t)
      PROVE  StepsOK'
  <2>1. strayStop' \in [Keys -> BOOLEAN]
    BY <1>14 DEF Unhealthy, StepsOK
  <2> QED
    BY <1>14, <2>1 DEF Unhealthy, StepsOK, library
<1>15. ASSUME Healthy(t)
      PROVE  StepsOK'
  BY <1>15 DEF Healthy, StepsOK, library
<1>16. ASSUME Mark(t)
      PROVE  StepsOK'
  BY <1>16 DEF Mark, StepsOK, library
<1> QED
  BY <1>1, <1>2, <1>3, <1>4, <1>5, <1>6, <1>7, <1>8, <1>9, <1>10, <1>11, <1>12, <1>13, <1>14, <1>15, <1>16 DEF Step

-----------------------------------------------------------------------------
(* The invariant                                                           *)

\* What connects know while they launch survives another task's step.
LEMMA StepClear ==
  ASSUME IInv, NEW t \in Tasks, Others(t), Step(t)
  PROVE  \A u \in Tasks : Clear(u)'
<1> USE DEF IInv, Typed
<1>1. ASSUME NEW u \in Tasks, task'[u].pc = "launch", task'[u].op = "connect",
             entry'[task'[u].key] # 0
      PROVE  maker'[entry'[task'[u].key]] # "connect"
  <2>1. u # t
    BY <1>1, StepLaunches
  <2>2. task'[u] = task[u] /\ task[u].key \in Keys /\ u \in Calls /\ inFlight[task[u].key] = u
    BY <1>1, <2>1 DEF Others, Placed, OneConnect
  <2> DEFINE k == task[u].key
  <2>3. CASE Kept
    <3>1. entry'[k] = entry[k] /\ maker' = maker
      BY <1>1, <2>2, <2>3 DEF Kept
    <3> QED
      BY <1>1, <2>2, <3>1 DEF Clear, At
  <2>4. CASE Launched(t)
    <3>1. task[t].op \in {"connect", "retry", "tick"} /\ task[t].key \in Keys
      BY <2>4 DEF Launched, At, Placed
    <3>2. /\ entry' = [entry EXCEPT ![task[t].key] = starts']
          /\ maker'[starts'] = task[t].op
          /\ \A q \in Keys : entry[q] # 0 => maker'[entry[q]] = maker[entry[q]]
      BY <2>4, <3>1, LaunchedLibrary
    <3>3. CASE task[t].key = k
      <4>1. task[t].op # "connect"
        BY <2>1, <2>2, <3>1, <3>3 DEF Placed, OneConnect
      <4> QED
        BY <2>2, <3>2, <3>3, <4>1 DEF LibraryOK
    <3>4. CASE task[t].key # k
      <4>1. entry'[k] = entry[k] /\ maker'[entry[k]] = maker[entry[k]]
        BY <1>1, <2>2, <3>2, <3>4 DEF LibraryOK
      <4> QED
        BY <1>1, <2>2, <4>1 DEF Clear, At
    <3> QED
      BY <3>3, <3>4
  <2> QED
    BY <2>3, <2>4, StepLibrary
<1> QED
  BY <1>1 DEF Clear, At

\* A task's step.
LEMMA StepInv == ASSUME IInv, NEW t \in Tasks, Step(t) PROVE IInv'
<1> USE DEF IInv
<1>1. task' \in [Tasks -> TaskRec] /\ Others(t) /\ Placed(t)'
  BY StepPlaced
<1>2. \A u \in Tasks : Placed(u)'
  BY <1>1 DEF Placed, Others
<1>3. inFlight' \in [Keys -> Calls \cup {Nobody}] /\ OneConnect'
  <2>1. (t \in Ticks => task'[t].op # "connect") /\ (task[t].op = "connect" => t \in Calls)
    BY <1>1, ConnectionsAssumption DEF Placed
  <2> QED
    BY <1>1, <2>1, StepFlight, FlightKept DEF Typed
<1>4. Typed'
  BY <1>1, <1>3, StepRows, StepLibrary, StepSteps DEF Typed, FlightOK
<1> QED
  BY <1>1, <1>2, <1>3, <1>4, StepClear

\* A step of the library, of time or of the user that concerns no task.
LEMMA QuietInv ==
  ASSUME IInv, UNCHANGED <<task, inFlight, snap, keys, forward>>, rows' \in [Keys -> Rows],
         LibraryOK' /\ Kept, StepsOK'
  PROVE  IInv'
<1>1. Typed' /\ OneConnect' /\ \A u \in Tasks : Placed(u)'
  BY DEF IInv, Typed, RowsOK, FlightOK, OneConnect, Placed
<1>2. ASSUME NEW u \in Tasks PROVE Clear(u)'
  BY DEF IInv, Clear, At, Kept, Placed
<1> QED
  BY <1>1, <1>2 DEF IInv

\* A call of the user's is counted, within the bound.
LEMMA Counted ==
  ASSUME StepsOK, calls < MaxCalls, calls' = calls + 1, UNCHANGED <<strayStop, library>>
  PROVE  StepsOK'
<1>1. calls' \in 0..MaxCalls
  BY ConnectionsAssumption DEF StepsOK
<1> QED
  BY <1>1 DEF StepsOK, library

\* A call or a check that begins.
LEMMA BeginInv ==
  ASSUME IInv, NEW t \in Tasks, task[t] = Idle, NEW r \in TaskRec, task' = [task EXCEPT ![t] = r],
         r.op # "none", r.pc \notin {"idle", "launch"},
         \/ r.op = "tick" /\ t \in Ticks /\ r.pc \in {"visit", "sweep"} /\ r.key = Nobody
         \/ /\ t \in Calls /\ r.key \in Keys
            /\ \/ r.op = "connect" /\ r.pc \in {"access", "find"}
               \/ r.op = "disconnect" /\ r.pc = "stop"
               \/ r.op = "client" /\ r.pc = "client"
               \/ r.op = "retry" /\ r.pc = "find",
         IF r.op = "connect"
         THEN inFlight[r.key] = Nobody /\ inFlight' = [inFlight EXCEPT ![r.key] = t]
         ELSE inFlight' = inFlight,
         rows' \in [Keys -> Rows], snap' \in [Tasks -> [Keys -> Rows]],
         keys' \in [Tasks -> SUBSET Keys], StepsOK', UNCHANGED <<forward, library>>
  PROVE  IInv'
<1> USE DEF IInv, Typed, FlightOK
<1>1. FlightOK' /\ Others(t) /\ task'[t] = r
  BY DEF Others, Tasks
<1>2. Placed(t)'
  BY <1>1 DEF Placed, TaskRec
<1>3. \A u \in Tasks \ {t} : Placed(u)'
  BY <1>1 DEF Placed, Others
<1>4. OneConnect'
  <2>1. CASE r.op = "connect"
    <3>1. t \in Calls /\ r.key \in Keys /\ t # Nobody
      BY <2>1, ConnectionsAssumption
    <3> QED
      BY <1>1, <2>1, <3>1, ConnectionsAssumption DEF OneConnect, Others, Idle, Tasks
  <2>2. CASE r.op # "connect"
    BY <1>1, <2>2 DEF OneConnect, Others, Idle, Tasks
  <2> QED
    BY <2>1, <2>2
<1>5. \A u \in Tasks : Clear(u)'
  BY <1>1 DEF Clear, At, Others, library
<1>6. Typed'
  BY <1>1, LibraryFrame DEF RowsOK
<1> QED
  BY <1>2, <1>3, <1>4, <1>5, <1>6

\* The user's calls.
LEMMA UserInv == ASSUME IInv, NEW t \in Calls, NEW k \in Keys, User(t, k) PROVE IInv'
<1> USE DEF IInv, Typed
<1>1. t \in Tasks /\ 0 \in Ports /\ TRUE \in BOOLEAN /\ FALSE \in BOOLEAN
  BY ConnectionsAssumption DEF Tasks, Ports
<1>2. CASE Connect(t, k)
  <2> DEFINE p == IF forward[k] THEN "access" ELSE "find"
             r == [pc |-> p, op |-> "connect", key |-> k, answer |-> 0]
  <2>1. p \in {"access", "find"}
    OBVIOUS
  <2>2. task[t] = Idle /\ task' = [task EXCEPT ![t] = r]
    BY <1>2 DEF Connect, Begin
  <2>6. StepsOK'
    BY <1>2, Counted DEF Connect, Begin
  <2> HIDE DEF p
  <2>3. /\ r \in TaskRec /\ r.op = "connect" /\ r.key = k /\ r.pc \in {"access", "find"}
    BY <1>1, <2>1 DEF TaskRec, Pcs, TaskOps
  <2>4. rows' \in [Keys -> Rows]
    <3>1. Row("connecting", 0, 0, FALSE, TRUE, FALSE) \in Rows
      BY <1>1, RowType
    <3> QED
      BY <1>2, <3>1, ShowEffect DEF Connect
  <2>5. /\ inFlight[k] = Nobody /\ inFlight' = [inFlight EXCEPT ![k] = t]
        /\ UNCHANGED <<forward, snap, keys, library>>
    BY <1>2 DEF Connect
  <2> HIDE DEF r
  <2> QED
    BY <1>1, <2>2, <2>3, <2>4, <2>5, <2>6, BeginInv DEF RowsOK
<1>3. CASE Disconnect(t, k)
  <2> DEFINE r == [pc |-> "stop", op |-> "disconnect", key |-> k, answer |-> 0]
  <2>1. /\ task[t] = Idle /\ task' = [task EXCEPT ![t] = r]
        /\ UNCHANGED <<rows, forward, inFlight, snap, keys, library>>
    BY <1>3 DEF Disconnect, Begin
  <2>0. StepsOK'
    BY <1>3, Counted DEF Disconnect, Begin
  <2>2. r \in TaskRec /\ r.op = "disconnect" /\ r.key = k /\ r.pc = "stop"
    BY <1>1 DEF TaskRec, Pcs, TaskOps
  <2> HIDE DEF r
  <2> QED
    BY <1>1, <2>0, <2>1, <2>2, BeginInv DEF RowsOK
<1>4. CASE LaunchClient(t, k)
  <2> DEFINE r == [pc |-> "client", op |-> "client", key |-> k, answer |-> 0]
  <2>1. /\ task[t] = Idle /\ task' = [task EXCEPT ![t] = r]
        /\ snap' = [snap EXCEPT ![t] = rows] /\ UNCHANGED <<rows, forward, inFlight, keys, library>>
    BY <1>4 DEF LaunchClient, Begin
  <2>0. StepsOK'
    BY <1>4, Counted DEF LaunchClient, Begin
  <2>2. r \in TaskRec /\ r.op = "client" /\ r.key = k /\ r.pc = "client"
    BY <1>1 DEF TaskRec, Pcs, TaskOps
  <2> HIDE DEF r
  <2> QED
    BY <1>1, <2>0, <2>1, <2>2, BeginInv DEF RowsOK
<1>5. CASE Retry(t, k)
  <2> DEFINE r == [pc |-> "find", op |-> "retry", key |-> k, answer |-> 0]
             row == [rows[k] EXCEPT !.status = "reconnecting", !.attempts = 0, !.due = TRUE]
  <2>1. /\ task[t] = Idle /\ task' = [task EXCEPT ![t] = r] /\ Show(k, row)
        /\ snap' = [snap EXCEPT ![t] = rows'] /\ UNCHANGED <<forward, inFlight, keys, library>>
    BY <1>5 DEF Retry, Begin
  <2>0. StepsOK'
    BY <1>5, Counted DEF Retry, Begin
  <2>2. r \in TaskRec /\ r.op = "retry" /\ r.key = k /\ r.pc = "find"
    BY <1>1 DEF TaskRec, Pcs, TaskOps
  <2>3. row \in Rows
    BY RowChange DEF RowsOK
  <2> HIDE DEF r, row
  <2>4. rows' \in [Keys -> Rows]
    BY <2>1, <2>3, ShowEffect
  <2>5. snap' \in [Tasks -> [Keys -> Rows]]
    BY <2>1, <2>4 DEF RowsOK
  <2> QED
    BY <1>1, <2>0, <2>1, <2>2, <2>4, <2>5, BeginInv DEF RowsOK
<1> QED
  BY <1>2, <1>3, <1>4, <1>5 DEF User

\* A health check that begins.
LEMMA TickInv == ASSUME IInv, NEW t \in Ticks, Tick(t) PROVE IInv'
<1> USE DEF IInv, Typed
<1> DEFINE p == IF \E k \in Keys : rows[k].status # "none" THEN "visit" ELSE "sweep"
           r == [Idle EXCEPT !.pc = p, !.op = "tick"]
           left == {k \in Keys : rows[k].status # "none"}
<1>1. /\ t \in Tasks /\ task[t] = Idle /\ task' = [task EXCEPT ![t] = r]
      /\ snap' = [snap EXCEPT ![t] = rows] /\ keys' = [keys EXCEPT ![t] = left]
      /\ UNCHANGED <<rows, forward, inFlight, library, calls, strayStop>>
  BY DEF Tick, Tasks
<1>2. p \in {"visit", "sweep"} /\ left \in SUBSET Keys
  OBVIOUS
<1> HIDE DEF p, left
<1>3. r \in TaskRec /\ r.op = "tick" /\ r.key = Nobody /\ r.pc = p
  <2>1. Idle.key = Nobody
    BY DEF Idle
  <2>2. p \in Pcs /\ "tick" \in TaskOps
    BY <1>2 DEF Pcs, TaskOps
  <2> QED
    BY <2>1, <2>2, IdleType DEF TaskRec
<1> HIDE DEF r
<1>4. StepsOK'
  BY <1>1 DEF StepsOK, library
<1>5. snap' \in [Tasks -> [Keys -> Rows]] /\ keys' \in [Tasks -> SUBSET Keys]
  BY <1>1, <1>2 DEF RowsOK
<1> QED
  BY <1>1, <1>2, <1>3, <1>4, <1>5, BeginInv DEF RowsOK

\* What happens by itself: a delay that passes, a stop that arrives, a reap, a
\* failure; and the switch of automatic reconnection.
LEMMA ElseInv ==
  ASSUME IInv, NEW k \in Keys,
         \/ \E enabled \in BOOLEAN : setAutoReconnect(k, enabled)
         \/ StrayStop(k) \/ Due(k) \/ IdleReap(k)
         \/ \E g \in 1..MaxStarts : \E how \in {"deaf", "dead"} : Fails(g, how)
  PROVE  IInv'
<1> USE DEF IInv, Typed
<1>1. ASSUME NEW enabled \in BOOLEAN, setAutoReconnect(k, enabled) PROVE IInv'
  <2> DEFINE row == [rows[k] EXCEPT !.autoReconnectEnabled = enabled]
  <2>1. row \in Rows
    BY RowChange DEF RowsOK
  <2>2. Show(k, row) /\ UNCHANGED <<forward, inFlight, task, snap, keys, library>>
    BY <1>1 DEF setAutoReconnect
  <2>3. StepsOK'
    BY <1>1, Counted DEF setAutoReconnect
  <2> HIDE DEF row
  <2> QED
    BY <2>1, <2>2, <2>3, ShowEffect, LibraryFrame, QuietInv
<1>2. CASE Due(k)
  <2> DEFINE row == [rows[k] EXCEPT !.due = TRUE]
  <2>1. row \in Rows
    BY RowChange DEF RowsOK
  <2>2. Show(k, row) /\ StepsOK' /\ UNCHANGED <<forward, inFlight, task, snap, keys, library>>
    BY <1>2 DEF Due, StepsOK, library
  <2> HIDE DEF row
  <2> QED
    BY <2>1, <2>2, ShowEffect, LibraryFrame, QuietInv
<1>3. CASE StrayStop(k)
  <2>1. LibraryOK' /\ Kept /\ UNCHANGED <<rows, forward, inFlight, task, snap, keys>>
    BY <1>3, RemoveEffect DEF StrayStop
  <2>2. StepsOK'
    BY <1>3 DEF StrayStop, StepsOK
  <2> QED
    BY <2>1, <2>2, QuietInv DEF RowsOK
<1>4. CASE IdleReap(k)
  <2>1. LibraryOK' /\ Kept /\ UNCHANGED <<rows, forward, inFlight, task, snap, keys>>
    BY <1>4, RemoveEffect DEF IdleReap
  <2>2. StepsOK'
    BY <1>4 DEF IdleReap, StepsOK
  <2> QED
    BY <2>1, <2>2, QuietInv DEF RowsOK
<1>5. ASSUME NEW g \in 1..MaxStarts, NEW how \in {"deaf", "dead"}, Fails(g, how) PROVE IInv'
  <2>1. health' \in [1..MaxStarts -> {"up", "deaf", "dead"}]
    BY <1>5 DEF Fails, LibraryOK
  <2>2. LibraryOK' /\ Kept
    BY <1>5, <2>1 DEF Fails, LibraryOK, Kept
  <2>3. StepsOK' /\ UNCHANGED <<rows, forward, inFlight, task, snap, keys>>
    BY <1>5 DEF Fails, StepsOK
  <2> QED
    BY <2>2, <2>3, QuietInv DEF RowsOK
<1> QED
  BY <1>1, <1>2, <1>3, <1>4, <1>5

\* The initial states satisfy the invariant.
LEMMA InitIInv == Init => IInv
<1> SUFFICES ASSUME Init PROVE IInv
  OBVIOUS
<1> USE DEF Init
<1>1. 0 \in Ports /\ 0 \in 0..MaxStarts /\ 0 \in 0..MaxCalls /\ 0 <= 0
  BY ConnectionsAssumption DEF Ports
<1>2. RowsOK
  BY RowType DEF RowsOK
<1>3. FlightOK
  BY IdleType DEF FlightOK
<1>4. LibraryOK /\ StepsOK
  BY <1>1 DEF LibraryOK, StepsOK
<1>5. OneConnect
  BY ConnectionsAssumption DEF OneConnect, Idle, Tasks
<1>6. \A t \in Tasks : Placed(t) /\ Clear(t)
  BY DEF Placed, Clear, At, Idle
<1> QED
  BY <1>2, <1>3, <1>4, <1>5, <1>6 DEF IInv, Typed

\* Every step keeps the invariant.
LEMMA NextInv == IInv /\ [Next]_vars => IInv'
<1> SUFFICES ASSUME IInv, [Next]_vars PROVE IInv'
  OBVIOUS
<1>1. CASE \E t \in Calls : \E k \in Keys : User(t, k)
  BY <1>1, UserInv
<1>2. CASE \E t \in Ticks : Tick(t)
  BY <1>2, TickInv
<1>3. CASE \E t \in Tasks : Step(t)
  BY <1>3, StepInv
<1>4. CASE \/ \E k \in Keys : \E enabled \in BOOLEAN : setAutoReconnect(k, enabled)
           \/ \E k \in Keys : StrayStop(k) \/ Due(k) \/ IdleReap(k)
  BY <1>4, ElseInv
<1>5. ASSUME NEW g \in 1..MaxStarts, NEW how \in {"deaf", "dead"}, Fails(g, how) PROVE IInv'
  <2>1. health' \in [1..MaxStarts -> {"up", "deaf", "dead"}]
    BY <1>5 DEF Fails, IInv, Typed, LibraryOK
  <2>2. LibraryOK' /\ Kept
    BY <1>5, <2>1 DEF Fails, IInv, Typed, LibraryOK, Kept
  <2>3. StepsOK' /\ UNCHANGED <<rows, forward, inFlight, task, snap, keys>>
    BY <1>5 DEF Fails, IInv, Typed, StepsOK
  <2> QED
    BY <2>2, <2>3, QuietInv DEF IInv, Typed, RowsOK
<1>6. CASE UNCHANGED vars
  <2>1. LibraryOK' /\ Kept
    BY <1>6, LibraryFrame DEF IInv, Typed, vars
  <2>2. StepsOK' /\ UNCHANGED <<task, inFlight, snap, keys, forward, rows>>
    BY <1>6 DEF IInv, Typed, StepsOK, vars, library
  <2> QED
    BY <2>1, <2>2, QuietInv DEF IInv, Typed, RowsOK
<1> QED
  BY <1>1, <1>2, <1>3, <1>4, <1>5, <1>6 DEF Next

\* The invariant holds in every reachable state.
LEMMA Invariant == Spec => []IInv
  BY InitIInv, NextInv, PTL DEF Spec

-----------------------------------------------------------------------------
\* Every variable keeps its type, for any number of overlapping calls and
\* checks.
THEOREM TypeCorrect == Spec => []TypeOK
<1>1. IInv => TypeOK
  BY DEF IInv, Typed, RowsOK, FlightOK, LibraryOK, StepsOK, TypeOK, TaskRec, TaskOps
<1> QED
  BY <1>1, Invariant, PTL

\* connect and connectSshForward: at most one connect of a key is under way,
\* and _inFlightConnects names it.
THEOREM SingleFlight == Spec => []OneConnect
<1>1. IInv => OneConnect
  BY DEF IInv
<1> QED
  BY <1>1, Invariant, PTL

\* connect: connects alone never register a backend over another, and so never
\* lose one.
THEOREM ConnectsLoseNothing == Spec => ConnectsNeverLeak
<1> DEFINE Leaks == \E k \in Keys :
                       /\ entry[k] # 0 /\ entry'[k] \notin {0, entry[k]}
                       /\ ~("connect" # maker[entry[k]] \/ "connect" # maker'[entry'[k]])
<1>1. IInv /\ [Next]_vars => [~Leaks]_vars
  <2> SUFFICES ASSUME IInv, Next, NEW k \in Keys, entry[k] # 0, entry'[k] \notin {0, entry[k]},
                      maker[entry[k]] = "connect", maker'[entry'[k]] = "connect"
               PROVE  FALSE
    OBVIOUS
  <2>1. ~Kept
    BY DEF Kept
  <2>2. PICK t \in Tasks : Launched(t) /\ Placed(t)
    <3>1. ~(UNCHANGED library)
      BY <2>1, LibraryFrame DEF IInv, Typed
    <3>2. ASSUME NEW q \in Keys PROVE ~StrayStop(q) /\ ~IdleReap(q)
      BY <2>1, RemoveEffect DEF IInv, Typed, StrayStop, IdleReap
    <3>3. ASSUME NEW g \in 1..MaxStarts, NEW how \in {"deaf", "dead"} PROVE ~Fails(g, how)
      BY <2>1 DEF Fails, IInv, Typed, LibraryOK, Kept
    <3>4. \E t \in Tasks : Step(t)
      BY <3>1, <3>2, <3>3 DEF Next, User, Connect, Disconnect, LaunchClient, Retry,
                              setAutoReconnect, Tick, Due
    <3> QED
      BY <2>1, <3>4, StepLibrary DEF IInv, Typed
  <2>3. task[t].op \in {"connect", "retry", "tick"} /\ task[t].key \in Keys /\ At(t, "launch")
    BY <2>2 DEF Launched, At, Placed
  <2>4. entry' = [entry EXCEPT ![task[t].key] = starts'] /\ maker'[starts'] = task[t].op
    BY <2>2, <2>3, LaunchedLibrary DEF IInv, Typed
  <2>5. k = task[t].key /\ task[t].op = "connect"
    BY <2>4 DEF IInv, Typed, LibraryOK
  <2> QED
    BY <2>3, <2>5 DEF IInv, Clear
<1>2. [~Leaks]_vars => [\A k \in Keys :
         entry[k] # 0 /\ entry'[k] \notin {0, entry[k]} =>
            "connect" # maker[entry[k]] \/ "connect" # maker'[entry'[k]]]_vars
  OBVIOUS
<1> QED
  BY <1>1, <1>2, Invariant, PTL DEF Spec, ConnectsNeverLeak
=============================================================================
