---------------------------- MODULE Connections ----------------------------
(***************************************************************************)
(* The connection manager of the user interface: a row for every tunnel,   *)
(* written by the calls the user makes, by a health check every 30 seconds *)
(* and by reconnection attempts. All of them wait for the native library   *)
(* in the middle, and then write over the row what they knew before. The   *)
(* library's registry is here what the manager can tell of it: an entry    *)
(* per key, whose backend is up, deaf (the process lives, the port does    *)
(* not answer) or dead. A backend is named by a number, its local port.    *)
(***************************************************************************)
EXTENDS Naturals, FiniteSets

CONSTANTS Keys,        \* the tunnels' keys
          Calls,       \* the user's calls that may be under way together
          Ticks,       \* the health checks that may be under way together
          Nobody,
          MaxAttempts, \* maxReconnectAttempts
          MaxStarts,   \* bound: the backends ever started
          MaxCalls     \* bound: the calls the user makes

ASSUME ConnectionsAssumption ==
    /\ Calls \cap Ticks = {} /\ Nobody \notin Calls
    /\ MaxAttempts \in Nat \ {0} /\ MaxStarts \in Nat /\ MaxCalls \in Nat

Tasks == Calls \cup Ticks
Ports == 0..MaxStarts   \* 0: none

VARIABLES
    rows,      \* state: what the manager shows for each key
    forward,   \* which keys name an SSH forward (never changes)
    inFlight,  \* _inFlightConnects
    task,      \* the calls and checks under way: place, operation, key, answer
    snap,      \* the rows each of them read before it waited
    keys,      \* the keys a check has yet to visit, or the library has reaped
    entry,     \* TUNNELS: the backend registered for each key
    health,    \* each backend: up, deaf or dead
    maker,     \* which operation started each backend
    starts, calls,
    strayStop, \* a stop of the key was started and not awaited
    reaped     \* the idle reaper took the key's last entry

library == <<entry, health, maker, starts, reaped>>
vars == <<rows, forward, inFlight, task, snap, keys, library, calls, strayStop>>

Row(status, port, attempts, due, auto, known) ==
    [status |-> status, port |-> port, attempts |-> attempts, due |-> due,
     autoReconnectEnabled |-> auto, known |-> known]
NoRow == Row("none", 0, 0, FALSE, TRUE, FALSE)
Rows  == [status : {"none", "disconnected", "connecting", "connected", "error", "reconnecting"},
          port : Ports, attempts : 0..MaxAttempts, due : BOOLEAN,
          autoReconnectEnabled : BOOLEAN, known : BOOLEAN]

Idle == [pc |-> "idle", op |-> "none", key |-> Nobody, answer |-> 0]
Pcs  == {"idle", "access", "find", "launch", "answer", "stop", "stopped", "client",
         "visit", "check", "judge", "latency", "sweep", "mark"}

TypeOK ==
    /\ rows \in [Keys -> Rows]
    /\ forward \in [Keys -> BOOLEAN]
    /\ inFlight \in [Keys -> Calls \cup {Nobody}]
    /\ task \in [Tasks -> [pc : Pcs,
                           op : {"none", "connect", "retry", "disconnect", "client", "tick"},
                           key : Keys \cup {Nobody}, answer : Ports]]
    /\ snap \in [Tasks -> [Keys -> Rows]]
    /\ keys \in [Tasks -> SUBSET Keys]
    /\ entry \in [Keys -> Ports]
    /\ health \in [1..MaxStarts -> {"up", "deaf", "dead"}]
    /\ maker \in [1..MaxStarts -> {"none", "connect", "retry", "tick"}]
    /\ starts \in 0..MaxStarts /\ calls \in 0..MaxCalls
    /\ strayStop \in [Keys -> BOOLEAN] /\ reaped \in [Keys -> BOOLEAN]

Blank == [k \in Keys |-> NoRow]

Init ==
    /\ rows = Blank
    /\ forward \in [Keys -> BOOLEAN]
    /\ inFlight = [k \in Keys |-> Nobody]
    /\ task = [t \in Tasks |-> Idle]
    /\ snap = [t \in Tasks |-> Blank]
    /\ keys = [t \in Tasks |-> {}]
    /\ entry = [k \in Keys |-> 0]
    /\ health = [g \in 1..MaxStarts |-> "up"]
    /\ maker = [g \in 1..MaxStarts |-> "none"]
    /\ starts = 0 /\ calls = 0
    /\ strayStop = [k \in Keys |-> FALSE] /\ reaped = [k \in Keys |-> FALSE]

Up(k) == entry[k] # 0 /\ health[entry[k]] = "up"

Begin(t, op, pc, k) ==
    /\ task[t] = Idle
    /\ calls < MaxCalls /\ calls' = calls + 1
    /\ task' = [task EXCEPT ![t] = [pc |-> pc, op |-> op, key |-> k, answer |-> 0]]

At(t, pc)        == task[t].pc = pc
Move(t, pc, ans) == task' = [task EXCEPT ![t].pc = pc, ![t].answer = ans]
Forget(t)        == snap' = [snap EXCEPT ![t] = Blank] /\ keys' = [keys EXCEPT ![t] = {}]
Finish(t)        == task' = [task EXCEPT ![t] = Idle] /\ Forget(t)
Show(k, row)     == rows' = [rows EXCEPT ![k] = row]

----------------------------------------------------------------------------
(* What the library does with a call, on a thread of its own               *)

(* Entries that are taken out are stopped.                                 *)
Remove(ks) ==
    /\ entry' = [k \in Keys |-> IF k \in ks THEN 0 ELSE entry[k]]
    /\ health' = [g \in 1..MaxStarts |-> IF \E k \in ks : entry[k] = g THEN "dead" ELSE health[g]]

(* start_tunnel, start_ssh_forward: an entry is handed out as it is.       *)
Find(t) ==
    /\ At(t, "find")
    /\ LET g == entry[task[t].key]
       IN  IF g # 0 THEN Move(t, "answer", g) ELSE Move(t, "launch", 0)
    /\ UNCHANGED <<rows, forward, inFlight, snap, keys, library, calls, strayStop>>

(* A launched backend is registered, over whatever is registered by now.   *)
Launched(t) ==
    /\ At(t, "launch")
    /\ starts < MaxStarts
    /\ starts' = starts + 1
    /\ entry' = [entry EXCEPT ![task[t].key] = starts']
    /\ maker' = [maker EXCEPT ![starts'] = task[t].op]
    /\ reaped' = [reaped EXCEPT ![task[t].key] = FALSE]
    /\ Move(t, "answer", starts')
    /\ UNCHANGED <<rows, forward, inFlight, snap, keys, health, calls, strayStop>>

LaunchFails(t) ==
    /\ At(t, "launch")
    /\ Move(t, "answer", 0)
    /\ UNCHANGED <<rows, forward, inFlight, snap, keys, library, calls, strayStop>>

(* stop_tunnel, stop_ssh_forward.                                          *)
Stop(t) ==
    /\ At(t, "stop")
    /\ Remove({task[t].key})
    /\ Move(t, "stopped", 0)
    /\ UNCHANGED <<rows, forward, inFlight, snap, keys, maker, starts, reaped, calls, strayStop>>

(* The stop that _enterReconnectingState started and did not await.        *)
StrayStop(k) ==
    /\ strayStop[k]
    /\ strayStop' = [strayStop EXCEPT ![k] = FALSE]
    /\ Remove({k})
    /\ UNCHANGED <<rows, forward, inFlight, task, snap, keys, maker, starts, reaped, calls>>

(* check_tunnel_health; an absent entry is an error, which counts the same.*)
Check(t) ==
    /\ At(t, "check")
    /\ Move(t, IF Up(task[t].key) THEN "latency" ELSE "judge", 0)
    /\ UNCHANGED <<rows, forward, inFlight, snap, keys, library, calls, strayStop>>

(* cleanup_dead_tunnels                                                    *)
Sweep(t) ==
    /\ At(t, "sweep")
    /\ LET dead == {k \in Keys : entry[k] # 0 /\ health[entry[k]] = "dead"}
       IN  /\ Remove(dead)
           /\ keys' = [keys EXCEPT ![t] = dead]
    /\ Move(t, "mark", 0)
    /\ UNCHANGED <<rows, forward, inFlight, snap, maker, starts, reaped, calls, strayStop>>

Fails(g, how) ==
    /\ health[g] = "up" \/ (health[g] = "deaf" /\ how = "dead")
    /\ g <= starts
    /\ health' = [health EXCEPT ![g] = how]
    /\ UNCHANGED <<rows, forward, inFlight, task, snap, keys, entry, maker, starts, reaped, calls, strayStop>>

(* reap_idle_tunnels_once: what a start has just handed out is not idle.   *)
IdleReap(k) ==
    /\ entry[k] # 0
    /\ \A t \in Tasks : ~(task[t].key = k /\ At(t, "answer"))
    /\ Remove({k})
    /\ reaped' = [reaped EXCEPT ![k] = TRUE]
    /\ UNCHANGED <<rows, forward, inFlight, task, snap, keys, maker, starts, calls, strayStop>>

----------------------------------------------------------------------------
(* connect and connectSshForward: single flight                            *)

(* Mutant: every caller starts a connect of its own.                       *)
ConnectUnjoined(t, k) ==
    /\ Begin(t, "connect", IF forward[k] THEN "access" ELSE "find", k)
    /\ inFlight' = [inFlight EXCEPT ![k] = t]
    /\ Show(k, Row("connecting", 0, 0, FALSE, TRUE, FALSE))
    /\ UNCHANGED <<forward, snap, keys, library, strayStop>>

(* A caller that finds a connect under way joins it and changes nothing.   *)
Connect(t, k) ==
    /\ inFlight[k] = Nobody
    /\ Begin(t, "connect", IF forward[k] THEN "access" ELSE "find", k)
    /\ inFlight' = [inFlight EXCEPT ![k] = t]
    /\ Show(k, Row("connecting", 0, 0, FALSE, TRUE, FALSE))
    /\ UNCHANGED <<forward, snap, keys, library, strayStop>>

(* A forward first needs SSH access to the VM: granted, refused, failed or *)
(* abandoned with its widget.                                              *)
AccessGranted(t) ==
    /\ At(t, "access")
    /\ Move(t, "find", 0)
    /\ UNCHANGED <<rows, forward, inFlight, snap, keys, library, calls, strayStop>>

Settled(t) == inFlight' = [inFlight EXCEPT ![task[t].key] = Nobody]

AccessDenied(t, abandoned) ==
    /\ At(t, "access")
    /\ Show(task[t].key, IF abandoned THEN Row("disconnected", 0, 0, FALSE, TRUE, FALSE)
                                      ELSE Row("error", 0, 0, FALSE, TRUE, TRUE))
    /\ Settled(t) /\ Finish(t)
    /\ UNCHANGED <<forward, library, calls, strayStop>>

(* The row is overwritten, whatever happened to it during the start.       *)
Connected(t) ==
    /\ At(t, "answer") /\ task[t].op = "connect"
    /\ LET k == task[t].key  port == task[t].answer
       IN  Show(k, IF port # 0 THEN Row("connected", port, 0, FALSE, ~forward[k], TRUE)
                               ELSE Row("error", 0, 0, FALSE, TRUE, TRUE))
    /\ Settled(t) /\ Finish(t)
    /\ UNCHANGED <<forward, library, calls, strayStop>>

(* disconnectByKey: the row goes when the stop has been answered.          *)
Disconnect(t, k) ==
    /\ rows[k].status # "none"
    /\ Begin(t, "disconnect", "stop", k)
    /\ UNCHANGED <<rows, forward, inFlight, snap, keys, library, strayStop>>

Disconnected(t) ==
    /\ At(t, "stopped")
    /\ Show(task[t].key, NoRow)
    /\ Finish(t)
    /\ UNCHANGED <<forward, inFlight, library, calls, strayStop>>

(* launchRDP: a client that cannot be started writes the row it read       *)
(* before, without project and zone.                                       *)
LaunchClient(t, k) ==
    /\ rows[k].status = "connected" /\ ~forward[k]
    /\ Begin(t, "client", "client", k)
    /\ snap' = [snap EXCEPT ![t] = rows]
    /\ UNCHANGED <<rows, forward, inFlight, keys, library, strayStop>>

ClientAnswers(t, launched) ==
    /\ At(t, "client")
    /\ LET k == task[t].key
       IN  IF launched THEN UNCHANGED rows
                       ELSE Show(k, Row("connected", snap[t][k].port, 0, FALSE, TRUE, FALSE))
    /\ Finish(t)
    /\ UNCHANGED <<forward, inFlight, library, calls, strayStop>>

setAutoReconnect(k, enabled) ==
    /\ rows[k].status # "none" /\ ~forward[k]
    /\ rows[k].autoReconnectEnabled # enabled
    /\ calls < MaxCalls /\ calls' = calls + 1
    /\ Show(k, [rows[k] EXCEPT !.autoReconnectEnabled = enabled])
    /\ UNCHANGED <<forward, inFlight, task, snap, keys, library, strayStop>>

----------------------------------------------------------------------------
(* Reconnection                                                            *)

(* To the next key, and to the sweep after the last.                       *)
Onwards(t, left) ==
    task' = [task EXCEPT ![t] = [@ EXCEPT !.pc = IF left = {} THEN "sweep" ELSE "visit",
                                          !.key = Nobody, !.answer = 0]]

(* retryConnection                                                         *)
Retry(t, k) ==
    /\ rows[k].status \in {"error", "reconnecting"} /\ rows[k].known /\ ~forward[k]
    /\ Begin(t, "retry", "find", k)
    /\ Show(k, [rows[k] EXCEPT !.status = "reconnecting", !.attempts = 0, !.due = TRUE])
    /\ snap' = [snap EXCEPT ![t] = rows']
    /\ UNCHANGED <<forward, inFlight, keys, library, strayStop>>

(* The delay before the next attempt has passed.                           *)
Due(k) ==
    /\ rows[k].status = "reconnecting" /\ ~rows[k].due
    /\ Show(k, [rows[k] EXCEPT !.due = TRUE])
    /\ UNCHANGED <<forward, inFlight, task, snap, keys, library, calls, strayStop>>

(* Mutant: the attempts are not counted.                                   *)
AfterFailureUncounted(row) == [row EXCEPT !.status = "reconnecting", !.due = FALSE]

(* What a failed attempt leaves: the next one scheduled, or an error.      *)
AfterFailure(row) ==
    IF row.attempts + 1 >= MaxAttempts
    THEN [row EXCEPT !.status = "error", !.attempts = MaxAttempts, !.due = FALSE]
    ELSE [row EXCEPT !.status = "reconnecting", !.attempts = @ + 1, !.due = FALSE]

(* _attemptReconnection: from the row the caller passed, not today's.      *)
Attempted(t) ==
    /\ At(t, "answer") /\ task[t].op \in {"retry", "tick"}
    /\ LET k == task[t].key  row == snap[t][k]  port == task[t].answer
       IN  Show(k, IF port # 0 THEN Row("connected", port, 0, FALSE, row.autoReconnectEnabled, TRUE)
                               ELSE AfterFailure(row))
    /\ IF task[t].op = "tick"
       THEN Onwards(t, keys[t]) /\ UNCHANGED <<snap, keys>>
       ELSE Finish(t)
    /\ UNCHANGED <<forward, inFlight, library, calls, strayStop>>

----------------------------------------------------------------------------
(* _checkAllTunnels: over a copy of the rows                               *)

Tick(t) ==
    /\ task[t] = Idle
    /\ task' = [task EXCEPT ![t] = [Idle EXCEPT
                                      !.pc = IF \E k \in Keys : rows[k].status # "none" THEN "visit" ELSE "sweep",
                                      !.op = "tick"]]
    /\ snap' = [snap EXCEPT ![t] = rows]
    /\ keys' = [keys EXCEPT ![t] = {k \in Keys : rows[k].status # "none"}]
    /\ UNCHANGED <<rows, forward, inFlight, library, calls, strayStop>>

Visit(t, k) ==
    /\ At(t, "visit") /\ k \in keys[t]
    /\ keys' = [keys EXCEPT ![t] = @ \ {k}]
    /\ LET row == snap[t][k]
           due == row.status = "reconnecting" /\ row.due /\ row.known
       IN  IF ~forward[k] /\ (due \/ row.status = "connected")
           THEN task' = [task EXCEPT ![t].pc = IF due THEN "find" ELSE "check", ![t].key = k]
           ELSE Onwards(t, keys[t] \ {k})
    /\ UNCHANGED <<rows, forward, inFlight, snap, library, calls, strayStop>>

(* Mutant: a check that failed is only logged.                             *)
UnhealthyIgnored(t) ==
    /\ At(t, "judge")
    /\ Onwards(t, keys[t])
    /\ UNCHANGED <<rows, forward, inFlight, snap, keys, library, calls, strayStop>>

(* Not healthy: _enterReconnectingState, or an error.                      *)
Unhealthy(t) ==
    /\ At(t, "judge")
    /\ LET k == task[t].key  row == snap[t][k]
       IN  IF row.autoReconnectEnabled /\ row.known
           THEN /\ strayStop' = [strayStop EXCEPT ![k] = TRUE]
                /\ Show(k, [row EXCEPT !.status = "reconnecting", !.attempts = 0, !.due = FALSE])
           ELSE /\ Show(k, [row EXCEPT !.status = "error"])
                /\ UNCHANGED strayStop
    /\ Onwards(t, keys[t])
    /\ UNCHANGED <<forward, inFlight, snap, keys, library, calls>>

(* Healthy: the row is written as it was before both calls.                *)
Healthy(t) ==
    /\ At(t, "latency")
    /\ LET k == task[t].key  row == snap[t][k]
       IN  Show(k, [row EXCEPT !.status = "connected", !.attempts = 0])
    /\ Onwards(t, keys[t])
    /\ UNCHANGED <<forward, inFlight, snap, keys, library, calls, strayStop>>

(* markDeadTunnels                                                         *)
Marked(row) ==
    IF row.status \in {"none", "reconnecting"}
    THEN row
    ELSE [row EXCEPT !.status = "error", !.attempts = 0, !.due = FALSE]

Mark(t) ==
    /\ At(t, "mark")
    /\ rows' = [k \in Keys |-> IF k \in keys[t] THEN Marked(rows[k]) ELSE rows[k]]
    /\ Finish(t)
    /\ UNCHANGED <<forward, inFlight, library, calls, strayStop>>

----------------------------------------------------------------------------
Step(t) ==
    \/ Find(t) \/ Launched(t) \/ LaunchFails(t) \/ Stop(t) \/ Check(t) \/ Sweep(t)
    \/ AccessGranted(t) \/ (\E abandoned \in BOOLEAN : AccessDenied(t, abandoned))
    \/ Connected(t) \/ Disconnected(t)
    \/ (\E launched \in BOOLEAN : ClientAnswers(t, launched))
    \/ Attempted(t) \/ (\E k \in Keys : Visit(t, k))
    \/ Unhealthy(t) \/ Healthy(t) \/ Mark(t)

User(t, k) ==
    Connect(t, k) \/ Disconnect(t, k) \/ LaunchClient(t, k) \/ Retry(t, k)

Next ==
    \/ \E t \in Calls : \E k \in Keys : User(t, k)
    \/ \E k \in Keys : \E enabled \in BOOLEAN : setAutoReconnect(k, enabled)
    \/ \E t \in Ticks : Tick(t)
    \/ \E t \in Tasks : Step(t)
    \/ \E k \in Keys : StrayStop(k) \/ Due(k) \/ IdleReap(k)
    \/ \E g \in 1..MaxStarts : \E how \in {"deaf", "dead"} : Fails(g, how)

Spec == Init /\ [][Next]_vars

(* The library answers every call it is given, the timer fires, and a      *)
(* delay passes.                                                           *)
Fairness ==
    /\ \A t \in Tasks : WF_vars(Step(t))
    /\ \A t \in Ticks : WF_vars(Tick(t))
    /\ \A k \in Keys : WF_vars(StrayStop(k)) /\ WF_vars(Due(k))

FairSpec == Spec /\ Fairness

----------------------------------------------------------------------------
(* At most one connect of a key is under way, and the table of those under *)
(* way names it, so that everybody who joins is answered.                  *)
OneConnect ==
    \A k \in Keys : \A t \in Calls :
        task[t].op = "connect" /\ task[t].key = k <=> inFlight[k] = t

(* Connects alone never lose a backend: one that is registered over        *)
(* another was started, or the other was, by a reconnection attempt.       *)
ConnectsNeverLeak ==
    [][\A k \in Keys :
         entry[k] # 0 /\ entry'[k] \notin {0, entry[k]} =>
            "connect" # maker[entry[k]] \/ "connect" # maker'[entry'[k]]]_vars

(* A tunnel that fails, dies or is reaped does not stay green: some health *)
(* check sees it, although a check that read the row before may write it   *)
(* green once more.                                                        *)
Green(k) == rows[k].status = "connected"
DeadIsNoticed ==
    \A k \in Keys : ~forward[k] /\ Green(k) /\ ~Up(k) ~> ~Green(k) \/ Up(k)

(* What the idle reaper took does not stay green either, tunnel or forward.*)
ReapedIsNoticed ==
    \A k \in Keys : Green(k) /\ reaped[k] ~> ~Green(k) \/ ~reaped[k]

(* Automatic reconnection ends, in a connection or in an error, although   *)
(* checks overlap and each works on its own copy of the row.               *)
ReconnectSettles ==
    \A k \in Keys : rows[k].status = "reconnecting" ~> rows[k].status # "reconnecting"
=============================================================================
