--------------------------- MODULE TunnelRegistry ---------------------------
(***************************************************************************)
(* The process-wide registry of tunnels and SSH forwards                   *)
(* (native/src/tunnel.rs, with NativeTunnel of iap_tunnel/listener.rs and  *)
(* NativeSshForward of ssh_forward.rs as its backends).                    *)
(*                                                                         *)
(* Bridge worker threads call it concurrently.  A start looks the key up   *)
(* under the TUNNELS lock, builds its backend with no lock held, and       *)
(* inserts it under the lock again; a stop, a cleanup, a touch and a       *)
(* health check hold the lock throughout; the idle reaper reads /proc      *)
(* before it takes the lock and stops what it removed after releasing it.  *)
(*                                                                         *)
(* Backends are numbered in the order they are created.  Time is counted   *)
(* in ticks.  Of the operating system: a port has one listener, and the    *)
(* connections of a listener are cut with it.                              *)
(***************************************************************************)
EXTENDS Naturals, FiniteSets

CONSTANTS
    Keys,         \* TUNNELS keys
    ForwardKeys,  \* those of make_ssh_forward_key
    NoKey,
    Engines,      \* engines the settings may select: "native", "gcloud"
    Callers,      \* threads that may be inside a start
    Guarded,      \* those that come through the UI's single-flight connect; the
                  \* reconnection's and ssh_access's starts do not
    Ports,
    MaxStarts,    \* bound: backends created
    MaxPolls,     \* attempts of wait_for_listener
    Idle,         \* IDLE_TIMEOUT, in ticks
    MaxStart,     \* bound: ticks a start takes once its backend exists
    MaxLag        \* bound: ticks the reaper waits for the lock

ASSUME ConstantsAssumption ==
    /\ ForwardKeys \subseteq Keys
    /\ NoKey \notin Keys
    /\ Engines \subseteq {"native", "gcloud"}
    /\ Guarded \subseteq Callers /\ Ports # {}
    /\ MaxStarts \in Nat /\ MaxPolls \in Nat
    /\ Idle \in Nat /\ MaxStart \in Nat /\ MaxLag \in Nat

Ids == 1..MaxStarts

None == 0

\* The age from which IapTunnels are not told apart.
Cap == Idle + MaxLag + 1

VARIABLES
    reg,        \* TUNNELS: the backend under each key, or None
    \* a thread inside start_tunnel or start_ssh_forward
    step, key, mine, polls,
    \* the backends
    made,       \* how many exist
    kind, port, proc,
    bound,      \* those whose listener holds their port
    quiet,      \* ticks since last_active
    conns,      \* those with an ESTABLISHED client connection
    \* the reaper
    reaper, seen, lag, doomed,
    \* history
    since,      \* ticks since the backend was last handed to a caller or touched
    spared,     \* connections open ever since the reaper read /proc
    outside,    \* keys last opened by a start outside the single flight
    displaced   \* backends another start replaced under their key, one of the
                \* two starts being outside it

callerVars == <<step, key, mine, polls>>
bodyVars == <<made, kind, port, outside, displaced>>
reaperVars == <<reaper, seen, lag, doomed>>
vars == <<reg, callerVars, bodyVars, proc, bound, quiet, conns, reaperVars,
          since, spared>>

Procs == {"none",      \* not created
          "up",        \* the process, accept loop or reactor runs
          "exited",    \* it ended by itself
          "collected", \* and try_wait has reaped it
          "stopping",  \* a native accept loop told to end, still there
          "stopped"}

-----------------------------------------------------------------------------
Registered == {reg[k] : k \in Keys} \ {None}

\* The backends of starts in flight.
Held == {mine[c] : c \in {d \in Callers : mine[d] # None}}

Free(p) == \A b \in bound : port[b] # p

Collectable(b) == kind[b] = "gcloud" /\ proc[b] = "exited"

\* is_process_alive, and what it does to a child that exited: try_wait reaps it.
Alive(b) == proc[b] = "up"
Collect(b) ==
    proc' = [proc EXCEPT ![b] = IF Collectable(b) THEN "collected" ELSE @]

\* last_active = now for the backends of S.
Refreshed(S) == [b \in Ids |-> IF b \in S THEN 0 ELSE quiet[b]]
HandedOut(S) == since' = [b \in Ids |-> IF b \in S THEN 0 ELSE since[b]]

\* Their listener closes and their connections are cut.
Cut(S) ==
    /\ bound' = bound \ S
    /\ conns' = conns \ S
    /\ spared' = spared \ S

\* IapTunnel::stop on each of S.  The accept loop of a native tunnel is only
\* told to abort; kill_process_group and the forward's stop wait until the
\* listener is gone.
StopAll(S) ==
    /\ proc' = [b \in Ids |->
                  IF b \notin S THEN proc[b]
                  ELSE IF kind[b] = "native" THEN "stopping" ELSE "stopped"]
    /\ Cut({b \in S : kind[b] # "native"})

-----------------------------------------------------------------------------
Init ==
    /\ reg = [k \in Keys |-> None]
    /\ step = [c \in Callers |-> "idle"]
    /\ key = [c \in Callers |-> NoKey]
    /\ mine = [c \in Callers |-> None]
    /\ polls = [c \in Callers |-> 0]
    /\ made = 0
    /\ kind = [b \in Ids |-> "native"]
    /\ port = [b \in Ids |-> CHOOSE p \in Ports : TRUE]
    /\ proc = [b \in Ids |-> "none"]
    /\ bound = {} /\ conns = {}
    /\ quiet = [b \in Ids |-> 0]
    /\ reaper = "off" /\ seen = {} /\ lag = 0 /\ doomed = {}
    /\ since = [b \in Ids |-> 0]
    /\ spared = {} /\ outside = {} /\ displaced = {}

-----------------------------------------------------------------------------
(* start_tunnel and start_ssh_forward *)

\* Mutant: the idle timer of a reused tunnel is left alone.
ReuseKeepsTimer(k) ==
    /\ reg[k] # None
    /\ HandedOut({reg[k]})
    /\ UNCHANGED <<reg, callerVars, bodyVars, proc, bound, quiet, conns,
                   reaperVars, spared>>

\* The key has a tunnel: its idle timer restarts and its port is returned.
Reuse(k) ==
    /\ reg[k] # None
    /\ quiet' = Refreshed({reg[k]})
    /\ HandedOut({reg[k]})
    /\ UNCHANGED <<reg, callerVars, bodyVars, proc, bound, conns,
                   reaperVars, spared>>

\* connect joins the start already in flight for its key.
Admitted(c, k) ==
    c \in Guarded => \A d \in Guarded : key[d] # k

\* Mutant: a tunnel that died counts as none, and is not stopped first.
BeginOverDead(c, k) ==
    /\ step[c] = "idle"
    /\ reg[k] # None => ~Alive(reg[k])
    /\ Admitted(c, k)
    /\ step' = [step EXCEPT ![c] = "build"]
    /\ key' = [key EXCEPT ![c] = k]
    /\ UNCHANGED <<reg, mine, polls, bodyVars, proc, bound, quiet, conns,
                   reaperVars, since, spared>>

\* The key has no tunnel: the lock is released and the engine started.
Begin(c, k) ==
    /\ step[c] = "idle"
    /\ reg[k] = None
    /\ Admitted(c, k)
    /\ step' = [step EXCEPT ![c] = "build"]
    /\ key' = [key EXCEPT ![c] = k]
    /\ UNCHANGED <<reg, mine, polls, bodyVars, proc, bound, quiet, conns,
                   reaperVars, since, spared>>

\* The start returns to its caller.
Done(c) ==
    /\ step' = [step EXCEPT ![c] = "idle"]
    /\ key' = [key EXCEPT ![c] = NoKey]
    /\ mine' = [mine EXCEPT ![c] = None]
    /\ polls' = [polls EXCEPT ![c] = 0]

\* It fails before a backend exists: the port is taken, the engine cannot be
\* run, the forward's transport or SSH session fails.
BuildFails(c) ==
    /\ step[c] = "build"
    /\ Done(c)
    /\ UNCHANGED <<reg, bodyVars, proc, bound, quiet, conns, reaperVars, since,
                   spared>>

\* A backend of kind e on port p, for thread c, which goes on at s.
Create(c, e, p, s) ==
    LET b == made + 1 IN
    /\ step[c] = "build"
    /\ b \in Ids
    /\ Free(p)
    /\ made' = b
    /\ kind' = [kind EXCEPT ![b] = e]
    /\ port' = [port EXCEPT ![b] = p]
    /\ proc' = [proc EXCEPT ![b] = "up"]
    /\ quiet' = [quiet EXCEPT ![b] = 0]
    /\ mine' = [mine EXCEPT ![c] = b]
    /\ step' = [step EXCEPT ![c] = s]
    /\ UNCHANGED <<reg, key, polls, conns, reaperVars, since, spared,
                   outside, displaced>>

\* listener::start binds the port, then probes the relay.
NativeBinds(c, p) ==
    /\ "native" \in Engines
    /\ key[c] \notin ForwardKeys
    /\ Create(c, "native", p, "probe")
    /\ bound' = bound \union {made + 1}

\* No token, or the probe is refused: the listener is dropped.
NativeProbeFails(c) ==
    /\ step[c] = "probe"
    /\ proc' = [proc EXCEPT ![mine[c]] = "stopped"]
    /\ Cut({mine[c]})
    /\ Done(c)
    /\ UNCHANGED <<reg, bodyVars, quiet, reaperVars, since>>

NativeReady(c) ==
    /\ step[c] = "probe"
    /\ quiet' = Refreshed({mine[c]})
    /\ step' = [step EXCEPT ![c] = "insert"]
    /\ UNCHANGED <<reg, key, mine, polls, bodyVars, proc, bound, conns,
                   reaperVars, since, spared>>

\* ssh_forward::start: the transport, the SSH session, then the listener.
ForwardUp(c, p) ==
    /\ "native" \in Engines
    /\ key[c] \in ForwardKeys
    /\ Create(c, "forward", p, "insert")
    /\ bound' = bound \union {made + 1}

\* start_gcloud and spawn_ssh_forward: the port is free now, and the child is
\* spawned to bind it later.
GcloudSpawns(c, p) ==
    /\ "gcloud" \in Engines
    /\ Create(c, "gcloud", p, "settle")
    /\ UNCHANGED bound

\* After a second the child must not have exited.
GcloudSettles(c) ==
    /\ step[c] = "settle"
    /\ Collect(mine[c])
    /\ IF Alive(mine[c])
       THEN /\ step' = [step EXCEPT ![c] = "poll"]
            /\ UNCHANGED <<key, mine, polls>>
       ELSE Done(c)
    /\ UNCHANGED <<reg, bodyVars, bound, quiet, conns, reaperVars, since,
                   spared>>

\* wait_for_listener asks after the engine first.  Exited or TimedOut, the
\* start stops the child and fails.
PollEngine(c) ==
    LET b == mine[c] IN
    /\ step[c] = "poll"
    /\ IF polls[c] < MaxPolls /\ Alive(b)
       THEN /\ step' = [step EXCEPT ![c] = "port"]
            /\ UNCHANGED <<key, mine, polls, proc, bound, conns, spared>>
       ELSE /\ StopAll({b})
            /\ Done(c)
    /\ UNCHANGED <<reg, bodyVars, quiet, reaperVars, since>>

\* Then whether anybody answers on the port.
PollPort(c) ==
    /\ step[c] = "port"
    /\ IF Free(port[mine[c]])
       THEN /\ step' = [step EXCEPT ![c] = "poll"]
            /\ polls' = [polls EXCEPT ![c] = @ + 1]
       ELSE /\ step' = [step EXCEPT ![c] = "insert"]
            /\ UNCHANGED polls
    /\ UNCHANGED <<reg, key, mine, bodyVars, proc, bound, quiet, conns,
                   reaperVars, since, spared>>

\* Under the lock again: an entry that appeared meanwhile is dropped.  That
\* ends a native loop or forward (its shutdown sender is gone); dropping a
\* Child does nothing to the process, which is then out of every reach.
Insert(c) ==
    LET old == reg[key[c]] IN
    /\ step[c] = "insert"
    /\ reg' = [reg EXCEPT ![key[c]] = mine[c]]
    /\ proc' = [b \in Ids |->
                  IF b = old /\ kind[b] # "gcloud" THEN "stopping" ELSE proc[b]]
    /\ reaper' = IF reaper = "off" THEN "sleep" ELSE reaper
    /\ HandedOut({mine[c]})
    /\ outside' = IF c \in Guarded THEN outside \ {key[c]} ELSE outside \union {key[c]}
    /\ displaced' = IF old \in Ids /\ (c \notin Guarded \/ key[c] \in outside)
                    THEN displaced \union {old} ELSE displaced
    /\ Done(c)
    /\ UNCHANGED <<made, kind, port, bound, quiet, conns, seen, lag, doomed,
                   spared>>

-----------------------------------------------------------------------------
(* The operations that hold the lock throughout *)

\* Mutant: the entry is dropped without being stopped.
StopForgets(k) ==
    /\ reg' = [reg EXCEPT ![k] = None]
    /\ UNCHANGED <<callerVars, bodyVars, proc, bound, conns, spared,
                   quiet, reaperVars, since>>

\* stop_tunnel and stop_ssh_forward; no entry is only a warning.
Stop(k) ==
    /\ reg[k] # None
    /\ reg' = [reg EXCEPT ![k] = None]
    /\ StopAll({reg[k]})
    /\ UNCHANGED <<callerVars, bodyVars, quiet, reaperVars, since>>

\* cleanup_dead_tunnels.
Cleanup ==
    LET dead == {b \in Registered : ~Alive(b)} IN
    /\ dead # {}
    /\ reg' = [k \in Keys |-> IF reg[k] \in dead THEN None ELSE reg[k]]
    /\ StopAll(dead)
    /\ UNCHANGED <<callerVars, bodyVars, quiet, reaperVars, since>>

\* check_tunnel_health changes nothing but what try_wait changes.
CheckHealth(k) ==
    /\ k \notin ForwardKeys
    /\ reg[k] # None
    /\ Collectable(reg[k])
    /\ Collect(reg[k])
    /\ UNCHANGED <<reg, callerVars, bodyVars, bound, quiet, conns, reaperVars,
                   since, spared>>

\* touch_tunnel_by_local_port.
Touch(p) ==
    LET pinned == {b \in Registered : port[b] = p} IN
    /\ pinned # {}
    /\ quiet' = Refreshed(pinned)
    /\ HandedOut(pinned)
    /\ UNCHANGED <<reg, callerVars, bodyVars, proc, bound, conns, reaperVars,
                   spared>>

-----------------------------------------------------------------------------
(* start_reaper_once's thread: reap_idle_tunnels_once *)

\* It reads /proc/net/tcp and takes the time, with no lock held.
ReaperWakes ==
    /\ reaper = "sleep"
    /\ reaper' = "sweep"
    /\ seen' = {port[b] : b \in conns}
    /\ spared' = conns
    /\ lag' = 0
    /\ UNCHANGED <<reg, callerVars, bodyVars, proc, bound, quiet, conns, doomed,
                   since>>

\* should_reap, at the time the reaper took: a later last_active is no age.
Expired(b) == quiet[b] > Idle + lag

\* Mutant: nothing is ever idle.
SweepNothing ==
    /\ reaper = "sweep"
    /\ reaper' = "sleep"
    /\ seen' = {} /\ lag' = 0 /\ spared' = {}
    /\ UNCHANGED <<reg, callerVars, bodyVars, proc, bound, conns, since, quiet, doomed>>

\* Under the lock: an entry whose port had a connection is active as of that
\* time, one that is idle too long is removed.
Sweep ==
    LET active == {b \in Registered : port[b] \in seen}
        idle == {b \in Registered \ active : Expired(b)}
    IN  /\ reaper = "sweep"
        /\ quiet' = [b \in Ids |-> IF b \in active THEN lag ELSE quiet[b]]
        /\ reg' = [k \in Keys |-> IF reg[k] \in idle THEN None ELSE reg[k]]
        /\ doomed' = idle
        /\ reaper' = IF idle = {} THEN "sleep" ELSE "kill"
        /\ seen' = {} /\ lag' = 0 /\ spared' = {}
        /\ UNCHANGED <<callerVars, bodyVars, proc, bound, conns, since>>

\* The lock is released: what was removed is stopped, one by one.
ReaperStops(b) ==
    /\ reaper = "kill"
    /\ b \in doomed
    /\ StopAll({b})
    /\ doomed' = doomed \ {b}
    /\ reaper' = IF doomed = {b} THEN "sleep" ELSE "kill"
    /\ UNCHANGED <<reg, callerVars, bodyVars, quiet, seen, lag, since>>

-----------------------------------------------------------------------------
(* The engines, the clients and time *)

\* A gcloud child or a forward's reactor ends by itself.
EngineExits(b) ==
    /\ kind[b] # "native"
    /\ proc[b] = "up"
    /\ proc' = [proc EXCEPT ![b] = "exited"]
    /\ Cut({b})
    /\ UNCHANGED <<reg, callerVars, bodyVars, quiet, reaperVars, since>>

GcloudBinds(b) ==
    /\ kind[b] = "gcloud"
    /\ proc[b] = "up"
    /\ b \notin bound
    /\ Free(port[b])
    /\ bound' = bound \union {b}
    /\ UNCHANGED <<reg, callerVars, bodyVars, proc, quiet, conns, reaperVars,
                   since, spared>>

\* The accept loop's task is dropped, with its listener and its sessions.
LoopEnds(b) ==
    /\ proc[b] = "stopping"
    /\ proc' = [proc EXCEPT ![b] = "stopped"]
    /\ Cut({b})
    /\ UNCHANGED <<reg, callerVars, bodyVars, quiet, reaperVars, since>>

ClientConnects(b) ==
    /\ b \in bound \ (conns \union Held)
    /\ conns' = conns \union {b}
    /\ UNCHANGED <<reg, callerVars, bodyVars, proc, bound, quiet, reaperVars,
                   since, spared>>

ClientCloses(b) ==
    /\ b \in conns
    /\ conns' = conns \ {b}
    /\ spared' = spared \ {b}
    /\ UNCHANGED <<reg, callerVars, bodyVars, proc, bound, quiet, reaperVars,
                   since>>

Older(n) == IF n < Cap THEN n + 1 ELSE n

\* Every IapTunnel grows older; of one that is gone no age is kept.
Tick ==
    /\ \A b \in Held : quiet[b] < MaxStart
    /\ reaper = "sweep" => lag < MaxLag
    /\ quiet' = [b \in Ids |-> IF b \in Registered \union Held THEN Older(quiet[b]) ELSE 0]
    /\ since' = [b \in Ids |-> IF b \in Registered THEN Older(since[b]) ELSE 0]
    /\ lag' = IF reaper = "sweep" THEN lag + 1 ELSE lag
    /\ UNCHANGED <<reg, callerVars, bodyVars, proc, bound, conns, reaper, seen,
                   doomed, spared>>

-----------------------------------------------------------------------------
Starting(c) ==
    \/ BuildFails(c)
    \/ \E p \in Ports : NativeBinds(c, p) \/ ForwardUp(c, p) \/ GcloudSpawns(c, p)
    \/ NativeProbeFails(c) \/ NativeReady(c)
    \/ GcloudSettles(c) \/ PollEngine(c) \/ PollPort(c)
    \/ Insert(c)

Call ==
    \/ \E k \in Keys : Reuse(k) \/ Stop(k) \/ CheckHealth(k)
    \/ \E c \in Callers, k \in Keys : Begin(c, k)
    \/ Cleanup
    \/ \E p \in Ports : Touch(p)

Reaping == Sweep \/ \E b \in Ids : ReaperStops(b)

Environment ==
    \/ \E b \in Ids : \/ EngineExits(b) \/ GcloudBinds(b)
                      \/ ClientConnects(b) \/ ClientCloses(b)
    \/ Tick

Next ==
    \/ \E c \in Callers : Starting(c)
    \/ Call
    \/ ReaperWakes \/ Reaping
    \/ \E b \in Ids : LoopEnds(b)
    \/ Environment

Spec == Init /\ [][Next]_vars

(***************************************************************************)
(* Fairness.  Every thread inside a start runs on: its waits are bounded   *)
(* (a connect timeout, a number of polls).  The reaper's sleep ends and it *)
(* gets the lock, an aborted accept loop is dropped, and time passes.      *)
(* Nobody owes a call, a connection or the end of a child.                 *)
(***************************************************************************)
Fairness ==
    /\ \A c \in Callers : WF_vars(Starting(c))
    /\ WF_vars(ReaperWakes) /\ WF_vars(Reaping)
    /\ \A b \in Ids : WF_vars(LoopEnds(b))
    /\ SF_vars(Tick)

FairSpec == Spec /\ Fairness

-----------------------------------------------------------------------------
(* Properties *)

\* Every variable keeps its type: TUNNELS, the locals of the starts in flight,
\* the backends and the reaper's locals.
TypeOK ==
    /\ reg \in [Keys -> Ids \union {None}]
    /\ step \in [Callers -> {"idle", "build", "probe", "settle", "poll", "port", "insert"}]
    /\ key \in [Callers -> Keys \union {NoKey}]
    /\ mine \in [Callers -> Ids \union {None}]
    /\ polls \in [Callers -> 0..MaxPolls]
    /\ made \in 0..MaxStarts
    /\ kind \in [Ids -> {"native", "gcloud", "forward"}]
    /\ port \in [Ids -> Ports]
    /\ proc \in [Ids -> Procs]
    /\ bound \subseteq Ids /\ conns \subseteq bound
    /\ quiet \in [Ids -> 0..Cap]
    /\ reaper \in {"off", "sleep", "sweep", "kill"}
    /\ seen \subseteq Ports /\ lag \in 0..MaxLag /\ doomed \subseteq Ids
    /\ since \in [Ids -> 0..Cap]
    /\ spared \subseteq conns
    /\ outside \subseteq Keys /\ displaced \subseteq Ids

Unreaped(b) == proc[b] = "up" \/ Collectable(b)

\* Every engine that runs, and every child nobody has waited for, can still be
\* stopped: it is in TUNNELS, or in the hands of the start that is creating it
\* or of the reaper that removed it.  The one way out is to be replaced under
\* its key by an overlapping start, and then one of the two starts did not come
\* through the single flight of connect.
Accounted ==
    \A b \in Ids :
        Unreaped(b) => b \in Registered \union Held \union doomed \union displaced

\* The same without that way out: a start that replaces an entry leaves nothing
\* behind it either.
NoneOrphaned ==
    \A b \in Ids : Unreaped(b) => b \in Registered \union Held \union doomed

\* What last_active may fall behind the last time the tunnel was handed out or
\* touched: it is set before a start is over, and a sweep sets it back to the
\* time the reaper read /proc.
Slack == IF MaxStart > MaxLag THEN MaxStart ELSE MaxLag

\* A tunnel the reaper removes had no client whose connection was already there
\* when it read /proc, and was not handed out, reused or touched for the idle
\* timeout less that slack, whatever happened between the /proc read and the
\* lock.
ReapsOnlyIdle ==
    [][\A b \in doomed' \ doomed :
          /\ b \notin spared
          /\ since[b] + Slack > Idle]_vars

\* Whatever starts overlap, a tunnel that is there stays until it is closed or
\* until a start opens its key that had begun while the key had no tunnel; a
\* tunnel is opened once, and never comes back.
Service ==
    INSTANCE TunnelService
    WITH entry <- reg, used <- {b \in 1..made : b \notin Held}, pending <- key
ServiceSpec == Service!Spec

\* A tunnel nobody connects to or touches is taken out of the registry.
IdleIsReaped ==
    \A b \in Ids :
        LET Unused == /\ b \in Registered
                      /\ quiet[b] > 0
                      /\ \A d \in conns : port[d] # port[b]
        IN  Unused ~> ~Unused

\* kill_process_group only signals a child whose exit nobody has collected
\* ("still unreaped (the `wait()` below is the only reap)").
OnlyUnreapedSignalled ==
    [][\A b \in Ids : proc[b] = "collected" => proc'[b] # "stopped"]_vars

\* wait_for_listener says Listening only of an engine that is still alive ("a
\* dead engine's port is never ours, whoever is answering on it").
ListeningIsAlive ==
    [][\A c \in Callers :
          step[c] = "port" /\ step'[c] = "insert" => Alive(mine[c])]_vars
=============================================================================
