----------------------------- MODULE SshForward -----------------------------
(***************************************************************************)
(* The native SSH port forward: an IAP transport to the VM's port 22, an   *)
(* SSH session over it, a local listener, and one reactor thread that      *)
(* accepts connections, opens a channel for each, pumps bytes both ways    *)
(* and, while nobody is connected, sends keepalives to find a transport    *)
(* that died.                                                              *)
(*                                                                         *)
(* A direction of a connection is counted in units: what one end wrote,    *)
(* what the pump has read of it, what waits in the pump's buffer (the      *)
(* difference) and what the other end's descriptor accepted.               *)
(***************************************************************************)
EXTENDS Naturals, FiniteSets

CONSTANTS Conns,     \* the local connections, each made at most once
          Units,     \* how much each end of a connection may write
          Interval   \* clock ticks between two idle keepalives

ASSUME ForwardAssumption ==
    /\ IsFiniteSet(Conns)
    /\ Units \in Nat
    /\ Interval \in Nat \ {0}

VARIABLES
    handle,     \* NativeSshForward: "none", "setup", "held" or "stopped"
    iap,        \* the IAP transport's accept loop runs
    shutdown,   \* the flag stop raises
    pc,         \* where the reactor is in its loop; "gone" once it left it
    todo,       \* the connections this part of the tick has yet to visit
    phase,      \* of a connection: idle, backlog, pending, live, closed
    toChan, toSock,               \* Conn's pending buffers
    sockEof, chanEof, finSent,    \* Conn's flags
    client, vm,             \* what each end did: open, fin, reset / eof, closed
    clientWrote, vmWrote,   \* what each end wrote
    vmGot, clientGot,       \* what each end's descriptor accepted
    vmEof,      \* the VM has been told the client will write no more
    transport,  \* "up", "broken" (a send still succeeds) or "dead"
    blocked,    \* libssh2 holds a half-sent packet
    elapsed,    \* ticks since the keepalive clock last fired
    wedged      \* a keepalive was swallowed behind a half-sent packet

flags == <<sockEof, chanEof, finSent>>
ends  == <<client, vm, clientWrote, vmWrote>>
owner == <<handle, iap, shutdown>>
vars  == <<owner, pc, todo, phase, toChan, toSock, flags, ends, vmGot, clientGot,
           vmEof, transport, blocked, elapsed, wedged>>

Pcs    == {"idle", "accept", "open", "pump", "keepalive", "gone"}
Phases == {"idle", "backlog", "pending", "live", "closed"}

TypeOK ==
    /\ handle \in {"none", "setup", "held", "stopped"}
    /\ {iap, shutdown, blocked, wedged} \subseteq BOOLEAN
    /\ pc \in Pcs /\ todo \in SUBSET Conns
    /\ phase \in [Conns -> Phases]
    /\ {toChan, toSock, clientWrote, vmWrote, vmGot, clientGot} \subseteq [Conns -> 0..Units]
    /\ {sockEof, chanEof, finSent, vmEof} \subseteq [Conns -> BOOLEAN]
    /\ client \in [Conns -> {"open", "fin", "reset"}]
    /\ vm \in [Conns -> {"open", "eof", "closed"}]
    /\ transport \in {"up", "broken", "dead"}
    /\ elapsed \in 0..Interval

In(p)     == {c \in Conns : phase[c] = p}
SockRead(c) == vmGot[c] + toChan[c]      \* what the pump has read of the client
ChanRead(c) == clientGot[c] + toSock[c]  \* what the pump has read of the VM

Init ==
    /\ handle = "none" /\ iap = FALSE /\ shutdown = FALSE
    /\ pc = "idle" /\ todo = {}
    /\ phase = [c \in Conns |-> "idle"]
    /\ toChan = [c \in Conns |-> 0] /\ toSock = [c \in Conns |-> 0]
    /\ sockEof = [c \in Conns |-> FALSE] /\ chanEof = [c \in Conns |-> FALSE]
    /\ finSent = [c \in Conns |-> FALSE]
    /\ client = [c \in Conns |-> "open"] /\ vm = [c \in Conns |-> "open"]
    /\ clientWrote = [c \in Conns |-> 0] /\ vmWrote = [c \in Conns |-> 0]
    /\ vmGot = [c \in Conns |-> 0] /\ clientGot = [c \in Conns |-> 0]
    /\ vmEof = [c \in Conns |-> FALSE]
    /\ transport = "up" /\ blocked = FALSE /\ elapsed = 0 /\ wedged = FALSE

----------------------------------------------------------------------------
(* The session's failures, and what each means for the forward.            *)

SocketErrors == {"SOCKET_NONE", "SOCKET_SEND", "SOCKET_DISCONNECT", "SOCKET_RECV"}
Refusals     == {"CHANNEL_FAILURE", "UNKNOWN"}
Answers      == {"ok", "EAGAIN"} \cup SocketErrors \cup Refusals

(* classify_ssh_failure: only the enumerated socket errors kill the        *)
(* forward, a code nobody has seen yet does not.                           *)
Retry == {"EAGAIN"}
SessionGoneWhenRefused == SocketErrors \cup {"CHANNEL_FAILURE"} \* mutant
SessionGoneButSend == SocketErrors \ {"SOCKET_SEND"} \* mutant
SessionGone == {"SOCKET_NONE", "SOCKET_SEND", "SOCKET_DISCONNECT", "SOCKET_RECV"}

(* What an operation on the session may answer, by the transport's state.  *)
OpenAnswers ==
    CASE transport = "up"     -> {"ok", "EAGAIN"} \cup Refusals
      [] transport = "broken" -> {"EAGAIN", "SOCKET_DISCONNECT"}
      [] transport = "dead"   -> SocketErrors

KeepaliveAnswers ==
    CASE transport = "up"     -> {"ok"} \cup Refusals
      [] transport = "broken" -> {"ok"}
      [] transport = "dead"   -> {"SOCKET_SEND"}

(* A packet written to a broken transport still lands in the kernel's      *)
(* buffer; the next one fails.                                             *)
AfterSend == IF transport = "broken" THEN "dead" ELSE transport

----------------------------------------------------------------------------
(* start and stop                                                          *)

StartTransport ==
    /\ handle = "none"
    /\ handle' = "setup" /\ iap' = TRUE
    /\ UNCHANGED <<shutdown, pc, todo, phase, toChan, toSock, flags, ends, vmGot,
                   clientGot, vmEof, transport, blocked, elapsed, wedged>>

(* Login, the port check or the bind failed: the transport goes with it.   *)
SetupFails ==
    /\ handle = "setup"
    /\ handle' = "stopped" /\ iap' = FALSE
    /\ UNCHANGED <<shutdown, pc, todo, phase, toChan, toSock, flags, ends, vmGot,
                   clientGot, vmEof, transport, blocked, elapsed, wedged>>

Spawn ==
    /\ handle = "setup"
    /\ handle' = "held" /\ pc' = "accept"
    /\ UNCHANGED <<iap, shutdown, todo, phase, toChan, toSock, flags, ends, vmGot,
                   clientGot, vmEof, transport, blocked, elapsed, wedged>>

StopAsked ==
    /\ handle = "held" /\ ~shutdown
    /\ shutdown' = TRUE
    /\ UNCHANGED <<handle, iap, pc, todo, phase, toChan, toSock, flags, ends, vmGot,
                   clientGot, vmEof, transport, blocked, elapsed, wedged>>

(* stop has joined the reactor.                                            *)
StopReturns ==
    /\ handle = "held" /\ shutdown /\ pc = "gone"
    /\ handle' = "stopped" /\ iap' = FALSE
    /\ UNCHANGED <<shutdown, pc, todo, phase, toChan, toSock, flags, ends, vmGot,
                   clientGot, vmEof, transport, blocked, elapsed, wedged>>

is_running == ~shutdown /\ handle = "held" /\ pc # "gone"

----------------------------------------------------------------------------
(* The reactor's loop                                                      *)

(* Leaving the loop closes every channel, every socket and the listener.   *)
LeaveLoop ==
    /\ pc' = "gone" /\ todo' = {}
    /\ phase' = [c \in Conns |-> IF phase[c] = "idle" THEN "idle" ELSE "closed"]
    /\ vmEof' = [c \in Conns |-> vmEof[c] \/ (phase[c] = "live" /\ transport = "up")]
    /\ UNCHANGED <<owner, toChan, toSock, flags, ends, vmGot, clientGot, blocked, wedged>>

ShutdownSeen ==
    /\ pc = "accept" /\ shutdown
    /\ LeaveLoop
    /\ UNCHANGED <<transport, elapsed>>

(* At most one connection is accepted per tick.                            *)
Accept ==
    /\ pc = "accept" /\ ~shutdown
    /\ \/ \E c \in In("backlog") :
            /\ phase' = [phase EXCEPT ![c] = "pending"]
            /\ todo' = In("pending") \cup {c}
       \/ /\ In("backlog") = {}
          /\ todo' = In("pending")
          /\ UNCHANGED phase
    /\ pc' = "open"
    /\ UNCHANGED <<owner, toChan, toSock, flags, ends, vmGot, clientGot, vmEof,
                   transport, blocked, elapsed, wedged>>

(* What becomes of the socket, by the verdict on the answer.               *)
Opened(c, answer) ==
    CASE answer = "ok"   -> "live"
      [] answer \in Retry -> "pending"
      [] OTHER            -> "closed"

OpenChannel(c, answer) ==
    /\ pc = "open" /\ c \in todo
    /\ answer \in OpenAnswers
    /\ transport' = AfterSend
    /\ UNCHANGED elapsed
    /\ IF answer \in SessionGone
       THEN LeaveLoop
       ELSE /\ phase' = [phase EXCEPT ![c] = Opened(c, answer)]
            /\ todo' = todo \ {c}
            /\ UNCHANGED <<owner, pc, toChan, toSock, flags, ends, vmGot, clientGot,
                           vmEof, blocked, wedged>>

OpenDone ==
    /\ pc = "open" /\ todo = {}
    /\ todo' = In("live")
    /\ pc' = "pump"
    /\ UNCHANGED <<owner, phase, toChan, toSock, flags, ends, vmGot, clientGot, vmEof,
                   transport, blocked, elapsed, wedged>>

----------------------------------------------------------------------------
(* pump, for one connection of the tick: flush both buffers, read each end *)
(* whose buffer is empty, propagate the channel's end to the client, and   *)
(* retain the connection unless it is over.                                *)

ChanWriteFails(c) == transport = "dead" \/ vm[c] = "closed"
SockWriteFails(c) == client[c] = "reset"

(* n and k are what the channel and the socket accept of the buffers.      *)
Accepted(c, n, k) ==
    /\ n \in 0..toChan[c] /\ k \in 0..toSock[c]
    /\ ChanWriteFails(c) => n = 0
    /\ SockWriteFails(c) => k = 0

WriteFails(c) ==
    \/ toChan[c] > 0 /\ ChanWriteFails(c)
    \/ toSock[c] > 0 /\ SockWriteFails(c)

(* A source is read only while its destination's buffer is empty.          *)
ReadsSockEagerly(c, n) == ~sockEof[c]   \* mutant
ReadsSock(c, n) == ~sockEof[c] /\ toChan[c] = n
ReadsChan(c, k) == ~chanEof[c] /\ toSock[c] = k
SockHas(c) == clientWrote[c] - SockRead(c)
ChanHas(c) == vmWrote[c] - ChanRead(c)

SockIn(c, n) == IF ReadsSock(c, n) /\ client[c] # "reset" THEN SockHas(c) ELSE 0
ChanIn(c, k) == IF ReadsChan(c, k) /\ transport = "up" THEN ChanHas(c) ELSE 0

(* A read of 0 bytes and a read error both end the side; only the first,   *)
(* on the socket's side, tells the VM.                                     *)
SockEnds(c, n) == /\ ReadsSock(c, n)
                  /\ client[c] = "reset" \/ (client[c] = "fin" /\ SockHas(c) = 0)
ChanEnds(c, k) == /\ ReadsChan(c, k)
                  /\ transport # "up" \/ (vm[c] # "open" /\ ChanHas(c) = 0)

(* The session does not block, so send_eof may fail with EAGAIN; its       *)
(* result is dropped.                                                      *)
EofTold(c, n) == IF SockEnds(c, n) /\ client[c] = "fin" /\ transport = "up"
                 THEN {TRUE, vmEof[c]} ELSE {vmEof[c]}

FinDueBothEnded(c, k) ==   \* mutant: waits for the client to close first
    sockEof[c] /\ chanEof[c] /\ toSock[c] = k
FinDue(c, k) == (chanEof[c] \/ ChanEnds(c, k)) /\ toSock[c] - k + ChanIn(c, k) = 0

FinishedHalf(c, n, k) ==   \* mutant: the client's half-close ends the connection
    /\ sockEof[c] \/ SockEnds(c, n)
    /\ toChan[c] - n + SockIn(c, n) = 0

Finished(c, n, k) ==
    /\ sockEof[c] \/ SockEnds(c, n)
    /\ toChan[c] - n + SockIn(c, n) = 0
    /\ FinDue(c, k)

Pump(c, n, k) ==
    /\ pc = "pump" /\ c \in todo
    /\ Accepted(c, n, k)
    /\ vmGot'     = [vmGot EXCEPT ![c] = @ + n]
    /\ clientGot' = [clientGot EXCEPT ![c] = @ + k]
    /\ toChan'  = [toChan EXCEPT ![c] = @ - n + SockIn(c, n)]
    /\ toSock'  = [toSock EXCEPT ![c] = @ - k + ChanIn(c, k)]
    /\ sockEof' = [sockEof EXCEPT ![c] = @ \/ SockEnds(c, n)]
    /\ chanEof' = [chanEof EXCEPT ![c] = @ \/ ChanEnds(c, k)]
    /\ finSent' = [finSent EXCEPT ![c] = @ \/ FinDue(c, k)]
    /\ \E told \in EofTold(c, n) : vmEof' = [vmEof EXCEPT ![c] = told]
    /\ phase' = IF WriteFails(c) \/ Finished(c, n, k)
                THEN [phase EXCEPT ![c] = "closed"] ELSE phase
    /\ blocked' = IF toChan[c] = 0 \/ ChanWriteFails(c) THEN blocked ELSE n < toChan[c]
    /\ transport' = IF n = 0 THEN transport ELSE AfterSend
    /\ todo' = todo \ {c}
    /\ UNCHANGED <<owner, pc, ends, elapsed, wedged>>

PumpDone ==
    /\ pc = "pump" /\ todo = {}
    /\ pc' = "keepalive"
    /\ UNCHANGED <<owner, todo, phase, toChan, toSock, flags, ends, vmGot, clientGot,
                   vmEof, transport, blocked, elapsed, wedged>>

----------------------------------------------------------------------------
(* The idle keepalive. The clock is asked last: a veto does not spend it.  *)

Vetoed == In("live") # {} \/ blocked
should_send_keepalive == ~Vetoed /\ elapsed >= Interval

NoKeepalive ==
    /\ pc = "keepalive" /\ ~should_send_keepalive
    /\ pc' = "accept"
    /\ UNCHANGED <<owner, todo, phase, toChan, toSock, flags, ends, vmGot, clientGot,
                   vmEof, transport, blocked, elapsed, wedged>>

(* A keepalive sent behind a half-sent packet is swallowed, and its tail   *)
(* then holds up every other write of the session.                         *)
Keepalive(answer) ==
    /\ pc = "keepalive" /\ should_send_keepalive
    /\ answer \in KeepaliveAnswers
    /\ elapsed' = 0
    /\ transport' = AfterSend
    /\ IF answer \in SessionGone
       THEN LeaveLoop
       ELSE /\ pc' = "accept"
            /\ wedged' = (wedged \/ blocked)
            /\ UNCHANGED <<owner, todo, phase, toChan, toSock, flags, ends, vmGot,
                           clientGot, vmEof, blocked>>

----------------------------------------------------------------------------
(* The environment: the local clients, the VM, the transport and time.     *)

(* A client that dials a closed listener is refused.                       *)
Dial(c) ==
    /\ handle = "held" /\ phase[c] = "idle"
    /\ phase' = [phase EXCEPT ![c] = IF pc = "gone" THEN "closed" ELSE "backlog"]
    /\ UNCHANGED <<owner, pc, todo, toChan, toSock, flags, ends, vmGot, clientGot,
                   vmEof, transport, blocked, elapsed, wedged>>

ClientWrites(c) ==
    /\ phase[c] \in {"backlog", "pending", "live"} /\ client[c] = "open"
    /\ clientWrote[c] < Units
    /\ clientWrote' = [clientWrote EXCEPT ![c] = @ + 1]
    /\ UNCHANGED <<owner, pc, todo, phase, toChan, toSock, flags, client, vm, vmWrote,
                   vmGot, clientGot, vmEof, transport, blocked, elapsed, wedged>>

(* It half-closes, as it does once it sees the FIN, or resets.             *)
ClientCloses(c, how) ==
    /\ phase[c] \in {"backlog", "pending", "live"} /\ client[c] = "open"
    /\ how \in {"fin", "reset"}
    /\ client' = [client EXCEPT ![c] = how]
    /\ UNCHANGED <<owner, pc, todo, phase, toChan, toSock, flags, vm, clientWrote,
                   vmWrote, vmGot, clientGot, vmEof, transport, blocked, elapsed, wedged>>

VmWrites(c) ==
    /\ phase[c] = "live" /\ vm[c] = "open" /\ transport = "up"
    /\ vmWrote[c] < Units
    /\ vmWrote' = [vmWrote EXCEPT ![c] = @ + 1]
    /\ UNCHANGED <<owner, pc, todo, phase, toChan, toSock, flags, client, vm,
                   clientWrote, vmGot, clientGot, vmEof, transport, blocked, elapsed, wedged>>

VmCloses(c, how) ==
    /\ phase[c] = "live" /\ vm[c] # "closed" /\ transport = "up"
    /\ how \in {"eof", "closed"} \ {vm[c]}
    /\ vm' = [vm EXCEPT ![c] = how]
    /\ UNCHANGED <<owner, pc, todo, phase, toChan, toSock, flags, client, clientWrote,
                   vmWrote, vmGot, clientGot, vmEof, transport, blocked, elapsed, wedged>>

TransportDies ==
    /\ handle = "held" /\ transport = "up"
    /\ transport' = "broken"
    /\ UNCHANGED <<owner, pc, todo, phase, toChan, toSock, flags, ends, vmGot,
                   clientGot, vmEof, blocked, elapsed, wedged>>

(* The socket takes the rest of the half-sent packet.                      *)
Unblocks ==
    /\ blocked /\ blocked' = FALSE
    /\ UNCHANGED <<owner, pc, todo, phase, toChan, toSock, flags, ends, vmGot,
                   clientGot, vmEof, transport, elapsed, wedged>>

Tick ==
    /\ handle = "held" /\ pc # "gone" /\ elapsed < Interval
    /\ elapsed' = elapsed + 1
    /\ UNCHANGED <<owner, pc, todo, phase, toChan, toSock, flags, ends, vmGot,
                   clientGot, vmEof, transport, blocked, wedged>>

----------------------------------------------------------------------------
Reactor ==
    \/ ShutdownSeen \/ Accept
    \/ \E c \in Conns : \E answer \in Answers : OpenChannel(c, answer)
    \/ OpenDone
    \/ \E c \in Conns : \E n, k \in 0..Units : Pump(c, n, k)
    \/ PumpDone
    \/ NoKeepalive
    \/ \E answer \in Answers : Keepalive(answer)

Owner == StartTransport \/ SetupFails \/ Spawn \/ StopAsked \/ StopReturns

Environment ==
    \/ \E c \in Conns :
          \/ Dial(c) \/ ClientWrites(c) \/ VmWrites(c)
          \/ \E how \in {"fin", "reset"} : ClientCloses(c, how)
          \/ \E how \in {"eof", "closed"} : VmCloses(c, how)
    \/ TransportDies \/ Unblocks \/ Tick

Next == Reactor \/ Owner \/ Environment

Spec == Init /\ [][Next]_vars

(* The reactor's thread runs; a stop joins it; time passes. A channel open *)
(* is answered at last, both ends take what is written to them, and a      *)
(* client closes once it has been sent the FIN (the module's own comment   *)
(* names the client that does not as a case the keepalive cannot see).     *)
Fairness ==
    /\ WF_vars(Reactor) /\ WF_vars(StopReturns) /\ WF_vars(Tick)
    /\ \A c \in Conns :
          /\ SF_vars(\E answer \in Answers \ Retry : OpenChannel(c, answer))
          /\ SF_vars(\E n, k \in 0..Units : n = toChan[c] /\ Pump(c, n, k))
          /\ SF_vars(\E n, k \in 0..Units : k = toSock[c] /\ Pump(c, n, k))
          /\ WF_vars(finSent[c] /\ \E how \in {"fin", "reset"} : ClientCloses(c, how))

FairSpec == Spec /\ Fairness

----------------------------------------------------------------------------
(* Half-closes travel behind the data: while the session stands, a VM that *)
(* has been told the client will write no more has been given everything   *)
(* the client wrote, and a client that was sent the FIN, everything the VM *)
(* wrote.                                                                  *)
EofAfterData ==
    \A c \in Conns : transport = "up" /\ ~shutdown =>
        /\ vmEof[c] => vmGot[c] = clientWrote[c]
        /\ finSent[c] => clientGot[c] = vmWrote[c] \/ client[c] = "reset"

(* A connection the pump itself ends while neither end gave an error has   *)
(* delivered everything in both directions.                                *)
EndsWhole ==
    [][\A c \in Conns :
         (/\ phase[c] = "live" /\ phase'[c] = "closed" /\ pc' # "gone"
          /\ client[c] # "reset" /\ vm[c] # "closed" /\ transport = "up")
         => /\ client[c] = "fin" /\ vm[c] = "eof"
            /\ vmGot'[c] = clientWrote[c] /\ clientGot'[c] = vmWrote[c]]_vars

(* The keepalive never wedges the session it watches over.                 *)
NeverWedged == ~wedged

(* A healthy forward never goes down by itself: the reactor leaves its     *)
(* loop only when it was asked to or the transport is gone, whatever a     *)
(* channel open or a keepalive was answered.                               *)
NoFalseDeath == [][pc # "gone" /\ pc' = "gone" => shutdown \/ transport # "up"]_vars

(* No zombie: once the transport is gone the reactor leaves its loop and   *)
(* is_running says so, unless libssh2 says forever that a packet is half   *)
(* sent.                                                                   *)
NoZombie == []<>(~blocked) => (transport # "up" ~> ~is_running)

(* The end of the VM's side reaches the client as a FIN, or the connection *)
(* is closed.                                                              *)
VmEndReachesClient ==
    \A c \in Conns : (phase[c] = "live" /\ vm[c] # "open") ~> (finSent[c] \/ phase[c] = "closed")

(* "Local EOF sends chan.send_eof() once": the VM learns that the client   *)
(* will write no more.                                                     *)
ClientEndReachesVm ==
    \A c \in Conns : (phase[c] = "live" /\ client[c] = "fin") ~> (vmEof[c] \/ phase[c] = "closed")
=============================================================================
