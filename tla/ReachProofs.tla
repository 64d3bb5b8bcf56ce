------------------------------ MODULE ReachProofs ------------------------------
(***************************************************************************)
(* Theorems about reaching a VM: the forward that carries to it            *)
(* (SshForward), for any connections, units and interval, the doctor that  *)
(* says whether it can be reached (Doctor), for any number of defects and  *)
(* of changes under way, and the clients that are launched on its tunnels  *)
(* (Launchers), for any launches and mishaps.                              *)
(*                                                                         *)
(* A half-close travels behind the data because of what the flags of a     *)
(* connection say of its counters (Behind), and that needs the counters in *)
(* order: nobody is given more than was read, nothing is read that was not *)
(* written (Counted).                                                      *)
(*                                                                         *)
(* A report that raises nothing is complete because every check rules out  *)
(* problems of its own (FoundNone), and the rows it has not come to are    *)
(* empty, so that no row is taken back (Unreported). That a check answers  *)
(* for the whole run takes the history: what stands has stood since the    *)
(* run began (StillSo).                                                    *)
(*                                                                         *)
(* A flatpak that is started unlooked opens because it was looked for just *)
(* before (Climbs, Sure), and a client reads its own address because the   *)
(* file it was lent is whole, its own and young until it is opened (Filed, *)
(* Lent).                                                                  *)
(***************************************************************************)
EXTENDS SshForward, Doctor, Launchers, SequenceTheorems, TLAPS

\* The forward: who holds it, where its reactor is.
LoopOK ==
    /\ handle \in {"none", "setup", "held", "stopped"}
    /\ iap \in BOOLEAN /\ shutdown \in BOOLEAN /\ blocked \in BOOLEAN /\ wedged \in BOOLEAN
    /\ pc \in Pcs /\ todo \in SUBSET Conns
    /\ phase \in [Conns -> Phases]
    /\ transport \in {"up", "broken", "dead"}
    /\ elapsed \in 0..Interval

\* The connections: what each end wrote, was given and said.
ConnsOK ==
    /\ toChan \in [Conns -> Nat] /\ toSock \in [Conns -> Nat]
    /\ clientWrote \in [Conns -> Nat] /\ vmWrote \in [Conns -> Nat]
    /\ vmGot \in [Conns -> Nat] /\ clientGot \in [Conns -> Nat]
    /\ sockEof \in [Conns -> BOOLEAN] /\ chanEof \in [Conns -> BOOLEAN]
    /\ finSent \in [Conns -> BOOLEAN] /\ vmEof \in [Conns -> BOOLEAN]
    /\ client \in [Conns -> {"open", "fin", "reset"}]
    /\ vm \in [Conns -> {"open", "eof", "closed"}]

Counted(c) ==
    /\ vmGot[c] + toChan[c] <= clientWrote[c] /\ clientWrote[c] <= Units
    /\ clientGot[c] + toSock[c] <= vmWrote[c] /\ vmWrote[c] <= Units

\* While the session stands, the VM is told of the end of what it was given,
\* the channel's end comes after all the VM wrote, and the FIN after all that
\* was read of the channel.
Stands == transport = "up" /\ ~shutdown
Behind(c) ==
    /\ vmEof[c] => client[c] = "fin" /\ vmGot[c] = clientWrote[c]
    /\ chanEof[c] => vm[c] # "open" /\ clientGot[c] + toSock[c] = vmWrote[c]
    /\ finSent[c] => chanEof[c] /\ toSock[c] = 0

\* The end of a side comes after all that side wrote.
Ended(c) ==
    /\ sockEof[c] /\ client[c] # "reset" =>
          client[c] = "fin" /\ vmGot[c] + toChan[c] = clientWrote[c]
    /\ chanEof[c] /\ transport = "up" =>
          vm[c] # "open" /\ clientGot[c] + toSock[c] = vmWrote[c]

IInv ==
    /\ LoopOK /\ ConnsOK
    /\ \A c \in Conns : Counted(c) /\ Ended(c) /\ (Stands => Behind(c))

\* The parts together are the type invariant.
LEMMA TypeParts == IInv => TypeOK
<1> SUFFICES ASSUME IInv PROVE TypeOK
  OBVIOUS
<1> USE ForwardAssumption DEF IInv, ConnsOK
<1>1. \A c \in Conns : /\ toChan[c] \in 0..Units /\ toSock[c] \in 0..Units
                       /\ clientWrote[c] \in 0..Units /\ vmWrote[c] \in 0..Units
                       /\ vmGot[c] \in 0..Units /\ clientGot[c] \in 0..Units
  BY DEF Counted
<1>2. /\ toChan \in [Conns -> 0..Units] /\ toSock \in [Conns -> 0..Units]
      /\ clientWrote \in [Conns -> 0..Units] /\ vmWrote \in [Conns -> 0..Units]
      /\ vmGot \in [Conns -> 0..Units] /\ clientGot \in [Conns -> 0..Units]
  BY <1>1
<1> QED
  BY <1>2 DEF LoopOK, TypeOK

\* What half-closes promise follows from what the flags say.
LEMMA EofFollows == IInv => EofAfterData
  BY DEF IInv, ConnsOK, Behind, Stands, EofAfterData

\* The initial states satisfy the invariant.
LEMMA InitIInv == Init => IInv
<1> SUFFICES ASSUME Init PROVE IInv
  OBVIOUS
<1> USE ForwardAssumption DEF Init
<1>1. LoopOK
  <2>1. elapsed \in 0..Interval
    OBVIOUS
  <2>2. iap \in BOOLEAN /\ shutdown \in BOOLEAN /\ blocked \in BOOLEAN /\ wedged \in BOOLEAN
    OBVIOUS
  <2> QED
    BY <2>1, <2>2 DEF LoopOK, Pcs, Phases
<1>2. ConnsOK
  BY DEF ConnsOK
<1>3. \A c \in Conns : Counted(c) /\ Behind(c)
  BY DEF Counted, Behind
<1>4. \A c \in Conns : Ended(c)
  BY DEF Ended
<1> QED
  BY <1>1, <1>2, <1>3, <1>4 DEF IInv

-----------------------------------------------------------------------------
\* A step of the forward that leaves the connections' counters and flags alone,
\* but for what the VM is told when the session ends.
LEMMA ConnsFrame ==
  ASSUME IInv, UNCHANGED <<toChan, toSock, flags, ends, vmGot, clientGot>>,
         vmEof' \in [Conns -> BOOLEAN], Stands' => Stands /\ vmEof' = vmEof,
         transport' = "up" => transport = "up"
  PROVE  ConnsOK' /\ \A c \in Conns : Counted(c)' /\ Ended(c)' /\ (Stands' => Behind(c)')
<1>1. ConnsOK' /\ \A c \in Conns : Counted(c)' /\ (Stands' => Behind(c)')
  BY DEF IInv, ConnsOK, Counted, Behind, flags, ends
<1>2. \A c \in Conns : Ended(c)'
  BY DEF IInv, Ended, flags, ends
<1> QED
  BY <1>1, <1>2

\* A step of a connection that leaves the forward alone.
LEMMA LoopFrame ==
  ASSUME IInv, UNCHANGED <<owner, pc, todo, phase, transport, blocked, elapsed, wedged>>
  PROVE  LoopOK' /\ (Stands' <=> Stands)
  BY DEF IInv, LoopOK, Stands, owner

\* The session's answers: only a session that is gone ends the loop.
LEMMA StandingAnswers ==
  ASSUME transport = "up"
  PROVE  OpenAnswers \cap SessionGone = {} /\ KeepaliveAnswers \cap SessionGone = {}
  BY DEF OpenAnswers, KeepaliveAnswers, SessionGone, Refusals

\* A packet sent neither repairs nor breaks a transport that is up.
LEMMA SendType ==
  ASSUME LoopOK
  PROVE  AfterSend \in {"up", "broken", "dead"} /\ (AfterSend = "up" <=> transport = "up")
  BY DEF LoopOK, AfterSend

\* Leaving the loop.
LEMMA LeaveEffect ==
  ASSUME IInv, LeaveLoop, transport' \in {"up", "broken", "dead"}, elapsed' \in 0..Interval,
         transport = "up" => shutdown, transport' = "up" => transport = "up"
  PROVE  IInv'
<1> USE DEF LeaveLoop, IInv
<1>1. LoopOK'
  BY DEF LoopOK, Pcs, Phases, owner
<1>2. vmEof' \in [Conns -> BOOLEAN]
  OBVIOUS
<1>3. ~Stands'
  BY DEF Stands, owner
<1>4. UNCHANGED <<toChan, toSock, flags, ends, vmGot, clientGot>>
  OBVIOUS
<1> QED
  BY <1>1, <1>2, <1>3, <1>4, ConnsFrame

\* The owner's steps.
LEMMA OwnerInv == ASSUME IInv, Owner PROVE IInv'
<1> USE DEF IInv
<1>1. UNCHANGED <<toChan, toSock, flags, ends, vmGot, clientGot, vmEof, transport>>
  BY DEF Owner, StartTransport, SetupFails, Spawn, StopAsked, StopReturns
<1>2. LoopOK' /\ (Stands' => Stands)
  BY DEF LoopOK, Stands, Pcs,
         Owner, StartTransport, SetupFails, Spawn, StopAsked, StopReturns, owner
<1>3. vmEof' \in [Conns -> BOOLEAN]
  BY <1>1 DEF ConnsOK
<1> QED
  BY <1>1, <1>2, <1>3, ConnsFrame

\* The reactor's steps, but for the pump.
LEMMA ReactorInv ==
  ASSUME IInv,
         \/ ShutdownSeen \/ Accept
         \/ \E c \in Conns : \E answer \in Answers : OpenChannel(c, answer)
         \/ OpenDone \/ PumpDone \/ NoKeepalive
         \/ \E answer \in Answers : Keepalive(answer)
  PROVE  IInv'
<1> USE DEF IInv
<1>1. ASSUME UNCHANGED <<owner, toChan, toSock, flags, ends, vmGot, clientGot, vmEof>>,
             pc' \in Pcs, todo' \in SUBSET Conns, phase' \in [Conns -> Phases],
             transport' \in {transport, AfterSend}, blocked' \in BOOLEAN,
             wedged' \in BOOLEAN, elapsed' \in 0..Interval
      PROVE  IInv'
  <2>1. LoopOK'
    BY <1>1, SendType DEF LoopOK, owner
  <2>2. /\ (Stands' => Stands) /\ vmEof' \in [Conns -> BOOLEAN]
        /\ transport' = "up" => transport = "up"
    BY <1>1, SendType DEF Stands, owner, ConnsOK
  <2> QED
    BY <1>1, <2>1, <2>2, ConnsFrame
<1>2. CASE ShutdownSeen
  BY <1>2, LeaveEffect DEF ShutdownSeen, LoopOK
<1>3. CASE Accept
  BY <1>1, <1>3 DEF Accept, In, LoopOK, Pcs, Phases
<1>4. ASSUME NEW c \in Conns, NEW answer \in Answers, OpenChannel(c, answer) PROVE IInv'
  <2>1. transport' = AfterSend /\ elapsed' = elapsed
    BY <1>4 DEF OpenChannel
  <2>2. CASE answer \in SessionGone
    <3>1. LeaveLoop /\ transport # "up"
      BY <1>4, <2>2, StandingAnswers DEF OpenChannel
    <3> QED
      BY <2>1, <3>1, SendType, LeaveEffect DEF LoopOK
  <2>3. CASE answer \notin SessionGone
    <3>1. /\ phase' = [phase EXCEPT ![c] = Opened(c, answer)] /\ todo' = todo \ {c}
          /\ UNCHANGED <<owner, pc, toChan, toSock, flags, ends, vmGot, clientGot,
                         vmEof, blocked, wedged>>
      BY <1>4, <2>3 DEF OpenChannel
    <3>2. Opened(c, answer) \in Phases
      BY DEF Opened, Phases
    <3> QED
      BY <1>1, <2>1, <3>1, <3>2 DEF LoopOK
  <2> QED
    BY <2>2, <2>3
<1>5. CASE OpenDone \/ PumpDone \/ NoKeepalive
  BY <1>1, <1>5 DEF OpenDone, PumpDone, NoKeepalive, In, LoopOK, Pcs
<1>6. ASSUME NEW answer \in Answers, Keepalive(answer) PROVE IInv'
  <2>1. transport' = AfterSend /\ elapsed' = 0 /\ elapsed' \in 0..Interval
    BY <1>6, ForwardAssumption DEF Keepalive
  <2>2. CASE answer \in SessionGone
    <3>1. LeaveLoop /\ transport # "up"
      BY <1>6, <2>2, StandingAnswers DEF Keepalive
    <3> QED
      BY <2>1, <3>1, SendType, LeaveEffect
  <2>3. CASE answer \notin SessionGone
    <3>1. /\ pc' = "accept" /\ wedged' = (wedged \/ blocked)
          /\ UNCHANGED <<owner, todo, phase, toChan, toSock, flags, ends, vmGot,
                         clientGot, vmEof, blocked>>
      BY <1>6, <2>3 DEF Keepalive
    <3> QED
      BY <1>1, <2>1, <3>1 DEF LoopOK, Pcs
  <2> QED
    BY <2>2, <2>3
<1> QED
  BY <1>2, <1>3, <1>4, <1>5, <1>6

-----------------------------------------------------------------------------
\* What one visit of the pump reads and says, on the client's side ...
LEMMA SockSide ==
  ASSUME IInv, NEW c \in Conns, NEW n, NEW k, Accepted(c, n, k)
  PROVE  /\ n \in Nat /\ n <= toChan[c] /\ SockIn(c, n) \in Nat
         /\ vmGot[c] + toChan[c] + SockIn(c, n) <= clientWrote[c]
         /\ SockEnds(c, n) /\ client[c] = "fin" =>
               vmGot[c] + n = clientWrote[c] /\ SockIn(c, n) = 0 /\ n = toChan[c]
         /\ SockEnds(c, n) => client[c] \in {"fin", "reset"}
         /\ sockEof[c] => SockIn(c, n) = 0
<1>1. /\ vmGot[c] \in Nat /\ toChan[c] \in Nat /\ clientWrote[c] \in Nat
      /\ vmGot[c] + toChan[c] <= clientWrote[c]
  BY DEF IInv, ConnsOK, Counted
<1>2. n \in Nat /\ n <= toChan[c]
  BY <1>1 DEF Accepted
<1>3. SockHas(c) = clientWrote[c] - (vmGot[c] + toChan[c])
  BY DEF SockHas, SockRead
<1>4. SockIn(c, n) = 0 \/ SockIn(c, n) = SockHas(c)
  BY DEF SockIn
<1>5. sockEof[c] => SockIn(c, n) = 0
  BY DEF SockIn, ReadsSock
<1>6. SockEnds(c, n) => n = toChan[c] /\ client[c] \in {"fin", "reset"}
  BY DEF SockEnds, ReadsSock
<1>7. SockEnds(c, n) /\ client[c] = "fin" => SockHas(c) = 0
  BY DEF SockEnds
<1> QED
  BY <1>1, <1>2, <1>3, <1>4, <1>5, <1>6, <1>7

\* ... and on the VM's.
LEMMA ChanSide ==
  ASSUME IInv, NEW c \in Conns, NEW n, NEW k, Accepted(c, n, k)
  PROVE  /\ k \in Nat /\ k <= toSock[c] /\ ChanIn(c, k) \in Nat
         /\ clientGot[c] + toSock[c] + ChanIn(c, k) <= vmWrote[c]
         /\ chanEof[c] => ChanIn(c, k) = 0
         /\ ChanEnds(c, k) /\ transport = "up" =>
               vm[c] # "open" /\ clientGot[c] + toSock[c] = vmWrote[c] /\ ChanIn(c, k) = 0
<1>1. /\ clientGot[c] \in Nat /\ toSock[c] \in Nat /\ vmWrote[c] \in Nat
      /\ clientGot[c] + toSock[c] <= vmWrote[c]
  BY DEF IInv, ConnsOK, Counted
<1>2. k \in Nat /\ k <= toSock[c]
  BY <1>1 DEF Accepted
<1>3. ChanHas(c) = vmWrote[c] - (clientGot[c] + toSock[c])
  BY DEF ChanHas, ChanRead
<1>4. ChanIn(c, k) = 0 \/ ChanIn(c, k) = ChanHas(c)
  BY DEF ChanIn
<1>5. chanEof[c] => ChanIn(c, k) = 0
  BY DEF ChanIn, ReadsChan
<1>6. ChanEnds(c, k) /\ transport = "up" => vm[c] # "open" /\ ChanHas(c) = 0
  BY DEF ChanEnds
<1> QED
  BY <1>1, <1>2, <1>3, <1>4, <1>5, <1>6

\* One visit keeps the counters in order and the half-closes behind the data.
LEMMA PumpInv ==
  ASSUME IInv, NEW c \in Conns, NEW n \in 0..Units, NEW k \in 0..Units, Pump(c, n, k)
  PROVE  IInv'
<1> DEFINE sin == SockIn(c, n)
           cin == ChanIn(c, k)
           send == SockEnds(c, n)
           cend == ChanEnds(c, k)
           fin == FinDue(c, k)
<1>1. PICK told \in EofTold(c, n) :
        /\ vmGot'     = [vmGot EXCEPT ![c] = @ + n]
        /\ clientGot' = [clientGot EXCEPT ![c] = @ + k]
        /\ toChan'  = [toChan EXCEPT ![c] = @ - n + sin]
        /\ toSock'  = [toSock EXCEPT ![c] = @ - k + cin]
        /\ sockEof' = [sockEof EXCEPT ![c] = @ \/ send]
        /\ chanEof' = [chanEof EXCEPT ![c] = @ \/ cend]
        /\ finSent' = [finSent EXCEPT ![c] = @ \/ fin]
        /\ vmEof' = [vmEof EXCEPT ![c] = told]
  BY DEF Pump
<1>2. /\ Accepted(c, n, k) /\ transport' = IF n = 0 THEN transport ELSE AfterSend
      /\ phase' = IF WriteFails(c) \/ Finished(c, n, k) THEN [phase EXCEPT ![c] = "closed"] ELSE phase
      /\ blocked' = IF toChan[c] = 0 \/ ChanWriteFails(c) THEN blocked ELSE n < toChan[c]
      /\ todo' = todo \ {c} /\ UNCHANGED <<owner, pc, ends, elapsed, wedged>>
  BY DEF Pump
<1>3. /\ n \in Nat /\ n <= toChan[c] /\ sin \in Nat
      /\ vmGot[c] + toChan[c] + sin <= clientWrote[c]
      /\ send /\ client[c] = "fin" => vmGot[c] + n = clientWrote[c] /\ sin = 0 /\ n = toChan[c]
      /\ send => client[c] \in {"fin", "reset"}
      /\ sockEof[c] => sin = 0
  BY <1>2, SockSide
<1>4. /\ k \in Nat /\ k <= toSock[c] /\ cin \in Nat
      /\ clientGot[c] + toSock[c] + cin <= vmWrote[c]
      /\ chanEof[c] => cin = 0
      /\ cend /\ transport = "up" =>
            vm[c] # "open" /\ clientGot[c] + toSock[c] = vmWrote[c] /\ cin = 0
  BY <1>2, ChanSide
<1>5. told \in BOOLEAN /\ (told => vmEof[c] \/ (send /\ client[c] = "fin"))
  BY <1>1 DEF EofTold, IInv, ConnsOK
<1>6. fin <=> (chanEof[c] \/ cend) /\ toSock[c] - k + cin = 0
  BY DEF FinDue
<1> HIDE DEF sin, cin, send, cend, fin
<1>7. LoopOK'
  <2>1. blocked' \in BOOLEAN
    <3>1. (n < toChan[c]) \in BOOLEAN
      OBVIOUS
    <3> QED
      BY <1>2, <3>1 DEF IInv, LoopOK
  <2>2. phase' \in [Conns -> Phases]
    BY <1>2 DEF IInv, LoopOK, Phases
  <2>3. transport' \in {"up", "broken", "dead"}
    BY <1>2, SendType DEF IInv, LoopOK
  <2> QED
    BY <1>2, <2>1, <2>2, <2>3 DEF IInv, LoopOK, owner
<1>8. (Stands' => Stands)
  BY <1>2, SendType DEF IInv, Stands, owner
<1>9. ConnsOK'
  <2>1. /\ vmGot' \in [Conns -> Nat] /\ clientGot' \in [Conns -> Nat]
        /\ toChan' \in [Conns -> Nat] /\ toSock' \in [Conns -> Nat]
    <3>1. /\ vmGot[c] \in Nat /\ clientGot[c] \in Nat /\ toChan[c] \in Nat /\ toSock[c] \in Nat
      BY DEF IInv, ConnsOK
    <3>2. /\ vmGot[c] + n \in Nat /\ clientGot[c] + k \in Nat
          /\ toChan[c] - n + sin \in Nat /\ toSock[c] - k + cin \in Nat
      BY <1>3, <1>4, <3>1
    <3> QED
      BY <1>1, <3>2 DEF IInv, ConnsOK
  <2>2. /\ sockEof' \in [Conns -> BOOLEAN] /\ chanEof' \in [Conns -> BOOLEAN]
        /\ finSent' \in [Conns -> BOOLEAN] /\ vmEof' \in [Conns -> BOOLEAN]
    BY <1>1, <1>5 DEF IInv, ConnsOK
  <2> QED
    BY <1>2, <2>1, <2>2 DEF IInv, ConnsOK, ends
<1>10. ASSUME NEW d \in Conns PROVE Counted(d)' /\ Ended(d)' /\ (Stands' => Behind(d)')
  <2>1. CASE d = c
    <3>1. /\ vmGot'[c] = vmGot[c] + n /\ clientGot'[c] = clientGot[c] + k
          /\ toChan'[c] = toChan[c] - n + sin /\ toSock'[c] = toSock[c] - k + cin
          /\ UNCHANGED <<client, vm, clientWrote, vmWrote>>
      BY <1>1, <1>2 DEF IInv, ConnsOK, ends
    <3>2. /\ chanEof'[c] <=> chanEof[c] \/ cend
          /\ finSent'[c] <=> finSent[c] \/ fin
          /\ vmEof'[c] <=> told
      BY <1>1, <1>5 DEF IInv, ConnsOK
    <3>3. /\ vmGot[c] \in Nat /\ clientGot[c] \in Nat /\ toChan[c] \in Nat /\ toSock[c] \in Nat
          /\ clientWrote[c] \in Nat /\ vmWrote[c] \in Nat /\ Counted(c)
      BY DEF IInv, ConnsOK
    <3>4. Counted(c)'
      BY <1>3, <1>4, <3>1, <3>3 DEF Counted
    <3>6. Ended(c)'
      <4>1. Ended(c) /\ (transport' = "up" => transport = "up")
        BY <1>2, SendType DEF IInv
      <4>2. sockEof'[c] <=> sockEof[c] \/ send
        BY <1>1 DEF IInv, ConnsOK
      <4>3. sockEof'[c] /\ client[c] # "reset" =>
               client[c] = "fin" /\ vmGot'[c] + toChan'[c] = clientWrote[c]
        <5>0. UNCHANGED client /\ vmGot'[c] = vmGot[c] + n /\ toChan'[c] = toChan[c] - n + sin
          BY <3>1
        <5>1. ASSUME client[c] # "reset", sockEof[c]
              PROVE  client[c] = "fin" /\ vmGot'[c] + toChan'[c] = clientWrote[c]
          <6>1. client[c] = "fin" /\ vmGot[c] + toChan[c] = clientWrote[c] /\ sin = 0
            BY <1>3, <4>1, <5>1 DEF Ended
          <6> QED
            BY <1>3, <3>3, <5>0, <6>1
        <5>2. ASSUME client[c] # "reset", send
              PROVE  client[c] = "fin" /\ vmGot'[c] + toChan'[c] = clientWrote[c]
          <6>1. client[c] = "fin" /\ vmGot[c] + n = clientWrote[c] /\ sin = 0 /\ n = toChan[c]
            BY <1>3, <5>2
          <6>2. toChan'[c] = n - n + 0 /\ vmGot'[c] = clientWrote[c] /\ client'[c] = client[c]
            BY <5>0, <6>1
          <6>3. toChan'[c] = 0 /\ clientWrote[c] + 0 = clientWrote[c]
            BY <1>3, <3>3, <6>2
          <6> QED
            BY <6>1, <6>2, <6>3
        <5> QED
          BY <4>2, <5>1, <5>2
      <4>4. chanEof'[c] /\ transport' = "up" =>
               vm[c] # "open" /\ clientGot'[c] + toSock'[c] = vmWrote[c]
        BY <1>4, <3>1, <3>2, <3>3, <4>1 DEF Ended
      <4> QED
        BY <3>1, <4>3, <4>4 DEF Ended
    <3>5. ASSUME Stands' PROVE Behind(c)'
      <4>1. Behind(c) /\ transport = "up"
        BY <1>8, <3>5 DEF IInv, Stands
      <4>2. vmEof'[c] => client[c] = "fin" /\ vmGot'[c] = clientWrote[c]
        BY <1>3, <1>5, <3>1, <3>2, <3>3, <4>1 DEF Behind, Counted
      <4>3. chanEof'[c] => vm[c] # "open" /\ clientGot'[c] + toSock'[c] = vmWrote[c]
        BY <1>4, <3>1, <3>2, <3>3, <4>1 DEF Behind
      <4>4. finSent'[c] => chanEof'[c] /\ toSock'[c] = 0
        BY <1>4, <1>6, <3>1, <3>2, <3>3, <4>1 DEF Behind
      <4> QED
        BY <3>1, <4>2, <4>3, <4>4 DEF Behind
    <3> QED
      BY <2>1, <3>4, <3>5, <3>6
  <2>2. CASE d # c
    <3>1. /\ vmGot'[d] = vmGot[d] /\ clientGot'[d] = clientGot[d]
          /\ toChan'[d] = toChan[d] /\ toSock'[d] = toSock[d]
          /\ chanEof'[d] = chanEof[d] /\ finSent'[d] = finSent[d] /\ vmEof'[d] = vmEof[d]
          /\ sockEof'[d] = sockEof[d]
          /\ UNCHANGED <<client, vm, clientWrote, vmWrote>>
      BY <1>1, <1>2, <2>2 DEF IInv, ConnsOK, ends
    <3>2. transport' = "up" => transport = "up"
      BY <1>2, SendType DEF IInv
    <3>3. Counted(d)' /\ (Stands' => Behind(d)')
      BY <1>8, <3>1 DEF IInv, Counted, Behind
    <3>4. Ended(d)'
      BY <3>1, <3>2 DEF IInv, Ended
    <3> QED
      BY <3>3, <3>4
  <2> QED
    BY <2>1, <2>2
<1> QED
  BY <1>7, <1>8, <1>9, <1>10 DEF IInv

-----------------------------------------------------------------------------
\* The clients, the VM, the transport and time.
LEMMA EnvironmentInv == ASSUME IInv, Environment PROVE IInv'
<1> USE DEF IInv
<1>1. ASSUME NEW c \in Conns, Dial(c) PROVE IInv'
  <2>1. LoopOK' /\ (Stands' => Stands)
    BY <1>1 DEF Dial, LoopOK, Stands, owner, Phases
  <2> QED
    BY <1>1, <2>1, ConnsFrame DEF Dial, ConnsOK
<1>2. ASSUME NEW c \in Conns, ClientWrites(c) PROVE IInv'
  <2>1. LoopOK' /\ (Stands' <=> Stands)
    BY <1>2, LoopFrame DEF ClientWrites
  <2>2. ConnsOK' /\ \A d \in Conns : Counted(d)' /\ (Stands' => Behind(d)')
    BY <1>2, <2>1, ForwardAssumption DEF ClientWrites, ConnsOK, Counted, Behind, flags
  <2>3. \A d \in Conns : Ended(d)'
    BY <1>2, ForwardAssumption DEF ClientWrites, ConnsOK, Counted, Ended, flags
  <2> QED
    BY <2>1, <2>2, <2>3
<1>3. ASSUME NEW c \in Conns, NEW how \in {"fin", "reset"}, ClientCloses(c, how) PROVE IInv'
  <2>1. LoopOK' /\ (Stands' <=> Stands)
    BY <1>3, LoopFrame DEF ClientCloses
  <2>2. ConnsOK' /\ \A d \in Conns : Counted(d)' /\ (Stands' => Behind(d)')
    BY <1>3, <2>1 DEF ClientCloses, ConnsOK, Counted, Behind, flags
  <2>3. \A d \in Conns : Ended(d)'
    BY <1>3, ForwardAssumption DEF ClientCloses, ConnsOK, Counted, Ended, flags
  <2> QED
    BY <2>1, <2>2, <2>3
<1>4. ASSUME NEW c \in Conns, VmWrites(c) PROVE IInv'
  <2>1. LoopOK' /\ (Stands' <=> Stands)
    BY <1>4, LoopFrame DEF VmWrites
  <2>2. ConnsOK' /\ \A d \in Conns : Counted(d)' /\ (Stands' => Behind(d)')
    BY <1>4, <2>1, ForwardAssumption DEF VmWrites, ConnsOK, Counted, Behind, flags
  <2>3. \A d \in Conns : Ended(d)'
    BY <1>4, ForwardAssumption DEF VmWrites, ConnsOK, Counted, Ended, flags
  <2> QED
    BY <2>1, <2>2, <2>3
<1>5. ASSUME NEW c \in Conns, NEW how \in {"eof", "closed"}, VmCloses(c, how) PROVE IInv'
  <2>1. LoopOK' /\ (Stands' <=> Stands)
    BY <1>5, LoopFrame DEF VmCloses
  <2>2. ConnsOK' /\ \A d \in Conns : Counted(d)' /\ (Stands' => Behind(d)')
    BY <1>5, <2>1 DEF VmCloses, ConnsOK, Counted, Behind, flags
  <2>3. \A d \in Conns : Ended(d)'
    BY <1>5, ForwardAssumption DEF VmCloses, ConnsOK, Counted, Ended, flags
  <2> QED
    BY <2>1, <2>2, <2>3
<1>6. CASE TransportDies \/ Unblocks \/ Tick
  <2>1. (Stands' => Stands)
    BY <1>6 DEF TransportDies, Unblocks, Tick, Stands, owner
  <2>2. elapsed' \in 0..Interval
    BY <1>6, ForwardAssumption DEF TransportDies, Unblocks, Tick, LoopOK
  <2>3. blocked' \in BOOLEAN /\ transport' \in {"up", "broken", "dead"}
    BY <1>6 DEF TransportDies, Unblocks, Tick, LoopOK
  <2>4. LoopOK'
    BY <1>6, <2>2, <2>3 DEF TransportDies, Unblocks, Tick, LoopOK, owner
  <2> QED
    BY <1>6, <2>1, <2>4, ConnsFrame DEF TransportDies, Unblocks, Tick, ConnsOK
<1> QED
  BY <1>1, <1>2, <1>3, <1>4, <1>5, <1>6 DEF Environment

\* Every step keeps the invariant.
LEMMA NextInv == IInv /\ [Next]_vars => IInv'
<1> SUFFICES ASSUME IInv, [Next]_vars PROVE IInv'
  OBVIOUS
<1>1. CASE Reactor
  BY <1>1, ReactorInv, PumpInv DEF Reactor
<1>2. CASE Owner \/ Environment
  BY <1>2, OwnerInv, EnvironmentInv
<1>3. CASE UNCHANGED vars
  <2>1. UNCHANGED <<toChan, toSock, flags, ends, vmGot, clientGot, vmEof>>
        /\ UNCHANGED <<owner, pc, todo, phase, transport, blocked, elapsed, wedged>>
    BY <1>3 DEF vars
  <2> QED
    BY <2>1, LoopFrame, ConnsFrame DEF IInv, ConnsOK
<1> QED
  BY <1>1, <1>2, <1>3 DEF Next

\* The invariant holds in every reachable state.
LEMMA Invariant == Spec => []IInv
  BY InitIInv, NextInv, PTL DEF Spec

-----------------------------------------------------------------------------
\* Every variable keeps its type, in particular no buffer exceeds what was
\* written to it.
THEOREM TypeCorrect == Spec => []TypeOK
  BY Invariant, TypeParts, PTL

\* Conn::pump: while the session stands a half-close reaches either end only
\* after all the data before it, for any partial writes.
THEOREM HalfClosesComeLast == Spec => []EofAfterData
  BY Invariant, EofFollows, PTL

\* classify_ssh_failure and the reactor's loop: nothing but a stop or a
\* transport that is gone takes the forward down.
THEOREM HealthyStaysUp == Spec => NoFalseDeath
<1>1. [Next]_vars => [pc # "gone" /\ pc' = "gone" => shutdown \/ transport # "up"]_vars
  <2> SUFFICES ASSUME Next, pc # "gone", pc' = "gone", transport = "up" PROVE shutdown
    BY DEF vars
  <2>1. ~Owner /\ ~Environment
    BY DEF Owner, StartTransport, SetupFails, Spawn, StopAsked, StopReturns,
           Environment, Dial, ClientWrites, ClientCloses, VmWrites, VmCloses,
           TransportDies, Unblocks, Tick
  <2>2. ~Accept /\ ~OpenDone /\ ~PumpDone /\ ~NoKeepalive
    BY DEF Accept, OpenDone, PumpDone, NoKeepalive
  <2>3. ASSUME NEW c \in Conns, NEW n \in 0..Units, NEW k \in 0..Units PROVE ~Pump(c, n, k)
    BY DEF Pump
  <2>4. ASSUME NEW c \in Conns, NEW answer \in Answers PROVE ~OpenChannel(c, answer)
    BY StandingAnswers DEF OpenChannel
  <2>5. ASSUME NEW answer \in Answers PROVE ~Keepalive(answer)
    BY StandingAnswers DEF Keepalive
  <2>6. ShutdownSeen
    BY <2>1, <2>2, <2>3, <2>4, <2>5 DEF Next, Reactor
  <2> QED
    BY <2>6 DEF ShutdownSeen
<1> QED
  BY <1>1, PTL DEF Spec, NoFalseDeath

\* The reactor opens channels for connections that wait for one.
Visited == pc = "open" => todo \subseteq In("pending")

\* It does so in every reachable state.
LEMMA VisitsPending == Spec => []Visited
<1>1. Init => Visited
  BY DEF Init, Visited
<1>2. IInv /\ Visited /\ [Next]_vars => Visited'
  <2> SUFFICES ASSUME IInv, Visited, [Next]_vars, pc' = "open", NEW c \in Conns, c \in todo'
               PROVE  phase'[c] = "pending"
    BY NextInv DEF Visited, In, IInv, LoopOK
  <2> USE DEF Visited, In, IInv, LoopOK
  <2>1. CASE Owner \/ UNCHANGED vars
    BY <2>1 DEF Owner, StartTransport, SetupFails, Spawn, StopAsked, StopReturns, vars
  <2>2. CASE Environment
    BY <2>2 DEF Environment, Dial, ClientWrites, ClientCloses, VmWrites, VmCloses,
                TransportDies, Unblocks, Tick
  <2>3. CASE Accept
    BY <2>3 DEF Accept
  <2>4. ASSUME NEW d \in Conns, NEW answer \in Answers, OpenChannel(d, answer)
        PROVE  phase'[c] = "pending"
    BY <2>4 DEF OpenChannel, LeaveLoop
  <2>5. ~ShutdownSeen /\ ~OpenDone /\ ~PumpDone /\ ~NoKeepalive
    BY DEF ShutdownSeen, LeaveLoop, OpenDone, PumpDone, NoKeepalive
  <2>6. ASSUME NEW answer \in Answers PROVE ~Keepalive(answer)
    BY DEF Keepalive, LeaveLoop
  <2>7. ASSUME NEW d \in Conns, NEW n \in 0..Units, NEW k \in 0..Units PROVE ~Pump(d, n, k)
    BY DEF Pump
  <2> QED
    BY <2>1, <2>2, <2>3, <2>4, <2>5, <2>6, <2>7 DEF Next, Reactor
<1> QED
  BY <1>1, <1>2, Invariant, PTL DEF Spec

\* A buffer that is empty after a write gave all it held, and took nothing in.
LEMMA Drained ==
  ASSUME NEW held \in Nat, NEW gave \in Nat, NEW took \in Nat, gave <= held, held - gave + took = 0
  PROVE  gave = held
  OBVIOUS

\* Conn::pump, retain: a connection the pump ends by itself, neither end having
\* failed, has handed over everything in both directions.
THEOREM EndsAreWhole == Spec => EndsWhole
<1>1. IInv /\ Visited /\ [Next]_vars =>
        [\A c \in Conns :
           (/\ phase[c] = "live" /\ phase'[c] = "closed" /\ pc' # "gone"
            /\ client[c] # "reset" /\ vm[c] # "closed" /\ transport = "up")
           => /\ client[c] = "fin" /\ vm[c] = "eof"
              /\ vmGot'[c] = clientWrote[c] /\ clientGot'[c] = vmWrote[c]]_vars
  <2> SUFFICES ASSUME IInv, Visited, Next, NEW c \in Conns,
                      phase[c] = "live", phase'[c] = "closed", pc' # "gone",
                      client[c] # "reset", vm[c] # "closed", transport = "up"
               PROVE  /\ client[c] = "fin" /\ vm[c] = "eof"
                      /\ vmGot'[c] = clientWrote[c] /\ clientGot'[c] = vmWrote[c]
    OBVIOUS
  <2>1. PICK n \in 0..Units, k \in 0..Units : Pump(c, n, k)
    <3>1. ~Owner /\ ~Environment
      BY DEF Owner, StartTransport, SetupFails, Spawn, StopAsked, StopReturns,
             Environment, Dial, ClientWrites, ClientCloses, VmWrites, VmCloses,
             TransportDies, Unblocks, Tick, IInv, LoopOK
    <3>2. ~ShutdownSeen /\ ~Accept /\ ~OpenDone /\ ~PumpDone /\ ~NoKeepalive
      <4>1. ~ShutdownSeen /\ ~OpenDone /\ ~PumpDone /\ ~NoKeepalive
        BY DEF ShutdownSeen, LeaveLoop, OpenDone, PumpDone, NoKeepalive
      <4>2. ~Accept
        BY DEF Accept, In, IInv, LoopOK
      <4> QED
        BY <4>1, <4>2
    <3>3. ASSUME NEW d \in Conns, NEW answer \in Answers PROVE ~OpenChannel(d, answer)
      BY DEF OpenChannel, LeaveLoop, Visited, In, IInv, LoopOK
    <3>4. ASSUME NEW answer \in Answers PROVE ~Keepalive(answer)
      BY DEF Keepalive, LeaveLoop
    <3>5. PICK d \in Conns, n \in 0..Units, k \in 0..Units : Pump(d, n, k)
      BY <3>1, <3>2, <3>3, <3>4 DEF Next, Reactor
    <3>6. d = c
      BY <3>5 DEF Pump, IInv, LoopOK
    <3> QED
      BY <3>5, <3>6
  <2>2. Accepted(c, n, k) /\ Finished(c, n, k)
    BY <2>1 DEF Pump, WriteFails, ChanWriteFails, SockWriteFails
  <2>3. /\ vmGot'[c] = vmGot[c] + n /\ clientGot'[c] = clientGot[c] + k
    BY <2>1 DEF Pump, IInv, ConnsOK
  <2>4. Ended(c)
    BY DEF IInv
  <2>5. /\ vmGot[c] \in Nat /\ toChan[c] \in Nat /\ n \in Nat /\ n <= toChan[c]
        /\ SockIn(c, n) \in Nat /\ toChan[c] - n + SockIn(c, n) = 0
    BY <2>2, SockSide DEF Finished, IInv, ConnsOK
  <2>6. client[c] = "fin" /\ vmGot[c] + n = clientWrote[c]
    <3>1. sockEof[c] \/ SockEnds(c, n)
      BY <2>2 DEF Finished
    <3>2. CASE sockEof[c]
      <4>1. client[c] = "fin" /\ vmGot[c] + toChan[c] = clientWrote[c]
        BY <2>4, <3>2 DEF Ended
      <4>2. n = toChan[c]
        BY <2>5, Drained
      <4> QED
        BY <4>1, <4>2
    <3>3. CASE SockEnds(c, n)
      BY <2>2, <3>3, SockSide
    <3> QED
      BY <3>1, <3>2, <3>3
  <2>7. /\ clientGot[c] \in Nat /\ toSock[c] \in Nat /\ k \in Nat /\ k <= toSock[c]
        /\ ChanIn(c, k) \in Nat /\ toSock[c] - k + ChanIn(c, k) = 0
    BY <2>2, ChanSide DEF Finished, FinDue, IInv, ConnsOK
  <2>8. vm[c] # "open" /\ clientGot[c] + k = vmWrote[c]
    <3>1. vm[c] # "open" /\ clientGot[c] + toSock[c] = vmWrote[c]
      BY <2>2, <2>4, ChanSide DEF Ended, Finished, FinDue
    <3>2. k = toSock[c]
      BY <2>7, Drained
    <3> QED
      BY <3>1, <3>2
  <2>9. vm[c] = "eof"
    BY <2>8 DEF IInv, ConnsOK
  <2> QED
    BY <2>3, <2>6, <2>8, <2>9
<1> QED
  BY <1>1, Invariant, VisitsPending, PTL DEF Spec, EndsWhole

\* should_send_keepalive: no keepalive is swallowed behind a half-sent packet.
THEOREM NeverFrozen == Spec => []NeverWedged
<1>1. Init => NeverWedged
  BY DEF Init, NeverWedged
<1>2. NeverWedged /\ [Next]_vars => NeverWedged'
  <2> SUFFICES ASSUME ~wedged, [Next]_vars PROVE ~wedged'
    BY DEF NeverWedged
  <2>1. CASE Owner \/ Environment \/ UNCHANGED vars
    BY <2>1 DEF Owner, StartTransport, SetupFails, Spawn, StopAsked, StopReturns,
                Environment, Dial, ClientWrites, ClientCloses, VmWrites, VmCloses,
                TransportDies, Unblocks, Tick, vars
  <2>2. CASE ShutdownSeen \/ Accept \/ OpenDone \/ PumpDone \/ NoKeepalive
    BY <2>2 DEF ShutdownSeen, LeaveLoop, Accept, OpenDone, PumpDone, NoKeepalive
  <2>3. ASSUME NEW c \in Conns, NEW answer \in Answers, OpenChannel(c, answer) PROVE ~wedged'
    BY <2>3 DEF OpenChannel, LeaveLoop
  <2>4. ASSUME NEW c \in Conns, NEW n \in 0..Units, NEW k \in 0..Units, Pump(c, n, k)
        PROVE  ~wedged'
    BY <2>4 DEF Pump
  <2>5. ASSUME NEW answer \in Answers, Keepalive(answer) PROVE ~wedged'
    <3>1. ~blocked
      BY <2>5 DEF Keepalive, should_send_keepalive, Vetoed
    <3> QED
      BY <2>5, <3>1 DEF Keepalive, LeaveLoop
  <2> QED
    BY <2>1, <2>2, <2>3, <2>4, <2>5 DEF Next, Reactor
<1> QED
  BY <1>1, <1>2, PTL DEF Spec

----------------------------------------------------------------------------
(* The doctor                                                              *)

Kinds == {"gcloud", "account", "adc", "store", "index", "token", "project", "compute",
          "iap", "firewall", "vm", "agent", "clients"}
Signed   == {"none", "orphan", "dead", "live"}

DoctorTypes ==
    /\ engine \in Engines /\ session \in Signed /\ keyring \in BOOLEAN
    /\ gcloud \in {"absent", "signed_out", "expired", "signed_in"}
    /\ troubles \subseteq Troubles
    /\ missed \in BOOLEAN
    /\ at \in 1..14 /\ row \in [Kinds -> Statuses]

(* The history is of what is so.                                           *)
StillSo == standing \subseteq Problems /\ (well => Healthy)

Red    == Rows("fail") # {}
Yellow == Rows("warning") # {}

(* What a run has found when it has found nothing: the rows that the later *)
(* checks build on, and the problems that have had their check.            *)
FoundNone ==
    /\ engine = "gcloud" /\ at > 1 => row["gcloud"] = "pass"
    /\ engine = "gcloud" /\ at > 2 => row["account"] = "pass"
    /\ engine = "native" /\ at > 5 => "orphan" \notin standing
    /\ engine = "native" /\ at > 6 => row["token"] = "pass" /\ "no_credentials" \notin standing
    /\ at > 7  => "no_credentials" \notin standing /\ "denied" \notin standing
                    /\ "no_project" \notin standing
    /\ at > 8  => "compute_off" \notin standing
    /\ at > 9  => "iap_off" \notin standing
    /\ at > 10 => "no_rule" \notin standing
    /\ at > 11 => ("no_vm" \notin standing /\ "vm_stopped" \notin standing /\ "vm_starting" \notin standing)
    /\ at > 12 => "no_agent" \notin standing
    /\ at > 13 => ("some_clients" \notin standing /\ "no_clients" \notin standing)

(* The checks that are still to come have no row.                          *)
Unreported == \A i \in at..13 : row[Checks[i]] = "none"

DoctorInv ==
    /\ DoctorTypes /\ StillSo /\ Unreported
    /\ ~missed /\ ~Red /\ ~Yellow => FoundNone
    /\ HealthyIsNotRed

LEMMA ChecksAre ==
    /\ Len(Checks) = 13 /\ DOMAIN Checks = 1..13 /\ {Checks[i] : i \in DOMAIN Checks} = Kinds
    /\ \A i, j \in 1..13 : Checks[i] = Checks[j] => i = j
<1>1. Len(Checks) = 13 /\ DOMAIN Checks = 1..13
  BY DEF Checks
<1>2. \A i \in 1..13 : Checks[i] \in Kinds
  BY DEF Checks, Kinds
<1>3. \A k \in Kinds : \E i \in 1..13 : Checks[i] = k
  BY DEF Checks, Kinds
<1>4. \A i, j \in 1..13 : Checks[i] = Checks[j] => i = j
  BY DEF Checks
<1> QED
  BY <1>1, <1>2, <1>3, <1>4

LEMMA AtChecks ==
    at \in 1..14 =>
        /\ At("gcloud") => at = 1     /\ at > 0
        /\ At("account") => at = 2    /\ at > 0
        /\ At("adc") => at = 3        /\ at > 0
        /\ At("store") => at = 4      /\ at > 0
        /\ At("index") => at = 5      /\ at > 0
        /\ At("token") => at = 6      /\ at > 0
        /\ At("project") => at = 7    /\ at > 0
        /\ At("compute") => at = 8    /\ at > 0
        /\ At("iap") => at = 9        /\ at > 0
        /\ At("firewall") => at = 10  /\ at > 0
        /\ At("vm") => at = 11        /\ at > 0
        /\ At("agent") => at = 12     /\ at > 0
        /\ At("clients") => at = 13   /\ at > 0
<1> SUFFICES ASSUME at \in 1..14
             PROVE  \A k \in Kinds : At(k) => at \in 1..13 /\ Checks[at] = k
  BY DEF Checks, Kinds
<1> QED
  BY ChecksAre DEF At

(* A row: what was so before it of a run that has found nothing after it.  *)
LEMMA RowAdded ==
    ASSUME DoctorInv, NEW k \in Kinds, NEW status \in Statuses, NEW offered, NEW token,
           Report(k, status, offered, token), missed' \in BOOLEAN, missed => missed',
           well' /\ ~missed' => status # "fail"
    PROVE  /\ DoctorTypes' /\ StillSo' /\ Unreported' /\ HealthyIsNotRed'
           /\ ~missed' /\ ~Red' /\ ~Yellow' =>
                  ~missed /\ FoundNone /\ status \notin {"fail", "warning"}
           /\ row'[k] = status /\ (\A x \in Kinds \ {k} : row'[x] = row[x]) /\ at' = at + 1
           /\ standing' \subseteq standing /\ standing' \subseteq Problems'
           /\ UNCHANGED world /\ (well' => well /\ Healthy)
<1> USE DEF DoctorInv
<1>1. /\ row' = [row EXCEPT ![k] = status] /\ at' = at + 1 /\ at \in 1..13 /\ Checks[at] = k
      /\ UNCHANGED <<engine, gcloud, adc, session, keyring, troubles>>
      /\ standing' = standing \cap Problems' /\ well' = (well /\ Healthy')
  <2>1. at \in 1..13 /\ Checks[at] = k
    <3>1. at <= Len(Checks) /\ Checks[at] = k
      BY DEF Report, At
    <3>2. at \in 1..14
      BY DEF DoctorTypes
    <3> QED
      BY <3>1, <3>2, ChecksAre
  <2> QED
    BY <2>1 DEF Report, world, Follow
<1>2. Healthy' = Healthy
  BY <1>1 DEF Healthy, SignedIn, token_from_native_session, token_from_gcloud_cli, gcloud_path
<1>3. DoctorTypes'
  <2>1. row' \in [Kinds -> Statuses]
    <3>1. row \in [Kinds -> Statuses]
      BY DEF DoctorTypes
    <3> HIDE DEF DoctorInv
    <3> QED
      BY <1>1, <3>1
  <2>2. at' \in 1..14
    BY <1>1
  <2> QED
    BY <1>1, <2>1, <2>2 DEF DoctorTypes
<1>4. StillSo' /\ standing' \subseteq standing
  BY <1>1 DEF StillSo
<1>5. row[k] = "none"
  <2>1. at \in at..13
    BY <1>1
  <2> QED
    BY <1>1, <2>1 DEF Unreported
<1>6. \A x \in Kinds \ {k} : row'[x] = row[x]
  BY <1>1 DEF DoctorTypes
<1>7. row'[k] = status /\ DOMAIN row = Kinds /\ DOMAIN row' = Kinds
  BY <1>1 DEF DoctorTypes
<1>8. Unreported'
  BY <1>1, <1>6, ChecksAre DEF Unreported
<1>9. (Red => Red') /\ (Yellow => Yellow')
  BY <1>5, <1>6, <1>7 DEF Red, Yellow, Rows
<1>10. (status = "fail" => Red') /\ (status = "warning" => Yellow')
  BY <1>7 DEF Red, Yellow, Rows
<1>11. HealthyIsNotRed'
  <2> SUFFICES ASSUME well', ~missed' PROVE Rows("fail")' = {}
    BY DEF HealthyIsNotRed
  <2>1. Rows("fail") = {}
    BY <1>1 DEF HealthyIsNotRed
  <2> QED
    BY <1>6, <1>7, <2>1 DEF Rows
<1> QED
  BY <1>1, <1>2, <1>3, <1>4, <1>7, <1>8, <1>9, <1>10, <1>11 DEF world

(* Nothing of a run changes but the history.                               *)
LEMMA WorldMoves ==
    ASSUME DoctorInv, DoctorTypes', UNCHANGED report, Follow, missed => missed',
           ~missed' => UNCHANGED engine
    PROVE  DoctorInv'
<1>1. UNCHANGED <<at, row>> /\ standing' = standing \cap Problems' /\ (well' => well /\ Healthy')
  BY DEF report, Follow
<1>2. StillSo' /\ Unreported' /\ HealthyIsNotRed' /\ UNCHANGED <<Red, Yellow>>
  BY <1>1 DEF DoctorInv, StillSo, Unreported, HealthyIsNotRed, Red, Yellow, Rows
<1>3. ~missed' /\ FoundNone => FoundNone'
  <2>1. standing' \subseteq standing
    BY <1>1
  <2> QED
    BY <1>1, <2>1 DEF FoundNone
<1> QED
  BY <1>2, <1>3 DEF DoctorInv

(* A new run.                                                              *)
LEMMA RunBegins ==
    ASSUME DoctorInv, Fresh, UNCHANGED <<engine, gcloud, adc, keyring>>, session' \in Signed,
           troubles' \subseteq Troubles
    PROVE  DoctorInv'
<1>1. /\ at' = 1 /\ row' = [x \in Kinds |-> "none"] /\ standing' = Problems' /\ well' = Healthy'
      /\ missed' = FALSE
  BY DEF Fresh, DoctorInv, DoctorTypes
<1>2. DoctorTypes' /\ StillSo' /\ FoundNone'
  <2>1. DoctorTypes'
    <3>1. row' \in [Kinds -> Statuses] /\ at' \in 1..14
      BY <1>1 DEF Statuses
    <3> QED
      BY <1>1, <3>1 DEF DoctorInv, DoctorTypes
  <2>2. FoundNone'
    BY <1>1 DEF FoundNone
  <2> QED
    BY <1>1, <2>1, <2>2 DEF StillSo
<1>3. Unreported' /\ HealthyIsNotRed'
  BY <1>1, ChecksAre DEF Unreported, HealthyIsNotRed, Rows
<1> QED
  BY <1>2, <1>3 DEF DoctorInv

(* What the row of the check that is made rules out.                        *)
Finds(status) ==
    /\ at <= 2 /\ engine = "gcloud" => status = "pass"
    /\ at = 5 /\ engine = "native" => "orphan" \notin standing
    /\ at = 6 /\ engine = "native" => status = "pass" /\ "no_credentials" \notin standing
    /\ at = 7 => ("no_credentials" \notin standing /\ "denied" \notin standing /\ "no_project" \notin standing)
    /\ at = 8 => "compute_off" \notin standing
    /\ at = 9 => "iap_off" \notin standing
    /\ at = 10 => "no_rule" \notin standing
    /\ at = 11 => ("no_vm" \notin standing /\ "vm_stopped" \notin standing /\ "vm_starting" \notin standing)
    /\ at = 12 => "no_agent" \notin standing
    /\ at = 13 => ("some_clients" \notin standing /\ "no_clients" \notin standing)

LEMMA FoundMore ==
    ASSUME NEW k \in Kinds, NEW status, FoundNone, Finds(status), at \in 1..13, Checks[at] = k,
           at' = at + 1, engine' = engine, standing' \subseteq standing, row'[k] = status,
           \A x \in Kinds \ {k} : row'[x] = row[x]
    PROVE  FoundNone'
<1>1. /\ at = 1 <=> k = "gcloud"
      /\ at = 2 <=> k = "account"
      /\ at = 6 <=> k = "token"
  <2>1. Checks[1] = "gcloud" /\ Checks[2] = "account" /\ Checks[6] = "token"
    BY DEF Checks
  <2> QED
    BY <2>1, ChecksAre
<1>2. {"gcloud", "account", "token"} \subseteq Kinds
  BY DEF Kinds
<1>3. engine' = "gcloud" => row'["gcloud"] = "pass" /\ (at' > 2 => row'["account"] = "pass")
  BY <1>1, <1>2 DEF FoundNone, Finds
<1>4. engine' = "native" /\ at' > 6 => row'["token"] = "pass" /\ "no_credentials" \notin standing'
  BY <1>1, <1>2 DEF FoundNone, Finds
<1>5. /\ engine' = "native" /\ at' > 5 => "orphan" \notin standing'
      /\ at' > 7  => "no_credentials" \notin standing' /\ "denied" \notin standing'
                        /\ "no_project" \notin standing'
      /\ at' > 8  => "compute_off" \notin standing'
      /\ at' > 9  => "iap_off" \notin standing'
      /\ at' > 10 => "no_rule" \notin standing'
  BY DEF FoundNone, Finds
<1>6. /\ at' > 11 => "no_vm" \notin standing' /\ "vm_stopped" \notin standing'
                        /\ "vm_starting" \notin standing'
      /\ at' > 12 => "no_agent" \notin standing'
      /\ at' > 13 => "some_clients" \notin standing' /\ "no_clients" \notin standing'
  BY DEF FoundNone, Finds
<1> QED
  BY <1>3, <1>4, <1>5, <1>6 DEF FoundNone

(* What a row says must be so for its check to have found nothing.         *)
LEMMA CheckMade ==
    ASSUME DoctorInv, NEW k \in Kinds, NEW status \in Statuses, NEW offered, NEW token,
           Report(k, status, offered, token), missed' \in BOOLEAN, missed => missed',
           well' /\ ~missed' => status # "fail",
           ~missed' /\ status \notin {"fail", "warning"} /\ FoundNone => Finds(status)
    PROVE  DoctorInv'
<1>1. /\ DoctorTypes' /\ StillSo' /\ Unreported' /\ HealthyIsNotRed'
      /\ ~missed' /\ ~Red' /\ ~Yellow' =>
            ~missed /\ FoundNone /\ status \notin {"fail", "warning"}
      /\ row'[k] = status /\ (\A x \in Kinds \ {k} : row'[x] = row[x]) /\ at' = at + 1
      /\ standing' \subseteq standing
  BY RowAdded
<1>2. engine' = engine /\ At(k)
  BY DEF Report, world
<1>3. at \in 1..13 /\ Checks[at] = k
  <2>1. at <= Len(Checks) /\ Checks[at] = k
    BY <1>2 DEF At
  <2>2. at \in 1..14
    BY DEF DoctorInv, DoctorTypes
  <2> QED
    BY <2>1, <2>2, ChecksAre
<1>4. ASSUME ~missed', ~Red', ~Yellow' PROVE FoundNone'
  <2>1. FoundNone /\ Finds(status)
    BY <1>1, <1>4
  <2> QED
    BY <1>1, <1>2, <1>3, <2>1, FoundMore
<1> QED
  BY <1>1, <1>4 DEF DoctorInv

(* What is wrong is among the troubles, but for the credentials.           *)
LEMMA TroubleStands ==
    ASSUME DoctorInv
    PROVE  /\ \A x \in standing : x # "no_credentials" => x \in troubles
           /\ "no_credentials" \in standing =>
                  ~Serves(engine) /\ ~(cached = engine /\ engine = "gcloud")
           /\ engine = "gcloud" => "orphan" \notin standing
           /\ engine \in {"native", "gcloud"} /\ session \in {"none", "orphan", "dead", "live"}
           /\ missed \in BOOLEAN
<1>1. standing \subseteq Problems
  BY DEF DoctorInv, StillSo
<1>2. /\ \A x \in Problems : x # "no_credentials" => x \in troubles
      /\ engine = "gcloud" => "orphan" \notin Problems
  BY DEF Problems
<1>3. "no_credentials" \in Problems => ~Serves(engine) /\ ~(cached = engine /\ engine = "gcloud")
  BY DEF Problems, DoctorInv, DoctorTypes, Troubles
<1> QED
  BY <1>1, <1>2, <1>3 DEF DoctorInv, DoctorTypes, Engines, Signed

LEMMA WellIsHealthy ==
    ASSUME DoctorInv, NEW k, NEW status, NEW offered, NEW token, Report(k, status, offered, token)
    PROVE  /\ At(k) /\ at \in 1..14
           /\ well' => SignedIn /\ troubles \subseteq {"iap_off"}
<1>1. well' => Healthy
  BY DEF DoctorInv, StillSo, Report, Follow
<1> QED
  BY <1>1 DEF Healthy, Report, DoctorInv, DoctorTypes

(* A check that asks nobody.                                               *)
LEMMA LocalMade ==
    ASSUME DoctorInv, NEW k \in Kinds, NEW status \in Statuses, NEW offered,
           Local(k, status, offered),
           SignedIn /\ troubles \subseteq {"iap_off"} => status # "fail",
           At(k) /\ status \notin {"fail", "warning"} /\ FoundNone => Finds(status)
    PROVE  DoctorInv'
<1>1. Report(k, status, offered, cached) /\ missed' = missed
  BY DEF Local
<1>2. missed' \in BOOLEAN /\ (missed => missed')
  BY <1>1, TroubleStands
<1>3. At(k) /\ (well' => SignedIn /\ troubles \subseteq {"iap_off"})
  BY <1>1, WellIsHealthy
<1>4. well' /\ ~missed' => status # "fail"
  BY <1>3
<1>5. ~missed' /\ status \notin {"fail", "warning"} /\ FoundNone => Finds(status)
  BY <1>3
<1> QED
  BY <1>1, <1>2, <1>4, <1>5, CheckMade

LEMMA GcloudChecked == DoctorInv /\ check_gcloud_installed => DoctorInv'
<1> SUFFICES ASSUME DoctorInv, Local("gcloud", gcloud_check_status(is_gcloud_installed), {})
             PROVE  DoctorInv'
  BY DEF check_gcloud_installed
<1> DEFINE status == gcloud_check_status(is_gcloud_installed)
<1>1. /\ status \in {"skipped", "pass", "fail"}
      /\ engine = "gcloud" => status \in {"pass", "fail"}
      /\ SignedIn => status # "fail"
  BY TroubleStands DEF gcloud_check_status, is_gcloud_installed, SignedIn, token_from_gcloud_cli
<1> HIDE DEF status
<1>2. At("gcloud") /\ status \notin {"fail", "warning"} /\ FoundNone => Finds(status)
  <2>1. At("gcloud") => at = 1
    BY AtChecks DEF DoctorInv, DoctorTypes
  <2> QED
    BY <1>1, <2>1 DEF Finds
<1>3. status \in Statuses /\ "gcloud" \in Kinds
  BY <1>1 DEF Statuses, Kinds
<1> QED
  BY <1>1, <1>2, <1>3, LocalMade DEF status

LEMMA AccountChecked == DoctorInv /\ check_gcloud_account => DoctorInv'
<1> DEFINE status == IF engine = "gcloud" /\ row["gcloud"] # "pass" THEN "skipped"
                     ELSE gcloud_check_status(is_gcloud_authenticated)
           offered == IF status = "fail" THEN {"re_authenticate"} ELSE {}
<1> SUFFICES ASSUME DoctorInv, Local("account", status, offered) PROVE DoctorInv'
  BY DEF check_gcloud_account
<1>1. /\ status \in {"skipped", "pass", "fail"}
      /\ engine = "gcloud" /\ row["gcloud"] = "pass" => status \in {"pass", "fail"}
      /\ SignedIn => status # "fail"
  BY TroubleStands
  DEF gcloud_check_status, is_gcloud_authenticated, gcloud_path, SignedIn, token_from_gcloud_cli
<1> HIDE DEF status, offered
<1>2. At("account") /\ status \notin {"fail", "warning"} /\ FoundNone => Finds(status)
  <2>1. At("account") => at = 2
    BY AtChecks DEF DoctorInv, DoctorTypes
  <2> QED
    BY <1>1, <2>1 DEF Finds, FoundNone
<1>3. status \in Statuses /\ "account" \in Kinds
  BY <1>1 DEF Statuses, Kinds
<1> QED
  BY <1>1, <1>2, <1>3, LocalMade

LEMMA FilesChecked == DoctorInv /\ (check_adc_credentials \/ check_credential_store) => DoctorInv'
<1>1. ASSUME DoctorInv, check_adc_credentials PROVE DoctorInv'
  <2> DEFINE status == gcloud_check_status(adc # "missing")
  <2>1. Local("adc", status, {})
    BY <1>1 DEF check_adc_credentials
  <2>2. status \in {"skipped", "pass", "fail"} /\ (SignedIn => status # "fail")
    BY <1>1, TroubleStands DEF gcloud_check_status, SignedIn
  <2> HIDE DEF status
  <2>3. At("adc") => Finds(status)
    <3>1. At("adc") => at = 3
      BY <1>1, AtChecks DEF DoctorInv, DoctorTypes
    <3> QED
      BY <3>1 DEF Finds
  <2>4. status \in Statuses /\ "adc" \in Kinds
    BY <2>2 DEF Statuses, Kinds
  <2> QED
    BY <1>1, <2>1, <2>2, <2>3, <2>4, LocalMade
<1>2. ASSUME DoctorInv, check_credential_store PROVE DoctorInv'
  <2> DEFINE status == IF probe_keyring \/ engine = "gcloud" THEN native_check_status ELSE "fail"
  <2>1. Local("store", status, {})
    BY <1>2 DEF check_credential_store
  <2>2. status \in {"skipped", "pass", "fail"} /\ (SignedIn => status # "fail")
    BY <1>2, TroubleStands
    DEF native_check_status, probe_keyring, SignedIn, token_from_native_session
  <2> HIDE DEF status
  <2>3. At("store") => Finds(status)
    <3>1. At("store") => at = 4
      BY <1>2, AtChecks DEF DoctorInv, DoctorTypes
    <3> QED
      BY <3>1 DEF Finds
  <2>4. status \in Statuses /\ "store" \in Kinds
    BY <2>2 DEF Statuses, Kinds
  <2> QED
    BY <1>2, <2>1, <2>2, <2>3, <2>4, LocalMade
<1> QED
  BY <1>1, <1>2

LEMMA IndexChecked == DoctorInv /\ check_account_index => DoctorInv'
<1> DEFINE status == CASE engine = "gcloud" \/ index_health = "unavailable" -> "skipped"
                       [] index_health = "orphaned" -> "warning"
                       [] index_health = "consistent" -> native_check_status
<1> SUFFICES ASSUME DoctorInv, Report("index", status, {}, cached),
                    missed' = (missed \/ (engine = "native" /\ ~keyring))
             PROVE  DoctorInv'
  BY DEF check_account_index
<1>1. /\ status \in {"skipped", "warning", "pass"}
      /\ engine = "native" /\ keyring /\ "orphan" \in troubles => status = "warning"
  BY TroubleStands DEF index_health, native_check_status, probe_keyring
<1> HIDE DEF status
<1>2. missed' \in BOOLEAN /\ (missed => missed') /\ (~missed' /\ engine = "native" => keyring)
  BY TroubleStands
<1>3. ~missed' /\ status \notin {"fail", "warning"} => Finds(status)
  <2>1. at = 5
    BY WellIsHealthy, AtChecks
  <2>2. ~missed' /\ status # "warning" /\ engine = "native" => "orphan" \notin standing
    BY <1>1, <1>2, TroubleStands
  <2> QED
    BY <2>1, <2>2 DEF Finds
<1>4. status \in Statuses /\ "index" \in Kinds
  BY <1>1 DEF Statuses, Kinds
<1> QED
  BY <1>1, <1>2, <1>3, <1>4, CheckMade

LEMMA TokenChecked == DoctorInv /\ (check_native_token \/ check_native_token_fails) => DoctorInv'
<1>1. ASSUME DoctorInv, check_native_token PROVE DoctorInv'
  <2> DEFINE status == CASE engine = "gcloud" -> "skipped"
                         [] session = "none" -> "warning"
                         [] OTHER -> IF keyring /\ refresh_verdict THEN "pass" ELSE "fail"
             offered == IF status \in {"warning", "fail"} THEN {"re_authenticate"} ELSE {}
  <2>1. Local("token", status, offered)
    BY <1>1 DEF check_native_token, Minted
  <2>2. /\ status \in {"skipped", "warning", "pass", "fail"} /\ (SignedIn => status # "fail")
        /\ engine = "native" /\ status \notin {"fail", "warning"} => status = "pass" /\ Serves(engine)
    BY <1>1, TroubleStands DEF refresh_verdict, SignedIn, token_from_native_session, Serves
  <2> HIDE DEF status, offered
  <2>3. At("token") /\ status \notin {"fail", "warning"} => Finds(status)
    <3>1. At("token") => at = 6
      BY <1>1, AtChecks DEF DoctorInv, DoctorTypes
    <3>2. engine = "native" /\ status \notin {"fail", "warning"} => "no_credentials" \notin standing
      BY <1>1, <2>2, TroubleStands
    <3> QED
      BY <2>2, <3>1, <3>2 DEF Finds
  <2>4. status \in Statuses /\ "token" \in Kinds
    BY <2>2 DEF Statuses, Kinds
  <2> QED
    BY <1>1, <2>1, <2>2, <2>3, <2>4, LocalMade
<1>2. ASSUME DoctorInv, check_native_token_fails PROVE DoctorInv'
  <2>1. Report("token", "fail", {"re_authenticate"}, cached) /\ missed' = TRUE
    BY <1>2 DEF check_native_token_fails
  <2>2. "fail" \in Statuses /\ "token" \in Kinds
    BY DEF Statuses, Kinds
  <2> QED
    BY <1>2, <2>1, <2>2, CheckMade
<1> QED
  BY <1>1, <1>2

LEMMA ClientsChecked == DoctorInv /\ check_local_clients => DoctorInv'
<1> DEFINE status == CASE \A kind \in Clients : any_available(kind) -> "pass"
                       [] \A kind \in Clients : ~any_available(kind) -> "fail"
                       [] OTHER -> "warning"
<1> SUFFICES ASSUME DoctorInv, Local("clients", status, {}) PROVE DoctorInv'
  BY DEF check_local_clients
<1>0. /\ (\A kind \in Clients : any_available(kind)) <=> {"no_clients", "some_clients"} \cap troubles = {}
      /\ ~((\A kind \in Clients : any_available(kind)) /\ \A kind \in Clients : ~any_available(kind))
  BY DEF Clients, any_available
<1>1. /\ status \in {"pass", "fail", "warning"}
      /\ status = "pass" <=> {"no_clients", "some_clients"} \cap troubles = {}
  BY <1>0
<1> HIDE DEF status
<1>2. At("clients") /\ status \notin {"fail", "warning"} => Finds(status)
  <2>1. At("clients") => at = 13
    BY AtChecks DEF DoctorInv, DoctorTypes
  <2>2. status = "pass" => "no_clients" \notin standing /\ "some_clients" \notin standing
    BY <1>1, TroubleStands
  <2> QED
    BY <1>1, <2>1, <2>2 DEF Finds
<1>3. status \in Statuses /\ "clients" \in Kinds
  BY <1>1 DEF Statuses, Kinds
<1>4. troubles \subseteq {"iap_off"} => status # "fail"
  BY <1>1
<1> QED
  BY <1>2, <1>3, <1>4, LocalMade

LEMMA ApiChecksAre ==
    /\ ApiChecks = {"project", "compute", "iap", "firewall", "vm", "agent"}
    /\ ApiChecks \subseteq Kinds
<1>1. \A i \in 7..12 : Checks[i] \in {"project", "compute", "iap", "firewall", "vm", "agent"}
  BY DEF Checks
<1>2. \A k \in {"project", "compute", "iap", "firewall", "vm", "agent"} : \E i \in 7..12 : Checks[i] = k
  BY DEF Checks
<1>3. ApiChecks = {"project", "compute", "iap", "firewall", "vm", "agent"}
  BY <1>1, <1>2 DEF ApiChecks
<1> QED
  BY <1>3 DEF Kinds

(* The place of a check that asks Google.                                  *)
LEMMA ApiIsAt ==
    ASSUME NEW k \in ApiChecks, At(k), at \in 1..14
    PROVE  /\ at \in 7..12
           /\ at = 7 => k = "project"
           /\ at = 8 => k = "compute"
           /\ at = 9 => k = "iap"
           /\ at = 10 => k = "firewall"
           /\ at = 11 => k = "vm"
           /\ at = 12 => k = "agent"
<1>1. k \in {"project", "compute", "iap", "firewall", "vm", "agent"}
  BY ApiChecksAre
<1> QED
  BY <1>1, AtChecks

(* An answer that raises nothing rules out what its check asks for.        *)
LEMMA AnswerTells ==
    ASSUME NEW k \in ApiChecks
    PROVE  /\ Answer(k) \in {"pass", "warning", "fail"}
           /\ troubles \subseteq {"iap_off"} => Answer(k) # "fail"
           /\ k = "project" /\ Answer(k) = "pass" =>
                  "denied" \notin troubles /\ "no_project" \notin troubles
           /\ k = "compute" /\ Answer(k) = "pass" => "compute_off" \notin troubles
           /\ k = "iap" /\ Answer(k) = "pass" => "iap_off" \notin troubles
           /\ k = "firewall" /\ Answer(k) = "pass" => "no_rule" \notin troubles
           /\ k = "vm" /\ Answer(k) = "pass" =>
                  "no_vm" \notin troubles /\ "vm_stopped" \notin troubles
                      /\ "vm_starting" \notin troubles
           /\ k = "agent" /\ Answer(k) = "pass" => "no_agent" \notin troubles
<1>1. k \in {"project", "compute", "iap", "firewall", "vm", "agent"}
  BY ApiChecksAre
<1>2. /\ project_accessible \in {"pass", "fail"}
      /\ troubles \subseteq {"iap_off"} => project_accessible # "fail"
      /\ project_accessible = "pass" => "denied" \notin troubles /\ "no_project" \notin troubles
  BY DEF project_accessible, Has
<1>3. /\ api_enabled(TRUE, "compute_off") \in {"pass", "fail"}
      /\ troubles \subseteq {"iap_off"} => api_enabled(TRUE, "compute_off") # "fail"
      /\ api_enabled(TRUE, "compute_off") = "pass" => "compute_off" \notin troubles
  BY DEF api_enabled, Has, severity_when_unhealthy
<1>4. /\ api_enabled(FALSE, "iap_off") \in {"pass", "warning"}
      /\ api_enabled(FALSE, "iap_off") = "pass" => "iap_off" \notin troubles
  BY DEF api_enabled, Has, severity_when_unhealthy
<1>5. /\ iap_firewall \in {"pass", "warning", "fail"}
      /\ troubles \subseteq {"iap_off"} => iap_firewall # "fail"
      /\ iap_firewall = "pass" => "no_rule" \notin troubles
  BY DEF iap_firewall, Has
<1>6. /\ vm_status \in {"pass", "warning", "fail"}
      /\ troubles \subseteq {"iap_off"} => vm_status # "fail"
      /\ vm_status = "pass" => "no_vm" \notin troubles /\ "vm_stopped" \notin troubles
                                   /\ "vm_starting" \notin troubles
  BY DEF vm_status, Has, Barred
<1>7. /\ vm_guest_agent \in {"pass", "warning"}
      /\ vm_guest_agent = "pass" => "no_agent" \notin troubles
  BY DEF vm_guest_agent, detect_guest_agent, Has, Barred
<1>8. /\ k = "project" => Answer(k) = project_accessible
      /\ k = "compute" => Answer(k) = api_enabled(TRUE, "compute_off")
      /\ k = "iap" => Answer(k) = api_enabled(FALSE, "iap_off")
      /\ k = "firewall" => Answer(k) = iap_firewall
      /\ k = "vm" => Answer(k) = vm_status
      /\ k = "agent" => Answer(k) = vm_guest_agent
  BY DEF Answer
<1>9. Answer(k) \in {"pass", "warning", "fail"} /\ (troubles \subseteq {"iap_off"} => Answer(k) # "fail")
  BY <1>1, <1>2, <1>3, <1>4, <1>5, <1>6, <1>7, <1>8
<1> QED
  BY <1>2, <1>3, <1>4, <1>5, <1>6, <1>7, <1>8, <1>9

(* Without a credential that a run has seen, nothing is asked: a run that  *)
(* has found nothing never gets there.                                     *)
LEMMA ApiSkipped ==
    ASSUME DoctorInv, NEW k \in ApiChecks, SkipsApiChecks(k)
    PROVE  DoctorInv'
<1>1. Local(k, "skipped", {}) /\ ~credentials_usable
  BY DEF SkipsApiChecks
<1>2. At(k) => ~FoundNone
  <2>1. At(k) => at \in 7..12
    BY ApiIsAt DEF DoctorInv, DoctorTypes
  <2>2. engine \in {"native", "gcloud"}
    BY TroubleStands
  <2> QED
    BY <1>1, <2>1, <2>2 DEF FoundNone, credentials_usable
<1>3. "skipped" \in Statuses /\ k \in Kinds
  BY ApiChecksAre DEF Statuses
<1>4. (SignedIn /\ troubles \subseteq {"iap_off"} => "skipped" # "fail")
      /\ (At(k) /\ "skipped" \notin {"fail", "warning"} /\ FoundNone => Finds("skipped"))
  BY <1>2
<1> QED
  BY <1>1, <1>3, <1>4, LocalMade

LEMMA ApiAnswered ==
    ASSUME DoctorInv, NEW k \in ApiChecks, Asks(k)
    PROVE  DoctorInv'
<1> DEFINE status == Answer(k)
           offered == IF k = "vm" /\ Stopped THEN {"start_vm"} ELSE {}
<1>1. /\ Report(k, status, offered, engine) /\ missed' = missed
      /\ cached = engine \/ Serves(engine)
  BY DEF Asks
<1>2. /\ status \in {"pass", "warning", "fail"}
      /\ troubles \subseteq {"iap_off"} => status # "fail"
      /\ k = "project" /\ status = "pass" => "denied" \notin troubles /\ "no_project" \notin troubles
      /\ k = "compute" /\ status = "pass" => "compute_off" \notin troubles
      /\ k = "iap" /\ status = "pass" => "iap_off" \notin troubles
      /\ k = "firewall" /\ status = "pass" => "no_rule" \notin troubles
      /\ k = "vm" /\ status = "pass" => "no_vm" \notin troubles /\ "vm_stopped" \notin troubles
                                            /\ "vm_starting" \notin troubles
      /\ k = "agent" /\ status = "pass" => "no_agent" \notin troubles
  BY AnswerTells
<1> HIDE DEF status, offered
<1>3. At(k) /\ at \in 1..14 /\ (well' => SignedIn /\ troubles \subseteq {"iap_off"})
  BY <1>1, WellIsHealthy
<1>4. /\ at \in 7..12
      /\ at = 7 => k = "project"
      /\ at = 8 => k = "compute"
      /\ at = 9 => k = "iap"
      /\ at = 10 => k = "firewall"
      /\ at = 11 => k = "vm"
      /\ at = 12 => k = "agent"
  BY <1>3, ApiIsAt
<1>5. FoundNone => "no_credentials" \notin standing
  BY <1>1, <1>4, TroubleStands DEF FoundNone
<1>6. status \notin {"fail", "warning"} /\ FoundNone => Finds(status)
  <2> SUFFICES ASSUME status = "pass", "no_credentials" \notin standing PROVE Finds(status)
    BY <1>2, <1>5
  <2>1. \A x \in standing : x \in troubles
    BY TroubleStands
  <2> QED
    BY <1>2, <1>4, <2>1 DEF Finds
<1>7. status \in Statuses /\ k \in Kinds
  BY <1>2, ApiChecksAre DEF Statuses
<1>8. missed' \in BOOLEAN /\ (missed => missed') /\ (well' /\ ~missed' => status # "fail")
      /\ (~missed' /\ status \notin {"fail", "warning"} /\ FoundNone => Finds(status))
  BY <1>1, <1>2, <1>3, <1>6, TroubleStands
<1> QED
  BY <1>1, <1>7, <1>8, CheckMade

LEMMA ApiUnanswered ==
    ASSUME DoctorInv, NEW k \in ApiChecks, AskFails(k)
    PROVE  DoctorInv'
<1> DEFINE status == NoAnswer[k]
<1>1. Report(k, status, {}, engine) /\ missed' = TRUE
  BY DEF AskFails
<1>2. status \in Statuses /\ k \in Kinds
  BY ApiChecksAre DEF NoAnswer, Statuses, severity_when_unhealthy
<1> HIDE DEF status
<1>3. missed' \in BOOLEAN /\ (missed => missed') /\ (well' /\ ~missed' => status # "fail")
      /\ (~missed' /\ status \notin {"fail", "warning"} /\ FoundNone => Finds(status))
  BY <1>1
<1> QED
  BY <1>1, <1>2, <1>3, CheckMade

(* No token: a machine in order could have minted one, and the project's   *)
(* row is red.                                                             *)
LEMMA ApiUnserved ==
    ASSUME DoctorInv, NEW k \in ApiChecks, TokenFails(k)
    PROVE  DoctorInv'
<1> DEFINE status == IF k = "project" THEN "fail" ELSE "skipped"
           offered == IF k = "project" THEN token_failure_remedy ELSE {}
<1>1. Report(k, status, offered, cached) /\ missed' = (missed \/ Serves(engine) \/ k # "project")
  BY DEF TokenFails
<1>2. status \in Statuses /\ k \in Kinds /\ (k = "project" => status = "fail")
  BY ApiChecksAre DEF Statuses
<1> HIDE DEF status, offered
<1>3. well' => SignedIn
  BY <1>1, WellIsHealthy
<1>4. SignedIn => Serves(engine)
  BY DEF SignedIn, Serves
<1>5. Serves(engine) \in BOOLEAN
  BY DEF Serves, token_from_native_session, token_from_gcloud_cli, token_from_adc_refresh
<1>6. missed' \in BOOLEAN /\ (missed => missed') /\ (well' /\ ~missed' => status # "fail")
      /\ (~missed' /\ status \notin {"fail", "warning"} /\ FoundNone => Finds(status))
  BY <1>1, <1>2, <1>3, <1>4, <1>5, TroubleStands
<1> QED
  BY <1>1, <1>2, <1>6, CheckMade

(* The world changes, the cached token expires, or the user does something *)
(* about it and a new run begins.                                          *)
LEMMA WorldChanged ==
    ASSUME DoctorInv, NEW e \in Engines, NEW g \in {"absent", "signed_out", "expired", "signed_in"},
           NEW s \in Signed, NEW kr \in BOOLEAN, NEW t \in SUBSET Troubles, Changed(e, g, s, kr, t)
    PROVE  DoctorInv'
<1>1. /\ engine' = e /\ gcloud' = g /\ session' = s /\ keyring' = kr /\ troubles' = t
      /\ UNCHANGED report /\ Follow /\ missed' = (missed \/ e # engine)
  BY DEF Changed
<1>2. DoctorTypes' /\ (missed => missed') /\ (~missed' => UNCHANGED engine)
  BY <1>1 DEF DoctorInv, DoctorTypes, report
<1> QED
  BY <1>1, <1>2, WorldMoves

LEMMA WorldSteps ==
    DoctorInv /\ (ChangeEngine \/ GcloudChanges \/ SessionChanges \/ KeyringChanges \/ CloudChanges)
        => DoctorInv'
<1> SUFFICES ASSUME DoctorInv, ChangeEngine \/ GcloudChanges \/ SessionChanges
                                   \/ KeyringChanges \/ CloudChanges
             PROVE  DoctorInv'
  OBVIOUS
<1>0. /\ engine \in Engines /\ gcloud \in {"absent", "signed_out", "expired", "signed_in"}
      /\ session \in Signed /\ keyring \in BOOLEAN /\ troubles \in SUBSET Troubles
      /\ {"none", "dead", "live"} \subseteq Signed
      /\ {"signed_out", "expired", "signed_in"} \subseteq {"absent", "signed_out", "expired", "signed_in"}
  BY DEF DoctorInv, DoctorTypes, Signed
<1>1. CASE ChangeEngine
  BY <1>0, <1>1, WorldChanged DEF ChangeEngine
<1>2. CASE GcloudChanges
  BY <1>0, <1>2, WorldChanged DEF GcloudChanges
<1>3. CASE SessionChanges
  BY <1>0, <1>3, WorldChanged DEF SessionChanges
<1>4. CASE KeyringChanges
  <2>1. (~keyring) \in BOOLEAN
    OBVIOUS
  <2> QED
    BY <1>0, <1>4, <2>1, WorldChanged DEF KeyringChanges
<1>5. CASE CloudChanges
  <2>1. PICK t \in Troubles : Changed(engine, gcloud, session, keyring,
                                  IF t \in troubles THEN troubles \ {t} ELSE troubles \cup {t})
    BY <1>5 DEF CloudChanges
  <2>2. (IF t \in troubles THEN troubles \ {t} ELSE troubles \cup {t}) \in SUBSET Troubles
    BY <1>0
  <2> QED
    BY <1>0, <2>1, <2>2, WorldChanged
<1> QED
  BY <1>1, <1>2, <1>3, <1>4, <1>5

LEMMA TokenExpires == DoctorInv /\ Expire => DoctorInv'
<1> SUFFICES ASSUME DoctorInv, Expire PROVE DoctorInv'
  OBVIOUS
<1>1. UNCHANGED <<engine, gcloud, session, keyring, troubles, report, missed>> /\ Follow
  BY DEF Expire, world
<1>2. DoctorTypes'
  BY <1>1 DEF DoctorInv, DoctorTypes, report
<1> QED
  BY <1>1, <1>2, WorldMoves

LEMMA NextRun == DoctorInv /\ (RunAgain \/ Reauthenticate \/ StartVm) => DoctorInv'
<1> SUFFICES ASSUME DoctorInv, RunAgain \/ Reauthenticate \/ StartVm PROVE DoctorInv'
  OBVIOUS
<1>1. Fresh /\ UNCHANGED <<engine, gcloud, adc, keyring>>
  BY DEF RunAgain, Reauthenticate, StartVm, world
<1>2. session' \in Signed /\ troubles' \subseteq Troubles
  BY DEF RunAgain, Reauthenticate, StartVm, world, DoctorInv, DoctorTypes, Signed, Troubles
<1> QED
  BY <1>1, <1>2, RunBegins

(***************************************************************************)
(* A report that is neither red nor yellow has missed nothing that was     *)
(* wrong throughout, and a machine that is in order gets no red row.       *)
(***************************************************************************)
THEOREM ReportTellsTheTruth == DoctorSpec => []ReportIsTrue
<1>1. DoctorInit => DoctorInv
  <2> SUFFICES ASSUME DoctorInit PROVE DoctorInv
    OBVIOUS
  <2>1. at = 1 /\ row = [k \in Kinds |-> "none"] /\ missed = FALSE
    BY ChecksAre DEF DoctorInit
  <2>2. DoctorTypes
    <3>1. row \in [Kinds -> Statuses] /\ at \in 1..14
      BY <2>1 DEF Statuses
    <3> QED
      BY <2>1, <3>1 DEF DoctorInit, Worlds, DoctorTypes, Signed
  <2>3. StillSo /\ FoundNone
    BY <2>1 DEF DoctorInit, StillSo, FoundNone
  <2>4. Unreported /\ HealthyIsNotRed
    BY <2>1, ChecksAre DEF Unreported, HealthyIsNotRed, Rows
  <2> QED
    BY <2>2, <2>3, <2>4 DEF DoctorInv
<1>2. DoctorInv /\ [DoctorNext]_doctorVars => DoctorInv'
  <2> SUFFICES ASSUME DoctorInv, [DoctorNext]_doctorVars PROVE DoctorInv'
    OBVIOUS
  <2>1. CASE check_gcloud_installed \/ check_gcloud_account \/ check_adc_credentials
                 \/ check_credential_store \/ check_account_index
    BY <2>1, GcloudChecked, AccountChecked, FilesChecked, IndexChecked
  <2>2. CASE check_native_token \/ check_native_token_fails \/ check_local_clients
    BY <2>2, TokenChecked, ClientsChecked
  <2>3. CASE \E k \in ApiChecks : SkipsApiChecks(k) \/ Asks(k) \/ AskFails(k) \/ TokenFails(k)
    BY <2>3, ApiSkipped, ApiAnswered, ApiUnanswered, ApiUnserved
  <2>4. CASE RunAgain \/ Reauthenticate \/ StartVm
    BY <2>4, NextRun
  <2>5. CASE ChangeEngine \/ GcloudChanges \/ SessionChanges \/ KeyringChanges \/ CloudChanges
    BY <2>5, WorldSteps
  <2>6. CASE Expire
    BY <2>6, TokenExpires
  <2>7. CASE UNCHANGED doctorVars
    <3>1. UNCHANGED <<engine, gcloud, session, keyring, troubles, cached, adc, at, row, standing, well, missed>>
      BY <2>7 DEF doctorVars, world, report
    <3>2. UNCHANGED <<Problems, Healthy>>
      BY <3>1 DEF Problems, Healthy, SignedIn, Serves, token_from_native_session,
                  token_from_gcloud_cli, token_from_adc_refresh, gcloud_path
    <3>3. DoctorTypes' /\ StillSo' /\ Unreported' /\ HealthyIsNotRed' /\ UNCHANGED <<Red, Yellow, FoundNone>>
      BY <3>1, <3>2 DEF DoctorInv, DoctorTypes, StillSo, Unreported, HealthyIsNotRed, Red, Yellow,
                        Rows, FoundNone
    <3> QED
      BY <3>1, <3>3 DEF DoctorInv
  <2> QED
    BY <2>1, <2>2, <2>3, <2>4, <2>5, <2>6, <2>7 DEF DoctorNext, run_all_checks
<1>3. DoctorInv => ReportIsTrue
  <2> SUFFICES ASSUME DoctorInv, Done, ~missed, Rows("fail") \cup Rows("warning") = {}
               PROVE  standing = {}
    BY DEF ReportIsTrue, TroubleIsReported, DoctorInv
  <2>1. FoundNone /\ at = 14
    BY ChecksAre DEF DoctorInv, Red, Yellow, Done
  <2>2. standing \subseteq Troubles \cup {"no_credentials"}
    BY TroubleStands DEF DoctorInv, DoctorTypes
  <2>3. "orphan" \notin standing
    BY <2>1, TroubleStands DEF FoundNone
  <2> QED
    BY <2>1, <2>2, <2>3 DEF FoundNone, Troubles
<1> QED
  BY <1>1, <1>2, <1>3, PTL DEF DoctorSpec

-----------------------------------------------------------------------------
(* The clients launched on a tunnel                                        *)

RungType == [way : Ways, carries : {"file", "address", "display", "plain"}, looked : BOOLEAN]

(* A ladder: a try without a look is of a program that was looked for just  *)
(* before.                                                                 *)
Climbs(ladder) ==
    /\ \E n \in 1..4 : DOMAIN ladder = 1..n
    /\ \A i \in DOMAIN ladder :
          /\ ladder[i] \in RungType
          /\ ladder[i].way = "flatpak" /\ ~ladder[i].looked => i > 1 /\ ladder[i - 1].way = "flatpak"

(* Of a client that gets a file: every flatpak is looked for, and no rung  *)
(* but the first gives the file.                                           *)
LooksFor(ladder) ==
    \A i \in DOMAIN ladder :
        /\ ladder[i].way = "flatpak" => ladder[i].looked
        /\ ladder[i].carries = "file" => i = 1
NeedsNone(ladder) == \A i \in DOMAIN ladder : ladder[i].carries # "file"

(* Remmina's.                                                              *)
Remmina(ladder) ==
    /\ DOMAIN ladder = 1..3 /\ \A i \in 1..3 : ladder[i] \in RungType
    /\ ladder[1].way = "native" /\ ladder[2].way = "flatpak" /\ ladder[3].way = "flatpak"
    /\ ladder[1].carries = "file" /\ ladder[3].carries # "file"
    /\ ~ladder[1].looked /\ ~ladder[2].looked /\ ~ladder[3].looked

LEMMA LenDomain ==
    ASSUME NEW s, NEW n \in Nat, DOMAIN s = 1..n, Len(s) \in Nat
    PROVE  Len(s) = n
OBVIOUS

LEMMA Two   == \A i \in 1..2 : i = 1 \/ i = 2
OBVIOUS
LEMMA Three == \A i \in 1..3 : i = 1 \/ i = 2 \/ i = 3
OBVIOUS
LEMMA Four  == \A i \in 1..4 : i = 1 \/ i = 2 \/ i = 3 \/ i = 4
OBVIOUS

LEMMA RungIs ==
    \A way \in Ways, carries \in {"file", "address", "display", "plain"}, looked \in BOOLEAN :
        /\ Rung(way, carries, looked) \in RungType
        /\ Rung(way, carries, looked).way = way /\ Rung(way, carries, looked).carries = carries
        /\ Rung(way, carries, looked).looked = looked
  BY DEF Rung, RungType

LEMMA FlatpakClimbs ==
    ASSUME NEW carries \in {"file", "address", "display", "plain"}
    PROVE  /\ Climbs(OrFlatpak(carries))
           /\ carries # "file" => LooksFor(OrFlatpak(carries)) /\ NeedsNone(OrFlatpak(carries))
<1>1. /\ DOMAIN OrFlatpak(carries) = 1..2
      /\ OrFlatpak(carries)[1] = Rung("native", carries, TRUE)
      /\ OrFlatpak(carries)[2] = Rung("flatpak", carries, TRUE)
  BY DEF OrFlatpak
<1>2. \A i \in 1..2 : OrFlatpak(carries)[i] \in RungType /\ OrFlatpak(carries)[i].looked
                          /\ OrFlatpak(carries)[i].carries = carries
  <2>1. \A way \in {"native", "flatpak"} :
            /\ Rung(way, carries, TRUE) \in RungType
            /\ Rung(way, carries, TRUE).looked /\ Rung(way, carries, TRUE).carries = carries
    BY DEF Rung, RungType, Ways
  <2> QED
    BY <1>1, <2>1, Two
<1> QED
  BY <1>1, <1>2 DEF Climbs, LooksFor, NeedsNone

LEMMA PlainClimbs == Climbs(OrPlain) /\ NeedsNone(OrPlain)
<1>1. /\ DOMAIN OrPlain = 1..4
      /\ OrPlain[1] = Rung("native", "address", TRUE) /\ OrPlain[2] = Rung("native", "plain", FALSE)
      /\ OrPlain[3] = Rung("flatpak", "address", TRUE) /\ OrPlain[4] = Rung("flatpak", "plain", FALSE)
  BY DEF OrPlain
<1>2. \A i \in 1..4 : OrPlain[i] \in RungType /\ OrPlain[i].carries # "file"
  <2>1. /\ OrPlain[1] \in RungType /\ OrPlain[1].carries # "file"
        /\ OrPlain[2] \in RungType /\ OrPlain[2].carries # "file"
        /\ OrPlain[3] \in RungType /\ OrPlain[3].carries # "file"
        /\ OrPlain[4] \in RungType /\ OrPlain[4].carries # "file"
    BY <1>1 DEF Rung, RungType, Ways
  <2> QED
    BY <2>1, Four
<1>3. \A i \in 1..4 : OrPlain[i].way = "flatpak" /\ ~OrPlain[i].looked =>
          i > 1 /\ OrPlain[i - 1].way = "flatpak"
  BY <1>1, Four DEF Rung, RungType, Ways
<1> QED
  BY <1>1, <1>2, <1>3 DEF Climbs, NeedsNone

LEMMA SingleClimbs ==
    ASSUME NEW way \in Ways \ {"flatpak"}, NEW carries \in {"file", "address", "display", "plain"},
           NEW looked \in BOOLEAN
    PROVE  /\ Climbs(<<Rung(way, carries, looked)>>) /\ LooksFor(<<Rung(way, carries, looked)>>)
           /\ carries # "file" => NeedsNone(<<Rung(way, carries, looked)>>)
  BY DEF Climbs, LooksFor, NeedsNone, Rung, RungType

LEMMA OthersClimb ==
    /\ Climbs(launch_freerdp) /\ NeedsNone(launch_freerdp)
    /\ Climbs(launch_redis_insight) /\ NeedsNone(launch_redis_insight)
<1>1. Climbs(launch_freerdp) /\ NeedsNone(launch_freerdp)
  <2>1. /\ DOMAIN launch_freerdp = 1..2
        /\ launch_freerdp[1] = Rung("native3", "address", TRUE)
        /\ launch_freerdp[2] = Rung("native", "address", TRUE)
    BY DEF launch_freerdp
  <2>2. \A i \in 1..2 : launch_freerdp[i] \in RungType /\ launch_freerdp[i].looked
                            /\ launch_freerdp[i].carries # "file"
    <3>1. /\ launch_freerdp[1] \in RungType /\ launch_freerdp[1].looked /\ launch_freerdp[1].carries # "file"
          /\ launch_freerdp[2] \in RungType /\ launch_freerdp[2].looked /\ launch_freerdp[2].carries # "file"
      BY <2>1 DEF Rung, RungType, Ways
    <3> QED
      BY <3>1, Two
  <2> QED
    BY <2>1, <2>2 DEF Climbs, NeedsNone
<1>2. Climbs(launch_redis_insight) /\ NeedsNone(launch_redis_insight)
  <2>1. /\ DOMAIN launch_redis_insight = 1..3
        /\ launch_redis_insight[1] = Rung("native", "plain", TRUE)
        /\ launch_redis_insight[2] = Rung("alt", "plain", TRUE)
        /\ launch_redis_insight[3] = Rung("flatpak", "plain", TRUE)
    BY DEF launch_redis_insight
  <2>2. \A i \in 1..3 : launch_redis_insight[i] \in RungType /\ launch_redis_insight[i].looked
                            /\ launch_redis_insight[i].carries # "file"
    <3>1. /\ launch_redis_insight[1] \in RungType /\ launch_redis_insight[1].looked /\ launch_redis_insight[1].carries # "file"
          /\ launch_redis_insight[2] \in RungType /\ launch_redis_insight[2].looked /\ launch_redis_insight[2].carries # "file"
          /\ launch_redis_insight[3] \in RungType /\ launch_redis_insight[3].looked /\ launch_redis_insight[3].carries # "file"
      BY <2>1 DEF Rung, RungType, Ways
    <3> QED
      BY <3>1, Three
  <2> QED
    BY <2>1, <2>2 DEF Climbs, NeedsNone
<1> QED
  BY <1>1, <1>2

LEMMA RemminaClimbs == Remmina(launch_remmina_rdp) /\ Remmina(launch_remmina_vnc)
  BY DEF Remmina, Rung, RungType, launch_remmina_rdp, launch_remmina_vnc, Ways

(* The ladders of all clients.                                             *)
LEMMA LaddersAre ==
    ASSUME NEW family \in Families, NEW c \in ClientsFor(family)
    PROVE  /\ c = "remmina" => Remmina(Ladder(family, c))
           /\ c # "remmina" => Climbs(Ladder(family, c))
           /\ WritesFile(c) /\ c # "remmina" => LooksFor(Ladder(family, c))
           /\ ~WritesFile(c) => NeedsNone(Ladder(family, c))
<1>1. /\ Climbs(launch_krdc_rdp) /\ NeedsNone(launch_krdc_rdp)
      /\ Climbs(launch_gnome_connections) /\ NeedsNone(launch_gnome_connections)
      /\ Climbs(launch_krdc_vnc) /\ NeedsNone(launch_krdc_vnc)
      /\ Climbs(launch_vinagre) /\ NeedsNone(launch_vinagre)
      /\ Climbs(launch_dbeaver) /\ NeedsNone(launch_dbeaver)
      /\ Climbs(launch_mysql_workbench) /\ NeedsNone(launch_mysql_workbench)
      /\ Climbs(launch_pgadmin) /\ LooksFor(launch_pgadmin)
  BY FlatpakClimbs DEF launch_krdc_rdp, launch_gnome_connections, launch_krdc_vnc, launch_vinagre,
                       launch_dbeaver, launch_mysql_workbench, launch_pgadmin
<1>2. /\ Climbs(launch_windows_app) /\ LooksFor(launch_windows_app)
      /\ Climbs(launch_tigervnc) /\ NeedsNone(launch_tigervnc)
      /\ Climbs(launch_screen_sharing) /\ NeedsNone(launch_screen_sharing)
  BY SingleClimbs DEF launch_windows_app, launch_tigervnc, launch_screen_sharing, Ways
<1>3. /\ Climbs(launch_azure_data_studio) /\ NeedsNone(launch_azure_data_studio)
      /\ Climbs(launch_mongodb_compass) /\ NeedsNone(launch_mongodb_compass)
  BY PlainClimbs DEF launch_azure_data_studio, launch_mongodb_compass
<1>4. CASE family = "rdp"
  <2>1. c \in RdpClientType
    BY <1>4 DEF ClientsFor
  <2>2. /\ c = "remmina" => Ladder(family, c) = launch_remmina_rdp
        /\ c = "freerdp" => Ladder(family, c) = launch_freerdp
        /\ c = "krdc" => Ladder(family, c) = launch_krdc_rdp
        /\ c = "gnomeconnections" => Ladder(family, c) = launch_gnome_connections
        /\ c = "windowsapp" => Ladder(family, c) = launch_windows_app
    BY <1>4 DEF Ladder
  <2> QED
    BY <1>1, <1>2, <2>1, <2>2, RemminaClimbs, OthersClimb DEF RdpClientType, WritesFile
<1>5. CASE family = "vnc"
  <2>1. c \in VncClientType
    BY <1>5 DEF ClientsFor
  <2>2. /\ c = "remmina" => Ladder(family, c) = launch_remmina_vnc
        /\ c = "krdc" => Ladder(family, c) = launch_krdc_vnc
        /\ c = "tigervnc" => Ladder(family, c) = launch_tigervnc
        /\ c = "vinagre" => Ladder(family, c) = launch_vinagre
        /\ c = "screensharing" => Ladder(family, c) = launch_screen_sharing
    BY <1>5 DEF Ladder
  <2> QED
    BY <1>1, <1>2, <2>1, <2>2, RemminaClimbs DEF VncClientType, WritesFile
<1>6. CASE family = "db"
  <2>1. c \in DbClientType
    BY <1>6 DEF ClientsFor
  <2>2. /\ c = "dbeaver" => Ladder(family, c) = launch_dbeaver
        /\ c = "workbench" => Ladder(family, c) = launch_mysql_workbench
        /\ c = "pgadmin" => Ladder(family, c) = launch_pgadmin
        /\ c = "azuredatastudio" => Ladder(family, c) = launch_azure_data_studio
        /\ c = "compass" => Ladder(family, c) = launch_mongodb_compass
        /\ c = "redisinsight" => Ladder(family, c) = launch_redis_insight
    BY DEF Ladder
  <2> QED
    BY <1>1, <1>3, <2>1, <2>2, OthersClimb DEF DbClientType, WritesFile
<1> QED
  BY <1>4, <1>5, <1>6 DEF Families

(* The orders name clients of the family.                                  *)
LEMMA OrdersAre ==
    ASSUME NEW a, a.family \in Families, a.family = "db" => a.kind \in DatabaseType,
           NEW i \in Nat, i > 0, i <= Len(fallback_order(a))
    PROVE  fallback_order(a)[i] \in ClientsFor(a.family)
<1>2. CASE a.family = "rdp"
  BY <1>2 DEF fallback_order, fallback_order_rdp, ClientsFor, RdpClientType
<1>3. CASE a.family = "vnc"
  BY <1>3 DEF fallback_order, fallback_order_vnc, ClientsFor, VncClientType
<1>4. CASE a.family = "db"
  <2>1. fallback_order(a) = fallback_order_for(a.kind) /\ ClientsFor(a.family) = DbClientType
    BY <1>4 DEF fallback_order, ClientsFor
  <2>2. a.kind \in {"mysql", "postgresql", "sqlserver", "redis", "mongodb"}
    BY <1>4 DEF DatabaseType
  <2>3. /\ a.kind = "mysql" => fallback_order_for(a.kind) = <<"dbeaver", "workbench">>
        /\ a.kind = "postgresql" => fallback_order_for(a.kind) = <<"dbeaver", "pgadmin", "azuredatastudio">>
        /\ a.kind = "sqlserver" => fallback_order_for(a.kind) = <<"azuredatastudio", "dbeaver">>
        /\ a.kind = "redis" => fallback_order_for(a.kind) = <<"redisinsight">>
        /\ a.kind = "mongodb" => fallback_order_for(a.kind) = <<"compass">>
    BY DEF fallback_order_for
  <2> QED
    BY <2>1, <2>2, <2>3 DEF DbClientType
<1> QED
  BY <1>2, <1>3, <1>4 DEF Families

LEMMA OrderLengths ==
    ASSUME NEW a, a.family \in Families, a.family = "db" => a.kind \in DatabaseType
    PROVE  /\ \E n \in 1..4 : DOMAIN fallback_order(a) = 1..n
           /\ Len(fallback_order(a)) \in Nat
<1>2. CASE a.family = "rdp"
  BY <1>2 DEF fallback_order, fallback_order_rdp
<1>3. CASE a.family = "vnc"
  BY <1>3 DEF fallback_order, fallback_order_vnc
<1>4. CASE a.family = "db"
  <2>1. fallback_order(a) = fallback_order_for(a.kind)
    BY <1>4 DEF fallback_order
  <2>2. a.kind \in {"mysql", "postgresql", "sqlserver", "redis", "mongodb"}
    BY <1>4 DEF DatabaseType
  <2>3. /\ a.kind = "mysql" => fallback_order_for(a.kind) = <<"dbeaver", "workbench">>
        /\ a.kind = "postgresql" => fallback_order_for(a.kind) = <<"dbeaver", "pgadmin", "azuredatastudio">>
        /\ a.kind = "sqlserver" => fallback_order_for(a.kind) = <<"azuredatastudio", "dbeaver">>
        /\ a.kind = "redis" => fallback_order_for(a.kind) = <<"redisinsight">>
        /\ a.kind = "mongodb" => fallback_order_for(a.kind) = <<"compass">>
    BY DEF fallback_order_for
  <2> QED
    BY <2>1, <2>2, <2>3
<1> QED
  BY <1>2, <1>3, <1>4 DEF Families

LEMMA LeastIs ==
    ASSUME NEW S \in SUBSET (1..4), S # {}
    PROVE  least(S) \in S /\ \A j \in S : least(S) <= j
<1>1. \E i \in S : \A j \in S : i <= j
  <2>1. CASE 1 \in S
    BY <2>1
  <2>2. CASE 1 \notin S /\ 2 \in S
    BY <2>2
  <2>3. CASE 1 \notin S /\ 2 \notin S /\ 3 \in S
    BY <2>3
  <2>4. CASE 1 \notin S /\ 2 \notin S /\ 3 \notin S
    <3>1. \A j \in S : j = 4
      BY <2>4, Four
    <3>2. PICK i \in S : i = 4
      BY <3>1
    <3> QED
      BY <3>1, <3>2
  <2> QED
    BY <2>1, <2>2, <2>3, <2>4
<1> QED
  BY <1>1 DEF least

Trying(l)   == launch[l].pc \in {"config", "fill", "rung", "spawn"}
Climbing(l) == launch[l].pc \in {"rung", "spawn"}

(* A launch stands where its record says.                                  *)
Placed(l) ==
    LET r == launch[l] IN
    /\ r.pc # "idle" => r.name \in Names
    /\ r.pc = "default" => r.ask.family = "db"
    /\ r.pc # "idle" /\ r.ask.family = "db" => r.ask.kind # "none"
    /\ r.pc \notin {"idle", "default", "gone"} => r.ask.preferred \in ClientsFor(r.ask.family)
    /\ Trying(l) => r.client \in ClientsFor(r.ask.family)
    /\ r.pc \in {"config", "fill"} => WritesFile(r.client) /\ r.rung = 1 /\ ~r.written
    /\ Climbing(l) => r.rung \in DOMAIN RungsOf(r) /\ (AtRung(r).carries = "file" => r.written)

OneEach(l) ==
    /\ launch[l].pc = "launched" => Len(child[l]) = 1
    /\ launch[l].pc # "launched" => child[l] = <<>>

(* While nobody changes what is installed: a flatpak that is tried without *)
(* a look is there, for it was looked for. Remmina's is there where the    *)
(* native one is not.                                                      *)
Sure(l) ==
    LET r == launch[l] IN
    /\ r.client # "remmina" =>
          /\ r.pc = "rung" /\ AtRung(r).way = "flatpak" /\ ~AtRung(r).looked =>
                <<r.client, "flatpak">> \in installed
          /\ r.pc = "spawn" /\ AtRung(r).way = "flatpak" => <<r.client, "flatpak">> \in installed
    /\ r.client = "remmina" /\ faults = 0 =>
          /\ Trying(l) => <<"remmina", "native">> \in installed \/ <<"remmina", "flatpak">> \in installed
          /\ Climbing(l) /\ r.rung # 1 => <<"remmina", "native">> \notin installed

OpenedOwn(l) ==
    \A i \in DOMAIN child[l] : child[l][i].opens \/ (child[l][i].client = "remmina" /\ faults > 0)

(* A connection file that only this launch writes is whole and its own,    *)
(* from when it is written until the client has opened it.                 *)
Shared(l) == \E m \in Launches \ {l} : PathOf(m) = PathOf(l)
Ours(l)   == file[PathOf(l)] = [of |-> l, whole |-> TRUE, old |-> FALSE]
Filed(l)  == Climbing(l) /\ launch[l].written => Ours(l)
Lent(l)   ==
    \A i \in DOMAIN child[l] :
        child[l][i].carries = "file" /\ child[l][i].state = "started" => Ours(l)

Dialled(l) ==
    \A i \in DOMAIN child[l] :
        LET c == child[l][i] IN
        (/\ c.opens /\ c.state = "open" /\ c.carries # "plain"
         /\ ~BeyondDisplays(l, c) /\ ~SharesFile(l, c))
            => c.dialled = launch[l].port

LaunchesInv ==
    /\ LaunchTypeOK
    /\ \A l \in Launches :
          /\ Placed(l) /\ OneEach(l) /\ Dialled(l)
          /\ changes = 0 => Sure(l) /\ OpenedOwn(l)
          /\ ~Shared(l) => Filed(l) /\ Lent(l)

LEMMA LaunchIs ==
    ASSUME LaunchesInv, NEW l \in Launches
    PROVE  /\ launch[l] \in Requested /\ child[l] \in Seq(Process) /\ Len(child[l]) \in Nat
           /\ Placed(l) /\ OneEach(l) /\ Dialled(l)
           /\ changes = 0 => Sure(l) /\ OpenedOwn(l)
           /\ ~Shared(l) => Filed(l) /\ Lent(l)
           /\ launch[l].pc # "launched" => DOMAIN child[l] = {} /\ child[l] = <<>>
<1>1. launch[l] \in Requested /\ child[l] \in Seq(Process)
  BY DEF LaunchesInv, LaunchTypeOK
<1>2. launch[l].pc # "launched" => child[l] = <<>>
  BY DEF LaunchesInv, OneEach
<1>3. DOMAIN <<>> = {}
  OBVIOUS
<1> QED
  BY <1>1, <1>2, <1>3, LenProperties DEF LaunchesInv

(* The others are where they were: what they promise of themselves stands. *)
LEMMA OthersKeep ==
    ASSUME LaunchesInv, NEW l \in Launches, NEW m \in Launches \ {l},
           launch'[m] = launch[m], child'[m] = child[m], \A n \in Launches : PathOf(n)' = PathOf(n),
           \A p \in Paths : p # PathOf(l) => file'[p] = file[p],
           UNCHANGED <<platform, installed, changes>>, faults \in Nat, faults' \in Nat, faults' >= faults
    PROVE  /\ Placed(m)' /\ OneEach(m)' /\ Dialled(m)'
           /\ changes' = 0 => Sure(m)' /\ OpenedOwn(m)'
           /\ ~Shared(m)' => Filed(m)' /\ Lent(m)'
<1>1. /\ Placed(m) /\ OneEach(m) /\ Dialled(m)
      /\ changes = 0 => Sure(m) /\ OpenedOwn(m)
      /\ ~Shared(m) => Filed(m) /\ Lent(m)
      /\ launch[m].pc # "launched" => DOMAIN child[m] = {}
  BY LaunchIs
<1>2. Placed(m)' /\ OneEach(m)' /\ (Trying(m)' <=> Trying(m)) /\ (Climbing(m)' <=> Climbing(m))
  BY <1>1 DEF Placed, OneEach, Trying, Climbing
<1>3. \A c : /\ SharesFile(m, c)' <=> c.carries = "file" /\ Shared(m)
             /\ SharesFile(m, c) <=> c.carries = "file" /\ Shared(m)
             /\ BeyondDisplays(m, c)' <=> BeyondDisplays(m, c)
  BY DEF SharesFile, Shared, PathOf, BeyondDisplays
<1>4. Dialled(m)'
  BY <1>1, <1>3 DEF Dialled
<1>5. changes' = 0 => Sure(m)' /\ OpenedOwn(m)'
  <2>1. faults' = 0 => faults = 0
    OBVIOUS
  <2>2. faults > 0 => faults' > 0
    OBVIOUS
  <2>3. Sure(m) => Sure(m)'
    BY <1>2, <2>1 DEF Sure
  <2>4. OpenedOwn(m) => OpenedOwn(m)'
    BY <2>2 DEF OpenedOwn
  <2> QED
    BY <1>1, <2>3, <2>4
<1>6. ~Shared(m)' => Filed(m)' /\ Lent(m)'
  <2> SUFFICES ASSUME ~Shared(m)' PROVE Filed(m)' /\ Lent(m)'
    OBVIOUS
  <2>1. ~Shared(m) /\ PathOf(m) # PathOf(l)
    BY DEF Shared
  <2>2. launch[m].pc # "idle" => PathOf(m) \in Paths
    <3>1. launch[m].ask.family \in Families
      BY LaunchIs DEF Requested
    <3> QED
      BY <1>1, <3>1 DEF Placed, PathOf, Paths
  <2>3. launch[m].pc # "idle" => Ours(m)' = Ours(m)
    BY <2>1, <2>2 DEF Ours
  <2>4. Filed(m) /\ Lent(m)
    BY <1>1, <2>1
  <2>5. Filed(m)'
    BY <1>2, <2>3, <2>4 DEF Filed, Climbing
  <2>6. Lent(m)'
    <3>1. CASE launch[m].pc = "launched"
      BY <2>3, <2>4, <3>1 DEF Lent
    <3>2. CASE launch[m].pc # "launched"
      BY <1>1, <3>2 DEF Lent
    <3> QED
      BY <3>1, <3>2
  <2> QED
    BY <2>5, <2>6
<1> QED
  BY <1>2, <1>4, <1>5, <1>6

(* A step of one launch, and what it owes.                                 *)
LEMMA OneMoves ==
    ASSUME LaunchesInv, LaunchTypeOK', NEW l \in Launches,
           \A m \in Launches \ {l} : launch'[m] = launch[m] /\ child'[m] = child[m],
           PathOf(l)' = PathOf(l),
           \A p \in Paths : p # PathOf(l) => file'[p] = file[p],
           UNCHANGED <<platform, installed, changes>>, faults' >= faults,
           Placed(l)', OneEach(l)', Dialled(l)',
           changes = 0 => Sure(l)' /\ OpenedOwn(l)',
           ~Shared(l)' => Filed(l)' /\ Lent(l)'
    PROVE  LaunchesInv'
<1>1. faults \in Nat /\ faults' \in Nat
  BY DEF LaunchesInv, LaunchTypeOK
<1>2. \A n \in Launches : PathOf(n)' = PathOf(n)
  BY DEF PathOf
<1>3. \A m \in Launches \ {l} :
          /\ Placed(m)' /\ OneEach(m)' /\ Dialled(m)'
          /\ changes' = 0 => Sure(m)' /\ OpenedOwn(m)'
          /\ ~Shared(m)' => Filed(m)' /\ Lent(m)'
  BY <1>1, <1>2, OthersKeep
<1> QED
  BY <1>3 DEF LaunchesInv

(* One that opens nothing.                                                 *)
LEMMA QuietStep ==
    ASSUME LaunchesInv, NEW l \in Launches, NEW r \in Requested,
           launch' = [launch EXCEPT ![l] = r], UNCHANGED <<platform, installed, child>>,
           launch[l].pc # "launched", r.pc # "launched",
           r.name = launch[l].name, r.ask.family = launch[l].ask.family,
           file' \in [Paths -> [of : 0..MaxLaunches, whole : BOOLEAN, old : BOOLEAN]],
           \A p \in Paths : p # PathOf(l) => file'[p] = file[p],
           UNCHANGED spent \/ Fault,
           Placed(l)', changes = 0 => Sure(l)', ~Shared(l) => Filed(l)'
    PROVE  LaunchesInv'
<1>1. /\ launch'[l] = r /\ launch' \in [Launches -> Requested]
      /\ \A m \in Launches \ {l} : launch'[m] = launch[m]
  BY DEF LaunchesInv, LaunchTypeOK
<1>2. DOMAIN child[l] = {} /\ child[l] = <<>>
  BY LaunchIs
<1>3. /\ faults' \in Nat /\ changes' = changes /\ restarts' = restarts /\ faults' >= faults
      /\ faults' + changes' + restarts' <= MaxMishaps
  <2>1. /\ faults \in Nat /\ changes \in Nat /\ restarts \in Nat /\ MaxMishaps \in Nat
        /\ faults + changes + restarts <= MaxMishaps
    BY LaunchersAssumption DEF LaunchesInv, LaunchTypeOK
  <2>2. CASE UNCHANGED spent
    BY <2>1, <2>2 DEF spent
  <2>3. CASE Fault
    BY <2>1, <2>3 DEF Fault, Mishap
  <2> QED
    BY <2>2, <2>3
<1>4. LaunchTypeOK'
  BY <1>1, <1>3 DEF LaunchesInv, LaunchTypeOK
<1>5. PathOf(l)' = PathOf(l) /\ \A m \in Launches : PathOf(m)' = PathOf(m)
  BY <1>1 DEF PathOf
<1>6. Shared(l)' <=> Shared(l)
  BY <1>5 DEF Shared
<1>7. OneEach(l)' /\ Dialled(l)' /\ OpenedOwn(l)' /\ Lent(l)'
  BY <1>1, <1>2 DEF OneEach, Dialled, OpenedOwn, Lent
<1> QED
  BY <1>1, <1>3, <1>4, <1>5, <1>6, <1>7, OneMoves

(* The ladder that is being climbed.                                       *)
LEMMA RungsAre ==
    ASSUME LaunchesInv, NEW l \in Launches, Trying(l)
    PROVE  /\ launch[l] \in Requested /\ launch[l].client \in ClientsFor(launch[l].ask.family)
           /\ \E n \in 1..4 : DOMAIN RungsOf(launch[l]) = 1..n
           /\ \A i \in DOMAIN RungsOf(launch[l]) : RungsOf(launch[l])[i] \in RungType
           /\ launch[l].client = "remmina" => Remmina(RungsOf(launch[l]))
           /\ launch[l].client # "remmina" => Climbs(RungsOf(launch[l]))
           /\ WritesFile(launch[l].client) /\ launch[l].client # "remmina" => LooksFor(RungsOf(launch[l]))
           /\ ~WritesFile(launch[l].client) => NeedsNone(RungsOf(launch[l]))
<1>1. launch[l] \in Requested /\ Placed(l)
  BY LaunchIs
<1>2. launch[l].ask.family \in Families /\ launch[l].client \in ClientsFor(launch[l].ask.family)
  BY <1>1 DEF Requested, Placed
<1>3. /\ launch[l].client = "remmina" => Remmina(RungsOf(launch[l]))
      /\ launch[l].client # "remmina" => Climbs(RungsOf(launch[l]))
      /\ WritesFile(launch[l].client) /\ launch[l].client # "remmina" => LooksFor(RungsOf(launch[l]))
      /\ ~WritesFile(launch[l].client) => NeedsNone(RungsOf(launch[l]))
  BY <1>2, LaddersAre DEF RungsOf
<1>4. /\ \E n \in 1..4 : DOMAIN RungsOf(launch[l]) = 1..n
      /\ \A i \in DOMAIN RungsOf(launch[l]) : RungsOf(launch[l])[i] \in RungType
  BY <1>3 DEF Remmina, Climbs
<1> QED
  BY <1>1, <1>2, <1>3, <1>4

(* On to the least of the rungs that are left, or to the next client.      *)
LEMMA Onto ==
    ASSUME LaunchesInv, NEW l \in Launches, Trying(l), NEW left \in SUBSET DOMAIN RungsOf(launch[l])
    PROVE  LET r == ToRung(launch[l], left) IN
           /\ r \in Requested /\ r.name = launch[l].name /\ r.ask = launch[l].ask
           /\ r.client = launch[l].client
           /\ \/ r.pc = "consider"
              \/ /\ r.pc = "rung" /\ r.written = launch[l].written
                 /\ r.rung \in left /\ \A j \in left : r.rung <= j
<1> DEFINE r == ToRung(launch[l], left)
<1>1. launch[l] \in Requested /\ left \in SUBSET (1..4)
  <2>1. PICK n \in 1..4 : DOMAIN RungsOf(launch[l]) = 1..n
    BY RungsAre
  <2> QED
    BY <2>1, RungsAre
<1>2. CASE left = {}
  <2>1. r = [launch[l] EXCEPT !.pc = "consider", !.written = FALSE]
    BY <1>2 DEF ToRung, GaveUp
  <2> QED
    BY <1>1, <2>1 DEF Requested
<1>3. CASE left # {}
  <2>1. r = [launch[l] EXCEPT !.pc = "rung", !.rung = least(left)]
    BY <1>3 DEF ToRung
  <2>2. least(left) \in left /\ \A j \in left : least(left) <= j
    <3>1. left \in SUBSET (1..4)
      BY <1>1
    <3> QED
      BY ONLY <1>3, <3>1, LeastIs
  <2>3. least(left) \in Nat
    <3>1. \A i \in left : i \in 1..4
      BY <1>1
    <3>2. \A i \in 1..4 : i \in Nat
      OBVIOUS
    <3> QED
      BY ONLY <2>2, <3>1, <3>2
  <2> HIDE DEF r
  <2>4. r \in Requested
    BY <1>1, <2>1, <2>3 DEF Requested
  <2>5. /\ r.name = launch[l].name /\ r.ask = launch[l].ask /\ r.client = launch[l].client
        /\ r.pc = "rung" /\ r.written = launch[l].written /\ r.rung = least(left)
    BY <1>1, <2>1 DEF Requested
  <2> QED
    BY <2>2, <2>4, <2>5 DEF r
<1> QED
  BY <1>2, <1>3

LEMMA StepOnto ==
    ASSUME LaunchesInv, NEW l \in Launches, Trying(l), NEW left \in SUBSET DOMAIN RungsOf(launch[l]),
           launch' = [launch EXCEPT ![l] = ToRung(launch[l], left)],
           UNCHANGED <<platform, installed, child>>,
           file' \in [Paths -> [of : 0..MaxLaunches, whole : BOOLEAN, old : BOOLEAN]],
           \A p \in Paths : p # PathOf(l) => file'[p] = file[p],
           UNCHANGED spent \/ Fault,
           launch[l].written => file' = file /\ Climbing(l),
           \A i \in left : (\A j \in left : i <= j) =>
               LET g == RungsOf(launch[l])[i] IN
               /\ g.carries = "file" => launch[l].written
               /\ changes = 0 =>
                     IF launch[l].client = "remmina"
                     THEN faults' = 0 /\ i # 1 => <<"remmina", "native">> \notin installed
                     ELSE g.way = "flatpak" /\ ~g.looked => <<launch[l].client, "flatpak">> \in installed
    PROVE  LaunchesInv'
<1> DEFINE r == ToRung(launch[l], left)
<1>1. /\ r \in Requested /\ r.name = launch[l].name /\ r.ask = launch[l].ask
      /\ r.client = launch[l].client
      /\ \/ r.pc = "consider"
         \/ /\ r.pc = "rung" /\ r.written = launch[l].written
            /\ r.rung \in left /\ \A j \in left : r.rung <= j
  BY Onto
<1>2. launch' = [launch EXCEPT ![l] = r]
  OBVIOUS
<1> HIDE DEF r
<1>3. /\ launch[l].pc \in {"config", "fill", "rung", "spawn"} /\ Placed(l) /\ (changes = 0 => Sure(l))
      /\ ~Shared(l) => Filed(l)
  BY LaunchIs DEF Trying
<1>4. launch'[l] = r
  BY <1>2 DEF LaunchesInv, LaunchTypeOK
<1>5. RungsOf(r) = RungsOf(launch[l])
  BY <1>1 DEF RungsOf
<1>6. r.pc = "rung" => /\ r.rung \in DOMAIN RungsOf(r) /\ AtRung(r) = RungsOf(launch[l])[r.rung]
                       /\ AtRung(r).carries = "file" => r.written
  BY <1>1, <1>5 DEF AtRung
<1>7. Placed(l)'
  BY <1>1, <1>3, <1>4, <1>6 DEF Placed, Trying, Climbing
<1>8. faults' = 0 => faults = 0
  <2>1. faults \in Nat
    BY DEF LaunchesInv, LaunchTypeOK
  <2> QED
    BY <2>1 DEF spent, Fault
<1>9. changes = 0 => Sure(l)'
  <2> SUFFICES ASSUME changes = 0 PROVE Sure(l)'
    OBVIOUS
  <2>1. r.client # "remmina" /\ r.pc = "rung" /\ AtRung(r).way = "flatpak" /\ ~AtRung(r).looked =>
            <<r.client, "flatpak">> \in installed
    BY <1>1, <1>6
  <2>2. r.client = "remmina" /\ faults' = 0 =>
            <<"remmina", "native">> \in installed \/ <<"remmina", "flatpak">> \in installed
    BY <1>1, <1>3, <1>8 DEF Sure
  <2>3. r.client = "remmina" /\ faults' = 0 /\ r.pc = "rung" /\ r.rung # 1 =>
            <<"remmina", "native">> \notin installed
    BY <1>1
  <2> QED
    BY <1>1, <1>4, <2>1, <2>2, <2>3 DEF Sure, Climbing, Trying
<1>10. ~Shared(l) => Filed(l)'
  <2> SUFFICES ASSUME ~Shared(l), r.pc = "rung", r.written PROVE Ours(l)'
    BY <1>1, <1>4 DEF Filed, Climbing
  <2>1. Ours(l) /\ file' = file
    BY <1>1, <1>3 DEF Filed
  <2>2. PathOf(l)' = PathOf(l)
    BY <1>1, <1>4 DEF PathOf
  <2> QED
    BY <2>1, <2>2 DEF Ours
<1> QED
  BY <1>1, <1>2, <1>3, <1>7, <1>9, <1>10, QuietStep

LEMMA DefaultChosen == \A l \in Launches : LaunchesInv /\ ChooseDefault(l) => LaunchesInv'
<1> SUFFICES ASSUME NEW l \in Launches, LaunchesInv, ChooseDefault(l) PROVE LaunchesInv'
  OBVIOUS
<1> DEFINE a == launch[l].ask
           order == fallback_order_for(a.kind)
           there == {i \in DOMAIN order : is_available(order[i])}
           p == IF there = {} THEN "dbeaver" ELSE order[least(there)]
           b == [a EXCEPT !.preferred = p]
           r == [launch[l] EXCEPT !.pc = "consider", !.ask = b]
<1>1. launch[l] \in Requested /\ Placed(l) /\ launch[l].pc = "default"
  BY LaunchIs DEF ChooseDefault
<1>2. launch' = [launch EXCEPT ![l].pc = "consider", ![l].ask.preferred = p]
  BY DEF ChooseDefault
<1>3. UNCHANGED <<platform, installed, child, file, spent>>
  BY DEF ChooseDefault
<1>4. /\ a \in [family : Families, kind : DatabaseType \union {"none"}, preferred : ClientsOf \union {Nobody}]
      /\ a.family = "db" /\ a.kind \in DatabaseType /\ launch[l].name \in Names
  <2>1. a \in [family : Families, kind : DatabaseType \union {"none"}, preferred : ClientsOf \union {Nobody}]
    BY <1>1 DEF Requested
  <2>2. a.family = "db" /\ a.kind # "none" /\ launch[l].name \in Names
    BY <1>1 DEF Placed
  <2> QED
    BY <2>1, <2>2
<1>5. order = fallback_order(a) /\ "db" \in Families /\ "dbeaver" \in ClientsFor("db")
      /\ (\A c \in ClientsFor("db") : c \in ClientsOf)
  BY <1>4 DEF fallback_order, Families, ClientsFor, DbClientType, ClientsOf
<1> HIDE DEF order
<1>6. p \in ClientsFor("db")
  <2>1. CASE there = {}
    BY <1>5, <2>1
  <2>2. CASE there # {}
    <3>1. PICK n \in 1..4 : DOMAIN fallback_order(a) = 1..n
      BY <1>4, OrderLengths
    <3>2. there \in SUBSET (1..4) /\ \A i \in there : i \in 1..n /\ i \in Nat /\ i > 0
      BY <1>5, <3>1
    <3> HIDE DEF there
    <3>3. least(there) \in there
      BY <2>2, <3>2, LeastIs
    <3>4. least(there) \in 1..n /\ least(there) \in Nat /\ least(there) > 0 /\ p = order[least(there)]
      BY <2>2, <3>2, <3>3
    <3>5. Len(fallback_order(a)) = n
      BY <1>4, <3>1, OrderLengths, LenDomain
    <3> QED
      BY <1>4, <1>5, <3>4, <3>5, OrdersAre
  <2> QED
    BY <2>1, <2>2
<1> HIDE DEF p, a
<1>7. /\ b \in [family : Families, kind : DatabaseType \union {"none"}, preferred : ClientsOf \union {Nobody}]
      /\ b.family = "db" /\ b.kind = a.kind /\ b.preferred = p
  BY <1>4, <1>5, <1>6
<1> HIDE DEF b
<1>8. /\ r \in Requested /\ r.name = launch[l].name /\ r.ask = b /\ r.pc = "consider"
  BY <1>1, <1>7 DEF Requested
<1>9. launch' = [launch EXCEPT ![l] = r]
  BY <1>2 DEF a, b, LaunchesInv, LaunchTypeOK
<1> HIDE DEF r
<1>10. launch'[l] = r
  BY <1>9 DEF LaunchesInv, LaunchTypeOK
<1>11. Placed(l)' /\ Sure(l)' /\ Filed(l)'
  BY <1>4, <1>6, <1>7, <1>8, <1>10 DEF Placed, Sure, Filed, Trying, Climbing, DatabaseType
<1>12. file \in [Paths -> [of : 0..MaxLaunches, whole : BOOLEAN, old : BOOLEAN]]
  BY DEF LaunchesInv, LaunchTypeOK
<1> QED
  BY <1>1, <1>3, <1>4, <1>7, <1>8, <1>9, <1>11, <1>12, QuietStep DEF a

LEMMA Considered == \A l \in Launches : LaunchesInv /\ Consider(l) => LaunchesInv'
<1> SUFFICES ASSUME NEW l \in Launches, LaunchesInv, Consider(l) PROVE LaunchesInv'
  OBVIOUS
<1> DEFINE q == launch[l]
           c == Candidate(q)
           r == IF q.turn > Len(fallback_order(q.ask)) THEN [q EXCEPT !.pc = "failed"]
                ELSE IF Passed(q) \/ ~is_available(c) THEN [q EXCEPT !.turn = @ + 1]
                ELSE [q EXCEPT !.turn = @ + 1, !.client = c, !.rung = 1, !.written = FALSE,
                               !.pc = IF WritesFile(c) THEN "config" ELSE "rung"]
<1>1. launch[l] \in Requested /\ Placed(l) /\ launch[l].pc = "consider"
  BY LaunchIs DEF Consider
<1>2. launch' = [launch EXCEPT ![l] = r] /\ UNCHANGED <<platform, installed, child, file, spent>>
  BY DEF Consider
<1>3. file \in [Paths -> [of : 0..MaxLaunches, whole : BOOLEAN, old : BOOLEAN]]
  BY DEF LaunchesInv, LaunchTypeOK
<1>4. /\ q.ask.family \in Families /\ q.ask.preferred \in ClientsFor(q.ask.family)
      /\ (q.ask.family = "db" => q.ask.kind \in DatabaseType) /\ q.name \in Names /\ q.turn \in Nat
  BY <1>1 DEF Placed, Requested
<1>5. CASE q.turn > Len(fallback_order(q.ask))
  <2>1. r \in Requested /\ r = [q EXCEPT !.pc = "failed"]
    BY <1>1, <1>5 DEF Requested
  <2> HIDE DEF r
  <2>2. launch'[l] = r /\ r.pc = "failed" /\ r.name = q.name /\ r.ask = q.ask
    BY <1>1, <1>2, <2>1 DEF LaunchesInv, LaunchTypeOK, Requested
  <2>3. Placed(l)' /\ Sure(l)' /\ Filed(l)'
    BY <1>1, <1>4, <2>2 DEF Placed, Sure, Filed, Trying, Climbing, DatabaseType
  <2> QED
    BY <1>1, <1>2, <1>3, <2>1, <2>2, <2>3, QuietStep
<1>6. CASE ~(q.turn > Len(fallback_order(q.ask))) /\ (Passed(q) \/ ~is_available(c))
  <2>1. r = [q EXCEPT !.turn = q.turn + 1]
    BY <1>6
  <2> HIDE DEF r
  <2>2. r \in Requested /\ r.pc = "consider" /\ r.name = q.name /\ r.ask = q.ask
    <3>1. q.turn + 1 \in Nat
      BY <1>4
    <3> QED
      BY <1>1, <2>1, <3>1 DEF Requested
  <2>3. launch'[l] = r
    BY <1>2 DEF LaunchesInv, LaunchTypeOK
  <2>4. Placed(l)' /\ Sure(l)' /\ Filed(l)'
    BY <1>1, <1>4, <2>2, <2>3 DEF Placed, Sure, Filed, Trying, Climbing, DatabaseType
  <2> QED
    BY <1>1, <1>2, <1>3, <2>2, <2>4, QuietStep
<1>7. CASE ~(q.turn > Len(fallback_order(q.ask))) /\ ~Passed(q) /\ is_available(c)
  <2>1. c \in ClientsFor(q.ask.family)
    <3>1. CASE q.turn = 0
      BY <1>4, <3>1 DEF Candidate
    <3>2. CASE q.turn # 0
      <4>1. q.turn \in Nat /\ q.turn > 0 /\ q.turn <= Len(fallback_order(q.ask))
        BY <1>4, <1>7, <3>2, OrderLengths
      <4> QED
        BY <1>4, <3>2, <4>1, OrdersAre DEF Candidate
    <3> QED
      BY <3>1, <3>2
  <2>2. c \in ClientsOf
    BY <1>4, <2>1 DEF ClientsOf
  <2> DEFINE start == IF WritesFile(c) THEN "config" ELSE "rung"
  <2>3. r = [q EXCEPT !.turn = q.turn + 1, !.client = c, !.rung = 1, !.written = FALSE, !.pc = start]
    BY <1>7
  <2>4. start \in {"config", "rung"} /\ (start = "config" <=> WritesFile(c)) /\ q.turn + 1 \in Nat
    BY <1>4
  <2> HIDE DEF start, r, c
  <2>5. /\ r \in Requested /\ r.pc = start /\ r.name = q.name /\ r.ask = q.ask /\ r.client = c
        /\ r.rung = 1 /\ r.written = FALSE
    BY <1>1, <2>2, <2>3, <2>4 DEF Requested
  <2>6. launch'[l] = r
    BY <1>2 DEF LaunchesInv, LaunchTypeOK
  <2>7. /\ c = "remmina" => Remmina(Ladder(q.ask.family, c))
        /\ c # "remmina" => Climbs(Ladder(q.ask.family, c))
        /\ ~WritesFile(c) => NeedsNone(Ladder(q.ask.family, c))
        /\ RungsOf(r) = Ladder(q.ask.family, c) /\ AtRung(r) = Ladder(q.ask.family, c)[1]
    BY <1>4, <2>1, <2>5, LaddersAre DEF RungsOf, AtRung
  <2>8. 1 \in DOMAIN RungsOf(r)
    BY <2>7 DEF Remmina, Climbs
  <2>9. Placed(l)'
    <3>1. start = "rung" => AtRung(r).carries # "file"
      BY <2>4, <2>7, <2>8 DEF NeedsNone
    <3> QED
      BY <1>1, <1>4, <2>1, <2>4, <2>5, <2>6, <2>8, <3>1 DEF Placed, Trying, Climbing, DatabaseType
  <2>10. changes = 0 => Sure(l)'
    <3>1. c # "remmina" => ~(AtRung(r).way = "flatpak" /\ ~AtRung(r).looked)
      BY <2>7, <2>8 DEF Climbs
    <3>2. c = "remmina" => <<"remmina", "native">> \in installed \/ <<"remmina", "flatpak">> \in installed
      <4> SUFFICES ASSUME c = "remmina" PROVE <<c, "native">> \in installed \/ <<c, "flatpak">> \in installed
        OBVIOUS
      <4>1. PICK way \in {"native", "native3", "alt", "bundle", "flatpak"} : <<c, way>> \in installed
        BY <1>7 DEF is_available, Found, command_exists, flatpak_exists
      <4>2. <<c, way>> \in Installable
        BY <4>1 DEF LaunchesInv, LaunchTypeOK
      <4>3. \A x \in Installable : x[1] = "remmina" => x[2] \in {"native", "flatpak"}
        BY LaunchersAssumption
      <4>4. way \in {"native", "flatpak"}
        BY <4>2, <4>3
      <4> QED
        BY <4>1, <4>4
    <3> QED
      BY <1>2, <2>4, <2>5, <2>6, <3>1, <3>2 DEF Sure, Trying, Climbing
  <2>11. Filed(l)'
    BY <2>5, <2>6 DEF Filed
  <2> QED
    BY <1>1, <1>2, <1>3, <2>4, <2>5, <2>9, <2>10, <2>11, QuietStep
<1> QED
  BY <1>5, <1>6, <1>7

LEMMA FileTypes ==
    LaunchesInv => file \in [Paths -> [of : 0..MaxLaunches, whole : BOOLEAN, old : BOOLEAN]]
  BY DEF LaunchesInv, LaunchTypeOK

(* A launch that has been asked for has a path.                            *)
LEMMA PathIs ==
    ASSUME LaunchesInv, NEW l \in Launches, launch[l].pc # "idle"
    PROVE  PathOf(l) \in Paths
  BY LaunchIs DEF PathOf, Paths, Placed, Requested

(* Without its file a client goes on to the rungs that need none.          *)
LEMMA GoesWithout ==
    ASSUME LaunchesInv, NEW l \in Launches, launch[l].pc \in {"config", "fill"},
           launch' = [launch EXCEPT ![l] = Unwritten(@)], Fault,
           UNCHANGED <<platform, installed, child, file>>
    PROVE  LaunchesInv'
<1> DEFINE q == launch[l]
           left == {i \in DOMAIN RungsOf(q) : RungsOf(q)[i].carries # "file"}
<1>1. Trying(l) /\ WritesFile(q.client) /\ ~q.written
  BY LaunchIs DEF Trying, Placed
<1>2. launch' = [launch EXCEPT ![l] = ToRung(launch[l], left)]
  BY DEF Unwritten
<1>3. faults' # 0
  <2>1. faults \in Nat
    BY DEF LaunchesInv, LaunchTypeOK
  <2> QED
    BY <2>1 DEF Fault
<1>4. q.client # "remmina" => \A i \in left : RungsOf(q)[i].way = "flatpak" => RungsOf(q)[i].looked
  BY <1>1, RungsAre DEF LooksFor
<1>5. left \in SUBSET DOMAIN RungsOf(launch[l])
  OBVIOUS
<1>6. \A i \in left : RungsOf(q)[i].carries # "file"
  OBVIOUS
<1> HIDE DEF left
<1>7. ASSUME NEW i \in left
      PROVE  LET g == RungsOf(launch[l])[i] IN
             /\ g.carries = "file" => launch[l].written
             /\ changes = 0 =>
                   IF launch[l].client = "remmina"
                   THEN faults' = 0 /\ i # 1 => <<"remmina", "native">> \notin installed
                   ELSE g.way = "flatpak" /\ ~g.looked => <<launch[l].client, "flatpak">> \in installed
  BY <1>3, <1>4, <1>6
<1>8. /\ file' = file /\ file' \in [Paths -> [of : 0..MaxLaunches, whole : BOOLEAN, old : BOOLEAN]]
      /\ \A p \in Paths : p # PathOf(l) => file'[p] = file[p]
  BY FileTypes
<1>9. launch[l].written => file' = file /\ Climbing(l)
  BY <1>1
<1> HIDE DEF q
<1> QED
  BY <1>1, <1>2, <1>5, <1>7, <1>8, <1>9, StepOnto

LEMMA FileCreated == \A l \in Launches : LaunchesInv /\ CreateFile(l) => LaunchesInv'
<1> SUFFICES ASSUME NEW l \in Launches, LaunchesInv, CreateFile(l) PROVE LaunchesInv'
  OBVIOUS
<1>1. /\ launch[l].pc = "config" /\ UNCHANGED <<platform, installed, child>>
      /\ launch[l] \in Requested /\ Placed(l) /\ Trying(l) /\ ~launch[l].written
      /\ changes = 0 => Sure(l)
  BY LaunchIs DEF CreateFile, Trying, Placed
<1>2. ASSUME file' = [file EXCEPT ![PathOf(l)] = [of |-> l, whole |-> FALSE, old |-> FALSE]],
             launch' = [launch EXCEPT ![l].pc = "fill"], NoFault
      PROVE  LaunchesInv'
  <2> DEFINE r == [launch[l] EXCEPT !.pc = "fill"]
  <2>1. /\ r \in Requested /\ r.pc = "fill" /\ r.name = launch[l].name /\ r.ask = launch[l].ask
        /\ r.client = launch[l].client /\ r.rung = launch[l].rung /\ r.written = launch[l].written
    BY <1>1 DEF Requested
  <2>2. launch' = [launch EXCEPT ![l] = r]
    BY <1>2 DEF LaunchesInv, LaunchTypeOK
  <2> HIDE DEF r
  <2>3. launch'[l] = r
    BY <2>2 DEF LaunchesInv, LaunchTypeOK
  <2>4. Placed(l)' /\ Filed(l)'
    BY <1>1, <2>1, <2>3 DEF Placed, Filed, Trying, Climbing
  <2>5. UNCHANGED spent /\ faults' = faults
    BY <1>2 DEF NoFault, spent
  <2>6. changes = 0 => Sure(l)'
    BY <1>1, <2>1, <2>3, <2>5 DEF Sure, Trying, Climbing
  <2>7. /\ file' \in [Paths -> [of : 0..MaxLaunches, whole : BOOLEAN, old : BOOLEAN]]
        /\ \A p \in Paths : p # PathOf(l) => file'[p] = file[p]
    <3>1. [of |-> l, whole |-> FALSE, old |-> FALSE] \in [of : 0..MaxLaunches, whole : BOOLEAN, old : BOOLEAN]
      BY DEF Launches
    <3> QED
      BY <1>2, <3>1, FileTypes
  <2> QED
    BY <1>1, <2>1, <2>2, <2>4, <2>5, <2>6, <2>7, QuietStep
<1>3. ASSUME launch' = [launch EXCEPT ![l] = Unwritten(@)], Fault, UNCHANGED file
      PROVE  LaunchesInv'
  BY <1>1, <1>3, GoesWithout
<1> QED
  BY <1>2, <1>3 DEF CreateFile

LEMMA FileFilled == \A l \in Launches : LaunchesInv /\ FillFile(l) => LaunchesInv'
<1> SUFFICES ASSUME NEW l \in Launches, LaunchesInv, FillFile(l) PROVE LaunchesInv'
  OBVIOUS
<1>1. /\ launch[l].pc = "fill" /\ UNCHANGED <<platform, installed, child>>
      /\ launch[l] \in Requested /\ Placed(l) /\ Trying(l) /\ ~launch[l].written
      /\ changes = 0 => Sure(l)
  BY LaunchIs DEF FillFile, Trying, Placed
<1>2. ASSUME file' = [file EXCEPT ![PathOf(l)] = [of |-> l, whole |-> TRUE, old |-> FALSE]],
             launch' = [launch EXCEPT ![l].pc = "rung", ![l].written = TRUE], NoFault
      PROVE  LaunchesInv'
  <2> DEFINE r == [launch[l] EXCEPT !.pc = "rung", !.written = TRUE]
  <2>1. /\ r \in Requested /\ r.pc = "rung" /\ r.name = launch[l].name /\ r.ask = launch[l].ask
        /\ r.client = launch[l].client /\ r.rung = 1 /\ r.written = TRUE
    BY <1>1 DEF Requested, Placed
  <2>2. launch' = [launch EXCEPT ![l] = r]
    BY <1>2 DEF LaunchesInv, LaunchTypeOK
  <2> HIDE DEF r
  <2>3. launch'[l] = r
    BY <2>2 DEF LaunchesInv, LaunchTypeOK
  <2>4. /\ RungsOf(r) = RungsOf(launch[l]) /\ 1 \in DOMAIN RungsOf(launch[l])
        /\ AtRung(r) = RungsOf(launch[l])[1]
    <3>1. 1 \in DOMAIN RungsOf(launch[l])
      BY <1>1, RungsAre
    <3> QED
      BY <2>1, <3>1 DEF RungsOf, AtRung
  <2>5. Placed(l)'
    BY <1>1, <2>1, <2>3, <2>4 DEF Placed, Trying, Climbing
  <2>6. UNCHANGED spent /\ faults' = faults
    BY <1>2 DEF NoFault, spent
  <2>7. changes = 0 => Sure(l)'
    <3>1. r.client # "remmina" => ~(AtRung(r).way = "flatpak" /\ ~AtRung(r).looked)
      BY <1>1, <2>1, <2>4, RungsAre DEF Climbs
    <3> QED
      BY <1>1, <2>1, <2>3, <2>6, <3>1 DEF Sure, Trying, Climbing
  <2>8. /\ file' \in [Paths -> [of : 0..MaxLaunches, whole : BOOLEAN, old : BOOLEAN]]
        /\ \A p \in Paths : p # PathOf(l) => file'[p] = file[p]
    <3>1. [of |-> l, whole |-> TRUE, old |-> FALSE] \in [of : 0..MaxLaunches, whole : BOOLEAN, old : BOOLEAN]
      BY DEF Launches
    <3> QED
      BY <1>2, <3>1, FileTypes
  <2>9. Filed(l)'
    <3>1. PathOf(l)' = PathOf(l) /\ PathOf(l) \in Paths
      BY <1>1, <2>1, <2>3, PathIs DEF PathOf
    <3>2. file'[PathOf(l)] = [of |-> l, whole |-> TRUE, old |-> FALSE]
      BY <1>2, <3>1, FileTypes
    <3> QED
      BY <3>1, <3>2 DEF Filed, Ours
  <2> QED
    BY <1>1, <2>1, <2>2, <2>5, <2>6, <2>7, <2>8, <2>9, QuietStep
<1>3. ASSUME launch' = [launch EXCEPT ![l] = Unwritten(@)], Fault, UNCHANGED file
      PROVE  LaunchesInv'
  BY <1>1, <1>3, GoesWithout
<1> QED
  BY <1>2, <1>3 DEF FillFile

LEMMA LookedFor == \A l \in Launches : LaunchesInv /\ LookFor(l) => LaunchesInv'
<1> SUFFICES ASSUME NEW l \in Launches, LaunchesInv, LookFor(l) PROVE LaunchesInv'
  OBVIOUS
<1> DEFINE q == launch[l]
           g == AtRung(q)
           left == {i \in DOMAIN RungsOf(q) : i > q.rung /\ RungsOf(q)[i].way # g.way}
<1>1. /\ q.pc = "rung" /\ UNCHANGED <<platform, installed, child, file, spent>>
      /\ q \in Requested /\ Placed(l) /\ Trying(l) /\ Climbing(l)
      /\ changes = 0 => Sure(l)
      /\ ~Shared(l) => Filed(l)
  BY LaunchIs DEF LookFor, Trying, Climbing
<1>2. /\ q.rung \in DOMAIN RungsOf(q) /\ g = RungsOf(q)[q.rung]
      /\ g.carries = "file" => q.written
  BY <1>1 DEF Placed, AtRung
<1>3. CASE ~g.looked \/ Found(q.client, g.way)
  <2> DEFINE r == [q EXCEPT !.pc = "spawn"]
  <2>1. launch' = [launch EXCEPT ![l] = r]
    BY <1>3 DEF LookFor
  <2>2. /\ r \in Requested /\ r.pc = "spawn" /\ r.name = q.name /\ r.ask = q.ask
        /\ r.client = q.client /\ r.rung = q.rung /\ r.written = q.written
    BY <1>1 DEF Requested
  <2> HIDE DEF r
  <2>3. launch'[l] = r /\ RungsOf(r) = RungsOf(q) /\ AtRung(r) = g
    BY <2>1, <2>2 DEF LaunchesInv, LaunchTypeOK, RungsOf, AtRung
  <2>4. Placed(l)'
    BY <1>1, <1>2, <2>2, <2>3 DEF Placed, Trying, Climbing
  <2>5. changes = 0 => Sure(l)'
    <3>1. changes = 0 /\ q.client # "remmina" /\ g.way = "flatpak" => <<q.client, "flatpak">> \in installed
      BY <1>1, <1>3 DEF Sure, Found, flatpak_exists
    <3> QED
      BY <1>1, <2>2, <2>3, <3>1 DEF Sure, Trying, Climbing, spent
  <2>6. ~Shared(l) => Filed(l)'
    <3>1. PathOf(l)' = PathOf(l)
      BY <2>2, <2>3 DEF PathOf
    <3> QED
      BY <1>1, <2>2, <2>3, <3>1 DEF Filed, Ours, Climbing
  <2> QED
    BY <1>1, <2>1, <2>2, <2>4, <2>5, <2>6, FileTypes, QuietStep
<1>4. CASE ~(~g.looked \/ Found(q.client, g.way))
  <2>1. launch' = [launch EXCEPT ![l] = ToRung(launch[l], left)]
    BY <1>4 DEF LookFor
  <2>2. q.client # "remmina"
    <3> SUFFICES ASSUME q.client = "remmina" PROVE FALSE
      OBVIOUS
    <3>1. Remmina(RungsOf(q))
      BY <1>1, RungsAre
    <3>2. q.rung \in 1..3 /\ ~RungsOf(q)[1].looked /\ ~RungsOf(q)[2].looked /\ ~RungsOf(q)[3].looked
      BY <1>2, <3>1 DEF Remmina
    <3> QED
      BY <1>2, <1>4, <3>2, Three
  <2>3. ASSUME NEW i \in left, \A j \in left : i <= j
        PROVE  ~(RungsOf(q)[i].way = "flatpak" /\ ~RungsOf(q)[i].looked)
    <3> SUFFICES ASSUME RungsOf(q)[i].way = "flatpak", ~RungsOf(q)[i].looked PROVE FALSE
      OBVIOUS
    <3>1. Climbs(RungsOf(q))
      BY <1>1, <2>2, RungsAre
    <3>2. PICK n \in 1..4 : DOMAIN RungsOf(q) = 1..n
      BY <1>1, RungsAre
    <3>3. i \in 1..n /\ i > q.rung /\ RungsOf(q)[i].way # g.way /\ q.rung \in 1..n
      BY <1>2, <3>2
    <3>4. i > 1 /\ RungsOf(q)[i - 1].way = "flatpak"
      BY <3>1, <3>2, <3>3 DEF Climbs
    <3>5. i - 1 # q.rung
      BY <1>2, <3>3, <3>4
    <3>6. i - 1 \in left
      BY <3>2, <3>3, <3>4, <3>5
    <3> QED
      BY <2>3, <3>3, <3>6
  <2>4. left \in SUBSET DOMAIN RungsOf(launch[l])
    OBVIOUS
  <2>5. ASSUME NEW i \in left PROVE RungsOf(q)[i].carries # "file"
    <3>1. PICK n \in 1..4 : DOMAIN RungsOf(q) = 1..n
      BY <1>1, RungsAre
    <3>2. i # 1
      BY <1>2, <3>1
    <3> QED
      BY <1>1, <2>2, <3>2, RungsAre DEF NeedsNone, LooksFor
  <2> HIDE DEF left
  <2> QED
    BY <1>1, <2>1, <2>2, <2>3, <2>4, <2>5, FileTypes, StepOnto
<1> QED
  BY <1>3, <1>4

(* The rung after the one that failed.                                     *)
LEMMA NextIs ==
    ASSUME NEW n \in 1..4, NEW k \in 1..n, NEW i \in 1..n, i > k,
           \A j \in 1..n : j > k => i <= j
    PROVE  i = k + 1
OBVIOUS

LEMMA SpawnFailed == \A l \in Launches : LaunchesInv /\ SpawnFails(l) => LaunchesInv'
<1> SUFFICES ASSUME NEW l \in Launches, LaunchesInv, SpawnFails(l) PROVE LaunchesInv'
  OBVIOUS
<1> DEFINE q == launch[l]
           ladder == RungsOf(q)
           left == IF Settles(q.client) THEN {} ELSE {i \in DOMAIN ladder : i > q.rung}
<1>1. /\ q.pc = "spawn" /\ UNCHANGED <<platform, installed, child, file>>
      /\ q \in Requested /\ Placed(l) /\ Trying(l) /\ Climbing(l)
      /\ changes = 0 => Sure(l)
      /\ IF Starts(q.client, AtRung(q).way) THEN Fault ELSE NoFault
  BY LaunchIs DEF SpawnFails, Trying, Climbing
<1>2. /\ q.rung \in DOMAIN ladder /\ AtRung(q) = ladder[q.rung]
      /\ AtRung(q).carries = "file" => q.written
  BY <1>1 DEF Placed, AtRung
<1>3. launch' = [launch EXCEPT ![l] = ToRung(launch[l], left)]
  BY DEF SpawnFails, NextRung
<1>4. UNCHANGED spent \/ Fault
  BY <1>1 DEF NoFault
<1>5. ASSUME NEW i \in left, \A j \in left : i <= j
      PROVE  i \in DOMAIN ladder /\ i = q.rung + 1 /\ q.rung \in Nat /\ i - 1 = q.rung /\ i > 1
  <2>1. PICK n \in 1..4 : DOMAIN ladder = 1..n
    BY <1>1, RungsAre
  <2>2. i \in 1..n /\ q.rung \in 1..n /\ i > q.rung /\ \A j \in 1..n : j > q.rung => i <= j
    BY <1>2, <1>5, <2>1
  <2> HIDE DEF ladder, left, q
  <2>3. i = q.rung + 1
    BY <2>2, NextIs
  <2> QED
    BY <2>1, <2>2, <2>3
<1>6. ASSUME NEW i \in left, \A j \in left : i <= j
      PROVE  ladder[i].carries = "file" => q.written
  <2>1. i \in DOMAIN ladder /\ i = q.rung + 1 /\ i > 1
    BY <1>5, <1>6
  <2>2. CASE q.client = "remmina"
    <3>1. Remmina(ladder)
      BY <1>1, <2>2, RungsAre
    <3>2. q.rung \in 1..3 /\ i \in 1..3
      BY <1>2, <2>1, <3>1 DEF Remmina
    <3>3. q.rung = 1 \/ i = 3
      BY <2>1, <3>2
    <3> QED
      BY <1>2, <3>1, <3>3 DEF Remmina
  <2>3. CASE q.client # "remmina" /\ WritesFile(q.client)
    BY <1>1, <2>1, <2>3, RungsAre DEF LooksFor
  <2>4. CASE ~WritesFile(q.client)
    BY <1>1, <2>1, <2>4, RungsAre DEF NeedsNone
  <2> QED
    BY <2>2, <2>3, <2>4
<1>7. ASSUME NEW i \in left, \A j \in left : i <= j, changes = 0, q.client = "remmina", faults' = 0
      PROVE  <<"remmina", "native">> \notin installed
  <2>1. faults = 0 /\ ~Starts(q.client, AtRung(q).way)
    <3>1. faults \in Nat
      BY DEF LaunchesInv, LaunchTypeOK
    <3>2. ~Fault
      BY <1>7, <3>1 DEF Fault
    <3> QED
      BY <1>1, <1>7, <3>2 DEF NoFault, spent
  <2>2. CASE q.rung # 1
    BY <1>1, <1>7, <2>1, <2>2 DEF Sure
  <2>3. CASE q.rung = 1
    <3>1. Remmina(ladder)
      BY <1>1, <1>7, RungsAre
    <3>2. AtRung(q).way = "native"
      BY <1>2, <2>3, <3>1 DEF Remmina
    <3> QED
      BY <1>7, <2>1, <3>2 DEF Starts
  <2> QED
    BY <2>2, <2>3
<1>8. ASSUME NEW i \in left, \A j \in left : i <= j, changes = 0, q.client # "remmina",
             ladder[i].way = "flatpak", ~ladder[i].looked
      PROVE  <<q.client, "flatpak">> \in installed
  <2>1. i \in DOMAIN ladder /\ i - 1 = q.rung
    BY <1>5, <1>8
  <2>2. Climbs(ladder)
    BY <1>1, <1>8, RungsAre
  <2>3. ladder[i - 1].way = "flatpak"
    BY <1>8, <2>1, <2>2 DEF Climbs
  <2>4. AtRung(q).way = "flatpak"
    BY <1>2, <2>1, <2>3
  <2> QED
    BY <1>1, <1>8, <2>4 DEF Sure
<1>9. /\ file' = file /\ file' \in [Paths -> [of : 0..MaxLaunches, whole : BOOLEAN, old : BOOLEAN]]
      /\ \A p \in Paths : p # PathOf(l) => file'[p] = file[p]
  BY <1>1, FileTypes
<1>10. left \in SUBSET DOMAIN ladder
  OBVIOUS
<1> HIDE DEF left
<1>11. ASSUME NEW i \in left, \A j \in left : i <= j
       PROVE  LET g == RungsOf(launch[l])[i] IN
              /\ g.carries = "file" => launch[l].written
              /\ changes = 0 =>
                    IF launch[l].client = "remmina"
                    THEN faults' = 0 /\ i # 1 => <<"remmina", "native">> \notin installed
                    ELSE g.way = "flatpak" /\ ~g.looked => <<launch[l].client, "flatpak">> \in installed
  BY <1>6, <1>7, <1>8, <1>11
<1>12. UNCHANGED <<platform, installed, child>> /\ (launch[l].written => file' = file /\ Climbing(l))
  BY <1>1
<1> HIDE DEF q, ladder
<1> QED
  BY <1>1, <1>3, <1>4, <1>9, <1>10, <1>11, <1>12, StepOnto DEF ladder, q

(* A client that has been started is the one the launch reports.           *)
LEMMA Started ==
    ASSUME LaunchesInv, NEW l \in Launches, launch[l].pc = "spawn",
           Starts(launch[l].client, AtRung(launch[l]).way),
           NEW reaper \in {"thread", "system", "lost"},
           child' = [child EXCEPT ![l] = Append(@, Spawned(l, reaper))],
           launch' = [launch EXCEPT ![l] = Answered(@)],
           UNCHANGED <<platform, installed, file>>, UNCHANGED spent \/ Fault
    PROVE  LaunchesInv'
<1> DEFINE q == launch[l]
           g == AtRung(q)
           opens == g.way = "system" \/ <<q.client, g.way>> \in installed
           c == Spawned(l, reaper)
           r == Answered(q)
<1>1. /\ q \in Requested /\ Placed(l) /\ Trying(l) /\ Climbing(l) /\ child[l] = <<>>
      /\ changes = 0 => Sure(l)
      /\ ~Shared(l) => Filed(l)
  BY LaunchIs DEF Trying, Climbing
<1>2. /\ q.rung \in DOMAIN RungsOf(q) /\ g = RungsOf(q)[q.rung]
      /\ g.carries = "file" => q.written
  BY <1>1 DEF Placed, AtRung
<1>3. q.client \in ClientsOf /\ g.carries \in {"file", "address", "display", "plain"}
  <2>1. q.client \in ClientsFor(q.ask.family) /\ q.ask.family \in Families
    BY <1>1 DEF Placed, Requested
  <2>2. g \in RungType
    BY <1>1, <1>2, RungsAre
  <2> QED
    BY <2>1, <2>2 DEF ClientsOf, RungType
<1>4. /\ c \in Process /\ c.client = q.client /\ c.carries = g.carries /\ c.opens = opens
      /\ c.state \in {"started", "zombie"}
  BY <1>3 DEF Spawned, Process
<1>5. r \in Requested /\ r.pc = "launched" /\ r.name = q.name /\ r.ask = q.ask /\ r.client = q.client
  BY <1>1 DEF Answered, Requested
<1> HIDE DEF c, r
<1>6. /\ launch'[l] = r /\ launch' \in [Launches -> Requested]
      /\ \A m \in Launches \ {l} : launch'[m] = launch[m]
  BY <1>5 DEF r, LaunchesInv, LaunchTypeOK
<1>7. <<c>> \in Seq(Process) /\ Append(<<>>, c) = <<c>> /\ Len(<<c>>) = 1 /\ DOMAIN <<c>> = {1} /\ <<c>>[1] = c
  BY <1>4
<1>8. /\ child'[l] = <<c>> /\ child' \in [Launches -> Seq(Process)]
      /\ \A m \in Launches \ {l} : child'[m] = child[m]
  BY <1>1, <1>7 DEF c, LaunchesInv, LaunchTypeOK
<1>9. /\ faults \in Nat /\ faults' \in Nat /\ changes' = changes /\ restarts' = restarts /\ faults' >= faults
      /\ faults' + changes' + restarts' <= MaxMishaps
  <2>1. /\ faults \in Nat /\ changes \in Nat /\ restarts \in Nat /\ MaxMishaps \in Nat
        /\ faults + changes + restarts <= MaxMishaps
    BY LaunchersAssumption DEF LaunchesInv, LaunchTypeOK
  <2>2. CASE UNCHANGED spent
    BY <2>1, <2>2 DEF spent
  <2>3. CASE Fault
    BY <2>1, <2>3 DEF Fault, Mishap
  <2> QED
    BY <2>2, <2>3
<1>10. LaunchTypeOK'
  BY <1>6, <1>8, <1>9 DEF LaunchesInv, LaunchTypeOK
<1>11. PathOf(l)' = PathOf(l) /\ (Shared(l)' <=> Shared(l)) /\ (Ours(l)' <=> Ours(l))
  <2>1. \A m \in Launches : PathOf(m)' = PathOf(m)
    BY <1>5, <1>6 DEF PathOf
  <2> QED
    BY <2>1 DEF Shared, Ours
<1>12. Placed(l)' /\ OneEach(l)' /\ Dialled(l)' /\ Sure(l)' /\ Filed(l)'
  <2>1. Placed(l)' /\ Sure(l)' /\ Filed(l)'
    BY <1>1, <1>5, <1>6 DEF Placed, Sure, Filed, Trying, Climbing
  <2>2. OneEach(l)'
    BY <1>5, <1>6, <1>7, <1>8 DEF OneEach
  <2>3. Dialled(l)'
    <3>1. \A i \in DOMAIN child'[l] : child'[l][i] = c
      BY <1>7, <1>8
    <3>2. c.state # "open"
      BY <1>4
    <3>3. \A i \in DOMAIN child'[l] : child'[l][i].state # "open"
      BY ONLY <3>1, <3>2
    <3> QED
      BY ONLY <3>3 DEF Dialled
  <2> QED
    BY <2>1, <2>2, <2>3
<1>13. changes = 0 => OpenedOwn(l)'
  <2> SUFFICES ASSUME changes = 0 PROVE c.opens \/ (c.client = "remmina" /\ faults' > 0)
    BY <1>7, <1>8 DEF OpenedOwn
  <2>1. CASE faults > 0 /\ q.client = "remmina"
    BY <1>4, <1>9, <2>1
  <2>2. CASE g.way # "flatpak"
    BY <1>4, <2>2 DEF Starts
  <2>3. CASE q.client # "remmina" /\ g.way = "flatpak"
    BY <1>1, <1>4, <2>3 DEF Sure
  <2>4. CASE q.client = "remmina" /\ g.way = "flatpak" /\ faults = 0
    <3>1. q.rung # 1
      BY <1>1, <1>2, <2>4, RungsAre DEF Remmina
    <3> QED
      BY <1>1, <1>4, <2>4, <3>1 DEF Sure
  <2> QED
    BY <1>9, <2>1, <2>2, <2>3, <2>4
<1>14. ~Shared(l)' => Lent(l)'
  BY <1>1, <1>2, <1>4, <1>7, <1>8, <1>11 DEF Lent, Filed
<1> HIDE DEF q
<1> QED
  BY <1>6, <1>8, <1>9, <1>10, <1>11, <1>12, <1>13, <1>14, OneMoves

LEMMA SpawnedOne ==
    \A l \in Launches : LaunchesInv /\ (SpawnReaped(l) \/ SpawnUnreaped(l)) => LaunchesInv'
<1> SUFFICES ASSUME NEW l \in Launches, LaunchesInv PROVE SpawnReaped(l) \/ SpawnUnreaped(l) => LaunchesInv'
  OBVIOUS
<1>1. ASSUME SpawnReaped(l) PROVE LaunchesInv'
  <2>1. Reaper(AtRung(launch[l]).way) \in {"thread", "system", "lost"}
    BY DEF Reaper
  <2> QED
    BY <1>1, <2>1, Started DEF SpawnReaped, NoFault
<1>2. ASSUME SpawnUnreaped(l) PROVE LaunchesInv'
  BY <1>2, Started DEF SpawnUnreaped
<1> QED
  BY <1>1, <1>2

LEMMA Asked ==
    ASSUME NEW a \in Requests
    PROVE  /\ a \in [family : Families, kind : DatabaseType \union {"none"}, preferred : ClientsOf \union {Nobody}]
           /\ a.family = "db" => a.kind # "none"
           /\ a.preferred \in ClientsFor(a.family) \/ (a.family = "db" /\ a.preferred = Nobody)
  BY LaunchersAssumption

LEMMA Pressed == \A l \in Launches : LaunchesInv /\ Press(l) => LaunchesInv'
<1> SUFFICES ASSUME NEW l \in Launches, LaunchesInv, Press(l) PROVE LaunchesInv'
  OBVIOUS
<1>1. PICK a \in Requests, n \in Names :
          launch' = [launch EXCEPT ![l] =
              [Idle EXCEPT !.ask = a, !.name = n, !.port = Ports[l],
                           !.pc = IF a.preferred = Nobody THEN "default" ELSE "consider"]]
  BY DEF Press
<1> DEFINE r == [Idle EXCEPT !.ask = a, !.name = n, !.port = Ports[l],
                             !.pc = IF a.preferred = Nobody THEN "default" ELSE "consider"]
<1>2. launch[l] = Idle /\ UNCHANGED <<platform, installed, child, file, spent>>
  BY DEF Press
<1>3. Ports[l] \in u16 /\ Nobody \notin Names
  <2>1. Ports \in [1..MaxLaunches -> u16 \ {0}] /\ Nobody \notin Names
    BY LaunchersAssumption
  <2> QED
    BY <2>1 DEF Launches
<1>4. /\ r \in Requested /\ r.ask = a /\ r.name = n
      /\ r.pc = IF a.preferred = Nobody THEN "default" ELSE "consider"
  BY <1>3, Asked DEF Idle, Requested
<1> HIDE DEF r
<1>5. launch'[l] = r /\ launch' \in [Launches -> Requested] /\ \A m \in Launches \ {l} : launch'[m] = launch[m]
  BY <1>1, <1>4 DEF r, LaunchesInv, LaunchTypeOK
<1>6. LaunchTypeOK'
  BY <1>2, <1>5 DEF LaunchesInv, LaunchTypeOK, spent
<1>7. launch[l].pc = "idle" /\ launch[l].name = Nobody
  BY <1>2 DEF Idle
<1>8. child[l] = <<>> /\ DOMAIN child[l] = {}
  BY <1>7, LaunchIs
<1>9. /\ Placed(l)' /\ OneEach(l)' /\ Dialled(l)' /\ Sure(l)' /\ OpenedOwn(l)' /\ Filed(l)' /\ Lent(l)'
  <2>1. Placed(l)'
    <3>1. Nobody \notin ClientsFor(a.family)
      BY DEF Nobody, ClientsFor, RdpClientType, VncClientType, DbClientType
    <3>2. /\ a.preferred = Nobody => a.family = "db"
          /\ a.preferred # Nobody => a.preferred \in ClientsFor(a.family)
          /\ a.family = "db" => a.kind # "none"
      BY <3>1, Asked
    <3> QED
      BY <1>4, <1>5, <3>2 DEF Placed, Trying, Climbing
  <2>2. Sure(l)' /\ Filed(l)'
    BY <1>4, <1>5 DEF Sure, Filed, Trying, Climbing
  <2>3. OneEach(l)' /\ Dialled(l)' /\ OpenedOwn(l)' /\ Lent(l)'
    BY <1>2, <1>4, <1>5, <1>8 DEF OneEach, Dialled, OpenedOwn, Lent
  <2> QED
    BY <2>1, <2>2, <2>3
<1>10. ASSUME NEW m \in Launches \ {l}
       PROVE  /\ Placed(m)' /\ OneEach(m)' /\ Dialled(m)'
              /\ changes' = 0 => Sure(m)' /\ OpenedOwn(m)'
              /\ ~Shared(m)' => Filed(m)' /\ Lent(m)'
  <2>1. /\ Placed(m) /\ OneEach(m) /\ Dialled(m)
        /\ changes = 0 => Sure(m) /\ OpenedOwn(m)
        /\ ~Shared(m) => Filed(m) /\ Lent(m)
        /\ launch[m].pc # "launched" => DOMAIN child[m] = {}
    BY LaunchIs
  <2>2. launch'[m] = launch[m] /\ child' = child /\ file' = file /\ installed' = installed
        /\ faults' = faults /\ changes' = changes
    BY <1>2, <1>5 DEF spent
  <2>3. Placed(m)' /\ OneEach(m)' /\ (Sure(m)' <=> Sure(m)) /\ (OpenedOwn(m)' <=> OpenedOwn(m))
        /\ (Filed(m)' <=> Filed(m)) /\ (Lent(m)' <=> Lent(m))
    BY <2>1, <2>2 DEF Placed, OneEach, Sure, OpenedOwn, Filed, Lent, Trying, Climbing, Ours, PathOf
  \* The launch that was not asked for yet shared no file with one that was.
  <2>4. launch[m].pc # "idle" => launch[m].name # launch[l].name
    BY <1>3, <1>7, <2>1 DEF Placed
  <2>5. launch[m].pc # "idle" /\ Shared(m) => Shared(m)'
    <3> SUFFICES ASSUME launch[m].pc # "idle", NEW o \in Launches \ {m}, PathOf(o) = PathOf(m)
                 PROVE  PathOf(o)' = PathOf(m)'
      BY DEF Shared
    <3>1. o # l
      BY <2>4 DEF PathOf
    <3> QED
      BY <1>5, <2>2, <3>1 DEF PathOf
  <2>6. ASSUME NEW c, launch[m].pc # "idle", SharesFile(m, c) PROVE SharesFile(m, c)'
    <3>1. PICK o \in Launches \ {m} : launch[o].name = launch[m].name /\ launch[o].ask.family = launch[m].ask.family
      BY <2>6 DEF SharesFile
    <3>2. o # l
      BY <2>4, <2>6, <3>1
    <3> QED
      BY <1>5, <2>2, <2>6, <3>1, <3>2 DEF SharesFile
  <2>7. CASE launch[m].pc = "idle"
    BY <2>1, <2>2, <2>3, <2>7 DEF Dialled, Filed, Lent, Climbing
  <2>8. CASE launch[m].pc # "idle"
    <3>1. \A c : BeyondDisplays(m, c)' <=> BeyondDisplays(m, c)
      BY <2>2 DEF BeyondDisplays
    <3>2. Dialled(m)'
      BY <2>1, <2>2, <2>6, <2>8, <3>1 DEF Dialled
    <3> QED
      BY <2>1, <2>2, <2>3, <2>5, <2>8, <3>2
  <2> QED
    BY <2>7, <2>8
<1>11. \A m \in Launches : /\ Placed(m)' /\ OneEach(m)' /\ Dialled(m)'
                           /\ changes' = 0 => Sure(m)' /\ OpenedOwn(m)'
                           /\ ~Shared(m)' => Filed(m)' /\ Lent(m)'
  BY <1>9, <1>10
<1> QED
  BY <1>6, <1>11 DEF LaunchesInv

(* A step of a client's own.                                               *)
LEMMA ChildMoves ==
    ASSUME LaunchesInv, NEW l \in Launches, NEW i \in DOMAIN child[l], NEW r \in Process,
           child' = [child EXCEPT ![l][i] = r], UNCHANGED <<platform, installed, launch, file, spent>>,
           r.client = child[l][i].client, r.opens = child[l][i].opens, r.state # "started",
           (/\ r.opens /\ r.state = "open" /\ r.carries # "plain"
            /\ ~BeyondDisplays(l, r) /\ ~SharesFile(l, r)) => r.dialled = launch[l].port
    PROVE  LaunchesInv'
<1>1. /\ child[l] \in Seq(Process) /\ Len(child[l]) \in Nat /\ OneEach(l) /\ Dialled(l) /\ Placed(l)
      /\ changes = 0 => Sure(l) /\ OpenedOwn(l)
      /\ ~Shared(l) => Filed(l) /\ Lent(l)
  BY LaunchIs
<1> DEFINE s == [child[l] EXCEPT ![i] = r]
<1>2. i \in 1..Len(child[l])
  BY <1>1, LenProperties
<1>3. s \in Seq(Process) /\ Len(s) = Len(child[l]) /\ DOMAIN s = DOMAIN child[l]
      /\ s[i] = r /\ (\A j \in DOMAIN child[l] : j # i => s[j] = child[l][j])
  BY <1>1, <1>2, ExceptSeq
<1>4. child' = [child EXCEPT ![l] = s]
  OBVIOUS
<1> HIDE DEF s
<1>5. child'[l] = s /\ child' \in [Launches -> Seq(Process)] /\ \A m \in Launches \ {l} : child'[m] = child[m]
  BY <1>3, <1>4 DEF LaunchesInv, LaunchTypeOK
<1>6. LaunchTypeOK'
  BY <1>5 DEF LaunchesInv, LaunchTypeOK, spent
<1>7. launch[l].pc = "launched"
  BY LaunchIs
<1>8. Placed(l)' /\ OneEach(l)'
  BY <1>1, <1>3, <1>5, <1>7 DEF Placed, OneEach, Trying, Climbing
<1>9. Dialled(l)'
  <2>1. ASSUME NEW j \in DOMAIN s
        PROVE  (/\ s[j].opens /\ s[j].state = "open" /\ s[j].carries # "plain"
                /\ ~BeyondDisplays(l, s[j]) /\ ~SharesFile(l, s[j])) => s[j].dialled = launch[l].port
    <3>1. CASE j = i
      BY <1>3, <3>1
    <3>2. CASE j # i
      <4>1. s[j] = child[l][j] /\ j \in DOMAIN child[l]
        BY <1>3, <3>2
      <4> QED
        BY <1>1, <4>1 DEF Dialled
    <3> QED
      BY <3>1, <3>2
  <2>2. \A c : (BeyondDisplays(l, c)' <=> BeyondDisplays(l, c)) /\ (SharesFile(l, c)' <=> SharesFile(l, c))
    BY DEF BeyondDisplays, SharesFile
  <2> QED
    BY <1>5, <2>1, <2>2 DEF Dialled
<1>10. changes = 0 => Sure(l)' /\ OpenedOwn(l)'
  <2>1. Sure(l)' <=> Sure(l)
    BY DEF Sure, spent, Trying, Climbing
  <2>2. changes = 0 => OpenedOwn(l)'
    BY <1>1, <1>3, <1>5 DEF OpenedOwn, spent
  <2> QED
    BY <1>1, <2>1, <2>2
<1>11. ~Shared(l)' => Filed(l)' /\ Lent(l)'
  <2>1. (Shared(l)' <=> Shared(l)) /\ (Ours(l)' <=> Ours(l)) /\ (Filed(l)' <=> Filed(l))
    BY DEF Shared, Ours, PathOf, Filed, Climbing
  <2>2. Lent(l) => Lent(l)'
    <3> SUFFICES ASSUME Lent(l), NEW j \in DOMAIN s, s[j].carries = "file", s[j].state = "started"
                 PROVE  Ours(l)
      BY <1>5, <2>1 DEF Lent
    <3>1. j # i
      BY <1>3
    <3> QED
      BY <1>3, <3>1 DEF Lent
  <2> QED
    BY <1>1, <2>1, <2>2
<1>12. PathOf(l)' = PathOf(l) /\ faults' >= faults /\ changes' = changes
       /\ \A m \in Launches \ {l} : launch'[m] = launch[m] /\ child'[m] = child[m]
  BY <1>5, <1>6 DEF PathOf, spent, LaunchTypeOK
<1> QED
  BY <1>6, <1>8, <1>9, <1>10, <1>11, <1>12, OneMoves

(* Where it dials.                                                         *)
LEMMA OwnDisplay ==
    ASSUME NEW port \in u16, ~(port < 100 \/ port >= 6000)
    PROVE  TigerVncDials(port) = port
  BY DEF TigerVncDials, u16

LEMMA DialsNat ==
    ASSUME LaunchesInv, NEW l \in Launches, NEW c \in Process, PathOf(l) \in Paths
    PROVE  Dials(l, c) \in Nat
<1>1. \A m \in Launches : AddressOf(m) \in u16 /\ AddressOf(m) \in Nat
  <2>1. ASSUME NEW m \in Launches PROVE AddressOf(m) \in u16
    <3>1. launch[m] \in Requested
      BY LaunchIs
    <3>2. launch[m].port \in u16
      BY <3>1 DEF Requested
    <3> QED
      BY <3>2 DEF AddressOf
  <2>2. \A n \in u16 : n \in Nat
    BY DEF u16
  <2> QED
    BY <2>1, <2>2
<1>2. TigerVncDials(AddressOf(l)) \in Nat
  <2>1. \A port \in Nat : TigerVncDials(port) \in Nat
    BY DEF TigerVncDials
  <2> QED
    BY <1>1, <2>1
<1>3. CASE c.carries = "file"
  <2> DEFINE f == file[PathOf(l)]
  <2>1. CASE f.of # 0 /\ f.whole
    <3>1. f \in [of : 0..MaxLaunches, whole : BOOLEAN, old : BOOLEAN]
      BY FileTypes
    <3>2. f.of \in Launches
      BY <2>1, <3>1, LaunchersAssumption DEF Launches
    <3> QED
      BY <1>1, <1>3, <2>1, <3>2 DEF Dials
  <2>2. CASE ~(f.of # 0 /\ f.whole)
    BY <1>3, <2>2 DEF Dials
  <2> QED
    BY <2>1, <2>2
<1>4. CASE c.carries # "file"
  <2>1. CASE c.carries = "display"
    BY <1>2, <2>1 DEF Dials
  <2>2. CASE c.carries = "address"
    BY <1>1, <2>2 DEF Dials
  <2>3. CASE c.carries = "plain"
    BY <2>3 DEF Dials
  <2> QED
    BY <1>4, <2>1, <2>2, <2>3 DEF Process
<1> QED
  BY <1>3, <1>4

LEMMA OpenedOne ==
    ASSUME LaunchesInv, NEW l \in Launches, NEW i \in DOMAIN child[l], Opens(l, i)
    PROVE  LaunchesInv'
<1> DEFINE c == child[l][i]
           r == [c EXCEPT !.state = "open", !.dialled = Dials(l, c)]
<1>1. /\ c \in Process /\ launch[l].pc = "launched" /\ launch[l] \in Requested
      /\ ~Shared(l) => Lent(l)
  BY LaunchIs, LenProperties, ElementOfSeq
<1>2. c.state = "started" /\ child' = [child EXCEPT ![l][i] = r]
      /\ UNCHANGED <<platform, installed, launch, file, spent>>
  BY DEF Opens, Child
<1>3. PathOf(l) \in Paths /\ Dials(l, c) \in Nat
  BY <1>1, PathIs, DialsNat
<1>4. /\ r \in Process /\ r.client = c.client /\ r.opens = c.opens /\ r.carries = c.carries
      /\ r.state = "open" /\ r.dialled = Dials(l, c)
  BY <1>1, <1>3 DEF Process
<1>5. ASSUME c.carries # "plain", ~BeyondDisplays(l, c), ~SharesFile(l, c)
      PROVE  Dials(l, c) = launch[l].port
  <2>1. CASE c.carries = "file"
    <3>1. ~Shared(l)
      BY <1>5, <2>1 DEF SharesFile, Shared, PathOf
    <3>2. file[PathOf(l)] = [of |-> l, whole |-> TRUE, old |-> FALSE] /\ l # 0
      <4>1. Ours(l)
        BY <1>1, <1>2, <2>1, <3>1 DEF Lent
      <4>2. l # 0
        BY DEF Launches
      <4> QED
        BY <4>1, <4>2 DEF Ours
    <3> QED
      BY <2>1, <3>2 DEF Dials, AddressOf
  <2>2. CASE c.carries = "display"
    <3>1. launch[l].port \in u16 /\ ~(launch[l].port < 100 \/ launch[l].port >= 6000)
      BY <1>1, <1>5, <2>2 DEF BeyondDisplays, Requested
    <3>2. Dials(l, c) = TigerVncDials(launch[l].port)
      BY <2>2 DEF Dials, AddressOf
    <3> QED
      BY <3>1, <3>2, OwnDisplay
  <2>3. CASE c.carries = "address"
    BY <2>3 DEF Dials, AddressOf
  <2> QED
    BY <1>1, <1>5, <2>1, <2>2, <2>3 DEF Process
<1>6. (BeyondDisplays(l, r) <=> BeyondDisplays(l, c)) /\ (SharesFile(l, r) <=> SharesFile(l, c))
  BY <1>4 DEF BeyondDisplays, SharesFile
<1>7. (/\ r.opens /\ r.state = "open" /\ r.carries # "plain"
       /\ ~BeyondDisplays(l, r) /\ ~SharesFile(l, r)) => r.dialled = launch[l].port
  BY <1>4, <1>5, <1>6
<1>8. r.client = child[l][i].client /\ r.opens = child[l][i].opens /\ r.state # "started"
  BY <1>4
<1>9. r \in Process
  BY <1>4
<1> HIDE DEF r, c
<1> QED
  BY <1>2, <1>7, <1>8, <1>9, ChildMoves

LEMMA EndedOne ==
    ASSUME LaunchesInv, NEW l \in Launches, NEW i \in DOMAIN child[l], Exits(l, i) \/ Reaps(l, i)
    PROVE  LaunchesInv'
<1> DEFINE c == child[l][i]
<1>1. c \in Process
  BY LaunchIs, LenProperties, ElementOfSeq
<1>2. PICK state \in {"zombie", "reaped"} :
          /\ child' = [child EXCEPT ![l][i] = [c EXCEPT !.state = state]]
          /\ UNCHANGED <<platform, installed, launch, file, spent>>
  BY DEF Exits, Reaps, Child
<1> DEFINE r == [c EXCEPT !.state = state]
<1>3. r \in Process /\ r.client = c.client /\ r.opens = c.opens /\ r.state \in {"zombie", "reaped"}
  BY <1>1 DEF Process
<1>4. child' = [child EXCEPT ![l][i] = r]
  BY <1>2
<1> HIDE DEF r
<1> QED
  BY <1>2, <1>3, <1>4, ChildMoves

LEMMA Reinstalled ==
    ASSUME LaunchesInv, NEW x \in Installable, InstallOrRemove(x)
    PROVE  LaunchesInv'
<1>1. /\ changes' = changes + 1 /\ faults' = faults /\ restarts' = restarts /\ Mishap
      /\ UNCHANGED <<platform, launch, child, file>>
      /\ installed' = IF x \in installed THEN installed \ {x} ELSE installed \union {x}
  BY DEF InstallOrRemove
<1>2. LaunchTypeOK' /\ changes' # 0
  <2>1. /\ faults \in Nat /\ changes \in Nat /\ restarts \in Nat /\ MaxMishaps \in Nat
        /\ installed \subseteq Installable
    BY LaunchersAssumption DEF LaunchesInv, LaunchTypeOK
  <2>2. /\ faults' \in Nat /\ changes' \in Nat /\ restarts' \in Nat /\ changes' # 0
        /\ faults' + changes' + restarts' <= MaxMishaps
    BY <1>1, <2>1 DEF Mishap
  <2>3. installed' \subseteq Installable
    BY <1>1, <2>1
  <2> QED
    BY <1>1, <2>2, <2>3 DEF LaunchesInv, LaunchTypeOK
<1>3. ASSUME NEW l \in Launches
      PROVE  Placed(l)' /\ OneEach(l)' /\ Dialled(l)' /\ (~Shared(l)' => Filed(l)' /\ Lent(l)')
  <2>1. Placed(l) /\ OneEach(l) /\ Dialled(l) /\ (~Shared(l) => Filed(l) /\ Lent(l))
    BY LaunchIs
  <2>2. Placed(l)' /\ OneEach(l)'
    BY <1>1, <2>1 DEF Placed, OneEach, Trying, Climbing
  <2>3. Dialled(l)'
    BY <1>1, <2>1 DEF Dialled, BeyondDisplays, SharesFile
  <2>4. ~Shared(l)' => Filed(l)' /\ Lent(l)'
    BY <1>1, <2>1 DEF Shared, Filed, Lent, Ours, PathOf, Climbing
  <2> QED
    BY <2>2, <2>3, <2>4
<1> QED
  BY <1>2, <1>3 DEF LaunchesInv

LEMMA HourPassed == ASSUME LaunchesInv, HourPasses PROVE LaunchesInv'
<1>1. /\ file' = [p \in Paths |-> [file[p] EXCEPT !.old = file[p].of # 0]]
      /\ UNCHANGED <<platform, installed, launch, child, spent>>
      /\ \A l \in Launches : ~Running(l) /\ \A i \in DOMAIN child[l] : child[l][i].state # "started"
  BY DEF HourPasses
<1>2. file' \in [Paths -> [of : 0..MaxLaunches, whole : BOOLEAN, old : BOOLEAN]]
  <2>1. ASSUME NEW p \in Paths
        PROVE  [file[p] EXCEPT !.old = file[p].of # 0] \in [of : 0..MaxLaunches, whole : BOOLEAN, old : BOOLEAN]
    <3>1. file[p] \in [of : 0..MaxLaunches, whole : BOOLEAN, old : BOOLEAN]
      BY FileTypes
    <3> QED
      BY <3>1
  <2> QED
    BY <1>1, <2>1
<1>3. LaunchTypeOK'
  BY <1>1, <1>2 DEF LaunchesInv, LaunchTypeOK, spent
<1>4. ASSUME NEW l \in Launches
      PROVE  /\ Placed(l)' /\ OneEach(l)' /\ Dialled(l)' /\ Filed(l)' /\ Lent(l)'
             /\ changes' = 0 => Sure(l)' /\ OpenedOwn(l)'
  <2>1. /\ Placed(l) /\ OneEach(l) /\ Dialled(l)
        /\ changes = 0 => Sure(l) /\ OpenedOwn(l)
    BY LaunchIs
  <2>2. Placed(l)' /\ OneEach(l)'
    BY <1>1, <2>1 DEF Placed, OneEach, Trying, Climbing
  <2>3. Dialled(l)'
    BY <1>1, <2>1 DEF Dialled, BeyondDisplays, SharesFile
  <2>4. changes' = 0 => Sure(l)' /\ OpenedOwn(l)'
    BY <1>1, <2>1 DEF Sure, OpenedOwn, Trying, Climbing, spent
  <2>5. Filed(l)' /\ Lent(l)'
    BY <1>1 DEF Filed, Lent, Climbing, Running
  <2> QED
    BY <2>2, <2>3, <2>4, <2>5
<1> QED
  BY <1>3, <1>4 DEF LaunchesInv

(* What a restart makes of a process.                                      *)
Orphan(s) ==
    [i \in DOMAIN s |-> [s[i] EXCEPT !.reaper = "system", !.state = IF @ = "zombie" THEN "reaped" ELSE @]]

LEMMA Orphaned ==
    ASSUME NEW s \in Seq(Process), NEW t, t = Orphan(s)
    PROVE  /\ t \in Seq(Process) /\ Len(t) = Len(s) /\ DOMAIN t = DOMAIN s
           /\ s = <<>> => t = <<>>
           /\ \A i \in DOMAIN s :
                 /\ t[i].client = s[i].client /\ t[i].carries = s[i].carries /\ t[i].opens = s[i].opens
                 /\ t[i].dialled = s[i].dialled
                 /\ t[i].state = IF s[i].state = "zombie" THEN "reaped" ELSE s[i].state
<1>1. Len(s) \in Nat /\ DOMAIN s = 1..Len(s)
  BY LenProperties
<1>2. ASSUME NEW i \in DOMAIN s
      PROVE  /\ t[i] \in Process
             /\ t[i].client = s[i].client /\ t[i].carries = s[i].carries /\ t[i].opens = s[i].opens
             /\ t[i].dialled = s[i].dialled
             /\ t[i].state = IF s[i].state = "zombie" THEN "reaped" ELSE s[i].state
  <2>1. s[i] \in Process
    BY <1>1, ElementOfSeq
  <2>2. t[i] = [s[i] EXCEPT !.reaper = "system",
                            !.state = IF s[i].state = "zombie" THEN "reaped" ELSE s[i].state]
    BY DEF Orphan
  <2>3. (IF s[i].state = "zombie" THEN "reaped" ELSE s[i].state) \in {"started", "open", "zombie", "reaped"}
    BY <2>1 DEF Process
  <2> QED
    BY <2>1, <2>2, <2>3 DEF Process
<1>3. t \in [1..Len(s) -> Process] /\ DOMAIN t = DOMAIN s
  BY <1>1, <1>2 DEF Orphan
<1>4. t \in Seq(Process) /\ Len(t) = Len(s)
  <2>1. t \in Seq(Process)
    BY <1>1, <1>3, SeqDef
  <2> QED
    BY <1>1, <1>3, <2>1, LenProperties
<1>5. s = <<>> => t = <<>>
  BY <1>4, EmptySeq
<1> QED
  BY <1>2, <1>3, <1>4, <1>5

LEMMA Restarted == ASSUME LaunchesInv, Restart PROVE LaunchesInv'
<1>1. /\ launch' = [l \in Launches |-> IF Running(l) THEN [launch[l] EXCEPT !.pc = "gone"] ELSE launch[l]]
      /\ file' = cleanup_old_config_files
      /\ UNCHANGED <<platform, installed, faults, changes>> /\ restarts' = restarts + 1 /\ Mishap
  BY DEF Restart
<1>2. ASSUME NEW l \in Launches
      PROVE  /\ launch'[l] \in Requested
             /\ launch'[l].name = launch[l].name /\ launch'[l].ask = launch[l].ask
             /\ launch'[l].port = launch[l].port
             /\ launch'[l].pc = IF Running(l) THEN "gone" ELSE launch[l].pc
  <2>1. launch[l] \in Requested
    BY LaunchIs
  <2>2. [launch[l] EXCEPT !.pc = "gone"] \in Requested
    BY <2>1 DEF Requested
  <2> QED
    BY <1>1, <2>1, <2>2 DEF Requested
<1>3. ASSUME NEW l \in Launches
      PROVE  /\ child'[l] \in Seq(Process) /\ Len(child'[l]) = Len(child[l]) /\ DOMAIN child'[l] = DOMAIN child[l]
             /\ child[l] = <<>> => child'[l] = <<>>
             /\ \A i \in DOMAIN child[l] :
                   /\ child'[l][i].client = child[l][i].client /\ child'[l][i].carries = child[l][i].carries
                   /\ child'[l][i].opens = child[l][i].opens /\ child'[l][i].dialled = child[l][i].dialled
                   /\ child'[l][i].state = IF child[l][i].state = "zombie" THEN "reaped" ELSE child[l][i].state
  <2>1. child[l] \in Seq(Process)
    BY LaunchIs
  <2>2. child'[l] = Orphan(child[l])
    BY DEF Restart, Orphan
  <2> QED
    BY <2>1, <2>2, Orphaned
<1>4. ASSUME NEW p \in Paths
      PROVE  /\ file'[p] \in [of : 0..MaxLaunches, whole : BOOLEAN, old : BOOLEAN]
             /\ ~file[p].old => file'[p] = file[p]
  <2>1. NoFile \in [of : 0..MaxLaunches, whole : BOOLEAN, old : BOOLEAN]
    BY LaunchersAssumption DEF NoFile
  <2>2. file[p] \in [of : 0..MaxLaunches, whole : BOOLEAN, old : BOOLEAN]
    BY FileTypes
  <2> QED
    BY <1>1, <2>1, <2>2 DEF cleanup_old_config_files
<1>5. LaunchTypeOK'
  <2>1. launch' \in [Launches -> Requested]
    BY <1>1, <1>2
  <2>2. child' \in [Launches -> Seq(Process)]
    BY <1>3 DEF Restart
  <2>3. file' \in [Paths -> [of : 0..MaxLaunches, whole : BOOLEAN, old : BOOLEAN]]
    BY <1>1, <1>4 DEF cleanup_old_config_files
  <2>4. /\ faults' \in Nat /\ changes' \in Nat /\ restarts' \in Nat
        /\ faults' + changes' + restarts' <= MaxMishaps
    BY <1>1, LaunchersAssumption DEF Mishap, LaunchesInv, LaunchTypeOK
  <2> QED
    BY <1>1, <2>1, <2>2, <2>3, <2>4 DEF LaunchesInv, LaunchTypeOK
<1>6. \A l \in Launches : PathOf(l)' = PathOf(l)
  BY <1>2 DEF PathOf
<1>7. ASSUME NEW l \in Launches
      PROVE  /\ Placed(l)' /\ OneEach(l)' /\ Dialled(l)'
             /\ changes' = 0 => Sure(l)' /\ OpenedOwn(l)'
             /\ ~Shared(l)' => Filed(l)' /\ Lent(l)'
  <2>1. /\ Placed(l) /\ OneEach(l) /\ Dialled(l)
        /\ changes = 0 => Sure(l) /\ OpenedOwn(l)
        /\ ~Shared(l) => Filed(l) /\ Lent(l)
        /\ launch[l].pc # "launched" => child[l] = <<>>
        /\ launch[l] \in Requested
    BY LaunchIs
  <2>2. launch'[l].pc \in {"idle", "launched", "failed", "gone"}
        /\ (launch'[l].pc = "launched" <=> launch[l].pc = "launched")
        /\ (launch'[l].pc = "idle" <=> launch[l].pc = "idle")
    BY <1>2 DEF Running
  <2>3. ~Trying(l)' /\ ~Climbing(l)'
    BY <2>2 DEF Trying, Climbing
  <2>4. Placed(l)'
    <3>1. /\ launch'[l].pc # "idle" => launch'[l].name \in Names
          /\ launch'[l].pc # "idle" /\ launch'[l].ask.family = "db" => launch'[l].ask.kind # "none"
      BY <1>2, <2>1, <2>2 DEF Placed
    <3>2. launch'[l].pc \notin {"idle", "default", "gone"} =>
              launch'[l].ask.preferred \in ClientsFor(launch'[l].ask.family)
      <4> SUFFICES ASSUME launch'[l].pc \notin {"idle", "default", "gone"}
                   PROVE  launch[l].pc \notin {"idle", "default", "gone"}
        BY <1>2, <2>1 DEF Placed
      <4> QED
        BY <1>2, <2>2 DEF Running
    <3> QED
      BY <2>2, <2>3, <3>1, <3>2 DEF Placed
  <2>5. OneEach(l)'
    BY <1>3, <2>1, <2>2 DEF OneEach
  <2>6. ASSUME NEW i \in DOMAIN child[l],
               child'[l][i].opens, child'[l][i].state = "open", child'[l][i].carries # "plain",
               ~(child'[l][i].carries = "display" /\ (launch'[l].port < 100 \/ launch'[l].port >= 6000)),
               ~(/\ child'[l][i].carries = "file"
                 /\ \E m \in Launches \ {l} : /\ launch'[m].name = launch'[l].name
                                              /\ launch'[m].ask.family = launch'[l].ask.family)
        PROVE  child'[l][i].dialled = launch'[l].port
    <3>1. /\ child[l][i].opens /\ child[l][i].state = "open" /\ child[l][i].carries # "plain"
          /\ child'[l][i].carries = child[l][i].carries
      BY <1>3, <2>6
    <3>2. ~BeyondDisplays(l, child[l][i])
      BY <1>2, <2>6, <3>1 DEF BeyondDisplays
    <3>3. ~SharesFile(l, child[l][i])
      BY <1>2, <2>6, <3>1 DEF SharesFile
    <3>4. child[l][i].dialled = launch[l].port
      BY <2>1, <3>1, <3>2, <3>3 DEF Dialled
    <3> QED
      BY <1>2, <1>3, <3>4
  <2>7. Dialled(l)'
    <3>1. DOMAIN child'[l] = DOMAIN child[l]
      BY <1>3
    <3> QED
      BY ONLY <2>6, <3>1 DEF Dialled, BeyondDisplays, SharesFile
  <2>8. changes' = 0 => Sure(l)' /\ OpenedOwn(l)'
    <3>1. Sure(l)'
      BY <2>2, <2>3 DEF Sure
    <3>2. changes = 0 => OpenedOwn(l)'
      BY <1>1, <1>3, <2>1 DEF OpenedOwn
    <3> QED
      BY <1>1, <3>1, <3>2
  <2>9. ~Shared(l)' => Filed(l)' /\ Lent(l)'
    <3>1. Filed(l)'
      BY <2>3 DEF Filed
    <3>2. Shared(l)' <=> Shared(l)
      BY <1>6 DEF Shared
    <3>3. ASSUME launch[l].pc # "idle", Ours(l) PROVE Ours(l)'
      <4>1. PathOf(l) \in Paths
        BY <3>3, PathIs
      <4> QED
        BY <1>4, <1>6, <3>3, <4>1 DEF Ours
    <3>4. ASSUME Lent(l) PROVE Lent(l)'
      <4> SUFFICES ASSUME NEW i \in DOMAIN child[l], child'[l][i].carries = "file", child'[l][i].state = "started"
                   PROVE  Ours(l)'
        BY <1>3 DEF Lent
      <4>1. child[l][i].carries = "file" /\ child[l][i].state = "started"
        BY <1>3
      <4>2. Ours(l)
        BY <3>4, <4>1 DEF Lent
      <4>3. launch[l].pc # "idle"
        BY LaunchIs
      <4> QED
        BY <3>3, <4>2, <4>3
    <3> QED
      BY <2>1, <3>1, <3>2, <3>4
  <2> QED
    BY <2>4, <2>5, <2>7, <2>8, <2>9
<1> QED
  BY <1>5, <1>7 DEF LaunchesInv

LEMMA LaunchesInit == LaunchInit => LaunchesInv
<1> SUFFICES ASSUME LaunchInit PROVE LaunchesInv
  OBVIOUS
<1>1. /\ launch = [l \in Launches |-> Idle] /\ child = [l \in Launches |-> <<>>]
      /\ file = [p \in Paths |-> NoFile] /\ faults = 0 /\ changes = 0 /\ restarts = 0
      /\ platform \in Platforms /\ installed \subseteq Installable
  BY DEF LaunchInit
<1>2. Idle \in Requested /\ Idle.pc = "idle"
  BY DEF Idle, Requested, Families, ClientsOf, u16
<1>3. LaunchTypeOK
  <2>1. NoFile \in [of : 0..MaxLaunches, whole : BOOLEAN, old : BOOLEAN] /\ MaxMishaps \in Nat
        /\ Platforms \subseteq {"linux", "macos"}
    BY LaunchersAssumption DEF NoFile
  <2>2. <<>> \in Seq(Process)
    BY EmptySeq
  <2> QED
    BY <1>1, <1>2, <2>1, <2>2 DEF LaunchTypeOK
<1>4. ASSUME NEW l \in Launches
      PROVE  Placed(l) /\ OneEach(l) /\ Dialled(l) /\ Sure(l) /\ OpenedOwn(l) /\ Filed(l) /\ Lent(l)
  <2>1. launch[l].pc = "idle" /\ child[l] = <<>> /\ DOMAIN <<>> = {}
    BY <1>1, <1>2
  <2>2. OneEach(l) /\ Dialled(l) /\ OpenedOwn(l) /\ Lent(l)
    BY <2>1 DEF OneEach, Dialled, OpenedOwn, Lent
  <2>3. Placed(l) /\ Sure(l) /\ Filed(l)
    BY <2>1 DEF Placed, Sure, Filed, Trying, Climbing
  <2> QED
    BY <2>2, <2>3
<1> QED
  BY <1>3, <1>4 DEF LaunchesInv

LEMMA LaunchesStep == LaunchesInv /\ [LaunchNext]_launchVars => LaunchesInv'
<1> SUFFICES ASSUME LaunchesInv, [LaunchNext]_launchVars PROVE LaunchesInv'
  OBVIOUS
<1>1. ASSUME NEW l \in Launches, Press(l) PROVE LaunchesInv'
  BY <1>1, Pressed
<1>2. ASSUME NEW l \in Launches, Step(l) PROVE LaunchesInv'
  BY <1>2, DefaultChosen, Considered, FileCreated, FileFilled, LookedFor, SpawnedOne, SpawnFailed DEF Step
<1>3. ASSUME NEW l \in Launches, NEW i \in DOMAIN child[l], Opens(l, i) \/ Exits(l, i) \/ Reaps(l, i)
      PROVE  LaunchesInv'
  BY <1>3, OpenedOne, EndedOne
<1>4. ASSUME NEW x \in Installable, InstallOrRemove(x) PROVE LaunchesInv'
  BY <1>4, Reinstalled
<1>5. ASSUME HourPasses \/ Restart PROVE LaunchesInv'
  BY <1>5, HourPassed, Restarted
<1>6. ASSUME UNCHANGED launchVars PROVE LaunchesInv'
  <2>1. UNCHANGED <<platform, installed, launch, child, file, faults, changes, restarts>>
    BY <1>6 DEF launchVars
  <2>2. LaunchTypeOK'
    BY <2>1 DEF LaunchesInv, LaunchTypeOK
  <2>3. ASSUME NEW l \in Launches
        PROVE  /\ Placed(l)' /\ OneEach(l)' /\ Dialled(l)'
               /\ changes' = 0 => Sure(l)' /\ OpenedOwn(l)'
               /\ ~Shared(l)' => Filed(l)' /\ Lent(l)'
    <3>1. /\ Placed(l) /\ OneEach(l) /\ Dialled(l)
          /\ changes = 0 => Sure(l) /\ OpenedOwn(l)
          /\ ~Shared(l) => Filed(l) /\ Lent(l)
      BY LaunchIs
    <3>2. Placed(l)' /\ OneEach(l)'
      BY <2>1, <3>1 DEF Placed, OneEach, Trying, Climbing
    <3>3. Dialled(l)'
      BY <2>1, <3>1 DEF Dialled, BeyondDisplays, SharesFile
    <3>4. changes' = 0 => Sure(l)' /\ OpenedOwn(l)'
      BY <2>1, <3>1 DEF Sure, OpenedOwn, Trying, Climbing
    <3>5. ~Shared(l)' => Filed(l)' /\ Lent(l)'
      BY <2>1, <3>1 DEF Shared, Filed, Lent, Ours, PathOf, Climbing
    <3> QED
      BY <3>2, <3>3, <3>4, <3>5
  <2> QED
    BY <2>2, <2>3 DEF LaunchesInv
<1> QED
  BY <1>1, <1>2, <1>3, <1>4, <1>5, <1>6 DEF LaunchNext

\* The launches keep to their types: every record and process is one the code
\* can make, and the mishaps stay within their bound.
THEOREM LaunchTypes == LaunchSpec => []LaunchTypeOK
<1>1. LaunchesInv => LaunchTypeOK
  BY DEF LaunchesInv
<1> QED
  BY <1>1, LaunchesInit, LaunchesStep, PTL DEF LaunchSpec

\* A launch that reports success has opened one client, and that client was
\* there; one that reports a failure has opened none (rdp_client/mod.rs,
\* vnc_client/mod.rs, db_client/mod.rs: launch_with_fallback).
THEOREM LaunchReportIsTrue == LaunchSpec => []ReportsWhatItOpened
<1>1. LaunchesInv => ReportsWhatItOpened
  <2> SUFFICES ASSUME LaunchesInv PROVE OneClientEach /\ SuccessOpens
    BY DEF ReportsWhatItOpened
  <2>1. OneClientEach
    BY LaunchIs DEF OneEach, OneClientEach
  <2>2. SuccessOpens
    <3> SUFFICES ASSUME changes = 0, NEW l \in Launches, launch[l].pc = "launched"
                 PROVE  \E i \in DOMAIN child[l] :
                            child[l][i].opens \/ (child[l][i].client = "remmina" /\ faults > 0)
      BY DEF SuccessOpens
    <3>1. OpenedOwn(l) /\ Len(child[l]) = 1 /\ child[l] \in Seq(Process)
      BY LaunchIs DEF OneEach
    <3>2. 1 \in DOMAIN child[l]
      BY <3>1, LenProperties
    <3> QED
      BY <3>1, <3>2 DEF OpenedOwn
  <2> QED
    BY <2>1, <2>2
<1> QED
  BY <1>1, LaunchesInit, LaunchesStep, PTL DEF LaunchSpec

\* A client that connects by itself is connected to the tunnel it was launched
\* for (rdp_file_contents, create_remmina_config, cleanup_old_config_files).
THEOREM ClientsDialTheirTunnel == LaunchSpec => []DialsItsTunnel
<1>1. LaunchesInv => DialsItsTunnel
  BY LaunchIs DEF Dialled, DialsItsTunnel
<1> QED
  BY <1>1, LaunchesInit, LaunchesStep, PTL DEF LaunchSpec

================================================================================
