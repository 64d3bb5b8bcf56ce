---------------------------- MODULE RelaySession ----------------------------
(***************************************************************************)
(* One native IAP tunnel session (native/src/iap_tunnel/session.rs):       *)
(* run_session bridges one local TCP connection to a VM port through       *)
(* Google's relay, over WebSockets that may break, and resumes the relay   *)
(* session with the byte counts both ends have confirmed.                  *)
(*                                                                         *)
(* Bytes are abstracted to their position: the i-th byte of the local      *)
(* stream is i on its way to the VM, the i-th byte of the VM's stream is i *)
(* on its way back.  A position that is missing, repeated or out of place  *)
(* is a lost, duplicated or reordered byte.                                *)
(*                                                                         *)
(* Client -> relay, the wire carries the bytes of the DATA frames.  Relay  *)
(* -> client it carries pieces: a DATA frame travels as a head and a tail, *)
(* every other frame as one piece, and a WebSocket message holds any       *)
(* number of consecutive pieces, so a message may split a DATA frame or    *)
(* coalesce several frames.                                                *)
(*                                                                         *)
(* The relay and the VM are outside the repository.  What is assumed of    *)
(* them: a connection delivers in order until it breaks; the relay appends *)
(* client bytes in arrival order; when a session is resumed what is still  *)
(* in flight on the old connection is discarded, the relay reports its     *)
(* byte count once, and it resends from the client's own count.            *)
(***************************************************************************)
EXTENDS Naturals, Sequences

CONSTANTS
    MaxFrame,       \* frame::MAX_DATA_FRAME_SIZE
    MaxReconnects,  \* MAX_RECONNECTS
    MaxOut,         \* bound: bytes the local application writes
    MaxIn,          \* bound: bytes the VM writes
    MaxFlight,      \* bound: pieces under way to the client
    OddFrames       \* kinds of frame the client does not expect

ASSUME ConstantsAssumption ==
    /\ MaxFrame \in Nat \ {0}
    /\ MaxReconnects \in Nat
    /\ MaxOut \in Nat
    /\ MaxIn \in Nat
    /\ MaxFlight \in Nat
    /\ OddFrames \subseteq {"unknown", "oversized"}

VARIABLES
    \* run_session and pump
    pc,         \* "connect", "wait" for a socket, "decode" pending, "ended"
    resuming,   \* inside resume_after_reconnect
    sid,        \* the relay has given us a session id
    reconnects,
    pending,    \* pieces received and not yet decoded
    result,     \* what run_session returned
    \* AckPolicy
    received, acked,
    \* OutboundBuffer
    sent, confirmed, unacked,
    \* the local socket
    taken,      \* bytes read from the local application so far
    eof,        \* the local application closed its side
    localGot,   \* bytes written to the local application
    \* the connection, and the relay with the VM behind it
    link,       \* "none", "up" or "broken"
    toClient, wire,
    greeted,    \* the relay sent its SID, or its RECONNECT_SUCCESS_ACK
    vmSent,     \* VM bytes put on this connection, or before it
    vmGot,      \* bytes the relay took for the VM
    relayAck,   \* the last count the relay acknowledged
    \* history
    recorded,   \* every byte record_sent ever saw
    ackSent     \* the highest count the client told the relay

loopVars == <<pc, resuming, sid, reconnects, pending, result>>
ackVars == <<received, acked, ackSent>>
outVars == <<sent, confirmed, unacked, recorded>>
localVars == <<taken, eof, localGot>>
relayVars == <<greeted, vmSent, vmGot, relayAck>>
linkVars == <<link, toClient, wire>>
vars == <<loopVars, ackVars, outVars, localVars, relayVars, linkVars>>

-----------------------------------------------------------------------------
(* Frames *)

Kinds == {"sid", "rsa", "ack", "head", "tail", "unknown", "oversized", "close"}

\* A head carries the bytes n + 1 .. n + len; rsa and ack carry the count n.
Piece == [kind : Kinds, n : Nat, len : Nat]

Control(k, n) == [kind |-> k, n |-> n, len |-> 0]

DataFrame(n, len) ==
    <<[kind |-> "head", n |-> n, len |-> len], Control("tail", 0)>>

\* frame::decode finds a whole frame at the front of the buffer.
Complete(buf) ==
    /\ buf # <<>>
    /\ Head(buf).kind = "head" => Len(buf) >= 2

\* What decode consumes.
FrameSize(buf) == IF Head(buf).kind = "head" THEN 2 ELSE 1

Drain(buf) == SubSeq(buf, FrameSize(buf) + 1, Len(buf))

\* The payload of the DATA frame at the front: a head completed by anything
\* but its tail decodes to bytes the VM never wrote, shown as 0.
Payload(buf) ==
    [i \in 1..Head(buf).len |->
        IF buf[2].kind = "tail" THEN Head(buf).n + i ELSE 0]

Positions(n, len) == [i \in 1..len |-> n + i]

Lesser(m, n) == IF m < n THEN m ELSE n

Greater(m, n) == IF m < n THEN n ELSE m

-----------------------------------------------------------------------------
(* AckPolicy and OutboundBuffer *)

AckDue(r) == r - acked > 2 * MaxFrame

\* Mutant: drain(..=n), one byte more than the count adds.
RelayAckedDropsOneMore(n) ==
    LET c == Lesser(n, sent) IN
    IF n <= confirmed
    THEN UNCHANGED <<confirmed, unacked>>
    ELSE /\ confirmed' = c
         /\ unacked' = SubSeq(unacked, c - confirmed + 2, Len(unacked))

\* on_relay_ack: an old count changes nothing, one past the end is clamped.
RelayAcked(n) ==
    LET c == Lesser(n, sent) IN
    IF n <= confirmed
    THEN UNCHANGED <<confirmed, unacked>>
    ELSE /\ confirmed' = c
         /\ unacked' = SubSeq(unacked, c - confirmed + 1, Len(unacked))

\* Mutant: nothing is resent.
ResendNothing(n) == SubSeq(unacked', 1, 0)

\* bytes_to_resend once on_relay_ack(n) has run.
Resend(n) ==
    LET from == Lesser(Greater(n, confirmed'), sent)
    IN  SubSeq(unacked', from - confirmed' + 1, Len(unacked'))

\* Where frame::chunks may stop: a send fails between two chunks.
ChunkEnds(s) == {j \in 0..Len(s) : j = Len(s) \/ j % MaxFrame = 0}

-----------------------------------------------------------------------------
Init ==
    /\ pc = "connect" /\ resuming = FALSE /\ sid = FALSE
    /\ reconnects = 0 /\ pending = <<>> /\ result = "none"
    /\ received = 0 /\ acked = 0 /\ ackSent = 0
    /\ sent = 0 /\ confirmed = 0 /\ unacked = <<>> /\ recorded = <<>>
    /\ taken = 0 /\ eof = FALSE /\ localGot = <<>>
    /\ greeted = FALSE /\ vmSent = 0 /\ vmGot = <<>> /\ relayAck = 0
    /\ link = "none" /\ toClient = <<>> /\ wire = <<>>

-----------------------------------------------------------------------------
(* run_session *)

\* The session returns r.  The socket is dropped: what it had received is
\* gone, what it had sent may still arrive.
Return(r) ==
    /\ pc' = "ended"
    /\ result' = r
    /\ link' = "none"
    /\ toClient' = <<>>
    /\ UNCHANGED reconnects

\* pump returned Ok(false): reconnect if there is a session to resume and
\* attempts are left.
Dropped ==
    IF sid /\ reconnects < MaxReconnects
    THEN /\ pc' = "connect"
         /\ reconnects' = reconnects + 1
         /\ link' = "none"
         /\ toClient' = <<>>
         /\ UNCHANGED result
    ELSE Return("error")

\* Mutant: the partial inbound frame survives the reconnect.
ConnectKeepsPartial ==
    /\ pc = "connect"
    /\ resuming' = sid
    /\ pc' = "wait"
    /\ link' = "up"
    /\ toClient' = <<>>
    /\ wire' = <<>>
    /\ greeted' = FALSE
    /\ ackSent' = IF sid THEN Greater(ackSent, received) ELSE ackSent
    /\ vmSent' = IF sid THEN received ELSE vmSent
    /\ UNCHANGED <<sid, reconnects, pending, result, received, acked, outVars,
                   localVars, vmGot, relayAck>>

\* The top of the loop: a reconnect forgets the partial inbound frame and
\* names the bytes received so far; the relay drops the old connection and
\* resumes from there.
Connect ==
    /\ pc = "connect"
    /\ pending' = IF sid THEN <<>> ELSE pending
    /\ resuming' = sid
    /\ pc' = "wait"
    /\ link' = "up"
    /\ toClient' = <<>>
    /\ wire' = <<>>
    /\ greeted' = FALSE
    /\ ackSent' = IF sid THEN Greater(ackSent, received) ELSE ackSent
    /\ vmSent' = IF sid THEN received ELSE vmSent
    /\ UNCHANGED <<sid, reconnects, result, received, acked, outVars,
                   localVars, vmGot, relayAck>>

\* The relay refuses, or cannot be reached: also fatal when reconnecting.
ConnectFail ==
    /\ pc = "connect"
    /\ Return("error")
    /\ pending' = IF sid THEN <<>> ELSE pending
    /\ UNCHANGED <<resuming, sid, ackVars, outVars, localVars, relayVars, wire>>

-----------------------------------------------------------------------------
(* The relay branch of pump's select!, and resume_after_reconnect *)

\* ws.next() yields None or an error.
RelayGone ==
    /\ pc = "wait"
    /\ link = "broken"
    /\ Dropped
    /\ UNCHANGED <<resuming, sid, pending, ackVars, outVars, localVars,
                   relayVars, wire>>

\* ws.next() yields a Close frame.
ReadClose ==
    /\ pc = "wait"
    /\ toClient # <<>>
    /\ Head(toClient).kind = "close"
    /\ Return("ok")
    /\ UNCHANGED <<resuming, sid, pending, ackVars, outVars, localVars,
                   relayVars, wire>>

\* ws.next() yields a binary message of k pieces.
ReadMessage(k) ==
    /\ pc = "wait"
    /\ k <= Len(toClient)
    /\ \A i \in 1..k : toClient[i].kind # "close"
    /\ pending' = pending \o SubSeq(toClient, 1, k)
    /\ toClient' = SubSeq(toClient, k + 1, Len(toClient))
    /\ pc' = "decode"
    /\ UNCHANGED <<resuming, sid, reconnects, result, ackVars, outVars,
                   localVars, relayVars, link, wire>>

\* The decode loop finds no complete frame: back to the sockets.
DecodeNothing ==
    /\ pc = "decode"
    /\ ~Complete(pending)
    /\ pc' = "wait"
    /\ UNCHANGED <<resuming, sid, reconnects, pending, result, ackVars, outVars,
                   localVars, relayVars, linkVars>>

\* The frame at the front of the buffer is of kind k, and is drained.
Decoding(k) ==
    /\ pc = "decode"
    /\ Complete(pending)
    /\ Head(pending).kind = k
    /\ pending' = Drain(pending)

DecodeSid ==
    /\ Decoding("sid")
    /\ sid' = TRUE
    /\ UNCHANGED <<pc, resuming, reconnects, result, ackVars, outVars,
                   localVars, relayVars, linkVars>>

DecodeUnknown ==
    /\ Decoding("unknown")
    /\ UNCHANGED <<pc, resuming, sid, reconnects, result, ackVars, outVars,
                   localVars, relayVars, linkVars>>

\* decode refuses a payload over the limit: the session fails.
DecodeOversized ==
    /\ pc = "decode"
    /\ Complete(pending)
    /\ Head(pending).kind = "oversized"
    /\ Return("error")
    /\ UNCHANGED <<resuming, sid, pending, ackVars, outVars, localVars,
                   relayVars, wire>>

DecodeAck ==
    /\ Decoding("ack")
    /\ RelayAcked(Head(pending).n)
    /\ UNCHANGED <<pc, resuming, sid, reconnects, result, ackVars, sent,
                   recorded, localVars, relayVars, linkVars>>

\* Mutant: the ACK goes out before the write to the local socket.
DecodeDataWriteFailsAcked ==
    LET r == received + Head(pending).len IN
    /\ Decoding("head")
    /\ received' = r
    /\ acked' = IF AckDue(r) THEN r ELSE acked
    /\ ackSent' = IF AckDue(r) THEN Greater(ackSent, r) ELSE ackSent
    /\ Return("ok")
    /\ UNCHANGED <<resuming, sid, outVars, localVars, relayVars, wire>>

\* DATA: count it, write it to the local socket, acknowledge past the threshold.
DecodeData ==
    LET r == received + Head(pending).len IN
    /\ Decoding("head")
    /\ received' = r
    /\ localGot' = localGot \o Payload(pending)
    /\ \/ /\ ~AckDue(r)
          /\ UNCHANGED <<pc, reconnects, result, acked, ackSent, link, toClient>>
       \/ /\ AckDue(r)
          /\ acked' = r
          /\ ackSent' = Greater(ackSent, r)
          /\ UNCHANGED <<pc, reconnects, result, link, toClient>>
       \/ /\ AckDue(r)
          /\ link = "broken"
          /\ acked' = r
          /\ Dropped
          /\ UNCHANGED ackSent
    /\ UNCHANGED <<resuming, sid, outVars, taken, eof, relayVars, wire>>

\* DATA the local application no longer takes: the session ends.
DecodeDataWriteFails ==
    /\ Decoding("head")
    /\ received' = received + Head(pending).len
    /\ Return("ok")
    /\ UNCHANGED <<resuming, sid, acked, ackSent, outVars, localVars,
                   relayVars, wire>>

\* RECONNECT_SUCCESS_ACK: drop what the relay confirms and resend the rest.
\* resume_after_reconnect then returns, even if pending holds more frames.
DecodeResumed ==
    /\ Decoding("rsa")
    /\ RelayAcked(Head(pending).n)
    /\ LET again == Resend(Head(pending).n) IN
       \/ /\ wire' = wire \o again
          /\ resuming' = FALSE
          /\ pc' = IF resuming THEN "wait" ELSE "decode"
          /\ UNCHANGED <<reconnects, result, link, toClient>>
       \/ /\ link = "broken"
          /\ \E j \in ChunkEnds(again) \ {Len(again)} :
                wire' = wire \o SubSeq(again, 1, j)
          /\ Dropped
          /\ UNCHANGED resuming
    /\ UNCHANGED <<sid, ackVars, sent, recorded, localVars, relayVars>>

-----------------------------------------------------------------------------
(* The local branch of pump's select! *)

\* Mutant: local data is read while the session is resuming.
LocalReadDuringResume(n) ==
    /\ pc = "wait"
    /\ ~eof
    /\ taken + n <= MaxOut
    /\ taken' = taken + n
    /\ wire' = wire \o Positions(taken, n)
    /\ recorded' = recorded \o Positions(taken, n)
    /\ unacked' = unacked \o Positions(taken, n)
    /\ sent' = sent + n
    /\ UNCHANGED <<loopVars, ackVars, confirmed, eof, localGot, relayVars,
                   link, toClient>>

\* A read of n bytes, sent as one chunk and then recorded.
LocalRead(n) ==
    /\ pc = "wait" /\ ~resuming
    /\ ~eof
    /\ taken + n <= MaxOut
    /\ taken' = taken + n
    /\ wire' = wire \o Positions(taken, n)
    /\ recorded' = recorded \o Positions(taken, n)
    /\ unacked' = unacked \o Positions(taken, n)
    /\ sent' = sent + n
    /\ UNCHANGED <<loopVars, ackVars, confirmed, eof, localGot, relayVars,
                   link, toClient>>

\* A read of n bytes whose send fails: pump returns before record_sent.
LocalReadSendFails(n) ==
    /\ pc = "wait" /\ ~resuming
    /\ ~eof
    /\ taken + n <= MaxOut
    /\ taken' = taken + n
    /\ link = "broken"
    /\ Dropped
    /\ UNCHANGED <<resuming, sid, pending, ackVars, outVars, eof, localGot,
                   relayVars, wire>>

\* Mutant: a read of 0 bytes is taken for a read of nothing yet.
LocalEofIgnored == pc = "wait" /\ ~resuming /\ eof /\ UNCHANGED vars

LocalEof ==
    /\ pc = "wait" /\ ~resuming
    /\ eof
    /\ Return("ok")
    /\ UNCHANGED <<resuming, sid, pending, ackVars, outVars, localVars,
                   relayVars, wire>>

LocalReadError ==
    /\ pc = "wait" /\ ~resuming
    /\ Return("error")
    /\ UNCHANGED <<resuming, sid, pending, ackVars, outVars, localVars,
                   relayVars, wire>>

-----------------------------------------------------------------------------
(* The local application, the relay and the network *)

LocalClose ==
    /\ ~eof
    /\ pc # "ended"
    /\ eof' = TRUE
    /\ UNCHANGED <<loopVars, ackVars, outVars, taken, localGot, relayVars, linkVars>>

\* The relay can put pieces on the connection.
Open ==
    /\ link = "up"
    /\ toClient # <<>> => toClient[Len(toClient)].kind # "close"

Say(pieces) ==
    /\ Open
    /\ toClient' = toClient \o pieces
    /\ UNCHANGED <<loopVars, ackVars, outVars, localVars, link, wire, vmGot>>

RelayConfirms ==
    /\ ~greeted /\ ~resuming
    /\ Say(<<Control("sid", 0)>>)
    /\ greeted' = TRUE
    /\ UNCHANGED <<vmSent, relayAck>>

RelayResumes ==
    /\ ~greeted /\ resuming
    /\ Say(<<Control("rsa", Len(vmGot))>>)
    /\ greeted' = TRUE
    /\ relayAck' = Len(vmGot)
    /\ UNCHANGED vmSent

RelaySendsData(n) ==
    /\ greeted \/ resuming
    /\ vmSent + n <= MaxIn
    /\ Len(toClient) + 2 <= MaxFlight
    /\ Say(DataFrame(vmSent, n))
    /\ vmSent' = vmSent + n
    /\ UNCHANGED <<greeted, relayAck>>

RelayAcks ==
    /\ greeted
    /\ relayAck < Len(vmGot)
    /\ Say(<<Control("ack", Len(vmGot))>>)
    /\ relayAck' = Len(vmGot)
    /\ UNCHANGED <<greeted, vmSent>>

RelaySendsOdd(k) ==
    /\ greeted
    /\ toClient = <<>>
    /\ Say(<<Control(k, 0)>>)
    /\ UNCHANGED <<greeted, vmSent, relayAck>>

RelayCloses ==
    /\ Say(<<Control("close", 0)>>)
    /\ UNCHANGED <<greeted, vmSent, relayAck>>

RelayReceives(n) ==
    /\ n <= Len(wire)
    /\ vmGot' = vmGot \o SubSeq(wire, 1, n)
    /\ wire' = SubSeq(wire, n + 1, Len(wire))
    /\ UNCHANGED <<loopVars, ackVars, outVars, localVars, greeted, vmSent,
                   relayAck, link, toClient>>

\* Nothing more reaches the client; a send may fail or go unnoticed.
LinkBreaks ==
    /\ link = "up"
    /\ link' = "broken"
    /\ UNCHANGED <<loopVars, ackVars, outVars, localVars, relayVars, toClient, wire>>

-----------------------------------------------------------------------------
Session ==
    \/ Connect \/ ConnectFail
    \/ RelayGone \/ ReadClose
    \/ \E k \in 1..Len(toClient) : ReadMessage(k)
    \/ DecodeNothing \/ DecodeSid \/ DecodeUnknown \/ DecodeOversized
    \/ DecodeAck \/ DecodeData \/ DecodeDataWriteFails \/ DecodeResumed
    \/ LocalEof

LocalSide ==
    \/ \E n \in 1..MaxFrame : LocalRead(n) \/ LocalReadSendFails(n)
    \/ LocalReadError
    \/ LocalClose

Relay ==
    \/ RelayConfirms \/ RelayResumes \/ RelayAcks \/ RelayCloses
    \/ \E n \in 1..MaxFrame : RelaySendsData(n)
    \/ \E k \in OddFrames : RelaySendsOdd(k)
    \/ \E n \in 1..Len(wire) : RelayReceives(n)

Next == Session \/ LocalSide \/ Relay \/ LinkBreaks

Spec == Init /\ [][Next]_vars

(***************************************************************************)
(* Fairness.  The session's task runs whenever its socket or its timer     *)
(* has something for it, and select! picks at random among the branches    *)
(* that are ready, so a relay that never stops talking does not keep it    *)
(* from the local socket for ever.  The local application and the network  *)
(* owe nothing.  Of the relay: whatever else it says, it answers a         *)
(* connection that stays up with its SID or its RECONNECT_SUCCESS_ACK, and *)
(* takes the bytes that reach it.                                          *)
(***************************************************************************)
Fairness ==
    /\ WF_vars(Session)
    /\ SF_vars(LocalEof)
    /\ SF_vars(RelayConfirms)
    /\ SF_vars(RelayResumes)
    /\ WF_vars(link = "up" /\ \E n \in 1..Len(wire) : RelayReceives(n))

FairSpec == Spec /\ Fairness

-----------------------------------------------------------------------------
(* Properties *)

\* Every variable keeps its type: the session's counters and buffers
\* (AckPolicy, OutboundBuffer, pending) and the wire in both directions.
TypeOK ==
    /\ pc \in {"connect", "wait", "decode", "ended"}
    /\ resuming \in BOOLEAN /\ sid \in BOOLEAN
    /\ reconnects \in 0..MaxReconnects
    /\ pending \in Seq(Piece)
    /\ result \in {"none", "ok", "error"}
    /\ received \in Nat /\ acked \in Nat /\ ackSent \in Nat
    /\ sent \in Nat /\ confirmed \in Nat
    /\ unacked \in Seq(Nat) /\ recorded \in Seq(Nat)
    /\ taken \in 0..MaxOut /\ eof \in BOOLEAN /\ localGot \in Seq(Nat)
    /\ greeted \in BOOLEAN /\ vmSent \in Nat
    /\ vmGot \in Seq(Nat) /\ relayAck \in Nat
    /\ link \in {"none", "up", "broken"}
    /\ toClient \in Seq(Piece) /\ wire \in Seq(Nat)

\* What the relay took, followed by what is in flight, is exactly the start of
\* what the client recorded as sent: across any number of reconnects and
\* resends nothing recorded is skipped, repeated or overtaken by newer bytes.
OutboundInOrder ==
    /\ Len(vmGot) + Len(wire) <= Len(recorded)
    /\ \A i \in 1..Len(vmGot) : vmGot[i] = recorded[i]
    /\ \A i \in 1..Len(wire) : wire[i] = recorded[Len(vmGot) + i]

\* OutboundBuffer still holds every recorded byte the relay has not taken, at
\* the place bytes_to_resend will look for it: an acknowledgement, however
\* late or repeated, never makes a byte unrecoverable.
UndeliveredIsBuffered ==
    \A i \in Len(vmGot) + 1 .. Len(recorded) :
        /\ i - confirmed \in 1..Len(unacked)
        /\ unacked[i - confirmed] = recorded[i]

\* The count the client tells the relay, in an ACK or in a reconnect URL, never
\* covers a byte the local application was not handed: the relay may free
\* every byte it was told of.
AckedWasDelivered == ackSent <= Len(localGot)

\* When the session is back waiting on its sockets it has decoded every
\* complete frame it was sent ("Other frame types arriving during this phase
\* are handled exactly as in the normal loop, so nothing is dropped").
NoFrameLeftBehind == pc = "wait" => ~Complete(pending)

\* The VM is sent the local application's stream with no hole in it ("unacked
\* outbound bytes survive a reconnect and can be resent").
NoHole == \A i \in 1..Len(vmGot) : vmGot[i] = i

\* The session implements the two byte streams of BytePipe: a resend or a
\* half-received frame never duplicates, reorders or corrupts a byte, and no
\* byte from the VM is skipped.
Pipe == INSTANCE BytePipe WITH up <- vmGot, down <- localGot, open <- pc # "ended"
PipeSpec == Pipe!Spec

\* The bytes the session recorded as sent reach the VM, however often the
\* connection breaks, unless the session ends.
RecordedReachesVM == []<>(Len(vmGot) >= Len(recorded) \/ pc = "ended")

\* A local application that closes its side ends the session, also when the
\* session is in the middle of resuming and reads only the relay.
CloseEndsSession == eof ~> pc = "ended"
=============================================================================
