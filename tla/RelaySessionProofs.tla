------------------------- MODULE RelaySessionProofs -------------------------
EXTENDS RelaySession, SequenceTheorems, TLAPS

(***************************************************************************)
(* OutboundInOrder and UndeliveredIsBuffered are not inductive: they rest  *)
(* on the buffer being the tail of what was recorded after `confirmed', on *)
(* every count the relay ever reports being one it had really reached, and *)
(* on one RECONNECT_SUCCESS_ACK at most being on its way, only while the   *)
(* session is resuming and nothing else is in flight.                      *)
(***************************************************************************)

\* OutboundBuffer is the tail of what was recorded.
BufferIsTail ==
    /\ sent = Len(recorded)
    /\ confirmed <= sent
    /\ Len(unacked) = sent - confirmed
    /\ \A i \in 1..Len(unacked) : unacked[i] = recorded[confirmed + i]

\* Every count the client has, or will read, is one the relay had reached.
CountsAreReached ==
    /\ confirmed <= Len(vmGot)
    /\ relayAck <= Len(vmGot)
    /\ \A i \in 1..Len(toClient) :
          toClient[i].kind \in {"ack", "rsa"} => toClient[i].n <= Len(vmGot)
    /\ \A i \in 1..Len(pending) :
          pending[i].kind \in {"ack", "rsa"} => pending[i].n <= Len(vmGot)

\* Where a RECONNECT_SUCCESS_ACK is, in pending or still on its way.
Rsa(q) == {i \in 1..Len(q) : q[i].kind = "rsa"}

OneResume ==
    /\ link # "none" => pc \in {"wait", "decode"}
    /\ pc \in {"connect", "ended"} => toClient = <<>>
    /\ pc \in {"wait", "decode"} =>
          /\ ~resuming \/ ~greeted => Rsa(pending) = {} /\ Rsa(toClient) = {}
          /\ \A i, j \in Rsa(pending) : i = j
          /\ \A i, j \in Rsa(toClient) : i = j
          /\ Rsa(pending) = {} \/ Rsa(toClient) = {}
          /\ \A i \in Rsa(pending) : pending[i].n = Len(vmGot)
          /\ \A i \in Rsa(toClient) : toClient[i].n = Len(vmGot)

\* Nothing is in flight while resuming, and no recorded byte is missing when not.
InFlight ==
    /\ pc \in {"wait", "decode"} /\ resuming => wire = <<>>
    /\ pc \in {"wait", "decode"} /\ ~resuming => Len(vmGot) + Len(wire) = sent
    /\ pc = "connect" /\ ~sid => recorded = <<>> /\ wire = <<>> /\ pending = <<>>

IInv ==
    /\ TypeOK
    /\ OutboundInOrder
    /\ BufferIsTail
    /\ CountsAreReached
    /\ OneResume
    /\ InFlight

-----------------------------------------------------------------------------
(* Sequences *)

\* What is left of a sequence once its first k elements are taken.
LEMMA SuffixFacts ==
    ASSUME NEW S, NEW s \in Seq(S), NEW k \in Nat, k <= Len(s)
    PROVE  /\ SubSeq(s, k + 1, Len(s)) \in Seq(S)
           /\ Len(SubSeq(s, k + 1, Len(s))) = Len(s) - k
           /\ \A i \in 1..Len(s) - k : SubSeq(s, k + 1, Len(s))[i] = s[k + i]
<1>1. \A i \in k + 1 .. Len(s) : s[i] \in S
  BY ElementOfSeq, LenProperties
<1>2. k + 1 \in Int /\ Len(s) \in Int
  BY LenProperties
<1> QED
  BY <1>1, <1>2, SubSeqProperties

\* The first k elements of a sequence.
LEMMA PrefixFacts ==
    ASSUME NEW S, NEW s \in Seq(S), NEW k \in Nat, k <= Len(s)
    PROVE  /\ SubSeq(s, 1, k) \in Seq(S)
           /\ Len(SubSeq(s, 1, k)) = k
           /\ \A i \in 1..k : SubSeq(s, 1, k)[i] = s[i]
<1>1. \A i \in 1..k : s[i] \in S
  BY ElementOfSeq, LenProperties
<1> QED
  BY <1>1, LenProperties, SubSeqProperties

\* The lesser of two numbers is one of them, and no more than either.
LEMMA LesserFacts ==
    ASSUME NEW m \in Nat, NEW n \in Nat
    PROVE  /\ Lesser(m, n) \in Nat /\ Lesser(m, n) <= m /\ Lesser(m, n) <= n
           /\ Lesser(m, n) = m \/ Lesser(m, n) = n
           /\ m <= n => Lesser(m, n) = m
BY DEF Lesser

\* The greater of two numbers is one of them, and no less than either.
LEMMA GreaterFacts ==
    ASSUME NEW m \in Nat, NEW n \in Nat
    PROVE  /\ Greater(m, n) \in Nat /\ m <= Greater(m, n) /\ n <= Greater(m, n)
           /\ Greater(m, n) = m \/ Greater(m, n) = n
           /\ n <= m => Greater(m, n) = m
BY DEF Greater

\* The positions of n bytes read after the first m.
LEMMA PositionsFacts ==
    ASSUME NEW m \in Nat, NEW n \in Nat
    PROVE  /\ Positions(m, n) \in Seq(Nat)
           /\ Len(Positions(m, n)) = n
           /\ \A i \in 1..n : Positions(m, n)[i] = m + i
BY DEF Positions

\* The payload of a DATA frame is a sequence of bytes.
LEMMA PayloadType ==
    ASSUME NEW buf \in Seq(Piece), Complete(buf)
    PROVE  Payload(buf) \in Seq(Nat)
<1>1. Head(buf) \in Piece
  BY HeadTailProperties DEF Complete
<1> QED
  BY <1>1 DEF Payload, Piece

\* Draining the frame at the front leaves a shorter sequence of pieces.
LEMMA DrainFacts ==
    ASSUME NEW buf \in Seq(Piece), Complete(buf)
    PROVE  /\ Drain(buf) \in Seq(Piece)
           /\ FrameSize(buf) \in 1..2 /\ FrameSize(buf) <= Len(buf)
           /\ Len(Drain(buf)) = Len(buf) - FrameSize(buf)
           /\ \A i \in 1..Len(Drain(buf)) : Drain(buf)[i] = buf[FrameSize(buf) + i]
           /\ Head(buf) = buf[1] /\ Head(buf) \in Piece
<1>1. FrameSize(buf) \in 1..2 /\ FrameSize(buf) <= Len(buf)
  BY LenProperties, EmptySeq DEF FrameSize, Complete
<1>2. Head(buf) = buf[1] /\ Head(buf) \in Piece
  BY HeadTailProperties DEF Complete
<1> QED
  BY <1>1, <1>2, SuffixFacts DEF Drain

-----------------------------------------------------------------------------
(* Types *)

\* on_relay_ack keeps the buffer's types.
LEMMA RelayAckedType ==
    ASSUME TypeOK, NEW n \in Nat, RelayAcked(n),
           BufferIsTail
    PROVE  /\ confirmed' \in Nat /\ unacked' \in Seq(Nat)
           /\ confirmed' = IF n <= confirmed THEN confirmed ELSE Lesser(n, sent)
           /\ confirmed <= confirmed' /\ confirmed' <= sent
           /\ Len(unacked') = sent - confirmed'
           /\ \A i \in 1..Len(unacked') : unacked'[i] = recorded[confirmed' + i]
<1>0. /\ sent \in Nat /\ confirmed \in Nat /\ confirmed <= sent
      /\ unacked \in Seq(Nat) /\ Len(unacked) = sent - confirmed
      /\ \A i \in 1..Len(unacked) : unacked[i] = recorded[confirmed + i]
  BY DEF TypeOK, BufferIsTail
<1>1. CASE n <= confirmed
  BY <1>0, <1>1 DEF RelayAcked
<1>2. CASE ~(n <= confirmed)
  <2> DEFINE c == Lesser(n, sent)
             k == c - confirmed
  <2>1. /\ k \in Nat /\ k <= Len(unacked) /\ c = confirmed + k /\ c \in Nat
        /\ c <= sent /\ Len(unacked) \in Nat
    <3>0. sent \in Nat /\ confirmed \in Nat /\ confirmed <= sent /\ confirmed < n
      BY <1>0, <1>2
    <3>1. /\ c \in Nat /\ c <= sent /\ confirmed <= c
      BY <3>0 DEF Lesser
    <3> HIDE DEF c
    <3> QED
      BY <1>0, <3>1
  <2>2. confirmed' = c /\ unacked' = SubSeq(unacked, k + 1, Len(unacked))
    BY <1>2 DEF RelayAcked
  <2> HIDE DEF k
  <2>3. /\ SubSeq(unacked, k + 1, Len(unacked)) \in Seq(Nat)
        /\ Len(SubSeq(unacked, k + 1, Len(unacked))) = Len(unacked) - k
        /\ \A i \in 1..Len(unacked) - k :
              SubSeq(unacked, k + 1, Len(unacked))[i] = unacked[k + i]
    BY <1>0, <2>1, SuffixFacts
  <2>4. \A i \in 1..Len(unacked') : unacked'[i] = recorded[confirmed' + i]
    <3>1. SUFFICES ASSUME NEW i \in 1..Len(unacked')
                   PROVE  unacked'[i] = recorded[confirmed' + i]
      OBVIOUS
    <3>2. i \in 1..Len(unacked) - k /\ k + i \in 1..Len(unacked)
      BY <1>0, <2>1, <2>2, <2>3, <3>1
    <3>3. unacked'[i] = recorded[confirmed + (k + i)]
      BY <1>0, <2>2, <2>3, <3>2
    <3>4. confirmed + (k + i) = c + i
      BY <1>0, <2>1, <3>2
    <3> QED
      BY <2>2, <3>3, <3>4
  <2>5. confirmed' = IF n <= confirmed THEN confirmed ELSE Lesser(n, sent)
    BY <1>2, <2>2
  <2> HIDE DEF c
  <2>6. /\ confirmed <= confirmed' /\ confirmed' <= sent
        /\ confirmed' \in Nat /\ unacked' \in Seq(Nat)
        /\ Len(unacked') = sent - confirmed'
    BY <1>0, <2>1, <2>2, <2>3
  <2> QED
    BY <2>4, <2>5, <2>6
<1> QED
  BY <1>1, <1>2

\* A dropped connection keeps the loop's types.
LEMMA DroppedType ==
    ASSUME TypeOK, Dropped
    PROVE  /\ pc' \in {"connect", "ended"} /\ link' = "none" /\ toClient' = <<>>
           /\ reconnects' \in 0..MaxReconnects
           /\ result' \in {"none", "ok", "error"}
           /\ pc' = "connect" => sid
BY ConstantsAssumption DEF TypeOK, Dropped, Return

\* What is resent after a count n: the records from n on, or from the first
\* one still buffered.
LEMMA ResendFacts ==
    ASSUME TypeOK, BufferIsTail, NEW n \in Nat, RelayAcked(n)
    PROVE  LET from == Lesser(Greater(n, confirmed'), sent) IN
           /\ from \in Nat /\ from <= sent
           /\ Resend(n) \in Seq(Nat)
           /\ Len(Resend(n)) = sent - from
           /\ \A i \in 1..sent - from : Resend(n)[i] = recorded[from + i]
<1> DEFINE from == Lesser(Greater(n, confirmed'), sent)
           k == from - confirmed'
<1>1. /\ confirmed' \in Nat /\ unacked' \in Seq(Nat) /\ confirmed' <= sent
      /\ Len(unacked') = sent - confirmed'
      /\ \A i \in 1..Len(unacked') : unacked'[i] = recorded[confirmed' + i]
  BY RelayAckedType
<1>2. sent \in Nat
  BY DEF TypeOK
<1>3. /\ from \in Nat /\ from <= sent /\ k \in Nat /\ k <= Len(unacked')
      /\ Len(unacked') \in Nat
  <2>1. /\ Greater(n, confirmed') \in Nat /\ confirmed' <= Greater(n, confirmed')
    BY <1>1, GreaterFacts
  <2>2. from \in Nat /\ from <= sent /\ (from = sent \/ from = Greater(n, confirmed'))
    BY <1>2, <2>1, LesserFacts
  <2> QED
    BY <1>1, <1>2, <2>1, <2>2
<1>4. Resend(n) = SubSeq(unacked', k + 1, Len(unacked'))
  BY DEF Resend
<1>5. k \in Nat /\ from = confirmed' + k
  BY <1>1, <1>2, <1>3
<1> HIDE DEF from, k
<1>6. /\ Resend(n) \in Seq(Nat)
      /\ Len(Resend(n)) = Len(unacked') - k
      /\ \A i \in 1..Len(unacked') - k : Resend(n)[i] = unacked'[k + i]
  <2>1. ASSUME NEW s \in Seq(Nat), k <= Len(s)
        PROVE  /\ SubSeq(s, k + 1, Len(s)) \in Seq(Nat)
               /\ Len(SubSeq(s, k + 1, Len(s))) = Len(s) - k
               /\ \A i \in 1..Len(s) - k : SubSeq(s, k + 1, Len(s))[i] = s[k + i]
    BY <1>3, <2>1, SuffixFacts
  <2>2. unacked' \in Seq(Nat) /\ k <= Len(unacked')
    BY <1>1, <1>3
  <2> QED
    BY <1>4, <2>1, <2>2
<1>7. \A i \in 1..sent - from : Resend(n)[i] = recorded[from + i]
  <2>1. SUFFICES ASSUME NEW i \in 1..sent - from
                 PROVE  Resend(n)[i] = recorded[from + i]
    OBVIOUS
  <2>2. i \in 1..Len(unacked') - k /\ k + i \in 1..Len(unacked')
    <3>0. /\ confirmed' \in Nat /\ sent \in Nat /\ Len(unacked') = sent - confirmed'
          /\ from \in Nat /\ from <= sent /\ k \in Nat /\ from = confirmed' + k
      BY <1>1, <1>2, <1>3, <1>5
    <3>1. Len(unacked') - k = sent - from
      <4>1. \A a, b, c, d \in Nat : d = c + b => (a - c) - b = a - d
        OBVIOUS
      <4> QED
        BY <3>0, <4>1
    <3>2. i \in Nat /\ 1 <= i /\ i <= Len(unacked') - k
      BY <2>1, <3>1
    <3> QED
      BY <1>3, <1>5, <3>2
  <2>3. Resend(n)[i] = recorded[confirmed' + (k + i)]
    BY <1>1, <1>6, <2>2
  <2>4. confirmed' + (k + i) = from + i
    BY <1>1, <1>5, <2>2
  <2> QED
    BY <2>3, <2>4
<1>8. Len(Resend(n)) = sent - from
  BY <1>1, <1>2, <1>3, <1>5, <1>6
<1> QED
  BY <1>3, <1>6, <1>7, <1>8 DEF from

\* The type invariant is preserved by every step.
LEMMA TypeStep ==
    ASSUME TypeOK, BufferIsTail, [Next]_vars
    PROVE  TypeOK'
<1> USE ConstantsAssumption
<1> USE DEF loopVars, ackVars, outVars, localVars, relayVars, linkVars, vars
<1>1. CASE Connect
  <2>1. Greater(ackSent, received) \in Nat
    BY GreaterFacts DEF TypeOK
  <2>2. pending' \in Seq(Piece) /\ toClient' \in Seq(Piece) /\ wire' \in Seq(Nat)
    BY <1>1 DEF Connect, TypeOK
  <2>3. ackSent' \in Nat /\ vmSent' \in Nat /\ resuming' \in BOOLEAN
    BY <1>1, <2>1 DEF Connect, TypeOK
  <2> QED
    BY <1>1, <2>2, <2>3 DEF Connect, TypeOK
<1>2. CASE ConnectFail
  BY <1>2 DEF ConnectFail, Return, TypeOK
<1>0. Dropped =>
         /\ pc' \in {"connect", "wait", "decode", "ended"}
         /\ reconnects' \in 0..MaxReconnects
         /\ result' \in {"none", "ok", "error"}
         /\ link' \in {"none", "up", "broken"}
         /\ toClient' \in Seq(Piece)
  BY DroppedType
<1>3. CASE RelayGone
  BY <1>0, <1>3 DEF RelayGone, TypeOK
<1>4. CASE ReadClose
  BY <1>4 DEF ReadClose, Return, TypeOK
<1>5. ASSUME NEW k \in 1..Len(toClient), ReadMessage(k)
      PROVE  TypeOK'
  <2>1. toClient \in Seq(Piece) /\ pending \in Seq(Piece) /\ k \in Nat /\ k <= Len(toClient)
    BY <1>5, LenProperties DEF TypeOK, ReadMessage
  <2>2. pending' \in Seq(Piece)
    BY <1>5, <2>1, PrefixFacts, ConcatProperties DEF ReadMessage
  <2>3. toClient' \in Seq(Piece)
    BY <1>5, <2>1, SuffixFacts DEF ReadMessage
  <2> QED
    BY <1>5, <2>2, <2>3 DEF ReadMessage, TypeOK
<1>6. CASE DecodeNothing
  BY <1>6 DEF DecodeNothing, TypeOK
<1>7. CASE DecodeSid
  BY <1>7, DrainFacts DEF DecodeSid, Decoding, TypeOK
<1>8. CASE DecodeUnknown
  BY <1>8, DrainFacts DEF DecodeUnknown, Decoding, TypeOK
<1>9. CASE DecodeOversized
  BY <1>9 DEF DecodeOversized, Return, TypeOK
<1>10. CASE DecodeAck
  <2>1. pending' \in Seq(Piece) /\ Head(pending).n \in Nat
    BY <1>10, DrainFacts DEF DecodeAck, Decoding, TypeOK, Piece
  <2>2. confirmed' \in Nat /\ unacked' \in Seq(Nat)
    BY <1>10, <2>1, RelayAckedType DEF DecodeAck
  <2> QED
    BY <1>10, <2>1, <2>2 DEF DecodeAck, TypeOK
<1>11. CASE DecodeData
  <2>1. pending' \in Seq(Piece) /\ Head(pending).len \in Nat
    BY <1>11, DrainFacts DEF DecodeData, Decoding, TypeOK, Piece
  <2>2. localGot' \in Seq(Nat)
    BY <1>11, PayloadType, ConcatProperties DEF DecodeData, Decoding, TypeOK
  <2>3. received' \in Nat /\ acked' \in Nat /\ ackSent' \in Nat
    <3> DEFINE r == received + Head(pending).len
    <3>1. r \in Nat /\ ackSent \in Nat
      BY <2>1 DEF TypeOK
    <3>2. Greater(ackSent, r) \in Nat
      BY <3>1, GreaterFacts
    <3> QED
      BY <1>11, <3>1, <3>2 DEF DecodeData, TypeOK
  <2>4. \/ UNCHANGED <<pc, reconnects, result, link, toClient>>
        \/ Dropped
    BY <1>11 DEF DecodeData
  <2>5. /\ pc' \in {"connect", "wait", "decode", "ended"}
        /\ reconnects' \in 0..MaxReconnects
        /\ result' \in {"none", "ok", "error"}
        /\ link' \in {"none", "up", "broken"}
        /\ toClient' \in Seq(Piece)
    BY <1>0, <2>4 DEF TypeOK
  <2> QED
    BY <1>11, <2>1, <2>2, <2>3, <2>5 DEF DecodeData, TypeOK
<1>12. CASE DecodeDataWriteFails
  <2>1. pending' \in Seq(Piece) /\ Head(pending).len \in Nat
    BY <1>12, DrainFacts DEF DecodeDataWriteFails, Decoding, TypeOK, Piece
  <2> QED
    BY <1>12, <2>1 DEF DecodeDataWriteFails, Return, TypeOK
<1>13. CASE DecodeResumed
  <2> DEFINE n == Head(pending).n
  <2>1. pending' \in Seq(Piece) /\ n \in Nat
    BY <1>13, DrainFacts DEF DecodeResumed, Decoding, TypeOK, Piece
  <2>2. RelayAcked(n)
    BY <1>13 DEF DecodeResumed
  <2> HIDE DEF n
  <2>3. confirmed' \in Nat /\ unacked' \in Seq(Nat) /\ Resend(n) \in Seq(Nat)
    BY <2>1, <2>2, RelayAckedType, ResendFacts
  <2>4. \/ /\ wire' = wire \o Resend(n)
           /\ resuming' = FALSE
           /\ pc' = IF resuming THEN "wait" ELSE "decode"
           /\ UNCHANGED <<reconnects, result, link, toClient>>
        \/ /\ \E j \in ChunkEnds(Resend(n)) :
                wire' = wire \o SubSeq(Resend(n), 1, j)
           /\ Dropped
           /\ UNCHANGED resuming
    BY <1>13 DEF DecodeResumed, n
  <2>5. /\ wire' \in Seq(Nat)
        /\ resuming' \in BOOLEAN
        /\ pc' \in {"connect", "wait", "decode", "ended"}
        /\ reconnects' \in 0..MaxReconnects
        /\ result' \in {"none", "ok", "error"}
        /\ link' \in {"none", "up", "broken"}
        /\ toClient' \in Seq(Piece)
    <3>1. \A j \in ChunkEnds(Resend(n)) : SubSeq(Resend(n), 1, j) \in Seq(Nat)
      BY <2>3, PrefixFacts, LenProperties DEF ChunkEnds
    <3>2. \A q \in Seq(Nat) : wire \o q \in Seq(Nat)
      BY ConcatProperties DEF TypeOK
    <3>3. wire' \in Seq(Nat)
      BY <2>3, <2>4, <3>1, <3>2
    <3> QED
      BY <1>0, <2>4, <3>3 DEF TypeOK
  <2> QED
    BY <1>13, <2>1, <2>3, <2>5 DEF DecodeResumed, TypeOK
<1>14. CASE LocalEof
  BY <1>14 DEF LocalEof, Return, TypeOK
<1>15. ASSUME NEW n \in 1..MaxFrame, LocalRead(n)
       PROVE  TypeOK'
  <2>1. Positions(taken, n) \in Seq(Nat)
    BY PositionsFacts DEF TypeOK
  <2> QED
    BY <1>15, <2>1, ConcatProperties DEF LocalRead, TypeOK
<1>16. ASSUME NEW n \in 1..MaxFrame, LocalReadSendFails(n)
       PROVE  TypeOK'
  BY <1>0, <1>16 DEF LocalReadSendFails, TypeOK
<1>17. CASE LocalReadError
  BY <1>17 DEF LocalReadError, Return, TypeOK
<1>18. CASE LocalClose
  BY <1>18 DEF LocalClose, TypeOK
<1>19. ASSUME NEW k \in Kinds, NEW n \in Nat
       PROVE  <<Control(k, n)>> \in Seq(Piece)
  BY DEF Control, Piece
<1>20. CASE RelayConfirms
  BY <1>19, <1>20, ConcatProperties DEF RelayConfirms, Say, TypeOK, Kinds
<1>21. CASE RelayResumes
  BY <1>19, <1>21, ConcatProperties, LenProperties DEF RelayResumes, Say, TypeOK, Kinds
<1>22. CASE RelayAcks
  BY <1>19, <1>22, ConcatProperties, LenProperties DEF RelayAcks, Say, TypeOK, Kinds
<1>23. CASE RelayCloses
  BY <1>19, <1>23, ConcatProperties DEF RelayCloses, Say, TypeOK, Kinds
<1>24. ASSUME NEW n \in 1..MaxFrame, RelaySendsData(n)
       PROVE  TypeOK'
  <2>1. DataFrame(vmSent, n) \in Seq(Piece)
    BY DEF DataFrame, Control, Piece, Kinds, TypeOK
  <2> QED
    BY <1>24, <2>1, ConcatProperties DEF RelaySendsData, Say, TypeOK
<1>25. ASSUME NEW k \in OddFrames, RelaySendsOdd(k)
       PROVE  TypeOK'
  BY <1>19, <1>25, ConcatProperties DEF RelaySendsOdd, Say, TypeOK, Kinds
<1>26. ASSUME NEW n \in 1..Len(wire), RelayReceives(n)
       PROVE  TypeOK'
  <2>1. n \in Nat /\ n <= Len(wire) /\ wire \in Seq(Nat)
    BY <1>26 DEF RelayReceives, TypeOK
  <2>2. SubSeq(wire, 1, n) \in Seq(Nat) /\ SubSeq(wire, n + 1, Len(wire)) \in Seq(Nat)
    BY <2>1, PrefixFacts, SuffixFacts
  <2> QED
    BY <1>26, <2>2, ConcatProperties DEF RelayReceives, TypeOK
<1>27. CASE LinkBreaks
  BY <1>27 DEF LinkBreaks, TypeOK
<1>28. CASE UNCHANGED vars
  BY <1>28 DEF TypeOK
<1> QED
  BY <1>1, <1>2, <1>3, <1>4, <1>5, <1>6, <1>7, <1>8, <1>9, <1>10, <1>11, <1>12,
     <1>13, <1>14, <1>15, <1>16, <1>17, <1>18, <1>20, <1>21, <1>22, <1>23, <1>24,
     <1>25, <1>26, <1>27, <1>28 DEF Next, Session, LocalSide, Relay

-----------------------------------------------------------------------------
(* Which actions touch what *)

\* The outbound state changes only by an acknowledgement, a resume or a read.
LEMMA OutboundFrame ==
    ASSUME [Next]_vars
    PROVE  \/ UNCHANGED outVars
           \/ DecodeAck \/ DecodeResumed
           \/ \E n \in 1..MaxFrame : LocalRead(n)
BY DEF Next, Session, LocalSide, Relay, vars, Connect, ConnectFail, RelayGone,
       ReadClose, ReadMessage, DecodeNothing, DecodeSid, DecodeUnknown,
       DecodeOversized, DecodeData, DecodeDataWriteFails, LocalEof,
       LocalReadSendFails, LocalReadError, LocalClose, RelayConfirms,
       RelayResumes, RelayAcks, RelayCloses, RelaySendsData, RelaySendsOdd, Say,
       RelayReceives, LinkBreaks

\* The bytes on their way to the VM change only by a connection, a resume, a
\* read or the relay taking some.
LEMMA WireFrame ==
    ASSUME [Next]_vars
    PROVE  \/ UNCHANGED <<wire, vmGot>>
           \/ Connect \/ DecodeResumed
           \/ \E n \in 1..MaxFrame : LocalRead(n)
           \/ \E n \in 1..Len(wire) : RelayReceives(n)
BY DEF Next, Session, LocalSide, Relay, vars, linkVars, relayVars, ConnectFail,
       RelayGone, ReadClose, ReadMessage, DecodeNothing, DecodeSid, DecodeUnknown,
       DecodeOversized, DecodeAck, DecodeData, DecodeDataWriteFails, LocalEof,
       LocalReadSendFails, LocalReadError, LocalClose, RelayConfirms,
       RelayResumes, RelayAcks, RelayCloses, RelaySendsData, RelaySendsOdd, Say,
       LinkBreaks

\* Reading a message moves pieces from the connection to the buffer.
LEMMA ReadFacts ==
    ASSUME TypeOK, NEW k \in 1..Len(toClient), ReadMessage(k)
    PROVE  /\ Len(pending') = Len(pending) + k
           /\ Len(toClient') = Len(toClient) - k
           /\ \A i \in 1..Len(pending') :
                 pending'[i] = IF i <= Len(pending) THEN pending[i]
                               ELSE toClient[i - Len(pending)]
           /\ \A i \in 1..Len(toClient') : toClient'[i] = toClient[k + i]
<1>1. toClient \in Seq(Piece) /\ pending \in Seq(Piece) /\ k \in Nat /\ k <= Len(toClient)
  BY LenProperties DEF TypeOK, ReadMessage
<1>2. /\ pending' = pending \o SubSeq(toClient, 1, k)
      /\ toClient' = SubSeq(toClient, k + 1, Len(toClient))
  BY DEF ReadMessage
<1>3. /\ SubSeq(toClient, 1, k) \in Seq(Piece)
      /\ Len(SubSeq(toClient, 1, k)) = k
      /\ \A i \in 1..k : SubSeq(toClient, 1, k)[i] = toClient[i]
  BY <1>1, PrefixFacts
<1>4. /\ Len(toClient') = Len(toClient) - k
      /\ \A i \in 1..Len(toClient) - k : toClient'[i] = toClient[k + i]
  BY <1>1, <1>2, SuffixFacts
<1>5. /\ Len(pending') = Len(pending) + k
      /\ \A i \in 1..Len(pending) + k :
            pending'[i] = IF i <= Len(pending) THEN pending[i]
                          ELSE SubSeq(toClient, 1, k)[i - Len(pending)]
  BY <1>1, <1>2, <1>3, ConcatProperties
<1>6. \A i \in 1..Len(pending) + k : i <= Len(pending) \/ i - Len(pending) \in 1..k
  BY <1>1, LenProperties
<1> QED
  BY <1>3, <1>4, <1>5, <1>6

\* The relay puts one more piece on the connection.
LEMMA SayFacts ==
    ASSUME TypeOK, NEW p \in Piece, Say(<<p>>)
    PROVE  /\ Len(toClient') = Len(toClient) + 1
           /\ toClient'[Len(toClient) + 1] = p
           /\ \A i \in 1..Len(toClient) : toClient'[i] = toClient[i]
<1>1. toClient \in Seq(Piece) /\ toClient' = toClient \o <<p>> /\ <<p>> \in Seq(Piece)
  BY DEF TypeOK, Say
<1>2. Len(<<p>>) = 1 /\ <<p>>[1] = p
  OBVIOUS
<1>3. Len(toClient) \in Nat
  BY <1>1, LenProperties
<1> QED
  BY <1>1, <1>2, <1>3, ConcatProperties

\* A DATA frame on the connection: two pieces that carry no count.
LEMMA SendsDataFacts ==
    ASSUME TypeOK, NEW n \in 1..MaxFrame, RelaySendsData(n)
    PROVE  /\ Len(toClient') = Len(toClient) + 2
           /\ \A i \in 1..Len(toClient) : toClient'[i] = toClient[i]
           /\ \A i \in Len(toClient) + 1 .. Len(toClient) + 2 :
                 toClient'[i].kind \in {"head", "tail"}
<1> DEFINE f == DataFrame(vmSent, n)
<1>1. /\ f \in Seq(Piece) /\ Len(f) = 2
      /\ f[1].kind = "head" /\ f[2].kind = "tail"
  BY ConstantsAssumption DEF DataFrame, Control, Piece, Kinds, TypeOK
<1>2. toClient \in Seq(Piece) /\ toClient' = toClient \o f
  BY DEF TypeOK, RelaySendsData, Say
<1>3. Len(toClient) \in Nat
  BY <1>2, LenProperties
<1> HIDE DEF f
<1>4. /\ Len(toClient') = Len(toClient) + 2
      /\ \A i \in 1..Len(toClient) + 2 :
            toClient'[i] = IF i <= Len(toClient) THEN toClient[i]
                           ELSE f[i - Len(toClient)]
  <2>1. /\ Len(toClient \o f) = Len(toClient) + Len(f)
        /\ \A i \in 1..Len(toClient) + Len(f) :
              (toClient \o f)[i] = IF i <= Len(toClient) THEN toClient[i]
                                   ELSE f[i - Len(toClient)]
    BY <1>1, <1>2, ConcatProperties
  <2> QED
    BY <1>1, <1>2, <2>1
<1>5. \A i \in Len(toClient) + 1 .. Len(toClient) + 2 :
         i - Len(toClient) \in {1, 2} /\ i \in 1..Len(toClient) + 2 /\ ~(i <= Len(toClient))
  BY <1>3
<1>6. \A i \in Len(toClient) + 1 .. Len(toClient) + 2 : toClient'[i] = f[i - Len(toClient)]
  BY <1>4, <1>5
<1>7. \A i \in Len(toClient) + 1 .. Len(toClient) + 2 :
         toClient'[i].kind \in {"head", "tail"}
  BY <1>1, <1>5, <1>6
<1>8. \A i \in 1..Len(toClient) : toClient'[i] = toClient[i]
  BY <1>3, <1>4
<1> QED
  BY <1>4, <1>7, <1>8

\* A RECONNECT_SUCCESS_ACK at the front of the buffer is the only one there is,
\* and its count is what the relay holds.
LEMMA RsaAtHead ==
    ASSUME IInv, Decoding("rsa")
    PROVE  /\ resuming /\ greeted /\ wire = <<>>
           /\ Head(pending).n = Len(vmGot)
           /\ Rsa(toClient) = {} /\ Rsa(pending') = {}
<1>1. Complete(pending) /\ pending \in Seq(Piece) /\ Head(pending).kind = "rsa"
      /\ pc = "decode" /\ pending' = Drain(pending)
  BY DEF Decoding, IInv, TypeOK
<1>2. /\ Len(Drain(pending)) = Len(pending) - FrameSize(pending)
      /\ \A i \in 1..Len(Drain(pending)) :
            Drain(pending)[i] = pending[FrameSize(pending) + i]
      /\ FrameSize(pending) \in 1..2 /\ FrameSize(pending) <= Len(pending)
      /\ Head(pending) = pending[1]
      /\ Len(pending) \in Nat
  BY <1>1, DrainFacts, LenProperties
<1>3. 1 \in Rsa(pending)
  BY <1>1, <1>2 DEF Rsa
<1>4. /\ resuming /\ greeted
      /\ \A i \in Rsa(pending) : i = 1
      /\ Rsa(toClient) = {}
      /\ pending[1].n = Len(vmGot)
  BY <1>1, <1>3 DEF IInv, OneResume, TypeOK
<1>5. wire = <<>>
  BY <1>1, <1>4 DEF IInv, InFlight
<1>6. Rsa(pending') = {}
  <2>1. SUFFICES ASSUME NEW i \in Rsa(pending') PROVE FALSE
    OBVIOUS
  <2>2. FrameSize(pending) + i \in Rsa(pending)
    BY <1>1, <1>2, <2>1 DEF Rsa
  <2> QED
    BY <1>2, <1>4, <2>1, <2>2 DEF Rsa
<1> QED
  BY <1>2, <1>4, <1>5, <1>6

-----------------------------------------------------------------------------
(* The inductive invariant, conjunct by conjunct *)

\* One local read: the same bytes join the record, the buffer and the wire.
LEMMA LocalReadFacts ==
    ASSUME TypeOK, NEW n \in 1..MaxFrame, LocalRead(n)
    PROVE  /\ Len(recorded') = Len(recorded) + n
           /\ \A i \in 1..Len(recorded) : recorded'[i] = recorded[i]
           /\ Len(unacked') = Len(unacked) + n
           /\ \A i \in 1..Len(unacked) : unacked'[i] = unacked[i]
           /\ \A i \in 1..n :
                 unacked'[Len(unacked) + i] = recorded'[Len(recorded) + i]
           /\ Len(wire') = Len(wire) + n
           /\ \A i \in 1..Len(wire) : wire'[i] = wire[i]
           /\ \A i \in 1..n : wire'[Len(wire) + i] = recorded'[Len(recorded) + i]
<1> DEFINE p == Positions(taken, n)
<1>1. p \in Seq(Nat) /\ Len(p) = n /\ n \in Nat
  <2>1. taken \in Nat /\ n \in Nat
    BY ConstantsAssumption DEF TypeOK
  <2> QED
    BY <2>1, PositionsFacts
<1>2. /\ recorded' = recorded \o p /\ unacked' = unacked \o p /\ wire' = wire \o p
      /\ recorded \in Seq(Nat) /\ unacked \in Seq(Nat) /\ wire \in Seq(Nat)
  BY DEF LocalRead, TypeOK
<1> HIDE DEF p
<1>3. ASSUME NEW s \in Seq(Nat)
      PROVE  /\ Len(s \o p) = Len(s) + n
             /\ \A i \in 1..Len(s) : (s \o p)[i] = s[i]
             /\ \A i \in 1..n : (s \o p)[Len(s) + i] = p[i]
  <2>1. Len(s) \in Nat
    BY LenProperties
  <2>2. /\ Len(s \o p) = Len(s) + n
        /\ \A i \in 1..Len(s) + n :
              (s \o p)[i] = IF i <= Len(s) THEN s[i] ELSE p[i - Len(s)]
    BY <1>1, ConcatProperties
  <2>3. \A i \in 1..n : /\ Len(s) + i \in 1..Len(s) + n
                        /\ ~(Len(s) + i <= Len(s)) /\ (Len(s) + i) - Len(s) = i
    BY <1>1, <2>1
  <2> QED
    BY <1>1, <2>1, <2>2, <2>3
<1> QED
  BY <1>2, <1>3

\* Every step keeps the buffer the unacknowledged tail of what was recorded.
LEMMA BufferStep ==
    ASSUME TypeOK, BufferIsTail, [Next]_vars
    PROVE  BufferIsTail'
<1>1. CASE UNCHANGED outVars
  BY <1>1 DEF outVars, BufferIsTail
<1>2. CASE DecodeAck \/ DecodeResumed
  <2>1. /\ Head(pending).n \in Nat /\ RelayAcked(Head(pending).n)
        /\ UNCHANGED <<sent, recorded>>
    BY <1>2, DrainFacts DEF DecodeAck, DecodeResumed, Decoding, TypeOK, Piece
  <2> QED
    BY <2>1, RelayAckedType DEF BufferIsTail
<1>3. ASSUME NEW n \in 1..MaxFrame, LocalRead(n)
      PROVE  BufferIsTail'
  <2>1. /\ sent' = sent + n /\ confirmed' = confirmed
        /\ sent \in Nat /\ confirmed \in Nat /\ n \in Nat
        /\ Len(unacked) \in Nat
    BY <1>3, ConstantsAssumption, LenProperties DEF LocalRead, TypeOK
  <2>2. /\ Len(unacked') = Len(unacked) + n
        /\ Len(recorded') = Len(recorded) + n
        /\ \A i \in 1..Len(recorded) : recorded'[i] = recorded[i]
        /\ \A i \in 1..Len(unacked) : unacked'[i] = unacked[i]
        /\ \A i \in 1..n : unacked'[Len(unacked) + i] = recorded'[Len(recorded) + i]
    BY <1>3, LocalReadFacts
  <2>3. ASSUME NEW i \in 1..Len(unacked')
        PROVE  unacked'[i] = recorded'[confirmed' + i]
    <3>1. CASE i <= Len(unacked)
      <4>1. i \in 1..Len(unacked) /\ confirmed + i \in 1..Len(recorded)
        BY <2>1, <2>2, <2>3, <3>1 DEF BufferIsTail
      <4> QED
        BY <2>1, <2>2, <4>1 DEF BufferIsTail
    <3>2. CASE ~(i <= Len(unacked))
      <4> DEFINE j == i - Len(unacked)
      <4>1. j \in 1..n /\ i = Len(unacked) + j /\ confirmed + i = Len(recorded) + j
        BY <2>1, <2>2, <2>3, <3>2 DEF BufferIsTail
      <4> HIDE DEF j
      <4> QED
        BY <2>1, <2>2, <4>1
    <3> QED
      BY <3>1, <3>2
  <2> QED
    BY <2>1, <2>2, <2>3 DEF BufferIsTail
<1> QED
  BY <1>1, <1>2, <1>3, OutboundFrame

\* A resend puts on the empty wire a piece of the record right after what the
\* relay holds; all of it when every send succeeds.
LEMMA ResumedFacts ==
    ASSUME IInv, DecodeResumed
    PROVE  /\ vmGot' = vmGot /\ recorded' = recorded /\ sent' = sent
           /\ Len(vmGot) + Len(wire') <= sent
           /\ \A i \in 1..Len(wire') : wire'[i] = recorded[Len(vmGot) + i]
           /\ \/ resuming' = FALSE /\ Len(vmGot) + Len(wire') = sent
              \/ Dropped
           /\ confirmed' <= Len(vmGot)
<1> DEFINE n == Head(pending).n
<1>1. /\ wire = <<>> /\ n = Len(vmGot) /\ RelayAcked(n)
      /\ UNCHANGED <<vmGot, recorded, sent>>
  BY RsaAtHead DEF DecodeResumed, relayVars
<1>2. \/ wire' = wire \o Resend(n) /\ resuming' = FALSE
      \/ /\ \E j \in ChunkEnds(Resend(n)) : wire' = wire \o SubSeq(Resend(n), 1, j)
         /\ Dropped
  BY DEF DecodeResumed
<1>3. /\ TypeOK /\ BufferIsTail /\ n \in Nat /\ sent \in Nat
      /\ n <= sent /\ confirmed <= n
      /\ confirmed \in Nat
  BY <1>1, LenProperties DEF IInv, TypeOK, OutboundInOrder, BufferIsTail, CountsAreReached
<1> HIDE DEF n
<1>4. /\ confirmed' \in Nat /\ confirmed' <= n
  BY <1>1, <1>3, RelayAckedType DEF Lesser
<1>5. Lesser(Greater(n, confirmed'), sent) = n
  BY <1>3, <1>4 DEF Lesser, Greater
<1>6. /\ Resend(n) \in Seq(Nat) /\ Len(Resend(n)) = sent - n
      /\ \A i \in 1..sent - n : Resend(n)[i] = recorded[n + i]
  BY <1>1, <1>3, <1>5, ResendFacts
<1>7. \A s \in Seq(Nat) : wire \o s = s
  BY <1>1, ConcatEmptySeq
<1>8. CASE wire' = wire \o Resend(n) /\ resuming' = FALSE
  <2>1. wire' = Resend(n)
    BY <1>6, <1>7, <1>8
  <2>2. Len(wire') = sent - n /\ n + (sent - n) = sent
    BY <1>3, <1>6, <2>1
  <2>3. Len(vmGot) + Len(wire') = sent /\ sent <= sent
    BY <1>1, <1>3, <2>2
  <2>4. \A i \in 1..Len(wire') : wire'[i] = recorded[Len(vmGot) + i]
    BY <1>1, <1>6, <2>1
  <2> QED
    BY <1>1, <1>4, <1>8, <2>3, <2>4
<1>9. ASSUME NEW j \in ChunkEnds(Resend(n)), Dropped,
             wire' = wire \o SubSeq(Resend(n), 1, j)
      PROVE  /\ Len(vmGot) + Len(wire') <= sent
             /\ \A i \in 1..Len(wire') : wire'[i] = recorded[Len(vmGot) + i]
  <2>1. j \in Nat /\ j <= sent - n
    BY <1>3, <1>6 DEF ChunkEnds
  <2>2. /\ SubSeq(Resend(n), 1, j) \in Seq(Nat)
        /\ Len(SubSeq(Resend(n), 1, j)) = j
        /\ \A i \in 1..j : SubSeq(Resend(n), 1, j)[i] = Resend(n)[i]
    BY <1>6, <2>1, PrefixFacts
  <2>3. wire' = SubSeq(Resend(n), 1, j)
    BY <1>7, <1>9, <2>2
  <2> QED
    BY <1>1, <1>3, <1>6, <2>1, <2>2, <2>3
<1> QED
  BY <1>1, <1>2, <1>4, <1>8, <1>9

\* Every step keeps what the VM got, and what is on the wire, in order.
LEMMA InOrderStep ==
    ASSUME IInv, [Next]_vars
    PROVE  OutboundInOrder'
<1>0. /\ vmGot \in Seq(Nat) /\ wire \in Seq(Nat) /\ recorded \in Seq(Nat)
      /\ Len(vmGot) \in Nat /\ Len(wire) \in Nat /\ Len(recorded) \in Nat
      /\ sent = Len(recorded) /\ TypeOK /\ OutboundInOrder
  BY LenProperties DEF IInv, TypeOK, BufferIsTail
<1>1. CASE DecodeResumed
  BY <1>0, <1>1, ResumedFacts DEF OutboundInOrder
<1>2. ASSUME NEW n \in 1..MaxFrame, LocalRead(n)
      PROVE  OutboundInOrder'
  <2>1. vmGot' = vmGot /\ Len(vmGot) + Len(wire) = Len(recorded) /\ n \in Nat
    BY <1>0, <1>2, ConstantsAssumption DEF LocalRead, relayVars, IInv, InFlight
  <2>2. /\ Len(recorded') = Len(recorded) + n
        /\ Len(wire') = Len(wire) + n
        /\ \A i \in 1..Len(recorded) : recorded'[i] = recorded[i]
        /\ \A i \in 1..Len(wire) : wire'[i] = wire[i]
        /\ \A i \in 1..n : wire'[Len(wire) + i] = recorded'[Len(recorded) + i]
    BY <1>0, <1>2, LocalReadFacts
  <2>3. ASSUME NEW i \in 1..Len(wire')
        PROVE  wire'[i] = recorded'[Len(vmGot) + i]
    <3>1. CASE i <= Len(wire)
      <4>1. i \in 1..Len(wire) /\ Len(vmGot) + i \in 1..Len(recorded)
        BY <1>0, <2>1, <2>2, <3>1
      <4> QED
        BY <1>0, <2>2, <4>1 DEF OutboundInOrder
    <3>2. CASE ~(i <= Len(wire))
      <4> DEFINE j == i - Len(wire)
      <4>1. i \in Nat /\ i <= Len(wire) + n /\ i > Len(wire)
        BY <1>0, <2>1, <2>2, <2>3, <3>2
      <4>2. j \in 1..n /\ i = Len(wire) + j /\ Len(vmGot) + i = Len(recorded) + j
        <5>1. /\ Len(vmGot) \in Nat /\ Len(wire) \in Nat /\ Len(recorded) \in Nat
              /\ n \in Nat /\ Len(vmGot) + Len(wire) = Len(recorded)
          BY <1>0, <2>1
        <5> QED
          BY <4>1, <5>1
      <4> HIDE DEF j
      <4> QED
        BY <2>2, <4>2
    <3> QED
      BY <3>1, <3>2
  <2>4. \A i \in 1..Len(vmGot) : i \in 1..Len(recorded)
    BY <1>0, <2>1
  <2>5. Len(vmGot') + Len(wire') <= Len(recorded')
    BY <1>0, <2>1, <2>2
  <2>6. \A i \in 1..Len(vmGot') : vmGot'[i] = recorded'[i]
    BY <1>0, <2>1, <2>2, <2>4 DEF OutboundInOrder
  <2> QED
    BY <2>1, <2>3, <2>5, <2>6 DEF OutboundInOrder
<1>3. ASSUME NEW n \in 1..Len(wire), RelayReceives(n)
      PROVE  OutboundInOrder'
  <2>1. n \in Nat /\ n <= Len(wire) /\ recorded' = recorded
    BY <1>0, <1>3 DEF RelayReceives, outVars
  <2>2. /\ SubSeq(wire, 1, n) \in Seq(Nat) /\ Len(SubSeq(wire, 1, n)) = n
        /\ \A i \in 1..n : SubSeq(wire, 1, n)[i] = wire[i]
    BY <1>0, <2>1, PrefixFacts
  <2>3. /\ Len(wire') = Len(wire) - n
        /\ \A i \in 1..Len(wire) - n : wire'[i] = wire[n + i]
    BY <1>0, <1>3, <2>1, SuffixFacts DEF RelayReceives
  <2>4. /\ Len(vmGot') = Len(vmGot) + n
        /\ \A i \in 1..Len(vmGot) + n :
              vmGot'[i] = IF i <= Len(vmGot) THEN vmGot[i]
                          ELSE SubSeq(wire, 1, n)[i - Len(vmGot)]
    BY <1>0, <1>3, <2>2, ConcatProperties DEF RelayReceives
  <2>5. ASSUME NEW i \in 1..Len(vmGot')
        PROVE  vmGot'[i] = recorded[i]
    <3>1. CASE i <= Len(vmGot)
      <4>1. i \in 1..Len(vmGot) /\ i \in 1..Len(vmGot) + n
        BY <1>0, <2>1, <2>4, <2>5, <3>1
      <4> QED
        BY <1>0, <2>4, <3>1, <4>1 DEF OutboundInOrder
    <3>2. CASE ~(i <= Len(vmGot))
      <4> DEFINE j == i - Len(vmGot)
      <4>1. j \in 1..n /\ j \in 1..Len(wire) /\ i = Len(vmGot) + j
        BY <1>0, <2>1, <2>4, <2>5, <3>2
      <4>2. vmGot'[i] = SubSeq(wire, 1, n)[j]
        BY <1>0, <2>1, <2>4, <2>5, <3>2
      <4> HIDE DEF j
      <4>3. vmGot'[i] = wire[j] /\ wire[j] = recorded[Len(vmGot) + j]
        BY <1>0, <2>2, <4>1, <4>2 DEF OutboundInOrder
      <4> QED
        BY <4>1, <4>3
    <3> QED
      BY <3>1, <3>2
  <2>6. ASSUME NEW i \in 1..Len(wire')
        PROVE  wire'[i] = recorded[Len(vmGot') + i]
    <3>1. n + i \in 1..Len(wire) /\ i \in 1..Len(wire) - n
      BY <1>0, <2>1, <2>3, <2>6
    <3>2. wire'[i] = recorded[Len(vmGot) + (n + i)]
      BY <1>0, <2>3, <3>1 DEF OutboundInOrder
    <3>3. Len(vmGot) + (n + i) = Len(vmGot') + i
      BY <1>0, <2>1, <2>4, <3>1
    <3> QED
      BY <3>2, <3>3
  <2> QED
    BY <1>0, <2>1, <2>3, <2>4, <2>5, <2>6 DEF OutboundInOrder
<1>4. CASE Connect
  <2>1. /\ wire' = <<>> /\ UNCHANGED <<vmGot, recorded>> /\ Len(<<>>) = 0
    BY <1>4 DEF Connect, outVars
  <2> QED
    BY <1>0, <2>1 DEF OutboundInOrder
<1>5. CASE /\ UNCHANGED <<wire, vmGot>>
           /\ \/ UNCHANGED outVars
              \/ DecodeAck
  BY <1>5, <1>0 DEF OutboundInOrder, outVars, DecodeAck
<1> QED
  BY <1>1, <1>2, <1>3, <1>4, <1>5, WireFrame, OutboundFrame

\* The relay's counts: a step brings no count the relay had not reached.
LEMMA CountsStep ==
    ASSUME IInv, TypeOK', [Next]_vars
    PROVE  CountsAreReached'
<1> DEFINE Reached(p) == p.kind \in {"ack", "rsa"} => p.n <= Len(vmGot)
<1>0. /\ TypeOK /\ CountsAreReached /\ BufferIsTail
      /\ Len(vmGot) \in Nat /\ confirmed \in Nat /\ relayAck \in Nat
      /\ pending \in Seq(Piece) /\ toClient \in Seq(Piece)
      /\ Len(pending) \in Nat /\ Len(toClient) \in Nat
      /\ \A i \in 1..Len(pending) : pending[i].n \in Nat
      /\ \A i \in 1..Len(toClient) : toClient[i].n \in Nat
  <2>1. TypeOK /\ CountsAreReached /\ BufferIsTail
    BY DEF IInv
  <2>2. /\ vmGot \in Seq(Nat) /\ confirmed \in Nat /\ relayAck \in Nat
        /\ pending \in Seq(Piece) /\ toClient \in Seq(Piece)
    BY <2>1 DEF TypeOK
  <2>3. \A p \in Piece : p.n \in Nat
    BY DEF Piece
  <2>4. \A q \in Seq(Piece) : Len(q) \in Nat /\ \A i \in 1..Len(q) : q[i] \in Piece
    BY LenProperties, ElementOfSeq
  <2> QED
    BY <2>1, <2>2, <2>3, <2>4, LenProperties
<1>1. CASE UNCHANGED <<confirmed, relayAck, vmGot, pending, toClient>>
  BY <1>0, <1>1 DEF CountsAreReached
<1>2. CASE /\ UNCHANGED <<confirmed, relayAck, vmGot>>
           /\ pending' = pending \/ pending' = <<>>
           /\ toClient' = toClient \/ toClient' = <<>>
  <2>1. Len(<<>>) = 0
    OBVIOUS
  <2> QED
    BY <1>0, <1>2, <2>1 DEF CountsAreReached
<1>3. ASSUME Complete(pending), pending' = Drain(pending),
             toClient' = toClient \/ toClient' = <<>>,
             confirmed' <= Len(vmGot), UNCHANGED <<relayAck, vmGot>>
      PROVE  CountsAreReached'
  <2>1. Len(<<>>) = 0
    OBVIOUS
  <2>2. \A i \in 1..Len(pending') : \E j \in 1..Len(pending) : pending'[i] = pending[j]
    <3>1. /\ Len(pending') = Len(pending) - FrameSize(pending)
          /\ FrameSize(pending) \in 1..2
          /\ \A i \in 1..Len(pending') : pending'[i] = pending[FrameSize(pending) + i]
      BY <1>0, <1>3, DrainFacts
    <3>2. \A i \in 1..Len(pending') : FrameSize(pending) + i \in 1..Len(pending)
      BY <1>0, <3>1
    <3> QED
      BY <3>1, <3>2
  <2>3. confirmed' <= Len(vmGot') /\ relayAck' <= Len(vmGot')
    BY <1>0, <1>3 DEF CountsAreReached
  <2>4. \A i \in 1..Len(toClient') :
            toClient'[i].kind \in {"ack", "rsa"} => toClient'[i].n <= Len(vmGot')
    <3>1. CASE toClient' = toClient
      BY <1>0, <1>3, <3>1 DEF CountsAreReached
    <3>2. CASE toClient' = <<>>
      BY <2>1, <3>2
    <3> QED
      BY <1>3, <3>1, <3>2
  <2>5. \A i \in 1..Len(pending') :
            pending'[i].kind \in {"ack", "rsa"} => pending'[i].n <= Len(vmGot')
    <3> SUFFICES ASSUME NEW i \in 1..Len(pending')
                 PROVE  pending'[i].kind \in {"ack", "rsa"} => pending'[i].n <= Len(vmGot')
      OBVIOUS
    <3>1. PICK j \in 1..Len(pending) : pending'[i] = pending[j]
      BY <2>2
    <3>2. pending[j].kind \in {"ack", "rsa"} => pending[j].n <= Len(vmGot)
      BY <1>0 DEF CountsAreReached
    <3> QED
      BY <1>3, <3>1, <3>2
  <2> QED
    BY <2>3, <2>4, <2>5 DEF CountsAreReached
<1>4. CASE DecodeAck
  <2>1. /\ Complete(pending) /\ pending' = Drain(pending)
        /\ UNCHANGED <<relayAck, vmGot, toClient>>
        /\ RelayAcked(Head(pending).n) /\ Head(pending).kind = "ack"
    BY <1>4 DEF DecodeAck, Decoding, relayVars, linkVars
  <2>2. /\ Head(pending) = pending[1] /\ 1 \in 1..Len(pending)
        /\ Head(pending).n \in Nat
    <3>1. /\ Head(pending) = pending[1]
          /\ FrameSize(pending) \in 1..2 /\ FrameSize(pending) <= Len(pending)
      BY <1>0, <2>1, DrainFacts
    <3>2. 1 \in 1..Len(pending)
      BY <1>0, <3>1
    <3> QED
      BY <1>0, <3>1, <3>2
  <2>3. Head(pending).n <= Len(vmGot) /\ confirmed <= Len(vmGot)
    BY <2>1, <2>2, <1>0 DEF CountsAreReached
  <2>4. confirmed' = confirmed \/ confirmed' = Lesser(Head(pending).n, sent)
    BY <2>1, <2>2, <1>0, RelayAckedType
  <2>5. confirmed' <= Len(vmGot)
    <3>1. sent \in Nat
      BY <1>0 DEF TypeOK
    <3>2. /\ Lesser(Head(pending).n, sent) <= Head(pending).n
          /\ Lesser(Head(pending).n, sent) \in Nat
      BY <2>2, <3>1, LesserFacts
    <3> QED
      BY <1>0, <2>2, <2>3, <2>4, <3>2
  <2> QED
    BY <1>3, <2>1, <2>5
<1>5. CASE DecodeResumed
  <2>1. /\ Complete(pending) /\ pending' = Drain(pending)
        /\ UNCHANGED <<relayAck, vmGot>>
        /\ toClient' = toClient \/ toClient' = <<>>
    BY <1>5, DroppedType DEF DecodeResumed, Decoding, relayVars, TypeOK, IInv
  <2> QED
    BY <1>3, <1>5, <2>1, ResumedFacts
<1>6. CASE DecodeSid \/ DecodeUnknown \/ DecodeDataWriteFails \/ DecodeData
  <2>1. /\ Complete(pending) /\ pending' = Drain(pending)
        /\ UNCHANGED <<relayAck, vmGot, confirmed>>
    BY <1>6 DEF DecodeSid, DecodeUnknown, DecodeData, DecodeDataWriteFails,
                Decoding, relayVars, outVars
  <2>2. toClient' = toClient \/ toClient' = <<>>
    BY <1>6, <1>0, DroppedType DEF DecodeSid, DecodeUnknown, DecodeData,
                DecodeDataWriteFails, Return, linkVars
  <2> QED
    BY <1>0, <1>3, <2>1, <2>2 DEF CountsAreReached
<1>7. ASSUME NEW k \in 1..Len(toClient), ReadMessage(k)
      PROVE  CountsAreReached'
  <2>1. UNCHANGED <<confirmed, relayAck, vmGot>>
    BY <1>7 DEF ReadMessage, outVars, relayVars
  <2>2. /\ Len(pending') = Len(pending) + k
        /\ Len(toClient') = Len(toClient) - k
        /\ \A i \in 1..Len(pending') :
              pending'[i] = IF i <= Len(pending) THEN pending[i]
                            ELSE toClient[i - Len(pending)]
        /\ \A i \in 1..Len(toClient') : toClient'[i] = toClient[k + i]
    BY <1>0, <1>7, ReadFacts
  <2>3. \A i \in 1..Len(pending') :
           i <= Len(pending) \/ i - Len(pending) \in 1..Len(toClient)
    BY <1>0, <2>2
  <2>4. \A i \in 1..Len(toClient') : k + i \in 1..Len(toClient)
    BY <1>0, <2>2
  <2>5. \A i \in 1..Len(pending') : Reached(pending'[i])
    <3>1. ASSUME NEW i \in 1..Len(pending')
          PROVE  Reached(pending'[i])
      <4>1. CASE i <= Len(pending)
        <5>1. i \in 1..Len(pending) /\ pending'[i] = pending[i]
          BY <1>0, <2>2, <3>1, <4>1
        <5> QED
          BY <1>0, <5>1 DEF CountsAreReached
      <4>2. CASE ~(i <= Len(pending))
        <5>1. pending'[i] = toClient[i - Len(pending)] /\ i - Len(pending) \in 1..Len(toClient)
          BY <2>2, <2>3, <3>1, <4>2
        <5> QED
          BY <1>0, <5>1 DEF CountsAreReached
      <4> QED
        BY <4>1, <4>2
    <3> QED
      BY <3>1
  <2>6. \A i \in 1..Len(toClient') : Reached(toClient'[i])
    BY <1>0, <2>2, <2>4 DEF CountsAreReached
  <2> QED
    BY <1>0, <2>1, <2>5, <2>6 DEF CountsAreReached
<1>8. ASSUME NEW p \in Piece, Say(<<p>>), p.n <= Len(vmGot),
             relayAck' <= Len(vmGot)
      PROVE  CountsAreReached'
  <2>1. UNCHANGED <<confirmed, vmGot, pending>>
    BY <1>8 DEF Say, outVars, loopVars
  <2>2. /\ Len(toClient') = Len(toClient) + 1
        /\ toClient'[Len(toClient) + 1] = p
        /\ \A i \in 1..Len(toClient) : toClient'[i] = toClient[i]
    BY <1>0, <1>8, SayFacts
  <2>3. \A i \in 1..Len(toClient') : i \in 1..Len(toClient) \/ i = Len(toClient) + 1
    BY <1>0, <2>2
  <2> QED
    BY <1>0, <1>8, <2>1, <2>2, <2>3 DEF CountsAreReached
<1>9. ASSUME NEW k \in Kinds, NEW n \in Nat
      PROVE  Control(k, n) \in Piece /\ Control(k, n).n = n
  BY DEF Control, Piece
<1>10. CASE RelayConfirms \/ RelayCloses
  <2>1. /\ Say(<<Control("sid", 0)>>) \/ Say(<<Control("close", 0)>>)
        /\ relayAck' = relayAck /\ relayAck <= Len(vmGot)
    BY <1>0, <1>10 DEF RelayConfirms, RelayCloses, CountsAreReached
  <2>2. /\ Control("sid", 0) \in Piece /\ Control("sid", 0).n = 0
        /\ Control("close", 0) \in Piece /\ Control("close", 0).n = 0
        /\ 0 <= Len(vmGot)
    BY <1>0, <1>9 DEF Kinds
  <2> QED
    BY <1>8, <2>1, <2>2
<1>11. CASE RelayResumes \/ RelayAcks
  BY <1>0, <1>8, <1>9, <1>11 DEF RelayResumes, RelayAcks, Kinds
<1>12. ASSUME NEW k \in OddFrames, RelaySendsOdd(k)
       PROVE  CountsAreReached'
  <2>1. k \in Kinds
    BY ConstantsAssumption DEF Kinds
  <2> QED
    BY <1>0, <1>8, <1>9, <1>12, <2>1 DEF RelaySendsOdd, CountsAreReached
<1>13. ASSUME NEW n \in 1..MaxFrame, RelaySendsData(n)
       PROVE  CountsAreReached'
  <2>1. UNCHANGED <<confirmed, relayAck, vmGot, pending>>
    BY <1>13 DEF RelaySendsData, Say, outVars, loopVars
  <2>2. /\ Len(toClient') = Len(toClient) + 2
        /\ \A i \in 1..Len(toClient) : toClient'[i] = toClient[i]
        /\ \A i \in Len(toClient) + 1 .. Len(toClient) + 2 :
              toClient'[i].kind \in {"head", "tail"}
    BY <1>0, <1>13, SendsDataFacts
  <2>3. \A i \in 1..Len(toClient') :
           i \in 1..Len(toClient) \/ i \in Len(toClient) + 1 .. Len(toClient) + 2
    BY <1>0, <2>2
  <2> QED
    BY <1>0, <2>1, <2>2, <2>3 DEF CountsAreReached
<1>14. ASSUME NEW n \in 1..Len(wire), RelayReceives(n)
       PROVE  CountsAreReached'
  <2>1. UNCHANGED <<confirmed, relayAck, pending, toClient>>
    BY <1>14 DEF RelayReceives, outVars, loopVars
  <2>2. Len(vmGot') \in Nat /\ Len(vmGot) <= Len(vmGot')
    <3>1. n \in Nat /\ n <= Len(wire) /\ wire \in Seq(Nat) /\ vmGot \in Seq(Nat)
      BY <1>0, <1>14 DEF RelayReceives, TypeOK
    <3>2. SubSeq(wire, 1, n) \in Seq(Nat) /\ Len(SubSeq(wire, 1, n)) = n
      BY <3>1, PrefixFacts
    <3>3. Len(vmGot') = Len(vmGot) + n
      BY <1>14, <3>1, <3>2, ConcatProperties DEF RelayReceives
    <3> QED
      BY <1>0, <3>1, <3>3
  <2> QED
    BY <1>0, <2>1, <2>2 DEF CountsAreReached
<1>15. CASE Connect
  BY <1>2, <1>15 DEF Connect, outVars
<1>16. CASE ConnectFail
  BY <1>2, <1>16 DEF ConnectFail, Return, outVars, relayVars
<1>17. CASE ReadClose \/ DecodeOversized \/ LocalEof \/ LocalReadError
  BY <1>2, <1>17 DEF ReadClose, DecodeOversized, LocalEof, LocalReadError, Return,
                     outVars, relayVars
<1>18. CASE RelayGone \/ \E n \in 1..MaxFrame : LocalReadSendFails(n)
  BY <1>0, <1>2, <1>18, DroppedType DEF RelayGone, LocalReadSendFails, outVars, relayVars
<1>19. CASE DecodeNothing \/ LocalClose \/ LinkBreaks \/ UNCHANGED vars
            \/ \E n \in 1..MaxFrame : LocalRead(n)
  BY <1>1, <1>19 DEF DecodeNothing, LocalClose, LinkBreaks, LocalRead, vars,
                     loopVars, outVars, relayVars, linkVars
<1> QED
  BY <1>4, <1>5, <1>6, <1>7, <1>10, <1>11, <1>12, <1>13, <1>14, <1>15, <1>16,
     <1>17, <1>18, <1>19 DEF Next, Session, LocalSide, Relay

\* At most one RECONNECT_SUCCESS_ACK, and only where the client waits for it.
LEMMA ResumeStep ==
    ASSUME IInv, TypeOK', [Next]_vars
    PROVE  OneResume'
<1>0. /\ TypeOK /\ OneResume /\ CountsAreReached
      /\ pending \in Seq(Piece) /\ toClient \in Seq(Piece)
      /\ Len(pending) \in Nat /\ Len(toClient) \in Nat
      /\ Len(<<>>) = 0 /\ Rsa(<<>>) = {}
  BY LenProperties DEF IInv, TypeOK, Rsa
<1>1. ASSUME pc' \in {"connect", "ended"}, link' = "none", toClient' = <<>>
      PROVE  OneResume'
  BY <1>1 DEF OneResume
<1>2. CASE ConnectFail
  BY <1>0, <1>2 DEF ConnectFail, Return, OneResume
<1>3. CASE ReadClose \/ DecodeOversized \/ LocalEof \/ LocalReadError
           \/ DecodeDataWriteFails
  BY <1>1, <1>3 DEF ReadClose, DecodeOversized, LocalEof, LocalReadError,
                    DecodeDataWriteFails, Return
<1>4. ASSUME Dropped PROVE OneResume'
  <2>1. pc' \in {"connect", "ended"} /\ link' = "none" /\ toClient' = <<>>
    BY <1>0, <1>4, DroppedType
  <2> QED
    BY <1>1, <2>1
<1>5. CASE RelayGone \/ \E n \in 1..MaxFrame : LocalReadSendFails(n)
  BY <1>4, <1>5 DEF RelayGone, LocalReadSendFails
<1>6. CASE Connect
  <2>1. /\ pc' = "wait" /\ toClient' = <<>> /\ greeted' = FALSE
        /\ pending' = IF sid THEN <<>> ELSE pending
    BY <1>6 DEF Connect
  <2>2. pending' = <<>>
    BY <1>6, <2>1 DEF Connect, IInv, InFlight
  <2> QED
    BY <1>0, <2>1, <2>2 DEF OneResume
\* A step that drains a frame which is no RECONNECT_SUCCESS_ACK.
<1>7. ASSUME pc = "decode", Complete(pending), pending' = Drain(pending),
             UNCHANGED <<pc, resuming, greeted, vmGot, link, toClient>>
      PROVE  OneResume'
  <2>1. /\ Len(pending') = Len(pending) - FrameSize(pending)
        /\ FrameSize(pending) \in 1..2
        /\ \A i \in 1..Len(pending') : pending'[i] = pending[FrameSize(pending) + i]
    BY <1>0, <1>7, DrainFacts
  <2>2. ASSUME NEW i \in Rsa(pending')
        PROVE  /\ i \in Nat /\ FrameSize(pending) + i \in Rsa(pending)
               /\ pending'[i] = pending[FrameSize(pending) + i]
    BY <1>0, <2>1, <2>2 DEF Rsa
  <2>3. \A i, j \in Nat : FrameSize(pending) + i = FrameSize(pending) + j => i = j
    BY <2>1
  <2>4. Rsa(toClient') = Rsa(toClient)
    BY <1>7
  <2>5. Rsa(pending) = {} => Rsa(pending') = {}
    BY <2>2
  <2>6. /\ ~resuming \/ ~greeted => Rsa(pending) = {} /\ Rsa(toClient) = {}
        /\ \A i, j \in Rsa(pending) : i = j
        /\ \A i, j \in Rsa(toClient) : i = j
        /\ Rsa(pending) = {} \/ Rsa(toClient) = {}
        /\ \A i \in Rsa(pending) : pending[i].n = Len(vmGot)
        /\ \A i \in Rsa(toClient) : toClient[i].n = Len(vmGot)
    BY <1>0, <1>7 DEF OneResume
  <2>7. \A i, j \in Rsa(pending') : i = j
    BY <2>2, <2>3, <2>6
  <2>8. \A i \in Rsa(pending') : pending'[i].n = Len(vmGot')
    BY <1>7, <2>2, <2>6
  <2>9. \A i \in Rsa(toClient') : toClient'[i].n = Len(vmGot')
    BY <1>7, <2>4, <2>6
  <2> QED
    BY <1>0, <1>7, <2>4, <2>5, <2>6, <2>7, <2>8, <2>9 DEF OneResume
<1>8. CASE DecodeSid \/ DecodeUnknown \/ DecodeAck
  BY <1>7, <1>8 DEF DecodeSid, DecodeUnknown, DecodeAck, Decoding, relayVars, linkVars
<1>9. CASE DecodeData
  <2>1. /\ pc = "decode" /\ Complete(pending) /\ pending' = Drain(pending)
        /\ UNCHANGED <<resuming, greeted, vmGot>>
        /\ Dropped \/ UNCHANGED <<pc, link, toClient>>
    BY <1>9 DEF DecodeData, Decoding, relayVars
  <2> QED
    BY <1>4, <1>7, <2>1
<1>10. CASE DecodeResumed
  <2>1. Rsa(pending') = {} /\ Rsa(toClient) = {} /\ pc = "decode"
    BY <1>10, RsaAtHead DEF DecodeResumed, Decoding
  <2>2. \/ Dropped
        \/ /\ UNCHANGED <<link, toClient>> /\ pc' \in {"wait", "decode"}
    BY <1>10 DEF DecodeResumed
  <2>3. ASSUME UNCHANGED <<link, toClient>>, pc' \in {"wait", "decode"}
        PROVE  OneResume'
    <3>1. Rsa(toClient') = {}
      BY <2>1, <2>3
    <3> QED
      BY <2>1, <2>3, <3>1 DEF OneResume
  <2> QED
    BY <1>4, <2>2, <2>3
<1>11. ASSUME NEW k \in 1..Len(toClient), ReadMessage(k)
       PROVE  OneResume'
  <2>1. /\ pc = "wait" /\ pc' = "decode"
        /\ UNCHANGED <<resuming, greeted, vmGot, link>>
    BY <1>11 DEF ReadMessage, relayVars
  <2>2. /\ Len(pending') = Len(pending) + k
        /\ Len(toClient') = Len(toClient) - k
        /\ \A i \in 1..Len(pending') :
              pending'[i] = IF i <= Len(pending) THEN pending[i]
                            ELSE toClient[i - Len(pending)]
        /\ \A i \in 1..Len(toClient') : toClient'[i] = toClient[k + i]
        /\ k \in Nat /\ k <= Len(toClient)
    BY <1>0, <1>11, ReadFacts
  <2>3. /\ ~resuming \/ ~greeted => Rsa(pending) = {} /\ Rsa(toClient) = {}
        /\ \A i, j \in Rsa(pending) : i = j
        /\ \A i, j \in Rsa(toClient) : i = j
        /\ Rsa(pending) = {} \/ Rsa(toClient) = {}
        /\ \A i \in Rsa(pending) : pending[i].n = Len(vmGot)
        /\ \A i \in Rsa(toClient) : toClient[i].n = Len(vmGot)
    BY <1>0, <2>1 DEF OneResume
  <2>4. ASSUME NEW i \in Rsa(toClient')
        PROVE  i \in Nat /\ i >= 1 /\ k + i \in Rsa(toClient) /\ toClient'[i] = toClient[k + i]
    BY <1>0, <2>2, <2>4 DEF Rsa
  <2>5. ASSUME NEW i \in Rsa(pending')
        PROVE  \/ i \in Rsa(pending) /\ pending'[i] = pending[i]
               \/ /\ i \in Nat /\ i - Len(pending) \in Rsa(toClient)
                  /\ i - Len(pending) <= k
                  /\ pending'[i] = toClient[i - Len(pending)]
    <3>1. i \in 1..Len(pending') /\ pending'[i].kind = "rsa"
      BY <2>5 DEF Rsa
    <3>2. CASE i <= Len(pending)
      BY <1>0, <2>2, <3>1, <3>2 DEF Rsa
    <3>3. CASE ~(i <= Len(pending))
      <4>1. i - Len(pending) \in 1..Len(toClient) /\ i - Len(pending) <= k /\ i \in Nat
        BY <1>0, <2>2, <3>1, <3>3
      <4> QED
        BY <2>2, <3>1, <3>3, <4>1 DEF Rsa
    <3> QED
      BY <3>2, <3>3
  <2>7. \A i, j \in Rsa(pending') : i = j
    <3>1. SUFFICES ASSUME NEW i \in Rsa(pending'), NEW j \in Rsa(pending')
                   PROVE  i = j
      OBVIOUS
    <3>2. CASE Rsa(toClient) = {}
      BY <2>3, <2>5, <3>2
    <3>3. CASE Rsa(pending) = {}
      <4>1. i \in Nat /\ j \in Nat /\ i - Len(pending) = j - Len(pending)
        BY <2>3, <2>5, <3>3
      <4> QED
        BY <1>0, <4>1
    <3> QED
      BY <2>3, <3>2, <3>3
  <2>8. \A i, j \in Rsa(toClient') : i = j
    <3>1. SUFFICES ASSUME NEW i \in Rsa(toClient'), NEW j \in Rsa(toClient')
                   PROVE  i = j
      OBVIOUS
    <3>2. i \in Nat /\ j \in Nat /\ k + i = k + j
      BY <2>3, <2>4
    <3> QED
      BY <2>2, <3>2
  <2>9. Rsa(pending') = {} \/ Rsa(toClient') = {}
    <3>1. SUFFICES ASSUME NEW i \in Rsa(pending'), NEW j \in Rsa(toClient')
                   PROVE  FALSE
      OBVIOUS
    <3>2. k + j \in Rsa(toClient) /\ j \in Nat /\ j >= 1
      BY <2>4
    <3>3. /\ i - Len(pending) \in Rsa(toClient) /\ i - Len(pending) <= k
          /\ i \in Nat
      BY <2>3, <2>5, <3>2
    <3>4. k + j = i - Len(pending)
      BY <2>3, <3>2, <3>3
    <3> QED
      BY <1>0, <2>2, <3>2, <3>3, <3>4
  <2>10. \A i \in Rsa(pending') : pending'[i].n = Len(vmGot')
    BY <2>1, <2>3, <2>5
  <2>11. \A i \in Rsa(toClient') : toClient'[i].n = Len(vmGot')
    BY <2>1, <2>3, <2>4
  <2>12. ~resuming' \/ ~greeted' => Rsa(pending') = {} /\ Rsa(toClient') = {}
    BY <2>1, <2>3, <2>4, <2>5
  <2> QED
    BY <1>0, <2>1, <2>7, <2>8, <2>9, <2>10, <2>11, <2>12 DEF OneResume
\* A relay step that puts pieces of another kind on the connection.
<1>12. ASSUME UNCHANGED <<pc, resuming, pending, vmGot, link>>, link = "up",
              greeted => greeted', Rsa(toClient') = Rsa(toClient),
              \A i \in Rsa(toClient) : toClient'[i] = toClient[i]
       PROVE  OneResume'
  <2>1. pc \in {"wait", "decode"}
    BY <1>0, <1>12 DEF OneResume
  <2>2. Rsa(pending') = Rsa(pending)
    BY <1>12
  <2> QED
    BY <1>0, <1>12, <2>1, <2>2 DEF OneResume, TypeOK
<1>13. ASSUME NEW p \in Piece, p.kind # "rsa", Say(<<p>>)
       PROVE  /\ Rsa(toClient') = Rsa(toClient) /\ link = "up"
              /\ \A i \in Rsa(toClient) : toClient'[i] = toClient[i]
              /\ UNCHANGED <<pc, resuming, pending, vmGot, link>>
  <2>1. /\ Len(toClient') = Len(toClient) + 1
        /\ toClient'[Len(toClient) + 1] = p
        /\ \A i \in 1..Len(toClient) : toClient'[i] = toClient[i]
    BY <1>0, <1>13, SayFacts
  <2>2. \A i : i \in 1..Len(toClient') <=> i \in 1..Len(toClient) \/ i = Len(toClient) + 1
    BY <1>0, <2>1
  <2>3. Rsa(toClient') = Rsa(toClient)
    BY <1>13, <2>1, <2>2 DEF Rsa
  <2> QED
    BY <1>13, <2>1, <2>3 DEF Say, Open, loopVars, Rsa
<1>14. \A k \in Kinds, n \in Nat : Control(k, n) \in Piece /\ Control(k, n).kind = k
                                 /\ Control(k, n).n = n
  BY DEF Control, Piece
<1>15. CASE RelayConfirms \/ RelayCloses \/ RelayAcks
            \/ \E k \in OddFrames : RelaySendsOdd(k)
  <2>1. Len(vmGot) \in Nat /\ greeted \in BOOLEAN
    BY <1>0, LenProperties DEF TypeOK
  <2>2. \E k \in Kinds \ {"rsa"}, n \in Nat : Say(<<Control(k, n)>>)
    BY <1>15, <2>1, ConstantsAssumption
       DEF RelayConfirms, RelayCloses, RelayAcks, RelaySendsOdd, Kinds
  <2>3. greeted => greeted'
    BY <1>15 DEF RelayConfirms, RelayCloses, RelayAcks, RelaySendsOdd
  <2> QED
    BY <1>12, <1>13, <1>14, <2>2, <2>3
<1>16. ASSUME NEW n \in 1..MaxFrame, RelaySendsData(n)
       PROVE  OneResume'
  <2>1. /\ Len(toClient') = Len(toClient) + 2
        /\ \A i \in 1..Len(toClient) : toClient'[i] = toClient[i]
        /\ \A i \in Len(toClient) + 1 .. Len(toClient) + 2 :
              toClient'[i].kind \in {"head", "tail"}
    BY <1>0, <1>16, SendsDataFacts
  <2>2. \A i : i \in 1..Len(toClient') <=>
              i \in 1..Len(toClient) \/ i \in Len(toClient) + 1 .. Len(toClient) + 2
    BY <1>0, <2>1
  <2>3. Rsa(toClient') = Rsa(toClient)
    BY <2>1, <2>2 DEF Rsa
  <2> QED
    BY <1>12, <1>16, <2>1, <2>3 DEF RelaySendsData, Say, Open, loopVars, Rsa
<1>17. CASE RelayResumes
  <2>1. /\ ~greeted /\ resuming /\ greeted' = TRUE
        /\ Say(<<Control("rsa", Len(vmGot))>>)
        /\ UNCHANGED <<pc, resuming, pending, vmGot, link>> /\ link = "up"
    BY <1>17 DEF RelayResumes, Say, Open, loopVars
  <2>2. pc \in {"wait", "decode"} /\ Rsa(pending) = {} /\ Rsa(toClient) = {}
    BY <1>0, <2>1 DEF OneResume
  <2>3. /\ Control("rsa", Len(vmGot)) \in Piece
        /\ Control("rsa", Len(vmGot)).n = Len(vmGot)
    BY <1>0, <1>14, LenProperties DEF TypeOK, Kinds
  <2>4. /\ Len(toClient') = Len(toClient) + 1
        /\ toClient'[Len(toClient) + 1] = Control("rsa", Len(vmGot))
        /\ \A i \in 1..Len(toClient) : toClient'[i] = toClient[i]
    BY <1>0, <2>1, <2>3, SayFacts
  <2>5. \A i \in 1..Len(toClient') : i \in 1..Len(toClient) \/ i = Len(toClient) + 1
    BY <1>0, <2>4
  <2>6. \A i \in Rsa(toClient') : i = Len(toClient) + 1
    BY <2>2, <2>4, <2>5 DEF Rsa
  <2>7. Rsa(pending') = {}
    BY <2>1, <2>2
  <2> QED
    BY <1>0, <2>1, <2>2, <2>3, <2>4, <2>6, <2>7 DEF OneResume
<1>18. ASSUME NEW n \in 1..Len(wire), RelayReceives(n)
       PROVE  OneResume'
  <2>1. UNCHANGED <<pc, resuming, pending, greeted, link, toClient>>
    BY <1>18 DEF RelayReceives, loopVars
  <2>2. ~(pc \in {"wait", "decode"} /\ resuming)
    <3>1. wire # <<>>
      BY <1>0, <1>18
    <3> QED
      BY <3>1 DEF IInv, InFlight
  <2>3. Rsa(pending') = Rsa(pending) /\ Rsa(toClient') = Rsa(toClient)
    BY <2>1
  <2> QED
    BY <1>0, <2>1, <2>2, <2>3 DEF OneResume
<1>19. ASSUME UNCHANGED <<resuming, pending, greeted, vmGot, toClient>>,
              link' # "none" => link # "none",
              pc' = pc \/ (pc \in {"wait", "decode"} /\ pc' \in {"wait", "decode"})
       PROVE  OneResume'
  <2>1. Rsa(pending') = Rsa(pending) /\ Rsa(toClient') = Rsa(toClient)
    BY <1>19
  <2> QED
    BY <1>0, <1>19, <2>1 DEF OneResume
<1>20. CASE DecodeNothing
  BY <1>19, <1>20 DEF DecodeNothing, relayVars, linkVars
<1>21. CASE LocalClose
  BY <1>19, <1>21 DEF LocalClose, loopVars, relayVars, linkVars
<1>22. CASE LinkBreaks
  BY <1>19, <1>22 DEF LinkBreaks, loopVars, relayVars
<1>23. CASE UNCHANGED vars
  BY <1>19, <1>23 DEF vars, loopVars, relayVars, linkVars
<1>24. ASSUME NEW n \in 1..MaxFrame, LocalRead(n)
       PROVE  OneResume'
  BY <1>19, <1>24 DEF LocalRead, loopVars, relayVars
<1> QED
  BY <1>2, <1>3, <1>5, <1>6, <1>8, <1>9, <1>10, <1>11, <1>15, <1>16, <1>17, <1>18,
     <1>20, <1>21, <1>22, <1>23, <1>24 DEF Next, Session, LocalSide, Relay

\* Nothing is in flight while resuming; outside it nothing recorded is missing.
LEMMA FlightStep ==
    ASSUME IInv, TypeOK', BufferIsTail', [Next]_vars
    PROVE  InFlight'
<1>0. /\ TypeOK /\ InFlight /\ BufferIsTail
      /\ wire \in Seq(Nat) /\ vmGot \in Seq(Nat)
      /\ Len(wire) \in Nat /\ Len(vmGot) \in Nat /\ sent \in Nat
      /\ Len(<<>>) = 0
  BY LenProperties DEF IInv, TypeOK
<1>1. ASSUME pc' = "ended" PROVE InFlight'
  BY <1>1 DEF InFlight
<1>2. ASSUME Dropped, sid' = sid PROVE InFlight'
  <2>1. pc' \in {"connect", "ended"} /\ (pc' = "connect" => sid')
    BY <1>0, <1>2, DroppedType
  <2> QED
    BY <2>1 DEF InFlight
<1>3. CASE ConnectFail \/ ReadClose \/ DecodeOversized \/ LocalEof \/ LocalReadError
           \/ DecodeDataWriteFails
  BY <1>1, <1>3 DEF ConnectFail, ReadClose, DecodeOversized, LocalEof, LocalReadError,
                    DecodeDataWriteFails, Return
<1>4. CASE RelayGone \/ \E n \in 1..MaxFrame : LocalReadSendFails(n)
  BY <1>2, <1>4 DEF RelayGone, LocalReadSendFails
<1>5. CASE Connect
  <2>1. /\ pc' = "wait" /\ wire' = <<>> /\ resuming' = sid
        /\ UNCHANGED <<vmGot, sent, sid, recorded>>
    BY <1>5 DEF Connect, outVars
  <2>2. ~sid => Len(vmGot) + 0 = sent
    <3>1. ASSUME ~sid PROVE Len(vmGot) + 0 = sent
      <4>1. recorded = <<>> /\ wire = <<>>
        BY <1>5, <3>1 DEF Connect, IInv, InFlight
      <4>2. sent = 0 /\ Len(vmGot) + 0 <= 0
        BY <1>0, <4>1 DEF IInv, BufferIsTail, OutboundInOrder
      <4> QED
        BY <1>0, <4>2
    <3> QED
      BY <3>1
  <2> QED
    BY <1>0, <2>1, <2>2 DEF InFlight
<1>6. CASE DecodeResumed
  <2>1. pc' \in {"wait", "decode", "connect", "ended"}
    BY DEF TypeOK
  <2>2. sid' = sid
    BY <1>6 DEF DecodeResumed
  <2>3. \/ Dropped
        \/ /\ resuming' = FALSE /\ pc' \in {"wait", "decode"}
           /\ Len(vmGot') + Len(wire') = sent'
    <3>1. \/ Dropped
          \/ pc' \in {"wait", "decode"}
      BY <1>6 DEF DecodeResumed
    <3> QED
      BY <1>6, <3>1, ResumedFacts
  <2> QED
    BY <1>2, <2>2, <2>3 DEF InFlight
<1>7. ASSUME NEW n \in 1..MaxFrame, LocalRead(n)
      PROVE  InFlight'
  <2>1. /\ pc = "wait" /\ ~resuming /\ sent' = sent + n
        /\ UNCHANGED <<pc, resuming, sid, vmGot>>
        /\ n \in Nat
    BY <1>7, ConstantsAssumption DEF LocalRead, loopVars, relayVars
  <2>2. Len(wire') = Len(wire) + n
    BY <1>0, <1>7, LocalReadFacts
  <2>3. Len(vmGot) + Len(wire) = sent
    BY <2>1 DEF IInv, InFlight
  <2>4. Len(vmGot') + Len(wire') = sent'
    <3>1. Len(vmGot') = Len(vmGot)
      BY <2>1
    <3>2. ASSUME NEW a \in Nat, NEW b \in Nat, NEW c \in Nat, a + b = sent
          PROVE  a + (b + c) = sent + c
      BY <3>2
    <3>3. Len(vmGot) + (Len(wire) + n) = sent + n
      BY <1>0, <2>1, <2>3, <3>2
    <3> QED
      BY <2>1, <2>2, <3>1, <3>3
  <2> QED
    BY <2>1, <2>4 DEF InFlight
<1>8. ASSUME NEW n \in 1..Len(wire), RelayReceives(n)
      PROVE  InFlight'
  <2>1. n \in Nat /\ n <= Len(wire) /\ wire # <<>>
        /\ UNCHANGED <<pc, resuming, sid, sent, recorded, pending>>
    BY <1>0, <1>8 DEF RelayReceives, loopVars, outVars
  <2>2. SubSeq(wire, 1, n) \in Seq(Nat) /\ Len(SubSeq(wire, 1, n)) = n
    BY <1>0, <2>1, PrefixFacts
  <2>3. Len(wire') = Len(wire) - n
    BY <1>0, <1>8, <2>1, SuffixFacts DEF RelayReceives
  <2>4. Len(vmGot') = Len(vmGot) + n
    BY <1>0, <1>8, <2>2, ConcatProperties DEF RelayReceives
  <2>5. Len(vmGot') + Len(wire') = Len(vmGot) + Len(wire)
    BY <1>0, <2>1, <2>3, <2>4
  <2> QED
    BY <1>0, <2>1, <2>5 DEF InFlight
<1>9. CASE DecodeSid
  BY <1>0, <1>9 DEF DecodeSid, Decoding, InFlight, outVars, relayVars, linkVars
<1>10. CASE DecodeData
  <2>1. /\ pc = "decode" /\ UNCHANGED <<resuming, sid, sent, recorded, vmGot, wire>>
        /\ Dropped \/ UNCHANGED pc
    BY <1>10 DEF DecodeData, Decoding, outVars, relayVars
  <2> QED
    BY <1>0, <1>2, <2>1 DEF InFlight
<1>11. CASE DecodeUnknown \/ DecodeAck
  <2>1. pc = "decode" /\ UNCHANGED <<pc, resuming, sid, sent, recorded, vmGot, wire>>
    BY <1>11 DEF DecodeUnknown, DecodeAck, Decoding, outVars, relayVars, linkVars
  <2> QED
    BY <1>0, <2>1 DEF InFlight
<1>12. CASE DecodeNothing \/ \E k \in 1..Len(toClient) : ReadMessage(k)
  <2>1. pc \in {"wait", "decode"} /\ pc' \in {"wait", "decode"}
        /\ UNCHANGED <<resuming, sid, sent, recorded, vmGot, wire>>
    BY <1>12 DEF DecodeNothing, ReadMessage, outVars, relayVars, linkVars
  <2> QED
    BY <1>0, <2>1 DEF InFlight
<1>13. CASE LocalClose \/ LinkBreaks \/ UNCHANGED vars
            \/ RelayConfirms \/ RelayResumes \/ RelayAcks \/ RelayCloses
            \/ (\E n \in 1..MaxFrame : RelaySendsData(n))
            \/ (\E k \in OddFrames : RelaySendsOdd(k))
  <2>1. UNCHANGED <<pc, resuming, sid, sent, recorded, vmGot, wire, pending>>
    BY <1>13 DEF LocalClose, LinkBreaks, vars, RelayConfirms, RelayResumes, RelayAcks,
                 RelayCloses, RelaySendsData, RelaySendsOdd, Say, loopVars, outVars,
                 relayVars, linkVars
  <2> QED
    BY <1>0, <2>1 DEF InFlight
<1> QED
  BY <1>3, <1>4, <1>5, <1>6, <1>7, <1>8, <1>9, <1>10, <1>11, <1>12, <1>13
     DEF Next, Session, LocalSide, Relay

-----------------------------------------------------------------------------
\* The inductive invariant holds at first.
LEMMA InitIInv == Init => IInv
<1> SUFFICES ASSUME Init PROVE IInv
  OBVIOUS
<1>1. Len(<<>>) = 0
  OBVIOUS
<1>2. TypeOK
  <2>1. <<>> \in Seq(Piece) /\ <<>> \in Seq(Nat)
    BY EmptySeq
  <2>2. 0 \in Nat /\ 0 \in 0..MaxReconnects /\ 0 \in 0..MaxOut
    BY ConstantsAssumption
  <2> QED
    BY <2>1, <2>2 DEF Init, TypeOK
<1>3. OutboundInOrder /\ BufferIsTail /\ CountsAreReached
  BY <1>1 DEF Init, OutboundInOrder, BufferIsTail, CountsAreReached
<1>4. OneResume /\ InFlight
  BY DEF Init, OneResume, InFlight
<1> QED
  BY <1>2, <1>3, <1>4 DEF IInv

\* Every step keeps the inductive invariant.
LEMMA StepIInv == IInv /\ [Next]_vars => IInv'
<1> SUFFICES ASSUME IInv, [Next]_vars PROVE IInv'
  OBVIOUS
<1>1. TypeOK'
  BY TypeStep DEF IInv
<1>2. BufferIsTail'
  BY BufferStep DEF IInv
<1>3. OutboundInOrder'
  BY InOrderStep
<1>4. CountsAreReached'
  BY <1>1, CountsStep
<1>5. OneResume'
  BY <1>1, ResumeStep
<1>6. InFlight'
  BY <1>1, <1>2, FlightStep
<1> QED
  BY <1>1, <1>2, <1>3, <1>4, <1>5, <1>6 DEF IInv

\* So it holds in every behaviour of every session.
THEOREM Invariance == Spec => []IInv
BY InitIInv, StepIInv, PTL DEF Spec

\* Every variable of the session keeps its type.
THEOREM TypeCorrect == Spec => []TypeOK
<1>1. IInv => TypeOK
  BY DEF IInv
<1> QED
  BY <1>1, Invariance, PTL

\* For any frame size, number of reconnects and streams: what the relay took
\* and what is in flight is the start of what the client recorded as sent,
\* however connections break and tails are resent.
THEOREM NothingRecordedIsReordered == Spec => []OutboundInOrder
<1>1. IInv => OutboundInOrder
  BY DEF IInv
<1> QED
  BY <1>1, Invariance, PTL

\* No acknowledgement makes a byte the relay has not taken unrecoverable: it
\* is in OutboundBuffer, where bytes_to_resend looks for it.
THEOREM NothingUndeliveredIsForgotten == Spec => []UndeliveredIsBuffered
<1>1. ASSUME IInv PROVE UndeliveredIsBuffered
  <2>1. SUFFICES ASSUME NEW i \in Len(vmGot) + 1 .. Len(recorded)
                 PROVE  /\ i - confirmed \in 1..Len(unacked)
                        /\ unacked[i - confirmed] = recorded[i]
    BY DEF UndeliveredIsBuffered
  <2>2. /\ Len(vmGot) \in Nat /\ confirmed \in Nat /\ sent \in Nat
        /\ confirmed <= Len(vmGot) /\ sent = Len(recorded)
        /\ Len(unacked) = sent - confirmed
    BY <1>1, LenProperties DEF IInv, TypeOK, BufferIsTail, CountsAreReached
  <2> DEFINE j == i - confirmed
  <2>3. j \in 1..Len(unacked) /\ confirmed + j = i
    BY <2>1, <2>2
  <2> HIDE DEF j
  <2>4. unacked[j] = recorded[i]
    BY <1>1, <2>3 DEF IInv, BufferIsTail
  <2> QED
    BY <2>3, <2>4 DEF j
<1> QED
  BY <1>1, Invariance, PTL

-----------------------------------------------------------------------------
(* The inbound direction: what is acknowledged was delivered.  The invariant *)
(* ties AckPolicy's count to the local socket for as long as the session     *)
(* may still tell it to the relay.                                           *)

CountIsDelivered ==
    /\ pc # "ended" => received = Len(localGot)
    /\ ackSent <= Len(localGot)

\* A complete DATA frame delivers as many bytes as its header says.
LEMMA PayloadLength ==
    ASSUME NEW buf \in Seq(Piece), Complete(buf)
    PROVE  Len(Payload(buf)) = Head(buf).len /\ Head(buf).len \in Nat
<1>1. Head(buf).len \in Nat
  BY DrainFacts DEF Piece
<1> QED
  BY <1>1 DEF Payload

\* Every step keeps the received count the number of bytes delivered.
LEMMA CountStep ==
    ASSUME TypeOK, CountIsDelivered, [Next]_vars
    PROVE  CountIsDelivered'
<1>0. /\ received \in Nat /\ ackSent \in Nat /\ localGot \in Seq(Nat)
      /\ Len(localGot) \in Nat /\ pending \in Seq(Piece)
  BY LenProperties DEF TypeOK
<1>1. ASSUME UNCHANGED <<received, ackSent, localGot>>, pc = "ended" => pc' = "ended"
      PROVE  CountIsDelivered'
  BY <1>1 DEF CountIsDelivered
<1>2. CASE Connect
  <2>1. /\ received = Len(localGot) /\ UNCHANGED <<received, localGot>>
        /\ pc' = "wait"
        /\ ackSent' = IF sid THEN Greater(ackSent, received) ELSE ackSent
    BY <1>2 DEF Connect, CountIsDelivered, localVars
  <2>2. Greater(ackSent, received) = ackSent \/ Greater(ackSent, received) = received
    BY <1>0, GreaterFacts
  <2> QED
    BY <1>0, <2>1, <2>2 DEF CountIsDelivered
<1>3. CASE DecodeDataWriteFails
  BY <1>3 DEF DecodeDataWriteFails, Return, CountIsDelivered, localVars
<1>4. CASE DecodeData
  <2> DEFINE r == received + Head(pending).len
  <2>1. /\ received = Len(localGot) /\ Complete(pending)
        /\ received' = r /\ localGot' = localGot \o Payload(pending)
        /\ ackSent' = ackSent \/ ackSent' = Greater(ackSent, r)
    BY <1>4 DEF DecodeData, Decoding, CountIsDelivered
  <2>2. /\ Len(Payload(pending)) = Head(pending).len /\ Head(pending).len \in Nat
        /\ Payload(pending) \in Seq(Nat)
    BY <1>0, <2>1, PayloadLength, PayloadType
  <2>3. Len(localGot') = Len(localGot) + Len(Payload(pending))
    BY <1>0, <2>1, <2>2, ConcatProperties
  <2>4. r \in Nat /\ Len(localGot') = r /\ ackSent <= r
    <3>1. r \in Nat /\ received <= r
      BY <1>0, <2>2
    <3>2. Len(localGot') = r
      BY <2>1, <2>2, <2>3
    <3>3. ackSent <= received
      BY <2>1 DEF CountIsDelivered
    <3> HIDE DEF r
    <3> QED
      BY <1>0, <3>1, <3>2, <3>3
  <2> HIDE DEF r
  <2>5. ackSent' = ackSent \/ ackSent' = r
    BY <1>0, <2>1, <2>4, GreaterFacts
  <2> QED
    BY <2>1, <2>4, <2>5 DEF CountIsDelivered
<1>5. CASE RelayGone \/ ReadClose \/ ConnectFail \/ DecodeOversized \/ LocalEof
           \/ LocalReadError
  BY <1>1, <1>5 DEF RelayGone, ReadClose, ConnectFail, DecodeOversized, LocalEof,
                    LocalReadError, Return, ackVars, localVars
<1>6. CASE DecodeNothing \/ DecodeSid \/ DecodeUnknown \/ DecodeAck \/ DecodeResumed
           \/ \E k \in 1..Len(toClient) : ReadMessage(k)
  BY <1>1, <1>6 DEF DecodeNothing, DecodeSid, DecodeUnknown, DecodeAck, DecodeResumed,
                    Decoding, ReadMessage, ackVars, localVars
<1>7. ASSUME NEW n \in 1..MaxFrame, LocalRead(n) \/ LocalReadSendFails(n)
      PROVE  CountIsDelivered'
  BY <1>1, <1>7 DEF LocalRead, LocalReadSendFails, ackVars
<1>8. CASE LocalClose \/ LinkBreaks \/ UNCHANGED vars
           \/ \E n \in 1..Len(wire) : RelayReceives(n)
  BY <1>1, <1>8 DEF LocalClose, LinkBreaks, RelayReceives, vars, loopVars, ackVars,
                    localVars
<1>9. CASE \/ RelayConfirms \/ RelayResumes \/ RelayAcks \/ RelayCloses
           \/ \E n \in 1..MaxFrame : RelaySendsData(n)
           \/ \E k \in OddFrames : RelaySendsOdd(k)
  BY <1>1, <1>9 DEF RelayConfirms, RelayResumes, RelayAcks, RelayCloses,
                    RelaySendsData, RelaySendsOdd, Say, loopVars, ackVars, localVars
<1> QED
  BY <1>2, <1>3, <1>4, <1>5, <1>6, <1>7, <1>8, <1>9 DEF Next, Session, LocalSide, Relay

\* The relay is never told of a byte the local application was not handed, in
\* an ACK or in a reconnect URL, whatever breaks and whenever the application
\* stops taking bytes.
THEOREM OnlyDeliveredIsAcked == Spec => []AckedWasDelivered
<1>1. Init => CountIsDelivered
  BY LenProperties DEF Init, CountIsDelivered
<1>2. TypeOK /\ CountIsDelivered /\ [Next]_vars => CountIsDelivered'
  BY CountStep
<1>3. CountIsDelivered => AckedWasDelivered
  BY DEF CountIsDelivered, AckedWasDelivered
<1> QED
  BY <1>1, <1>2, <1>3, TypeCorrect, PTL DEF Spec

-----------------------------------------------------------------------------
(* The inbound direction: what is delivered is the VM's stream.  The pieces  *)
(* received and the pieces on the connection are one stream, which carries   *)
(* the bytes from the count of the local socket to that of the relay.        *)

Stream == pending \o toClient

\* at[i] counts the VM's bytes before the i-th piece of q, m before the first
\* and n after the last; every head is followed by its tail.
Counts(q, m, n, at) ==
    /\ at[1] = m /\ at[Len(q) + 1] = n
    /\ \A i \in 1..Len(q) :
          IF q[i].kind = "head"
          THEN /\ q[i].n = at[i] /\ at[i + 1] = at[i] + q[i].len
               /\ i < Len(q) /\ q[i + 1].kind = "tail"
          ELSE at[i + 1] = at[i]

Carries(q, m, n) == \E at \in [1..Len(q) + 1 -> Nat] : Counts(q, m, n, at)

InboundInOrder ==
    /\ \A i \in 1..Len(localGot) : localGot[i] = i
    /\ pc = "connect" /\ ~sid => received = 0 /\ vmSent = 0
    /\ pc \in {"wait", "decode"} => Carries(Stream, received, vmSent)

\* Nothing carries no byte.
LEMMA CarriesNothing == ASSUME NEW m \in Nat PROVE Carries(<<>>, m, m)
<1>1. Len(<<>>) = 0
  OBVIOUS
<1> DEFINE at == [i \in 1..1 |-> m]
<1>2. at \in [1..Len(<<>>) + 1 -> Nat] /\ Counts(<<>>, m, m, at)
  BY <1>1 DEF Counts
<1> QED
  BY <1>2 DEF Carries

\* A piece that is not a head, put at the end, carries no byte.
LEMMA CarriesControl ==
    ASSUME NEW q \in Seq(Piece), NEW m \in Nat, NEW n \in Nat, Carries(q, m, n),
           NEW p \in Piece, p.kind # "head"
    PROVE  Carries(q \o <<p>>, m, n)
<1>1. PICK at \in [1..Len(q) + 1 -> Nat] : Counts(q, m, n, at)
  BY DEF Carries
<1> DEFINE r == q \o <<p>>
           new == [i \in 1..Len(q) + 2 |-> IF i <= Len(q) + 1 THEN at[i] ELSE n]
<1>2. Len(q) \in Nat
  BY LenProperties
<1>3. /\ Len(r) = Len(q) + 1 /\ r[Len(q) + 1] = p
      /\ \A i \in 1..Len(q) : r[i] = q[i]
  <2>1. <<p>> \in Seq(Piece) /\ Len(<<p>>) = 1 /\ <<p>>[1] = p
    OBVIOUS
  <2> QED
    BY <1>2, <2>1, ConcatProperties
<1> HIDE DEF r
<1>4. new \in [1..Len(r) + 1 -> Nat]
  BY <1>2, <1>3
<1>5. /\ \A i \in 1..Len(q) + 1 : new[i] = at[i]
      /\ new[Len(q) + 2] = n
  BY <1>2
<1> HIDE DEF new
<1>6. new[1] = m /\ new[Len(r) + 1] = n
  BY <1>1, <1>2, <1>3, <1>5 DEF Counts
<1>7. ASSUME NEW i \in 1..Len(r)
      PROVE  IF r[i].kind = "head"
             THEN /\ r[i].n = new[i] /\ new[i + 1] = new[i] + r[i].len
                  /\ i < Len(r) /\ r[i + 1].kind = "tail"
             ELSE new[i + 1] = new[i]
  <2>1. CASE i = Len(q) + 1
    BY <1>1, <1>2, <1>3, <1>5, <2>1 DEF Counts
  <2>2. CASE i \in 1..Len(q)
    <3>1. /\ r[i] = q[i] /\ new[i] = at[i] /\ new[i + 1] = at[i + 1]
          /\ i < Len(q) => r[i + 1] = q[i + 1]
      BY <1>2, <1>3, <1>5, <2>2
    <3> QED
      BY <1>1, <1>2, <1>3, <2>2, <3>1 DEF Counts
  <2> QED
    BY <1>2, <1>3, <2>1, <2>2
<1>8. Counts(r, m, n, new)
  BY <1>6, <1>7 DEF Counts
<1> QED
  BY <1>4, <1>8 DEF Carries, r

\* A DATA frame put at the end carries the next bytes.
LEMMA CarriesData ==
    ASSUME NEW q \in Seq(Piece), NEW m \in Nat, NEW n \in Nat, Carries(q, m, n),
           NEW k \in Nat
    PROVE  Carries(q \o DataFrame(n, k), m, n + k)
<1>1. PICK at \in [1..Len(q) + 1 -> Nat] : Counts(q, m, n, at)
  BY DEF Carries
<1> DEFINE f == DataFrame(n, k)
           r == q \o f
           new == [i \in 1..Len(q) + 3 |-> IF i <= Len(q) + 1 THEN at[i] ELSE n + k]
<1>2. Len(q) \in Nat
  BY LenProperties
<1>3. /\ f \in Seq(Piece) /\ Len(f) = 2
      /\ f[1].kind = "head" /\ f[1].n = n /\ f[1].len = k /\ f[2].kind = "tail"
  BY DEF DataFrame, Control, Piece, Kinds
<1> HIDE DEF f
<1>4. /\ Len(r) = Len(q) + 2 /\ r[Len(q) + 1] = f[1] /\ r[Len(q) + 2] = f[2]
      /\ \A i \in 1..Len(q) : r[i] = q[i]
  <2>1. /\ Len(r) = Len(q) + 2
        /\ \A i \in 1..Len(q) + 2 : r[i] = IF i <= Len(q) THEN q[i] ELSE f[i - Len(q)]
    <3>1. /\ Len(r) = Len(q) + Len(f)
          /\ \A i \in 1..Len(q) + Len(f) :
                r[i] = IF i <= Len(q) THEN q[i] ELSE f[i - Len(q)]
      BY <1>3, ConcatProperties
    <3> HIDE DEF r
    <3> QED
      BY <1>3, <3>1
  <2> HIDE DEF r
  <2>2. /\ (Len(q) + 1) - Len(q) = 1 /\ (Len(q) + 2) - Len(q) = 2
        /\ ~(Len(q) + 1 <= Len(q)) /\ ~(Len(q) + 2 <= Len(q))
        /\ Len(q) + 1 \in 1..Len(q) + 2 /\ Len(q) + 2 \in 1..Len(q) + 2
        /\ \A i \in 1..Len(q) : i \in 1..Len(q) + 2 /\ i <= Len(q)
    BY <1>2
  <2> QED
    BY <2>1, <2>2
<1> HIDE DEF r
<1>5. new \in [1..Len(r) + 1 -> Nat]
  BY <1>2, <1>4
<1>6. /\ \A i \in 1..Len(q) + 1 : new[i] = at[i]
      /\ new[Len(q) + 2] = n + k /\ new[Len(q) + 3] = n + k
  BY <1>2
<1> HIDE DEF new
<1>7. at[1] = m /\ at[Len(q) + 1] = n
  BY <1>1 DEF Counts
<1>8. new[1] = m /\ new[Len(r) + 1] = n + k
  <2>1. 1 \in 1..Len(q) + 1 /\ Len(r) + 1 = Len(q) + 3
    BY <1>2, <1>4
  <2> QED
    BY <1>6, <1>7, <2>1
<1>9. ASSUME NEW i \in 1..Len(r)
      PROVE  IF r[i].kind = "head"
             THEN /\ r[i].n = new[i] /\ new[i + 1] = new[i] + r[i].len
                  /\ i < Len(r) /\ r[i + 1].kind = "tail"
             ELSE new[i + 1] = new[i]
  <2>1. CASE i = Len(q) + 2
    <3>1. i + 1 = Len(q) + 3
      BY <1>2, <2>1
    <3> QED
      BY <1>3, <1>4, <1>6, <2>1, <3>1
  <2>2. CASE i = Len(q) + 1
    <3>1. i + 1 = Len(q) + 2 /\ i \in 1..Len(q) + 1 /\ i < Len(r)
      BY <1>2, <1>4, <2>2
    <3>2. r[i] = f[1] /\ r[i + 1] = f[2] /\ new[i] = n /\ new[i + 1] = n + k
      BY <1>4, <1>6, <1>7, <2>2, <3>1
    <3> QED
      BY <1>3, <3>1, <3>2
  <2>3. CASE i \in 1..Len(q)
    <3>1. /\ r[i] = q[i] /\ new[i] = at[i] /\ new[i + 1] = at[i + 1]
          /\ i < Len(q) => r[i + 1] = q[i + 1]
          /\ i < Len(r)
      BY <1>2, <1>4, <1>6, <2>3
    <3> QED
      BY <1>1, <2>3, <3>1 DEF Counts
  <2> QED
    BY <1>2, <1>4, <2>1, <2>2, <2>3
<1>10. Counts(r, m, n + k, new)
  BY <1>8, <1>9 DEF Counts
<1> QED
  BY <1>5, <1>10 DEF Carries, r, f

\* Without the pieces of its first frame, a stream carries what is left: the
\* frame at the front is whole, and a DATA frame's head names the next byte.
LEMMA CarriesRest ==
    ASSUME NEW q \in Seq(Piece), NEW m \in Nat, NEW n \in Nat, Carries(q, m, n),
           q # <<>>,
           NEW size \in 1..Len(q), size = IF q[1].kind = "head" THEN 2 ELSE 1,
           NEW r \in Seq(Piece), Len(r) = Len(q) - size,
           \A i \in 1..Len(r) : r[i] = q[size + i]
    PROVE  /\ q[1].kind # "head" => Carries(r, m, n)
           /\ q[1].kind = "head" => /\ q[1].n = m /\ q[2].kind = "tail"
                                    /\ Carries(r, m + q[1].len, n)
<1>1. PICK at \in [1..Len(q) + 1 -> Nat] : Counts(q, m, n, at)
  BY DEF Carries
<1>2. Len(q) \in Nat /\ 1 \in 1..Len(q) /\ size \in {1, 2} /\ size <= Len(q)
  BY LenProperties
<1> DEFINE new == [i \in 1..Len(r) + 1 |-> at[size + i]]
<1>3. \A i \in 1..Len(r) + 1 : size + i \in 1..Len(q) + 1
  BY <1>2
<1>4. new \in [1..Len(r) + 1 -> Nat] /\ \A i \in 1..Len(r) + 1 : new[i] = at[size + i]
  BY <1>3
<1> HIDE DEF new
<1>5. new[1] = at[size + 1] /\ new[Len(r) + 1] = n
  <2>1. 1 \in 1..Len(r) + 1 /\ Len(r) + 1 \in 1..Len(r) + 1 /\ size + (Len(r) + 1) = Len(q) + 1
    BY <1>2
  <2>2. at[Len(q) + 1] = n
    BY <1>1 DEF Counts
  <2>3. new[1] = at[size + 1] /\ new[Len(r) + 1] = at[size + (Len(r) + 1)]
    BY <1>4, <2>1
  <2> QED
    BY <2>1, <2>2, <2>3
<1>6. Counts(r, at[size + 1], n, new)
  <2>1. SUFFICES ASSUME NEW i \in 1..Len(r)
                 PROVE  IF r[i].kind = "head"
                        THEN /\ r[i].n = new[i] /\ new[i + 1] = new[i] + r[i].len
                             /\ i < Len(r) /\ r[i + 1].kind = "tail"
                        ELSE new[i + 1] = new[i]
    BY <1>5 DEF Counts
  <2>2. /\ size + i \in 1..Len(q) /\ r[i] = q[size + i]
        /\ new[i] = at[size + i] /\ new[i + 1] = at[(size + i) + 1]
        /\ i < Len(r) <=> size + i < Len(q)
        /\ i < Len(r) => r[i + 1] = q[(size + i) + 1]
    <3>1. /\ i \in 1..Len(r) + 1 /\ i + 1 \in 1..Len(r) + 1
          /\ size + (i + 1) = (size + i) + 1
          /\ i < Len(r) => i + 1 \in 1..Len(r)
      BY <1>2
    <3> QED
      BY <1>2, <1>4, <3>1
  <2> DEFINE j == size + i
  <2>3. IF q[j].kind = "head"
        THEN /\ q[j].n = at[j] /\ at[j + 1] = at[j] + q[j].len
             /\ j < Len(q) /\ q[j + 1].kind = "tail"
        ELSE at[j + 1] = at[j]
    BY <1>1, <2>2 DEF Counts
  <2> HIDE DEF j
  <2>4. /\ r[i] = q[j] /\ new[i] = at[j] /\ new[i + 1] = at[j + 1]
        /\ i < Len(r) <=> j < Len(q)
        /\ i < Len(r) => r[i + 1] = q[j + 1]
    BY <2>2 DEF j
  <2> QED
    BY <2>3, <2>4
<1>7. Carries(r, at[size + 1], n)
  BY <1>4, <1>6 DEF Carries
<1>8. at[1] = m
  BY <1>1 DEF Counts
<1>9. CASE q[1].kind = "head"
  <2>1. q[1].n = m /\ at[2] = m + q[1].len /\ 1 < Len(q) /\ q[2].kind = "tail"
    <3>1. 1 + 1 = 2
      OBVIOUS
    <3> QED
      BY <1>1, <1>2, <1>8, <1>9, <3>1 DEF Counts
  <2>2. at[3] = at[2]
    <3>1. 2 \in 1..Len(q) /\ 2 + 1 = 3 /\ "tail" # "head"
      BY <1>2, <2>1
    <3> QED
      BY <1>1, <2>1, <3>1 DEF Counts
  <2>3. size + 1 = 3
    BY <1>9
  <2> QED
    BY <1>7, <1>9, <2>1, <2>2, <2>3
<1>10. CASE q[1].kind # "head"
  <2>1. at[1 + 1] = at[1]
    BY <1>1, <1>2, <1>10 DEF Counts
  <2>2. size + 1 = 1 + 1
    BY <1>10
  <2> QED
    BY <1>7, <1>8, <1>10, <2>1, <2>2
<1> QED
  BY <1>9, <1>10

\* What the decoder takes from the buffer, it takes from the stream.
LEMMA StreamDrained ==
    ASSUME TypeOK, Complete(pending),
           NEW m \in Nat, NEW n \in Nat, Carries(Stream, m, n)
    PROVE  LET left == Drain(pending) \o toClient IN
           /\ Head(pending).kind # "head" => Carries(left, m, n)
           /\ Head(pending).kind = "head" =>
                 /\ Head(pending).n = m /\ pending[2].kind = "tail"
                 /\ Carries(left, m + Head(pending).len, n)
<1> DEFINE size == FrameSize(pending)
           buf == Drain(pending)
           left == buf \o toClient
<1>1. /\ pending \in Seq(Piece) /\ toClient \in Seq(Piece) /\ buf \in Seq(Piece)
      /\ Len(pending) \in Nat /\ Len(toClient) \in Nat /\ Len(buf) \in Nat
  BY DrainFacts, LenProperties DEF TypeOK
<1>2. /\ size \in 1..2 /\ size <= Len(pending)
      /\ Len(buf) = Len(pending) - size
      /\ \A i \in 1..Len(buf) : buf[i] = pending[size + i]
      /\ Head(pending) = pending[1] /\ Head(pending) \in Piece
  BY <1>1, DrainFacts
<1>3. size = IF pending[1].kind = "head" THEN 2 ELSE 1
  BY <1>2 DEF FrameSize
<1> HIDE DEF size
<1>4. /\ Stream \in Seq(Piece) /\ Len(Stream) = Len(pending) + Len(toClient)
      /\ \A i \in 1..Len(pending) + Len(toClient) :
            Stream[i] = IF i <= Len(pending) THEN pending[i] ELSE toClient[i - Len(pending)]
  BY <1>1, ConcatProperties DEF Stream
<1>5. /\ left \in Seq(Piece) /\ Len(left) = Len(buf) + Len(toClient)
      /\ \A i \in 1..Len(buf) + Len(toClient) :
            left[i] = IF i <= Len(buf) THEN buf[i] ELSE toClient[i - Len(buf)]
  BY <1>1, ConcatProperties
<1> HIDE DEF left, buf
<1>6. Len(left) = Len(Stream) - size
  BY <1>1, <1>2, <1>4, <1>5
<1>7. \A i \in 1..Len(left) : left[i] = Stream[size + i]
  <2>1. SUFFICES ASSUME NEW i \in 1..Len(buf) + Len(toClient)
                 PROVE  left[i] = Stream[size + i]
    BY <1>5
  <2>2. size + i \in 1..Len(pending) + Len(toClient)
    BY <1>1, <1>2
  <2>3. CASE i <= Len(buf)
    <3>1. i \in 1..Len(buf) /\ size + i <= Len(pending)
      BY <1>1, <1>2, <2>3
    <3> QED
      BY <1>2, <1>4, <1>5, <2>2, <2>3, <3>1
  <2>4. CASE ~(i <= Len(buf))
    <3>1. ~(size + i <= Len(pending)) /\ (size + i) - Len(pending) = i - Len(buf)
      BY <1>1, <1>2, <2>4
    <3>2. left[i] = toClient[i - Len(buf)]
      BY <1>5, <2>4
    <3>3. Stream[size + i] = toClient[(size + i) - Len(pending)]
      BY <1>4, <2>2, <3>1
    <3> QED
      BY <3>1, <3>2, <3>3
  <2> QED
    BY <2>3, <2>4
<1>8. /\ size \in 1..Len(Stream) /\ Stream # <<>> /\ Stream[1] = pending[1]
      /\ size = 2 => Stream[2] = pending[2]
  <2>1. 1 \in 1..Len(pending) + Len(toClient) /\ 1 <= Len(pending)
    BY <1>1, <1>2
  <2>2. size = 2 => 2 \in 1..Len(pending) + Len(toClient) /\ 2 <= Len(pending)
    BY <1>1, <1>2
  <2>3. size \in 1..Len(Stream)
    BY <1>1, <1>2, <1>4
  <2>4. Stream # <<>>
    BY <1>4, <2>3, EmptySeq
  <2> QED
    BY <1>4, <2>1, <2>2, <2>3, <2>4
<1>9. /\ Stream[1].kind # "head" => Carries(left, m, n)
      /\ Stream[1].kind = "head" => /\ Stream[1].n = m /\ Stream[2].kind = "tail"
                                    /\ Carries(left, m + Stream[1].len, n)
  <2>1. size = IF Stream[1].kind = "head" THEN 2 ELSE 1
    BY <1>3, <1>8
  <2> QED
    BY <1>4, <1>5, <1>6, <1>7, <1>8, <2>1, CarriesRest
<1> QED
  BY <1>2, <1>3, <1>8, <1>9 DEF left, buf

\* Putting pieces together is associative.
LEMMA PiecesAssociate ==
    \A s, t, u \in Seq(Piece) : (s \o t) \o u = s \o (t \o u)
BY ConcatAssociative

\* What the relay says joins the end of the stream.
LEMMA StreamSaid ==
    ASSUME TypeOK, NEW pieces \in Seq(Piece), pending' = pending,
           toClient' = toClient \o pieces
    PROVE  Stream' = Stream \o pieces
<1>1. pending \in Seq(Piece) /\ toClient \in Seq(Piece)
  BY DEF TypeOK
<1>2. (pending \o toClient) \o pieces = pending \o (toClient \o pieces)
  BY <1>1, PiecesAssociate
<1> QED
  BY <1>2 DEF Stream

\* Reading a message moves pieces within the stream.
LEMMA StreamRead ==
    ASSUME TypeOK, NEW k \in 1..Len(toClient), ReadMessage(k)
    PROVE  Stream' = Stream
<1>1. toClient \in Seq(Piece) /\ pending \in Seq(Piece) /\ Len(toClient) \in Nat
  BY LenProperties DEF TypeOK
<1> DEFINE first == SubSeq(toClient, 1, k)
           rest == SubSeq(toClient, k + 1, Len(toClient))
<1>2. Stream' = (pending \o first) \o rest
  BY DEF ReadMessage, Stream
<1>3. first \in Seq(Piece) /\ rest \in Seq(Piece)
  BY <1>1, PrefixFacts, SuffixFacts
<1>4. first \o rest = toClient
  <2>1. first \o rest = SubSeq(toClient, 1, Len(toClient))
    <3>1. /\ 1 \in 1..Len(toClient) + 1 /\ k \in 1 - 1 .. Len(toClient)
          /\ Len(toClient) \in k..Len(toClient)
      BY <1>1
    <3> QED
      BY <1>1, <3>1, ConcatAdjacentSubSeq
  <2> QED
    BY <1>1, <2>1, SubSeqFull
<1> HIDE DEF first, rest
<1>5. (pending \o first) \o rest = pending \o (first \o rest)
  BY <1>1, <1>3, PiecesAssociate
<1> QED
  BY <1>2, <1>4, <1>5 DEF Stream

\* Every step keeps the inbound bytes in order.
LEMMA InboundStep ==
    ASSUME IInv, TypeOK', CountIsDelivered, InboundInOrder, [Next]_vars
    PROVE  InboundInOrder'
<1>0. /\ TypeOK /\ received \in Nat /\ vmSent \in Nat /\ localGot \in Seq(Nat)
      /\ Len(localGot) \in Nat /\ pending \in Seq(Piece) /\ toClient \in Seq(Piece)
      /\ \A i \in 1..Len(localGot) : localGot[i] = i
  BY LenProperties DEF IInv, TypeOK, InboundInOrder
\* A step that leaves the stream alone.
<1>1. ASSUME UNCHANGED <<received, vmSent, localGot, sid>>, Stream' = Stream,
             \/ pc' = pc
             \/ pc \in {"wait", "decode"} /\ pc' \in {"wait", "decode"}
      PROVE  InboundInOrder'
  BY <1>1 DEF InboundInOrder
\* A step that ends the session, or its connection.
<1>2. ASSUME localGot' = localGot, pc' = "ended" \/ (pc' = "connect" /\ sid')
      PROVE  InboundInOrder'
  BY <1>2 DEF InboundInOrder
<1>3. Dropped => pc' = "ended" \/ (pc' = "connect" /\ sid)
  BY DEF Dropped, Return
\* A step that takes a frame that carries no byte.
<1>4. ASSUME UNCHANGED <<received, vmSent, localGot, toClient>>,
             pc = "decode", pc' \in {"wait", "decode"},
             Complete(pending), pending' = Drain(pending), Head(pending).kind # "head"
      PROVE  InboundInOrder'
  <2>1. Carries(Stream, received, vmSent)
    BY <1>4 DEF InboundInOrder
  <2>2. Carries(Stream', received, vmSent)
    BY <1>0, <1>4, <2>1, StreamDrained DEF Stream
  <2> QED
    BY <1>0, <1>4, <2>2 DEF InboundInOrder
\* A step of the relay that sends a piece without a byte.
<1>5. ASSUME NEW p \in Piece, p.kind # "head", Say(<<p>>), vmSent' = vmSent
      PROVE  InboundInOrder'
  <2>1. /\ pc \in {"wait", "decode"} /\ pc' = pc /\ received' = received
        /\ localGot' = localGot /\ pending' = pending /\ toClient' = toClient \o <<p>>
    BY <1>5 DEF Say, Open, IInv, OneResume, loopVars, ackVars, localVars
  <2>2. Stream' = Stream \o <<p>> /\ Stream \in Seq(Piece)
    <3>1. <<p>> \in Seq(Piece)
      OBVIOUS
    <3> QED
      BY <1>0, <2>1, <3>1, StreamSaid, ConcatProperties DEF Stream
  <2>3. Carries(Stream, received, vmSent)
    BY <2>1 DEF InboundInOrder
  <2>4. Carries(Stream', received, vmSent)
    BY <1>0, <1>5, <2>2, <2>3, CarriesControl
  <2> QED
    BY <1>0, <1>5, <2>1, <2>4 DEF InboundInOrder
<1>6. CASE Connect
  <2>1. /\ pc' = "wait" /\ UNCHANGED <<received, localGot>>
        /\ vmSent' = IF sid THEN received ELSE vmSent
        /\ pending' = (IF sid THEN <<>> ELSE pending) /\ toClient' = <<>>
        /\ pc = "connect"
    BY <1>6 DEF Connect, localVars
  <2>2. ~sid => received = 0 /\ vmSent = 0 /\ pending = <<>>
    BY <2>1 DEF InboundInOrder, IInv, InFlight
  <2>3. Stream' = <<>> /\ vmSent' = received
    <3>1. pending' = <<>> /\ toClient' = <<>>
      BY <2>1, <2>2
    <3>2. <<>> \o <<>> = <<>>
      BY EmptySeq, ConcatEmptySeq
    <3> QED
      BY <2>1, <2>2, <3>1, <3>2 DEF Stream
  <2>4. Carries(Stream', received', vmSent')
    BY <1>0, <2>1, <2>3, CarriesNothing
  <2> QED
    BY <1>0, <2>1, <2>4 DEF InboundInOrder
<1>7. CASE DecodeData
  <2> DEFINE len == Head(pending).len
  <2>1. /\ pc = "decode" /\ Complete(pending) /\ pending' = Drain(pending)
        /\ Head(pending).kind = "head" /\ vmSent' = vmSent /\ sid' = sid
        /\ received' = received + len /\ localGot' = localGot \o Payload(pending)
    BY <1>7 DEF DecodeData, Decoding, relayVars
  <2>2. \/ pc' = "decode" /\ toClient' = toClient
        \/ pc' = "ended" \/ (pc' = "connect" /\ sid')
    BY <1>3, <1>7, <2>1 DEF DecodeData
  <2>3. Carries(Stream, received, vmSent) /\ received = Len(localGot)
    BY <2>1 DEF InboundInOrder, CountIsDelivered
  <2>4. /\ Head(pending).n = received /\ pending[2].kind = "tail"
        /\ Carries(Drain(pending) \o toClient, received + len, vmSent)
    BY <1>0, <2>1, <2>3, StreamDrained
  <2>5. /\ Payload(pending) \in Seq(Nat) /\ Len(Payload(pending)) = len /\ len \in Nat
        /\ \A i \in 1..len : Payload(pending)[i] = received + i
    BY <1>0, <2>1, <2>4, PayloadType, PayloadLength DEF Payload
  <2> HIDE DEF len
  <2>6. \A i \in 1..Len(localGot') : localGot'[i] = i
    <3>1. /\ Len(localGot') = Len(localGot) + len
          /\ \A i \in 1..Len(localGot) + len :
                localGot'[i] = IF i <= Len(localGot) THEN localGot[i]
                               ELSE Payload(pending)[i - Len(localGot)]
      <4>1. /\ Len(localGot') = Len(localGot) + Len(Payload(pending))
            /\ \A i \in 1..Len(localGot) + Len(Payload(pending)) :
                  localGot'[i] = IF i <= Len(localGot) THEN localGot[i]
                                 ELSE Payload(pending)[i - Len(localGot)]
        BY <1>0, <2>1, <2>5, ConcatProperties
      <4> QED
        BY <2>5, <4>1
    <3>2. SUFFICES ASSUME NEW i \in 1..Len(localGot) + len
                   PROVE  localGot'[i] = i
      BY <3>1
    <3>3. CASE i <= Len(localGot)
      BY <1>0, <3>1, <3>3
    <3>4. CASE ~(i <= Len(localGot))
      <4>1. i - Len(localGot) \in 1..len
        BY <1>0, <2>5, <3>4
      <4>2. localGot'[i] = Len(localGot) + (i - Len(localGot))
        BY <2>3, <2>5, <3>1, <3>4, <4>1
      <4> QED
        BY <1>0, <4>2
    <3> QED
      BY <3>3, <3>4
  <2>7. pc' = "decode" => Carries(Stream', received', vmSent')
    BY <2>1, <2>2, <2>4 DEF Stream
  <2> QED
    BY <2>1, <2>2, <2>6, <2>7 DEF InboundInOrder
<1>8. CASE DecodeSid \/ DecodeUnknown \/ DecodeAck
  <2>1. /\ UNCHANGED <<received, vmSent, localGot, toClient>>
        /\ pc = "decode" /\ pc' = pc
        /\ Complete(pending) /\ pending' = Drain(pending) /\ Head(pending).kind # "head"
    BY <1>8 DEF DecodeSid, DecodeUnknown, DecodeAck, Decoding, ackVars, relayVars,
                localVars, linkVars
  <2> QED
    BY <1>4, <2>1
<1>9. CASE DecodeResumed
  <2>1. /\ UNCHANGED <<received, vmSent, localGot, sid>> /\ pc = "decode"
        /\ Complete(pending) /\ pending' = Drain(pending) /\ Head(pending).kind # "head"
        /\ (pc' \in {"wait", "decode"} /\ toClient' = toClient) \/ Dropped
    BY <1>9 DEF DecodeResumed, Decoding, ackVars, relayVars, localVars
  <2> QED
    BY <1>2, <1>3, <1>4, <2>1
<1>10. CASE RelayGone \/ ReadClose \/ ConnectFail \/ DecodeOversized \/ LocalEof
            \/ LocalReadError \/ DecodeDataWriteFails
  BY <1>2, <1>3, <1>10 DEF RelayGone, ReadClose, ConnectFail, DecodeOversized, LocalEof,
                           LocalReadError, DecodeDataWriteFails, Return, localVars
<1>11. ASSUME NEW k \in 1..Len(toClient), ReadMessage(k)
       PROVE  InboundInOrder'
  BY <1>0, <1>1, <1>11, StreamRead DEF ReadMessage, ackVars, relayVars, localVars
<1>12. CASE DecodeNothing
  BY <1>1, <1>12 DEF DecodeNothing, ackVars, relayVars, localVars, linkVars, Stream
<1>13. ASSUME NEW n \in 1..MaxFrame, LocalRead(n)
       PROVE  InboundInOrder'
  BY <1>1, <1>13 DEF LocalRead, loopVars, ackVars, relayVars, Stream
<1>14. ASSUME NEW n \in 1..MaxFrame, LocalReadSendFails(n)
       PROVE  InboundInOrder'
  BY <1>2, <1>3, <1>14 DEF LocalReadSendFails
<1>15. CASE LocalClose \/ LinkBreaks \/ UNCHANGED vars
            \/ \E n \in 1..Len(wire) : RelayReceives(n)
  BY <1>1, <1>15 DEF LocalClose, LinkBreaks, RelayReceives, vars, loopVars, ackVars,
                     localVars, relayVars, linkVars, Stream
<1>16. CASE RelayConfirms \/ RelayResumes \/ RelayAcks \/ RelayCloses
            \/ \E k \in OddFrames : RelaySendsOdd(k)
  <2>1. \E k \in Kinds, n \in Nat : /\ k # "head" /\ vmSent' = vmSent
                                  /\ Say(<<Control(k, n)>>)
    <3>1. Len(vmGot) \in Nat /\ OddFrames \subseteq Kinds /\ "head" \notin OddFrames
      BY <1>0, LenProperties, ConstantsAssumption DEF TypeOK, Kinds
    <3>2. {"sid", "rsa", "ack", "close"} \subseteq Kinds
      BY DEF Kinds
    <3> QED
      BY <1>16, <3>1, <3>2 DEF RelayConfirms, RelayResumes, RelayAcks, RelayCloses, RelaySendsOdd
  <2>2. \A k \in Kinds, n \in Nat : Control(k, n) \in Piece /\ Control(k, n).kind = k
    BY DEF Control, Piece
  <2> QED
    BY <1>5, <2>1, <2>2
<1>17. ASSUME NEW n \in 1..MaxFrame, RelaySendsData(n)
       PROVE  InboundInOrder'
  <2>0. n \in Nat
    BY ConstantsAssumption
  <2>1. /\ pc \in {"wait", "decode"} /\ pc' = pc /\ received' = received /\ sid' = sid
        /\ localGot' = localGot /\ pending' = pending
        /\ toClient' = toClient \o DataFrame(vmSent, n) /\ vmSent' = vmSent + n
    BY <1>17 DEF RelaySendsData, Say, Open, IInv, OneResume, loopVars, ackVars, localVars
  <2>2. Stream' = Stream \o DataFrame(vmSent, n) /\ Stream \in Seq(Piece)
    <3>1. DataFrame(vmSent, n) \in Seq(Piece)
      BY <1>0, <2>0 DEF DataFrame, Control, Piece, Kinds
    <3> QED
      BY <1>0, <2>1, <3>1, StreamSaid, ConcatProperties DEF Stream
  <2>3. Carries(Stream, received, vmSent)
    BY <2>1 DEF InboundInOrder
  <2>4. Carries(Stream', received, vmSent + n)
    BY <1>0, <2>0, <2>2, <2>3, CarriesData
  <2> QED
    BY <1>0, <2>1, <2>4 DEF InboundInOrder
<1> QED
  BY <1>6, <1>7, <1>8, <1>9, <1>10, <1>11, <1>12, <1>13, <1>14, <1>15, <1>16, <1>17
     DEF Next, Session, LocalSide, Relay

\* The local application's bytes are recorded in the order they were read.
RecordAscends ==
    /\ \A i, j \in 1..Len(recorded) : i < j => recorded[i] < recorded[j]
    /\ \A i \in 1..Len(recorded) : recorded[i] <= taken

\* Every step keeps the record ascending.
LEMMA RecordStep ==
    ASSUME TypeOK, RecordAscends, [Next]_vars
    PROVE  RecordAscends'
<1>0. recorded \in Seq(Nat) /\ Len(recorded) \in Nat /\ taken \in Nat
  BY ConstantsAssumption, LenProperties DEF TypeOK
<1>1. \A i \in 1..Len(recorded) : recorded[i] \in Nat
  BY <1>0, ElementOfSeq
<1>2. ASSUME recorded' = recorded, taken' \in Nat, taken <= taken'
      PROVE  RecordAscends'
  BY <1>0, <1>1, <1>2 DEF RecordAscends
<1>3. ASSUME NEW n \in 1..MaxFrame, LocalRead(n)
      PROVE  RecordAscends'
  <2>0. n \in Nat
    BY ConstantsAssumption
  <2> DEFINE p == Positions(taken, n)
  <2>1. recorded' = recorded \o p /\ taken' = taken + n
    BY <1>3 DEF LocalRead
  <2>2. p \in Seq(Nat) /\ Len(p) = n /\ \A i \in 1..n : p[i] = taken + i
    BY <1>0, <2>0, PositionsFacts
  <2> HIDE DEF p
  <2>3. /\ Len(recorded') = Len(recorded) + n
        /\ \A i \in 1..Len(recorded) + n :
              recorded'[i] = IF i <= Len(recorded) THEN recorded[i] ELSE p[i - Len(recorded)]
    <3>1. /\ Len(recorded') = Len(recorded) + Len(p)
          /\ \A i \in 1..Len(recorded) + Len(p) :
                recorded'[i] = IF i <= Len(recorded) THEN recorded[i]
                               ELSE p[i - Len(recorded)]
      BY <1>0, <2>1, <2>2, ConcatProperties
    <3> QED
      BY <2>2, <3>1
  <2>4. \A i \in 1..Len(recorded) + n :
           IF i <= Len(recorded)
           THEN i \in 1..Len(recorded) /\ recorded'[i] = recorded[i]
           ELSE recorded'[i] = taken + (i - Len(recorded))
    <3>1. SUFFICES ASSUME NEW i \in 1..Len(recorded) + n, ~(i <= Len(recorded))
                   PROVE  recorded'[i] = taken + (i - Len(recorded))
      BY <1>0, <2>3
    <3>2. i - Len(recorded) \in 1..n
      BY <1>0, <2>0, <3>1
    <3> QED
      BY <2>2, <2>3, <3>1, <3>2
  <2>5. ASSUME NEW i \in 1..Len(recorded) + n
        PROVE  recorded'[i] <= taken + n
    BY <1>0, <1>1, <2>0, <2>4 DEF RecordAscends
  <2>6. ASSUME NEW i \in 1..Len(recorded) + n, NEW j \in 1..Len(recorded) + n, i < j
        PROVE  recorded'[i] < recorded'[j]
    <3>1. CASE j <= Len(recorded)
      <4>1. /\ i \in 1..Len(recorded) /\ j \in 1..Len(recorded)
            /\ recorded'[i] = recorded[i] /\ recorded'[j] = recorded[j]
        BY <1>0, <2>0, <2>4, <2>6, <3>1
      <4> QED
        BY <2>6, <4>1 DEF RecordAscends
    <3>2. CASE ~(j <= Len(recorded)) /\ i <= Len(recorded)
      <4>1. /\ i \in 1..Len(recorded) /\ recorded'[i] = recorded[i]
            /\ recorded'[j] = taken + (j - Len(recorded))
        BY <1>0, <2>0, <2>4, <3>2
      <4>2. recorded[i] <= taken /\ recorded[i] \in Nat
        BY <1>1, <4>1 DEF RecordAscends
      <4> QED
        BY <1>0, <3>2, <4>1, <4>2
    <3>3. CASE ~(j <= Len(recorded)) /\ ~(i <= Len(recorded))
      <4>1. /\ recorded'[i] = taken + (i - Len(recorded))
            /\ recorded'[j] = taken + (j - Len(recorded))
        BY <2>4, <3>3
      <4> QED
        BY <1>0, <2>6, <4>1
    <3> QED
      BY <3>1, <3>2, <3>3
  <2> QED
    BY <2>1, <2>3, <2>5, <2>6 DEF RecordAscends
<1>4. ASSUME NEW n \in 1..MaxFrame, LocalReadSendFails(n)
      PROVE  RecordAscends'
  <2>1. n \in Nat /\ recorded' = recorded /\ taken' = taken + n
    BY <1>4, ConstantsAssumption DEF LocalReadSendFails, outVars
  <2> QED
    BY <1>0, <1>2, <2>1
<1>5. CASE UNCHANGED <<recorded, taken>>
  BY <1>0, <1>2, <1>5
<1>6. \/ UNCHANGED <<recorded, taken>>
      \/ \E n \in 1..MaxFrame : LocalRead(n) \/ LocalReadSendFails(n)
  BY DEF Next, Session, LocalSide, Relay, vars, outVars, localVars, Connect, ConnectFail,
         RelayGone, ReadClose, ReadMessage, DecodeNothing, DecodeSid, DecodeUnknown,
         DecodeOversized, DecodeAck, DecodeResumed, DecodeData, DecodeDataWriteFails,
         LocalEof, LocalReadError, LocalClose, RelayConfirms, RelayResumes, RelayAcks,
         RelayCloses, RelaySendsData, RelaySendsOdd, Say, RelayReceives, LinkBreaks
<1> QED
  BY <1>3, <1>4, <1>5, <1>6

-----------------------------------------------------------------------------
(* The refinement *)

PipeInv == IInv /\ CountIsDelivered /\ InboundInOrder /\ RecordAscends

LEMMA PipeInvariance == Spec => []PipeInv
<1>1. Init => CountIsDelivered /\ InboundInOrder /\ RecordAscends
  BY LenProperties, EmptySeq DEF Init, CountIsDelivered, InboundInOrder, RecordAscends
<1>2. PipeInv /\ [Next]_vars => PipeInv'
  <2> SUFFICES ASSUME PipeInv, [Next]_vars PROVE PipeInv'
    OBVIOUS
  <2>1. IInv' /\ TypeOK'
    BY StepIInv DEF PipeInv, IInv
  <2>2. CountIsDelivered'
    BY CountStep DEF PipeInv, IInv
  <2>3. InboundInOrder'
    BY <2>1, InboundStep DEF PipeInv
  <2>4. RecordAscends'
    BY RecordStep DEF PipeInv, IInv
  <2> QED
    BY <2>1, <2>2, <2>3, <2>4 DEF PipeInv
<1> QED
  BY <1>1, <1>2, InitIInv, PTL DEF Spec, PipeInv

\* Appending extends a sequence.
LEMMA Lengthens ==
    ASSUME NEW s \in Seq(Nat), NEW t \in Seq(Nat)
    PROVE  Pipe!Extends(s, s \o t)
<1>1. Len(s) \in Nat /\ Len(t) \in Nat
  BY LenProperties
<1>2. /\ s \o t \in Seq(Nat) /\ Len(s \o t) = Len(s) + Len(t)
      /\ \A i \in 1..Len(s) + Len(t) :
            (s \o t)[i] = IF i <= Len(s) THEN s[i] ELSE t[i - Len(s)]
  BY ConcatProperties
<1> DEFINE r == s \o t
           p == SubSeq(r, 1, Len(s))
<1> HIDE DEF r
<1>3. Len(s) <= Len(r)
  BY <1>1, <1>2 DEF r
<1>4. p \in Seq(Nat) /\ Len(p) = Len(s) /\ \A i \in 1..Len(s) : p[i] = r[i]
  BY <1>1, <1>2, <1>3, PrefixFacts DEF r
<1>5. \A i \in 1..Len(s) : r[i] = s[i]
  BY <1>1, <1>2 DEF r
<1> HIDE DEF p
<1>6. p = s
  BY <1>4, <1>5, SeqEqual
<1> QED
  BY <1>3, <1>6 DEF Pipe!Extends, p, r

\* The start of an ascending sequence is ascending.
LEMMA StartAscends ==
    ASSUME NEW s \in Seq(Nat), NEW r \in Seq(Nat), Len(s) <= Len(r),
           \A i \in 1..Len(s) : s[i] = r[i],
           \A i, j \in 1..Len(r) : i < j => r[i] < r[j]
    PROVE  Pipe!Ascending(s)
<1>0. Len(s) \in Nat /\ Len(r) \in Nat
  BY LenProperties
<1>1. SUFFICES ASSUME NEW i \in 1..Len(s) - 1
               PROVE  s[i] < s[i + 1]
  BY DEF Pipe!Ascending
<1>2. /\ i \in 1..Len(s) /\ i + 1 \in 1..Len(s) /\ i < i + 1
      /\ i \in 1..Len(r) /\ i + 1 \in 1..Len(r)
  BY <1>0
<1> QED
  BY <1>2

\* Every step of the session is one of the pipe's, or none.
LEMMA PipeStep ==
    ASSUME PipeInv, PipeInv', [Next]_vars
    PROVE  [Pipe!Next]_<<vmGot, localGot, pc # "ended">>
<1>0. vmGot \in Seq(Nat) /\ localGot \in Seq(Nat) /\ wire \in Seq(Nat) /\ pending \in Seq(Piece)
  BY DEF PipeInv, IInv, TypeOK
<1>1. CASE DecodeData
  <2>1. /\ pc = "decode" /\ vmGot' = vmGot /\ Complete(pending)
        /\ localGot' = localGot \o Payload(pending)
    BY <1>1 DEF DecodeData, Decoding, relayVars
  <2>2. Pipe!Extends(localGot, localGot')
    BY <1>0, <2>1, PayloadType, Lengthens
  <2>3. Pipe!Unbroken(localGot')
    BY DEF PipeInv, InboundInOrder, Pipe!Unbroken
  <2>4. Pipe!ToLocal
    BY <2>1, <2>2, <2>3 DEF Pipe!ToLocal
  <2> QED
    BY <2>4 DEF Pipe!Next
<1>2. ASSUME NEW n \in 1..Len(wire), RelayReceives(n)
      PROVE  [Pipe!Next]_<<vmGot, localGot, pc # "ended">>
  <2>1. /\ vmGot' = vmGot \o SubSeq(wire, 1, n) /\ localGot' = localGot /\ pc' = pc
    BY <1>2 DEF RelayReceives, loopVars, localVars
  <2>2. Pipe!Extends(vmGot, vmGot')
    <3>1. n \in Nat /\ n <= Len(wire)
      BY <1>0, LenProperties
    <3> QED
      BY <1>0, <2>1, <3>1, PrefixFacts, Lengthens
  <2>3. Pipe!Ascending(vmGot')
    <3>1. /\ vmGot' \in Seq(Nat) /\ recorded' \in Seq(Nat) /\ wire' \in Seq(Nat)
          /\ Len(vmGot') + Len(wire') <= Len(recorded')
          /\ \A i \in 1..Len(vmGot') : vmGot'[i] = recorded'[i]
          /\ \A i, j \in 1..Len(recorded') : i < j => recorded'[i] < recorded'[j]
      BY DEF PipeInv, IInv, TypeOK, OutboundInOrder, RecordAscends
    <3>2. Len(vmGot') \in Nat /\ Len(wire') \in Nat /\ Len(recorded') \in Nat
      BY <3>1, LenProperties
    <3>3. Len(vmGot') <= Len(recorded')
      BY <3>1, <3>2
    <3> QED
      BY <3>1, <3>3, StartAscends
  <2>4. Pipe!ToVM
    BY <2>1, <2>2, <2>3 DEF Pipe!ToVM
  <2> QED
    BY <2>4 DEF Pipe!Next
<1>3. ASSUME UNCHANGED <<vmGot, localGot>>, pc = "ended" => pc' = "ended"
      PROVE  [Pipe!Next]_<<vmGot, localGot, pc # "ended">>
  <2>1. CASE (pc' # "ended") = (pc # "ended")
    BY <1>3, <2>1
  <2>2. CASE (pc' # "ended") # (pc # "ended")
    <3>1. pc # "ended" /\ pc' = "ended"
      BY <1>3, <2>2
    <3> QED
      BY <1>3, <3>1 DEF Pipe!Next, Pipe!Close
  <2> QED
    BY <2>1, <2>2
<1>4. \/ DecodeData \/ \E n \in 1..Len(wire) : RelayReceives(n)
      \/ UNCHANGED <<vmGot, localGot>> /\ (pc = "ended" => pc' = "ended")
  <2>1. CASE Session
    BY <2>1 DEF Session, localVars, relayVars, Connect, ConnectFail,
       RelayGone, ReadClose, ReadMessage, DecodeNothing, DecodeSid, DecodeUnknown,
       DecodeOversized, DecodeAck, DecodeResumed, DecodeDataWriteFails, LocalEof, Decoding
  <2>2. CASE LocalSide \/ LinkBreaks \/ UNCHANGED vars
    BY <2>2 DEF LocalSide, vars, loopVars, localVars, relayVars, LocalRead,
       LocalReadSendFails, LocalReadError, LocalClose, LinkBreaks
  <2>3. CASE Relay
    BY <2>3 DEF Relay, loopVars, localVars, relayVars, RelayConfirms, RelayResumes,
       RelayAcks, RelayCloses, RelaySendsData, RelaySendsOdd, Say
  <2> QED
    BY <2>1, <2>2, <2>3 DEF Next
<1> QED
  BY <1>1, <1>2, <1>3, <1>4

\* The session implements the two byte streams: for any sizes and numbers, what
\* the VM gets ascends, what the local application gets is the VM's stream with
\* no byte missing, repeated or made up, and nothing follows the session's end,
\* however messages split frames and wherever connections break.
THEOREM ImplementsPipe == Spec => PipeSpec
<1>1. Init => Pipe!Init
  BY DEF Init, Pipe!Init
<1>2. PipeInv /\ PipeInv' /\ [Next]_vars => [Pipe!Next]_<<vmGot, localGot, pc # "ended">>
  BY PipeStep
<1> QED
  BY <1>1, <1>2, PipeInvariance, PTL DEF Spec, PipeSpec, Pipe!Spec
=============================================================================
