------------------------ MODULE SnxTunnelStreamProofs -------------------------
(* For every header length, chunk size and set of payload lengths: the       *)
(* receive buffer stays in step with the frames of the gateway, and the      *)
(* tunnel implements FrameChannel.                                           *)
EXTENDS SnxTunnelStream, TLAPS

(* Later frames end later, and no frame is empty.                            *)
EndsGrow == /\ \A i \in 1 .. Len(ends) : ends[i] > 0
            /\ \A i, j \in 1 .. Len(ends) : i < j => ends[i] < ends[j]

DeliveredInOrder == \A i \in 1 .. Len(delivered) : delivered[i] = frames[i]

(* The timeout is gone once the tunnel is up; before, nothing was delivered. *)
HandshakeFirst == /\ phase = "up" => ~timed
                  /\ phase \in {"resolving", "hello"} => delivered = <<>>

IInv == TypeOK /\ EndsGrow /\ BufferInStep /\ DeliveredInOrder /\ HandshakeFirst

LEMMA InitIInv == Init => IInv
  BY DEF Init, IInv, TypeOK, EndsGrow, BufferInStep, DeliveredInOrder,
         HandshakeFirst, Phases, Total

(* What the decoder finds at the front of the buffer is the first frame that *)
(* was not delivered, whole: never a piece of one, never two.                *)
LEMMA DecoderSeesNextFrame ==
  ASSUME IInv, NEW h \in Packets
  PROVE  LET n == Len(delivered) + 1
         IN  /\ n <= Len(frames)
             /\ h.kind = frames[n]
             /\ taken + h.length = ends[n]
             /\ ends[n] <= read
<1> DEFINE n == Len(delivered) + 1
<1>1. /\ Len(delivered) \in Nat /\ Len(frames) \in Nat /\ Len(ends) = Len(frames)
      /\ taken \in Nat /\ read \in Nat /\ HeaderLen \in Nat /\ HeaderLen > 0
      /\ \A i \in 1 .. Len(ends) : ends[i] \in Nat
  BY HeaderLenAssumption DEF IInv, TypeOK
<1>2. /\ h \in Headers(taken) /\ read - taken >= HeaderLen /\ read - taken >= h.length
  BY DEF Packets
<1>3. n <= Len(frames)
  <2> SUFFICES ASSUME ~(n <= Len(frames)) PROVE FALSE
    OBVIOUS
  <2>1. Len(delivered) = Len(frames)
    BY <1>1 DEF IInv, BufferInStep
  <2>2. taken = Total
    BY <2>1, <1>1 DEF IInv, BufferInStep, TypeOK, Total
  <2> QED
    BY <2>2, <1>1, <1>2 DEF IInv, BufferInStep
<1>4. BeginOf(n) = taken
  BY <1>1, <1>3 DEF BeginOf, IInv, BufferInStep, TypeOK
<1>5. \A i \in 1 .. Len(frames) : BeginOf(i) = taken => i = n
  <2> SUFFICES ASSUME NEW i \in 1 .. Len(frames), BeginOf(i) = BeginOf(n), i # n
               PROVE FALSE
    BY <1>4
  <2>1. CASE i = 1
    BY <2>1, <1>1, <1>3 DEF BeginOf, IInv, EndsGrow
  <2>2. CASE n = 1
    BY <2>2, <1>1, <1>3 DEF BeginOf, IInv, EndsGrow
  <2>3. CASE i # 1 /\ n # 1
    <3>1. i - 1 \in 1 .. Len(ends) /\ n - 1 \in 1 .. Len(ends)
      BY <2>3, <1>1, <1>3
    <3>2. i - 1 < n - 1 \/ n - 1 < i - 1
      BY <1>1
    <3> QED
      BY <3>1, <3>2, <2>3, <1>1 DEF BeginOf, IInv, EndsGrow
  <2> QED
    BY <2>1, <2>2, <2>3
<1>6. {i \in 1 .. Len(frames) : BeginOf(i) = taken} = {n}
  BY <1>1, <1>3, <1>4, <1>5
<1>7. h = [kind |-> frames[n], length |-> ends[n] - BeginOf(n)]
  BY <1>2, <1>6 DEF Headers
<1>8. taken + h.length = ends[n]
  BY <1>1, <1>3, <1>4, <1>7
<1> QED
  <2>1. ends[n] \in Nat
    BY <1>1, <1>3
  <2> QED
    BY <2>1, <1>1, <1>2, <1>3, <1>4, <1>7, <1>8

(* Delivering a packet keeps the buffer in step.                             *)
LEMMA DeliverInStep ==
  ASSUME IInv, NEW h \in Packets, Deliver(h), UNCHANGED netVars, phase' \in Phases,
         timed' \in BOOLEAN, phase' = "up", ~timed'
  PROVE  IInv'
<1> DEFINE n == Len(delivered) + 1
<1>1. /\ n <= Len(frames) /\ h.kind = frames[n] /\ taken + h.length = ends[n] /\ ends[n] <= read
  BY DecoderSeesNextFrame
<1>2. /\ Len(delivered) \in Nat /\ delivered \in Seq(Kinds) /\ frames \in Seq(Kinds)
      /\ ends \in Seq(Nat) /\ Len(ends) = Len(frames) /\ read \in Nat
  BY DEF IInv, TypeOK
<1>3. /\ frames' = frames /\ ends' = ends /\ peer' = peer /\ read' = read
      /\ delivered' = Append(delivered, frames[n]) /\ taken' = ends[n]
  BY <1>1 DEF Deliver, netVars
<1>4. frames[n] \in Kinds /\ ends[n] \in Nat
  BY <1>1, <1>2
<1>5. /\ Len(delivered') = n /\ delivered' \in Seq(Kinds)
      /\ delivered'[n] = frames[n]
      /\ \A i \in 1 .. Len(delivered) : delivered'[i] = delivered[i]
  BY <1>2, <1>3, <1>4
<1>6. TypeOK'
  BY <1>2, <1>3, <1>4, <1>5 DEF IInv, TypeOK
<1>7. EndsGrow'
  BY <1>3 DEF IInv, EndsGrow
<1>8. BufferInStep'
  <2>1. delivered' # <<>>
    BY <1>2, <1>5
  <2>2. Total' = Total
    BY <1>3 DEF Total
  <2> QED
    BY <2>1, <2>2, <1>1, <1>2, <1>3, <1>5 DEF IInv, BufferInStep
<1>9. DeliveredInOrder'
  BY <1>2, <1>3, <1>5 DEF IInv, DeliveredInOrder
<1> QED
  BY <1>6, <1>7, <1>8, <1>9 DEF IInv, HandshakeFirst

(* A new frame extends the stream behind everything already sent.            *)
LEMMA SendInStep == IInv /\ GatewaySends => IInv'
<1> SUFFICES ASSUME IInv, GatewaySends PROVE IInv'
  OBVIOUS
<1>1. PICK k \in Kinds, m \in Payloads : /\ frames' = Append(frames, k)
                                         /\ ends' = Append(ends, Total + FrameLen(m))
  BY DEF GatewaySends
<1>2. /\ frames \in Seq(Kinds) /\ ends \in Seq(Nat) /\ Len(ends) = Len(frames)
      /\ delivered \in Seq(Kinds) /\ read \in Nat /\ taken \in Nat
  BY DEF IInv, TypeOK
<1>3. Total \in Nat
  BY <1>2 DEF Total
<1>4. Total + FrameLen(m) \in Nat /\ Total + FrameLen(m) > Total
  BY <1>3, HeaderLenAssumption, PayloadsAssumption DEF FrameLen
<1>5. \A i \in 1 .. Len(ends) : ends[i] <= Total
  BY <1>2 DEF IInv, EndsGrow, Total
<1>6. /\ Len(ends') = Len(ends) + 1 /\ Len(frames') = Len(frames) + 1
      /\ \A i \in 1 .. Len(ends) : ends'[i] = ends[i] /\ frames'[i] = frames[i]
      /\ ends'[Len(ends) + 1] = Total + FrameLen(m)
      /\ ends' \in Seq(Nat) /\ frames' \in Seq(Kinds)
  BY <1>1, <1>2, <1>4
<1>7. Total' = Total + FrameLen(m)
  BY <1>6, <1>2 DEF Total
<1>8. /\ phase' = phase /\ timed' = timed /\ peer' = peer /\ taken' = taken /\ read' = read
      /\ delivered' = delivered
  BY DEF GatewaySends, bufferVars
<1>9. TypeOK'
  BY <1>2, <1>6, <1>8 DEF IInv, TypeOK
<1>10. EndsGrow'
  <2> DEFINE last == Len(ends) + 1
  <2>1. Len(ends) \in Nat /\ \A i \in 1 .. Len(ends) : ends[i] \in Nat
    BY <1>2
  <2>2. ends'[last] > 0 /\ \A i \in 1 .. Len(ends) : ends'[i] < ends'[last]
    BY <2>1, <1>3, <1>4, <1>5, <1>6
  <2>3. /\ \A i \in 1 .. Len(ends) : ends'[i] > 0
        /\ \A i, j \in 1 .. Len(ends) : i < j => ends'[i] < ends'[j]
    BY <1>6 DEF IInv, EndsGrow
  <2>4. \A i \in 1 .. Len(ends') : i \in 1 .. Len(ends) \/ i = last
    BY <2>1, <1>6
  <2> HIDE DEF last
  <2>5. \A i \in 1 .. Len(ends') : ends'[i] > 0
    BY <2>2, <2>3, <2>4
  <2>6. ASSUME NEW i \in 1 .. Len(ends'), NEW j \in 1 .. Len(ends'), i < j
        PROVE  ends'[i] < ends'[j]
    <3>1. i # last
      BY <2>1, <2>4, <2>6, <1>6 DEF last
    <3> QED
      BY <3>1, <2>2, <2>3, <2>4, <2>6
  <2> QED
    BY <2>5, <2>6 DEF EndsGrow
<1>11. BufferInStep'
  BY <1>2, <1>3, <1>4, <1>6, <1>7, <1>8 DEF IInv, BufferInStep
<1>12. DeliveredInOrder'
  BY <1>2, <1>6, <1>8 DEF IInv, DeliveredInOrder, BufferInStep
<1> QED
  BY <1>8, <1>9, <1>10, <1>11, <1>12 DEF IInv, HandshakeFirst

LEMMA StepIInv == IInv /\ [Next]_vars => IInv'
<1> SUFFICES ASSUME IInv, [Next]_vars PROVE IInv'
  OBVIOUS
<1> USE DEF netVars, bufferVars
<1>1. CASE ReadMore
  <2>1. PICK m \in 1 .. ChunkSize : read + m <= Total /\ read' = read + m
    BY <1>1 DEF ReadMore
  <2>2. read' \in Nat /\ read' >= read
    BY <2>1, ChunkSizeAssumption DEF IInv, TypeOK
  <2>3. TypeOK'
    BY <1>1, <2>2 DEF ReadMore, IInv, TypeOK
  <2>4. Total' = Total
    BY <1>1 DEF ReadMore, Total
  <2>5. BufferInStep'
    BY <1>1, <2>1, <2>2, <2>4 DEF ReadMore, IInv, BufferInStep, TypeOK
  <2> QED
    BY <1>1, <2>3, <2>5 DEF ReadMore, IInv, EndsGrow, DeliveredInOrder, HandshakeFirst
<1>2. CASE HandshakeSucceeds
  BY <1>2, DeliverInStep DEF HandshakeSucceeds, Phases
<1>3. CASE Receive
  BY <1>3, DeliverInStep DEF Receive, IInv, HandshakeFirst, TypeOK, Phases
<1>4. CASE GatewaySends
  BY <1>4, SendInStep
<1>5. CASE UNCHANGED <<timed, frames, ends, taken, read, delivered>> /\
           \/ SayHello \/ SayHelloFails \/ ReadFails \/ ReadTimesOut \/ UnknownPacket
           \/ HandshakeRefused \/ Close \/ GatewayEnds
  <2>1. TypeOK'
    BY <1>5 DEF SayHello, SayHelloFails, ReadFails, ReadTimesOut, UnknownPacket,
                HandshakeRefused, Close, GatewayEnds, Fails, Phases, IInv, TypeOK
  <2>2. EndsGrow' /\ BufferInStep' /\ DeliveredInOrder'
    BY <1>5 DEF IInv, EndsGrow, BufferInStep, DeliveredInOrder, Total
  <2>3. HandshakeFirst'
    BY <1>5 DEF SayHello, SayHelloFails, ReadFails, ReadTimesOut, UnknownPacket,
                HandshakeRefused, Close, GatewayEnds, Fails, IInv, HandshakeFirst
  <2> QED
    BY <2>1, <2>2, <2>3 DEF IInv
<1>6. CASE UNCHANGED vars
  BY <1>6 DEF vars, IInv, TypeOK, EndsGrow, BufferInStep, DeliveredInOrder,
              HandshakeFirst, Total
<1> QED
  BY <1>1, <1>2, <1>3, <1>4, <1>5, <1>6
     DEF Next, SayHello, SayHelloFails, ReadFails, ReadTimesOut, UnknownPacket,
         HandshakeRefused, Close, GatewayEnds, Fails

(* Type correctness of the stream.                                           *)
THEOREM TypeCorrect == Spec => []TypeOK
<1>1. IInv => TypeOK
  BY DEF IInv
<1> QED
  BY <1>1, InitIInv, StepIInv, PTL DEF Spec

(* However the reads cut the stream, the receive buffer begins at the first  *)
(* frame that was not delivered, across the hand-over from                   *)
(* snx_ssl_tunnel_connect() to snx_ssl_tunnel_receive() too.                 *)
THEOREM BufferStaysInStep == Spec => []BufferInStep
<1>1. IInv => BufferInStep
  BY DEF IInv
<1> QED
  BY <1>1, InitIInv, StepIInv, PTL DEF Spec

(* Only a side that ends the connection or an unknown packet loses a tunnel  *)
(* that is up: no timeout is left from the handshake.                        *)
THEOREM NoSpuriousTimeout == Spec => IdleTunnelStaysUp
<1> DEFINE Allowed == phase = "up" /\ phase' = "down" =>
                        \/ peer # "open"
                        \/ /\ Len(delivered) < Len(frames)
                           /\ frames[Len(delivered) + 1] = "unknown"
<1>1. ASSUME IInv, Next PROVE Allowed
  <2> SUFFICES ASSUME phase = "up", phase' = "down" PROVE
                 \/ peer # "open"
                 \/ /\ Len(delivered) < Len(frames)
                    /\ frames[Len(delivered) + 1] = "unknown"
    OBVIOUS
  <2>1. CASE ReadFails
    BY <2>1 DEF ReadFails
  <2>2. CASE ReadTimesOut
    BY <1>1, <2>2 DEF ReadTimesOut, IInv, HandshakeFirst
  <2>3. CASE UnknownPacket
    <3>1. PICK h \in Packets : h.kind = "unknown"
      BY <2>3 DEF UnknownPacket
    <3>2. Len(delivered) + 1 <= Len(frames) /\ frames[Len(delivered) + 1] = "unknown"
      BY <1>1, <3>1, DecoderSeesNextFrame
    <3>3. Len(delivered) \in Nat /\ Len(frames) \in Nat
      BY <1>1 DEF IInv, TypeOK
    <3> QED
      BY <3>2, <3>3
  <2> QED
    BY <1>1, <2>1, <2>2, <2>3
       DEF Next, SayHello, SayHelloFails, ReadMore, HandshakeSucceeds, HandshakeRefused,
           Receive, Close, GatewaySends, GatewayEnds, bufferVars, netVars
<1>2. IInv /\ [Next]_vars => [Allowed]_vars
  BY <1>1
<1> QED
  BY <1>2, InitIInv, StepIInv, PTL DEF Spec, IdleTunnelStaysUp

LEMMA ChannelInit == Init => Channel!Init
  BY DEF Init, Channel!Init

LEMMA ChannelStep == IInv /\ [Next]_vars => [Channel!Next]_(Channel!channelVars)
<1> SUFFICES ASSUME IInv, [Next]_vars PROVE [Channel!Next]_(Channel!channelVars)
  OBVIOUS
<1> USE DEF netVars, bufferVars
<1>0. Len(delivered) \in Nat /\ Len(frames) \in Nat /\ phase \in Phases
  BY DEF IInv, TypeOK
<1>1. ASSUME NEW h \in Packets
      PROVE  Len(delivered) < Len(frames) /\ h.kind = frames[Len(delivered) + 1]
  BY <1>0, DecoderSeesNextFrame
<1>2. CASE HandshakeSucceeds
  <2>1. PICK h \in Packets : h.kind = "hello_reply" /\ Deliver(h)
    BY <1>2 DEF HandshakeSucceeds
  <2>2. delivered = <<>>
    BY <1>2 DEF HandshakeSucceeds, IInv, HandshakeFirst
  <2>3. Channel!Open
    BY <1>1, <1>2, <2>1, <2>2 DEF HandshakeSucceeds, Deliver, Channel!Open, Channel!HasNext,
                                  Channel!NextFrame
  <2> QED
    BY <2>3 DEF Channel!Next
<1>3. CASE Receive
  <2>1. PICK h \in Packets : h.kind # "unknown" /\ Deliver(h)
    BY <1>3 DEF Receive
  <2>2. Channel!Take
    BY <1>1, <1>3, <2>1 DEF Receive, Deliver, Channel!Take, Channel!HasNext,
                            Channel!NextFrame
  <2> QED
    BY <2>2 DEF Channel!Next
<1>4. CASE GatewaySends
  BY <1>4 DEF GatewaySends, Channel!Next, Channel!Send
<1>5. CASE Close \/ GatewayEnds
  BY <1>5 DEF Close, GatewayEnds, Channel!Next, Channel!End
<1>6. ASSUME Fails, phase = "up", peer # "open" PROVE Channel!Break
  BY <1>6 DEF Fails, Channel!Break
<1>7. ASSUME Fails, phase \in {"resolving", "hello"} PROVE Channel!GiveUp
  BY <1>7 DEF Fails, Channel!GiveUp
<1>8. CASE SayHelloFails \/ ReadFails \/ ReadTimesOut \/ HandshakeRefused
  BY <1>6, <1>7, <1>8 DEF SayHelloFails, ReadFails, ReadTimesOut, HandshakeRefused, Reading,
                          IInv, HandshakeFirst, Channel!Next
<1>9. CASE UnknownPacket
  <2>1. PICK h \in Packets : h.kind = "unknown"
    BY <1>9 DEF UnknownPacket
  <2>2. ASSUME phase = "up" PROVE Channel!Break
    BY <1>1, <1>9, <2>1, <2>2 DEF UnknownPacket, Fails, Channel!Break, Channel!HasNext,
                                  Channel!NextFrame
  <2> QED
    BY <1>7, <1>9, <2>2 DEF UnknownPacket, Channel!Next
<1>10. CASE SayHello \/ ReadMore \/ UNCHANGED vars
  BY <1>10 DEF SayHello, ReadMore, vars, Channel!channelVars
<1> QED
  BY <1>2, <1>3, <1>4, <1>5, <1>8, <1>9, <1>10 DEF Next

(* The byte stream, the receive buffer and the handshake implement a channel *)
(* that hands over the frames of the gateway whole, once and in order.       *)
THEOREM StreamImplementsChannel == Spec => ImplementsChannel
  BY ChannelInit, ChannelStep, InitIInv, StepIInv, PTL DEF Spec, ImplementsChannel, Channel!Spec
===============================================================================
