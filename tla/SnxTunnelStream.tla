--------------------------- MODULE SnxTunnelStream ----------------------------
(* One tunnel as a byte stream: snx_ssl_tunnel_connect() says hello and      *)
(* waits for the reply under a socket timeout, snx_ssl_tunnel_receive()      *)
(* then hands the frames of the gateway to the downlink thread.  Both go     *)
(* through read_one_packet(), which shares one receive buffer between them.  *)
(*                                                                           *)
(* A byte is its position in the stream of the gateway.  The receive buffer  *)
(* holds the positions taken .. read - 1; what the decoder finds there       *)
(* depends only on the frame that begins at the position taken.  The content *)
(* of a frame is its kind.                                                   *)
EXTENDS Naturals, Sequences

CONSTANTS HeaderLen,    \* SNX_SLIM_HEADER_LEN (8 in the code)
          ChunkSize,    \* the most one read returns (4096 in the code)
          Payloads,     \* payload lengths
          MaxFrames     \* bound of the model: frames the gateway sends

ASSUME HeaderLenAssumption == HeaderLen \in Nat \ {0}
ASSUME ChunkSizeAssumption == ChunkSize \in Nat \ {0}
ASSUME PayloadsAssumption == Payloads \subseteq Nat
ASSUME MaxFramesAssumption == MaxFrames \in Nat

(* "control" is a control packet that is no hello reply, as a keepalive.     *)
(* The kinds refused are those the handshake turns down: a disconnect, text  *)
(* that is no S-expression, a reply without an address, a data packet.       *)
Refused == {"disconnect", "unparsable", "no_address", "data"}
Kinds == Refused \cup {"hello_reply", "unknown"}

VARIABLES phase,      \* "resolving", "hello", "up", "failed", "down"
          timed,      \* the socket has its 15 s timeout
          peer,       \* "open", "closed" (end of stream) or "reset"
          frames,     \* kinds of the frames the gateway sent
          ends,       \* the position after each of them
          taken,      \* bytes removed from the receive buffer
          read,       \* bytes read from the socket
          delivered   \* history: the frames given to the caller

netVars == <<peer, frames, ends>>
bufferVars == <<taken, read, delivered>>
vars == <<phase, timed, peer, frames, ends, taken, read, delivered>>

Phases == {"resolving", "hello", "up", "failed", "down"}

-------------------------------------------------------------------------------
(* Framing: snx_slim_encode() and snx_slim_decode().                         *)

FrameLen(payload) == HeaderLen + payload

Total == IF ends = <<>> THEN 0 ELSE ends[Len(ends)]
BeginOf(i) == IF i = 1 THEN 0 ELSE ends[i - 1]

(* What the header at position p says: the kind and the length of the frame  *)
(* that begins there, and anything where no frame begins.                    *)
Headers(p) ==
  LET here == {i \in 1 .. Len(frames) : BeginOf(i) = p}
  IN  IF here = {}
      THEN [kind : Kinds, length : {FrameLen(n) : n \in Payloads}]
      ELSE {[kind |-> frames[i], length |-> ends[i] - BeginOf(i)] : i \in here}

\* Mutant: a frame that just fits the buffer waits for more.
PacketsWaitOn == {h \in Headers(taken) : read - taken > h.length}

(* The packet at the front of the buffer, when it is there completely; the   *)
(* set is empty when the decoder asks for more bytes.                        *)
Packets == {h \in Headers(taken) : /\ read - taken >= HeaderLen
                                   /\ read - taken >= h.length}

\* Mutant: the consumed bytes stay.
DeliverKeeps(h) == /\ taken' = taken
                   /\ delivered' = Append(delivered, h.kind)
                   /\ read' = read

(* A packet leaves the buffer with the bytes the decoder consumed.           *)
Deliver(h) == /\ taken' = taken + h.length
              /\ delivered' = Append(delivered, h.kind)
              /\ read' = read

-------------------------------------------------------------------------------
Init == /\ phase = "resolving"
        /\ timed = TRUE
        /\ peer = "open"
        /\ frames = <<>>
        /\ ends = <<>>
        /\ taken = 0
        /\ read = 0
        /\ delivered = <<>>

Fails == /\ phase' = IF phase = "up" THEN "down" ELSE "failed"
         /\ UNCHANGED <<timed, netVars, bufferVars>>

(* Connect to the host and write the hello; either may fail.                 *)
SayHello == /\ phase = "resolving"
            /\ phase' = "hello"
            /\ UNCHANGED <<timed, netVars, bufferVars>>
SayHelloFails == phase = "resolving" /\ Fails

Reading == phase \in {"hello", "up"} /\ Packets = {}

(* One turn of the loop of read_one_packet() without a complete packet: the  *)
(* socket returns what has arrived, the end of the stream or an error.       *)
ReadMore == /\ Reading
            /\ peer # "reset"
            /\ \E n \in 1 .. ChunkSize :
                 /\ read + n <= Total
                 /\ read' = read + n
            /\ UNCHANGED <<phase, timed, netVars, taken, delivered>>
ReadFails == /\ Reading
             /\ peer = "reset" \/ (peer = "closed" /\ read = Total)
             /\ Fails
ReadTimesOut == Reading /\ timed /\ Fails
UnknownPacket == /\ phase \in {"hello", "up"}
                 /\ \E h \in Packets : h.kind = "unknown"
                 /\ Fails

\* Mutants: the rest of the buffer goes with the reply; the timeout stays.
HandshakeDropsRest == /\ phase = "hello"
                      /\ \E h \in Packets : h.kind = "hello_reply"
                      /\ taken' = read
                      /\ delivered' = Append(delivered, "hello_reply")
                      /\ phase' = "up"
                      /\ timed' = FALSE
                      /\ UNCHANGED <<netVars, read>>
HandshakeKeepsTimeout == /\ phase = "hello"
                         /\ \E h \in Packets : h.kind = "hello_reply" /\ Deliver(h)
                         /\ phase' = "up"
                         /\ UNCHANGED <<timed, netVars>>

(* The first packet decides on the attempt.  On success the timeout goes,    *)
(* and bytes behind the reply stay in the buffer.                            *)
HandshakeSucceeds == /\ phase = "hello"
                     /\ \E h \in Packets : h.kind = "hello_reply" /\ Deliver(h)
                     /\ phase' = "up"
                     /\ timed' = FALSE
                     /\ UNCHANGED netVars
HandshakeRefused == /\ phase = "hello"
                    /\ \E h \in Packets : h.kind \in Refused
                    /\ Fails

(* snx_ssl_tunnel_receive() returns one packet to the downlink thread.       *)
Receive == /\ phase = "up"
           /\ \E h \in Packets : h.kind # "unknown" /\ Deliver(h)
           /\ UNCHANGED <<phase, timed, netVars>>

(* snx_ssl_tunnel_close() on another thread: shutdown() ends both            *)
(* directions, and the reader sees the end or an error.                      *)
Close == /\ phase = "up"
         /\ peer' \in {"closed", "reset"}
         /\ UNCHANGED <<phase, timed, frames, ends, bufferVars>>

(* The gateway.                                                              *)
GatewaySends == /\ phase \in {"hello", "up"}
                /\ peer = "open"
                /\ Len(frames) < MaxFrames
                /\ \E k \in Kinds, n \in Payloads :
                     /\ frames' = Append(frames, k)
                     /\ ends' = Append(ends, Total + FrameLen(n))
                /\ UNCHANGED <<phase, timed, peer, bufferVars>>
GatewayEnds == /\ phase \in {"hello", "up"}
               /\ peer = "open"
               /\ peer' \in {"closed", "reset"}
               /\ UNCHANGED <<phase, timed, frames, ends, bufferVars>>

Reader == \/ ReadMore \/ ReadFails \/ UnknownPacket
          \/ HandshakeSucceeds \/ HandshakeRefused \/ Receive

Next == \/ SayHello \/ SayHelloFails
        \/ ReadMore \/ ReadFails \/ ReadTimesOut \/ UnknownPacket
        \/ HandshakeSucceeds \/ HandshakeRefused \/ Receive
        \/ Close \/ GatewaySends \/ GatewayEnds

(* The reader is a thread in a loop: it takes its next step when the socket  *)
(* has something for it.                                                     *)
Spec == Init /\ [][Next]_vars
FairSpec == Spec /\ WF_vars(Reader)

-------------------------------------------------------------------------------
TypeOK == /\ phase \in Phases
          /\ timed \in BOOLEAN
          /\ peer \in {"open", "closed", "reset"}
          /\ frames \in Seq(Kinds)
          /\ ends \in Seq(Nat)
          /\ Len(ends) = Len(frames)
          /\ taken \in Nat
          /\ read \in Nat
          /\ delivered \in Seq(Kinds)

(* The buffer always begins where a frame begins, at the first one that was  *)
(* not delivered: no read boundary, however it cuts the stream, and no       *)
(* hand-over from the handshake to the downlink thread loses or repeats a    *)
(* byte (read_one_packet(), recv_buffer of the tunnel).                      *)
BufferInStep ==
  /\ Len(delivered) <= Len(frames)
  /\ taken = IF delivered = <<>> THEN 0 ELSE ends[Len(delivered)]
  /\ taken <= read
  /\ read <= Total

(* A tunnel that is up is lost only when a side ended it or the gateway sent *)
(* what is no packet: a gateway that stays silent for longer than the        *)
(* handshake's timeout does not lose it (the timeout is cleared, and the     *)
(* comment in snx_ssl_tunnel_connect() says why).                            *)
IdleTunnelStaysUp ==
  [][phase = "up" /\ phase' = "down" =>
       \/ peer # "open"
       \/ /\ Len(delivered) < Len(frames)
          /\ frames[Len(delivered) + 1] = "unknown"]_vars

(* A frame that was sent is delivered, or the tunnel ends: the reader never  *)
(* waits for bytes while a whole frame lies in its buffer.                   *)
FramesArrive ==
  \A i \in 1 .. MaxFrames :
    (phase = "up" /\ Len(frames) >= i)
      ~> (Len(delivered) >= i \/ phase = "down")

(* The stream implements the channel of frames its callers rely on.          *)
Channel == INSTANCE FrameChannel WITH
  OpeningReply <- "hello_reply",
  Unreadable   <- "unknown",
  sent         <- frames,
  got          <- delivered,
  state        <- CASE phase \in {"resolving", "hello"} -> "opening"
                    [] phase = "up" -> "open"
                    [] phase \in {"failed", "down"} -> "over",
  ended        <- peer # "open"
ImplementsChannel == Channel!Spec
===============================================================================
