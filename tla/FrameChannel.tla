----------------------------- MODULE FrameChannel -----------------------------
(* What a tunnel promises to its caller: the frames of the gateway come out  *)
(* whole, once and in order, behind an opening reply; an open tunnel ends    *)
(* only when one of the two sides ended it or when the gateway sent          *)
(* something that is no frame.                                               *)
EXTENDS Naturals, Sequences

CONSTANTS Kinds,          \* what a frame can be
          OpeningReply,   \* the frame that opens the tunnel
          Unreadable      \* a frame of an unknown type

VARIABLES sent,    \* the frames the gateway sent
          got,     \* the frames the caller got
          state,   \* "opening", "open" or "over"
          ended    \* a side has ended the connection

channelVars == <<sent, got, state, ended>>

Init == /\ sent = <<>>
        /\ got = <<>>
        /\ state = "opening"
        /\ ended = FALSE

NextFrame == sent[Len(got) + 1]
HasNext == Len(got) < Len(sent)

Send == /\ ~ended
        /\ \E k \in Kinds : sent' = Append(sent, k)
        /\ UNCHANGED <<got, state, ended>>

End == /\ ended' = TRUE
       /\ UNCHANGED <<sent, got, state>>

Open == /\ state = "opening"
        /\ got = <<>>
        /\ HasNext
        /\ NextFrame = OpeningReply
        /\ got' = Append(got, NextFrame)
        /\ state' = "open"
        /\ UNCHANGED <<sent, ended>>

(* An attempt may be given up for any reason: nothing was promised yet.      *)
GiveUp == /\ state = "opening"
          /\ state' = "over"
          /\ UNCHANGED <<sent, got, ended>>

Take == /\ state = "open"
        /\ HasNext
        /\ NextFrame # Unreadable
        /\ got' = Append(got, NextFrame)
        /\ UNCHANGED <<sent, state, ended>>

Break == /\ state = "open"
         /\ ended \/ (HasNext /\ NextFrame = Unreadable)
         /\ state' = "over"
         /\ UNCHANGED <<sent, got, ended>>

Next == Send \/ End \/ Open \/ GiveUp \/ Take \/ Break

Spec == Init /\ [][Next]_channelVars
===============================================================================
