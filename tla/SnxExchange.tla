----------------------------- MODULE SnxExchange ------------------------------
(* One request to the gateway at a time and its answer.  The three CCC       *)
(* requests go by http_post() over a connection of their own, which the      *)
(* gateway closes; the hello goes over the tunnel's connection as one SLIM   *)
(* frame each way (FrameChannel: a frame arrives whole or not at all).       *)
(*                                                                           *)
(* The answer is read as it comes, in pieces, and the connection may end at  *)
(* any symbol of it: the transport takes the end of the stream for the end   *)
(* of the answer, whatever was announced.                                    *)
EXTENDS SnxMessages

CONSTANTS Logins,       \* what a user may enter: [option, username, password]
          Chunkings,    \* sizes of the first chunk of a chunked answer
          ReadSize      \* the most one read returns

ASSUME ReadSizeAssumption == ReadSize \in Nat \ {0}

VARIABLES phase,      \* "idle", "connecting", "writing", "reading", "done"
          op,         \* "info", "auth", "code" or "hello"
          login,      \* what the request was built from
          session,    \* the last answer to a login or a code, or NoReply
          request,    \* the text of the request
          reply,      \* what the gateway says, how, and under which status
          received,   \* symbols of its wire form received
          ended,      \* how the reading ended
          answer      \* what the caller gets

requestVars == <<op, login, session, request>>
vars == <<phase, op, login, session, request, reply, received, ended, answer>>

CccOps == {"info", "auth", "code"}
Framings == [type : {"length", "close"}, first : {0}]
              \cup [type : {"chunked"}, first : Chunkings]
NoWire == [says |-> NoReply, wire |-> <<>>, size |-> 0, status |-> 0, type |-> "close"]

-------------------------------------------------------------------------------
(* The wire: the headers, which are one symbol, their end, and the body.     *)
(* Status and framing are in the headers.                                    *)

Chunk(text) == <<ToString(Len(text)), "\r", "\n">> \o text \o <<"\r", "\n">>
LastChunk == <<"0", "\r", "\n", "\r", "\n">>

Wire(text, framing) ==
  <<"headers", "end of headers">>
    \o IF framing.type = "chunked"
       THEN Chunk(SubSeq(text, 1, framing.first))
              \o Chunk(SubSeq(text, framing.first + 1, Len(text))) \o LastChunk
       ELSE text

HttpReplies(replies) ==
  {LET text == SerializeNode(r.document) IN
   [says |-> r.says, wire |-> Wire(text, f), size |-> Len(text), status |-> s, type |-> f.type] :
     r \in replies \cup {EmptyReply}, f \in Framings, s \in {200, 403}}

SlimReplies ==
  {LET text == SerializeNode(r.document) IN
   [says |-> r.says, wire |-> text, size |-> Len(text), status |-> 200, type |-> "slim"] :
     r \in HelloReplies \cup {EmptyReply}}

-------------------------------------------------------------------------------
(* Reading the answer: dechunk() and parse_http_response().                  *)

SizeOf(symbol) == LET n == {k \in 0 .. 200 : ToString(k) = symbol}
                  IN  IF n = {} THEN 0 ELSE Min(n)

(* The chunks from position pos on, pos symbols being behind it.             *)
RECURSIVE DechunkFrom(_, _, _)
DechunkFrom(data, pos, body) ==
  LET lineEnds == {e \in pos + 1 .. Len(data) - 1 : data[e] = "\r" /\ data[e + 1] = "\n"}
      size == SizeOf(data[pos + 1])
      start == Min(lineEnds) + 1
  IN  IF pos >= Len(data) THEN body
      ELSE IF lineEnds = {} THEN NoText
      ELSE IF size = 0 THEN body
      ELSE IF start + size + 2 > Len(data) + 1 THEN NoText
      ELSE DechunkFrom(data, start + size + 2, body \o SubSeq(data, start + 1, start + size))
Dechunk(data) == DechunkFrom(data, 0, <<>>)

\* Mutant: the status is not looked at.
HttpBodyOfAnyStatus(raw, r) ==
  LET body == SubSeq(raw, 3, Len(raw))
  IN  IF Len(raw) < 2 THEN NoText
      ELSE IF r.type = "chunked" THEN Dechunk(body) ELSE body

(* The body of what was received, or NoText; a body shorter than its         *)
(* Content-Length is taken as it is.                                         *)
HttpBody(raw, r) ==
  LET body == SubSeq(raw, 3, Len(raw))
      text == CASE r.type = "chunked" -> Dechunk(body)
                [] r.type = "length" /\ r.size <= Len(body) -> SubSeq(body, 1, r.size)
                [] OTHER -> body
  IN  IF Len(raw) < 2 \/ r.status < 200 \/ r.status >= 300 THEN NoText ELSE text

SlimBody(raw, r) == IF Len(raw) = r.size THEN raw ELSE NoText

Understand(text) ==
  LET expr == Parse(text)
  IN  CASE text = NoText \/ expr = NoExpr -> NoReply
        [] op = "info" -> ParseGatewayInfo(expr)
        [] op \in {"auth", "code"} -> ParseAuthResult(expr)
        [] op = "hello" /\ ObjectName(expr) = Word("disconnect") -> NoReply
        [] OTHER -> ParseHelloReply(expr)

-------------------------------------------------------------------------------
Init == /\ phase = "idle"
        /\ op = "info"
        /\ login \in Logins
        /\ session = NoReply
        /\ request = <<>>
        /\ reply = NoWire
        /\ received = 0
        /\ ended = "not"
        /\ answer = NoReply

(* auth_thread_func() asks for the gateway and logs in, on_auth_done() sees   *)
(* what is next: a code when the gateway wants one, the tunnel when it is    *)
(* satisfied, and otherwise the attempt has failed.                          *)
Follows(o) ==
  CASE o = "info" -> phase = "idle"
    [] o = "auth" -> phase = "done" /\ answer.kind = "info"
    [] o = "code" -> /\ phase = "done"
                     /\ answer.kind = "auth"
                     /\ answer.authn_status = Word("continue")
    [] o = "hello" -> /\ phase = "done"
                      /\ answer.kind = "auth"
                      /\ answer.authn_status = Word("done")
                      /\ answer.is_authenticated
                      /\ answer.active_key # Absent
Ops == CccOps \cup {"hello"}

(* The request is built from the login, from the session id of the last      *)
(* answer or from the key it gave.                                           *)
Build(o) == CASE o = "info" -> ClientHelloRequest
              [] o = "auth" -> AuthRequest(login.option, login.username, login.password)
              [] o = "code" -> ChallengeRequest(session.session_id, login.password)
              [] o = "hello" -> TunnelHello(session.active_key)

Ask(o) == /\ Follows(o)
          /\ op' = o
          /\ phase' = "connecting"
          /\ request' = SerializeNode(Build(o))
          /\ reply' = NoWire
          /\ received' = 0
          /\ ended' = "not"
          /\ answer' = NoReply
          /\ UNCHANGED <<login, session>>

(* The attempt ends, failed or after the tunnel; reset_plugin_state() before *)
(* the next one.                                                             *)
Finish == /\ phase = "done"
          /\ ~\E o \in Ops : Follows(o)
          /\ phase' = "idle"
          /\ session' = NoReply
          /\ reply' = NoWire
          /\ received' = 0
          /\ ended' = "not"
          /\ answer' = NoReply
          /\ UNCHANGED <<op, login, request>>

Return(how, a) == /\ phase' = "done"
                  /\ ended' = how
                  /\ answer' = a
                  /\ session' = IF a.kind = "auth" THEN a ELSE session
                  /\ UNCHANGED <<op, login, request, reply, received>>

Connect == /\ phase = "connecting"
           /\ phase' = "writing"
           /\ UNCHANGED <<requestVars, reply, received, ended, answer>>
ConnectFails == phase = "connecting" /\ Return("error", NoReply)

Write == /\ phase = "writing"
         /\ phase' = "reading"
         /\ reply' \in CASE op = "info" -> HttpReplies(InfoReplies)
                         [] op \in {"auth", "code"} -> HttpReplies(AuthReplies)
                         [] op = "hello" -> SlimReplies
         /\ UNCHANGED <<requestVars, received, ended, answer>>
WriteFails == phase = "writing" /\ Return("error", NoReply)

Read == /\ phase = "reading"
        /\ \E n \in 1 .. ReadSize :
             /\ received + n <= Len(reply.wire)
             /\ received' = received + n
        /\ UNCHANGED <<phase, requestVars, reply, ended, answer>>

\* Mutant: only a connection that says goodbye has ended.
ReadEndsPolitely(how) ==
  /\ phase = "reading"
  /\ LET raw == SubSeq(reply.wire, 1, received)
         text == IF op = "hello" THEN SlimBody(raw, reply) ELSE HttpBody(raw, reply)
     IN  IF text = NoText \/ how /= "end" THEN Return("end", NoReply)
         ELSE Return(how, Understand(text))

(* A read error: a timeout, a reset.  A connection that ends without the TLS *)
(* close_notify is an error of its own, which http_post() takes for the end. *)
ReadFails == phase = "reading" /\ Return("error", NoReply)

ReadEnds(how) ==
  /\ phase = "reading"
  /\ LET raw == SubSeq(reply.wire, 1, received)
         text == IF op = "hello" THEN SlimBody(raw, reply) ELSE HttpBody(raw, reply)
     IN  IF op = "hello" /\ text = NoText
         THEN Return("error", NoReply)
         ELSE Return(how, Understand(text))

Next == \/ \E o \in Ops : Ask(o)
        \/ Finish
        \/ Connect \/ ConnectFails \/ Write \/ WriteFails
        \/ Read \/ ReadFails
        \/ \E how \in {"end", "end without notify"} : ReadEnds(how)

Spec == Init /\ [][Next]_vars

-------------------------------------------------------------------------------
(* What is put between quotes as it stands can be read back unless it holds  *)
(* a quote or a backslash (snx-sexpr-writer.c:128).                          *)
Quotable(text) == ToSet(text) \cap {"\"", "\\"} = {}

(* A request can be read back: the parser finds in the text what the user    *)
(* entered, the session id the gateway gave, or none when it gave none, and  *)
(* the cookie, whatever parentheses, blanks or dashes are in them, and the   *)
(* credentials come out of their obfuscation. The login type, the session id *)
(* and the key are written as they stand: the request is not read back when  *)
(* one of those it holds has a quote or a backslash in it.                   *)
RequestReadsBack ==
  phase = "connecting" =>
    LET sent == Parse(request)
        data(key) == GetString(sent, <<"RequestData", key>>)
    IN  /\ op = "info" => sent # NoExpr
        /\ op = "auth" /\ Quotable(login.option) =>
             /\ data("selectedLoginOption") = login.option
             /\ Deobfuscate(UnHex(data("username"))) = login.username
             /\ Deobfuscate(UnHex(data("password"))) = login.password
        /\ op = "code" /\ Quotable(session.session_id) =>
             /\ GetString(sent, <<"RequestHeader", "session_id">>) = session.session_id
             /\ data("auth_session_id") = session.session_id
             /\ Deobfuscate(UnHex(data("user_input"))) = login.password
        /\ op = "hello" /\ Quotable(session.active_key) =>
             GetString(sent, <<"cookie">>) = session.active_key

(* An answer the caller gets is what the gateway said, whole, and under a    *)
(* good status: though http_post() takes every end of the connection for the *)
(* end of the answer and dechunk() accepts a cut behind any chunk, no cut    *)
(* of an answer is taken for an answer.                                      *)
AnswerIsWhole ==
  answer # NoReply => answer = reply.says /\ reply.status = 200

(* A gateway that answers and just closes its connection, without a TLS      *)
(* close_notify, is understood as one that says goodbye.                     *)
CloseWithoutNotifyIsTheEnd ==
  /\ phase = "done"
  /\ ended \in {"end", "end without notify"}
  /\ received = Len(reply.wire)
  /\ reply.status = 200
  => answer = reply.says
===============================================================================
