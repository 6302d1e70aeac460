----------------------------- MODULE SnxMessages ------------------------------
(* The messages between the client and the gateway: the request builders and *)
(* the reply parsers of snx-ccc.c, the hello and the hello reply of          *)
(* snx-ssl-tunnel.c, and the replies a gateway may write.                    *)
EXTENDS Sexpr, SnxObfuscate, TLC

Absent == NoText                     \* a field that is not there
Word(w) == <<w>>

(* snx_writer_set_string(): a field whose value is NULL is left out.         *)
Present(fields) ==
  LET present(f) == f[2] # Value(Absent)
  IN  SelectSeq(fields, present)

(* Obfuscated bytes are one symbol each.                                     *)
Hex(data) == [i \in DOMAIN data |-> ToString(data[i])]
UnHex(text) == [i \in DOMAIN text |-> CHOOSE b \in 0 .. 255 : ToString(b) = text[i]]

(* What a C string of these bytes reads as. The bytes that are neither letter *)
(* nor digit have their symbols; no deobfuscated byte is 0.                  *)
Text(data) ==
  LET symbols == 32 :> " " @@ 34 :> "\"" @@ 40 :> "(" @@ 41 :> ")" @@ 45 :> "-" @@ 92 :> "\\"
      symbol(b) == IF b \in DOMAIN symbols THEN symbols[b] ELSE ToString(b)
  IN  [i \in DOMAIN data |-> symbol(data[i])]

(* The number a port's text stands for; strtoull() gives 0 for what is none. *)
PortNames == {"443", "8443"}
PortOf(text) == IF text \in {Word(p) : p \in PortNames} THEN text[1] ELSE "0"

-------------------------------------------------------------------------------
(* Requests.  The id and the constant fields a reply does not depend on are  *)
(* left out.                                                                 *)

CccRequest(type, sessionId, data) ==
  Object(Word("CCCclientRequest"),
         << <<"RequestHeader",
              Object(<<>>, Present(<< <<"type", Value(Word(type))>>,
                                      <<"session_id", Value(sessionId)>> >>))>>,
            <<"RequestData", Object(<<>>, data)>> >>)

ClientHelloRequest ==
  CccRequest("ClientHello", Absent,
             << <<"client_info",
                  Object(<<>>, << <<"client_type", Value(Word("TRAC"))>> >>)>> >>)

AuthRequest(loginType, username, password) ==
  CccRequest("UserPass", Absent,
             Present(<< <<"username", Value(Hex(Obfuscate(username)))>>,
                        <<"password", Value(Hex(Obfuscate(password)))>>,
                        <<"selectedLoginOption", Value(loginType)>>,
                        <<"client_logging_data",
                          Object(<<>>, << <<"os_name", Value(Word("Linux"))>> >>)>> >>))

ChallengeRequest(sessionId, userInput) ==
  CccRequest("MultiChallange", sessionId,
             Present(<< <<"auth_session_id", Value(sessionId)>>,
                        <<"user_input", Value(Hex(Obfuscate(userInput)))>> >>))

(* The cookie is the deobfuscated key as it is.                              *)
TunnelHello(cookie) ==
  Object(Word("client_hello"),
         << <<"OM", Object(<<>>, << <<"ipaddr", Value(Word("0.0.0.0"))>> >>)>>,
            <<"optional", Object(<<>>, << <<"client_type", Value(Word("4"))>> >>)>>,
            <<"cookie", Value(cookie)>> >>)

-------------------------------------------------------------------------------
(* Replies.  A parser returns the reply, or NoReply with an error.           *)

NoReply == [kind |-> "none"]

(* An absent or malformed obfuscated field becomes NULL; an odd number of    *)
(* digits, the only malformation here, is the word "odd".                    *)
DeobfuscateOrNull(text) ==
  IF text = Absent \/ text = Word("odd") THEN Absent
  ELSE Text(Deobfuscate(UnHex(text)))

LoginOption(option) ==
  LET factors == Get(option, <<"factors">>)
      types == {GetString(FieldValue(factors, f), <<"factor_type">>) :
                  f \in 1 .. FieldCount(factors)}
  IN  [id |-> GetString(option, <<"id">>),
       is_certificate |-> Word("certificate") \in types,
       is_multi_factor |-> types \ {Word("certificate")} # {}]

ParseGatewayInfo(response) ==
  LET data == Get(response, <<"ResponseData">>)
      options == Get(data, <<"login_options_data", "login_options_list">>)
  IN  IF data = NoExpr THEN NoReply
      ELSE [kind |-> "info",
            tcpt_port |-> PortOf(GetString(data, <<"connectivity_info", "tcpt_port">>)),
            login_options |-> [i \in 1 .. FieldCount(options) |->
                                 LoginOption(FieldValue(options, i))]]

ParseAuthResult(response) ==
  LET data == Get(response, <<"ResponseData">>)
  IN  IF data = NoExpr THEN NoReply
      ELSE [kind |-> "auth",
            authn_status |-> GetString(data, <<"authn_status">>),
            is_authenticated |-> GetString(data, <<"is_authenticated">>) = Word("true"),
            session_id |-> GetString(data, <<"session_id">>),
            active_key |-> DeobfuscateOrNull(GetString(data, <<"active_key">>))]

(* A value, or a list of values under arbitrary keys; an empty one is no     *)
(* entry of the list.                                                        *)
ValueList(list) ==
  LET texts == [i \in 1 .. FieldCount(list) |-> ValueString(FieldValue(list, i))]
      some(t) == t # NoText /\ t # <<>>
  IN  IF ValueString(list) # NoText THEN <<ValueString(list)>> ELSE SelectSeq(texts, some)

(* The parts between the separators, without white space around them and     *)
(* without the empty ones.                                                   *)
DelimitedList(text) ==
  LET cuts == {0, Len(text) + 1} \cup {i \in DOMAIN text : text[i] \in {",", ";"}}
      starts == SetToSortSeq(cuts \ {Len(text) + 1}, <)
      part(c) == SubSeq(text, c + 1, Min({d \in cuts : d > c}) - 1)
      word(s) == s # " "
      parts == [i \in DOMAIN starts |-> SelectSeq(part(starts[i]), word)]
      some(t) == t # <<>>
  IN  IF text = NoText THEN <<>> ELSE SelectSeq(parts, some)

(* An item without one of its ends is skipped.                               *)
RangeList(list) ==
  LET range(i) == [from |-> GetString(FieldValue(list, i), <<"from">>),
                   to |-> GetString(FieldValue(list, i), <<"to">>)]
      whole(r) == r.from # NoText /\ r.to # NoText
  IN  SelectSeq([i \in 1 .. FieldCount(list) |-> range(i)], whole)

(* Only the address is required.                                             *)
ParseHelloReply(expr) ==
  IF GetString(expr, <<"OM", "ipaddr">>) = NoText THEN NoReply
  ELSE [kind |-> "hello",
        assigned_ip |-> GetString(expr, <<"OM", "ipaddr">>),
        dns_servers |-> ValueList(Get(expr, <<"OM", "dns_servers">>)),
        search_domains |-> DelimitedList(GetString(expr, <<"OM", "dns_suffix">>)),
        ranges |-> RangeList(Get(expr, <<"range">>))]

-------------------------------------------------------------------------------
(* The gateway.  Of each reply: what it says, and the document that says it. *)
(* Inside quotes the gateway escapes quotes, backslashes and ends of lines.  *)

Escape(text) ==
  FlattenSeq([i \in DOMAIN text |->
                CASE text[i] \in {"\"", "\\"} -> <<"\\", text[i]>>
                  [] text[i] = "\n" -> <<"\\", "n">>
                  [] OTHER -> <<text[i]>>])

Numbered(nodes) == Object(<<>>, [i \in DOMAIN nodes |-> <<ToString(i), nodes[i]>>])
Maybe(key, text) ==
  IF text = Absent THEN <<>> ELSE << <<key, Value(Escape(text))>> >>

Envelope(data) == Object(Word("CCCserverResponse"),
                         << <<"ResponseHeader", Object(<<>>, <<>>)>>,
                            <<"ResponseData", Object(<<>>, data)>> >>)

OptionNode(factors) ==
  Object(<<>>, << <<"factors",
    Numbered([j \in DOMAIN factors |->
      Object(<<>>, << <<"factor_type", Value(Word(factors[j]))>> >>)])>>,
                  <<"id", Value(Word("vpn"))>> >>)

InfoReplies ==
  {[says |-> [kind |-> "info", tcpt_port |-> PortOf(tcpt),
              login_options |-> [i \in DOMAIN options |->
                [id |-> Word("vpn"),
                 is_certificate |-> "certificate" \in ToSet(options[i]),
                 is_multi_factor |-> "password" \in ToSet(options[i])]]],
    document |-> Envelope(
      << <<"connectivity_info", Object(<<>>, Maybe("tcpt_port", tcpt))>>,
         <<"login_options_data",
           Object(<<>>, << <<"login_options_list",
             Numbered([i \in DOMAIN options |-> OptionNode(options[i])])>> >>)>> >>)] :
    tcpt \in {Absent, Word("443")},
    options \in { <<>>, << <<"password", "certificate">>, <<"certificate">> >> }}

(* The prompt and the error message are obfuscated texts as the key is.      *)
AuthReplies ==
  {[says |-> [kind |-> "auth", authn_status |-> status, is_authenticated |-> auth,
              session_id |-> session,
              active_key |-> IF key = Absent THEN Absent ELSE Text(key)],
    document |-> Envelope(
      Maybe("authn_status", status) \o Maybe("session_id", session)
        \o Maybe("is_authenticated", IF auth THEN Word("true") ELSE Word("false"))
        \o Maybe("active_key", IF key = Absent THEN Absent ELSE Hex(Obfuscate(key))))] :
    status \in {Absent, Word("continue"), Word("done")},
    auth \in BOOLEAN,
    session \in {Absent, <<"s", "-", "1">>, <<"s", "\"", "\\", "\n">>},
    key \in {Absent, <<67, 45, 41>>}}

HelloReplies ==
  {[says |-> [kind |-> "hello", assigned_ip |-> Word("10.0.0.7"),
              dns_servers |-> dns,
              search_domains |-> [i \in DOMAIN domains |-> Word(domains[i])],
              ranges |-> <<[from |-> Word("10.1.0.0"), to |-> Word("10.1.0.9")]>>],
    document |-> Object(Word("hello_reply"),
      << <<"OM", Object(<<>>,
           << <<"ipaddr", Value(Word("10.0.0.7"))>>,
              <<"dns_servers", IF Len(dns) = 1 THEN Value(dns[1])
                               ELSE Numbered([i \in DOMAIN dns |-> Value(dns[i])])>> >>
             \o Maybe("dns_suffix",
                  IF domains = <<>> THEN <<";">>
                  ELSE FlattenSeq([i \in DOMAIN domains |-> <<" ", domains[i], ",">>])))>>,
         <<"range", Numbered(<<Object(<<>>, Maybe("from", Word("10.9.0.0"))),
                               Object(<<>>, Maybe("from", Word("10.1.0.0"))
                                              \o Maybe("to", Word("10.1.0.9")))>>)>> >>)] :
    dns \in {<<>>, <<Word("10.0.0.1")>>, <<Word("10.0.0.1"), Word("10.0.0.2")>>},
    domains \in {<<>>, <<"corp", "lab">>}}

(* A reply without the part the client needs.                                *)
EmptyReply == [says |-> NoReply,
               document |-> Object(Word("disconnect"), << <<"code", Value(Word("1"))>> >>)]
===============================================================================
