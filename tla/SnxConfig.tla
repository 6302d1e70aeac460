------------------------------ MODULE SnxConfig -------------------------------
(* A connection profile and the configuration read from it (snx-config.c).   *)
(*                                                                           *)
(* A text is a sequence of words, <<>> the empty one (and the one that is    *)
(* not there: no reader tells them apart).  A profile is what NetworkManager *)
(* keeps of a connection: vpn.user-name, the data items and the secrets, as  *)
(* functions from keys to texts.                                             *)
EXTENDS Integers, SequencesExt, TLC

CONSTANT Numbers        \* the numbers that may be written in a profile

TextKeys == {"server-name", "user-name", "profile-name", "login-type", "if-name",
             "cert-type", "cert-path", "cert-id"}
ListKeys == {"dns-servers", "ignore-dns-servers", "search-domains", "ignore-search-domains",
             "add-routes", "ignore-routes", "ca-cert"}
BoolKeys == {"default-route", "no-routing", "ignore-server-cert", "no-keepalive", "port-knock",
             "ike-persist", "set-routing-domains", "disable-ipv6", "allow-forwarding", "keychain"}
UintKeys == {"password-factor", "ike-lifetime", "ip-lease-time", "mtu"}
NumberKeys == UintKeys \cup {"dns-priority"}
SecretKeys == {"password", "cert-password"}
Options == [k \in {"tunnel-type", "transport-type"} |->
              IF k = "tunnel-type" THEN <<"ipsec", "ssl">> ELSE <<"auto", "kernel", "udp", "tcpt">>]

ConfigKeys == TextKeys \cup ListKeys \cup BoolKeys \cup NumberKeys \cup SecretKeys \cup DOMAIN Options

(* The keys in the order in which NetworkManager walks them, by name.        *)
KeyOrder ==
  <<"add-routes", "allow-forwarding", "ca-cert", "cert-id", "cert-password", "cert-path",
    "cert-type", "default-route", "disable-ipv6", "dns-priority", "dns-servers", "if-name",
    "ignore-dns-servers", "ignore-routes", "ignore-search-domains", "ignore-server-cert",
    "ike-lifetime", "ike-persist", "ip-lease-time", "keychain", "login-type", "mtu",
    "no-keepalive", "no-routing", "password", "password-factor", "port-knock", "profile-name",
    "search-domains", "server", "server-name", "set-routing-domains", "transport-type",
    "tunnel-type", "user-name", "username">>

-------------------------------------------------------------------------------
(* Values.                                                                   *)

Lower(text) ==
  [i \in DOMAIN text |-> CASE text[i] = "TRUE" -> "true"
                           [] text[i] = "Yes"  -> "yes"
                           [] text[i] = "SSL"  -> "ssl"
                           [] text[i] = "UDP"  -> "udp"
                           [] OTHER -> text[i]]

Yes == {<<"true">>, <<"1">>, <<"yes">>}
No  == {<<"false">>, <<"0">>, <<"no">>}

Numeral(n) == <<ToString(n)>>
IsNumeral(text) == \E n \in Numbers : text = Numeral(n)
NumberIn(text) == IF IsNumeral(text) THEN CHOOSE n \in Numbers : text = Numeral(n) ELSE 0

(* What f has, and what g has beyond it.                                     *)
Over(f, g) == [k \in DOMAIN f \cup DOMAIN g |-> IF k \in DOMAIN f THEN f[k] ELSE g[k]]

(* The parts between commas, without the spaces around them, empty ones left *)
(* out.  A reading has the parts so far, the one that has begun, and the     *)
(* spaces since its last word.                                               *)
NothingRead == [parts |-> <<>>, part |-> <<>>, spaces |-> <<>>]
PartsOf(r) == IF r.part = <<>> THEN r.parts ELSE Append(r.parts, r.part)
ReadWord(r, w) ==
  CASE w = "," -> [parts |-> PartsOf(r), part |-> <<>>, spaces |-> <<>>]
    [] w = " " -> IF r.part = <<>> THEN r
                  ELSE [parts |-> r.parts, part |-> r.part, spaces |-> Append(r.spaces, w)]
    [] OTHER -> [parts |-> r.parts, part |-> Append(r.part \o r.spaces, w), spaces |-> <<>>]
ReadCsv(text) ==
  LET read[n \in 0 .. Len(text)] == IF n = 0 THEN NothingRead ELSE ReadWord(read[n - 1], text[n])
  IN  read[Len(text)]
SplitCsv(text) == PartsOf(ReadCsv(text))

-------------------------------------------------------------------------------
(* From items to a configuration.  The first item that does not parse ends   *)
(* it; what was applied before stays applied.                                *)

Defaults ==
  [k \in ConfigKeys |->
     CASE k \in TextKeys \cup ListKeys -> <<>>
       [] k \in BoolKeys -> k = "set-routing-domains"
       [] k \in SecretKeys -> FALSE
       [] k = "tunnel-type" -> "ipsec"
       [] k = "transport-type" -> "auto"
       [] k = "password-factor" -> 1
       [] k = "ike-lifetime" -> 28800
       [] k = "mtu" -> 1300
       [] k = "dns-priority" -> -100
       [] OTHER -> 0]

DefaultIfName == <<"snx-tun">>

(* The items a value is read from: the first and the last of its names.      *)
FirstName(k) == IF k = "server-name" THEN "server" ELSE k
LastName(k)  == IF k = "user-name" THEN "username" ELSE k
Parses(key, text) ==
  CASE key \in BoolKeys -> Lower(text) \in Yes \cup No
    [] key \in UintKeys -> text = <<>> \/ (IsNumeral(text) /\ NumberIn(text) >= 0)
    [] key \in DOMAIN Options -> Len(text) = 1 /\ Lower(text)[1] \in ToSet(Options[key])
    [] OTHER -> TRUE

ValueOf(k, text, secret) ==
  CASE k \in ListKeys -> SplitCsv(text)
    [] k \in SecretKeys -> secret \/ text /= <<>>
    [] k \in BoolKeys -> Lower(text) \in Yes
    [] k = "password-factor" /\ NumberIn(text) = 0 -> 1
    [] k \in NumberKeys -> NumberIn(text)
    [] k \in DOMAIN Options -> Lower(text)[1]
    [] OTHER -> text

(* A reading is [ok, config]: whether every item parsed, and the values.     *)
(* The auth dialog walks its items in the order of a hash table, which makes *)
(* no difference: it fails on one that does not parse, wherever that is, and *)
(* of the values it uses those of the secrets, which have one name each.     *)
ApplyItems(reading, items, secret) ==
  LET bad == {i \in DOMAIN KeyOrder :
                KeyOrder[i] \in DOMAIN items /\ ~Parses(KeyOrder[i], items[KeyOrder[i]])}
      read == {KeyOrder[i] : i \in {j \in DOMAIN KeyOrder : \A b \in bad : j < b}} \cap DOMAIN items
  IN  IF ~reading.ok THEN reading
      ELSE [ok |-> bad = {},
            config |-> [k \in DOMAIN reading.config |->
                          CASE LastName(k) \in read -> ValueOf(k, items[LastName(k)], secret)
                            [] LastName(k) \notin read /\ FirstName(k) \in read ->
                                 ValueOf(k, items[FirstName(k)], secret)
                            [] OTHER -> reading.config[k]]]

FromConnection(profile) ==
  ApplyItems(
    ApplyItems([ok |-> TRUE,
                config |-> [Defaults EXCEPT !["if-name"] = DefaultIfName,
                                            !["user-name"] = profile.user]],
               profile.data, FALSE),
    profile.secrets, TRUE)

ValidateForConnect(config) == config["server-name"] /= <<>> /\ config["login-type"] /= <<>>

NeedsPassword(config) == config["user-name"] = <<>> \/ ~config["password"]

-------------------------------------------------------------------------------
(* Secret flags of NetworkManager, the item next to a secret that says who   *)
(* keeps it.                                                                 *)
None        == 0        \* NetworkManager, for all users
AgentOwned  == 1        \* the user's secret agent
NotSaved    == 2        \* nobody, ask every time
NotRequired == 4

FlagsKey == [s \in SecretKeys |-> IF s = "password" THEN "password-flags" ELSE "cert-password-flags"]
FlagsIn(data, secret, absent) ==
  IF FlagsKey[secret] \in DOMAIN data THEN NumberIn(data[FlagsKey[secret]]) ELSE absent
HasFlag(flags, flag) == (flags \div flag) % 2 = 1
===============================================================================
