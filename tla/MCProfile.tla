------------------------------ MODULE MCProfile -------------------------------
(* Profiles: none yet, the one of docs/CONFIGURATION.md, the one of           *)
(* docs/INSTALL.md with an item of somebody else's, one with other spellings  *)
(* of its values, a certificate and secrets, and one that does not parse.     *)
EXTENDS SnxProfile

MCNumbers == {-1000, -100, -1, 0, 1, 2, 4, 576, 1000, 1300, 1400, 9000, 9999, 28800, 604800}

MCWords == STRING

Gateway == "server-name" :> <<"gw">>
Nobody == [user |-> <<>>, data |-> <<>>, secrets |-> <<>>]

Documented == [user |-> <<"me">>, secrets |-> <<>>,
               data |-> Gateway @@ ("login-type" :> <<"vpn">>) @@ ("tunnel-type" :> <<"ipsec">>)
                          @@ ("set-routing-domains" :> <<"true">>)
                          @@ ("dns-priority" :> <<"-100">>)]

Installed == [user |-> <<>>, secrets |-> <<>>,
              data |-> ("server" :> <<"gw">>) @@ ("username" :> <<"me">>)
                         @@ ("login-type" :> <<"vpn">>) @@ ("tunnel-type" :> <<"SSL">>)
                         @@ ("other" :> <<"kept">>)]

Spelled == [user |-> <<"me">>, secrets |-> [s \in SecretKeys |-> <<"old">>],
            data |-> Gateway @@ ("no-routing" :> <<"Yes">>) @@ ("port-knock" :> <<"1">>)
                       @@ ("mtu" :> <<"9999">>) @@ ("add-routes" :> <<"a", ",", ",", "b", ",">>)
                       @@ ("keychain" :> <<"TRUE">>) @@ ("password-factor" :> <<"0">>)
                       @@ ("cert-path" :> <<"file">>) @@ ("cert-password-flags" :> <<"0">>)]

IllFormed == [user |-> <<"me">>, secrets |-> <<>>,
              data |-> Gateway @@ ("set-routing-domains" :> <<"perhaps">>)
                         @@ ("tunnel-type" :> <<"ssl">>)]

MCProfiles == {Nobody, Documented, Installed, Spelled, IllFormed}

MCEdits == {[key |-> "server-name", value |-> <<"gw2">>], [key |-> "user-name", value |-> <<"you">>],
            [key |-> "set-routing-domains", value |-> FALSE],
            [key |-> "add-routes", value |-> <<"c", ",", " ", "d">>],
            [key |-> "if-name", value |-> <<>>]}

MCSecretTexts == {<<>>, <<"new">>}
MCMenus == {AgentOwned, NotSaved}
MCOffers == {<<<<"other">>, <<"vpn">>>>, <<<<"code">>>>}
===============================================================================
