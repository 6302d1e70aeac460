------------------------------ MODULE SnxProfile ------------------------------
(* A connection profile edited in the GNOME editor and in the Plasma editor, *)
(* one at a time and in any order, and the question for its secrets when it  *)
(* is activated.                                                             *)
(*                                                                           *)
(* Both editors show the profile in widgets, change widgets, and write them  *)
(* all back.  The GNOME editor shows what the service would read; its        *)
(* advanced dialog is a part of the same form, hidden, with a snapshot to go *)
(* back to.  The Plasma editor shows the items themselves; its advanced      *)
(* dialog works on a copy of the items, which accepting it overwrites.       *)
(*                                                                           *)
(* intended is the configuration the user means: the one that was in force   *)
(* when the editor opened, with what was edited since and not cancelled.     *)
EXTENDS SnxConfig

CONSTANTS Words,        \* what texts are made of
          Profiles,     \* the profiles to begin with
          Edits,        \* what a user enters: [key, value]
          SecretTexts,  \* what a user types into a password field
          Menus,        \* what a user chooses in a storage menu
          Offers,       \* login types gateways advertise, sequences of texts
          MaxSteps      \* bound: editors opened and changes made

ASSUME ProfileConstants ==
  /\ {None, AgentOwned, NotSaved, NotRequired} \subseteq Numbers
  /\ \A m, n \in Numbers : Numeral(m) = Numeral(n) => m = n
  /\ \A p \in Profiles :
       /\ p = [user |-> p.user, data |-> p.data, secrets |-> p.secrets]
       /\ DOMAIN p.secrets \subseteq SecretKeys
       /\ \A s \in DOMAIN p.secrets : p.secrets[s] /= <<>>

VARIABLES profile, opened,          \* as stored, and as stored when opened
          editor,                   \* "none", "gnome" or "plasma"
          main, advanced,           \* the widgets
          useCertificate, login,    \* a check box; the login types and the choice
          secret,                   \* the password fields: [text, menu]
          held,                     \* the secrets of the connection GNOME's editor was given
          dialog, snapshot, kept,   \* advanced open; GNOME's snapshot, Plasma's copy
          accepted,                 \* advanced was accepted since opening
          query,                    \* the gateway is being asked for login types
          intended, before,         \* before: intended when advanced was opened
          saved, steps,
          activation                \* how the last activation asked for secrets

form == <<main, advanced, useCertificate, login, secret>>
vars == <<profile, opened, editor, form, held, dialog, snapshot, kept, accepted, query,
          intended, before, saved, steps, activation>>

CertKeys == {"cert-type", "cert-path", "cert-id"}
MainKeys == {"server-name", "user-name"} \cup DOMAIN Options \cup CertKeys
SpinRange == [k \in NumberKeys \ {"password-factor"} |->
                CASE k = "mtu" -> <<576, 9000>>
                  [] k = "dns-priority" -> <<-1000, 1000>>
                  [] OTHER -> <<0, 604800>>]
AdvancedKeys == {"if-name"} \cup ListKeys \cup (BoolKeys \ {"keychain"}) \cup DOMAIN SpinRange
Managed == (MainKeys \ {"user-name"}) \cup AdvancedKeys \cup {"login-type"}
             \cup {FlagsKey[s] : s \in SecretKeys}

-------------------------------------------------------------------------------
(* Widgets.                                                                  *)

Clamp(k, n) == LET low == SpinRange[k][1] high == SpinRange[k][2]
               IN  IF n < low THEN low ELSE IF n > high THEN high ELSE n

JoinPart(n, text, part) == IF n = 1 THEN part ELSE text \o <<",", " ">> \o part
Join(parts) ==
  LET joined[n \in 0 .. Len(parts)] == IF n = 0 THEN <<>> ELSE JoinPart(n, joined[n - 1], parts[n])
  IN  joined[Len(parts)]

(* What a widget holds, as an item's text.                                   *)
Written(k, v) == CASE k \in BoolKeys -> IF v THEN <<"true">> ELSE <<"false">>
                   [] k \in DOMAIN SpinRange -> Numeral(v)
                   [] k \in DOMAIN Options -> <<v>>
                   [] OTHER -> v

(* What the service makes of it (nm-snx-service.c:752).                      *)
Meaning(k, v) == CASE k \in ListKeys -> SplitCsv(v)
                   [] k = "if-name" /\ v = <<>> -> DefaultIfName
                   [] OTHER -> v

(* What a widget takes.                                                      *)
Enterable(k, v) == CASE k \in BoolKeys -> v \in BOOLEAN
                     [] k \in DOMAIN SpinRange -> v \in Numbers /\ Clamp(k, v) = v
                     [] k \in DOMAIN Options -> v \in ToSet(Options[k])
                     [] OTHER -> v \in Seq(Words)

ASSUME WidgetConstants ==
  /\ Numbers \subseteq Int
  /\ {",", " "} \subseteq Words /\ DefaultIfName \in Seq(Words)
  /\ \A k \in DOMAIN SpinRange : {SpinRange[k][1], SpinRange[k][2], Defaults[k]} \subseteq Numbers
  /\ \A e \in Edits : e.key \in MainKeys \cup AdvancedKeys /\ Enterable(e.key, e.value)
  /\ \A offer \in Offers : offer \in Seq(Seq(Words)) \ {<<>>}
  /\ \A p \in Profiles : \A k \in DOMAIN p.data : p.data[k] \in Seq(Words)

(* The first of the options unless value is one of them.                     *)
Choose(k, value) ==
  IF Len(value) = 1 /\ Lower(value)[1] \in ToSet(Options[k]) THEN Lower(value)[1] ELSE Options[k][1]

Item(data, k) == IF k \in DOMAIN data THEN data[k] ELSE <<>>

OneOrNone(text) == IF text = <<>> THEN <<>> ELSE <<text>>
SetLoginTypeOptions(ids, preferred) ==
  IF ids = <<>> THEN [ids |-> <<<<>>>>, at |-> 1]
  ELSE [ids |-> ids,
        at |-> IF preferred \in ToSet(ids) THEN CHOOSE i \in DOMAIN ids : ids[i] = preferred ELSE 1]
LoginType == login.ids[login.at]

UsesCertificate(text) == \E k \in CertKeys : text[k] /= <<>>

-------------------------------------------------------------------------------
(* The configuration in force: the service takes its own name for an empty   *)
(* if-name (nm-snx-service.c:752).                                           *)
Effective(p) ==
  LET config == FromConnection(p).config
  IN  [k \in DOMAIN config \ SecretKeys |->
         IF k = "if-name" /\ config[k] = <<>> THEN DefaultIfName ELSE config[k]]

-------------------------------------------------------------------------------
Init == /\ profile \in Profiles
        /\ opened = profile
        /\ editor = "none"
        /\ main = <<>> /\ advanced = <<>> /\ secret = <<>> /\ login = <<>>
        /\ useCertificate = FALSE /\ held = <<>>
        /\ dialog = FALSE /\ snapshot = <<>> /\ kept = <<>> /\ accepted = FALSE
        /\ query = FALSE
        /\ intended = <<>> /\ before = <<>>
        /\ saved = FALSE /\ steps = 0
        /\ activation = <<>>

Opens(which) ==
  /\ editor = "none" /\ steps < MaxSteps /\ steps' = steps + 1
  /\ editor' = which
  /\ opened' = profile
  /\ dialog' = FALSE /\ accepted' = FALSE /\ query' = FALSE /\ saved' = FALSE
  /\ snapshot' = <<>> /\ before' = <<>> /\ activation' = <<>>
  /\ UNCHANGED profile

(* snx_editor_new(): the form shows what the service reads, as far as it can *)
(* be read; the user name is the connection's own.  The secrets are there    *)
(* when the caller fetched them, in the fields and in the connection that    *)
(* update_connection() is called with.                                       *)
OpenGnome(fetched) ==
  LET config == FromConnection(profile).config IN
  /\ Opens("gnome")
  /\ main' = [k \in MainKeys |-> IF k = "user-name" THEN profile.user ELSE config[k]]
  /\ advanced' = [k \in AdvancedKeys |-> CASE k \in ListKeys -> Join(config[k])
                                           [] k \in DOMAIN SpinRange -> Clamp(k, config[k])
                                           [] OTHER -> config[k]]
  /\ login' = SetLoginTypeOptions(OneOrNone(config["login-type"]), config["login-type"])
  /\ useCertificate' = UsesCertificate(config)
  /\ secret' = [s \in SecretKeys |-> [text |-> IF fetched THEN Item(profile.secrets, s) ELSE <<>>,
                                      menu |-> FlagsIn(profile.data, s, AgentOwned)]]
  /\ kept' = <<>> /\ held' = IF fetched THEN profile.secrets ELSE <<>>
  /\ intended' = LET e == Effective(profile) IN
                 [k \in DOMAIN e |-> IF k \in DOMAIN SpinRange THEN Clamp(k, e[k]) ELSE e[k]]

(* SnxSettingWidget::loadConfig(), loadSecrets().                            *)
OpenPlasma(fetched) ==
  LET text(k) == Item(profile.data, k) IN
  /\ Opens("plasma")
  /\ kept' = profile.data /\ held' = <<>>
  /\ main' = [k \in MainKeys |-> CASE k = "user-name" -> profile.user
                                   [] k \in DOMAIN Options -> Choose(k, text(k))
                                   [] OTHER -> text(k)]
  /\ advanced' = <<>>
  /\ login' = SetLoginTypeOptions(OneOrNone(text("login-type")), text("login-type"))
  /\ useCertificate' = UsesCertificate([k \in CertKeys |-> text(k)])
  /\ secret' = [s \in SecretKeys |-> [text |-> IF fetched THEN Item(profile.secrets, s) ELSE <<>>,
                                      menu |-> FlagsIn(profile.data, s, None)]]
  /\ intended' = Effective(profile)

-------------------------------------------------------------------------------
(* The user at the main widgets.  Every change of a widget is announced; the *)
(* dialog is modal.                                                          *)

Changes == editor /= "none" /\ steps < MaxSteps /\ steps' = steps + 1
Acts    == editor /= "none" /\ UNCHANGED steps
Rest == <<profile, opened, editor, held, activation>>

EditMain(e) ==
  /\ Changes /\ ~dialog /\ e.key \in MainKeys /\ main[e.key] /= e.value
  /\ main' = [main EXCEPT ![e.key] = e.value]
  /\ intended' = [intended EXCEPT ![e.key] = e.value]
  /\ saved' = FALSE
  /\ UNCHANGED <<Rest, advanced, useCertificate, login, secret, dialog, snapshot, kept, accepted,
                 query, before>>

ToggleCertificate ==
  /\ Changes /\ ~dialog
  /\ useCertificate' = ~useCertificate
  /\ saved' = FALSE
  /\ UNCHANGED <<Rest, main, advanced, login, secret, dialog, snapshot, kept, accepted, query,
                 intended, before>>

(* A password typed or cleared, a choice in its storage menu.                *)
EditSecret(s, text, menu) ==
  /\ Changes /\ ~dialog
  /\ (secret[s].text = text) /= (secret[s].menu = menu)
  /\ secret' = [secret EXCEPT ![s] = [text |-> text, menu |-> menu]]
  /\ saved' = FALSE
  /\ UNCHANGED <<Rest, main, advanced, useCertificate, login, dialog, snapshot, kept, accepted,
                 query, intended, before>>

SelectLogin(i) ==
  /\ Changes /\ ~dialog /\ i \in DOMAIN login.ids \ {login.at}
  /\ login' = [login EXCEPT !.at = i]
  /\ intended' = [intended EXCEPT !["login-type"] = login.ids[i]]
  /\ saved' = FALSE
  /\ UNCHANGED <<Rest, main, advanced, useCertificate, secret, dialog, snapshot, kept, accepted,
                 query, before>>

(* The button is insensitive until the answer is there.  An error and an     *)
(* answer without login types only bring up a message.                       *)
QueryClicked ==
  /\ Changes /\ ~dialog /\ ~query /\ main["server-name"] /= <<>>
  /\ query' = TRUE
  /\ UNCHANGED <<Rest, form, dialog, snapshot, kept, accepted, intended, before, saved>>

QueryFails ==
  /\ editor /= "none" /\ query
  /\ query' = FALSE
  /\ UNCHANGED <<Rest, form, dialog, snapshot, kept, accepted, intended, before, saved, steps>>

QueryDone(offer) ==
  /\ editor /= "none" /\ query
  /\ query' = FALSE
  /\ login' = SetLoginTypeOptions(offer, LoginType)
  /\ intended' = [intended EXCEPT !["login-type"] = IF @ \in ToSet(offer) THEN @ ELSE offer[1]]
  /\ saved' = FALSE
  /\ UNCHANGED <<Rest, main, advanced, useCertificate, secret, dialog, snapshot, kept, accepted,
                 before, steps>>

-------------------------------------------------------------------------------
(* The advanced dialog.                                                      *)

SnapshotTake    == snapshot' = advanced /\ UNCHANGED advanced
SnapshotRestore == advanced' = snapshot

(* The Plasma dialog is loaded anew each time, from the copy of the items,   *)
(* and knows "true" only.                                                    *)
PlasmaShown == [k \in AdvancedKeys |->
                  LET text == Item(kept, k) IN
                  CASE k \in BoolKeys -> text = <<"true">>
                    [] k \in DOMAIN SpinRange -> Clamp(k, NumberIn(text))
                    [] OTHER -> text]
AdvancedItems == [k \in AdvancedKeys |-> Written(k, advanced[k])]

OpenAdvanced ==
  /\ Acts /\ ~dialog
  /\ dialog' = TRUE
  /\ before' = intended
  /\ \/ editor = "gnome" /\ SnapshotTake
     \/ editor = "plasma" /\ advanced' = PlasmaShown /\ UNCHANGED snapshot
  /\ UNCHANGED <<Rest, main, useCertificate, login, secret, kept, accepted, query, intended, saved>>

EditAdvanced(e) ==
  /\ Changes /\ dialog /\ e.key \in AdvancedKeys /\ advanced[e.key] /= e.value
  /\ advanced' = [advanced EXCEPT ![e.key] = e.value]
  /\ intended' = [intended EXCEPT ![e.key] = Meaning(e.key, e.value)]
  /\ saved' = FALSE
  /\ UNCHANGED <<Rest, main, useCertificate, login, secret, dialog, snapshot, kept, accepted,
                 query, before>>

(* Apply, or closing the window, which hides it.                             *)
AcceptGnome ==
  /\ Acts /\ editor = "gnome" /\ dialog
  /\ dialog' = FALSE
  /\ snapshot' = <<>> /\ accepted' = TRUE
  /\ saved' = FALSE /\ before' = <<>>
  /\ UNCHANGED <<Rest, form, kept, query, intended>>

(* OK, on which onAdvancedClicked() has the items inserted.                  *)
AcceptPlasma ==
  /\ Acts /\ editor = "plasma" /\ dialog
  /\ dialog' = FALSE
  /\ kept' = Over(AdvancedItems, kept)
  /\ accepted' = TRUE
  /\ saved' = FALSE /\ before' = <<>>
  /\ UNCHANGED <<Rest, form, snapshot, query, intended>>

\* Mutant: closing the dialog is all there is to cancelling.
CancelOnlyCloses ==
  /\ Acts /\ dialog
  /\ dialog' = FALSE
  /\ snapshot' = <<>>
  /\ intended' = [before EXCEPT !["login-type"] = intended["login-type"]]
  /\ saved' = FALSE /\ before' = <<>>
  /\ UNCHANGED <<Rest, form, kept, accepted, query>>

CancelAdvanced ==
  /\ Acts /\ dialog
  /\ dialog' = FALSE
  /\ snapshot' = <<>>
  /\ IF editor = "gnome" THEN SnapshotRestore ELSE UNCHANGED advanced
  /\ intended' = [before EXCEPT !["login-type"] = intended["login-type"]]
  /\ saved' = FALSE /\ before' = <<>>
  /\ UNCHANGED <<Rest, main, useCertificate, login, secret, kept, accepted, query>>

-------------------------------------------------------------------------------
(* Saving.                                                                   *)

SecretsToKeep == IF useCertificate THEN SecretKeys ELSE {"password"}
SavedFlags == [s \in SecretKeys |-> IF s \in SecretsToKeep THEN secret[s].menu ELSE NotRequired]
FlagItems == [key \in {FlagsKey[s] : s \in SecretKeys} |->
                Numeral(SavedFlags[CHOOSE s \in SecretKeys : FlagsKey[s] = key])]
Typed == {s \in SecretsToKeep : secret[s].text /= <<>>}

MainItems == Over([k \in MainKeys \ {"user-name"} |-> Written(k, main[k])],
                  Over([k \in {"login-type"} |-> LoginType], FlagItems))

WithoutCertificate(k, v) == IF k \in CertKeys /\ ~useCertificate THEN <<>> ELSE v
GnomeItems == LET items == Over(MainItems, AdvancedItems)
              IN  [k \in DOMAIN items |-> WithoutCertificate(k, items[k])]

(* The items, with those of the profile that have no widget.                 *)
Merged(items, others, removed) ==
  Restrict(Over(items, others), (DOMAIN items \cup DOMAIN others) \ removed)

Unstored == {NotSaved, NotRequired}

\* Mutant: an empty password field takes the secret away.
GivenTypedOnly == [s \in Typed |-> secret[s].text]

(* The secrets NetworkManager is given: those typed and, by the GNOME        *)
(* editor, those its connection had, unless none is to be stored             *)
(* (set_password_secret(), clear_password_secret()).                         *)
Given ==
  LET left == {s \in DOMAIN held : SavedFlags[s] \notin Unstored}
  IN  [s \in Typed \cup left |-> IF s \in Typed THEN secret[s].text ELSE held[s]]

(* What NetworkManager then has: given none, it keeps those it had.          *)
Stored(given) ==
  IF DOMAIN given /= {} THEN given
  ELSE Restrict(profile.secrets, {s \in DOMAIN profile.secrets : SavedFlags[s] \notin Unstored})

\* Mutant: the profile becomes what the widgets hold.
GnomeUpdateFromNothing ==
  [user |-> main["user-name"],
   data |-> Restrict(GnomeItems, {k \in DOMAIN GnomeItems : GnomeItems[k] /= <<>>}),
   secrets |-> Stored(Given)]

(* update_connection(): an empty widget removes its item.                    *)
GnomeUpdate ==
  LET removed == {k \in DOMAIN GnomeItems : GnomeItems[k] = <<>>}
  IN  [user |-> main["user-name"],
       data |-> Merged(GnomeItems, profile.data, removed),
       secrets |-> Stored(Given)]

(* setting(): the items it was given, with those of the widgets.             *)
PlasmaSetting ==
  LET removed == {k \in {"server-name", "login-type"} : MainItems[k] = <<>>}
                   \cup IF useCertificate THEN {} ELSE CertKeys
  IN  [user |-> main["user-name"],
       data |-> Merged(MainItems, kept, removed),
       secrets |-> Stored(Given)]

(* Neither editor saves without a gateway.                                   *)
Save ==
  /\ editor /= "none" /\ ~saved /\ main["server-name"] /= <<>>
  /\ editor = "plasma" => ~dialog
  /\ profile' = IF editor = "gnome" THEN GnomeUpdate ELSE PlasmaSetting
  /\ held' = IF editor = "gnome" THEN Given ELSE held
  /\ saved' = TRUE
  /\ UNCHANGED <<opened, editor, form, dialog, snapshot, kept, accepted, query, intended, before,
                 steps, activation>>

Close ==
  /\ editor /= "none"
  /\ editor' = "none"
  /\ main' = <<>> /\ advanced' = <<>> /\ secret' = <<>> /\ login' = <<>>
  /\ useCertificate' = FALSE /\ held' = <<>>
  /\ dialog' = FALSE /\ snapshot' = <<>> /\ kept' = <<>> /\ accepted' = FALSE
  /\ query' = FALSE /\ intended' = <<>> /\ before' = <<>> /\ saved' = FALSE
  /\ opened' = profile
  /\ UNCHANGED <<profile, activation, steps>>

-------------------------------------------------------------------------------
(* The auth dialog of the GNOME build (nm-snx-auth-dialog.c): given the data *)
(* and the secrets, whether to ask again, and how the user is reached.       *)

AuthReading == ApplyItems(ApplyItems([ok |-> TRUE, config |-> Defaults], profile.data, FALSE),
                          profile.secrets, TRUE)

\* Mutants: a secret is asked for only when it is not kept; a stored one is
\* asked for as well.
ShouldAskIfNotSaved(s, reprompt) ==
  /\ FlagsIn(profile.data, s, None) = NotSaved
  /\ s = "cert-password" => Item(profile.data, "cert-path") /= <<>>
ShouldAskAlways(s, reprompt) ==
  /\ FlagsIn(profile.data, s, None) /= NotRequired
  /\ s = "cert-password" => Item(profile.data, "cert-path") /= <<>>

ShouldAsk(s, reprompt) ==
  LET flags == FlagsIn(profile.data, s, None) IN
  /\ ~HasFlag(flags, NotRequired)
  /\ s = "cert-password" => \E k \in {"cert-path", "cert-id"} : Item(profile.data, k) /= <<>>
  /\ reprompt \/ ~AuthReading.config[s] \/ HasFlag(flags, NotSaved)

(* Left to the desktop's own dialog, only what is to be asked is; the        *)
(* dialog of this program always has a field for the password.               *)
Fields(asks, external) ==
  IF asks = {} \/ external THEN asks ELSE asks \cup {"password"}

NeedSecrets(p) ==
  LET reading == FromConnection(p) IN reading.ok /\ NeedsPassword(reading.config)

Activate(reprompt, reach, typed) ==
  LET asks == {s \in SecretKeys : ShouldAsk(s, reprompt)}
      fields == Fields(asks, reach = "external")
      value(s) == IF s \in fields THEN typed ELSE Item(profile.secrets, s)
      given == [s \in {t \in SecretKeys : t \in asks \/ value(t) /= <<>>} |-> value(s)]
      failed == ~AuthReading.ok \/ (asks /= {} /\ reach = "nobody")
  IN  /\ editor = "none" /\ activation = <<>>
      /\ activation' =
           IF failed THEN [outcome |-> "failed", reprompt |-> reprompt]
           ELSE [outcome |-> "secrets", reprompt |-> reprompt, fields |-> fields, typed |-> typed,
                 secrets |-> given, needs |-> NeedSecrets([profile EXCEPT !.secrets = given])]
      /\ UNCHANGED <<profile, opened, editor, form, held, dialog, snapshot, kept, accepted, query,
                     intended, before, saved, steps>>

Next == \/ \E fetched \in BOOLEAN : OpenGnome(fetched) \/ OpenPlasma(fetched)
        \/ \E e \in Edits : EditMain(e) \/ EditAdvanced(e)
        \/ ToggleCertificate
        \/ \E s \in SecretKeys, text \in SecretTexts, menu \in Menus :
             EditSecret(s, text, menu)
        \/ \E i \in 1 .. 3 : SelectLogin(i)
        \/ QueryClicked
        \/ QueryFails
        \/ \E offer \in Offers : QueryDone(offer)
        \/ OpenAdvanced \/ AcceptGnome \/ AcceptPlasma \/ CancelAdvanced
        \/ Save \/ Close
        \/ \E reprompt \in BOOLEAN, reach \in {"nobody", "dialog", "external"}, typed \in SecretTexts :
             Activate(reprompt, reach, typed)

Spec == Init /\ [][Next]_vars

-------------------------------------------------------------------------------
(* The items the Plasma dialog shows as they are: it knows no defaults and   *)
(* one spelling of a value.                                                  *)
ShownTrue(data) ==
  \A k \in AdvancedKeys \ (ListKeys \cup {"if-name"}) :
    /\ k \in DOMAIN data
    /\ k \in BoolKeys => data[k] \in {<<"true">>, <<"false">>}
    /\ k \in DOMAIN SpinRange => Clamp(k, NumberIn(data[k])) = NumberIn(data[k])

(* A user name among the items overrides the connection's own, which the     *)
(* editors show.                                                             *)
Hidden(p) == IF DOMAIN p.data \cap {"user-name", "username"} = {} THEN {} ELSE {"user-name"}

Means == LET e == Effective(profile) IN
         \A k \in DOMAIN e \ Hidden(opened) :
           e[k] = IF k \in CertKeys THEN WithoutCertificate(k, intended[k]) ELSE intended[k]

(* The service accepts the profile for a connection.                         *)
Connects == LET reading == FromConnection(profile) IN reading.ok /\ ValidateForConnect(reading.config)

(* What the service reads from a profile after it was saved is what it read  *)
(* before, but for what the user changed and did not cancel: in both         *)
(* editors, however often the advanced dialog was opened, cancelled, closed  *)
(* or applied, and whatever a query brought (nm-snx-editor.c:706-803,        *)
(* 984-1071, snxwidget.cpp:204-216, 322-372).  In Plasma, if the advanced    *)
(* dialog was accepted, when the profile had every item of it spelled out.   *)
(* And the service will connect with it as soon as a login type was chosen   *)
(* (nm-snx-editor.c:999-1001).                                               *)
SavedMeansWhatWasShown ==
  (/\ saved /\ FromConnection(opened).ok
   /\ editor = "plasma" /\ accepted => ShownTrue(opened.data)) =>
  /\ Means
  /\ Connects <=> intended["login-type"] /= <<>>

(* The same without that condition: "the two editors are interchangeable     *)
(* views over the same connection" (src/plasma/README.md:3).                 *)
EditorsAreInterchangeable == saved /\ FromConnection(opened).ok => Means

(* An item no widget stands for, set by nmcli or under another name of a     *)
(* key, survives any saving (src/plasma/README.md:38, nm-snx-editor.c:984).  *)
UnmanagedItemsSurvive ==
  [][\A k \in (DOMAIN profile.data \cup DOMAIN profile'.data) \ Managed :
       /\ k \in DOMAIN profile.data /\ k \in DOMAIN profile'.data
       /\ profile'.data[k] = profile.data[k]]_profile

(* Saving in the GNOME editor takes a stored secret away only if the saved   *)
(* choice is not to store it: an empty field "does not mean the user wants   *)
(* to clear it" (nm-snx-editor.c:194-215).  That is so of a secret that was  *)
(* fetched for the editor, and of every one when nothing is typed.  It is    *)
(* not when the secrets were not fetched and one is typed: NetworkManager is *)
(* given that one and forgets the other, although the comment has it left    *)
(* untouched whether or not the field ever showed it.                        *)
SecretsGoOnRequest ==
  [][editor = "gnome" =>
       \A s \in DOMAIN profile.secrets \ DOMAIN profile'.secrets :
         s \in DOMAIN held \/ Typed = {} => FlagsIn(profile'.data, s, None) \in Unstored]_profile

(* A profile that parses, with a user name, gets through once the user was   *)
(* asked, unless its flags say that no password is wanted: what the auth     *)
(* dialog decides from the flags agrees with what the service decides        *)
(* without them (nm-snx-auth-dialog.c:40-51, nm-snx-service.c:1060-1089).    *)
PromptSettlesTheNeed ==
  (/\ activation /= <<>> /\ editor = "none"
   /\ activation.outcome = "secrets" /\ activation.typed /= <<>>
   /\ FromConnection(profile).config["user-name"] /= <<>>
   /\ ~HasFlag(FlagsIn(profile.data, "password", None), NotRequired)) => ~activation.needs

(* A stored password is used without asking, by a user who can be reached or *)
(* not, unless it is to be asked for (test-auth-dialog.c:101-120).           *)
StoredPasswordGoesThrough ==
  (/\ activation /= <<>> /\ editor = "none" /\ ~activation.reprompt
   /\ AuthReading.ok
   /\ "password" \in DOMAIN profile.secrets /\ profile.secrets["password"] /= <<>>
   /\ FlagsIn(profile.data, "password", None) \in {None, AgentOwned}
   /\ ~ShouldAsk("cert-password", FALSE)) =>
  /\ activation.outcome = "secrets"
  /\ activation.fields = {}
  /\ activation.secrets["password"] = profile.secrets["password"]
===============================================================================
