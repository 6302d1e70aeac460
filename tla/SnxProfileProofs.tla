-------------------------- MODULE SnxProfileProofs --------------------------
(* Neither editor loses what it does not show, what is saved is read as    *)
(* what was shown, and the auth dialog and the service agree on when a     *)
(* password is wanted, for every profile, edit and menu.                   *)
(*                                                                         *)
(* Four things carry the proofs.  The readers of a profile all go through  *)
(* ApplyItems(), with different beginnings: the first part shows that what *)
(* they find out about secrets does not depend on the beginning.           *)
(* ProfileInv says that Plasma's copy of the items agrees with the profile *)
(* where no widget stands for an item, that no empty secret is stored,     *)
(* that the GNOME editor's connection has the stored secrets or none, and  *)
(* that an activation is forgotten as soon as an editor opens, so that     *)
(* none outlives the profile it was about.  A list that is split, joined   *)
(* and split again has the same parts, by induction over its words.  And   *)
(* EditInv relates the widgets, the copy and the snapshot of the advanced  *)
(* dialog to the configuration that is meant, key by key; FormInv, that    *)
(* the widgets hold what can be entered, is what makes them readable.      *)
EXTENDS SnxProfile, InductionLemmas, SequenceTheorems

-----------------------------------------------------------------------------
(* The operators.                                                          *)

Keys == {KeyOrder[i] : i \in DOMAIN KeyOrder}

\* The configuration of a reading in which every item parses.
Taken(reading, items, isSecret) ==
  [k \in DOMAIN reading.config |->
     CASE LastName(k) \in Keys \cap DOMAIN items -> ValueOf(k, items[LastName(k)], isSecret)
       [] LastName(k) \notin Keys \cap DOMAIN items /\ FirstName(k) \in Keys \cap DOMAIN items ->
            ValueOf(k, items[FirstName(k)], isSecret)
       [] OTHER -> reading.config[k]]

\* A reading that goes well has every item.
LEMMA ReadingTakesAll ==
  ASSUME NEW reading, NEW items, NEW isSecret, reading.ok,
         ApplyItems(reading, items, isSecret).ok
  PROVE  ApplyItems(reading, items, isSecret).config = Taken(reading, items, isSecret)
<1> DEFINE bad == {i \in DOMAIN KeyOrder :
                KeyOrder[i] \in DOMAIN items /\ ~Parses(KeyOrder[i], items[KeyOrder[i]])}
           read == {KeyOrder[i] : i \in {j \in DOMAIN KeyOrder : \A b \in bad : j < b}} \cap DOMAIN items
<1>1. bad = {} BY DEF ApplyItems
<1>2. read = Keys \cap DOMAIN items BY <1>1 DEF Keys
<1>3. QED BY <1>2 DEF ApplyItems, Taken

\* A reading that has failed stays so.
LEMMA FailureStays ==
  ASSUME NEW reading, NEW items, NEW isSecret, ~reading.ok
  PROVE  ApplyItems(reading, items, isSecret) = reading
BY DEF ApplyItems

\* Whether a reading goes well depends on the items, not on what was read before.
LEMMA OkDependsOnItems ==
  ASSUME NEW r, NEW q, NEW items, NEW isSecret, r.ok, q.ok
  PROVE  ApplyItems(r, items, isSecret).ok <=> ApplyItems(q, items, isSecret).ok
BY DEF ApplyItems

\* The secrets are among the items that are walked.
LEMMA SecretsAreKeys == SecretKeys \subseteq Keys
<1>1. 25 \in DOMAIN KeyOrder /\ KeyOrder[25] = "password" BY DEF KeyOrder
<1>2. 5 \in DOMAIN KeyOrder /\ KeyOrder[5] = "cert-password" BY DEF KeyOrder
<1> QED BY <1>1, <1>2 DEF Keys, SecretKeys

\* Secrets always parse.
LEMMA SecretsParse ==
  ASSUME NEW reading, NEW items, reading.ok, DOMAIN items \subseteq SecretKeys
  PROVE  ApplyItems(reading, items, TRUE).ok
<1>1. \A k \in SecretKeys : \A v : Parses(k, v)
  BY DEF SecretKeys, Parses, BoolKeys, UintKeys, Options
<1> QED BY <1>1 DEF ApplyItems

\* A reading of the secrets of a profile says which secrets there are, and
\* changes nothing else.
FindsSecrets(old, new, items) ==
  /\ \A s \in SecretKeys : new[s] <=> s \in DOMAIN items \/ old[s]
  /\ new["user-name"] = old["user-name"]

\* Reading the secrets is such.
LEMMA SecretsReading ==
  ASSUME NEW reading, NEW items, reading.ok, DOMAIN items \subseteq SecretKeys,
         SecretKeys \cup {"user-name"} \subseteq DOMAIN reading.config
  PROVE  FindsSecrets(reading.config, ApplyItems(reading, items, TRUE).config, items)
<1> DEFINE read == ApplyItems(reading, items, TRUE).config
<1>1. read = Taken(reading, items, TRUE)
  BY SecretsParse, ReadingTakesAll
<1> HIDE DEF read
<1>2. \A s \in SecretKeys : FirstName(s) = s /\ LastName(s) = s
  BY DEF SecretKeys, FirstName, LastName
<1>3. \A s \in SecretKeys : \A v : ValueOf(s, v, TRUE) = TRUE
  <2>1. \A s \in SecretKeys :
          /\ s \notin ListKeys \cup BoolKeys \cup NumberKeys \cup DOMAIN Options
          /\ s # "password-factor"
    BY DEF SecretKeys, ListKeys, BoolKeys, NumberKeys, UintKeys, Options
  <2> QED BY <2>1 DEF ValueOf
<1>4. \A s \in SecretKeys : read[s] <=> s \in DOMAIN items \/ reading.config[s]
  <2> TAKE s \in SecretKeys
  <2>0. s \in DOMAIN reading.config /\ s \in Keys BY SecretsAreKeys
  <2>1. FirstName(s) = s /\ LastName(s) = s BY <1>2
  <2>2. CASE s \in DOMAIN items
    <3>1. Taken(reading, items, TRUE)[s] = ValueOf(s, items[s], TRUE)
      BY <2>0, <2>1, <2>2 DEF Taken
    <3> QED BY <1>1, <1>3, <2>2, <3>1
  <2>3. CASE s \notin DOMAIN items
    <3>1. Taken(reading, items, TRUE)[s] = reading.config[s]
      BY <2>0, <2>1, <2>3 DEF Taken
    <3> QED BY <1>1, <2>3, <3>1
  <2> QED BY <2>2, <2>3
<1>5. FirstName("user-name") \notin DOMAIN items /\ LastName("user-name") \notin DOMAIN items
  BY DEF SecretKeys, FirstName, LastName
<1>6. read["user-name"] = reading.config["user-name"] BY <1>1, <1>5 DEF Taken
<1> QED BY <1>4, <1>6 DEF FindsSecrets, read

\* Two readings that went well and found the same secrets.
SameSecrets(r, q) ==
  /\ r.ok /\ q.ok
  /\ SecretKeys \subseteq DOMAIN r.config
  /\ SecretKeys \subseteq DOMAIN q.config
  /\ \A s \in SecretKeys : r.config[s] = q.config[s]

\* What a profile's data says of its secrets does not depend on what was read before.
LEMMA DataReading ==
  ASSUME NEW r, NEW q, NEW items, NEW isSecret, SameSecrets(r, q),
         NEW r2, r2 = ApplyItems(r, items, isSecret), r2.ok,
         NEW q2, q2 = ApplyItems(q, items, isSecret)
  PROVE  SameSecrets(r2, q2)
<1>0. r.ok /\ q.ok BY DEF SameSecrets
<1>1. q2.ok BY <1>0, OkDependsOnItems
<1>2. \A s \in SecretKeys : FirstName(s) = s /\ LastName(s) = s
  BY DEF SecretKeys, FirstName, LastName
<1>r. r2.config = Taken(r, items, isSecret) BY <1>0, ReadingTakesAll
<1>q. q2.config = Taken(q, items, isSecret) BY <1>0, <1>1, ReadingTakesAll
<1>3. ASSUME NEW s \in SecretKeys
      PROVE  s \in DOMAIN r2.config /\ s \in DOMAIN q2.config /\ r2.config[s] = q2.config[s]
  <2>1. /\ s \in DOMAIN r2.config
        /\ r2.config[s] = IF s \in Keys \cap DOMAIN items THEN ValueOf(s, items[s], isSecret) ELSE r.config[s]
    BY <1>2, <1>r DEF Taken, SameSecrets
  <2>2. /\ s \in DOMAIN q2.config
        /\ q2.config[s] = IF s \in Keys \cap DOMAIN items THEN ValueOf(s, items[s], isSecret) ELSE q.config[s]
    BY <1>2, <1>q DEF Taken, SameSecrets
  <2>3. r.config[s] = q.config[s] BY DEF SameSecrets
  <2> QED BY <2>1, <2>2, <2>3
<1> QED BY <1>1, <1>3 DEF SameSecrets

\* The configuration before any item, in the service and in the auth dialog.
Beginning(p) == [ok |-> TRUE,
                 config |-> [Defaults EXCEPT !["if-name"] = DefaultIfName, !["user-name"] = p.user]]
Unread == [ok |-> TRUE, config |-> Defaults]

\* Neither knows a secret.
LEMMA BeginningsAgree ==
  ASSUME NEW p
  PROVE  /\ Beginning(p).ok /\ Unread.ok
         /\ SecretKeys \cup {"user-name"} \subseteq DOMAIN Beginning(p).config
         /\ SecretKeys \cup {"user-name"} \subseteq DOMAIN Unread.config
         /\ \A s \in SecretKeys : Beginning(p).config[s] = Unread.config[s]
<1>1. DOMAIN Defaults = ConfigKeys BY DEF Defaults
<1>2. SecretKeys \cup {"user-name"} \subseteq ConfigKeys BY DEF ConfigKeys, SecretKeys, TextKeys
<1>3. DOMAIN Beginning(p).config = ConfigKeys BY <1>1 DEF Beginning
<1>4. \A s \in SecretKeys : s # "if-name" /\ s # "user-name" BY DEF SecretKeys
<1>5. \A s \in SecretKeys : Beginning(p).config[s] = Defaults[s]
  BY <1>1, <1>2, <1>4 DEF Beginning
<1> QED BY <1>1, <1>2, <1>3, <1>5 DEF Beginning, Unread

\* A numeral is read back as the number it was written for.
LEMMA NumeralsReadBack ==
  ASSUME NEW n \in Numbers
  PROVE  NumberIn(Numeral(n)) = n
<1>1. IsNumeral(Numeral(n)) BY DEF IsNumeral
<1>2. NumberIn(Numeral(n)) = CHOOSE m \in Numbers : Numeral(n) = Numeral(m) BY <1>1 DEF NumberIn
<1>3. (CHOOSE m \in Numbers : Numeral(n) = Numeral(m)) \in Numbers
  /\ Numeral(n) = Numeral(CHOOSE m \in Numbers : Numeral(n) = Numeral(m)) OBVIOUS
<1> QED BY <1>2, <1>3, ProfileConstants

\* Of two readings, with the data of a profile and then with its secrets, the
\* second finds the secrets there are, and changes nothing else.
SecretsRead(first, both, secrets) ==
  /\ both.ok <=> first.ok
  /\ both.ok => FindsSecrets(first.config, both.config, secrets)

\* Readings with data and then secrets are such.
LEMMA TwoReadings ==
  ASSUME NEW start, NEW data, NEW secrets, start.ok, DOMAIN secrets \subseteq SecretKeys,
         SecretKeys \cup {"user-name"} \subseteq DOMAIN start.config,
         NEW first, first = ApplyItems(start, data, FALSE),
         NEW both, both = ApplyItems(first, secrets, TRUE)
  PROVE  SecretsRead(first, both, secrets)
<1>1. CASE ~first.ok
  <2>1. both = first BY <1>1, FailureStays
  <2> QED BY <1>1, <2>1 DEF SecretsRead
<1>2. CASE first.ok
  <2>1. first.config = Taken(start, data, FALSE) BY <1>2, ReadingTakesAll
  <2>2. DOMAIN first.config = DOMAIN start.config BY <2>1 DEF Taken
  <2>3. both.ok BY <1>2, SecretsParse
  <2>5. SecretKeys \cup {"user-name"} \subseteq DOMAIN first.config BY <2>2
  <2>4. FindsSecrets(first.config, both.config, secrets)
    BY <1>2, <2>5, SecretsReading
  <2> QED BY <1>2, <2>3, <2>4 DEF SecretsRead
<1> QED BY <1>1, <1>2

\* The service finds a secret in a profile exactly if the auth dialog does, and
\* both find it if it is stored.
LEMMA ReadersAgree ==
  ASSUME DOMAIN profile.secrets \subseteq SecretKeys
  PROVE  /\ AuthReading.ok <=> FromConnection(profile).ok
         /\ AuthReading.ok => \A s \in SecretKeys :
              /\ AuthReading.config[s] <=> FromConnection(profile).config[s]
              /\ s \in DOMAIN profile.secrets => AuthReading.config[s]
<1> DEFINE start == Beginning(profile)
           first == ApplyItems(start, profile.data, FALSE)
           seen  == ApplyItems(Unread, profile.data, FALSE)
           whole == FromConnection(profile)
<1>0. first = ApplyItems(start, profile.data, FALSE) /\ seen = ApplyItems(Unread, profile.data, FALSE)
  OBVIOUS
<1>1. whole = ApplyItems(first, profile.secrets, TRUE)
  BY DEF FromConnection, Beginning
<1>2. AuthReading = ApplyItems(seen, profile.secrets, TRUE) BY DEF AuthReading, Unread
<1>3. /\ start.ok /\ Unread.ok
      /\ SecretKeys \cup {"user-name"} \subseteq DOMAIN start.config
      /\ SecretKeys \cup {"user-name"} \subseteq DOMAIN Unread.config
      /\ \A s \in SecretKeys : start.config[s] = Unread.config[s]
  BY BeginningsAgree
<1> HIDE DEF start, first, seen, whole
<1>4. SecretsRead(first, whole, profile.secrets) BY <1>0, <1>1, <1>3, TwoReadings
<1>5. SecretsRead(seen, AuthReading, profile.secrets) BY <1>0, <1>2, <1>3, TwoReadings
<1>6. first.ok <=> seen.ok BY <1>0, <1>3, OkDependsOnItems
<1>7. ASSUME AuthReading.ok, NEW s \in SecretKeys
      PROVE  /\ AuthReading.config[s] <=> whole.config[s]
             /\ s \in DOMAIN profile.secrets => AuthReading.config[s]
  <2>1. seen.ok /\ first.ok /\ whole.ok BY <1>4, <1>5, <1>6, <1>7 DEF SecretsRead
  <2>2. SameSecrets(first, seen)
    <3>1. SameSecrets(start, Unread) BY <1>3 DEF SameSecrets
    <3> QED BY <1>0, <2>1, <3>1, DataReading
  <2>5. first.config[s] = seen.config[s] BY <2>2 DEF SameSecrets
  <2>3. AuthReading.config[s] <=> s \in DOMAIN profile.secrets \/ seen.config[s]
    BY <1>5, <1>7 DEF SecretsRead, FindsSecrets
  <2>4. whole.config[s] <=> s \in DOMAIN profile.secrets \/ first.config[s]
    BY <1>4, <2>1 DEF SecretsRead, FindsSecrets
  <2> QED BY <2>3, <2>4, <2>5
<1>8. AuthReading.ok <=> whole.ok BY <1>4, <1>5, <1>6 DEF SecretsRead
<1> QED BY <1>7, <1>8 DEF whole

\* The service needs no secrets of a profile that parses and has a user name,
\* once it is given the password, or has it in the data.
LEMMA GivenSecretsSuffice ==
  ASSUME NEW p, NEW given, DOMAIN p.secrets \subseteq SecretKeys, DOMAIN given \subseteq SecretKeys,
         p = [user |-> p.user, data |-> p.data, secrets |-> p.secrets],
         NeedSecrets([p EXCEPT !.secrets = given])
  PROVE  /\ FromConnection(p).ok
         /\ \/ FromConnection(p).config["user-name"] = <<>>
            \/ /\ "password" \notin DOMAIN given
               /\ "password" \notin DOMAIN p.secrets => ~FromConnection(p).config["password"]
<1> DEFINE start == Beginning(p)
           first == ApplyItems(start, p.data, FALSE)
           q     == [p EXCEPT !.secrets = given]
           was   == FromConnection(p)
           is    == FromConnection(q)
<1>1. q.user = p.user /\ q.data = p.data /\ q.secrets = given OBVIOUS
<1>2. is = ApplyItems(first, given, TRUE)
  BY <1>1 DEF FromConnection, Beginning
<1>3. was = ApplyItems(first, p.secrets, TRUE)
  BY DEF FromConnection, Beginning
<1>4. is.ok /\ NeedsPassword(is.config) BY DEF NeedSecrets
<1>5. start.ok /\ SecretKeys \cup {"user-name"} \subseteq DOMAIN start.config BY BeginningsAgree
<1>6. first = ApplyItems(start, p.data, FALSE) OBVIOUS
<1> HIDE DEF start, first, q, was, is
<1>7. SecretsRead(first, is, given) BY <1>2, <1>5, <1>6, TwoReadings
<1>8. SecretsRead(first, was, p.secrets) BY <1>3, <1>5, <1>6, TwoReadings
<1>9. "password" \in SecretKeys BY DEF SecretKeys
<1>10. was.ok BY <1>4, <1>7, <1>8 DEF SecretsRead
<1>11. was.config["user-name"] = is.config["user-name"] BY <1>4, <1>7, <1>8, <1>10 DEF SecretsRead, FindsSecrets
<1>12. is.config["password"] <=> "password" \in DOMAIN given \/ first.config["password"]
  BY <1>4, <1>7, <1>9 DEF SecretsRead, FindsSecrets
<1>13. was.config["password"] <=> "password" \in DOMAIN p.secrets \/ first.config["password"]
  BY <1>8, <1>9, <1>10 DEF SecretsRead, FindsSecrets
<1>14. is.config["user-name"] = <<>> \/ ~is.config["password"] BY <1>4 DEF NeedsPassword
<1> QED BY <1>10, <1>11, <1>12, <1>13, <1>14 DEF was

-----------------------------------------------------------------------------
(* The steps.                                                              *)

\* Most steps touch neither the profile nor Plasma's copy of its items.
Aside == UNCHANGED <<profile, editor, held, kept, activation>>

Opening ==
  /\ editor' \in {"gnome", "plasma"}
  /\ editor' = "plasma" => kept' = profile.data
  /\ DOMAIN held' = {} \/ (editor' = "gnome" /\ held' = profile.secrets)
  /\ activation' = <<>>
  /\ UNCHANGED profile

\* Every step is one of six.
LEMMA Steps ==
  ASSUME [Next]_vars
  PROVE  \/ Aside \/ Opening \/ AcceptPlasma \/ Save \/ Close
         \/ \E reprompt \in BOOLEAN, reach \in {"nobody", "dialog", "external"}, typed \in SecretTexts :
              Activate(reprompt, reach, typed)
<1> USE DEF Aside, Rest
<1>1. CASE UNCHANGED vars BY <1>1 DEF vars
<1>0. DOMAIN <<>> = {} OBVIOUS
<1>2. ASSUME NEW fetched \in BOOLEAN, OpenGnome(fetched) PROVE Opening
  BY <1>0, <1>2 DEF OpenGnome, Opens, Opening
<1>3. ASSUME NEW fetched \in BOOLEAN, OpenPlasma(fetched) PROVE Opening
  BY <1>0, <1>3 DEF OpenPlasma, Opens, Opening
<1>4. ASSUME NEW e \in Edits, EditMain(e) PROVE Aside BY <1>4 DEF EditMain
<1>5. ASSUME NEW e \in Edits, EditAdvanced(e) PROVE Aside BY <1>5 DEF EditAdvanced
<1>6. CASE ToggleCertificate BY <1>6 DEF ToggleCertificate
<1>7. ASSUME NEW s \in SecretKeys, NEW text \in SecretTexts, NEW menu \in Menus, EditSecret(s, text, menu)
      PROVE  Aside
  BY <1>7 DEF EditSecret
<1>8. ASSUME NEW i \in 1 .. 3, SelectLogin(i) PROVE Aside BY <1>8 DEF SelectLogin
<1>9. CASE QueryClicked BY <1>9 DEF QueryClicked
<1>10. CASE QueryFails BY <1>10 DEF QueryFails
<1>11. ASSUME NEW offer \in Offers, QueryDone(offer) PROVE Aside BY <1>11 DEF QueryDone
<1>12. CASE OpenAdvanced BY <1>12 DEF OpenAdvanced
<1>13. CASE AcceptGnome BY <1>13 DEF AcceptGnome
<1>14. CASE CancelAdvanced BY <1>14 DEF CancelAdvanced
<1> QED
  BY <1>1, <1>2, <1>3, <1>4, <1>5, <1>6, <1>7, <1>8, <1>9, <1>10, <1>11, <1>12, <1>13, <1>14
  DEF Next

-----------------------------------------------------------------------------
(* The items of a profile.                                                 *)

\* The two agree on every item that no widget stands for.
SameUnmanaged(f, g) ==
  \A k \in (DOMAIN f \cup DOMAIN g) \ Managed :
    k \in DOMAIN f /\ k \in DOMAIN g /\ f[k] = g[k]

\* Agreement is transitive.
LEMMA SameIsTransitive ==
  ASSUME NEW f, NEW g, NEW h, SameUnmanaged(f, g), SameUnmanaged(g, h)
  PROVE  SameUnmanaged(f, h)
BY DEF SameUnmanaged

\* Overwriting managed items leaves the others alone.
LEMMA OverKeepsUnmanaged ==
  ASSUME NEW items, NEW others, DOMAIN items \subseteq Managed
  PROVE  SameUnmanaged(Over(items, others), others)
BY DEF SameUnmanaged, Over

\* So does removing managed items.
LEMMA MergedKeepsUnmanaged ==
  ASSUME NEW items, NEW others, NEW removed, DOMAIN items \subseteq Managed, removed \subseteq Managed
  PROVE  SameUnmanaged(Merged(items, others, removed), others)
BY DEF SameUnmanaged, Merged, Over, Restrict

\* The widgets stand for managed items only.
LEMMA WidgetsAreManaged ==
  /\ DOMAIN MainItems \subseteq Managed
  /\ DOMAIN AdvancedItems \subseteq Managed
  /\ DOMAIN GnomeItems \subseteq Managed
<1>1. DOMAIN FlagItems = {FlagsKey[s] : s \in SecretKeys} BY DEF FlagItems
<1>2. DOMAIN MainItems \subseteq Managed BY <1>1 DEF MainItems, Over, Managed
<1>3. DOMAIN AdvancedItems \subseteq Managed BY DEF AdvancedItems, Managed
<1>4. DOMAIN GnomeItems \subseteq Managed BY <1>2, <1>3 DEF GnomeItems, Over
<1> QED BY <1>2, <1>3, <1>4

\* The connection the GNOME editor was given has the stored secrets or none.
HeldInv == /\ DOMAIN held = {} \/ held = profile.secrets
           /\ editor /= "gnome" => DOMAIN held = {}

\* The inductive invariant.
ProfileInv ==
  /\ editor \in {"none", "gnome", "plasma"}
  /\ profile = [user |-> profile.user, data |-> profile.data, secrets |-> profile.secrets]
  /\ DOMAIN profile.secrets \subseteq SecretKeys
  /\ \A s \in DOMAIN profile.secrets : profile.secrets[s] /= <<>>
  /\ HeldInv
  /\ editor = "plasma" => SameUnmanaged(kept, profile.data)
  /\ activation /= <<>> => editor = "none"

\* What NetworkManager is given and what it then has are secrets, none empty; it
\* has what it was given, or what it had.
LEMMA SecretsStored ==
  ASSUME ProfileInv
  PROVE  /\ DOMAIN Given = {} \/ Stored(Given) = Given
         /\ DOMAIN Stored(Given) \subseteq SecretKeys
         /\ \A s \in DOMAIN Stored(Given) : Stored(Given)[s] /= <<>>
         /\ \A s \in DOMAIN profile.secrets \ DOMAIN Stored(Given) :
              s \in DOMAIN held \/ Typed = {} => SavedFlags[s] \in Unstored
<1> DEFINE left == {s \in DOMAIN held : SavedFlags[s] \notin Unstored}
<1>1. Typed \subseteq SecretKeys /\ \A s \in Typed : secret[s].text /= <<>>
  BY DEF Typed, SecretsToKeep, SecretKeys
<1>2. Given = [s \in Typed \cup left |-> IF s \in Typed THEN secret[s].text ELSE held[s]]
  BY DEF Given
<1>3. \A s \in left : s \in SecretKeys /\ held[s] /= <<>> BY DEF ProfileInv, HeldInv
<1>4. CASE DOMAIN Given /= {}
  <2>1. Stored(Given) = Given BY <1>4 DEF Stored
  <2>2. ASSUME NEW s \in DOMAIN profile.secrets \ DOMAIN Given, s \in DOMAIN held \/ Typed = {}
        PROVE  SavedFlags[s] \in Unstored
    <3>1. CASE s \in DOMAIN held BY <1>2, <2>2, <3>1
    <3>2. CASE s \notin DOMAIN held
      <4>1. Typed = {} /\ DOMAIN held = {} BY <2>2, <3>2 DEF ProfileInv, HeldInv
      <4> QED BY <1>2, <1>4, <4>1
    <3> QED BY <3>1, <3>2
  <2> HIDE DEF left
  <2>3. DOMAIN Given \subseteq SecretKeys /\ \A s \in DOMAIN Given : Given[s] /= <<>>
    BY <1>1, <1>2, <1>3
  <2> QED BY <2>1, <2>2, <2>3
<1>5. CASE DOMAIN Given = {}
  <2>1. Stored(Given) = Restrict(profile.secrets,
                                 {s \in DOMAIN profile.secrets : SavedFlags[s] \notin Unstored})
    BY <1>5 DEF Stored
  <2> QED BY <1>5, <2>1 DEF Restrict, ProfileInv
<1> QED BY <1>4, <1>5

\* What either editor saves is a profile, without empty secrets, and agrees with
\* the one before where no widget stands for an item.
LEMMA SavedProfile ==
  ASSUME ProfileInv, Save
  PROVE  /\ profile' = [user |-> profile'.user, data |-> profile'.data, secrets |-> profile'.secrets]
         /\ DOMAIN profile'.secrets \subseteq SecretKeys
         /\ \A s \in DOMAIN profile'.secrets : profile'.secrets[s] /= <<>>
         /\ HeldInv'
         /\ SameUnmanaged(profile'.data, profile.data)
<1>1. CASE editor = "gnome"
  <2> DEFINE removed == {k \in DOMAIN GnomeItems : GnomeItems[k] = <<>>}
  <2>1. /\ profile' = [user |-> main["user-name"],
                       data |-> Merged(GnomeItems, profile.data, removed),
                       secrets |-> Stored(Given)]
        /\ editor' = "gnome" /\ held' = Given
    BY <1>1 DEF Save, GnomeUpdate
  <2>2. removed \subseteq Managed BY WidgetsAreManaged
  <2> HIDE DEF removed
  <2>3. SameUnmanaged(profile'.data, profile.data)
    BY <2>1, <2>2, WidgetsAreManaged, MergedKeepsUnmanaged
  <2>4. HeldInv' BY <2>1, SecretsStored DEF HeldInv
  <2> QED BY <2>1, <2>3, <2>4, SecretsStored
<1>2. CASE editor = "plasma"
  <2> DEFINE removed == {k \in {"server-name", "login-type"} : MainItems[k] = <<>>}
                          \cup IF useCertificate THEN {} ELSE CertKeys
  <2>1. /\ profile' = [user |-> main["user-name"],
                       data |-> Merged(MainItems, kept, removed),
                       secrets |-> Stored(Given)]
        /\ held' = held
    BY <1>2 DEF Save, PlasmaSetting
  <2>2. removed \subseteq Managed BY DEF Managed, MainKeys, CertKeys
  <2> HIDE DEF removed
  <2>3. SameUnmanaged(profile'.data, kept) BY <2>1, <2>2, WidgetsAreManaged, MergedKeepsUnmanaged
  <2>4. SameUnmanaged(profile'.data, profile.data) BY <1>2, <2>3, SameIsTransitive DEF ProfileInv
  <2>5. HeldInv' BY <1>2, <2>1 DEF ProfileInv, HeldInv
  <2> QED BY <2>1, <2>4, <2>5, SecretsStored
<1> QED BY <1>1, <1>2 DEF Save, ProfileInv

\* It is one.
THEOREM ProfileInvHolds == Spec => []ProfileInv
<1>1. ASSUME Init PROVE ProfileInv
  <2>1. DOMAIN <<>> = {} OBVIOUS
  <2> QED BY <1>1, <2>1, ProfileConstants DEF Init, ProfileInv, HeldInv
<1>2. ASSUME ProfileInv, [Next]_vars PROVE ProfileInv'
  <2>1. CASE Aside BY <1>2, <2>1 DEF Aside, ProfileInv, HeldInv, SameUnmanaged
  <2>2. CASE Opening
    <3>1. HeldInv' BY <2>2 DEF Opening, HeldInv
    <3> QED BY <1>2, <2>2, <3>1 DEF Opening, ProfileInv, SameUnmanaged
  <2>3. CASE AcceptPlasma
    <3>1. /\ UNCHANGED <<profile, editor, held, activation>>
          /\ editor = "plasma"
          /\ kept' = Over(AdvancedItems, kept)
      BY <2>3 DEF AcceptPlasma, Acts, Rest
    <3>2. SameUnmanaged(kept', kept) BY <3>1, WidgetsAreManaged, OverKeepsUnmanaged
    <3>3. SameUnmanaged(kept', profile.data)
      BY <1>2, <3>1, <3>2, SameIsTransitive DEF ProfileInv
    <3> QED BY <1>2, <3>1, <3>3 DEF ProfileInv, HeldInv
  <2>4. CASE Save
    <3>1. UNCHANGED <<editor, kept, activation>> BY <2>4 DEF Save
    <3>2. editor = "plasma" => SameUnmanaged(kept', profile'.data)
      <4>1. SameUnmanaged(profile'.data, profile.data) BY <1>2, <2>4, SavedProfile
      <4>2. SameUnmanaged(profile.data, profile'.data) BY <4>1 DEF SameUnmanaged
      <4>3. HAVE editor = "plasma"
      <4>4. SameUnmanaged(kept, profile.data) BY <1>2, <4>3 DEF ProfileInv
      <4> QED BY <3>1, <4>2, <4>4, SameIsTransitive
    <3> QED BY <1>2, <2>4, <3>1, <3>2, SavedProfile DEF ProfileInv
  <2>5. CASE Close
    <3>1. DOMAIN held' = {} BY <2>5 DEF Close
    <3> QED BY <1>2, <2>5, <3>1 DEF Close, ProfileInv, HeldInv
  <2>6. ASSUME NEW reprompt \in BOOLEAN, NEW reach \in {"nobody", "dialog", "external"},
               NEW typed \in SecretTexts, Activate(reprompt, reach, typed)
        PROVE  ProfileInv'
    <3>1. editor = "none" /\ UNCHANGED <<profile, editor, held, kept>> BY <2>6 DEF Activate
    <3> QED BY <1>2, <3>1 DEF ProfileInv, HeldInv
  <2> QED BY <1>2, <2>1, <2>2, <2>3, <2>4, <2>5, <2>6, Steps
<1> QED BY <1>1, <1>2, PTL DEF Spec

\* Only saving changes the profile.
LEMMA OnlySaving ==
  ASSUME [Next]_vars, profile' /= profile
  PROVE  Save
<1>1. ASSUME NEW reprompt \in BOOLEAN, NEW reach \in {"nobody", "dialog", "external"},
             NEW typed \in SecretTexts, Activate(reprompt, reach, typed)
      PROVE  FALSE
  BY <1>1 DEF Activate
<1> QED BY <1>1, Steps DEF Aside, Opening, AcceptPlasma, Rest, Close

\* An item no widget stands for survives any saving, in either editor, after any
\* sequence of edits (nm-snx-editor.c:984, snxwidget.cpp:322).
THEOREM UnmanagedItemsAreSafe == Spec => UnmanagedItemsSurvive
<1>1. ASSUME ProfileInv, [Next]_vars
      PROVE  [\A k \in (DOMAIN profile.data \cup DOMAIN profile'.data) \ Managed :
                /\ k \in DOMAIN profile.data /\ k \in DOMAIN profile'.data
                /\ profile'.data[k] = profile.data[k]]_profile
  <2>1. CASE profile' = profile BY <2>1
  <2>2. CASE profile' /= profile
    <3>1. SameUnmanaged(profile'.data, profile.data) BY <1>1, <2>2, OnlySaving, SavedProfile
    <3> QED BY <3>1 DEF SameUnmanaged
  <2> QED BY <2>1, <2>2
<1> QED BY <1>1, ProfileInvHolds, PTL DEF Spec, UnmanagedItemsSurvive

\* The GNOME editor writes the flags of each secret, whatever else it writes.
LEMMA FlagsAreWritten ==
  ASSUME NEW s \in SecretKeys
  PROVE  /\ FlagsKey[s] \in DOMAIN GnomeItems
         /\ GnomeItems[FlagsKey[s]] = Numeral(SavedFlags[s])
<1>1. FlagsKey[s] \in {"password-flags", "cert-password-flags"} BY DEF FlagsKey
<1>2. \A t \in SecretKeys : FlagsKey[t] = FlagsKey[s] => t = s BY DEF FlagsKey, SecretKeys
<1>3. FlagsKey[s] \in DOMAIN FlagItems /\ FlagItems[FlagsKey[s]] = Numeral(SavedFlags[s])
  <2>1. (CHOOSE t \in SecretKeys : FlagsKey[t] = FlagsKey[s]) = s BY <1>2
  <2> QED BY <2>1 DEF FlagItems
<1>4. FlagsKey[s] \notin MainKeys \cup {"login-type"} \cup CertKeys
  BY <1>1 DEF MainKeys, CertKeys, Options
<1>5. FlagsKey[s] \in DOMAIN MainItems /\ MainItems[FlagsKey[s]] = Numeral(SavedFlags[s])
  BY <1>3, <1>4 DEF MainItems, Over
<1> QED BY <1>4, <1>5 DEF GnomeItems, Over, WithoutCertificate

\* Saving in the GNOME editor takes a stored secret away only with the choice
\* not to store it, of the secrets that were fetched for the editor, and of all
\* when nothing is typed (nm-snx-editor.c:194-215).
THEOREM SecretsAreSafe == Spec => SecretsGoOnRequest
<1>1. ASSUME ProfileInv, [Next]_vars
      PROVE  [editor = "gnome" =>
                \A s \in DOMAIN profile.secrets \ DOMAIN profile'.secrets :
                  s \in DOMAIN held \/ Typed = {} => FlagsIn(profile'.data, s, None) \in Unstored]_profile
  <2>1. CASE profile' = profile BY <2>1
  <2>2. ASSUME profile' /= profile, editor = "gnome",
               NEW s \in DOMAIN profile.secrets \ DOMAIN profile'.secrets,
               s \in DOMAIN held \/ Typed = {}
        PROVE  FlagsIn(profile'.data, s, None) \in Unstored
    <3> DEFINE removed == {k \in DOMAIN GnomeItems : GnomeItems[k] = <<>>}
    <3>1. Save BY <1>1, <2>2, OnlySaving
    <3>2. profile' = [user |-> main["user-name"],
                      data |-> Merged(GnomeItems, profile.data, removed),
                      secrets |-> Stored(Given)]
      BY <2>2, <3>1 DEF Save, GnomeUpdate
    <3>3. s \in SecretKeys BY <1>1, <2>2 DEF ProfileInv
    <3>4. SavedFlags[s] \in Unstored BY <1>1, <2>2, <3>2, SecretsStored
    <3>5. Numeral(SavedFlags[s]) /= <<>> BY DEF Numeral
    <3>6. FlagsKey[s] \in DOMAIN GnomeItems /\ GnomeItems[FlagsKey[s]] = Numeral(SavedFlags[s])
      BY <3>3, FlagsAreWritten
    <3>7. FlagsKey[s] \in DOMAIN profile'.data /\ profile'.data[FlagsKey[s]] = Numeral(SavedFlags[s])
      <4>1. FlagsKey[s] \notin removed BY <3>5, <3>6
      <4>2. profile'.data = Merged(GnomeItems, profile.data, removed) BY <3>2
      <4> HIDE DEF removed
      <4> QED BY <3>6, <4>1, <4>2 DEF Merged, Over, Restrict
    <3>8. FlagsIn(profile'.data, s, None) = NumberIn(Numeral(SavedFlags[s])) BY <3>7 DEF FlagsIn
    <3>9. NumberIn(Numeral(SavedFlags[s])) = SavedFlags[s]
      BY <3>4, NumeralsReadBack, ProfileConstants DEF Unstored
    <3> QED BY <3>4, <3>8, <3>9
  <2> QED BY <2>1, <2>2
<1> QED BY <1>1, ProfileInvHolds, PTL DEF Spec, SecretsGoOnRequest

-----------------------------------------------------------------------------
(* The question for the secrets.                                           *)

\* None of the two flags of a stored secret forbids its use.
LEMMA FlagBits ==
  /\ ~HasFlag(None, NotSaved) /\ ~HasFlag(None, NotRequired)
  /\ ~HasFlag(AgentOwned, NotSaved) /\ ~HasFlag(AgentOwned, NotRequired)
BY DEF HasFlag, None, AgentOwned, NotSaved, NotRequired

\* Whatever the user typed, unless nothing, the service then needs no secrets.
LEMMA ActivationSettles ==
  ASSUME ProfileInv, NEW reprompt \in BOOLEAN, NEW reach \in {"nobody", "dialog", "external"},
         NEW typed \in SecretTexts, Activate(reprompt, reach, typed)
  PROVE  PromptSettlesTheNeed'
<1> DEFINE asks == {s \in SecretKeys : ShouldAsk(s, reprompt)}
           fields == Fields(asks, reach = "external")
           value(s) == IF s \in fields THEN typed ELSE Item(profile.secrets, s)
           keys == {t \in SecretKeys : t \in asks \/ value(t) /= <<>>}
           given == [s \in keys |-> value(s)]
           failed == ~AuthReading.ok \/ (asks /= {} /\ reach = "nobody")
<1>1. /\ editor = "none" /\ profile' = profile /\ editor' = editor
      /\ activation' =
           IF failed THEN [outcome |-> "failed", reprompt |-> reprompt]
           ELSE [outcome |-> "secrets", reprompt |-> reprompt, fields |-> fields, typed |-> typed,
                 secrets |-> given, needs |-> NeedSecrets([profile EXCEPT !.secrets = given])]
  BY DEF Activate
<1>2. "password" \in SecretKeys BY DEF SecretKeys
<1>3. SUFFICES ASSUME activation' /= <<>>, activation'.outcome = "secrets",
                      activation'.typed /= <<>>,
                      FromConnection(profile).config["user-name"] /= <<>>,
                      ~HasFlag(FlagsIn(profile.data, "password", None), NotRequired),
                      activation'.needs
               PROVE  FALSE
  BY <1>1 DEF PromptSettlesTheNeed
<1>4. ~failed BY <1>1, <1>3
<1>5. typed /= <<>> /\ NeedSecrets([profile EXCEPT !.secrets = given]) BY <1>1, <1>3, <1>4
<1>6. DOMAIN given \subseteq SecretKeys OBVIOUS
<1>7. /\ FromConnection(profile).ok
      /\ "password" \notin DOMAIN given
      /\ "password" \notin DOMAIN profile.secrets => ~FromConnection(profile).config["password"]
  <2> HIDE DEF given
  <2> QED BY <1>3, <1>5, <1>6, GivenSecretsSuffice DEF ProfileInv
<1>8. "password" \notin keys BY <1>7
<1>9. "password" \notin asks /\ value("password") = <<>> BY <1>2, <1>8
<1>10. AuthReading.config["password"]
  BY <1>2, <1>3, <1>9 DEF ShouldAsk
<1>11. AuthReading.ok BY <1>4
<1>12. FromConnection(profile).config["password"]
  BY <1>2, <1>10, <1>11, ReadersAgree DEF ProfileInv
<1>13. "password" \in DOMAIN profile.secrets BY <1>7, <1>12
<1>14. Item(profile.secrets, "password") /= <<>> BY <1>13 DEF Item, ProfileInv
<1>15. value("password") /= <<>> BY <1>5, <1>14
<1> QED BY <1>9, <1>15

\* A stored password that need not be asked for is given to the service as it is.
LEMMA ActivationGoesThrough ==
  ASSUME ProfileInv, NEW reprompt \in BOOLEAN, NEW reach \in {"nobody", "dialog", "external"},
         NEW typed \in SecretTexts, Activate(reprompt, reach, typed)
  PROVE  StoredPasswordGoesThrough'
<1> DEFINE asks == {s \in SecretKeys : ShouldAsk(s, reprompt)}
           fields == Fields(asks, reach = "external")
           value(s) == IF s \in fields THEN typed ELSE Item(profile.secrets, s)
           keys == {t \in SecretKeys : t \in asks \/ value(t) /= <<>>}
           given == [s \in keys |-> value(s)]
           failed == ~AuthReading.ok \/ (asks /= {} /\ reach = "nobody")
<1>1. /\ profile' = profile
      /\ activation' =
           IF failed THEN [outcome |-> "failed", reprompt |-> reprompt]
           ELSE [outcome |-> "secrets", reprompt |-> reprompt, fields |-> fields, typed |-> typed,
                 secrets |-> given, needs |-> NeedSecrets([profile EXCEPT !.secrets = given])]
  BY DEF Activate
<1>2. /\ AuthReading' = AuthReading
      /\ ShouldAsk("cert-password", FALSE)' <=> ShouldAsk("cert-password", FALSE)
  BY <1>1 DEF AuthReading, ShouldAsk
<1>3. SUFFICES ASSUME ~activation'.reprompt, AuthReading.ok,
                      "password" \in DOMAIN profile.secrets,
                      profile.secrets["password"] /= <<>>,
                      FlagsIn(profile.data, "password", None) \in {None, AgentOwned},
                      ~ShouldAsk("cert-password", FALSE)
               PROVE  /\ activation'.outcome = "secrets"
                      /\ activation'.fields = {}
                      /\ activation'.secrets["password"] = profile.secrets["password"]
  BY <1>1, <1>2 DEF StoredPasswordGoesThrough
<1>4. reprompt = FALSE BY <1>1, <1>3
<1>5. "password" \in SecretKeys BY DEF SecretKeys
<1>6. AuthReading.config["password"] BY <1>3, <1>5, ReadersAgree DEF ProfileInv
<1>7. ~ShouldAsk("password", FALSE) BY <1>3, <1>6, FlagBits DEF ShouldAsk
<1>8. asks = {} BY <1>3, <1>4, <1>7 DEF SecretKeys
<1>9. fields = {} BY <1>8 DEF Fields
<1>10. value("password") = profile.secrets["password"] BY <1>3, <1>9 DEF Item
<1>11. "password" \in keys /\ given["password"] = profile.secrets["password"]
  BY <1>3, <1>5, <1>10
<1>12. ~failed BY <1>3, <1>8
<1> HIDE DEF asks, fields, keys, given, failed
<1> QED BY <1>1, <1>9, <1>11, <1>12

\* No step breaks the two properties: an activation is forgotten before the
\* profile changes.
LEMMA PromptsStayRight ==
  ASSUME ProfileInv, [Next]_vars, PromptSettlesTheNeed, StoredPasswordGoesThrough
  PROVE  PromptSettlesTheNeed' /\ StoredPasswordGoesThrough'
<1> USE DEF PromptSettlesTheNeed, StoredPasswordGoesThrough
<1>1. ASSUME activation' = <<>>
      PROVE  PromptSettlesTheNeed' /\ StoredPasswordGoesThrough'
  BY <1>1
<1>2. ASSUME UNCHANGED <<profile, editor, activation>>
      PROVE  PromptSettlesTheNeed' /\ StoredPasswordGoesThrough'
  BY <1>2 DEF AuthReading, ShouldAsk
<1>3. CASE Aside BY <1>2, <1>3 DEF Aside
<1>4. CASE Opening BY <1>1, <1>4 DEF Opening
<1>5. CASE AcceptPlasma BY <1>2, <1>5 DEF AcceptPlasma, Rest
<1>6. CASE Save BY <1>1, <1>6 DEF Save, ProfileInv
<1>7. CASE Close BY <1>1, <1>7 DEF Close, ProfileInv
<1> QED BY <1>3, <1>4, <1>5, <1>6, <1>7, Steps, ActivationSettles, ActivationGoesThrough

\* Together they are invariant.
LEMMA PromptsAreRight == Spec => [](PromptSettlesTheNeed /\ StoredPasswordGoesThrough)
<1>1. Init => PromptSettlesTheNeed /\ StoredPasswordGoesThrough
  BY DEF Init, PromptSettlesTheNeed, StoredPasswordGoesThrough
<1> QED BY <1>1, PromptsStayRight, ProfileInvHolds, PTL DEF Spec

\* The user is not asked in vain: what the auth dialog decides from the flags
\* agrees with what the service decides without them (nm-snx-auth-dialog.c:40-51,
\* nm-snx-service.c:1060-1089).
THEOREM PromptsSettle == Spec => []PromptSettlesTheNeed
BY PromptsAreRight, PTL

\* A stored password is used without asking (nm-snx-auth-dialog.c:220-246).
THEOREM StoredPasswordsGoThrough == Spec => []StoredPasswordGoesThrough
BY PromptsAreRight, PTL

-----------------------------------------------------------------------------
(* Induction over a sequence.                                              *)

\* A set that has the empty sequence and, with a sequence, each one longer by
\* an element, has them all.
LEMMA SequenceInduction ==
  ASSUME NEW S, NEW T, <<>> \in T,
         \A s \in Seq(S) : \A e \in S : s \in T => Append(s, e) \in T
  PROVE  Seq(S) \subseteq T
<1> SUFFICES ASSUME NEW seq \in Seq(S) PROVE seq \in T
  OBVIOUS
<1> DEFINE N == Len(seq)
           U == {n \in 0 .. N : SubSeq(seq, 1, n) \in T}
<1>1. N \in Nat /\ \A n \in 1 .. N : seq[n] \in S
  BY LenProperties, ElementOfSeq
<1>2. 0 \in U
  <2>1. SubSeq(seq, 1, 0) = <<>> BY SubSeqEmpty
  <2>2. 0 \in 0 .. N BY <1>1
  <2> QED BY <2>1, <2>2
<1>3. ASSUME NEW n \in 0 .. N - 1, n \in U PROVE n + 1 \in U
  <2>1. n \in Int /\ n + 1 \in 1 .. N /\ 1 \in 1 .. N /\ (n + 1) - 1 = n BY <1>1
  <2>2. SubSeq(seq, 1, n + 1) = SubSeq(seq, 1, n) \o <<seq[n + 1]>>
    <3>1. n + 1 \in 1 .. Len(seq) /\ 1 \in 1 .. Len(seq) BY <2>1
    <3>2. SubSeq(seq, 1, n + 1) = SubSeq(seq, 1, (n + 1) - 1) \o <<seq[n + 1]>>
      BY <3>1, SubSeqRecursiveSecond
    <3> QED BY <2>1, <3>2
  <2>3. SubSeq(seq, 1, n) \in Seq(S)
    <3>1. \A i \in 1 .. n : seq[i] \in S BY <1>1, <2>1
    <3> QED BY <2>1, <3>1, SubSeqProperties
  <2>4. seq[n + 1] \in S BY <1>1, <2>1
  <2>5. SubSeq(seq, 1, n + 1) = Append(SubSeq(seq, 1, n), seq[n + 1])
    BY <2>2, <2>3, <2>4, AppendIsConcat
  <2>6. SubSeq(seq, 1, n) \in T BY <1>3
  <2>7. SubSeq(seq, 1, n + 1) \in T BY <2>3, <2>4, <2>5, <2>6
  <2>8. n + 1 \in 0 .. N BY <1>1, <2>1
  <2> QED BY <2>7, <2>8
<1>4. N \in U
  <2> HIDE DEF N, U
  <2>1. N \in 0 .. N BY <1>1
  <2> QED BY <1>1, <1>2, <1>3, <2>1, BoundedInduction
<1>5. SubSeq(seq, 1, N) = seq BY SubSeqFull
<1> QED BY <1>4, <1>5

-----------------------------------------------------------------------------
(* Lists, split at the commas and joined again.                            *)

Readings(S) == [parts : Seq(Seq(S)), part : Seq(S), spaces : Seq(S)]

\* A word more makes a reading of a reading.
LEMMA ReadWordTyped ==
  ASSUME NEW S, NEW r \in Readings(S), NEW w \in S
  PROVE  /\ PartsOf(r) \in Seq(Seq(S))
         /\ ReadWord(r, w) \in Readings(S)
<1>1. r.parts \in Seq(Seq(S)) /\ r.part \in Seq(S) /\ r.spaces \in Seq(S) BY DEF Readings
<1>2. PartsOf(r) \in Seq(Seq(S)) BY <1>1, AppendProperties DEF PartsOf
<1>3. <<>> \in Seq(S) BY EmptySeq
<1>4. Append(r.spaces, w) \in Seq(S) BY <1>1, AppendProperties
<1>5. Append(r.part \o r.spaces, w) \in Seq(S) BY <1>1, ConcatProperties, AppendProperties
<1> QED BY <1>1, <1>2, <1>3, <1>4, <1>5 DEF ReadWord, Readings

\* Nothing read is a reading.
LEMMA NothingReadTyped == ASSUME NEW S PROVE NothingRead \in Readings(S)
BY EmptySeq DEF NothingRead, Readings

\* The reading of a text, word by word.
LEMMA ReadCsvUnfolds ==
  ASSUME NEW S, NEW text \in Seq(S)
  PROVE  \E f :
           /\ f[0] = NothingRead
           /\ \A n \in 1 .. Len(text) : f[n] = ReadWord(f[n - 1], text[n])
           /\ ReadCsv(text) = f[Len(text)]
<1> DEFINE N == Len(text)
           Body(g) == [n \in 0 .. N |-> IF n = 0 THEN NothingRead ELSE ReadWord(g[n - 1], text[n])]
           step == [p \in Readings(S) \X (1 .. N) |-> ReadWord(p[1], text[p[2]])]
           read == CHOOSE g : g = Body(g)
<1>1. N \in Nat /\ \A n \in 1 .. N : text[n] \in S
  BY LenProperties, ElementOfSeq
<1>2. step \in [Readings(S) \X (1 .. N) -> Readings(S)]
  BY <1>1, ReadWordTyped
<1>0. NothingRead \in Readings(S) BY NothingReadTyped
<1>3. PICK f : Computes(f, Readings(S), NothingRead, N, step)
  <2> HIDE DEF step, N, Body, read
  <2> QED BY <1>0, <1>1, <1>2, RecursionExists
<1>4. ASSUME NEW n \in 1 .. N PROVE f[n] = ReadWord(f[n - 1], text[n])
  <2>1. f[n - 1] \in Readings(S) /\ f[n] = step[<<f[n - 1], n>>]
    <3> HIDE DEF N, step
    <3>1. n - 1 \in 0 .. N BY <1>1
    <3> QED BY <1>3, <3>1 DEF Computes
  <2> QED BY <2>1
<1>5. f = Body(f) BY <1>1, <1>3, <1>4 DEF Computes
<1>6. read = Body(read)
  <2> HIDE DEF Body
  <2> QED BY <1>5
<1>7. ReadCsv(text) = read[N] BY DEF ReadCsv
<1> HIDE DEF read
<1>8. read[0] = NothingRead /\ \A n \in 1 .. N : read[n] = ReadWord(read[n - 1], text[n])
  BY <1>1, <1>6
<1> QED BY <1>7, <1>8

\* A text with a word more is read as the text and then the word.
LEMMA ReadCsvAppend ==
  ASSUME NEW S, NEW text \in Seq(S), NEW w \in S
  PROVE  ReadCsv(Append(text, w)) = ReadWord(ReadCsv(text), w)
<1> DEFINE N == Len(text)
           more == Append(text, w)
<1>1. N \in Nat BY LenProperties
<1>2. /\ more \in Seq(S) /\ Len(more) = N + 1 /\ more[N + 1] = w
      /\ \A n \in 1 .. N : more[n] = text[n]
  BY AppendProperties
<1>3. PICK f : /\ f[0] = NothingRead
               /\ \A n \in 1 .. N : f[n] = ReadWord(f[n - 1], text[n])
               /\ ReadCsv(text) = f[N]
  BY ReadCsvUnfolds
<1> HIDE DEF more, N
<1>4. PICK g : /\ g[0] = NothingRead
               /\ \A n \in 1 .. N + 1 : g[n] = ReadWord(g[n - 1], more[n])
               /\ ReadCsv(more) = g[N + 1]
  <2>1. \E g : /\ g[0] = NothingRead
               /\ \A n \in 1 .. Len(more) : g[n] = ReadWord(g[n - 1], more[n])
               /\ ReadCsv(more) = g[Len(more)]
    BY <1>2, ReadCsvUnfolds
  <2> QED BY <1>2, <2>1
<1> DEFINE T == {n \in 0 .. N : f[n] = g[n]}
<1>5. 0 \in T BY <1>1, <1>3, <1>4
<1>6. ASSUME NEW n \in 0 .. N - 1, n \in T PROVE n + 1 \in T
  <2>1. n + 1 \in 1 .. N /\ n + 1 \in 1 .. N + 1 /\ n + 1 \in 0 .. N /\ (n + 1) - 1 = n BY <1>1
  <2>2. f[n + 1] = ReadWord(f[n], text[n + 1]) BY <1>3, <2>1
  <2>3. g[n + 1] = ReadWord(g[n], more[n + 1]) BY <1>4, <2>1
  <2> QED BY <1>2, <1>6, <2>1, <2>2, <2>3
<1>7. N \in T
  <2> HIDE DEF T
  <2>1. N \in 0 .. N BY <1>1
  <2> QED BY <1>1, <1>5, <1>6, <2>1, BoundedInduction
<1>8. g[N + 1] = ReadWord(g[N], more[N + 1])
  <2>1. N + 1 \in 1 .. N + 1 /\ (N + 1) - 1 = N BY <1>1
  <2> QED BY <1>4, <2>1
<1> QED BY <1>2, <1>3, <1>4, <1>7, <1>8 DEF more

\* Nothing is read from an empty text.
LEMMA ReadCsvEmpty == ReadCsv(<<>>) = NothingRead
<1>1. <<>> \in Seq({}) /\ Len(<<>>) = 0 BY EmptySeq
<1> QED BY <1>1, ReadCsvUnfolds

\* What makes a part: no comma, no space at its ends.
Plain(w) == w /= "," /\ w /= " "
NoComma(p) == \A i \in 1 .. Len(p) : p[i] /= ","
CleanPart(p) ==
  /\ p /= <<>> /\ p[1] /= " " /\ p[Len(p)] /= " "
  /\ NoComma(p)
AllClean(parts) == \A i \in 1 .. Len(parts) : CleanPart(parts[i])
Blank(spaces) == \A i \in 1 .. Len(spaces) : spaces[i] = " "

\* A reading of clean parts.
Clean(parts, part, spaces) ==
  /\ AllClean(parts)
  /\ part /= <<>> => CleanPart(part)
  /\ part = <<>> => spaces = <<>>
  /\ Blank(spaces)
CleanReading(r) == Clean(r.parts, r.part, r.spaces)

\* One element more: the ones there were, and the last.
IsLonger(more, seq, e) ==
  /\ Len(seq) \in Nat /\ Len(more) = Len(seq) + 1 /\ more[Len(seq) + 1] = e
  /\ more /= <<>>
  /\ \A i \in 1 .. Len(seq) : more[i] = seq[i]

\* Appending makes a sequence longer by one.
LEMMA OneMore ==
  ASSUME NEW S, NEW seq \in Seq(S), NEW e \in S
  PROVE  Append(seq, e) \in Seq(S) /\ IsLonger(Append(seq, e), seq, e)
BY AppendProperties, LenProperties DEF IsLonger

\* Where its elements are.
LEMMA LongerIndex ==
  ASSUME NEW more, NEW seq, NEW e, IsLonger(more, seq, e)
  PROVE  \A i \in 1 .. Len(more) :
           (i \in 1 .. Len(seq) /\ more[i] = seq[i]) \/ (i = Len(more) /\ more[i] = e)
BY DEF IsLonger

\* The empty sequence is clean, and blank.
LEMMA NothingIsClean ==
  /\ AllClean(<<>>) /\ Blank(<<>>) /\ NoComma(<<>>)
  /\ \A S : \A s \in Seq(S) : s /= <<>> => 1 \in 1 .. Len(s)
<1>1. Len(<<>>) = 0 BY EmptySeq
<1>2. \A S : \A s \in Seq(S) : s /= <<>> => Len(s) \in Nat \ {0} BY EmptySeq
<1> QED BY <1>1, <1>2 DEF AllClean, Blank, NoComma

\* Another clean part.
LEMMA AnotherPart ==
  ASSUME NEW S, NEW parts \in Seq(S), NEW p \in S, AllClean(parts), CleanPart(p)
  PROVE  AllClean(Append(parts, p))
<1> DEFINE more == Append(parts, p)
<1>1. IsLonger(more, parts, p) BY OneMore
<1> HIDE DEF more
<1>2. AllClean(more) BY <1>1, LongerIndex DEF AllClean
<1> QED BY <1>2 DEF more

\* The parts of a clean reading are clean.
LEMMA PartsOfClean ==
  ASSUME NEW S, NEW r \in Readings(S), CleanReading(r)
  PROVE  AllClean(PartsOf(r))
<1>1. r.parts \in Seq(Seq(S)) /\ r.part \in Seq(S) BY DEF Readings
<1> QED BY <1>1, AnotherPart DEF PartsOf, CleanReading, Clean

\* Appending to the second of two sequences appends to both.
LEMMA AppendToBoth ==
  ASSUME NEW S, NEW s \in Seq(S), NEW t \in Seq(S), NEW e \in S
  PROVE  s \o Append(t, e) = Append(s \o t, e)
<1>1. s \o t \in Seq(S) BY ConcatProperties
<1>2. Append(t, e) = t \o <<e>> BY AppendIsConcat
<1>3. Append(s \o t, e) = (s \o t) \o <<e>> BY <1>1, AppendIsConcat
<1>4. <<e>> \in Seq(S) OBVIOUS
<1>5. (s \o t) \o <<e>> = s \o (t \o <<e>>) BY <1>4, ConcatAssociative
<1> QED BY <1>2, <1>3, <1>5

\* What there is before a word is in the part or in the spaces after it.
LEMMA InEither ==
  ASSUME NEW S, NEW s \in Seq(S), NEW t \in Seq(S), NEW i \in 1 .. Len(s \o t)
  PROVE  \/ i \in 1 .. Len(s) /\ (s \o t)[i] = s[i]
         \/ \E j \in 1 .. Len(t) : (s \o t)[i] = t[j]
<1> DEFINE m == Len(s)
           n == Len(t)
           both == s \o t
<1>1. m \in Nat /\ n \in Nat BY LenProperties
<1>2. Len(both) = m + n /\ \A k \in 1 .. m + n : both[k] = IF k <= m THEN s[k] ELSE t[k - m]
  BY ConcatProperties
<1> HIDE DEF m, n, both
<1>3. i \in 1 .. m + n BY <1>2 DEF both
<1>4. CASE i <= m BY <1>1, <1>2, <1>3, <1>4 DEF both, m
<1>5. CASE ~(i <= m)
  <2>1. i - m \in 1 .. n BY <1>1, <1>3, <1>5
  <2>2. both[i] = t[i - m] BY <1>2, <1>3, <1>5
  <2> QED BY <2>1, <2>2 DEF both, n
<1> QED BY <1>4, <1>5

\* The first of the words.
LEMMA FirstOfBoth ==
  ASSUME NEW S, NEW s \in Seq(S), NEW t \in Seq(S), s /= <<>>
  PROVE  1 \in 1 .. Len(s \o t) /\ (s \o t)[1] = s[1]
<1> DEFINE m == Len(s)
           n == Len(t)
           both == s \o t
<1>1. m \in Nat \ {0} /\ n \in Nat BY LenProperties, EmptySeq
<1>2. Len(both) = m + n /\ \A k \in 1 .. m + n : both[k] = IF k <= m THEN s[k] ELSE t[k - m]
  BY ConcatProperties
<1> HIDE DEF m, n, both
<1>3. 1 \in 1 .. m + n /\ 1 <= m BY <1>1
<1> QED BY <1>2, <1>3 DEF both

\* A part with the spaces and a word after it is a part.
LEMMA AnotherWord ==
  ASSUME NEW S, NEW part \in Seq(S), NEW spaces \in Seq(S), NEW w \in S, Plain(w),
         Clean(<<>>, part, spaces)
  PROVE  /\ Append(part \o spaces, w) \in Seq(S)
         /\ CleanPart(Append(part \o spaces, w))
<1> DEFINE begun == part \o spaces
           more == Append(begun, w)
<1>1. begun \in Seq(S) BY ConcatProperties
<1>2. part = <<>> => begun = <<>>
  <2>1. part = <<>> => spaces = <<>> BY DEF Clean
  <2> QED BY <2>1, ConcatEmptySeq
<1>3. NoComma(begun)
  <2>1. part /= <<>> => NoComma(part) BY DEF Clean, CleanPart
  <2>2. NoComma(part) BY <2>1, NothingIsClean
  <2>3. \A i \in 1 .. Len(spaces) : spaces[i] /= ","
    <3>1. \A i \in 1 .. Len(spaces) : spaces[i] = " " BY DEF Clean, Blank
    <3> QED BY <3>1
  <2> SUFFICES ASSUME NEW i \in 1 .. Len(begun) PROVE begun[i] /= "," BY DEF NoComma
  <2>4. \/ i \in 1 .. Len(part) /\ begun[i] = part[i]
        \/ \E j \in 1 .. Len(spaces) : begun[i] = spaces[j]
    BY InEither
  <2> HIDE DEF begun
  <2> QED BY <2>2, <2>3, <2>4 DEF NoComma
<1>4. begun /= <<>> => 1 \in 1 .. Len(begun) /\ begun[1] /= " "
  <2>1. HAVE begun /= <<>>
  <2>2. part /= <<>> BY <1>2, <2>1
  <2>3. 1 \in 1 .. Len(part \o spaces) /\ (part \o spaces)[1] = part[1] BY <2>2, FirstOfBoth
  <2>4. part[1] /= " " BY <2>2 DEF Clean, CleanPart
  <2> QED BY <2>3, <2>4
<1> HIDE DEF begun
<1>5. more \in Seq(S) /\ IsLonger(more, begun, w) BY <1>1, OneMore
<1> HIDE DEF more
<1>6. NoComma(more)
  <2>1. \A i \in 1 .. Len(more) :
          (i \in 1 .. Len(begun) /\ more[i] = begun[i]) \/ (i = Len(more) /\ more[i] = w)
    BY <1>5, LongerIndex
  <2> QED BY <1>3, <2>1 DEF NoComma, Plain
<1>7. more[1] /= " "
  <2>1. CASE begun = <<>>
    <3>1. Len(begun) = 0 BY <2>1, EmptySeq
    <3>2. more[1] = w BY <1>5, <3>1 DEF IsLonger
    <3> QED BY <3>2 DEF Plain
  <2>2. CASE begun /= <<>>
    <3>1. more[1] = begun[1] BY <1>4, <1>5, <2>2 DEF IsLonger
    <3> QED BY <1>4, <2>2, <3>1
  <2> QED BY <2>1, <2>2
<1>8. more /= <<>> /\ more[Len(more)] = w BY <1>5 DEF IsLonger
<1>9. CleanPart(more) BY <1>6, <1>7, <1>8 DEF CleanPart, Plain
<1> QED BY <1>5, <1>9 DEF more, begun

\* A space after a part, and a word that is neither a space nor a comma.
LEMMA ReadSpace ==
  ASSUME NEW r, r.part /= <<>>
  PROVE  ReadWord(r, " ") = [parts |-> r.parts, part |-> r.part, spaces |-> Append(r.spaces, " ")]
BY DEF ReadWord

\* A word that is no separator is added to the part that has begun.
LEMMA ReadPlain ==
  ASSUME NEW r, NEW w, Plain(w)
  PROVE  ReadWord(r, w) = [parts |-> r.parts, part |-> Append(r.part \o r.spaces, w), spaces |-> <<>>]
BY DEF ReadWord, Plain

\* A word more keeps a reading clean.
LEMMA ReadWordClean ==
  ASSUME NEW S, NEW r \in Readings(S), NEW w \in S, CleanReading(r)
  PROVE  CleanReading(ReadWord(r, w))
<1>1. r.parts \in Seq(Seq(S)) /\ r.part \in Seq(S) /\ r.spaces \in Seq(S) BY DEF Readings
<1>2. Clean(r.parts, r.part, r.spaces) BY DEF CleanReading
<1> DEFINE next == ReadWord(r, w)
<1>3. CASE w = ","
  <2>1. next.parts = PartsOf(r) /\ next.part = <<>> /\ next.spaces = <<>> BY <1>3 DEF ReadWord
  <2> HIDE DEF next
  <2>2. AllClean(PartsOf(r)) BY PartsOfClean
  <2>3. Clean(next.parts, next.part, next.spaces) BY <2>1, <2>2, NothingIsClean DEF Clean
  <2> QED BY <2>3 DEF CleanReading, next
<1>4. CASE w = " "
  <2>1. CASE r.part = <<>> BY <1>4, <2>1 DEF ReadWord
  <2>2. CASE r.part /= <<>>
    <3> DEFINE more == Append(r.spaces, w)
    <3>1. next.parts = r.parts /\ next.part = r.part /\ next.spaces = more BY <1>4, <2>2 DEF ReadWord
    <3>2. IsLonger(more, r.spaces, w) BY <1>1, OneMore
    <3> HIDE DEF more, next
    <3>3. Blank(r.spaces) BY <1>2 DEF Clean
    <3>4. Blank(more)
      <4>1. \A i \in 1 .. Len(more) :
              (i \in 1 .. Len(r.spaces) /\ more[i] = r.spaces[i]) \/ (i = Len(more) /\ more[i] = w)
        BY <3>2, LongerIndex
      <4> QED BY <1>4, <3>3, <4>1 DEF Blank
    <3>5. Clean(r.parts, r.part, more) BY <1>2, <2>2, <3>4 DEF Clean
    <3> QED BY <3>1, <3>5 DEF CleanReading, next
  <2> QED BY <2>1, <2>2
<1>5. CASE Plain(w)
  <2> DEFINE more == Append(r.part \o r.spaces, w)
  <2>1. next.parts = r.parts /\ next.part = more /\ next.spaces = <<>> BY <1>5 DEF ReadWord, Plain
  <2>2. CleanPart(more)
    <3>1. Clean(<<>>, r.part, r.spaces) BY <1>2, NothingIsClean DEF Clean
    <3> QED BY <1>1, <1>5, <3>1, AnotherWord
  <2> HIDE DEF more, next
  <2>3. more /= <<>> BY <2>2 DEF CleanPart
  <2>4. Clean(r.parts, more, <<>>) BY <1>2, <2>2, <2>3, NothingIsClean DEF Clean
  <2> QED BY <2>1, <2>4 DEF CleanReading, next
<1> QED BY <1>3, <1>4, <1>5 DEF Plain

\* A text is split into clean parts.
LEMMA SplitIsClean ==
  ASSUME NEW S, NEW text \in Seq(S)
  PROVE  SplitCsv(text) \in Seq(Seq(S)) /\ AllClean(SplitCsv(text))
<1> DEFINE T == {t \in Seq(S) : ReadCsv(t) \in Readings(S) /\ CleanReading(ReadCsv(t))}
<1>0. <<>> \in Seq(S) /\ <<>> \in Seq(Seq(S)) BY EmptySeq
<1>1. <<>> \in T
  <2>1. NothingRead \in Readings(S) BY NothingReadTyped
  <2>2. NothingRead.parts = <<>> /\ NothingRead.part = <<>> /\ NothingRead.spaces = <<>> BY DEF NothingRead
  <2>3. CleanReading(NothingRead) BY <2>2, NothingIsClean DEF CleanReading, Clean
  <2> QED BY <1>0, <2>1, <2>3, ReadCsvEmpty
<1>2. ASSUME NEW t \in Seq(S), NEW w \in S, t \in T PROVE Append(t, w) \in T
  <2>1. ReadCsv(Append(t, w)) = ReadWord(ReadCsv(t), w) BY ReadCsvAppend
  <2>2. ReadCsv(t) \in Readings(S) /\ CleanReading(ReadCsv(t)) BY <1>2
  <2>3. ReadWord(ReadCsv(t), w) \in Readings(S) BY <2>2, ReadWordTyped
  <2>4. CleanReading(ReadWord(ReadCsv(t), w)) BY <2>2, ReadWordClean
  <2>5. Append(t, w) \in Seq(S) BY AppendProperties
  <2> QED BY <2>1, <2>3, <2>4, <2>5
<1>3. text \in T
  <2> HIDE DEF T
  <2> QED BY <1>1, <1>2, SequenceInduction
<1>4. ReadCsv(text) \in Readings(S) /\ CleanReading(ReadCsv(text)) BY <1>3
<1>5. PartsOf(ReadCsv(text)) \in Seq(Seq(S)) 
  <2>1. PICK r \in Readings(S) : r = ReadCsv(text) BY <1>4
  <2>2. PartsOf(r) \in Seq(Seq(S))
    <3>1. r.parts \in Seq(Seq(S)) /\ r.part \in Seq(S) BY DEF Readings
    <3> QED BY <3>1, AppendProperties DEF PartsOf
  <2> QED BY <2>1, <2>2
<1> QED BY <1>4, <1>5, PartsOfClean DEF SplitCsv

\* What has been read of a part, after a text that ended before it.
Within(r, start, p) ==
  /\ r.parts = start.parts
  /\ r.part \o r.spaces = p
  /\ r.part = <<>> => r.spaces = <<>>
  /\ p /= <<>> /\ p[Len(p)] /= " " => r.spaces = <<>>

\* A part that begins with neither comma nor space, and has no comma.
Begins(p) == NoComma(p) /\ (p /= <<>> => p[1] /= " ")

\* What begins like a part with a word more begins like one.
LEMMA BeginsBefore ==
  ASSUME NEW S, NEW p \in Seq(S), NEW w \in S, Begins(Append(p, w))
  PROVE  Begins(p) /\ w /= "," /\ (p = <<>> => w /= " ")
<1> DEFINE more == Append(p, w)
<1>1. more \in Seq(S) /\ IsLonger(more, p, w) BY OneMore
<1>2. Begins(more) OBVIOUS
<1> HIDE DEF more
<1>3. Len(p) \in Nat /\ Len(more) = Len(p) + 1 /\ more[Len(p) + 1] = w /\ more /= <<>>
      /\ \A i \in 1 .. Len(p) : more[i] = p[i]
  BY <1>1 DEF IsLonger
<1>4. Len(p) + 1 \in 1 .. Len(more) /\ \A i \in 1 .. Len(p) : i \in 1 .. Len(more) BY <1>3
<1>5. NoComma(p) BY <1>2, <1>3, <1>4 DEF Begins, NoComma
<1>6. p /= <<>> => p[1] /= " "
  <2>1. p /= <<>> => 1 \in 1 .. Len(p) BY NothingIsClean
  <2> QED BY <1>2, <1>3, <2>1 DEF Begins
<1>7. w /= "," BY <1>2, <1>3, <1>4 DEF Begins, NoComma
<1>8. p = <<>> => w /= " "
  <2>1. p = <<>> => Len(p) + 1 = 1 BY EmptySeq
  <2>2. p = <<>> => more[1] = w BY <1>3, <2>1
  <2> QED BY <1>2, <1>3, <2>2 DEF Begins
<1> QED BY <1>5, <1>6, <1>7, <1>8 DEF Begins

\* A part that follows a comma is read as it is.
LEMMA ReadPart ==
  ASSUME NEW S, NEW text \in Seq(S), NEW p \in Seq(S), CleanPart(p),
         ReadCsv(text) \in Readings(S), ReadCsv(text).part = <<>>, ReadCsv(text).spaces = <<>>
  PROVE  ReadCsv(text \o p) = [parts |-> ReadCsv(text).parts, part |-> p, spaces |-> <<>>]
<1> DEFINE start == ReadCsv(text)
           T == {q \in Seq(S) : Begins(q) => /\ ReadCsv(text \o q) \in Readings(S)
                                             /\ Within(ReadCsv(text \o q), start, q)}
<1>0. <<>> \in Seq(S) BY EmptySeq
<1>1. <<>> \in T
  <2>1. text \o <<>> = text BY ConcatEmptySeq
  <2>2. <<>> \o <<>> = <<>> BY <1>0, ConcatEmptySeq
  <2>3. Within(start, start, <<>>) BY <2>2 DEF Within
  <2> QED BY <1>0, <2>1, <2>3
<1>2. ASSUME NEW q \in Seq(S), NEW w \in S, q \in T PROVE Append(q, w) \in T
  <2> DEFINE more == Append(q, w)
             r == ReadCsv(text \o q)
             next == ReadCsv(text \o more)
  <2>1. more \in Seq(S) /\ IsLonger(more, q, w) BY OneMore
  <2> SUFFICES ASSUME Begins(more) PROVE next \in Readings(S) /\ Within(next, start, more)
    BY <2>1
  <2>2. Begins(q) /\ w /= "," /\ (q = <<>> => w /= " ") BY BeginsBefore
  <2>3. r \in Readings(S) /\ Within(r, start, q) BY <1>2, <2>2
  <2>4. next = ReadWord(r, w)
    <3>1. text \o q \in Seq(S) BY ConcatProperties
    <3>3. text \o more = Append(text \o q, w) BY AppendToBoth
    <3> QED BY <3>1, <3>3, ReadCsvAppend
  <2>5. next \in Readings(S) BY <2>3, <2>4, ReadWordTyped
  <2>6. r.parts \in Seq(Seq(S)) /\ r.part \in Seq(S) /\ r.spaces \in Seq(S) BY <2>3 DEF Readings
  <2>7. more /= <<>> /\ more[Len(more)] = w BY <2>1 DEF IsLonger
  <2> DEFINE begun == r.part \o r.spaces
  <2>8. begun = q /\ r.parts = start.parts /\ (r.part = <<>> => r.spaces = <<>>) BY <2>3 DEF Within
  <2>9. CASE w = " "
    <3>1. r.part /= <<>>
      <4>1. SUFFICES ASSUME r.part = <<>> PROVE FALSE OBVIOUS
      <4>2. r.part \o r.spaces = <<>> BY <1>0, <2>8, <4>1, ConcatEmptySeq
      <4> QED BY <2>2, <2>8, <2>9, <4>2
    <3>2. next.parts = r.parts /\ next.part = r.part /\ next.spaces = Append(r.spaces, w)
      <4> HIDE DEF r, next
      <4>1. ReadWord(r, " ") = [parts |-> r.parts, part |-> r.part, spaces |-> Append(r.spaces, " ")]
        BY <3>1, ReadSpace
      <4>2. next = [parts |-> r.parts, part |-> r.part, spaces |-> Append(r.spaces, w)]
        BY <2>4, <2>9, <4>1
      <4> QED BY <4>2
    <3>3. r.part \o Append(r.spaces, w) = more
      <4> HIDE DEF r, next
      <4>1. r.part \o Append(r.spaces, w) = Append(r.part \o r.spaces, w)
        <5> DEFINE a == r.part
                   b == r.spaces
        <5>1. a \in Seq(S) /\ b \in Seq(S) BY <2>6
        <5> HIDE DEF a, b
        <5>2. a \o Append(b, w) = Append(a \o b, w) BY <5>1, AppendToBoth
        <5> QED BY <5>2 DEF a, b
      <4> QED BY <2>8, <4>1
    <3> HIDE DEF next, more, r
    <3>4. ~(more[Len(more)] /= " ") BY <2>7, <2>9
    <3>5. next.part \o next.spaces = more BY <3>2, <3>3
    <3>6. next.parts = start.parts /\ next.part /= <<>> BY <2>8, <3>1, <3>2
    <3>7. Within(next, start, more) BY <3>4, <3>5, <3>6 DEF Within
    <3> QED BY <2>5, <3>7
  <2>10. CASE w /= " "
    <3>1. next.parts = r.parts /\ next.part = Append(r.part \o r.spaces, w) /\ next.spaces = <<>>
      <4> HIDE DEF r, next
      <4>1. Plain(w) BY <2>2, <2>10 DEF Plain
      <4>2. next = [parts |-> r.parts, part |-> Append(r.part \o r.spaces, w), spaces |-> <<>>]
        BY <2>4, <4>1, ReadPlain
      <4> QED BY <4>2
    <3>2. next.part = more BY <2>8, <3>1
    <3>3. more \o <<>> = more BY <2>1, ConcatEmptySeq
    <3> HIDE DEF next, more, r
    <3>4. Within(next, start, more) BY <2>8, <3>1, <3>2, <3>3 DEF Within
    <3> QED BY <2>5, <3>4
  <2> QED BY <2>9, <2>10
<1>3. p \in T
  <2> HIDE DEF T
  <2> QED BY <1>1, <1>2, SequenceInduction
<1>4. Begins(p) /\ p /= <<>> /\ p[Len(p)] /= " " BY DEF CleanPart, Begins
<1> DEFINE r == ReadCsv(text \o p)
<1>5. r \in Readings(S) /\ Within(r, start, p) BY <1>3, <1>4
<1> HIDE DEF r, start
<1>6. r = [parts |-> r.parts, part |-> r.part, spaces |-> r.spaces] /\ r.part \in Seq(S)
  BY <1>5 DEF Readings
<1>7. r.parts = start.parts /\ r.spaces = <<>> /\ r.part \o r.spaces = p BY <1>4, <1>5 DEF Within
<1>8. r.part = p BY <1>6, <1>7, ConcatEmptySeq
<1> QED BY <1>6, <1>7, <1>8 DEF r, start

HasSeparators(S) == {",", " "} \subseteq S

\* The separator is a text.
LEMMA SeparatorTyped ==
  ASSUME NEW S, HasSeparators(S)
  PROVE  <<",", " ">> \in Seq(S)
<1>1. PICK c \in S, b \in S : c = "," /\ b = " " BY DEF HasSeparators
<1>2. <<c, b>> \in Seq(S) OBVIOUS
<1> QED BY <1>1, <1>2

\* Texts with the separator between them are a text.
LEMMA JoinTyped ==
  ASSUME NEW S, HasSeparators(S), NEW s \in Seq(S), NEW t \in Seq(S)
  PROVE  s \o <<",", " ">> \o t \in Seq(S)
<1> DEFINE u == <<",", " ">>
<1>1. u \in Seq(S) BY SeparatorTyped
<1> HIDE DEF u
<1>2. s \o u \in Seq(S) BY <1>1, ConcatProperties
<1>3. s \o u \o t \in Seq(S) BY <1>2, ConcatProperties
<1> QED BY <1>3 DEF u

\* So is what joining makes of two.
LEMMA JoinPartTyped ==
  ASSUME NEW S, HasSeparators(S), NEW s \in Seq(S), NEW t \in Seq(S), NEW n
  PROVE  JoinPart(n, s, t) \in Seq(S)
BY JoinTyped DEF JoinPart

\* Joining, part by part.
LEMMA JoinUnfolds ==
  ASSUME NEW S, HasSeparators(S), NEW parts \in Seq(Seq(S))
  PROVE  \E f :
           /\ f[0] = <<>>
           /\ \A n \in 1 .. Len(parts) : f[n] = JoinPart(n, f[n - 1], parts[n])
           /\ Join(parts) = f[Len(parts)]
<1> DEFINE N == Len(parts)
           Body(g) == [n \in 0 .. N |-> IF n = 0 THEN <<>>
                                       ELSE JoinPart(n, g[n - 1], parts[n])]
           step == [p \in Seq(S) \X (1 .. N) |-> JoinPart(p[2], p[1], parts[p[2]])]
           joined == CHOOSE g : g = Body(g)
<1>1. N \in Nat /\ \A n \in 1 .. N : parts[n] \in Seq(S)
  BY LenProperties, ElementOfSeq
<1>2. step \in [Seq(S) \X (1 .. N) -> Seq(S)]
  BY <1>1, JoinPartTyped
<1>0. <<>> \in Seq(S) BY EmptySeq
<1>3. PICK f : Computes(f, Seq(S), <<>>, N, step)
  <2> HIDE DEF step, N, Body, joined
  <2> QED BY <1>0, <1>1, <1>2, RecursionExists
<1>4. ASSUME NEW n \in 1 .. N PROVE f[n] = JoinPart(n, f[n - 1], parts[n])
  <2>1. f[n - 1] \in Seq(S) /\ f[n] = step[<<f[n - 1], n>>]
    <3> HIDE DEF N, step
    <3>1. n - 1 \in 0 .. N BY <1>1
    <3> QED BY <1>3, <3>1 DEF Computes
  <2> QED BY <2>1
<1>5. f = Body(f) BY <1>1, <1>3, <1>4 DEF Computes
<1>6. joined = Body(joined)
  <2> HIDE DEF Body
  <2> QED BY <1>5
<1>7. Join(parts) = joined[N] BY DEF Join
<1> HIDE DEF joined
<1>8. joined[0] = <<>> /\ \A n \in 1 .. N : joined[n] = JoinPart(n, joined[n - 1], parts[n])
  <2>1. joined = [n \in 0 .. N |-> IF n = 0 THEN <<>> ELSE JoinPart(n, joined[n - 1], parts[n])]
    BY <1>6
  <2> HIDE DEF N, Body
  <2>2. 0 \in 0 .. N /\ \A n \in 1 .. N : n \in 0 .. N /\ n /= 0 BY <1>1
  <2> QED BY <2>1, <2>2
<1> QED BY <1>7, <1>8

\* A part more is joined to what the others are joined to.
LEMMA JoinAppend ==
  ASSUME NEW S, HasSeparators(S), NEW parts \in Seq(Seq(S)), NEW part \in Seq(S)
  PROVE  Join(Append(parts, part)) = JoinPart(Len(parts) + 1, Join(parts), part)
<1> DEFINE N == Len(parts)
           more == Append(parts, part)
<1>1. N \in Nat BY LenProperties
<1>2. /\ more \in Seq(Seq(S)) /\ Len(more) = N + 1 /\ more[N + 1] = part
      /\ \A n \in 1 .. N : more[n] = parts[n]
  BY AppendProperties
<1>3. PICK f : /\ f[0] = <<>>
               /\ \A n \in 1 .. N : f[n] = JoinPart(n, f[n - 1], parts[n])
               /\ Join(parts) = f[N]
  BY JoinUnfolds
<1> HIDE DEF more, N
<1>4. PICK g : /\ g[0] = <<>>
               /\ \A n \in 1 .. N + 1 : g[n] = JoinPart(n, g[n - 1], more[n])
               /\ Join(more) = g[N + 1]
  <2>1. \E g : /\ g[0] = <<>>
               /\ \A n \in 1 .. Len(more) : g[n] = JoinPart(n, g[n - 1], more[n])
               /\ Join(more) = g[Len(more)]
    BY <1>2, JoinUnfolds
  <2> QED BY <1>2, <2>1
<1> DEFINE T == {n \in 0 .. N : f[n] = g[n]}
<1>5. 0 \in T BY <1>1, <1>3, <1>4
<1>6. ASSUME NEW n \in 0 .. N - 1, n \in T PROVE n + 1 \in T
  <2>1. n + 1 \in 1 .. N /\ n + 1 \in 1 .. N + 1 /\ n + 1 \in 0 .. N /\ (n + 1) - 1 = n BY <1>1
  <2>2. f[n + 1] = JoinPart(n + 1, f[n], parts[n + 1]) BY <1>3, <2>1
  <2>3. g[n + 1] = JoinPart(n + 1, g[n], more[n + 1]) BY <1>4, <2>1
  <2> QED BY <1>2, <1>6, <2>1, <2>2, <2>3
<1>7. N \in T
  <2> HIDE DEF T
  <2>1. N \in 0 .. N BY <1>1
  <2> QED BY <1>1, <1>5, <1>6, <2>1, BoundedInduction
<1>8. g[N + 1] = JoinPart(N + 1, g[N], more[N + 1])
  <2>1. N + 1 \in 1 .. N + 1 /\ (N + 1) - 1 = N BY <1>1
  <2> QED BY <1>4, <2>1
<1> QED BY <1>2, <1>3, <1>4, <1>7, <1>8 DEF more, N

\* Joining nothing.
LEMMA JoinEmpty == Join(<<>>) = <<>>
<1> DEFINE S == {",", " "}
<1>1. <<>> \in Seq(Seq(S)) /\ Len(<<>>) = 0 BY EmptySeq
<1> HIDE DEF S
<1>2. HasSeparators(S) BY DEF S, HasSeparators
<1> QED BY <1>1, <1>2, JoinUnfolds

\* One word and one more are two.
LEMMA AppendPair == ASSUME NEW c, NEW b PROVE Append(<<c>>, b) = <<c, b>>
<1> DEFINE S == {c, b}
           s == Append(<<c>>, b)
           t == <<c, b>>
<1>1. <<c>> \in Seq(S) /\ Len(<<c>>) = 1 /\ b \in S OBVIOUS
<1>2. s \in Seq(S) /\ Len(s) = 2 /\ s[1] = c /\ s[2] = b
  <2>1. /\ s \in Seq(S) /\ Len(s) = Len(<<c>>) + 1 /\ s[Len(<<c>>) + 1] = b
        /\ \A i \in 1 .. Len(<<c>>) : s[i] = <<c>>[i]
    <3> HIDE DEF S
    <3> QED BY <1>1, AppendProperties
  <2>2. <<c>>[1] = c OBVIOUS
  <2> HIDE DEF s, S
  <2> QED BY <1>1, <2>1, <2>2
<1>3. t \in Seq(S) /\ Len(t) = 2 /\ t[1] = c /\ t[2] = b OBVIOUS
<1> HIDE DEF s, t, S
<1>4. \A i \in 1 .. Len(s) : s[i] = t[i]
  <2>1. \A i \in 1 .. 2 : i = 1 \/ i = 2 OBVIOUS
  <2> QED BY <1>2, <1>3, <2>1
<1>5. s = t BY <1>2, <1>3, <1>4, SeqEqual
<1> QED BY <1>5 DEF s, t

\* Reading a comma and a space ends a part, and begins none.
LEMMA ReadSeparator ==
  ASSUME NEW S, HasSeparators(S), NEW text \in Seq(S), ReadCsv(text) \in Readings(S)
  PROVE  /\ text \o <<",", " ">> \in Seq(S)
         /\ ReadCsv(text \o <<",", " ">>) = [parts |-> SplitCsv(text), part |-> <<>>, spaces |-> <<>>]
<1> DEFINE r == ReadCsv(text)
           once == Append(text, ",")
           twice == Append(once, " ")
<1>0. "," \in S /\ " " \in S BY DEF HasSeparators
<1>1. once \in Seq(S)
  <2>1. PICK c \in S : c = "," BY <1>0
  <2>2. Append(text, c) \in Seq(S) BY AppendProperties
  <2> QED BY <2>1, <2>2
<1>2. ReadCsv(once) = ReadWord(r, ",")
  <2>1. PICK c \in S : c = "," BY <1>0
  <2>2. ReadCsv(Append(text, c)) = ReadWord(r, c) BY ReadCsvAppend
  <2> QED BY <2>1, <2>2
<1>3. ReadWord(r, ",") = [parts |-> PartsOf(r), part |-> <<>>, spaces |-> <<>>] BY DEF ReadWord
<1> HIDE DEF once, r
<1>4. twice \in Seq(S) /\ ReadCsv(twice) = ReadWord(ReadCsv(once), " ")
  <2>1. PICK b \in S : b = " " BY <1>0
  <2>2. ReadCsv(Append(once, b)) = ReadWord(ReadCsv(once), b) BY <1>1, ReadCsvAppend
  <2>3. Append(once, b) \in Seq(S) BY <1>1, AppendProperties
  <2> QED BY <2>1, <2>2, <2>3
<1>5. ReadWord(ReadCsv(once), " ") = ReadCsv(once)
  <2>1. ReadCsv(once).part = <<>>
    <3>1. ReadCsv(once) = [parts |-> PartsOf(r), part |-> <<>>, spaces |-> <<>>] BY <1>2, <1>3
    <3> QED BY <3>1
  <2> QED BY <2>1 DEF ReadWord
<1>6. twice = text \o <<",", " ">>
  <2>1. PICK c \in S, b \in S : c = "," /\ b = " " BY <1>0
  <2>2. Append(text \o <<c>>, b) = text \o Append(<<c>>, b)
    <3>1. <<c>> \in Seq(S) OBVIOUS
    <3> QED BY <3>1, AppendToBoth
  <2>3. Append(text, c) = text \o <<c>> BY AppendIsConcat
  <2>4. Append(<<c>>, b) = <<c, b>> BY AppendPair
  <2> QED BY <2>1, <2>2, <2>3, <2>4 DEF once
<1> QED BY <1>2, <1>3, <1>4, <1>5, <1>6 DEF SplitCsv, r

\* What is joined of clean parts is split into them again.
Rejoined(S, parts) ==
  /\ Join(parts) \in Seq(S)
  /\ ReadCsv(Join(parts)) \in Readings(S)
  /\ parts /= <<>> => Join(parts) /= <<>>
  /\ SplitCsv(Join(parts)) = parts

\* One part more, joined and split again, is one part more.
LEMMA RejoinedPart ==
  ASSUME NEW S, HasSeparators(S), NEW parts \in Seq(Seq(S)), NEW part \in Seq(S),
         Rejoined(S, parts), CleanPart(part)
  PROVE  Rejoined(S, Append(parts, part))
<1> DEFINE text == Join(parts)
           start == IF parts = <<>> THEN <<>> ELSE text \o <<",", " ">>
           more == Append(parts, part)
           r == [parts |-> parts, part |-> part, spaces |-> <<>>]
<1>0. <<>> \in Seq(S) /\ <<>> \in Seq(Seq(S)) BY EmptySeq
<1>1. text \in Seq(S) /\ ReadCsv(text) \in Readings(S) /\ SplitCsv(text) = parts BY DEF Rejoined
<1>2. part /= <<>> BY DEF CleanPart
<1>3. more \in Seq(Seq(S)) BY AppendProperties
<1>4. Join(more) = JoinPart(Len(parts) + 1, text, part) BY JoinAppend
<1>5. start \in Seq(S) /\ ReadCsv(start) = [parts |-> parts, part |-> <<>>, spaces |-> <<>>]
  <2>1. CASE parts = <<>>
    <3>1. ReadCsv(<<>>) = [parts |-> <<>>, part |-> <<>>, spaces |-> <<>>] BY ReadCsvEmpty DEF NothingRead
    <3> QED BY <1>0, <2>1, <3>1
  <2>2. CASE parts /= <<>>
    <3>0. text /= <<>> BY <2>2 DEF Rejoined
    <3> HIDE DEF text
    <3>1. /\ text \o <<",", " ">> \in Seq(S)
          /\ ReadCsv(text \o <<",", " ">>) = [parts |-> SplitCsv(text), part |-> <<>>, spaces |-> <<>>]
      BY <1>1, <3>0, ReadSeparator
    <3> QED BY <1>1, <2>2, <3>1
  <2> QED BY <2>1, <2>2
<1>6. JoinPart(Len(parts) + 1, text, part) = start \o part
  <2>1. <<>> \o part = part BY ConcatEmptySeq
  <2>2. Len(parts) + 1 = 1 <=> parts = <<>> BY EmptySeq, LenProperties
  <2> QED BY <2>1, <2>2 DEF JoinPart
<1> HIDE DEF start, text, more
<1>7. ReadCsv(start \o part) = r
  <2>1. ReadCsv(start) \in Readings(S) BY <1>0, <1>5 DEF Readings
  <2>2. ReadCsv(start).part = <<>> /\ ReadCsv(start).spaces = <<>> /\ ReadCsv(start).parts = parts BY <1>5
  <2>3. start \in Seq(S) BY <1>5
  <2>4. ReadCsv(start \o part) = [parts |-> ReadCsv(start).parts, part |-> part, spaces |-> <<>>]
    BY <2>1, <2>2, <2>3, ReadPart
  <2> QED BY <2>2, <2>4
<1>8. r \in Readings(S) BY <1>0 DEF Readings
<1>9. PartsOf(r) = more BY <1>2 DEF PartsOf, more
<1>10. start \o part \in Seq(S) /\ start \o part /= <<>>
  BY <1>2, <1>5, ConcatProperties, ConcatEqualIffEmpty
<1> HIDE DEF r
<1>11. Rejoined(S, more) BY <1>4, <1>6, <1>7, <1>8, <1>9, <1>10 DEF Rejoined, SplitCsv
<1> QED BY <1>11 DEF more

\* Clean parts, joined and split again, are the same.
LEMMA JoinSplits ==
  ASSUME NEW S, HasSeparators(S), NEW parts \in Seq(Seq(S)), AllClean(parts)
  PROVE  Rejoined(S, parts)
<1> DEFINE T == {ps \in Seq(Seq(S)) : AllClean(ps) => Rejoined(S, ps)}
<1>0. <<>> \in Seq(S) /\ <<>> \in Seq(Seq(S)) BY EmptySeq
<1>1. <<>> \in T
  <2>1. ReadCsv(<<>>) = [parts |-> <<>>, part |-> <<>>, spaces |-> <<>>] BY ReadCsvEmpty DEF NothingRead
  <2>2. ReadCsv(<<>>) \in Readings(S) BY ReadCsvEmpty, NothingReadTyped
  <2>3. SplitCsv(<<>>) = <<>> BY <2>1 DEF SplitCsv, PartsOf
  <2>4. Rejoined(S, <<>>) BY <1>0, <2>2, <2>3, JoinEmpty DEF Rejoined
  <2> QED BY <1>0, <2>4
<1>2. ASSUME NEW ps \in Seq(Seq(S)), NEW p \in Seq(S), ps \in T PROVE Append(ps, p) \in T
  <2> DEFINE more == Append(ps, p)
  <2>1. more \in Seq(Seq(S)) /\ IsLonger(more, ps, p) BY OneMore
  <2> SUFFICES ASSUME AllClean(more) PROVE Rejoined(S, more) BY <2>1
  <2>2. AllClean(ps) /\ CleanPart(p)
    <3> HIDE DEF more
    <3>1. /\ \A i \in 1 .. Len(ps) : i \in 1 .. Len(more) /\ more[i] = ps[i]
          /\ Len(ps) + 1 \in 1 .. Len(more) /\ more[Len(ps) + 1] = p
      BY <2>1 DEF IsLonger
    <3> QED BY <3>1 DEF AllClean
  <2>3. Rejoined(S, ps) BY <1>2, <2>2
  <2> QED BY <2>2, <2>3, RejoinedPart
<1>3. parts \in T
  <2> HIDE DEF T
  <2> QED BY <1>1, <1>2, SequenceInduction
<1> QED BY <1>3

\* The GNOME editor shows a list joined with commas, and the service splits it
\* again into the parts it was (nm-snx-editor.c:122-137, snx-config.c:32-47).
THEOREM ListsRoundTrip ==
  ASSUME NEW S, HasSeparators(S), NEW text \in Seq(S)
  PROVE  /\ Join(SplitCsv(text)) \in Seq(S)
         /\ SplitCsv(Join(SplitCsv(text))) = SplitCsv(text)
BY SplitIsClean, JoinSplits DEF Rejoined

-----------------------------------------------------------------------------
(* What the service reads of a profile, key by key.                        *)

\* What a configuration holds beside the secrets.
PlainKeys == ConfigKeys \ SecretKeys

\* What the service takes a value to be, from the text of its item, or without it.
Reads(k, text) == IF k = "if-name" /\ text = <<>> THEN DefaultIfName ELSE ValueOf(k, text, FALSE)
Absent(k) == IF k = "if-name" THEN DefaultIfName ELSE Defaults[k]
ItemReads(k, data) == IF k \in DOMAIN data THEN Reads(k, data[k]) ELSE Absent(k)
InForce(k, data, user) ==
  CASE k = "user-name" -> IF "username" \in DOMAIN data THEN data["username"]
                          ELSE IF "user-name" \in DOMAIN data THEN data["user-name"] ELSE user
    [] k = "server-name" -> IF "server-name" \in DOMAIN data THEN data["server-name"]
                            ELSE IF "server" \in DOMAIN data THEN data["server"] ELSE <<>>
    [] OTHER -> ItemReads(k, data)
ItemsParse(data) == \A k \in Keys \cap DOMAIN data : Parses(k, data[k])

\* The keys, by their kinds.
LEMMA PlainKinds == PlainKeys = TextKeys \cup ListKeys \cup BoolKeys \cup NumberKeys \cup DOMAIN Options
BY DEF PlainKeys, ConfigKeys, SecretKeys, TextKeys, ListKeys, BoolKeys, NumberKeys, UintKeys, Options

\* The reader walks every key, and the other name of two.
LEMMA AreKeys == PlainKeys \cup {"server", "username"} \subseteq Keys
<1>1. "add-routes" \in Keys
  BY 1 \in DOMAIN KeyOrder /\ KeyOrder[1] = "add-routes" DEF Keys, KeyOrder
<1>2. "allow-forwarding" \in Keys
  BY 2 \in DOMAIN KeyOrder /\ KeyOrder[2] = "allow-forwarding" DEF Keys, KeyOrder
<1>3. "ca-cert" \in Keys
  BY 3 \in DOMAIN KeyOrder /\ KeyOrder[3] = "ca-cert" DEF Keys, KeyOrder
<1>4. "cert-id" \in Keys
  BY 4 \in DOMAIN KeyOrder /\ KeyOrder[4] = "cert-id" DEF Keys, KeyOrder
<1>5. "cert-password" \in Keys
  BY 5 \in DOMAIN KeyOrder /\ KeyOrder[5] = "cert-password" DEF Keys, KeyOrder
<1>6. "cert-path" \in Keys
  BY 6 \in DOMAIN KeyOrder /\ KeyOrder[6] = "cert-path" DEF Keys, KeyOrder
<1>7. "cert-type" \in Keys
  BY 7 \in DOMAIN KeyOrder /\ KeyOrder[7] = "cert-type" DEF Keys, KeyOrder
<1>8. "default-route" \in Keys
  BY 8 \in DOMAIN KeyOrder /\ KeyOrder[8] = "default-route" DEF Keys, KeyOrder
<1>9. "disable-ipv6" \in Keys BY 9 \in DOMAIN KeyOrder /\ KeyOrder[9] = "disable-ipv6" DEF Keys, KeyOrder
<1>10. "dns-priority" \in Keys
  BY 10 \in DOMAIN KeyOrder /\ KeyOrder[10] = "dns-priority" DEF Keys, KeyOrder
<1>11. "dns-servers" \in Keys
  BY 11 \in DOMAIN KeyOrder /\ KeyOrder[11] = "dns-servers" DEF Keys, KeyOrder
<1>12. "if-name" \in Keys
  BY 12 \in DOMAIN KeyOrder /\ KeyOrder[12] = "if-name" DEF Keys, KeyOrder
<1>13. "ignore-dns-servers" \in Keys
  BY 13 \in DOMAIN KeyOrder /\ KeyOrder[13] = "ignore-dns-servers" DEF Keys, KeyOrder
<1>14. "ignore-routes" \in Keys
  BY 14 \in DOMAIN KeyOrder /\ KeyOrder[14] = "ignore-routes" DEF Keys, KeyOrder
<1>15. "ignore-search-domains" \in Keys
  BY 15 \in DOMAIN KeyOrder /\ KeyOrder[15] = "ignore-search-domains" DEF Keys, KeyOrder
<1>16. "ignore-server-cert" \in Keys
  BY 16 \in DOMAIN KeyOrder /\ KeyOrder[16] = "ignore-server-cert" DEF Keys, KeyOrder
<1>17. "ike-lifetime" \in Keys
  BY 17 \in DOMAIN KeyOrder /\ KeyOrder[17] = "ike-lifetime" DEF Keys, KeyOrder
<1>18. "ike-persist" \in Keys
  BY 18 \in DOMAIN KeyOrder /\ KeyOrder[18] = "ike-persist" DEF Keys, KeyOrder
<1>19. "ip-lease-time" \in Keys
  BY 19 \in DOMAIN KeyOrder /\ KeyOrder[19] = "ip-lease-time" DEF Keys, KeyOrder
<1>20. "keychain" \in Keys
  BY 20 \in DOMAIN KeyOrder /\ KeyOrder[20] = "keychain" DEF Keys, KeyOrder
<1>21. "login-type" \in Keys
  BY 21 \in DOMAIN KeyOrder /\ KeyOrder[21] = "login-type" DEF Keys, KeyOrder
<1>22. "mtu" \in Keys
  BY 22 \in DOMAIN KeyOrder /\ KeyOrder[22] = "mtu" DEF Keys, KeyOrder
<1>23. "no-keepalive" \in Keys
  BY 23 \in DOMAIN KeyOrder /\ KeyOrder[23] = "no-keepalive" DEF Keys, KeyOrder
<1>24. "no-routing" \in Keys
  BY 24 \in DOMAIN KeyOrder /\ KeyOrder[24] = "no-routing" DEF Keys, KeyOrder
<1>25. "password" \in Keys
  BY 25 \in DOMAIN KeyOrder /\ KeyOrder[25] = "password" DEF Keys, KeyOrder
<1>26. "password-factor" \in Keys
  BY 26 \in DOMAIN KeyOrder /\ KeyOrder[26] = "password-factor" DEF Keys, KeyOrder
<1>27. "port-knock" \in Keys
  BY 27 \in DOMAIN KeyOrder /\ KeyOrder[27] = "port-knock" DEF Keys, KeyOrder
<1>28. "profile-name" \in Keys
  BY 28 \in DOMAIN KeyOrder /\ KeyOrder[28] = "profile-name" DEF Keys, KeyOrder
<1>29. "search-domains" \in Keys
  BY 29 \in DOMAIN KeyOrder /\ KeyOrder[29] = "search-domains" DEF Keys, KeyOrder
<1>30. "server" \in Keys
  BY 30 \in DOMAIN KeyOrder /\ KeyOrder[30] = "server" DEF Keys, KeyOrder
<1>31. "server-name" \in Keys
  BY 31 \in DOMAIN KeyOrder /\ KeyOrder[31] = "server-name" DEF Keys, KeyOrder
<1>32. "set-routing-domains" \in Keys
  BY 32 \in DOMAIN KeyOrder /\ KeyOrder[32] = "set-routing-domains" DEF Keys, KeyOrder
<1>33. "transport-type" \in Keys
  BY 33 \in DOMAIN KeyOrder /\ KeyOrder[33] = "transport-type" DEF Keys, KeyOrder
<1>34. "tunnel-type" \in Keys
  BY 34 \in DOMAIN KeyOrder /\ KeyOrder[34] = "tunnel-type" DEF Keys, KeyOrder
<1>35. "user-name" \in Keys
  BY 35 \in DOMAIN KeyOrder /\ KeyOrder[35] = "user-name" DEF Keys, KeyOrder
<1>36. "username" \in Keys
  BY 36 \in DOMAIN KeyOrder /\ KeyOrder[36] = "username" DEF Keys, KeyOrder
<1> QED
  BY <1>1, <1>2, <1>3, <1>4, <1>5, <1>6, <1>7, <1>8, <1>9, <1>10, <1>11, <1>12,
     <1>13, <1>14, <1>15, <1>16, <1>17, <1>18, <1>19, <1>20, <1>21, <1>22, <1>23, <1>24,
     <1>25, <1>26, <1>27, <1>28, <1>29, <1>30, <1>31, <1>32, <1>33, <1>34, <1>35, <1>36, PlainKinds
  DEF TextKeys, ListKeys, BoolKeys, NumberKeys, UintKeys, Options

\* A key of each kind, and what it is not.
IsList(k) == /\ k \in ListKeys
             /\ k \notin BoolKeys \cup NumberKeys \cup SecretKeys \cup DOMAIN Options \cup MainKeys
             /\ k \notin {"user-name", "server-name", "login-type", "if-name", "password-factor"}
IsBool(k) == /\ k \in BoolKeys
             /\ k \notin ListKeys \cup TextKeys \cup NumberKeys \cup SecretKeys \cup DOMAIN Options \cup MainKeys
             /\ k \notin {"user-name", "server-name", "login-type", "if-name", "password-factor"}
IsNumber(k) == /\ k \in NumberKeys
               /\ k \notin ListKeys \cup TextKeys \cup BoolKeys \cup SecretKeys \cup DOMAIN Options \cup MainKeys
               /\ k \notin {"user-name", "server-name", "login-type", "if-name"}
IsOption(k) == /\ k \in DOMAIN Options
               /\ k \notin ListKeys \cup TextKeys \cup BoolKeys \cup SecretKeys \cup NumberKeys \cup AdvancedKeys
               /\ k \notin {"user-name", "server-name", "login-type", "if-name", "password-factor"}
IsText(k) == /\ k \in TextKeys
             /\ k \notin ListKeys \cup BoolKeys \cup SecretKeys \cup NumberKeys \cup DOMAIN Options
             /\ k # "password-factor"

\* Every key is of one kind.
LEMMA Kinds ==
  /\ \A k \in ListKeys : IsList(k)
  /\ \A k \in BoolKeys : IsBool(k)
  /\ \A k \in NumberKeys : IsNumber(k)
  /\ \A k \in DOMAIN Options : IsOption(k)
  /\ \A k \in TextKeys : IsText(k)
<1> USE DEF TextKeys, ListKeys, BoolKeys, NumberKeys, UintKeys, SecretKeys, Options
<1>1. \A k \in ListKeys : IsList(k) BY DEF IsList, MainKeys, CertKeys
<1>2. \A k \in BoolKeys : IsBool(k) BY DEF IsBool, MainKeys, CertKeys
<1>3. \A k \in NumberKeys : IsNumber(k) BY DEF IsNumber, MainKeys, CertKeys
<1>4. \A k \in DOMAIN Options : IsOption(k) BY DEF IsOption, AdvancedKeys, SpinRange
<1>5. \A k \in TextKeys : IsText(k) BY DEF IsText
<1> QED BY <1>1, <1>2, <1>3, <1>4, <1>5

\* The widgets of the advanced dialog stand for a name, lists, check boxes and numbers.
LEMMA AdvancedKinds ==
  /\ AdvancedKeys = {"if-name"} \cup ListKeys \cup (BoolKeys \ {"keychain"}) \cup DOMAIN SpinRange
  /\ DOMAIN SpinRange = NumberKeys \ {"password-factor"}
BY DEF AdvancedKeys, SpinRange

\* The widgets of the two dialogs stand for different keys.
LEMMA AdvancedArePlain ==
  /\ AdvancedKeys \subseteq PlainKeys /\ MainKeys \subseteq PlainKeys /\ "login-type" \in PlainKeys
  /\ "login-type" \notin AdvancedKeys \cup MainKeys
  /\ AdvancedKeys \cap MainKeys = {}
<1>1. MainKeys \subseteq TextKeys \cup DOMAIN Options BY DEF MainKeys, TextKeys, CertKeys
<1>2. "if-name" \in TextKeys /\ "login-type" \in TextKeys BY DEF TextKeys
<1>3. AdvancedKeys \subseteq PlainKeys /\ MainKeys \subseteq PlainKeys /\ "login-type" \in PlainKeys
  BY <1>1, <1>2, AdvancedKinds, PlainKinds
<1>4. "login-type" \notin AdvancedKeys BY <1>2, AdvancedKinds, Kinds DEF IsText
<1>5. "login-type" \notin MainKeys BY DEF MainKeys, CertKeys, Options
<1>6. AdvancedKeys \cap MainKeys = {}
  <2>1. "if-name" \notin MainKeys BY DEF MainKeys, CertKeys, Options
  <2>2. \A k \in ListKeys \cup BoolKeys \cup NumberKeys : k \notin MainKeys
    BY Kinds DEF IsList, IsBool, IsNumber
  <2> QED BY <2>1, <2>2, AdvancedKinds
<1> QED BY <1>3, <1>4, <1>5, <1>6

\* All but two keys have one name.
LEMMA Names ==
  /\ \A k \in PlainKeys \ {"server-name", "user-name"} : FirstName(k) = k /\ LastName(k) = k
  /\ FirstName("server-name") = "server" /\ LastName("server-name") = "server-name"
  /\ FirstName("user-name") = "user-name" /\ LastName("user-name") = "username"
  /\ \A k \in PlainKeys : FirstName(k) \in Keys /\ LastName(k) \in Keys
  /\ \A k \in PlainKeys : FirstName(k) \notin SecretKeys /\ LastName(k) \notin SecretKeys
<1>1. /\ \A k \in PlainKeys \ {"server-name", "user-name"} : FirstName(k) = k /\ LastName(k) = k
      /\ FirstName("server-name") = "server" /\ LastName("server-name") = "server-name"
      /\ FirstName("user-name") = "user-name" /\ LastName("user-name") = "username"
  BY DEF FirstName, LastName
<1>2. \A k \in PlainKeys : k \notin SecretKeys BY DEF PlainKeys
<1>3. "server" \notin SecretKeys /\ "username" \notin SecretKeys BY DEF SecretKeys
<1>4. "server-name" \in PlainKeys /\ "user-name" \in PlainKeys BY PlainKinds DEF TextKeys
<1> QED BY <1>1, <1>2, <1>3, <1>4, AreKeys

\* A reading goes well if every item parses.
LEMMA OkIfParsed ==
  ASSUME NEW reading, NEW items, NEW isSecret, reading.ok
  PROVE  ApplyItems(reading, items, isSecret).ok <=> ItemsParse(items)
<1> DEFINE bad == {i \in DOMAIN KeyOrder :
                KeyOrder[i] \in DOMAIN items /\ ~Parses(KeyOrder[i], items[KeyOrder[i]])}
<1>1. ApplyItems(reading, items, isSecret).ok <=> bad = {} BY DEF ApplyItems
<1>2. bad = {} <=> ItemsParse(items) BY DEF ItemsParse, Keys
<1> QED BY <1>1, <1>2

\* What a configuration begins with.
LEMMA BeginningHas ==
  ASSUME NEW p
  PROVE  /\ Beginning(p).ok
         /\ DOMAIN Beginning(p).config = ConfigKeys
         /\ \A k \in PlainKeys : Beginning(p).config[k] = IF k = "user-name" THEN p.user ELSE Absent(k)
<1>1. DOMAIN Defaults = ConfigKeys BY DEF Defaults
<1>2. DOMAIN Beginning(p).config = ConfigKeys BY <1>1 DEF Beginning
<1>3. \A k \in ConfigKeys : Beginning(p).config[k] = IF k = "user-name" THEN p.user ELSE Absent(k)
  BY <1>1 DEF Beginning, Absent
<1> QED BY <1>2, <1>3 DEF Beginning, PlainKeys

\* A reading, whether it went well or not, has for each key what it had or what
\* an item of the key says.
KeepsOrReads(new, old, items, isSecret) ==
  /\ DOMAIN new = DOMAIN old
  /\ \A k \in DOMAIN old :
       \/ new[k] = old[k]
       \/ \E name \in {FirstName(k), LastName(k)} \cap DOMAIN items : new[k] = ValueOf(k, items[name], isSecret)

\* Every reading is such.
LEMMA ReadsOrKeeps ==
  ASSUME NEW reading, NEW items, NEW isSecret
  PROVE  KeepsOrReads(ApplyItems(reading, items, isSecret).config, reading.config, items, isSecret)
<1> USE DEF KeepsOrReads
<1> DEFINE bad == {i \in DOMAIN KeyOrder :
                KeyOrder[i] \in DOMAIN items /\ ~Parses(KeyOrder[i], items[KeyOrder[i]])}
           read == {KeyOrder[i] : i \in {j \in DOMAIN KeyOrder : \A b \in bad : j < b}} \cap DOMAIN items
           next == ApplyItems(reading, items, isSecret)
<1>1. CASE ~reading.ok
  <2>1. next = reading BY <1>1, FailureStays
  <2> QED BY <2>1
<1>2. CASE reading.ok
  <2>1. next.config = [k \in DOMAIN reading.config |->
                         CASE LastName(k) \in read -> ValueOf(k, items[LastName(k)], isSecret)
                           [] LastName(k) \notin read /\ FirstName(k) \in read ->
                                ValueOf(k, items[FirstName(k)], isSecret)
                           [] OTHER -> reading.config[k]]
    BY <1>2 DEF ApplyItems
  <2>2. read \subseteq DOMAIN items OBVIOUS
  <2> HIDE DEF next, read
  <2>3. DOMAIN next.config = DOMAIN reading.config BY <2>1
  <2>4. ASSUME NEW k \in DOMAIN reading.config
        PROVE  \/ next.config[k] = reading.config[k]
               \/ \E name \in {FirstName(k), LastName(k)} \cap DOMAIN items :
                    next.config[k] = ValueOf(k, items[name], isSecret)
    <3>1. CASE LastName(k) \in read
      <4>1. next.config[k] = ValueOf(k, items[LastName(k)], isSecret) BY <2>1, <3>1
      <4> QED BY <2>2, <3>1, <4>1
    <3>2. CASE LastName(k) \notin read /\ FirstName(k) \in read
      <4>1. next.config[k] = ValueOf(k, items[FirstName(k)], isSecret) BY <2>1, <3>2
      <4> QED BY <2>2, <3>2, <4>1
    <3>3. CASE LastName(k) \notin read /\ FirstName(k) \notin read
      <4>1. next.config[k] = reading.config[k] BY <2>1, <3>3
      <4> QED BY <4>1
    <3> QED BY <3>1, <3>2, <3>3
  <2> QED BY <2>3, <2>4 DEF next
<1> QED BY <1>1, <1>2

\* The secrets change nothing else.
LEMMA SecretsAside ==
  ASSUME NEW reading, NEW items, DOMAIN items \subseteq SecretKeys, NEW k \in PlainKeys,
         k \in DOMAIN reading.config
  PROVE  ApplyItems(reading, items, TRUE).config[k] = reading.config[k]
<1>1. {FirstName(k), LastName(k)} \cap DOMAIN items = {} BY Names
<1>2. KeepsOrReads(ApplyItems(reading, items, TRUE).config, reading.config, items, TRUE) BY ReadsOrKeeps
<1> QED BY <1>1, <1>2 DEF KeepsOrReads

\* Keys with one name.
Simple == PlainKeys \ {"server-name", "user-name"}

HasOrReads(new, old, items, k) ==
  \/ new[k] = old
  \/ k \in DOMAIN items /\ new[k] = ValueOf(k, items[k], FALSE)

\* So it is for a key with one name.
LEMMA ReadsOrKeepsSimple ==
  ASSUME NEW reading, NEW items, NEW k \in Simple, k \in DOMAIN reading.config
  PROVE  HasOrReads(ApplyItems(reading, items, FALSE).config, reading.config[k], items, k)
<1>1. FirstName(k) = k /\ LastName(k) = k BY Names DEF Simple
<1>2. KeepsOrReads(ApplyItems(reading, items, FALSE).config, reading.config, items, FALSE) BY ReadsOrKeeps
<1> QED BY <1>1, <1>2 DEF KeepsOrReads, HasOrReads

\* Even a reading that failed has for an advanced key what an item says, or the
\* default.
LEMMA ConfigHas ==
  ASSUME NEW p, DOMAIN p.secrets \subseteq SecretKeys
  PROVE  /\ DOMAIN FromConnection(p).config = ConfigKeys
         /\ \A k \in Simple : HasOrReads(FromConnection(p).config, Absent(k), p.data, k)
<1> DEFINE start == Beginning(p)
           first == ApplyItems(start, p.data, FALSE)
           whole == FromConnection(p)
<1>1. whole = ApplyItems(first, p.secrets, TRUE) BY DEF FromConnection, Beginning
<1>0. /\ DOMAIN start.config = ConfigKeys
      /\ \A k \in PlainKeys : start.config[k] = IF k = "user-name" THEN p.user ELSE Absent(k)
  BY BeginningHas
<1> HIDE DEF start
<1>2. DOMAIN first.config = ConfigKeys BY <1>0, ReadsOrKeeps DEF KeepsOrReads
<1>3. DOMAIN whole.config = ConfigKeys
  <2> HIDE DEF first, whole
  <2> QED BY <1>1, <1>2, ReadsOrKeeps DEF KeepsOrReads
<1>4. ASSUME NEW k \in Simple
      PROVE  HasOrReads(whole.config, Absent(k), p.data, k)
  <2>1. k \in PlainKeys /\ k # "user-name" /\ k \in ConfigKeys /\ FirstName(k) = k /\ LastName(k) = k
    BY Names DEF Simple, PlainKeys
  <2>2. start.config[k] = Absent(k) /\ k \in DOMAIN start.config BY <1>0, <2>1
  <2>0. first = ApplyItems(start, p.data, FALSE) OBVIOUS
  <2> HIDE DEF first
  <2>3. HasOrReads(first.config, start.config[k], p.data, k)
    BY <2>0, <2>2, ReadsOrKeepsSimple
  <2> HIDE DEF first, whole
  <2>4. whole.config[k] = first.config[k] BY <1>1, <1>2, <2>1, SecretsAside
  <2> QED BY <2>1, <2>2, <2>3, <2>4 DEF HasOrReads
<1> QED BY <1>3, <1>4 DEF whole

\* A configuration that was read without a failure has what the items say.
LEMMA ConfigIs ==
  ASSUME NEW p, DOMAIN p.secrets \subseteq SecretKeys
  PROVE  /\ FromConnection(p).ok <=> ItemsParse(p.data)
         /\ FromConnection(p).ok => \A k \in PlainKeys :
              FromConnection(p).config[k] =
                IF LastName(k) \in DOMAIN p.data THEN ValueOf(k, p.data[LastName(k)], FALSE)
                ELSE IF FirstName(k) \in DOMAIN p.data THEN ValueOf(k, p.data[FirstName(k)], FALSE)
                ELSE IF k = "user-name" THEN p.user ELSE Absent(k)
<1> DEFINE start == Beginning(p)
           first == ApplyItems(start, p.data, FALSE)
           whole == FromConnection(p)
<1>1. whole = ApplyItems(first, p.secrets, TRUE) BY DEF FromConnection, Beginning
<1>2. start.ok /\ DOMAIN start.config = ConfigKeys BY BeginningHas
<1>3. SecretKeys \cup {"user-name"} \subseteq DOMAIN start.config BY BeginningsAgree
<1>4. first.ok <=> ItemsParse(p.data) BY <1>2, OkIfParsed
<1>5. first.ok => first.config = Taken(start, p.data, FALSE)
  <2> HIDE DEF start
  <2> QED BY <1>2, ReadingTakesAll
<1>6. DOMAIN first.config = ConfigKeys BY <1>2, ReadsOrKeeps DEF KeepsOrReads
<1>7. \A k \in PlainKeys : start.config[k] = IF k = "user-name" THEN p.user ELSE Absent(k)
  BY BeginningHas
<1> HIDE DEF start
<1>8. first = ApplyItems(start, p.data, FALSE) OBVIOUS
<1> HIDE DEF first, whole
<1>9. whole.ok <=> first.ok
  <2>1. SecretsRead(first, whole, p.secrets) BY <1>1, <1>2, <1>3, <1>8, TwoReadings
  <2> QED BY <2>1 DEF SecretsRead
<1>10. ASSUME whole.ok, NEW k \in PlainKeys
       PROVE  whole.config[k] =
                IF LastName(k) \in DOMAIN p.data THEN ValueOf(k, p.data[LastName(k)], FALSE)
                ELSE IF FirstName(k) \in DOMAIN p.data THEN ValueOf(k, p.data[FirstName(k)], FALSE)
                ELSE IF k = "user-name" THEN p.user ELSE Absent(k)
  <2>1. k \in ConfigKeys /\ FirstName(k) \in Keys /\ LastName(k) \in Keys BY Names DEF PlainKeys
  <2>2. whole.config[k] = first.config[k] BY <1>1, <1>6, <2>1, SecretsAside
  <2>3. first.config = Taken(start, p.data, FALSE) BY <1>5, <1>9, <1>10
  <2>4. Taken(start, p.data, FALSE)[k] =
                IF LastName(k) \in DOMAIN p.data THEN ValueOf(k, p.data[LastName(k)], FALSE)
                ELSE IF FirstName(k) \in DOMAIN p.data THEN ValueOf(k, p.data[FirstName(k)], FALSE)
                ELSE start.config[k]
    BY <1>2, <2>1 DEF Taken
  <2> QED BY <1>7, <2>2, <2>3, <2>4
<1> QED BY <1>4, <1>9, <1>10 DEF whole

\* What a value is without an item.
SetByDefault(k) == k = "set-routing-domains"
DefaultOf(k) ==
     CASE k \in TextKeys \cup ListKeys -> <<>>
       [] k \in BoolKeys -> SetByDefault(k)
       [] k \in SecretKeys -> FALSE
       [] k = "tunnel-type" -> "ipsec"
       [] k = "transport-type" -> "auto"
       [] k = "password-factor" -> 1
       [] k = "ike-lifetime" -> 28800
       [] k = "mtu" -> 1300
       [] k = "dns-priority" -> -100
       [] OTHER -> 0

\* It is what the defaults have.
LEMMA DefaultsHave == \A k \in ConfigKeys : Defaults[k] = DefaultOf(k)
<1>1. Defaults = [k \in ConfigKeys |-> DefaultOf(k)] BY DEF Defaults, DefaultOf, SetByDefault
<1> QED BY <1>1

\* The defaults of the kinds the editors show.
LEMMA DefaultsAre ==
  /\ \A k \in TextKeys \cup ListKeys : Defaults[k] = <<>>
  /\ \A k \in BoolKeys : Defaults[k] \in BOOLEAN
  /\ Defaults["tunnel-type"] = "ipsec" /\ Defaults["transport-type"] = "auto"
<1>0. /\ {"tunnel-type", "transport-type"} = DOMAIN Options
      /\ {"password-factor", "ike-lifetime", "mtu", "dns-priority"} \subseteq NumberKeys
  BY DEF Options, NumberKeys, UintKeys
<1>a. ASSUME NEW k \in TextKeys \cup ListKeys \cup BoolKeys
      PROVE  /\ k \in ConfigKeys /\ k \notin SecretKeys
             /\ k \notin {"tunnel-type", "transport-type", "password-factor", "ike-lifetime", "mtu", "dns-priority"}
             /\ (k \in TextKeys \cup ListKeys <=> k \notin BoolKeys)
  BY <1>0, Kinds DEF IsText, IsList, IsBool, ConfigKeys
<1>1. ASSUME NEW k \in TextKeys \cup ListKeys PROVE Defaults[k] = <<>>
  <2>1. /\ k \in TextKeys \cup ListKeys /\ k \notin BoolKeys /\ k \notin SecretKeys
        /\ k \notin {"tunnel-type", "transport-type", "password-factor", "ike-lifetime", "mtu", "dns-priority"}
    BY <1>a
  <2>2. DefaultOf(k) = <<>> BY <2>1 DEF DefaultOf
  <2> QED BY <1>a, <2>2, DefaultsHave
<1>2. ASSUME NEW k \in BoolKeys PROVE Defaults[k] \in BOOLEAN
  <2>1. /\ k \notin TextKeys \cup ListKeys /\ k \in BoolKeys /\ k \notin SecretKeys
        /\ k \notin {"tunnel-type", "transport-type", "password-factor", "ike-lifetime", "mtu", "dns-priority"}
    BY <1>a
  <2>2. DefaultOf(k) = SetByDefault(k) BY <2>1 DEF DefaultOf
  <2>3. SetByDefault(k) \in BOOLEAN BY DEF SetByDefault
  <2> QED BY <1>a, <2>2, <2>3, DefaultsHave
<1>3. "tunnel-type" \in DOMAIN Options /\ "transport-type" \in DOMAIN Options BY DEF Options
<1>4. ASSUME NEW k \in DOMAIN Options
      PROVE  k \in ConfigKeys /\ k \notin TextKeys \cup ListKeys \cup BoolKeys \cup SecretKeys
  BY Kinds DEF IsOption, ConfigKeys
<1>5. Defaults["tunnel-type"] = "ipsec" BY <1>3, <1>4 DEF Defaults
<1>6. Defaults["transport-type"] = "auto" BY <1>3, <1>4 DEF Defaults
<1> QED BY <1>1, <1>2, <1>5, <1>6

\* The configuration in force, if the profile can be read.
LEMMA EffectiveIs ==
  ASSUME NEW p, DOMAIN p.secrets \subseteq SecretKeys
  PROVE  /\ DOMAIN Effective(p) = PlainKeys
         /\ FromConnection(p).ok =>
              \A k \in PlainKeys : Effective(p)[k] = InForce(k, p.data, p.user)
<1> DEFINE config == FromConnection(p).config
<1>1. DOMAIN config = ConfigKeys BY ConfigHas
<1>2. Effective(p) = [k \in PlainKeys |->
                        IF k = "if-name" /\ config[k] = <<>> THEN DefaultIfName ELSE config[k]]
  BY <1>1 DEF Effective, PlainKeys
<1>3. FromConnection(p).ok => \A k \in PlainKeys :
              config[k] =
                IF LastName(k) \in DOMAIN p.data THEN ValueOf(k, p.data[LastName(k)], FALSE)
                ELSE IF FirstName(k) \in DOMAIN p.data THEN ValueOf(k, p.data[FirstName(k)], FALSE)
                ELSE IF k = "user-name" THEN p.user ELSE Absent(k)
  BY ConfigIs
<1> HIDE DEF config
<1>4. ASSUME FromConnection(p).ok, NEW k \in PlainKeys
      PROVE  Effective(p)[k] = InForce(k, p.data, p.user)
  <2>1. CASE k = "user-name"
    <3>1. \A v : ValueOf("user-name", v, FALSE) = v
      BY Kinds DEF ValueOf, IsText, TextKeys
    <3>2. Effective(p)[k] = config[k] BY <1>2, <2>1
    <3>3. config[k] = IF LastName(k) \in DOMAIN p.data THEN ValueOf(k, p.data[LastName(k)], FALSE)
                      ELSE IF FirstName(k) \in DOMAIN p.data THEN ValueOf(k, p.data[FirstName(k)], FALSE)
                      ELSE p.user
      BY <1>3, <1>4, <2>1
    <3>4. FirstName(k) = "user-name" /\ LastName(k) = "username" BY <2>1, Names
    <3>5. config[k] = IF "username" \in DOMAIN p.data THEN p.data["username"]
                      ELSE IF "user-name" \in DOMAIN p.data THEN p.data["user-name"] ELSE p.user
      BY <2>1, <3>1, <3>3, <3>4
    <3> QED BY <2>1, <3>2, <3>5 DEF InForce
  <2>2. CASE k = "server-name"
    <3>1. \A v : ValueOf("server-name", v, FALSE) = v
      BY Kinds DEF ValueOf, IsText, TextKeys
    <3>2. Effective(p)[k] = config[k] BY <1>2, <2>2
    <3>3. Absent("server-name") = <<>> BY DefaultsAre DEF Absent, TextKeys
    <3>4. config[k] = IF LastName(k) \in DOMAIN p.data THEN ValueOf(k, p.data[LastName(k)], FALSE)
                      ELSE IF FirstName(k) \in DOMAIN p.data THEN ValueOf(k, p.data[FirstName(k)], FALSE)
                      ELSE Absent(k)
      BY <1>3, <1>4, <2>2
    <3>5. FirstName(k) = "server" /\ LastName(k) = "server-name" BY <2>2, Names
    <3>6. config[k] = IF "server-name" \in DOMAIN p.data THEN p.data["server-name"]
                      ELSE IF "server" \in DOMAIN p.data THEN p.data["server"] ELSE <<>>
      BY <2>2, <3>1, <3>3, <3>4, <3>5
    <3> QED BY <2>2, <3>2, <3>6 DEF InForce
  <2>3. CASE k /= "user-name" /\ k /= "server-name"
    <3>1. FirstName(k) = k /\ LastName(k) = k BY <2>3, Names
    <3>2. config[k] = IF k \in DOMAIN p.data THEN ValueOf(k, p.data[k], FALSE) ELSE Absent(k)
      BY <1>3, <1>4, <2>3, <3>1
    <3>3. InForce(k, p.data, p.user) = ItemReads(k, p.data) BY <2>3 DEF InForce
    <3>4. CASE k /= "if-name"
      <4>1. Effective(p)[k] = config[k] BY <1>2, <3>4
      <4> QED BY <3>2, <3>3, <3>4, <4>1 DEF ItemReads, Reads
    <3>5. CASE k = "if-name"
      <4>1. \A v : ValueOf("if-name", v, FALSE) = v
        BY Kinds DEF ValueOf, IsText, TextKeys
      <4>2. Effective(p)[k] = IF config[k] = <<>> THEN DefaultIfName ELSE config[k] BY <1>2, <3>5
      <4>3. Absent("if-name") = DefaultIfName BY DEF Absent
      <4> QED BY <3>2, <3>3, <3>5, <4>1, <4>2, <4>3 DEF ItemReads, Reads, DefaultIfName
    <3> QED BY <3>4, <3>5
  <2> QED BY <2>1, <2>2, <2>3
<1> QED BY <1>2, <1>4

-----------------------------------------------------------------------------
(* What the widgets hold, and what is written of it.                       *)

\* The numbers of the spin buttons, and what a button makes of one.
Low(k) == SpinRange[k][1]
High(k) == SpinRange[k][2]

\* The bounds are in order, and none allows a negative number where none parses.
LEMMA SpinBounds ==
  ASSUME NEW k \in DOMAIN SpinRange
  PROVE  /\ Low(k) \in Int /\ High(k) \in Int /\ Low(k) <= High(k)
         /\ k \in UintKeys => Low(k) >= 0
<1>1. CASE k = "mtu"
  <2>1. SpinRange[k] = <<576, 9000>> BY <1>1 DEF SpinRange
  <2> QED BY <2>1 DEF Low, High
<1>2. CASE k = "dns-priority"
  <2>1. SpinRange[k] = <<-1000, 1000>> BY <1>2 DEF SpinRange
  <2>2. k \notin UintKeys BY <1>2 DEF UintKeys
  <2> QED BY <2>1, <2>2 DEF Low, High
<1>3. CASE k /= "mtu" /\ k /= "dns-priority"
  <2>1. SpinRange[k] = <<0, 604800>> BY <1>3 DEF SpinRange
  <2> QED BY <2>1 DEF Low, High
<1> QED BY <1>1, <1>2, <1>3

\* Whatever a text is read as is a number that can be written.
LEMMA NumbersRead == \A text : NumberIn(text) \in Numbers
<1>1. 0 \in Numbers BY ProfileConstants DEF None
<1>2. ASSUME NEW text PROVE NumberIn(text) \in Numbers
  <2>1. CASE IsNumeral(text)
    <3>1. (CHOOSE n \in Numbers : text = Numeral(n)) \in Numbers BY <2>1 DEF IsNumeral
    <3> QED BY <2>1, <3>1 DEF NumberIn
  <2>2. CASE ~IsNumeral(text) BY <1>1, <2>2 DEF NumberIn
  <2> QED BY <2>1, <2>2
<1> QED BY <1>2

\* A spin button shows a number it would leave alone.
LEMMA Clamped ==
  ASSUME NEW k \in DOMAIN SpinRange, NEW n \in Numbers
  PROVE  /\ Clamp(k, n) \in Numbers
         /\ Clamp(k, Clamp(k, n)) = Clamp(k, n)
<1>1. Numbers \subseteq Int /\ Low(k) \in Numbers /\ High(k) \in Numbers
  BY WidgetConstants DEF Low, High
<1>2. \A m : Clamp(k, m) = IF m < Low(k) THEN Low(k) ELSE IF m > High(k) THEN High(k) ELSE m
  BY DEF Clamp, Low, High
<1>3. n \in Int BY <1>1
<1> QED BY <1>1, <1>2, <1>3, SpinBounds

\* A number a spin button leaves alone parses.
LEMMA WithinBounds ==
  ASSUME NEW k \in DOMAIN SpinRange, NEW n \in Numbers, Clamp(k, n) = n, k \in UintKeys
  PROVE  n >= 0
<1>1. n \in Int BY WidgetConstants
<1>2. Clamp(k, n) = IF n < Low(k) THEN Low(k) ELSE IF n > High(k) THEN High(k) ELSE n
  BY DEF Clamp, Low, High
<1> QED BY <1>1, <1>2, SpinBounds

\* A number the button shows is written as it stands.
LEMMA NumberReads ==
  ASSUME NEW k \in DOMAIN SpinRange
  PROVE  /\ \A text : ValueOf(k, text, FALSE) = NumberIn(text)
         /\ k \notin BoolKeys \cup ListKeys \cup DOMAIN Options /\ k /= "if-name"
         /\ k \in NumberKeys /\ k /= "password-factor"
<1>1. k \in NumberKeys /\ k /= "password-factor" BY AdvancedKinds
<1>2. IsNumber(k) BY <1>1, Kinds
<1>3. \A text : ValueOf(k, text, FALSE) = NumberIn(text) BY <1>1, <1>2 DEF ValueOf, IsNumber
<1> QED BY <1>1, <1>2, <1>3 DEF IsNumber

\* How the value of a check box is read.
LEMMA BoolReads ==
  ASSUME NEW k \in BoolKeys
  PROVE  /\ \A text : ValueOf(k, text, FALSE) = (Lower(text) \in Yes)
         /\ \A text : Parses(k, text) <=> Lower(text) \in Yes \cup No
         /\ k \notin ListKeys \cup DOMAIN SpinRange \cup DOMAIN Options /\ k /= "if-name"
<1>1. IsBool(k) BY Kinds
<1>2. ASSUME NEW text PROVE ValueOf(k, text, FALSE) = (Lower(text) \in Yes)
  BY <1>1 DEF ValueOf, IsBool
<1>3. \A text : Parses(k, text) <=> Lower(text) \in Yes \cup No
  BY <1>1 DEF Parses, IsBool, NumberKeys
<1> QED BY <1>1, <1>2, <1>3, AdvancedKinds DEF IsBool

\* How a list is read.
LEMMA ListReads ==
  ASSUME NEW k \in ListKeys
  PROVE  /\ \A text : ValueOf(k, text, FALSE) = SplitCsv(text) /\ Parses(k, text)
         /\ k \notin BoolKeys \cup DOMAIN SpinRange \cup DOMAIN Options /\ k /= "if-name"
<1>1. IsList(k) BY Kinds
<1>2. \A text : ValueOf(k, text, FALSE) = SplitCsv(text) BY <1>1 DEF ValueOf, IsList
<1>3. \A text : Parses(k, text) BY <1>1 DEF Parses, IsList, NumberKeys
<1> QED BY <1>1, <1>2, <1>3, AdvancedKinds DEF IsList

\* How a text is read.
LEMMA TextReads ==
  ASSUME NEW k \in TextKeys
  PROVE  /\ \A text : ValueOf(k, text, FALSE) = text /\ Parses(k, text)
         /\ k \notin BoolKeys \cup DOMAIN SpinRange \cup DOMAIN Options \cup ListKeys
<1>1. IsText(k) BY Kinds
<1>2. \A text : ValueOf(k, text, FALSE) = text BY <1>1 DEF ValueOf, IsText
<1>3. \A text : Parses(k, text) BY <1>1 DEF Parses, IsText, NumberKeys
<1> QED BY <1>1, <1>2, <1>3, AdvancedKinds DEF IsText

\* A text that is read as what a widget means, and may be left out if it is empty.
Carries(text, k, v) ==
  /\ Parses(k, text)
  /\ Reads(k, text) = Meaning(k, v)
  /\ text = <<>> => Absent(k) = Meaning(k, v)

\* The items that are texts of the user's.
FreeKeys == ListKeys \cup {"if-name"}

\* Of one word, the lower case is one word.
LEMMA LowerOne == \A v : Lower(<<v>>) = <<Lower(<<v>>)[1]>> /\ DOMAIN <<v>> = {1}
<1>1. ASSUME NEW v PROVE Lower(<<v>>) = <<Lower(<<v>>)[1]>> /\ DOMAIN <<v>> = {1}
  <2>1. DOMAIN <<v>> = {1} OBVIOUS
  <2> DEFINE w == Lower(<<v>>)[1]
  <2>2. Lower(<<v>>) = [i \in {1} |-> w] BY <2>1 DEF Lower
  <2> HIDE DEF w
  <2>3. [i \in {1} |-> w] = <<w>> OBVIOUS
  <2> QED BY <2>1, <2>2, <2>3 DEF w
<1> QED BY <1>1

\* Words in the spelling the editors write are left alone.
EditorWords == {"true", "false", "ipsec", "ssl", "auto", "kernel", "udp", "tcpt"}

\* They are in lower case.
LEMMA LowerKeeps == \A v \in EditorWords : Lower(<<v>>) = <<v>>
<1>1. ASSUME NEW v \in EditorWords PROVE Lower(<<v>>) = <<v>>
  <2>1. v /= "TRUE" /\ v /= "Yes" /\ v /= "SSL" /\ v /= "UDP" BY DEF EditorWords
  <2>2. 1 \in DOMAIN <<v>> /\ <<v>>[1] = v OBVIOUS
  <2>3. Lower(<<v>>)[1] = v BY <2>1, <2>2 DEF Lower
  <2> QED BY <2>3, LowerOne
<1> QED BY <1>1

\* What a widget holds is written as something the service reads as it is meant.
LEMMA WrittenReads ==
  ASSUME NEW k \in AdvancedKeys, NEW v, Enterable(k, v)
  PROVE  /\ Carries(Written(k, v), k, v)
         /\ k \in FreeKeys => Written(k, v) \in Seq(Words)
<1>1. CASE k = "if-name"
  <2>1. k \in TextKeys BY <1>1 DEF TextKeys
  <2>2. k \notin BoolKeys \cup DOMAIN SpinRange \cup DOMAIN Options \cup ListKeys BY <2>1, TextReads
  <2>3. Written(k, v) = v /\ v \in Seq(Words) BY <2>2 DEF Written, Enterable
  <2>4. Meaning(k, v) = Reads(k, v) BY <1>1, <2>1, <2>2, TextReads DEF Meaning, Reads
  <2>5. v = <<>> => Reads(k, v) = Absent(k) BY <1>1 DEF Reads, Absent
  <2>6. Parses(k, v) BY <2>1, TextReads
  <2> QED BY <2>3, <2>4, <2>5, <2>6 DEF Carries
<1>2. CASE k \in ListKeys
  <2>2. k \notin BoolKeys \cup DOMAIN SpinRange \cup DOMAIN Options /\ k /= "if-name" BY <1>2, ListReads
  <2>3. Written(k, v) = v /\ v \in Seq(Words) BY <2>2 DEF Written, Enterable
  <2>4. Meaning(k, v) = SplitCsv(v) BY <1>2, <2>2 DEF Meaning
  <2>5. Reads(k, v) = SplitCsv(v) /\ Parses(k, v) BY <1>2, <2>2, ListReads DEF Reads
  <2>6. Absent(k) = <<>> BY <1>2, <2>2, DefaultsAre DEF Absent
  <2>7. SplitCsv(<<>>) = <<>> BY ReadCsvEmpty DEF SplitCsv, PartsOf, NothingRead
  <2> QED BY <2>3, <2>4, <2>5, <2>6, <2>7 DEF Carries
<1>3. CASE k \in BoolKeys
  <2>2. k \notin ListKeys \cup DOMAIN SpinRange \cup DOMAIN Options /\ k /= "if-name" BY <1>3, BoolReads
  <2>3. v \in BOOLEAN BY <1>3, <2>2 DEF Enterable
  <2>4. Meaning(k, v) = v BY <2>2 DEF Meaning
  <2>5. CASE v = TRUE
    <3>1. Written(k, v) = <<"true">> BY <1>3, <2>2, <2>5 DEF Written
    <3>2. Lower(<<"true">>) = <<"true">> BY LowerKeeps DEF EditorWords
    <3>3. <<"true">> \in Yes BY DEF Yes
    <3>4. Parses(k, <<"true">>) BY <1>3, <3>2, <3>3, BoolReads
    <3>5. Reads(k, <<"true">>) = TRUE BY <1>3, <2>2, <3>2, <3>3, BoolReads DEF Reads
    <3>6. k \notin FreeKeys BY <2>2 DEF FreeKeys
    <3>7. <<"true">> /= <<>> OBVIOUS
    <3> QED BY <2>4, <2>5, <3>1, <3>4, <3>5, <3>6, <3>7 DEF Carries
  <2>6. CASE v = FALSE
    <3>1. Written(k, v) = <<"false">> BY <1>3, <2>2, <2>6 DEF Written
    <3>2. Lower(<<"false">>) = <<"false">> BY LowerKeeps DEF EditorWords
    <3>3. <<"false">> \in No /\ <<"false">> \notin Yes BY DEF Yes, No
    <3>4. Parses(k, <<"false">>) BY <1>3, <3>2, <3>3, BoolReads
    <3>5. Reads(k, <<"false">>) = FALSE
      <4>1. ValueOf(k, <<"false">>, FALSE) = (Lower(<<"false">>) \in Yes) BY <1>3, BoolReads
      <4>2. (Lower(<<"false">>) \in Yes) = FALSE BY <3>2, <3>3
      <4> QED BY <2>2, <4>1, <4>2 DEF Reads
    <3>6. k \notin FreeKeys BY <2>2 DEF FreeKeys
    <3>7. <<"false">> /= <<>> OBVIOUS
    <3> QED BY <2>4, <2>6, <3>1, <3>4, <3>5, <3>6, <3>7 DEF Carries
  <2> QED BY <2>3, <2>5, <2>6
<1>4. CASE k \in DOMAIN SpinRange
  <2>2. /\ k \notin BoolKeys \cup ListKeys \cup DOMAIN Options /\ k /= "if-name"
        /\ k \in NumberKeys /\ k /= "password-factor"
    BY <1>4, NumberReads
  <2>3. v \in Numbers /\ Clamp(k, v) = v BY <1>4, <2>2 DEF Enterable
  <2>4. Written(k, v) = Numeral(v) BY <1>4, <2>2 DEF Written
  <2>5. Meaning(k, v) = v BY <2>2 DEF Meaning
  <2>6. NumberIn(Numeral(v)) = v /\ IsNumeral(Numeral(v)) BY <2>3, NumeralsReadBack DEF IsNumeral
  <2>7. Reads(k, Numeral(v)) = v BY <1>4, <2>2, <2>6, NumberReads DEF Reads
  <2>8. k \in UintKeys => v >= 0 BY <1>4, <2>3, WithinBounds
  <2>9. Parses(k, Numeral(v)) BY <2>2, <2>6, <2>8 DEF Parses
  <2>10. Numeral(v) /= <<>> /\ k \notin FreeKeys BY <2>2 DEF Numeral, FreeKeys
  <2> QED BY <2>4, <2>5, <2>7, <2>9, <2>10 DEF Carries
<1> QED BY <1>1, <1>2, <1>3, <1>4, AdvancedKinds

-----------------------------------------------------------------------------
(* What the editors show when they open.                                   *)

\* What is typed where a user types freely.
TextsTyped(data) == \A k \in FreeKeys \cap DOMAIN data : data[k] \in Seq(Words)
FormTyped(values) == DOMAIN values = AdvancedKeys /\ \A k \in AdvancedKeys : Enterable(k, values[k])
AdvancedShows(values, config) == \A k \in AdvancedKeys : Meaning(k, values[k]) = config[k]

\* What the GNOME editor shows of a configuration, and what it then stands for.
Shown(config) == [k \in AdvancedKeys |-> CASE k \in ListKeys -> Join(config[k])
                                           [] k \in DOMAIN SpinRange -> Clamp(k, config[k])
                                           [] OTHER -> config[k]]
Adjusted(e) == [k \in DOMAIN e |-> IF k \in DOMAIN SpinRange THEN Clamp(k, e[k]) ELSE e[k]]

\* What is in force of a profile that may not parse.
LEMMA EffectiveHas ==
  ASSUME NEW p, DOMAIN p.secrets \subseteq SecretKeys
  PROVE  /\ DOMAIN Effective(p) = PlainKeys
         /\ \A k \in PlainKeys : Effective(p)[k] =
              IF k = "if-name" /\ FromConnection(p).config[k] = <<>> THEN DefaultIfName
              ELSE FromConnection(p).config[k]
<1> DEFINE config == FromConnection(p).config
<1>1. DOMAIN config = ConfigKeys BY ConfigHas
<1>2. Effective(p) = [k \in PlainKeys |->
                        IF k = "if-name" /\ config[k] = <<>> THEN DefaultIfName ELSE config[k]]
  BY <1>1 DEF Effective, PlainKeys
<1> HIDE DEF config
<1> QED BY <1>2 DEF config

\* The keys of the advanced dialog have one name.
LEMMA AdvancedAreSimple == AdvancedKeys \subseteq Simple
<1>1. "server-name" \in MainKeys /\ "user-name" \in MainKeys BY DEF MainKeys
<1> QED BY <1>1, AdvancedArePlain DEF Simple

\* Whatever the profile says, the editor shows something that can be entered,
\* and that means what is in force.
LEMMA ShownIsMeant ==
  ASSUME NEW p, DOMAIN p.secrets \subseteq SecretKeys, TextsTyped(p.data)
  PROVE  /\ FormTyped(Shown(FromConnection(p).config))
         /\ AdvancedShows(Shown(FromConnection(p).config), Adjusted(Effective(p)))
<1> DEFINE config == FromConnection(p).config
           values == Shown(config)
           meant == Adjusted(Effective(p))
<1>1. \A k \in AdvancedKeys : HasOrReads(config, Absent(k), p.data, k)
  BY ConfigHas, AdvancedAreSimple
<1>2. \A k \in AdvancedKeys : meant[k] =
        IF k \in DOMAIN SpinRange THEN Clamp(k, Effective(p)[k]) ELSE Effective(p)[k]
  BY EffectiveHas, AdvancedArePlain DEF Adjusted
<1>3. \A k \in AdvancedKeys : Effective(p)[k] =
        IF k = "if-name" /\ config[k] = <<>> THEN DefaultIfName ELSE config[k]
  BY EffectiveHas, AdvancedArePlain
<1>4. \A k \in AdvancedKeys : values[k] = CASE k \in ListKeys -> Join(config[k])
                                            [] k \in DOMAIN SpinRange -> Clamp(k, config[k])
                                            [] OTHER -> config[k]
  BY DEF Shown
<1>5. DOMAIN values = AdvancedKeys BY DEF Shown
<1> HIDE DEF config, values, meant
<1>6. ASSUME NEW k \in AdvancedKeys
      PROVE  Enterable(k, values[k]) /\ Meaning(k, values[k]) = meant[k]
  <2>0. HasOrReads(config, Absent(k), p.data, k) BY <1>1
  <2>1. CASE k = "if-name"
    <3>1. k \in TextKeys BY <2>1 DEF TextKeys
    <3>2. k \notin BoolKeys \cup DOMAIN SpinRange \cup DOMAIN Options \cup ListKeys BY <3>1, TextReads
    <3>3. values[k] = config[k] BY <1>4, <3>2
    <3>4. config[k] = DefaultIfName \/ (k \in DOMAIN p.data /\ config[k] = p.data[k])
      BY <2>0, <2>1, <3>1, TextReads DEF HasOrReads, Absent
    <3>5. config[k] \in Seq(Words)
      BY <2>1, <3>4, WidgetConstants DEF TextsTyped, FreeKeys
    <3>6. Enterable(k, values[k]) BY <3>2, <3>3, <3>5 DEF Enterable
    <3>7. meant[k] = IF config[k] = <<>> THEN DefaultIfName ELSE config[k] BY <1>2, <1>3, <2>1, <3>2
    <3>8. Meaning(k, values[k]) = IF config[k] = <<>> THEN DefaultIfName ELSE config[k]
      BY <2>1, <3>2, <3>3 DEF Meaning
    <3> QED BY <3>6, <3>7, <3>8
  <2>2. CASE k \in ListKeys
    <3>2. k \notin BoolKeys \cup DOMAIN SpinRange \cup DOMAIN Options /\ k /= "if-name" BY <2>2, ListReads
    <3>3. values[k] = Join(config[k]) BY <1>4, <2>2, <3>2
    <3>4. config[k] = <<>> \/ (k \in DOMAIN p.data /\ config[k] = SplitCsv(p.data[k]))
      BY <2>0, <2>2, <3>2, ListReads, DefaultsAre DEF HasOrReads, Absent
    <3>5. Join(config[k]) \in Seq(Words) /\ SplitCsv(Join(config[k])) = config[k]
      <4>1. CASE config[k] = <<>>
        <5>1. SplitCsv(<<>>) = <<>> BY ReadCsvEmpty DEF SplitCsv, PartsOf, NothingRead
        <5>2. <<>> \in Seq(Words) OBVIOUS
        <5> QED BY <4>1, <5>1, <5>2, JoinEmpty
      <4>2. CASE k \in DOMAIN p.data /\ config[k] = SplitCsv(p.data[k])
        <5>1. p.data[k] \in Seq(Words) BY <2>2, <4>2 DEF TextsTyped, FreeKeys
        <5>2. HasSeparators(Words) BY WidgetConstants DEF HasSeparators
        <5> DEFINE text == p.data[k]
        <5> HIDE DEF text
        <5>3. text \in Seq(Words) BY <5>1 DEF text
        <5>4. Join(SplitCsv(text)) \in Seq(Words) /\ SplitCsv(Join(SplitCsv(text))) = SplitCsv(text)
          BY <5>2, <5>3, ListsRoundTrip
        <5> QED BY <4>2, <5>4 DEF text
      <4> QED BY <3>4, <4>1, <4>2
    <3>6. Enterable(k, values[k]) BY <3>2, <3>3, <3>5 DEF Enterable
    <3>7. meant[k] = config[k] BY <1>2, <1>3, <3>2
    <3>8. Meaning(k, values[k]) = SplitCsv(values[k]) BY <2>2, <3>2 DEF Meaning
    <3> QED BY <3>3, <3>5, <3>6, <3>7, <3>8
  <2>3. CASE k \in BoolKeys
    <3>2. k \notin ListKeys \cup DOMAIN SpinRange \cup DOMAIN Options /\ k /= "if-name" BY <2>3, BoolReads
    <3>3. values[k] = config[k] BY <1>4, <3>2
    <3>4. config[k] \in BOOLEAN
      <4>1. CASE config[k] = Absent(k) BY <2>3, <3>2, <4>1, DefaultsAre DEF Absent
      <4>2. CASE config[k] = ValueOf(k, p.data[k], FALSE)
        <5>1. ValueOf(k, p.data[k], FALSE) = (Lower(p.data[k]) \in Yes) BY <2>3, BoolReads
        <5>2. (Lower(p.data[k]) \in Yes) \in BOOLEAN OBVIOUS
        <5> QED BY <4>2, <5>1, <5>2, Zenon
      <4> QED BY <2>0, <4>1, <4>2 DEF HasOrReads
    <3>6. Enterable(k, values[k]) BY <2>3, <3>2, <3>3, <3>4 DEF Enterable
    <3>7. meant[k] = config[k] BY <1>2, <1>3, <3>2
    <3>8. Meaning(k, values[k]) = values[k] BY <3>2 DEF Meaning
    <3> QED BY <3>3, <3>6, <3>7, <3>8
  <2>4. CASE k \in DOMAIN SpinRange
    <3>2. k \notin BoolKeys \cup ListKeys \cup DOMAIN Options /\ k /= "if-name" BY <2>4, NumberReads
    <3>3. values[k] = Clamp(k, config[k]) BY <1>4, <2>4, <3>2
    <3>4. config[k] \in Numbers
      <4>1. CASE config[k] = Absent(k)
        <5>1. Defaults[k] \in Numbers BY <2>4, WidgetConstants
        <5> QED BY <3>2, <4>1, <5>1 DEF Absent
      <4>2. CASE config[k] = ValueOf(k, p.data[k], FALSE)
        <5>1. ValueOf(k, p.data[k], FALSE) = NumberIn(p.data[k]) BY <2>4, NumberReads
        <5> QED BY <4>2, <5>1, NumbersRead
      <4> QED BY <2>0, <4>1, <4>2 DEF HasOrReads
    <3>5. Clamp(k, config[k]) \in Numbers /\ Clamp(k, Clamp(k, config[k])) = Clamp(k, config[k])
      BY <2>4, <3>4, Clamped
    <3>6. Enterable(k, values[k]) BY <2>4, <3>2, <3>3, <3>5 DEF Enterable
    <3>7. meant[k] = Clamp(k, config[k]) BY <1>2, <1>3, <2>4, <3>2
    <3>8. Meaning(k, values[k]) = values[k] BY <3>2 DEF Meaning
    <3> QED BY <3>3, <3>6, <3>7, <3>8
  <2> QED BY <2>1, <2>2, <2>3, <2>4, AdvancedKinds
<1>7. FormTyped(values) BY <1>5, <1>6 DEF FormTyped
<1>8. AdvancedShows(values, meant) BY <1>6 DEF AdvancedShows
<1> QED BY <1>7, <1>8 DEF values, meant, config

\* The options and their spelling.
LEMMA OptionsAre ==
  /\ DOMAIN Options = {"tunnel-type", "transport-type"}
  /\ ToSet(Options["tunnel-type"]) = {"ipsec", "ssl"}
  /\ ToSet(Options["transport-type"]) = {"auto", "kernel", "udp", "tcpt"}
  /\ \A k \in DOMAIN Options : ToSet(Options[k]) \subseteq EditorWords /\ Options[k][1] = Absent(k)
<1>1. DOMAIN Options = {"tunnel-type", "transport-type"} BY DEF Options
<1>2. Options["tunnel-type"] = <<"ipsec", "ssl">> BY DEF Options
<1>3. Options["transport-type"] = <<"auto", "kernel", "udp", "tcpt">> BY DEF Options
<1>4. ToSet(Options["tunnel-type"]) = {"ipsec", "ssl"} BY <1>2 DEF ToSet
<1>5. ToSet(Options["transport-type"]) = {"auto", "kernel", "udp", "tcpt"} BY <1>3 DEF ToSet
<1>6. Absent("tunnel-type") = "ipsec" /\ Absent("transport-type") = "auto" BY DefaultsAre DEF Absent
<1>7. Options["tunnel-type"][1] = "ipsec" /\ Options["transport-type"][1] = "auto" BY <1>2, <1>3
<1> QED BY <1>1, <1>4, <1>5, <1>6, <1>7 DEF EditorWords

\* How a choice is read.
LEMMA OptionReads ==
  ASSUME NEW k \in DOMAIN Options
  PROVE  /\ \A text : Parses(k, text) <=> Len(text) = 1 /\ Lower(text)[1] \in ToSet(Options[k])
         /\ \A text : ValueOf(k, text, FALSE) = Lower(text)[1]
         /\ k /= "if-name" /\ k /= "user-name" /\ k /= "server-name"
         /\ k \notin BoolKeys \cup DOMAIN SpinRange
<1>1. IsOption(k) BY Kinds
<1>2. \A text : Parses(k, text) <=> Len(text) = 1 /\ Lower(text)[1] \in ToSet(Options[k])
  BY <1>1 DEF Parses, IsOption, NumberKeys
<1>3. \A text : ValueOf(k, text, FALSE) = Lower(text)[1] BY <1>1 DEF ValueOf, IsOption
<1> QED BY <1>1, <1>2, <1>3, AdvancedKinds DEF IsOption

\* A choice is written so that it is read back.
LEMMA OptionWritten ==
  ASSUME NEW k \in DOMAIN Options, NEW v \in ToSet(Options[k])
  PROVE  Written(k, v) = <<v>> /\ Parses(k, <<v>>) /\ Reads(k, <<v>>) = v
<1>1. Lower(<<v>>) = <<v>> BY OptionsAre, LowerKeeps
<1>2. Len(<<v>>) = 1 /\ <<v>>[1] = v OBVIOUS
<1>3. Written(k, v) = <<v>> BY OptionReads DEF Written
<1>4. Parses(k, <<v>>) BY <1>1, <1>2, OptionReads
<1>5. Reads(k, <<v>>) = v BY <1>1, <1>2, OptionReads DEF Reads
<1> QED BY <1>3, <1>4, <1>5

\* An item that parses makes one of the options, and the Plasma editor chooses it.
LEMMA OptionShown ==
  ASSUME NEW k \in DOMAIN Options, NEW data, k \in DOMAIN data => Parses(k, data[k])
  PROVE  /\ ItemReads(k, data) \in ToSet(Options[k])
         /\ Choose(k, Item(data, k)) = ItemReads(k, data)
<1>1. CASE k \in DOMAIN data
  <2>1. Len(data[k]) = 1 /\ Lower(data[k])[1] \in ToSet(Options[k]) BY <1>1, OptionReads
  <2>2. ItemReads(k, data) = Lower(data[k])[1] BY <1>1, OptionReads DEF ItemReads, Reads
  <2>3. Item(data, k) = data[k] BY <1>1 DEF Item
  <2> QED BY <2>1, <2>2, <2>3 DEF Choose
<1>2. CASE k \notin DOMAIN data
  <2>1. Item(data, k) = <<>> BY <1>2 DEF Item
  <2>2. Len(<<>>) /= 1 OBVIOUS
  <2>3. Choose(k, Item(data, k)) = Options[k][1] BY <2>1, <2>2 DEF Choose
  <2>4. ItemReads(k, data) = Options[k][1] BY <1>2, OptionsAre DEF ItemReads
  <2>5. Options[k][1] \in ToSet(Options[k])
    BY OptionsAre DEF Options, ToSet
  <2> QED BY <2>3, <2>4, <2>5
<1> QED BY <1>1, <1>2

\* What the list of login types has chosen.
Chosen(l, v) == l = [ids |-> l.ids, at |-> l.at] /\ l.at \in DOMAIN l.ids /\ l.ids[l.at] = v

\* The editor shows the login type it was opened with.
LEMMA LoginShown == \A v : Chosen(SetLoginTypeOptions(OneOrNone(v), v), v)
<1>1. ASSUME NEW v PROVE Chosen(SetLoginTypeOptions(OneOrNone(v), v), v)
  <2>1. CASE v = <<>>
    <3>1. SetLoginTypeOptions(OneOrNone(v), v) = [ids |-> <<<<>>>>, at |-> 1]
      BY <2>1 DEF SetLoginTypeOptions, OneOrNone
    <3> QED BY <2>1, <3>1 DEF Chosen
  <2>2. CASE v /= <<>>
    <3>1. OneOrNone(v) = <<v>> /\ <<v>> /= <<>> BY <2>2 DEF OneOrNone
    <3>2. DOMAIN <<v>> = {1} /\ <<v>>[1] = v OBVIOUS
    <3>3. (CHOOSE i \in DOMAIN <<v>> : <<v>>[i] = v) = 1 BY <3>2
    <3>4. v \in ToSet(<<v>>) BY <3>2 DEF ToSet
    <3>5. SetLoginTypeOptions(OneOrNone(v), v) = [ids |-> <<v>>, at |-> 1]
      BY <3>1, <3>3, <3>4 DEF SetLoginTypeOptions
    <3> QED BY <3>2, <3>5 DEF Chosen
  <2> QED BY <2>1, <2>2
<1> QED BY <1>1

\* After a query, the login type stays if the gateway offers it.
LEMMA LoginOffered ==
  ASSUME NEW offer \in Offers, NEW v
  PROVE  Chosen(SetLoginTypeOptions(offer, v), IF v \in ToSet(offer) THEN v ELSE offer[1])
<1>1. offer \in Seq(Seq(Words)) /\ offer /= <<>> BY WidgetConstants
<1>2. 1 \in DOMAIN offer BY <1>1
<1>3. CASE v \in ToSet(offer)
  <2>1. PICK i \in DOMAIN offer : offer[i] = v BY <1>3 DEF ToSet
  <2> DEFINE at == CHOOSE j \in DOMAIN offer : offer[j] = v
  <2>2. at \in DOMAIN offer /\ offer[at] = v BY <2>1
  <2>3. SetLoginTypeOptions(offer, v) = [ids |-> offer, at |-> at] BY <1>1, <1>3 DEF SetLoginTypeOptions
  <2> HIDE DEF at
  <2> QED BY <1>3, <2>2, <2>3 DEF Chosen
<1>4. CASE v \notin ToSet(offer)
  <2>1. SetLoginTypeOptions(offer, v) = [ids |-> offer, at |-> 1] BY <1>1, <1>4 DEF SetLoginTypeOptions
  <2> QED BY <1>2, <1>4, <2>1 DEF Chosen
<1> QED BY <1>3, <1>4

\* The keys that no editor has a widget for.
BareKeys == {"keychain", "profile-name", "password-factor"}

\* Every key has a main widget, an advanced one, or none.
LEMMA KeysByWidget ==
  /\ PlainKeys = MainKeys \cup AdvancedKeys \cup {"login-type"} \cup BareKeys
  /\ BareKeys \cap (MainKeys \cup AdvancedKeys \cup {"login-type"}) = {}
  /\ BareKeys \cap Managed = {}
  /\ BareKeys \cap DOMAIN SpinRange = {}
  /\ MainKeys \cap DOMAIN SpinRange = {} /\ "login-type" \notin DOMAIN SpinRange
  /\ BareKeys \cup MainKeys \cup {"login-type"} \subseteq PlainKeys \ {"if-name"}
<1>1. MainKeys = {"server-name", "user-name", "tunnel-type", "transport-type", "cert-type",
                  "cert-path", "cert-id"}
  BY OptionsAre DEF MainKeys, CertKeys
<1>2. BareKeys \subseteq PlainKeys
  BY PlainKinds DEF BareKeys, BoolKeys, TextKeys, NumberKeys, UintKeys
<1>3. TextKeys \subseteq MainKeys \cup AdvancedKeys \cup {"login-type"} \cup BareKeys
  BY <1>1, AdvancedKinds DEF TextKeys, BareKeys
<1>4. ListKeys \cup BoolKeys \cup NumberKeys \cup DOMAIN Options \subseteq MainKeys \cup AdvancedKeys \cup BareKeys
  BY AdvancedKinds DEF MainKeys, BareKeys
<1>5. PlainKeys = MainKeys \cup AdvancedKeys \cup {"login-type"} \cup BareKeys
  BY <1>2, <1>3, <1>4, AdvancedArePlain, PlainKinds
<1>6. BareKeys \cap MainKeys = {} /\ "login-type" \notin BareKeys BY <1>1 DEF BareKeys
<1>7. BareKeys \cap AdvancedKeys = {}
  <2>1. "keychain" \notin AdvancedKeys
    <3>1. "keychain" \in BoolKeys BY DEF BoolKeys
    <3> QED BY <3>1, BoolReads, AdvancedKinds
  <2>2. "profile-name" \notin AdvancedKeys
    <3>1. "profile-name" \in TextKeys BY DEF TextKeys
    <3> QED BY <3>1, TextReads, AdvancedKinds
  <2>3. "password-factor" \notin AdvancedKeys
    <3>1. "password-factor" \in NumberKeys BY DEF NumberKeys, UintKeys
    <3> QED BY <3>1, Kinds, AdvancedKinds DEF IsNumber
  <2> QED BY <2>1, <2>2, <2>3 DEF BareKeys
<1>8. \A s \in SecretKeys : FlagsKey[s] \in {"password-flags", "cert-password-flags"} BY DEF FlagsKey
<1>9. BareKeys \cap Managed = {} BY <1>6, <1>7, <1>8 DEF Managed, BareKeys
<1>10. DOMAIN SpinRange \subseteq AdvancedKeys BY AdvancedKinds
<1>11. "if-name" \in AdvancedKeys BY AdvancedKinds
<1> QED BY <1>5, <1>6, <1>7, <1>9, <1>10, <1>11, AdvancedArePlain

\* The main widgets show what is meant, but for a name of the gateway that is
\* stored under the other key, and a user name that is stored as an item.
MainShows(m, l, config, hidden) ==
  /\ DOMAIN m = MainKeys
  /\ \A k \in MainKeys \ hidden : m[k] = config[k] \/ (k = "server-name" /\ m[k] = <<>>)
  /\ \A k \in DOMAIN Options : m[k] \in ToSet(Options[k])
  /\ Chosen(l, config["login-type"])

\* What no widget stands for is meant as it is stored.
BareShows(data, config) == \A k \in BareKeys : config[k] = ItemReads(k, data)

\* The items themselves mean it.
KeptShows(data, config) ==
  \A k \in AdvancedKeys : (k \in DOMAIN data => Parses(k, data[k])) /\ ItemReads(k, data) = config[k]

\* What is in force is what the item says, for all keys but two.
LEMMA ItemsInForce ==
  ASSUME NEW k \in PlainKeys, k /= "user-name", k /= "server-name", NEW data, NEW user
  PROVE  InForce(k, data, user) = ItemReads(k, data)
BY DEF InForce

\* How the certificate is read and written.
LEMMA CertKeysReads ==
  ASSUME NEW k \in CertKeys
  PROVE  /\ k \in MainKeys /\ k \in PlainKeys /\ k \notin DOMAIN Options
         /\ k /= "user-name" /\ k /= "server-name" /\ k /= "login-type" /\ k /= "if-name"
         /\ Absent(k) = <<>>
         /\ \A text : Reads(k, text) = text /\ Parses(k, text)
         /\ \A v : Written(k, v) = v
<1>1. k \in TextKeys /\ k \in MainKeys /\ k /= "user-name" /\ k /= "server-name" /\ k /= "login-type" /\ k /= "if-name"
  BY DEF CertKeys, TextKeys, MainKeys
<1>2. k \notin DOMAIN Options /\ k \notin BoolKeys /\ k \notin DOMAIN SpinRange BY <1>1, TextReads
<1>3. Absent(k) = <<>> BY <1>1, DefaultsAre DEF Absent
<1>4. \A text : Reads(k, text) = text /\ Parses(k, text) BY <1>1, TextReads DEF Reads
<1>5. \A v : Written(k, v) = v BY <1>2 DEF Written
<1> QED BY <1>1, <1>2, <1>3, <1>4, <1>5, AdvancedArePlain

\* When the GNOME editor opens, its main widgets show what is in force.
LEMMA GnomeShowsMain ==
  ASSUME NEW p, DOMAIN p.secrets \subseteq SecretKeys, ItemsParse(p.data)
  PROVE  LET config == FromConnection(p).config IN
         /\ DOMAIN Adjusted(Effective(p)) = PlainKeys
         /\ MainShows([k \in MainKeys |-> IF k = "user-name" THEN p.user ELSE config[k]],
                      SetLoginTypeOptions(OneOrNone(config["login-type"]), config["login-type"]),
                      Adjusted(Effective(p)), Hidden(p))
         /\ BareShows(p.data, Adjusted(Effective(p)))
<1> DEFINE config == FromConnection(p).config
           meant == Adjusted(Effective(p))
           m == [k \in MainKeys |-> IF k = "user-name" THEN p.user ELSE config[k]]
           l == SetLoginTypeOptions(OneOrNone(config["login-type"]), config["login-type"])
<1>1. FromConnection(p).ok BY ConfigIs
<1>2. \A k \in PlainKeys : Effective(p)[k] = InForce(k, p.data, p.user) BY <1>1, EffectiveIs
<1>3. \A k \in PlainKeys \ {"if-name"} : Effective(p)[k] = config[k] BY EffectiveHas
<1>4. DOMAIN meant = PlainKeys BY EffectiveHas DEF Adjusted
<1>5. \A k \in MainKeys \cup BareKeys \cup {"login-type"} : meant[k] = Effective(p)[k]
  BY EffectiveHas, KeysByWidget DEF Adjusted
<1>6. DOMAIN m = MainKeys OBVIOUS
<1>7. ASSUME NEW k \in MainKeys \ Hidden(p) PROVE m[k] = meant[k]
  <2>1. CASE k /= "user-name"
    <3>1. m[k] = config[k] BY <2>1
    <3> QED BY <1>3, <1>5, <3>1, KeysByWidget
  <2>2. CASE k = "user-name"
    <3>1. "user-name" \notin DOMAIN p.data /\ "username" \notin DOMAIN p.data
      BY <1>7, <2>2 DEF Hidden
    <3>2. InForce(k, p.data, p.user) = p.user BY <2>2, <3>1 DEF InForce
    <3>3. m[k] = p.user BY <2>2
    <3> HIDE DEF m, meant
    <3> QED BY <1>2, <1>5, <2>2, <3>2, <3>3, KeysByWidget
  <2> QED BY <2>1, <2>2
<1>8. ASSUME NEW k \in DOMAIN Options PROVE m[k] \in ToSet(Options[k])
  <2>1. k \in MainKeys /\ k \in PlainKeys /\ k /= "if-name" BY AdvancedArePlain, OptionReads DEF MainKeys
  <2>2. k /= "user-name" /\ k /= "server-name" BY OptionReads
  <2>3. m[k] = config[k] BY <2>1, <2>2
  <2>4. config[k] = ItemReads(k, p.data) BY <1>2, <1>3, <2>1, <2>2, ItemsInForce
  <2>5. k \in DOMAIN p.data => Parses(k, p.data[k]) BY <2>1, AreKeys DEF ItemsParse
  <2>6. ItemReads(k, p.data) \in ToSet(Options[k]) BY <2>5, OptionShown
  <2> HIDE DEF m, config
  <2> QED BY <2>3, <2>4, <2>6
<1>9. Chosen(l, meant["login-type"])
  <2>1. meant["login-type"] = config["login-type"] BY <1>3, <1>5, KeysByWidget
  <2> HIDE DEF meant, config
  <2> QED BY <2>1, LoginShown
<1>10. BareShows(p.data, meant)
  <2>1. ASSUME NEW k \in BareKeys PROVE meant[k] = ItemReads(k, p.data)
    <3>1. k /= "user-name" /\ k /= "server-name" /\ k \in PlainKeys BY KeysByWidget DEF BareKeys
    <3> HIDE DEF meant
    <3> QED BY <1>2, <1>5, <3>1, ItemsInForce
  <2> QED BY <2>1 DEF BareShows
<1>11. MainShows(m, l, meant, Hidden(p))
  <2> HIDE DEF m, l, meant
  <2> QED BY <1>6, <1>7, <1>8, <1>9 DEF MainShows
<1> HIDE DEF m, l, meant
<1> QED BY <1>4, <1>10, <1>11 DEF m, l, meant

\* So do those of the Plasma editor, and the items mean it as they are.
LEMMA PlasmaShowsMain ==
  ASSUME NEW p, DOMAIN p.secrets \subseteq SecretKeys, ItemsParse(p.data)
  PROVE  /\ DOMAIN Effective(p) = PlainKeys
         /\ MainShows([k \in MainKeys |-> CASE k = "user-name" -> p.user
                                            [] k \in DOMAIN Options -> Choose(k, Item(p.data, k))
                                            [] OTHER -> Item(p.data, k)],
                      SetLoginTypeOptions(OneOrNone(Item(p.data, "login-type")), Item(p.data, "login-type")),
                      Effective(p), Hidden(p))
         /\ BareShows(p.data, Effective(p))
         /\ KeptShows(p.data, Effective(p))
<1> DEFINE meant == Effective(p)
           m == [k \in MainKeys |-> CASE k = "user-name" -> p.user
                                      [] k \in DOMAIN Options -> Choose(k, Item(p.data, k))
                                      [] OTHER -> Item(p.data, k)]
           l == SetLoginTypeOptions(OneOrNone(Item(p.data, "login-type")), Item(p.data, "login-type"))
<1>1. FromConnection(p).ok BY ConfigIs
<1>2. \A k \in PlainKeys : meant[k] = InForce(k, p.data, p.user) BY <1>1, EffectiveIs
<1>3. DOMAIN meant = PlainKeys BY EffectiveHas
<1>4. DOMAIN m = MainKeys OBVIOUS
<1>5. "user-name" \notin DOMAIN Options BY OptionReads
<1>6. ASSUME NEW k \in DOMAIN Options PROVE m[k] \in ToSet(Options[k]) /\ m[k] = meant[k]
  <2>1. k \in MainKeys /\ k \in PlainKeys BY AdvancedArePlain DEF MainKeys
  <2>2. k /= "user-name" /\ k /= "server-name" BY OptionReads
  <2>3. m[k] = Choose(k, Item(p.data, k)) BY <2>1, <2>2
  <2>4. meant[k] = ItemReads(k, p.data) BY <1>2, <2>1, <2>2, ItemsInForce
  <2>5. k \in DOMAIN p.data => Parses(k, p.data[k]) BY <2>1, AreKeys DEF ItemsParse
  <2> HIDE DEF m, meant
  <2> QED BY <2>3, <2>4, <2>5, OptionShown
<1>7. ASSUME NEW k \in MainKeys \ Hidden(p)
      PROVE  m[k] = meant[k] \/ (k = "server-name" /\ m[k] = <<>>)
  <2>0. k \in PlainKeys BY AdvancedArePlain
  <2>1. CASE k \in DOMAIN Options BY <1>6, <2>1
  <2>2. CASE k = "user-name"
    <3>1. "user-name" \notin DOMAIN p.data /\ "username" \notin DOMAIN p.data
      BY <1>7, <2>2 DEF Hidden
    <3>2. InForce(k, p.data, p.user) = p.user BY <2>2, <3>1 DEF InForce
    <3>3. m[k] = p.user BY <1>5, <2>2
    <3> HIDE DEF m, meant
    <3> QED BY <1>2, <2>0, <3>2, <3>3
  <2>3. CASE k = "server-name"
    <3>1. m[k] = Item(p.data, k)
      <4>1. k \notin DOMAIN Options /\ k /= "user-name" BY <2>3, OptionReads
      <4> QED BY <4>1
    <3>2. meant[k] = InForce(k, p.data, p.user) BY <1>2, <2>0
    <3> HIDE DEF m, meant
    <3>3. CASE k \in DOMAIN p.data
      <4>1. InForce(k, p.data, p.user) = p.data[k] BY <2>3, <3>3 DEF InForce
      <4> QED BY <3>1, <3>2, <3>3, <4>1 DEF Item
    <3>4. CASE k \notin DOMAIN p.data BY <2>3, <3>1, <3>4 DEF Item
    <3> QED BY <3>3, <3>4
  <2>4. CASE k \in CertKeys
    <3>1. m[k] = Item(p.data, k) BY <2>4, CertKeysReads
    <3>2. meant[k] = ItemReads(k, p.data) BY <1>2, <2>0, <2>4, CertKeysReads, ItemsInForce
    <3> HIDE DEF m, meant
    <3> QED BY <2>4, <3>1, <3>2, CertKeysReads DEF Item, ItemReads
  <2> QED BY <2>1, <2>2, <2>3, <2>4 DEF MainKeys
<1>8. Chosen(l, meant["login-type"])
  <2>1. "login-type" \in TextKeys BY DEF TextKeys
  <2>2. \A text : Reads("login-type", text) = text BY <2>1, TextReads DEF Reads
  <2>3. Absent("login-type") = <<>> BY <2>1, DefaultsAre DEF Absent
  <2>4. meant["login-type"] = ItemReads("login-type", p.data)
    BY <1>2, AdvancedArePlain, ItemsInForce
  <2>5. ItemReads("login-type", p.data) = Item(p.data, "login-type")
    BY <2>2, <2>3 DEF Item, ItemReads
  <2> HIDE DEF meant
  <2> QED BY <2>4, <2>5, LoginShown
<1>9. BareShows(p.data, meant)
  <2>1. ASSUME NEW k \in BareKeys PROVE meant[k] = ItemReads(k, p.data)
    <3>1. k /= "user-name" /\ k /= "server-name" /\ k \in PlainKeys BY KeysByWidget DEF BareKeys
    <3> HIDE DEF meant
    <3> QED BY <1>2, <3>1, ItemsInForce
  <2> QED BY <2>1 DEF BareShows
<1>10. KeptShows(p.data, meant)
  <2>1. ASSUME NEW k \in AdvancedKeys
        PROVE  (k \in DOMAIN p.data => Parses(k, p.data[k])) /\ ItemReads(k, p.data) = meant[k]
    <3>1. k \in PlainKeys /\ k /= "user-name" /\ k /= "server-name"
      BY AdvancedAreSimple, AdvancedArePlain DEF Simple
    <3>2. meant[k] = ItemReads(k, p.data) BY <1>2, <3>1, ItemsInForce
    <3> QED BY <3>1, <3>2, AreKeys DEF ItemsParse
  <2> HIDE DEF meant
  <2> QED BY <2>1 DEF KeptShows
<1>11. MainShows(m, l, meant, Hidden(p))
  <2> HIDE DEF m, l, meant
  <2> QED BY <1>4, <1>6, <1>7, <1>8 DEF MainShows
<1> HIDE DEF m, l, meant
<1> QED BY <1>3, <1>9, <1>10, <1>11 DEF m, l, meant

\* The Plasma dialog shows items spelled out as they are meant.
LEMMA PlasmaDialogShows ==
  /\ TextsTyped(kept) => FormTyped(PlasmaShown)
  /\ ShownTrue(kept) =>
       \A config : KeptShows(kept, config) => AdvancedShows(PlasmaShown, config)
<1>1. \A k \in AdvancedKeys : PlasmaShown[k] =
        CASE k \in BoolKeys -> Item(kept, k) = <<"true">>
          [] k \in DOMAIN SpinRange -> Clamp(k, NumberIn(Item(kept, k)))
          [] OTHER -> Item(kept, k)
  BY DEF PlasmaShown
<1>2. DOMAIN PlasmaShown = AdvancedKeys BY DEF PlasmaShown
<1>3. ASSUME TextsTyped(kept), NEW k \in AdvancedKeys
      PROVE  Enterable(k, PlasmaShown[k])
  <2>1. CASE k \in BoolKeys
    <3>1. PlasmaShown[k] = (Item(kept, k) = <<"true">>) BY <1>1, <2>1, BoolReads
    <3>2. PlasmaShown[k] \in BOOLEAN BY <3>1
    <3> QED BY <2>1, <3>2, BoolReads DEF Enterable
  <2>2. CASE k \in DOMAIN SpinRange
    <3>1. PlasmaShown[k] = Clamp(k, NumberIn(Item(kept, k))) BY <1>1, <2>2, NumberReads
    <3>2. NumberIn(Item(kept, k)) \in Numbers BY NumbersRead
    <3>3. PlasmaShown[k] \in Numbers /\ Clamp(k, PlasmaShown[k]) = PlasmaShown[k]
      BY <2>2, <3>1, <3>2, Clamped
    <3> QED BY <2>2, <3>3, NumberReads DEF Enterable
  <2>3. CASE k \in FreeKeys
    <3>1. k \notin BoolKeys \cup DOMAIN SpinRange \cup DOMAIN Options
      BY <2>3, ListReads, TextReads DEF FreeKeys, TextKeys
    <3>2. PlasmaShown[k] = Item(kept, k) BY <1>1, <3>1
    <3>3. Item(kept, k) \in Seq(Words)
      <4>1. CASE k \in DOMAIN kept BY <1>3, <2>3, <4>1 DEF TextsTyped, Item
      <4>2. CASE k \notin DOMAIN kept BY <4>2 DEF Item
      <4> QED BY <4>1, <4>2
    <3> QED BY <3>1, <3>2, <3>3 DEF Enterable
  <2> QED BY <2>1, <2>2, <2>3, AdvancedKinds DEF FreeKeys
<1>4. ASSUME NEW config, ShownTrue(kept), KeptShows(kept, config), NEW k \in AdvancedKeys
      PROVE  Meaning(k, PlasmaShown[k]) = config[k]
  <2>0. ItemReads(k, kept) = config[k] BY <1>4 DEF KeptShows
  <2>1. CASE k \in BoolKeys
    <3>1. k \notin ListKeys \cup {"if-name"} \cup DOMAIN SpinRange BY <2>1, BoolReads
    <3>2. k \in DOMAIN kept /\ kept[k] \in {<<"true">>, <<"false">>}
      BY <1>4, <2>1, <3>1 DEF ShownTrue
    <3>3. PlasmaShown[k] = (kept[k] = <<"true">>) BY <1>1, <2>1, <3>1, <3>2 DEF Item
    <3>4. Meaning(k, PlasmaShown[k]) = PlasmaShown[k] BY <3>1 DEF Meaning
    <3>5. config[k] = (Lower(kept[k]) \in Yes)
      <4>1. ItemReads(k, kept) = ValueOf(k, kept[k], FALSE) BY <3>1, <3>2 DEF ItemReads, Reads
      <4>2. ValueOf(k, kept[k], FALSE) = (Lower(kept[k]) \in Yes) BY <2>1, BoolReads
      <4> QED BY <2>0, <4>1, <4>2
    <3>6. Lower(kept[k]) = kept[k] BY <3>2, LowerKeeps DEF EditorWords
    <3>7. kept[k] = <<"true">> <=> kept[k] \in Yes BY <3>2 DEF Yes
    <3>8. (kept[k] = <<"true">>) = (Lower(kept[k]) \in Yes) BY <3>6, <3>7
    <3> QED BY <3>3, <3>4, <3>5, <3>8
  <2>2. CASE k \in DOMAIN SpinRange
    <3>1. k \notin BoolKeys \cup ListKeys /\ k /= "if-name" BY <2>2, NumberReads
    <3>2. k \in DOMAIN kept /\ Clamp(k, NumberIn(kept[k])) = NumberIn(kept[k])
      BY <1>4, <2>2, <3>1 DEF ShownTrue
    <3>3. PlasmaShown[k] = NumberIn(kept[k]) BY <1>1, <2>2, <3>1, <3>2 DEF Item
    <3>4. Meaning(k, PlasmaShown[k]) = PlasmaShown[k] BY <3>1 DEF Meaning
    <3>5. config[k] = NumberIn(kept[k]) BY <2>0, <2>2, <3>1, <3>2, NumberReads DEF ItemReads, Reads
    <3> QED BY <3>3, <3>4, <3>5
  <2>3. CASE k \in FreeKeys
    <3>1. k \notin BoolKeys \cup DOMAIN SpinRange
      BY <2>3, ListReads, TextReads DEF FreeKeys, TextKeys
    <3>2. PlasmaShown[k] = Item(kept, k) BY <1>1, <3>1
    <3>3. \A text : Meaning(k, text) = Reads(k, text)
      <4>1. CASE k \in ListKeys BY <4>1, ListReads DEF Meaning, Reads
      <4>2. CASE k = "if-name"
        <5>1. k \in TextKeys BY <4>2 DEF TextKeys
        <5> QED BY <4>2, <5>1, TextReads DEF Meaning, Reads
      <4> QED BY <2>3, <4>1, <4>2 DEF FreeKeys
    <3>4. CASE k \in DOMAIN kept BY <2>0, <3>2, <3>3, <3>4 DEF Item, ItemReads
    <3>5. CASE k \notin DOMAIN kept
      <4>1. Item(kept, k) = <<>> BY <3>5 DEF Item
      <4>2. Reads(k, <<>>) = Absent(k)
        <5>1. CASE k \in ListKeys
          <6>1. SplitCsv(<<>>) = <<>> BY ReadCsvEmpty DEF SplitCsv, PartsOf, NothingRead
          <6>2. Reads(k, <<>>) = SplitCsv(<<>>) BY <5>1, ListReads DEF Reads
          <6> QED BY <5>1, <6>1, <6>2, DefaultsAre, ListReads DEF Absent
        <5>2. CASE k = "if-name" BY <5>2 DEF Reads, Absent
        <5> QED BY <2>3, <5>1, <5>2 DEF FreeKeys
      <4> QED BY <2>0, <3>2, <3>3, <3>5, <4>1, <4>2 DEF ItemReads
    <3> QED BY <3>4, <3>5
  <2> QED BY <2>1, <2>2, <2>3, AdvancedKinds DEF FreeKeys
<1>5. TextsTyped(kept) => FormTyped(PlasmaShown) BY <1>2, <1>3 DEF FormTyped
<1>6. ASSUME NEW config, ShownTrue(kept), KeptShows(kept, config)
      PROVE  AdvancedShows(PlasmaShown, config)
  BY <1>4, <1>6 DEF AdvancedShows
<1> QED BY <1>5, <1>6

-----------------------------------------------------------------------------
(* The items after the dialog is accepted, and after the profile is saved. *)

\* What the accepted Plasma dialog leaves among the items.
LEMMA AcceptedItems ==
  ASSUME FormTyped(advanced)
  PROVE  LET data == Over(AdvancedItems, kept) IN
         /\ TextsTyped(data) /\ ShownTrue(data)
         /\ \A config : AdvancedShows(advanced, config) => KeptShows(data, config)
<1> DEFINE data == Over(AdvancedItems, kept)
<1>1. \A k \in AdvancedKeys : k \in DOMAIN data /\ data[k] = Written(k, advanced[k])
  BY DEF AdvancedItems, Over
<1>2. \A k \in AdvancedKeys : Enterable(k, advanced[k]) BY DEF FormTyped
<1> HIDE DEF data
<1>3. FreeKeys \subseteq AdvancedKeys BY AdvancedKinds DEF FreeKeys
<1>4. TextsTyped(data)
  <2>1. ASSUME NEW k \in FreeKeys PROVE data[k] \in Seq(Words)
    <3>1. k \in AdvancedKeys BY <1>3
    <3>2. Written(k, advanced[k]) \in Seq(Words) BY <1>2, <3>1, WrittenReads
    <3> QED BY <1>1, <3>1, <3>2
  <2> QED BY <2>1 DEF TextsTyped
<1>5. ASSUME NEW k \in AdvancedKeys \ (ListKeys \cup {"if-name"})
      PROVE  /\ k \in BoolKeys => data[k] \in {<<"true">>, <<"false">>}
             /\ k \in DOMAIN SpinRange => Clamp(k, NumberIn(data[k])) = NumberIn(data[k])
  <2>1. data[k] = Written(k, advanced[k]) /\ Enterable(k, advanced[k]) BY <1>1, <1>2
  <2>2. CASE k \in BoolKeys
    <3>1. Written(k, advanced[k]) \in {<<"true">>, <<"false">>} BY <2>2, BoolReads DEF Written
    <3> QED BY <2>1, <2>2, <3>1, BoolReads
  <2>3. CASE k \in DOMAIN SpinRange
    <3>1. Written(k, advanced[k]) = Numeral(advanced[k]) BY <2>3, NumberReads DEF Written
    <3>2. advanced[k] \in Numbers /\ Clamp(k, advanced[k]) = advanced[k]
      BY <2>1, <2>3, NumberReads DEF Enterable
    <3>3. NumberIn(data[k]) = advanced[k] BY <2>1, <3>1, <3>2, NumeralsReadBack
    <3> QED BY <2>3, <3>2, <3>3, NumberReads
  <2> QED BY <2>2, <2>3
<1>6. ShownTrue(data) BY <1>1, <1>5 DEF ShownTrue
<1>7. ASSUME NEW config, AdvancedShows(advanced, config), NEW k \in AdvancedKeys
      PROVE  Parses(k, data[k]) /\ ItemReads(k, data) = config[k]
  <2>1. Carries(Written(k, advanced[k]), k, advanced[k]) BY <1>2, WrittenReads
  <2>2. Parses(k, data[k]) /\ Reads(k, data[k]) = Meaning(k, advanced[k]) BY <1>1, <2>1 DEF Carries
  <2>3. Meaning(k, advanced[k]) = config[k] BY <1>7 DEF AdvancedShows
  <2> QED BY <1>1, <2>2, <2>3 DEF ItemReads
<1>8. \A config : AdvancedShows(advanced, config) => KeptShows(data, config)
  BY <1>7 DEF KeptShows
<1> QED BY <1>4, <1>6, <1>8 DEF data

\* What is written of the widgets.
LEMMA FlagsApart ==
  /\ DOMAIN FlagItems \cap PlainKeys = {}
  /\ \A k \in DOMAIN FlagItems : k \in {"password-flags", "cert-password-flags"}
<1>1. DOMAIN FlagItems = {FlagsKey[s] : s \in SecretKeys} BY DEF FlagItems
<1>2. \A s \in SecretKeys : FlagsKey[s] \in {"password-flags", "cert-password-flags"} BY DEF FlagsKey
<1>3. \A k \in {"password-flags", "cert-password-flags"} : k \notin PlainKeys
  BY PlainKinds DEF TextKeys, ListKeys, BoolKeys, NumberKeys, UintKeys, Options
<1> QED BY <1>1, <1>2, <1>3

\* The items of the main widgets.
LEMMA MainItemsAre ==
  /\ DOMAIN MainItems = (MainKeys \ {"user-name"}) \cup {"login-type"} \cup DOMAIN FlagItems
  /\ \A k \in MainKeys \ {"user-name"} : MainItems[k] = Written(k, main[k])
  /\ MainItems["login-type"] = LoginType
<1> DEFINE mains == [k \in MainKeys \ {"user-name"} |-> Written(k, main[k])]
           logins == [k \in {"login-type"} |-> LoginType]
<1>1. DOMAIN mains = MainKeys \ {"user-name"} /\ DOMAIN logins = {"login-type"} OBVIOUS
<1>2. \A k \in MainKeys \ {"user-name"} : mains[k] = Written(k, main[k]) OBVIOUS
<1>3. logins["login-type"] = LoginType OBVIOUS
<1>4. MainItems = Over(mains, Over(logins, FlagItems)) BY DEF MainItems
<1>5. "login-type" \notin MainKeys BY AdvancedArePlain
<1> HIDE DEF mains, logins
<1> QED BY <1>1, <1>2, <1>3, <1>4, <1>5 DEF Over

\* The items the GNOME editor writes.
LEMMA GnomeItemsAre ==
  /\ DOMAIN GnomeItems = DOMAIN MainItems \cup AdvancedKeys
  /\ \A k \in MainKeys \ {"user-name"} : GnomeItems[k] = WithoutCertificate(k, Written(k, main[k]))
  /\ GnomeItems["login-type"] = LoginType
  /\ \A k \in AdvancedKeys : GnomeItems[k] = Written(k, advanced[k])
<1> DEFINE items == Over(MainItems, AdvancedItems)
<1>1. GnomeItems = [k \in DOMAIN items |-> WithoutCertificate(k, items[k])] BY DEF GnomeItems
<1>2. DOMAIN AdvancedItems = AdvancedKeys /\ \A k \in AdvancedKeys : AdvancedItems[k] = Written(k, advanced[k])
  BY DEF AdvancedItems
<1>3. DOMAIN items = DOMAIN MainItems \cup AdvancedKeys BY <1>2 DEF Over
<1>4. \A k \in DOMAIN MainItems : items[k] = MainItems[k] BY DEF Over
<1>5. DOMAIN MainItems \cap AdvancedKeys = {}
  <2>1. DOMAIN FlagItems \cap AdvancedKeys = {} BY FlagsApart, AdvancedArePlain
  <2> QED BY <2>1, MainItemsAre, AdvancedArePlain
<1>6. \A k \in AdvancedKeys : items[k] = Written(k, advanced[k]) BY <1>2, <1>3, <1>5 DEF Over
<1> HIDE DEF items
<1>7. \A k \in AdvancedKeys \cup {"login-type"} : k \notin CertKeys
  <2>1. CertKeys \subseteq MainKeys BY DEF MainKeys
  <2> QED BY <2>1, AdvancedArePlain
<1>8. \A k \in AdvancedKeys : GnomeItems[k] = Written(k, advanced[k])
  BY <1>1, <1>3, <1>6, <1>7 DEF WithoutCertificate
<1>9. \A k \in DOMAIN MainItems : GnomeItems[k] = WithoutCertificate(k, MainItems[k])
  BY <1>1, <1>3, <1>4
<1>10. GnomeItems["login-type"] = LoginType BY <1>7, <1>9, MainItemsAre DEF WithoutCertificate
<1>11. \A k \in MainKeys \ {"user-name"} : GnomeItems[k] = WithoutCertificate(k, Written(k, main[k]))
  BY <1>9, MainItemsAre
<1>12. DOMAIN GnomeItems = DOMAIN MainItems \cup AdvancedKeys BY <1>1, <1>3
<1> QED BY <1>8, <1>10, <1>11, <1>12

\* The items after saving are those of the widgets, but for those removed, and
\* the others that were there.
Result(new, items, others, removed) ==
  \A k : /\ k \in DOMAIN new <=> k \in DOMAIN items \cup DOMAIN others /\ k \notin removed
         /\ k \in DOMAIN items /\ k \notin removed => new[k] = items[k]
         /\ k \notin DOMAIN items /\ k \in DOMAIN others /\ k \notin removed => new[k] = others[k]

\* Merging does that.
LEMMA MergedIs ==
  ASSUME NEW items, NEW others, NEW removed
  PROVE  Result(Merged(items, others, removed), items, others, removed)
BY DEF Result, Merged, Over, Restrict

GnomeRemoved == {k \in DOMAIN GnomeItems : GnomeItems[k] = <<>>}
PlasmaRemoved == {k \in {"server-name", "login-type"} : MainItems[k] = <<>>}
                   \cup IF useCertificate THEN {} ELSE CertKeys

\* So does saving in the GNOME editor.
LEMMA GnomeSaves ==
  ASSUME Save, editor = "gnome"
  PROVE  /\ profile'.user = main["user-name"]
         /\ Result(profile'.data, GnomeItems, profile.data, GnomeRemoved)
<1>1. profile' = GnomeUpdate BY DEF Save
<1>2. GnomeUpdate.user = main["user-name"] BY DEF GnomeUpdate
<1>3. GnomeUpdate.data = Merged(GnomeItems, profile.data, GnomeRemoved) BY DEF GnomeUpdate, GnomeRemoved
<1> QED BY <1>1, <1>2, <1>3, MergedIs

\* And in the Plasma editor, with its copy for the items that were there.
LEMMA PlasmaSaves ==
  ASSUME Save, editor = "plasma"
  PROVE  /\ profile'.user = main["user-name"]
         /\ Result(profile'.data, MainItems, kept, PlasmaRemoved)
<1>1. profile' = PlasmaSetting BY DEF Save
<1>2. PlasmaSetting.user = main["user-name"] BY DEF PlasmaSetting
<1>3. PlasmaSetting.data = Merged(MainItems, kept, PlasmaRemoved) BY DEF PlasmaSetting, PlasmaRemoved
<1> QED BY <1>1, <1>2, <1>3, MergedIs

-----------------------------------------------------------------------------
(* The widgets show what is meant.                                         *)

\* The widgets hold what can be entered.
FormInv ==
  /\ TextsTyped(profile.data)
  /\ DOMAIN opened.secrets \subseteq SecretKeys
  /\ editor = "plasma" => TextsTyped(kept)
  /\ editor = "gnome" \/ dialog => FormTyped(advanced)
  /\ editor = "gnome" /\ dialog => FormTyped(snapshot)
  /\ editor = "none" => ~dialog

\* What is meant before and while the advanced dialog is open differs in what
\* the dialog is about, and in the login type a query may have changed.
Agree(old, config) ==
  /\ DOMAIN old = PlainKeys
  /\ \A k \in PlainKeys \ (AdvancedKeys \cup {"login-type"}) : old[k] = config[k]

\* The widgets, and in Plasma the copy of the items, show what is meant.
MainInv ==
  /\ DOMAIN intended = PlainKeys
  /\ SameUnmanaged(profile.data, opened.data)
  /\ MainShows(main, login, intended, Hidden(opened))
  /\ BareShows(opened.data, intended)
  /\ dialog => Agree(before, intended)
GnomeInv ==
  editor = "gnome" =>
    /\ AdvancedShows(advanced, intended)
    /\ dialog => AdvancedShows(snapshot, before)
PlasmaInv ==
  editor = "plasma" =>
    /\ (accepted => ShownTrue(opened.data)) => KeptShows(kept, IF dialog THEN before ELSE intended)
    /\ ~accepted => kept = opened.data
    /\ ShownTrue(opened.data) => /\ ShownTrue(kept)
                                 /\ dialog => AdvancedShows(advanced, intended)
EditInv == editor /= "none" /\ ItemsParse(opened.data) => MainInv /\ GnomeInv /\ PlasmaInv

\* Steps that touch nothing of this.
Still == UNCHANGED <<profile, opened, editor, main, advanced, login, dialog, snapshot, kept, accepted,
                     intended, before>>

\* They preserve it.
LEMMA StillKeeps ==
  ASSUME Still
  PROVE  /\ FormInv => FormInv'
         /\ EditInv => EditInv'
<1> USE DEF Still
<1>1. FormInv => FormInv' BY DEF FormInv
<1>2. EditInv => EditInv' BY DEF EditInv, MainInv, GnomeInv, PlasmaInv
<1> QED BY <1>1, <1>2

\* The GNOME editor opens.
LEMMA GnomeOpens ==
  ASSUME ProfileInv, FormInv, NEW fetched \in BOOLEAN, OpenGnome(fetched)
  PROVE  FormInv' /\ EditInv'
<1> DEFINE config == FromConnection(profile).config
<1>1. /\ editor' = "gnome" /\ opened' = profile /\ profile' = profile /\ dialog' = FALSE
      /\ main' = [k \in MainKeys |-> IF k = "user-name" THEN profile.user ELSE config[k]]
      /\ advanced' = Shown(config)
      /\ login' = SetLoginTypeOptions(OneOrNone(config["login-type"]), config["login-type"])
      /\ intended' = Adjusted(Effective(profile))
  BY DEF OpenGnome, Opens, Shown, Adjusted
<1> DEFINE p == profile
<1>2. DOMAIN p.secrets \subseteq SecretKeys /\ TextsTyped(p.data) BY DEF ProfileInv, FormInv
<1>3. FormTyped(advanced') /\ AdvancedShows(advanced', intended') BY <1>1, <1>2, ShownIsMeant
<1>4. FormInv' BY <1>1, <1>2, <1>3 DEF FormInv
<1>5. ASSUME ItemsParse(profile.data) PROVE MainInv' /\ GnomeInv' /\ PlasmaInv'
  <2>1. /\ DOMAIN intended' = PlainKeys
        /\ MainShows(main', login', intended', Hidden(profile))
        /\ BareShows(profile.data, intended')
    BY <1>1, <1>2, <1>5, GnomeShowsMain
  <2>2. SameUnmanaged(profile.data, profile.data) BY DEF SameUnmanaged
  <2>3. MainInv' BY <1>1, <2>1, <2>2 DEF MainInv
  <2>4. GnomeInv' BY <1>1, <1>3 DEF GnomeInv
  <2>5. PlasmaInv' BY <1>1 DEF PlasmaInv
  <2> QED BY <2>3, <2>4, <2>5
<1> QED BY <1>1, <1>4, <1>5 DEF EditInv

\* The Plasma editor opens.
LEMMA PlasmaOpens ==
  ASSUME ProfileInv, FormInv, NEW fetched \in BOOLEAN, OpenPlasma(fetched)
  PROVE  FormInv' /\ EditInv'
<1>1. /\ editor' = "plasma" /\ opened' = profile /\ profile' = profile /\ dialog' = FALSE
      /\ kept' = profile.data /\ accepted' = FALSE
      /\ main' = [k \in MainKeys |-> CASE k = "user-name" -> profile.user
                                       [] k \in DOMAIN Options -> Choose(k, Item(profile.data, k))
                                       [] OTHER -> Item(profile.data, k)]
      /\ login' = SetLoginTypeOptions(OneOrNone(Item(profile.data, "login-type")),
                                      Item(profile.data, "login-type"))
      /\ intended' = Effective(profile)
  BY DEF OpenPlasma, Opens
<1>2. DOMAIN profile.secrets \subseteq SecretKeys /\ TextsTyped(profile.data) BY DEF ProfileInv, FormInv
<1>4. FormInv' BY <1>1, <1>2 DEF FormInv
<1>5. ASSUME ItemsParse(profile.data) PROVE MainInv' /\ GnomeInv' /\ PlasmaInv'
  <2>1. /\ DOMAIN intended' = PlainKeys
        /\ MainShows(main', login', intended', Hidden(profile))
        /\ BareShows(profile.data, intended')
        /\ KeptShows(profile.data, intended')
    BY <1>1, <1>2, <1>5, PlasmaShowsMain
  <2>2. SameUnmanaged(profile.data, profile.data) BY DEF SameUnmanaged
  <2>3. MainInv' BY <1>1, <2>1, <2>2 DEF MainInv
  <2>4. GnomeInv' BY <1>1 DEF GnomeInv
  <2>5. PlasmaInv' BY <1>1, <2>1 DEF PlasmaInv
  <2> QED BY <2>3, <2>4, <2>5
<1> QED BY <1>1, <1>4, <1>5 DEF EditInv

\* An editor closes.
LEMMA EditorCloses ==
  ASSUME ProfileInv, FormInv, Close
  PROVE  FormInv' /\ EditInv'
BY DEF Close, ProfileInv, FormInv, EditInv

\* A main widget changes.
LEMMA MainEdited ==
  ASSUME FormInv, EditInv, NEW e \in Edits, EditMain(e)
  PROVE  FormInv' /\ EditInv'
<1>1. /\ e.key \in MainKeys /\ ~dialog
      /\ main' = [main EXCEPT ![e.key] = e.value]
      /\ intended' = [intended EXCEPT ![e.key] = e.value]
      /\ UNCHANGED <<profile, opened, editor, advanced, login, dialog, snapshot, kept, accepted, before>>
  BY DEF EditMain, Rest
<1>2. FormInv' BY <1>1 DEF FormInv
<1>3. ASSUME editor /= "none", ItemsParse(opened.data) PROVE MainInv' /\ GnomeInv' /\ PlasmaInv'
  <2>0. MainInv /\ GnomeInv /\ PlasmaInv BY <1>3 DEF EditInv
  <2>1. DOMAIN intended = PlainKeys /\ DOMAIN main = MainKeys BY <2>0 DEF MainInv, MainShows
  <2>2. DOMAIN intended' = PlainKeys /\ DOMAIN main' = MainKeys BY <1>1, <2>1
  <2>3. e.key \in PlainKeys BY <1>1, AdvancedArePlain
  <2>4. \A k \in PlainKeys : intended'[k] = IF k = e.key THEN e.value ELSE intended[k]
    BY <1>1, <2>1, <2>3
  <2>5. \A k \in MainKeys : main'[k] = IF k = e.key THEN e.value ELSE main[k] BY <1>1, <2>1
  <2>6. \A k \in AdvancedKeys \cup BareKeys \cup {"login-type"} : intended'[k] = intended[k]
    BY <1>1, <2>4, KeysByWidget, AdvancedArePlain
  <2>7. ASSUME NEW k \in DOMAIN Options PROVE main'[k] \in ToSet(Options[k])
    <3>1. k \in MainKeys BY DEF MainKeys
    <3>2. CASE k = e.key
      <4>1. Enterable(k, e.value) BY <3>2, WidgetConstants
      <4>2. e.value \in ToSet(Options[k]) BY <4>1, OptionReads DEF Enterable
      <4> QED BY <2>5, <3>1, <3>2, <4>2
    <3>3. CASE k /= e.key BY <2>0, <2>5, <3>1, <3>3 DEF MainInv, MainShows
    <3> QED BY <3>2, <3>3
  <2>8. \A k \in MainKeys \ Hidden(opened) : main'[k] = intended'[k] \/ (k = "server-name" /\ main'[k] = <<>>)
    BY <2>0, <2>4, <2>5, AdvancedArePlain DEF MainInv, MainShows
  <2>9. Chosen(login', intended'["login-type"]) BY <1>1, <2>0, <2>6 DEF MainInv, MainShows
  <2>10. MainShows(main', login', intended', Hidden(opened)) BY <2>2, <2>7, <2>8, <2>9 DEF MainShows
  <2>11. BareShows(opened.data, intended') BY <2>0, <2>6 DEF MainInv, BareShows
  <2>12. MainInv' BY <1>1, <2>0, <2>2, <2>10, <2>11 DEF MainInv, Hidden
  <2>13. GnomeInv' BY <1>1, <2>0, <2>6 DEF GnomeInv, AdvancedShows
  <2>14. PlasmaInv' BY <1>1, <2>0, <2>6 DEF PlasmaInv, KeptShows
  <2> QED BY <2>12, <2>13, <2>14
<1>4. editor' = editor /\ opened' = opened BY <1>1
<1> QED BY <1>2, <1>3, <1>4 DEF EditInv

\* Another login type is chosen, by the user or for lack of the one before.
LEMMA LoginChanged ==
  ASSUME FormInv, EditInv, NEW v,
         intended' = [intended EXCEPT !["login-type"] = v],
         editor /= "none" /\ ItemsParse(opened.data) => Chosen(login', v),
         UNCHANGED <<profile, opened, editor, main, advanced, dialog, snapshot, kept, accepted, before>>
  PROVE  FormInv' /\ EditInv'
<1>1. FormInv' BY DEF FormInv
<1>2. ASSUME editor /= "none", ItemsParse(opened.data) PROVE MainInv' /\ GnomeInv' /\ PlasmaInv'
  <2>0. MainInv /\ GnomeInv /\ PlasmaInv BY <1>2 DEF EditInv
  <2>1. DOMAIN intended = PlainKeys BY <2>0 DEF MainInv
  <2>2. DOMAIN intended' = PlainKeys BY <2>1
  <2>3. intended'["login-type"] = v BY <2>1, AdvancedArePlain
  <2>4. \A k \in PlainKeys \ {"login-type"} : intended'[k] = intended[k] BY <2>1
  <2>5. \A k \in AdvancedKeys \cup BareKeys \cup MainKeys : intended'[k] = intended[k]
    BY <2>4, KeysByWidget, AdvancedArePlain
  <2>6. MainShows(main', login', intended', Hidden(opened))
    BY <1>2, <2>0, <2>3, <2>5 DEF MainInv, MainShows
  <2>7. BareShows(opened.data, intended') BY <2>0, <2>5 DEF MainInv, BareShows
  <2>8. dialog => Agree(before, intended') BY <2>0, <2>4 DEF MainInv, Agree
  <2>9. MainInv' BY <2>0, <2>2, <2>6, <2>7, <2>8 DEF MainInv, Hidden
  <2>10. GnomeInv' BY <2>0, <2>5 DEF GnomeInv, AdvancedShows
  <2>11. PlasmaInv' BY <2>0, <2>5 DEF PlasmaInv, KeptShows, AdvancedShows
  <2> QED BY <2>9, <2>10, <2>11
<1> QED BY <1>1, <1>2 DEF EditInv

\* The advanced dialog opens.
LEMMA DialogOpens ==
  ASSUME ProfileInv, FormInv, EditInv, OpenAdvanced
  PROVE  FormInv' /\ EditInv'
<1>1. /\ editor /= "none" /\ ~dialog /\ dialog' = TRUE /\ before' = intended
      /\ UNCHANGED <<profile, opened, editor, main, login, kept, accepted, intended>>
  BY DEF OpenAdvanced, Acts, Rest
<1>2. editor = "gnome" => snapshot' = advanced /\ advanced' = advanced
  BY DEF OpenAdvanced, SnapshotTake
<1>3. editor = "plasma" => advanced' = PlasmaShown BY DEF OpenAdvanced
<1>4. editor = "gnome" \/ editor = "plasma" BY <1>1 DEF ProfileInv
<1>5. FormInv'
  <2>1. CASE editor = "gnome" BY <1>1, <1>2, <2>1 DEF FormInv
  <2>2. CASE editor = "plasma"
    <3>1. FormTyped(advanced') BY <1>3, <2>2, PlasmaDialogShows DEF FormInv
    <3> QED BY <1>1, <2>2, <3>1 DEF FormInv
  <2> QED BY <1>4, <2>1, <2>2
<1>6. ASSUME ItemsParse(opened.data) PROVE MainInv' /\ GnomeInv' /\ PlasmaInv'
  <2>0. MainInv /\ GnomeInv /\ PlasmaInv BY <1>1, <1>6 DEF EditInv
  <2>1. Agree(before', intended') BY <1>1, <2>0 DEF MainInv, Agree
  <2>2. MainInv' BY <1>1, <2>0, <2>1 DEF MainInv
  <2>3. GnomeInv' BY <1>1, <1>2, <2>0 DEF GnomeInv
  <2>4. PlasmaInv'
    <3>1. CASE editor = "gnome" BY <1>1, <3>1 DEF PlasmaInv
    <3>2. CASE editor = "plasma"
      <4>1. (accepted => ShownTrue(opened.data)) => KeptShows(kept, intended)
        BY <1>1, <2>0, <3>2 DEF PlasmaInv
      <4>2. ShownTrue(opened.data) => ShownTrue(kept) BY <2>0, <3>2 DEF PlasmaInv
      <4>3. ShownTrue(opened.data) => AdvancedShows(advanced', intended)
        BY <1>3, <3>2, <4>1, <4>2, PlasmaDialogShows
      <4>4. ~accepted => kept = opened.data BY <2>0, <3>2 DEF PlasmaInv
      <4> QED BY <1>1, <4>1, <4>2, <4>3, <4>4 DEF PlasmaInv
    <3> QED BY <1>4, <3>1, <3>2
  <2> QED BY <2>2, <2>3, <2>4
<1> QED BY <1>1, <1>5, <1>6 DEF EditInv

\* A widget of the dialog changes.
LEMMA AdvancedEdited ==
  ASSUME FormInv, EditInv, NEW e \in Edits, EditAdvanced(e)
  PROVE  FormInv' /\ EditInv'
<1>1. /\ dialog /\ e.key \in AdvancedKeys
      /\ advanced' = [advanced EXCEPT ![e.key] = e.value]
      /\ intended' = [intended EXCEPT ![e.key] = Meaning(e.key, e.value)]
      /\ UNCHANGED <<profile, opened, editor, main, login, dialog, snapshot, kept, accepted, before>>
  BY DEF EditAdvanced, Rest
<1>2. FormTyped(advanced) BY <1>1 DEF FormInv
<1>3. DOMAIN advanced = AdvancedKeys BY <1>2 DEF FormTyped
<1>4. \A k \in AdvancedKeys : advanced'[k] = IF k = e.key THEN e.value ELSE advanced[k] BY <1>1, <1>3
<1>5. FormTyped(advanced')
  <2>1. DOMAIN advanced' = AdvancedKeys BY <1>1, <1>3
  <2>2. Enterable(e.key, e.value) BY WidgetConstants
  <2> QED BY <1>2, <1>4, <2>1, <2>2 DEF FormTyped
<1>6. FormInv' BY <1>1, <1>5 DEF FormInv
<1>7. ASSUME editor /= "none", ItemsParse(opened.data) PROVE MainInv' /\ GnomeInv' /\ PlasmaInv'
  <2>0. MainInv /\ GnomeInv /\ PlasmaInv BY <1>7 DEF EditInv
  <2>1. DOMAIN intended = PlainKeys BY <2>0 DEF MainInv
  <2>2. DOMAIN intended' = PlainKeys BY <1>1, <2>1
  <2>3. \A k \in PlainKeys : intended'[k] = IF k = e.key THEN Meaning(e.key, e.value) ELSE intended[k]
    BY <1>1, <2>1, AdvancedArePlain
  <2>4. \A k \in PlainKeys \ AdvancedKeys : intended'[k] = intended[k] BY <1>1, <2>3
  <2>5. \A k \in BareKeys \cup MainKeys \cup {"login-type"} : intended'[k] = intended[k]
    BY <2>4, KeysByWidget, AdvancedArePlain
  <2>6. MainShows(main', login', intended', Hidden(opened)) BY <1>1, <2>0, <2>5 DEF MainInv, MainShows
  <2>7. BareShows(opened.data, intended') BY <2>0, <2>5 DEF MainInv, BareShows
  <2>8. Agree(before, intended') BY <1>1, <2>0, <2>4 DEF MainInv, Agree
  <2>9. MainInv' BY <1>1, <2>0, <2>2, <2>6, <2>7, <2>8 DEF MainInv, Hidden
  <2>10. ASSUME AdvancedShows(advanced, intended) PROVE AdvancedShows(advanced', intended')
    BY <1>4, <2>3, <2>10, AdvancedArePlain DEF AdvancedShows
  <2>11. GnomeInv' BY <1>1, <2>0, <2>10 DEF GnomeInv
  <2>12. PlasmaInv' BY <1>1, <2>0, <2>10 DEF PlasmaInv
  <2> QED BY <2>9, <2>11, <2>12
<1>8. editor' = editor /\ opened' = opened BY <1>1
<1> QED BY <1>6, <1>7, <1>8 DEF EditInv

\* The dialog is accepted.
LEMMA GnomeAccepts ==
  ASSUME FormInv, EditInv, AcceptGnome
  PROVE  FormInv' /\ EditInv'
<1>1. /\ editor = "gnome" /\ dialog' = FALSE
      /\ UNCHANGED <<profile, opened, editor, main, advanced, login, kept, intended>>
  BY DEF AcceptGnome, Rest, form
<1>2. FormInv' BY <1>1 DEF FormInv
<1>3. EditInv' BY <1>1 DEF EditInv, MainInv, GnomeInv, PlasmaInv
<1> QED BY <1>2, <1>3

\* In Plasma, accepting overwrites the copy.
LEMMA PlasmaAccepts ==
  ASSUME FormInv, EditInv, AcceptPlasma
  PROVE  FormInv' /\ EditInv'
<1>1. /\ editor = "plasma" /\ dialog /\ dialog' = FALSE /\ accepted' = TRUE
      /\ kept' = Over(AdvancedItems, kept)
      /\ UNCHANGED <<profile, opened, editor, main, advanced, login, intended>>
  BY DEF AcceptPlasma, Acts, Rest, form
<1>2. FormTyped(advanced) BY <1>1 DEF FormInv
<1>3. /\ TextsTyped(kept') /\ ShownTrue(kept')
      /\ \A config : AdvancedShows(advanced, config) => KeptShows(kept', config)
  BY <1>1, <1>2, AcceptedItems
<1>4. FormInv' BY <1>1, <1>3 DEF FormInv
<1>5. ASSUME ItemsParse(opened.data) PROVE MainInv' /\ GnomeInv' /\ PlasmaInv'
  <2>0. MainInv /\ GnomeInv /\ PlasmaInv BY <1>1, <1>5 DEF EditInv
  <2>1. MainInv' BY <1>1, <2>0 DEF MainInv
  <2>2. GnomeInv' BY <1>1 DEF GnomeInv
  <2>3. ShownTrue(opened.data) => AdvancedShows(advanced, intended) BY <1>1, <2>0 DEF PlasmaInv
  <2>4. ShownTrue(opened.data) => KeptShows(kept', intended) BY <1>3, <2>3
  <2>5. PlasmaInv' BY <1>1, <1>3, <2>4 DEF PlasmaInv
  <2> QED BY <2>1, <2>2, <2>5
<1> QED BY <1>1, <1>4, <1>5 DEF EditInv

\* The dialog is cancelled.
LEMMA DialogCancelled ==
  ASSUME ProfileInv, FormInv, EditInv, CancelAdvanced
  PROVE  FormInv' /\ EditInv'
<1>1. /\ editor /= "none" /\ dialog /\ dialog' = FALSE
      /\ intended' = [before EXCEPT !["login-type"] = intended["login-type"]]
      /\ UNCHANGED <<profile, opened, editor, main, login, kept, accepted>>
  BY DEF CancelAdvanced, Acts, Rest
<1>2. editor = "gnome" => advanced' = snapshot BY DEF CancelAdvanced, SnapshotRestore
<1>3. FormInv' BY <1>1, <1>2 DEF FormInv
<1>4. ASSUME ItemsParse(opened.data) PROVE MainInv' /\ GnomeInv' /\ PlasmaInv'
  <2>0. MainInv /\ GnomeInv /\ PlasmaInv BY <1>1, <1>4 DEF EditInv
  <2>1. Agree(before, intended) BY <1>1, <2>0 DEF MainInv
  <2>2. DOMAIN before = PlainKeys /\ DOMAIN intended = PlainKeys BY <2>0, <2>1 DEF Agree, MainInv
  <2>3. DOMAIN intended' = PlainKeys BY <1>1, <2>2
  <2>4. intended'["login-type"] = intended["login-type"] BY <1>1, <2>2, AdvancedArePlain
  <2>5. \A k \in PlainKeys \ {"login-type"} : intended'[k] = before[k] BY <1>1, <2>2
  <2>6. \A k \in MainKeys \cup BareKeys : intended'[k] = intended[k]
    BY <2>1, <2>5, KeysByWidget, AdvancedArePlain DEF Agree
  <2>7. \A k \in AdvancedKeys : intended'[k] = before[k] BY <2>5, AdvancedArePlain
  <2>8. MainShows(main', login', intended', Hidden(opened))
    BY <1>1, <2>0, <2>4, <2>6 DEF MainInv, MainShows
  <2>9. BareShows(opened.data, intended') BY <2>0, <2>6 DEF MainInv, BareShows
  <2>10. MainInv' BY <1>1, <2>0, <2>3, <2>8, <2>9 DEF MainInv, Hidden
  <2>11. GnomeInv' BY <1>1, <1>2, <2>0, <2>7 DEF GnomeInv, AdvancedShows
  <2>12. PlasmaInv' BY <1>1, <2>0, <2>7 DEF PlasmaInv, KeptShows
  <2> QED BY <2>10, <2>11, <2>12
<1> QED BY <1>1, <1>3, <1>4 DEF EditInv

\* The profile is saved.
LEMMA SavingKeeps ==
  ASSUME ProfileInv, FormInv, EditInv, Save
  PROVE  FormInv' /\ EditInv'
<1>1. /\ editor /= "none" /\ (editor = "plasma" => ~dialog)
      /\ UNCHANGED <<opened, editor, main, advanced, login, dialog, snapshot, kept, accepted, intended, before>>
  BY DEF Save, form
<1>2. editor = "gnome" \/ editor = "plasma" BY <1>1 DEF ProfileInv
<1>3. TextsTyped(profile'.data)
  <2>0. FreeKeys \subseteq AdvancedKeys BY AdvancedKinds DEF FreeKeys
  <2>1. CASE editor = "gnome"
    <3>1. Result(profile'.data, GnomeItems, profile.data, GnomeRemoved) BY <2>1, GnomeSaves
    <3>2. ASSUME NEW k \in FreeKeys \cap DOMAIN profile'.data PROVE profile'.data[k] \in Seq(Words)
      <4>1. k \in AdvancedKeys /\ k \in DOMAIN GnomeItems BY <2>0, GnomeItemsAre
      <4>2. profile'.data[k] = Written(k, advanced[k]) BY <3>1, <3>2, <4>1, GnomeItemsAre DEF Result
      <4>3. Enterable(k, advanced[k]) BY <2>1, <4>1 DEF FormInv, FormTyped
      <4> QED BY <4>1, <4>2, <4>3, WrittenReads
    <3> QED BY <3>2 DEF TextsTyped
  <2>2. CASE editor = "plasma"
    <3>1. Result(profile'.data, MainItems, kept, PlasmaRemoved) BY <2>2, PlasmaSaves
    <3>2. ASSUME NEW k \in FreeKeys \cap DOMAIN profile'.data PROVE profile'.data[k] \in Seq(Words)
      <4>1. k \in AdvancedKeys BY <2>0
      <4>2. k \notin DOMAIN MainItems BY <4>1, MainItemsAre, FlagsApart, AdvancedArePlain
      <4>3. k \in DOMAIN kept /\ profile'.data[k] = kept[k] BY <3>1, <3>2, <4>2 DEF Result
      <4> QED BY <2>2, <4>3 DEF FormInv, TextsTyped
    <3> QED BY <3>2 DEF TextsTyped
  <2> QED BY <1>2, <2>1, <2>2
<1>4. FormInv' BY <1>1, <1>3 DEF FormInv
<1>5. SameUnmanaged(profile'.data, profile.data) BY SavedProfile
<1>6. ASSUME ItemsParse(opened.data) PROVE MainInv' /\ GnomeInv' /\ PlasmaInv'
  <2>0. MainInv /\ GnomeInv /\ PlasmaInv BY <1>1, <1>6 DEF EditInv
  <2>1. SameUnmanaged(profile'.data, opened.data) BY <1>5, <2>0, SameIsTransitive DEF MainInv
  <2>2. MainInv' BY <1>1, <2>0, <2>1 DEF MainInv
  <2>3. GnomeInv' BY <1>1, <2>0 DEF GnomeInv
  <2>4. PlasmaInv' BY <1>1, <2>0 DEF PlasmaInv
  <2> QED BY <2>2, <2>3, <2>4
<1> QED BY <1>1, <1>4, <1>6 DEF EditInv

-----------------------------------------------------------------------------
(* The saved profile means it.                                             *)

\* What the service reads of the main widgets after they were saved.
MainSaved(data) ==
  /\ "server-name" \in DOMAIN data /\ data["server-name"] = main["server-name"]
  /\ \A k \in CertKeys : ItemReads(k, data) = WithoutCertificate(k, main[k])
  /\ \A k \in DOMAIN Options : (k \in DOMAIN data => Parses(k, data[k])) /\ ItemReads(k, data) = main[k]
  /\ ItemReads("login-type", data) = LoginType

\* Texts are written as they are, and one that is read or missing is the same.
LEMMA PlainTexts ==
  /\ \A v : Written("server-name", v) = v
  /\ \A text : Reads("login-type", text) = text
  /\ Absent("login-type") = <<>>
<1>1. "server-name" \in TextKeys /\ "login-type" \in TextKeys BY DEF TextKeys
<1>2. \A v : Written("server-name", v) = v BY <1>1, TextReads DEF Written
<1>3. \A text : Reads("login-type", text) = text BY <1>1, TextReads DEF Reads
<1>4. Absent("login-type") = <<>> BY <1>1, DefaultsAre DEF Absent
<1> QED BY <1>2, <1>3, <1>4

\* Saved in the GNOME editor, an empty text and a missing item being the same.
LEMMA GnomeMainSaved ==
  ASSUME Save, editor = "gnome", \A k \in DOMAIN Options : main[k] \in ToSet(Options[k])
  PROVE  MainSaved(profile'.data)
<1> DEFINE new == profile'.data
<1>1. Result(new, GnomeItems, profile.data, GnomeRemoved) BY GnomeSaves
<1>2. main["server-name"] /= <<>> BY DEF Save
<1> HIDE DEF new
<1>3. \A k \in DOMAIN GnomeItems :
        /\ k \in DOMAIN new <=> GnomeItems[k] /= <<>>
        /\ k \in DOMAIN new => new[k] = GnomeItems[k]
  BY <1>1 DEF Result, GnomeRemoved
<1>4. "server-name" \in DOMAIN new /\ new["server-name"] = main["server-name"]
  <2>1. "server-name" \in MainKeys /\ "server-name" \notin CertKeys BY DEF MainKeys, CertKeys
  <2>2. GnomeItems["server-name"] = main["server-name"] /\ "server-name" \in DOMAIN GnomeItems
    BY <2>1, GnomeItemsAre, MainItemsAre, PlainTexts DEF WithoutCertificate
  <2> QED BY <1>2, <1>3, <2>2
<1>5. ASSUME NEW k \in CertKeys PROVE ItemReads(k, new) = WithoutCertificate(k, main[k])
  <2>1. k \in MainKeys \ {"user-name"} /\ Written(k, main[k]) = main[k] BY CertKeysReads
  <2>2. k \in DOMAIN GnomeItems /\ GnomeItems[k] = WithoutCertificate(k, main[k])
    BY <2>1, GnomeItemsAre, MainItemsAre
  <2> QED BY <1>3, <2>2, CertKeysReads DEF ItemReads
<1>6. ASSUME NEW k \in DOMAIN Options
      PROVE  (k \in DOMAIN new => Parses(k, new[k])) /\ ItemReads(k, new) = main[k]
  <2>1. k \in MainKeys \ {"user-name"} BY OptionReads DEF MainKeys
  <2>2. k \notin CertKeys BY CertKeysReads
  <2>3. Written(k, main[k]) = <<main[k]>> /\ Parses(k, <<main[k]>>) /\ Reads(k, <<main[k]>>) = main[k]
    BY OptionWritten
  <2>4. k \in DOMAIN GnomeItems /\ GnomeItems[k] = <<main[k]>>
    BY <2>1, <2>2, <2>3, GnomeItemsAre, MainItemsAre DEF WithoutCertificate
  <2>5. <<main[k]>> /= <<>> OBVIOUS
  <2> QED BY <1>3, <2>3, <2>4, <2>5 DEF ItemReads
<1>7. ItemReads("login-type", new) = LoginType
  <2>1. "login-type" \in DOMAIN GnomeItems /\ GnomeItems["login-type"] = LoginType
    BY GnomeItemsAre, MainItemsAre
  <2> QED BY <1>3, <2>1, PlainTexts DEF ItemReads
<1>8. MainSaved(new) BY <1>4, <1>5, <1>6, <1>7 DEF MainSaved
<1> QED BY <1>8 DEF new

\* Saved in the Plasma editor.
LEMMA PlasmaMainSaved ==
  ASSUME Save, editor = "plasma", \A k \in DOMAIN Options : main[k] \in ToSet(Options[k])
  PROVE  MainSaved(profile'.data)
<1> DEFINE new == profile'.data
<1>1. Result(new, MainItems, kept, PlasmaRemoved) BY PlasmaSaves
<1>2. main["server-name"] /= <<>> BY DEF Save
<1> HIDE DEF new
<1>3. \A k \in DOMAIN MainItems :
        /\ k \in DOMAIN new <=> k \notin PlasmaRemoved
        /\ k \in DOMAIN new => new[k] = MainItems[k]
  BY <1>1 DEF Result
<1>4. "server-name" \in DOMAIN new /\ new["server-name"] = main["server-name"]
  <2>1. "server-name" \in MainKeys /\ "server-name" \notin CertKeys BY DEF MainKeys, CertKeys
  <2>2. MainItems["server-name"] = main["server-name"] /\ "server-name" \in DOMAIN MainItems
    BY <2>1, MainItemsAre, PlainTexts
  <2>3. "server-name" \notin PlasmaRemoved BY <1>2, <2>1, <2>2 DEF PlasmaRemoved
  <2> QED BY <1>3, <2>2, <2>3
<1>5. ASSUME NEW k \in CertKeys PROVE ItemReads(k, new) = WithoutCertificate(k, main[k])
  <2>1. k \in MainKeys \ {"user-name"} /\ Written(k, main[k]) = main[k] BY CertKeysReads
  <2>2. k \in DOMAIN MainItems /\ MainItems[k] = main[k] BY <2>1, MainItemsAre
  <2>3. k \in PlasmaRemoved <=> ~useCertificate BY CertKeysReads DEF PlasmaRemoved
  <2> QED BY <1>3, <2>2, <2>3, CertKeysReads DEF ItemReads, WithoutCertificate
<1>6. ASSUME NEW k \in DOMAIN Options
      PROVE  (k \in DOMAIN new => Parses(k, new[k])) /\ ItemReads(k, new) = main[k]
  <2>1. k \in MainKeys \ {"user-name"} BY OptionReads DEF MainKeys
  <2>2. k \notin CertKeys BY CertKeysReads
  <2>3. Written(k, main[k]) = <<main[k]>> /\ Parses(k, <<main[k]>>) /\ Reads(k, <<main[k]>>) = main[k]
    BY OptionWritten
  <2>4. k \in DOMAIN MainItems /\ MainItems[k] = <<main[k]>> BY <2>1, <2>3, MainItemsAre
  <2>5. k /= "server-name" /\ k /= "login-type" BY <2>1, OptionReads, AdvancedArePlain
  <2>6. k \notin PlasmaRemoved BY <2>2, <2>5 DEF PlasmaRemoved
  <2> QED BY <1>3, <2>3, <2>4, <2>6 DEF ItemReads
<1>7. ItemReads("login-type", new) = LoginType
  <2>1. "login-type" \in DOMAIN MainItems /\ MainItems["login-type"] = LoginType
    BY MainItemsAre
  <2>2. "login-type" \notin CertKeys BY CertKeysReads
  <2>3. "login-type" \in PlasmaRemoved <=> LoginType = <<>> BY <2>1, <2>2 DEF PlasmaRemoved
  <2> QED BY <1>3, <2>1, <2>3, PlainTexts DEF ItemReads
<1>8. MainSaved(new) BY <1>4, <1>5, <1>6, <1>7 DEF MainSaved
<1> QED BY <1>8 DEF new

\* What was saved parses, and is read as it is meant.
SavedShows ==
  /\ ItemsParse(profile.data)
  /\ \A k \in PlainKeys \ Hidden(opened) :
       InForce(k, profile.data, profile.user) = WithoutCertificate(k, intended[k])
  /\ InForce("server-name", profile.data, profile.user) /= <<>>

\* Saving makes it so, in either editor.
LEMMA SavingShows ==
  ASSUME ProfileInv, FormInv, EditInv, Save, ItemsParse(opened.data),
         editor = "plasma" /\ accepted => ShownTrue(opened.data)
  PROVE  SavedShows'
<1> DEFINE new == profile'.data
<1>1. /\ editor = "gnome" \/ editor = "plasma"
      /\ MainInv /\ GnomeInv /\ PlasmaInv
  BY DEF Save, ProfileInv, EditInv
<1>2. \A k \in DOMAIN Options : main[k] \in ToSet(Options[k]) BY <1>1 DEF MainInv, MainShows
<1>3. MainSaved(new) /\ profile'.user = main["user-name"]
  BY <1>1, <1>2, GnomeMainSaved, PlasmaMainSaved, GnomeSaves, PlasmaSaves
<1>4. SameUnmanaged(new, opened.data)
  <2>1. SameUnmanaged(profile'.data, profile.data) BY SavedProfile
  <2> QED BY <1>1, <2>1, SameIsTransitive DEF MainInv
<1>5. UNCHANGED <<opened, main, login, intended, useCertificate>> /\ main["server-name"] /= <<>>
  BY DEF Save, form
<1>6. KeptShows(new, intended)
  <2>1. CASE editor = "gnome"
    <3>1. Result(new, GnomeItems, profile.data, GnomeRemoved) BY <2>1, GnomeSaves
    <3>2. FormTyped(advanced) /\ AdvancedShows(advanced, intended) BY <1>1, <2>1 DEF FormInv, GnomeInv
    <3> HIDE DEF new
    <3>3. ASSUME NEW k \in AdvancedKeys
          PROVE  (k \in DOMAIN new => Parses(k, new[k])) /\ ItemReads(k, new) = intended[k]
      <4>1. k \in DOMAIN GnomeItems /\ GnomeItems[k] = Written(k, advanced[k]) BY GnomeItemsAre
      <4>2. /\ k \in DOMAIN new <=> Written(k, advanced[k]) /= <<>>
            /\ k \in DOMAIN new => new[k] = Written(k, advanced[k])
        BY <3>1, <4>1 DEF Result, GnomeRemoved
      <4>3. Carries(Written(k, advanced[k]), k, advanced[k]) BY <3>2, WrittenReads DEF FormTyped
      <4>4. Meaning(k, advanced[k]) = intended[k] BY <3>2 DEF AdvancedShows
      <4> QED BY <4>2, <4>3, <4>4 DEF Carries, ItemReads
    <3> QED BY <3>3 DEF KeptShows
  <2>2. CASE editor = "plasma"
    <3>1. Result(new, MainItems, kept, PlasmaRemoved) BY <2>2, PlasmaSaves
    <3>2. KeptShows(kept, intended) BY <1>1, <2>2 DEF PlasmaInv, Save
    <3> HIDE DEF new
    <3>3. ASSUME NEW k \in AdvancedKeys
          PROVE  (k \in DOMAIN new => Parses(k, new[k])) /\ ItemReads(k, new) = intended[k]
      <4>1. k \notin DOMAIN MainItems BY MainItemsAre, FlagsApart, AdvancedArePlain
      <4>2. k \notin PlasmaRemoved
        <5>1. "server-name" \in MainKeys /\ CertKeys \subseteq MainKeys BY DEF MainKeys
        <5> QED BY <5>1, AdvancedArePlain DEF PlasmaRemoved
      <4>3. (k \in DOMAIN new <=> k \in DOMAIN kept) /\ (k \in DOMAIN new => new[k] = kept[k])
        BY <3>1, <4>1, <4>2 DEF Result
      <4> QED BY <3>2, <4>3 DEF KeptShows, ItemReads
    <3> QED BY <3>3 DEF KeptShows
  <2> QED BY <1>1, <2>1, <2>2
<1> HIDE DEF new
<1>7. ItemsParse(new)
  <2>1. ASSUME NEW k \in Keys \cap DOMAIN new PROVE Parses(k, new[k])
    <3>1. CASE k \in AdvancedKeys BY <1>6, <2>1, <3>1 DEF KeptShows
    <3>2. CASE k \in DOMAIN Options BY <1>3, <2>1, <3>2 DEF MainSaved
    <3>3. CASE k \in Managed \ (AdvancedKeys \cup DOMAIN Options)
      <4>1. CASE k \in {"password-flags", "cert-password-flags"}
        BY <4>1 DEF Parses, BoolKeys, UintKeys, Options
      <4>2. CASE k \in {"server-name", "login-type"} \cup CertKeys
        <5>1. k \in TextKeys BY <4>2 DEF TextKeys, CertKeys
        <5> QED BY <5>1, TextReads
      <4>3. \A s \in SecretKeys : FlagsKey[s] \in {"password-flags", "cert-password-flags"} BY DEF FlagsKey
      <4> QED BY <3>3, <4>1, <4>2, <4>3 DEF Managed, MainKeys
    <3>4. CASE k \notin Managed
      <4>1. k \in DOMAIN opened.data /\ new[k] = opened.data[k] BY <1>4, <2>1, <3>4 DEF SameUnmanaged
      <4> QED BY <2>1, <4>1 DEF ItemsParse
    <3> QED BY <3>1, <3>2, <3>3, <3>4
  <2> QED BY <2>1 DEF ItemsParse
<1>8. InForce("server-name", new, profile'.user) = main["server-name"] BY <1>3 DEF MainSaved, InForce
<1>9. ASSUME NEW k \in PlainKeys \ Hidden(opened)
      PROVE  InForce(k, new, profile'.user) = WithoutCertificate(k, intended[k])
  <2>0. \A j \in MainKeys \ Hidden(opened) : main[j] = intended[j] \/ (j = "server-name" /\ main[j] = <<>>)
    BY <1>1 DEF MainInv, MainShows
  <2>1. CASE k = "server-name"
    <3>1. k \in MainKeys /\ k \notin CertKeys BY <2>1, CertKeysReads DEF MainKeys
    <3> QED BY <1>5, <1>8, <1>9, <2>0, <2>1, <3>1 DEF WithoutCertificate
  <2>2. CASE k = "user-name"
    <3>1. "user-name" \notin DOMAIN opened.data /\ "username" \notin DOMAIN opened.data
      BY <1>9, <2>2 DEF Hidden
    <3>2. "user-name" \notin Managed /\ "username" \notin Managed
      <4>1. \A s \in SecretKeys : FlagsKey[s] \in {"password-flags", "cert-password-flags"} BY DEF FlagsKey
      <4>2. "user-name" \notin AdvancedKeys /\ "username" \notin AdvancedKeys
        <5>1. "user-name" \in MainKeys BY DEF MainKeys
        <5>2. "username" \notin PlainKeys
          BY PlainKinds DEF TextKeys, ListKeys, BoolKeys, NumberKeys, UintKeys, Options
        <5> QED BY <5>1, <5>2, AdvancedArePlain
      <4>3. "username" \notin MainKeys BY DEF MainKeys, CertKeys, Options
      <4> QED BY <4>1, <4>2, <4>3 DEF Managed
    <3>3. "user-name" \notin DOMAIN new /\ "username" \notin DOMAIN new
      BY <1>4, <3>1, <3>2 DEF SameUnmanaged
    <3>4. InForce(k, new, profile'.user) = main["user-name"] BY <1>3, <2>2, <3>3 DEF InForce
    <3>5. k \in MainKeys /\ k \notin CertKeys BY <2>2, CertKeysReads DEF MainKeys
    <3> QED BY <1>9, <2>0, <2>2, <3>4, <3>5 DEF WithoutCertificate
  <2>3. CASE k \in PlainKeys \ {"server-name", "user-name"}
    <3>0. InForce(k, new, profile'.user) = ItemReads(k, new) BY <2>3, ItemsInForce
    <3>1. CASE k \in CertKeys
      <4>1. main[k] = intended[k] BY <1>9, <2>0, <2>3, <3>1, CertKeysReads
      <4> QED BY <1>3, <3>0, <3>1, <4>1 DEF MainSaved
    <3>2. CASE k \in DOMAIN Options
      <4>1. k \in MainKeys /\ k \notin CertKeys BY <3>2, CertKeysReads DEF MainKeys
      <4>2. main[k] = intended[k] BY <1>9, <2>0, <2>3, <4>1
      <4> QED BY <1>3, <3>0, <3>2, <4>1, <4>2 DEF MainSaved, WithoutCertificate
    <3>3. CASE k = "login-type"
      <4>1. LoginType = intended[k] BY <1>1, <3>3 DEF MainInv, MainShows, Chosen, LoginType
      <4>2. k \notin CertKeys BY <3>3, CertKeysReads
      <4> QED BY <1>3, <3>0, <3>3, <4>1, <4>2 DEF MainSaved, WithoutCertificate
    <3>4. CASE k \in AdvancedKeys
      <4>1. k \notin CertKeys BY <3>4, CertKeysReads, AdvancedArePlain
      <4> QED BY <1>6, <3>0, <3>4, <4>1 DEF KeptShows, WithoutCertificate
    <3>5. CASE k \in BareKeys
      <4>1. k \notin CertKeys /\ k \notin Managed BY <3>5, CertKeysReads, KeysByWidget
      <4>2. ItemReads(k, new) = ItemReads(k, opened.data)
        BY <1>4, <4>1 DEF SameUnmanaged, ItemReads
      <4>3. intended[k] = ItemReads(k, opened.data) BY <1>1, <3>5 DEF MainInv, BareShows
      <4> QED BY <3>0, <4>1, <4>2, <4>3 DEF WithoutCertificate
    <3> QED BY <2>3, <3>1, <3>2, <3>3, <3>4, <3>5, KeysByWidget DEF MainKeys
  <2> QED BY <2>1, <2>2, <2>3
<1> QED BY <1>5, <1>7, <1>8, <1>9 DEF SavedShows, WithoutCertificate, Hidden, new

\* Saved means saved as it is meant, until something changes.
SavedInv ==
  /\ saved /\ ItemsParse(opened.data)
  /\ editor = "plasma" /\ accepted => ShownTrue(opened.data)
  => SavedShows

\* Every step of an editor, and what becomes of what was saved.
Forgets == saved' = FALSE \/ UNCHANGED <<profile, opened, editor, accepted, useCertificate, intended, saved>>

\* No step of either breaks the invariant; all but saving forget or keep what was saved.
LEMMA EditSteps ==
  ASSUME ProfileInv, FormInv, EditInv, [Next]_vars
  PROVE  FormInv' /\ EditInv' /\ (Forgets \/ Save)
<1> USE DEF Forgets, Rest, form
<1>1. ASSUME NEW fetched \in BOOLEAN, OpenGnome(fetched) PROVE FormInv' /\ EditInv' /\ Forgets
  <2>1. Forgets BY <1>1 DEF OpenGnome, Opens
  <2> QED BY <1>1, <2>1, GnomeOpens
<1>2. ASSUME NEW fetched \in BOOLEAN, OpenPlasma(fetched) PROVE FormInv' /\ EditInv' /\ Forgets
  <2>1. Forgets BY <1>2 DEF OpenPlasma, Opens
  <2> QED BY <1>2, <2>1, PlasmaOpens
<1>3. ASSUME NEW e \in Edits, EditMain(e) PROVE FormInv' /\ EditInv' /\ Forgets
  <2>1. Forgets BY <1>3 DEF EditMain
  <2> QED BY <1>3, <2>1, MainEdited
<1>4. ASSUME NEW e \in Edits, EditAdvanced(e) PROVE FormInv' /\ EditInv' /\ Forgets
  <2>1. Forgets BY <1>4 DEF EditAdvanced
  <2> QED BY <1>4, <2>1, AdvancedEdited
<1>5. CASE ToggleCertificate
  <2>1. Still /\ Forgets BY <1>5 DEF ToggleCertificate, Still
  <2> QED BY <2>1, StillKeeps
<1>6. ASSUME NEW s \in SecretKeys, NEW text \in SecretTexts, NEW menu \in Menus, EditSecret(s, text, menu)
      PROVE  FormInv' /\ EditInv' /\ Forgets
  <2>1. Still /\ Forgets BY <1>6 DEF EditSecret, Still
  <2> QED BY <2>1, StillKeeps
<1>7. ASSUME NEW i \in 1 .. 3, SelectLogin(i) PROVE FormInv' /\ EditInv' /\ Forgets
  <2>1. /\ i \in DOMAIN login.ids /\ login' = [login EXCEPT !.at = i]
        /\ intended' = [intended EXCEPT !["login-type"] = login.ids[i]]
        /\ UNCHANGED <<profile, opened, editor, main, advanced, dialog, snapshot, kept, accepted, before>>
        /\ Forgets
    BY <1>7 DEF SelectLogin
  <2>2. editor /= "none" /\ ItemsParse(opened.data) => Chosen(login', login.ids[i])
    <3>1. ASSUME editor /= "none", ItemsParse(opened.data) PROVE Chosen(login', login.ids[i])
      <4>1. Chosen(login, intended["login-type"]) BY <3>1 DEF EditInv, MainInv, MainShows
      <4>2. login' = [ids |-> login.ids, at |-> i] BY <2>1, <4>1 DEF Chosen
      <4> QED BY <2>1, <4>2 DEF Chosen
    <3> QED BY <3>1
  <2> QED BY <2>1, <2>2, LoginChanged
<1>8. CASE QueryClicked
  <2>1. Still /\ Forgets BY <1>8 DEF QueryClicked, Still
  <2> QED BY <2>1, StillKeeps
<1>9. CASE QueryFails
  <2>1. Still /\ Forgets BY <1>9 DEF QueryFails, Still
  <2> QED BY <2>1, StillKeeps
<1>10. ASSUME NEW offer \in Offers, QueryDone(offer) PROVE FormInv' /\ EditInv' /\ Forgets
  <2> DEFINE was == intended["login-type"]
             v == IF was \in ToSet(offer) THEN was ELSE offer[1]
  <2>1. /\ login' = SetLoginTypeOptions(offer, LoginType)
        /\ intended' = [intended EXCEPT !["login-type"] = v]
        /\ UNCHANGED <<profile, opened, editor, main, advanced, dialog, snapshot, kept, accepted, before>>
        /\ Forgets
    BY <1>10 DEF QueryDone
  <2>2. editor /= "none" /\ ItemsParse(opened.data) => Chosen(login', v)
    <3>1. ASSUME editor /= "none", ItemsParse(opened.data) PROVE Chosen(login', v)
      <4>1. Chosen(login, was) BY <3>1 DEF EditInv, MainInv, MainShows
      <4>2. LoginType = was BY <4>1 DEF Chosen, LoginType
      <4> QED BY <2>1, <4>2, LoginOffered
    <3> QED BY <3>1
  <2> HIDE DEF v
  <2> QED BY <2>1, <2>2, LoginChanged
<1>11. CASE OpenAdvanced
  <2>1. Forgets BY <1>11 DEF OpenAdvanced
  <2> QED BY <1>11, <2>1, DialogOpens
<1>12. CASE AcceptGnome
  <2>1. Forgets BY <1>12 DEF AcceptGnome
  <2> QED BY <1>12, <2>1, GnomeAccepts
<1>13. CASE AcceptPlasma
  <2>1. Forgets BY <1>13 DEF AcceptPlasma
  <2> QED BY <1>13, <2>1, PlasmaAccepts
<1>14. CASE CancelAdvanced
  <2>1. Forgets BY <1>14 DEF CancelAdvanced
  <2> QED BY <1>14, <2>1, DialogCancelled
<1>15. CASE Save BY <1>15, SavingKeeps
<1>16. CASE Close
  <2>1. Forgets BY <1>16 DEF Close
  <2> QED BY <1>16, <2>1, EditorCloses
<1>17. ASSUME NEW reprompt \in BOOLEAN, NEW reach \in {"nobody", "dialog", "external"},
              NEW typed \in SecretTexts, Activate(reprompt, reach, typed)
       PROVE  FormInv' /\ EditInv' /\ Forgets
  <2>1. Still /\ Forgets BY <1>17 DEF Activate, Still
  <2> QED BY <2>1, StillKeeps
<1>18. CASE UNCHANGED vars
  <2>1. Still /\ Forgets BY <1>18 DEF vars, Still
  <2> QED BY <2>1, StillKeeps
<1> QED
  BY <1>1, <1>2, <1>3, <1>4, <1>5, <1>6, <1>7, <1>8, <1>9, <1>10, <1>11, <1>12, <1>13, <1>14,
     <1>15, <1>16, <1>17, <1>18
  DEF Next

\* What was saved stays so.
LEMMA SavedStays ==
  ASSUME ProfileInv, FormInv, EditInv, SavedInv, [Next]_vars
  PROVE  SavedInv'
<1>1. Forgets \/ Save BY EditSteps
<1>2. CASE saved' = FALSE BY <1>2 DEF SavedInv
<1>3. CASE UNCHANGED <<profile, opened, editor, accepted, useCertificate, intended, saved>>
  BY <1>3 DEF SavedInv, SavedShows, WithoutCertificate, Hidden
<1>4. CASE Save
  <2>1. UNCHANGED <<opened, editor, accepted>> BY <1>4 DEF Save
  <2>2. ASSUME ItemsParse(opened.data), editor = "plasma" /\ accepted => ShownTrue(opened.data)
        PROVE  SavedShows'
    BY <1>4, <2>2, SavingShows
  <2> QED BY <2>1, <2>2 DEF SavedInv
<1> QED BY <1>1, <1>2, <1>3, <1>4 DEF Forgets

\* It is what the property says.
LEMMA SavedMeans ==
  ASSUME ProfileInv, FormInv, SavedInv
  PROVE  SavedMeansWhatWasShown
<1>1. FromConnection(opened).ok <=> ItemsParse(opened.data) BY ConfigIs DEF FormInv
<1>2. SUFFICES ASSUME SavedShows
               PROVE  Means /\ (Connects <=> intended["login-type"] /= <<>>)
  BY <1>1 DEF SavedInv, SavedMeansWhatWasShown
<1>3. DOMAIN profile.secrets \subseteq SecretKeys BY DEF ProfileInv
<1>4. FromConnection(profile).ok BY <1>2, <1>3, ConfigIs DEF SavedShows
<1>5. /\ DOMAIN Effective(profile) = PlainKeys
      /\ \A k \in PlainKeys : Effective(profile)[k] = InForce(k, profile.data, profile.user)
  BY <1>3, <1>4, EffectiveIs
<1>6. \A k \in PlainKeys \ Hidden(opened) : Effective(profile)[k] = WithoutCertificate(k, intended[k])
  BY <1>2, <1>5 DEF SavedShows
<1>7. Means BY <1>5, <1>6 DEF Means, WithoutCertificate
<1>8. Connects <=> intended["login-type"] /= <<>>
  <2> DEFINE config == FromConnection(profile).config
  <2>1. "server-name" \in PlainKeys \ {"if-name"} /\ "login-type" \in PlainKeys \ {"if-name"}
    BY AdvancedArePlain DEF MainKeys
  <2>2. \A k \in PlainKeys \ {"if-name"} : config[k] = Effective(profile)[k] BY <1>3, EffectiveHas
  <2>3. config["server-name"] /= <<>> BY <1>2, <1>5, <2>1, <2>2 DEF SavedShows
  <2>4. config["login-type"] = intended["login-type"]
    <3>1. "login-type" \notin Hidden(opened) BY DEF Hidden
    <3>2. "login-type" \notin CertKeys BY CertKeysReads
    <3> QED BY <1>6, <2>1, <2>2, <3>1, <3>2 DEF WithoutCertificate
  <2> HIDE DEF config
  <2> QED BY <1>4, <2>3, <2>4 DEF Connects, ValidateForConnect, config
<1> QED BY <1>7, <1>8

\* Whatever was edited, cancelled, queried and reopened, in either editor, what
\* is saved is read as what was shown (nm-snx-editor.c:706-803, 984-1071,
\* snxwidget.cpp:204-216, 322-372).
THEOREM SavedIsWhatWasShown == Spec => []SavedMeansWhatWasShown
<1>1. Init => FormInv /\ EditInv /\ SavedInv
  <2>1. ASSUME Init PROVE FormInv
    <3>1. TextsTyped(profile.data) BY <2>1, WidgetConstants DEF Init, TextsTyped
    <3>2. DOMAIN opened.secrets \subseteq SecretKeys BY <2>1, ProfileConstants DEF Init
    <3> QED BY <2>1, <3>1, <3>2 DEF Init, FormInv
  <2>2. Init => EditInv /\ SavedInv BY DEF Init, EditInv, SavedInv
  <2> QED BY <2>1, <2>2
<1>2. FormInv /\ EditInv /\ SavedInv /\ ProfileInv /\ [Next]_vars => FormInv' /\ EditInv' /\ SavedInv'
  BY EditSteps, SavedStays
<1>3. ProfileInv /\ FormInv /\ SavedInv => SavedMeansWhatWasShown BY SavedMeans
<1> QED BY <1>1, <1>2, <1>3, ProfileInvHolds, PTL DEF Spec
=============================================================================
