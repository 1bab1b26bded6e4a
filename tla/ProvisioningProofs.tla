------------------------- MODULE ProvisioningProofs -------------------------
(***************************************************************************)
(* Theorems about Provisioning, for every set of firmware images, whatever *)
(* schemas, profiles and validators they have.                             *)
(***************************************************************************)
EXTENDS Provisioning, TLAPS

-----------------------------------------------------------------------------
(* The inductive invariant.                                                *)

\* What a boot knows at each of its stages: a candidate belongs to a profile
\* and runs only after setup(); what could not be used is not to be saved; and
\* a usable record has its Wi-Fi in the runtime until it is saved again.
Stages ==
    /\ at \in {"rtc", "load"} => decoded
    /\ candidate # "none" => at = "running"
    /\ pendingWiFi => at \in {"save", "running"}
    /\ candidate # "none" \/ pendingWiFi => HadTurn
    /\ requiresSave => status \notin {"Corrupt", "Incompatible"}
    /\ at \in {"apply", "save"} /\ Recorded =>
          \/ status \in {"Corrupt", "Incompatible"}
          \/ Usable /\ rt.wifi = stored.conf.wifi

\* Wi-Fi settings of a profile have connected before they are in the runtime.
RuntimeIsVerified == rt.wifi \in Labels => rt.wifi \in verified

\* The password between the load and the end of setup().
Passwords ==
    /\ at = "apply" /\ Recorded /\ decoded => rt.pw = stored.conf.pw
    /\ at = "apply" /\ Usable => Recorded /\ decoded
    /\ at = "save" /\ Usable =>
          Recorded /\ (requiresSave \/ rt.pw = stored.conf.pw)

\* The provisioning state that keeps the profile l from being applied again.
Remembers(prov, l) == l # NoLabel => <<prov.hash, prov.attempted>> = l

\* Which profile the device has settled with is stored, and it is in the runtime
\* once it is loaded; a parameter reset forgets it.
SettledIsStored ==
    /\ settled # NoLabel => Recorded
    /\ Recorded => Remembers(stored.conf.prov, settled)
    /\ forgotten => settled = NoLabel /\ ~edited

SettledIsInForce ==
    /\ at = "apply" /\ status # "Corrupt" => Remembers(rt.prov, settled)
    /\ at \in {"save", "running"} => Remembers(rt.prov, Settles)

Kept == rotated /\ ~forgotten

\* What the owner changed is stored, and firmware that brings a managed profile
\* brings the one that the device has settled with ...
OwnerIsStored ==
    /\ edited => Recorded /\ stored.conf.param.by = Owner
    /\ Kept => Recorded /\ stored.conf.pw = Owner
    /\ (edited \/ Kept) /\ Managed(image) => Label(image.profile) = settled

\* ... and it is in the runtime once it is loaded.
OwnerIsInForce ==
    at \in {"apply", "save", "running"} =>
        /\ edited /\ ~Unusable => rt.param.by = Owner
        /\ Kept /\ status # "Corrupt" => rt.pw = Owner

Inductive ==
    /\ TypeOK
    /\ Stages
    /\ ValuesMatchSchema
    /\ WiFiIsVerified /\ RuntimeIsVerified
    /\ Passwords /\ StoredPasswordRules
    /\ SettledIsStored /\ SettledIsInForce
    /\ OwnerIsStored /\ OwnerIsInForce

-----------------------------------------------------------------------------
(* Values.                                                                 *)

\* What an image and its profile bring is among the values; a label is neither
\* of the owner nor a default.
LEMMA Values ==
    /\ \A i \in Images :
          /\ i.schema \in Schemas
          /\ DefaultsOf(i) \in Runtime
          /\ i.profile # NoProfile =>
                /\ i.profile.id \in Ids /\ i.profile.rev \in Revisions
                /\ Label(i.profile) \in Labels
    /\ \A l \in Labels : l # Default /\ l # Owner /\ l # NoWiFi /\ l # NoLabel
    /\ NoProv \in Prov /\ Default # Owner /\ Owner # NoWiFi
    /\ \A kind \in Kinds : Nothing(kind) \in Stored /\ Nothing(kind).kind = kind
<1>1. ASSUME NEW i \in Images
      PROVE  /\ i.schema \in Schemas
             /\ i.profile # NoProfile =>
                   /\ i.profile.id \in Ids /\ i.profile.rev \in Revisions
                   /\ Label(i.profile) \in Labels
    BY DEF Schemas, Profiles, Ids, Revisions, Labels
<1>2. NoProv \in Prov
    BY DEF NoProv, Prov, Ids, Revisions
<1>3. ASSUME NEW i \in Images
      PROVE  DefaultsOf(i) \in Runtime
    BY <1>1, <1>2 DEF DefaultsOf, Runtime, Param, By
<1>4. ASSUME NEW p \in Profiles
      PROVE  p.id \notin {"none", "default", "owner"}
    BY ProvisioningAssumption DEF Profiles, ImageOK
<1>5. \A l \in Labels : l # Default /\ l # Owner /\ l # NoWiFi /\ l # NoLabel
    BY <1>4 DEF Labels, Label, Default, Owner, NoWiFi, NoLabel
<1>6. Default # Owner /\ Owner # NoWiFi
    BY DEF Default, Owner, NoWiFi
<1>7. \A kind \in Kinds : Nothing(kind) \in Stored /\ Nothing(kind).kind = kind
    BY DEF Stored, Nothing
<1> QED BY <1>1, <1>2, <1>3, <1>5, <1>6, <1>7

\* A record is a record.
LEMMA Records ==
    ASSUME TypeOK
    PROVE  /\ Recorded => stored \in Record /\ stored.conf \in Runtime
           /\ ~Recorded => stored.kind \in Kinds
           /\ rt \in Runtime /\ rt.param \in Param /\ rt.prov \in Prov
<1>1. stored \in Record \/ \E kind \in Kinds : stored = Nothing(kind)
    BY DEF TypeOK, Stored
<1>2. "record" \notin Kinds
    BY DEF Kinds
<1> QED BY <1>1, <1>2, Values DEF Recorded, Record, Runtime, TypeOK

\* Saving a configuration.
LEMMA Saving ==
    ASSUME TypeOK, NEW conf \in Runtime, NEW ok \in BOOLEAN, Save(conf, ok)
    PROVE  /\ stored' \in Stored /\ saveFailed' \in BOOLEAN
           /\ settled' \in Labels \cup {NoLabel}
           /\ settled' = IF ok THEN Settles ELSE settled
           /\ ok => stored' =
                     [kind |-> "record", schema |-> image.schema, conf |-> conf]
           /\ ok => /\ stored'.kind = "record" /\ stored'.conf = conf
                    /\ stored'.schema = image.schema
           /\ ~ok => stored' = stored /\ saveFailed'
<1>1. Settles \in Labels \cup {NoLabel}
    BY Values DEF Settles, HadTurn, TypeOK
<1> QED BY <1>1, Values DEF Save, TypeOK, Stored, Record

-----------------------------------------------------------------------------
(* Booting.                                                                *)

\* A device that has never been used.
LEMMA InitInductive == Init => Inductive
<1> SUFFICES ASSUME Init PROVE Inductive
    OBVIOUS
<1>1. PICK kind \in Kinds : stored = Nothing(kind)
    BY DEF Init
<1>2. ~Recorded
    BY <1>1, Values DEF Recorded, Kinds
<1>3. TypeOK
    BY <1>1, Values DEF Init, TypeOK, Statuses, Kinds
<1>4. Stages
    BY DEF Init, Stages
<1>5. ValuesMatchSchema /\ WiFiIsVerified /\ RuntimeIsVerified
    BY <1>2, Values DEF Init, DefaultsOf, ValuesMatchSchema, WiFiIsVerified,
       RuntimeIsVerified
<1>6. Passwords /\ StoredPasswordRules
    BY DEF Init, Passwords, StoredPasswordRules, PasswordAuthority, NotOpened
<1>7. OwnerIsStored /\ OwnerIsInForce
    BY DEF Init, OwnerIsStored, OwnerIsInForce, Kept
<1>8. SettledIsStored /\ SettledIsInForce
    BY DEF Init, SettledIsStored, SettledIsInForce, Remembers
<1> QED BY <1>3, <1>4, <1>5, <1>6, <1>7, <1>8 DEF Inductive

\* A boot depends on nothing but what is in flash.
LEMMA Booted ==
    ASSUME Inductive, NEW i \in Images, BootInto(i), UNCHANGED verified,
           stored' \in Stored,
           edited' \in BOOLEAN, rotated' \in BOOLEAN, forgotten' \in BOOLEAN,
           settled' \in Labels \cup {NoLabel},
           (Recorded => stored.conf.param.repr = stored.schema)',
           WiFiIsVerified', SettledIsStored', OwnerIsStored'
    PROVE  Inductive'
<1>1. TypeOK'
    BY Values DEF Inductive, TypeOK, BootInto, Statuses, Kinds
<1>2. Stages'
    BY DEF BootInto, Stages
<1>3. ValuesMatchSchema' /\ RuntimeIsVerified'
    BY Values DEF BootInto, DefaultsOf, ValuesMatchSchema, RuntimeIsVerified
<1>4. Passwords' /\ StoredPasswordRules'
    BY DEF BootInto, Passwords, StoredPasswordRules, PasswordAuthority, NotOpened
<1>5. SettledIsInForce' /\ OwnerIsInForce'
    BY DEF BootInto, SettledIsInForce, OwnerIsInForce
<1> QED BY <1>1, <1>2, <1>3, <1>4, <1>5 DEF Inductive

\* A power cut leaves the record alone.
LEMMA RebootKeeps == ASSUME Inductive, Reboot PROVE Inductive'
<1>1. SettledIsStored' /\ OwnerIsStored'
    BY DEF Inductive, Reboot, BootInto, owner, SettledIsStored, OwnerIsStored,
       Kept, Recorded
<1>2. WiFiIsVerified' /\ (Recorded => stored.conf.param.repr = stored.schema)'
    BY DEF Inductive, Reboot, WiFiIsVerified, ValuesMatchSchema, Recorded
<1> QED BY <1>1, <1>2, Booted DEF Inductive, TypeOK, Reboot, owner

\* Firmware that brings the managed profile the device has settled with, or none,
\* has nothing to apply to what the owner has changed.
LEMMA UploadKeeps ==
    ASSUME Inductive, NEW i \in Images, Upload(i) PROVE Inductive'
<1> DEFINE keeps == Managed(i) => Label(i.profile) = settled
<1>1. /\ edited' = (edited /\ keeps) /\ rotated' = (rotated /\ keeps)
      /\ forgotten' = (forgotten /\ keeps)
    BY DEF Upload, OwnerKeeps
<1>2. /\ edited' => edited /\ keeps
      /\ Kept' => Kept /\ keeps
      /\ forgotten' => forgotten
      /\ edited' \in BOOLEAN /\ rotated' \in BOOLEAN /\ forgotten' \in BOOLEAN
    BY <1>1 DEF Inductive, TypeOK, Kept
<1>3. image' = i /\ UNCHANGED <<stored, settled, verified>>
    BY DEF Upload, BootInto
<1>4. SettledIsStored'
    BY <1>2, <1>3 DEF Inductive, SettledIsStored, Recorded
<1>5. OwnerIsStored'
    BY <1>2, <1>3 DEF Inductive, OwnerIsStored, Managed, Recorded
<1>6. WiFiIsVerified' /\ (Recorded => stored.conf.param.repr = stored.schema)'
    BY <1>3 DEF Inductive, WiFiIsVerified, ValuesMatchSchema, Recorded
<1> QED BY <1>2, <1>3, <1>4, <1>5, <1>6, Booted DEF Inductive, TypeOK, Upload

\* A save over an unusable record takes the owner's changes with it; another one
\* stores them with the profile that must not be applied again.
LEMMA OwnerStored ==
    ASSUME Inductive, at \in {"save", "running"}, NEW ok \in BOOLEAN,
           NEW conf \in Runtime, image' = image, forgotten' = forgotten,
           settled' = IF ok THEN Settles ELSE settled,
           ok => stored'.kind = "record" /\ stored'.conf = conf,
           ~ok => stored' = stored,
           Remembers(conf.prov, Settles),
           conf.param.by = rt.param.by \/ conf.param.by = Owner,
           conf.pw = rt.pw \/ conf.pw = Owner,
           edited' => \/ edited /\ (~ok \/ ~Unusable)
                      \/ ok /\ Owned /\ conf.param.by = Owner,
           rotated' => \/ rotated /\ (~ok \/ ~Unusable)
                       \/ ok /\ Owned /\ conf.pw = Owner
    PROVE  SettledIsStored' /\ OwnerIsStored'
<1>1. SettledIsStored'
  <2>1. CASE ok
    <3>1. Recorded' /\ stored'.conf = conf /\ settled' = Settles
        BY <2>1 DEF Recorded
    <3>2. forgotten => Settles = NoLabel /\ ~edited'
        BY DEF Inductive, SettledIsStored, Settles, Owned
    <3> QED BY <3>1, <3>2 DEF SettledIsStored, Remembers
  <2>2. CASE ~ok
      BY <2>2 DEF Inductive, SettledIsStored, Remembers, Recorded
  <2> QED BY <2>1, <2>2
<1>2. CASE ~ok
    BY <1>1, <1>2 DEF Inductive, OwnerIsStored, Kept, Recorded, Managed
<1>3. CASE ok /\ Unusable
  <2>1. ~edited' /\ ~rotated'
      BY <1>3 DEF Owned
  <2> QED BY <1>1, <2>1 DEF OwnerIsStored, Kept
<1>4. CASE ok /\ ~Unusable
  <2>1. status # "Corrupt" /\ (InitialConfiguration \/ Usable)
      BY <1>4 DEF Inductive, TypeOK, Statuses, Kinds, InitialConfiguration, Usable,
         Unusable
  <2>2. /\ edited' => conf.param.by = Owner /\ ~forgotten
        /\ Kept' => conf.pw = Owner /\ ~forgotten
      BY <1>4, <2>1 DEF Inductive, OwnerIsInForce, SettledIsStored, Kept, Owned
  <2>3. ~forgotten /\ Managed(image) => Settles = Label(image.profile)
      BY <2>1 DEF Settles, HadTurn, Managed
  <2>4. Recorded' /\ stored'.conf = conf /\ settled' = Settles
      BY <1>4 DEF Recorded
  <2>5. Managed(image') = Managed(image)
      BY DEF Managed
  <2> QED BY <1>1, <2>2, <2>3, <2>4, <2>5 DEF OwnerIsStored
<1> QED BY <1>1, <1>2, <1>3, <1>4

\* The profiles are erased, and nothing else of the record.
LEMMA WiFiResetKeeps ==
    ASSUME Inductive, NEW ok \in BOOLEAN, WiFiReset(ok) PROVE Inductive'
<1> DEFINE conf == [rt EXCEPT !.wifi = NoWiFi]
<1>1. /\ conf \in Runtime /\ conf.wifi = NoWiFi
      /\ conf.param = rt.param /\ conf.pw = rt.pw /\ conf.prov = rt.prov
    BY Records DEF Inductive, Runtime
<1> HIDE DEF conf
<1>2. /\ ok => stored' = [kind |-> "record", schema |-> image.schema, conf |-> conf]
      /\ ~ok => stored' = stored
      /\ settled' = IF ok THEN Settles ELSE settled
      /\ image' = image /\ UNCHANGED <<forgotten, verified>> /\ at = "running"
      /\ edited' = (edited /\ ~(ok /\ Unusable))
      /\ rotated' = (rotated /\ ~(ok /\ Unusable))
    BY DEF WiFiReset, BootInto, OwnerAfterSave, conf, Calm
<1>3. edited' \in BOOLEAN /\ rotated' \in BOOLEAN /\ forgotten' \in BOOLEAN
    BY <1>2 DEF Inductive, TypeOK
<1>4. stored' \in Stored
    BY <1>1, <1>2, Values DEF Inductive, TypeOK, Stored, Record
<1>5. settled' \in Labels \cup {NoLabel}
    BY <1>2, Values DEF Inductive, TypeOK, Settles, HadTurn
<1>6. Remembers(conf.prov, Settles)
    BY <1>1, <1>2 DEF Inductive, SettledIsInForce
<1>7. SettledIsStored' /\ OwnerIsStored'
  <2>1. ok => stored'.kind = "record" /\ stored'.conf = conf
      BY <1>2
  <2>2. /\ edited' => edited /\ (~ok \/ ~Unusable)
        /\ rotated' => rotated /\ (~ok \/ ~Unusable)
      BY <1>2, <1>3
  <2> QED BY <1>1, <1>2, <1>6, <2>1, <2>2, OwnerStored
<1>8. WiFiIsVerified' /\ (Recorded => stored.conf.param.repr = stored.schema)'
    BY <1>1, <1>2, Values DEF Inductive, WiFiIsVerified, ValuesMatchSchema,
       Recorded
<1> QED BY <1>2, <1>3, <1>4, <1>5, <1>7, <1>8, Booted DEF Inductive, TypeOK,
       WiFiReset

\* Everything is erased.
LEMMA FactoryResetKeeps == ASSUME Inductive, FactoryReset PROVE Inductive'
<1>1. stored' \in Stored /\ ~Recorded'
    BY Values DEF FactoryReset, Recorded, Kinds
<1>2. edited' = FALSE /\ rotated' = FALSE /\ forgotten' = FALSE
    BY Zenon DEF FactoryReset, OwnerKeeps
<1>3. settled' = NoLabel
    BY DEF FactoryReset
<1>4. SettledIsStored' /\ OwnerIsStored' /\ WiFiIsVerified'
    BY <1>1, <1>2, <1>3 DEF SettledIsStored, OwnerIsStored, Kept, WiFiIsVerified
<1> QED BY <1>1, <1>2, <1>3, <1>4, Booted DEF Inductive, TypeOK, FactoryReset

\* No double reset: nothing happens.
LEMMA NoResetKeeps == ASSUME Inductive, NoReset PROVE Inductive'
<1> USE DEF Inductive, NoReset, owner
<1>1. TypeOK'
    BY DEF TypeOK
<1>2. Stages' /\ ValuesMatchSchema' /\ WiFiIsVerified' /\ RuntimeIsVerified'
    BY DEF Stages, ValuesMatchSchema, WiFiIsVerified, RuntimeIsVerified, Recorded,
       HadTurn, Managed, InitialConfiguration, Usable
<1>3. Passwords' /\ StoredPasswordRules'
    BY DEF Passwords, StoredPasswordRules, PasswordAuthority, NotOpened
<1>4. SettledIsStored' /\ SettledIsInForce' /\ OwnerIsStored' /\ OwnerIsInForce'
    BY DEF SettledIsStored, SettledIsInForce, OwnerIsStored, OwnerIsInForce, Kept,
       Recorded
<1> QED BY <1>1, <1>2, <1>3, <1>4

\* A double reset that saves the defaults takes the owner's changes with it.
LEMMA DoubleResetKeeps ==
    ASSUME Inductive, NEW ok \in BOOLEAN, DoubleReset(ok) PROVE Inductive'
<1>1. /\ edited' = (edited /\ ~ok) /\ rotated' = (rotated /\ ~ok)
      /\ forgotten' = (forgotten /\ ~ok)
    BY DEF DoubleReset, OwnerKeeps
<1>2. /\ edited' \in BOOLEAN /\ rotated' \in BOOLEAN /\ forgotten' \in BOOLEAN
      /\ ok => ~edited' /\ ~rotated' /\ ~forgotten'
      /\ ~ok => /\ edited' <=> edited
                /\ rotated' <=> rotated
                /\ forgotten' <=> forgotten
    BY <1>1 DEF Inductive, TypeOK
<1>3. /\ stored' \in Stored /\ saveFailed' \in BOOLEAN
      /\ settled' \in Labels \cup {NoLabel}
      /\ ok => /\ stored'.kind = "record" /\ stored'.conf = rt
               /\ stored'.schema = image.schema
      /\ ok => settled' = NoLabel
      /\ ~ok => stored' = stored /\ settled' = settled
    BY Saving, Records DEF Inductive, DoubleReset, Settles
<1>4. /\ at' = "load"
      /\ UNCHANGED <<image, rt, status, requiresSave, pendingWiFi, candidate,
                     decoded, verified>>
    BY DEF DoubleReset
<1>5. TypeOK'
    BY <1>2, <1>3, <1>4 DEF Inductive, TypeOK
<1>6. Stages' /\ ValuesMatchSchema' /\ WiFiIsVerified' /\ RuntimeIsVerified'
    BY <1>3, <1>4 DEF Inductive, DoubleReset, Stages, ValuesMatchSchema,
       WiFiIsVerified, RuntimeIsVerified, Recorded
<1>7. Passwords' /\ StoredPasswordRules'
    BY <1>4 DEF Passwords, StoredPasswordRules, PasswordAuthority, NotOpened
<1>8. SettledIsStored' /\ SettledIsInForce'
    BY <1>2, <1>3, <1>4 DEF Inductive, SettledIsStored, SettledIsInForce,
       Remembers, Recorded
<1>9. OwnerIsStored' /\ OwnerIsInForce'
    BY <1>2, <1>3, <1>4 DEF Inductive, OwnerIsStored, OwnerIsInForce, Kept,
       Managed, Recorded
<1> QED BY <1>5, <1>6, <1>7, <1>8, <1>9 DEF Inductive

-----------------------------------------------------------------------------
(* Loading.                                                                *)

\* Whatever a load finds, it leaves the record alone, and what the owner changed
\* is in force if the record can be used.
LEMMA Loaded ==
    ASSUME Inductive, NEW outcome \in Statuses, NEW conf \in Runtime,
           NEW save \in BOOLEAN, Loading(outcome, conf, save),
           decoded' \in BOOLEAN, decoded' => decoded \/ ~Recorded,
           edited' \in BOOLEAN, edited' => edited,
           conf.param.repr = image.schema,
           conf.wifi \in Labels => conf.wifi \in verified,
           save => outcome \notin {"Corrupt", "Incompatible"},
           Recorded /\ outcome \notin {"Corrupt", "Incompatible"} =>
               outcome \in {"Loaded", "Migrated"} /\ conf.wifi = stored.conf.wifi,
           Recorded /\ decoded' => conf.pw = stored.conf.pw,
           outcome \in {"Loaded", "Migrated"} => Recorded /\ decoded',
           Recorded /\ outcome # "Corrupt" =>
               conf.prov = stored.conf.prov /\ decoded',
           Recorded /\ outcome \in {"Loaded", "Migrated"} /\ edited' =>
               conf.param.by = stored.conf.param.by
    PROVE  Inductive'
<1>1. TypeOK'
    BY DEF Inductive, TypeOK, Loading
<1>2. Stages'
    BY DEF Inductive, Stages, Loading, Recorded, Usable
<1>3. ValuesMatchSchema' /\ WiFiIsVerified' /\ RuntimeIsVerified'
    BY DEF Inductive, Loading, ValuesMatchSchema, WiFiIsVerified,
       RuntimeIsVerified, Recorded
<1>4. Passwords' /\ StoredPasswordRules'
    BY DEF Loading, Passwords, StoredPasswordRules, PasswordAuthority, NotOpened,
       Usable, Recorded
<1>5. /\ at' = "apply" /\ status' = outcome /\ rt' = conf
      /\ UNCHANGED <<image, stored, rotated, forgotten, settled>>
    BY DEF Loading
<1>6. SettledIsStored' /\ SettledIsInForce'
    BY <1>5 DEF Inductive, SettledIsStored, SettledIsInForce, Remembers, Recorded
<1>7. OwnerIsStored'
    BY <1>5 DEF Inductive, OwnerIsStored, Kept, Managed, Recorded
<1>8. OwnerIsInForce'
    BY <1>5 DEF Inductive, OwnerIsStored, OwnerIsInForce, Kept, Unusable, Recorded
<1> QED BY <1>1, <1>2, <1>3, <1>4, <1>6, <1>7, <1>8 DEF Inductive

\* Nothing is found that can be decoded.
LEMMA LoadNothingKeeps == ASSUME Inductive, LoadNothing PROVE Inductive'
<1>1. /\ edited' = edited /\ decoded' = ~Recorded /\ decoded' \in BOOLEAN
    BY DEF LoadNothing
<1>2. CASE ~Recorded /\ Loading(stored.kind, rt, FALSE)
  <2>1. stored.kind \in Kinds
      BY <1>2, Records DEF Inductive
  <2>2. stored.kind \in Statuses /\ stored.kind \notin {"Loaded", "Migrated"}
      BY <2>1 DEF Statuses, Kinds
  <2> QED BY <1>1, <1>2, <2>2, Loaded DEF Inductive, TypeOK, ValuesMatchSchema,
         RuntimeIsVerified
<1>3. CASE Recorded /\ Loading("Corrupt", rt, FALSE)
  <2>1. "Corrupt" \in Statuses
      BY DEF Statuses, Kinds
  <2> QED BY <1>1, <1>3, <2>1, Loaded DEF Inductive, TypeOK, ValuesMatchSchema,
         RuntimeIsVerified
<1> QED BY <1>2, <1>3 DEF LoadNothing

\* The record without its parameters.
LEMMA RestoredValues ==
    ASSUME Inductive, Recorded
    PROVE  /\ Restored \in Runtime
           /\ Restored.param = rt.param /\ Restored.param.repr = image.schema
           /\ Restored.pw = stored.conf.pw /\ Restored.wifi = stored.conf.wifi
           /\ Restored.prov = stored.conf.prov
           /\ Restored.wifi \in Labels => Restored.wifi \in verified
<1>1. stored.conf \in Runtime /\ rt.param \in Param
    BY Records DEF Inductive
<1>2. /\ Restored \in Runtime
      /\ Restored.param = rt.param
      /\ Restored.pw = stored.conf.pw /\ Restored.wifi = stored.conf.wifi
      /\ Restored.prov = stored.conf.prov
    BY <1>1 DEF Restored, Runtime
<1> QED BY <1>2 DEF Inductive, ValuesMatchSchema, WiFiIsVerified

\* A record for other firmware: its password is in force.
LEMMA LoadUnusableKeeps == ASSUME Inductive, LoadUnusable PROVE Inductive'
<1>1. PICK outcome \in {"Corrupt", "Incompatible"} : Loading(outcome, Restored, FALSE)
    BY DEF LoadUnusable
<1>2. Recorded /\ at = "load" /\ UNCHANGED <<decoded, edited>>
    BY <1>1 DEF LoadUnusable, Loading
<1>3. decoded
    BY <1>2 DEF Inductive, Stages
<1>4. outcome \in Statuses /\ outcome \notin {"Loaded", "Migrated"}
    BY DEF Statuses, Kinds
<1> QED BY <1>1, <1>2, <1>3, <1>4, RestoredValues, Loaded DEF Inductive, TypeOK

\* A usable record: the owner's values are in force again, unless the
\* validators reject them.
LEMMA LoadUsableKeeps == ASSUME Inductive, LoadUsable PROVE Inductive'
<1> DEFINE valid == stored.conf.param.by \in image.accepts
           older == stored.schema < image.schema
           converted == [stored.conf EXCEPT !.param = Migrated]
           outcome == IF older THEN "Migrated" ELSE "Loaded"
           conf == IF valid THEN converted ELSE Restored
<1>1. /\ Recorded /\ Loading(outcome, conf, older \/ ~valid)
      /\ edited' = (edited /\ valid) /\ UNCHANGED decoded /\ at = "load"
    BY DEF LoadUsable, Loading
<1>2. stored.conf \in Runtime /\ stored.conf.param \in Param
    BY <1>1, Records DEF Inductive, Runtime
<1>3. /\ Migrated \in Param /\ Migrated.repr = image.schema
      /\ Migrated.by = stored.conf.param.by
    BY <1>2, Values DEF Inductive, TypeOK, Migrated, Param
<1>4. /\ converted \in Runtime /\ converted.param = Migrated
      /\ converted.pw = stored.conf.pw /\ converted.wifi = stored.conf.wifi
      /\ converted.prov = stored.conf.prov
    BY <1>2, <1>3 DEF Runtime
<1>5. /\ conf \in Runtime /\ conf.param.repr = image.schema
      /\ conf.pw = stored.conf.pw /\ conf.wifi = stored.conf.wifi
      /\ conf.prov = stored.conf.prov
      /\ conf.wifi \in Labels => conf.wifi \in verified
      /\ valid => conf.param.by = stored.conf.param.by
    BY <1>1, <1>3, <1>4, RestoredValues DEF Inductive, WiFiIsVerified
<1>6. outcome \in {"Loaded", "Migrated"} /\ outcome \in Statuses
    BY DEF Statuses
<1> HIDE DEF conf, outcome
<1>7. edited' \in BOOLEAN /\ (edited' => edited /\ valid)
    BY <1>1 DEF Inductive, TypeOK
<1>8. decoded
    BY <1>1 DEF Inductive, Stages
<1> QED BY <1>1, <1>5, <1>6, <1>7, <1>8, Loaded DEF Inductive, TypeOK

-----------------------------------------------------------------------------
(* The profile of the image.                                               *)

\* The password of a profile is its label or the one there is.
LEMMA ProfilePassword ==
    ASSUME Inductive, NEW p \in {image.profile} \ {NoProfile}
    PROVE  /\ p \in Profiles /\ p.id \in Ids /\ p.rev \in Revisions
           /\ Label(p) \in Labels
           /\ Password(p) = rt.pw \/ Password(p) = Label(p)
           /\ Password(p) \in By
    BY Values, Records DEF Inductive, TypeOK, Profiles, Password, Runtime, By

\* What the owner changed is out of reach of a managed profile: it is the one the
\* device has settled with, which is not applied to a usable record and gives
\* its password to none that could be decoded.
LEMMA AppliedOnce ==
    ASSUME Inductive, at = "apply", status # "Corrupt", edited \/ Kept,
           NEW p \in {image.profile} \ {NoProfile}, p.ours
    PROVE  ~ApplyNow(p) /\ ~MayApply(p) /\ Password(p) = rt.pw
<1>1. Recorded
    BY DEF Inductive, OwnerIsStored
<1>2. ~InitialConfiguration
    BY <1>1 DEF Inductive, Stages, Usable, InitialConfiguration
<1>3. ASSUME p.policy = "reconcile" PROVE ~Differs(p)
  <2>1. Label(p) = settled
      BY <1>3 DEF Inductive, OwnerIsStored, Managed
  <2>2. settled # NoLabel
      BY <2>1, Values DEF Inductive, TypeOK
  <2>3. <<rt.prov.hash, rt.prov.attempted>> = <<p.id, p.rev>>
      BY <2>1, <2>2 DEF Inductive, SettledIsInForce, Remembers, Label
  <2> QED BY <2>3 DEF Differs
<1>4. ~ApplyNow(p)
    BY <1>2, <1>3 DEF ApplyNow
<1> QED BY <1>2, <1>4 DEF Password, TakesPassword, MayApply

\* The runtime with a profile laid over it.
LEMMA AppliedValues ==
    ASSUME Inductive, NEW p \in {image.profile} \ {NoProfile}
    PROVE  /\ AppliedRuntime(p) \in Runtime
           /\ AppliedRuntime(p).pw = Password(p)
           /\ AppliedRuntime(p).wifi = rt.wifi
           /\ AppliedRuntime(p).param.repr = rt.param.repr
           /\ AppliedRuntime(p).prov.hash = p.id
           /\ AppliedRuntime(p).prov.attempted = p.rev
<1>1. rt \in Runtime /\ rt.param \in Param /\ rt.prov \in Prov
    BY Records DEF Inductive
<1>2. p.id \in Ids /\ p.rev \in Revisions /\ Label(p) \in By /\ Password(p) \in By
    BY ProfilePassword DEF By
<1> QED BY <1>1, <1>2 DEF AppliedRuntime, Runtime, Param, Prov

\* A profile is laid over a first configuration, or over a usable record that
\* it has not been applied to, which nothing of the owner's is then in.
LEMMA ApplyProfileKeeps ==
    ASSUME Inductive, NEW p \in {image.profile} \ {NoProfile}, ApplyProfile(p)
    PROVE  Inductive'
<1>1. /\ at = "apply" /\ p.ours /\ MayApply(p) /\ rt' = AppliedRuntime(p)
      /\ at' = "save" /\ requiresSave' = TRUE /\ pendingWiFi' = p.wifi
      /\ UNCHANGED <<image, stored, status, candidate, decoded, edited, rotated,
                     forgotten, settled, verified, saveFailed>>
    BY DEF ApplyProfile, owner
<1>2. /\ rt' \in Runtime /\ rt'.pw = Password(p) /\ rt'.wifi = rt.wifi
      /\ rt'.param.repr = rt.param.repr
      /\ rt'.prov.hash = p.id /\ rt'.prov.attempted = p.rev
    BY <1>1, AppliedValues
<1>3. status \notin {"Corrupt", "Incompatible"}
    BY <1>1 DEF MayApply, InitialConfiguration, Usable
<1>4. ~edited /\ ~Kept
    BY <1>1, <1>3, AppliedOnce
<1>5. p.wifi \in BOOLEAN
    BY ProvisioningAssumption DEF Inductive, TypeOK, ImageOK
<1>6. TypeOK'
    BY <1>1, <1>2, <1>5 DEF Inductive, TypeOK
<1>7. Stages'
    BY <1>1, <1>2, <1>3 DEF Inductive, Stages, Recorded, Usable, HadTurn, MayApply,
       ApplyNow, Managed, InitialConfiguration
<1>8. ValuesMatchSchema' /\ WiFiIsVerified' /\ RuntimeIsVerified'
    BY <1>1, <1>2 DEF Inductive, ValuesMatchSchema, WiFiIsVerified,
       RuntimeIsVerified, Recorded
<1>9. Passwords'
    BY <1>1 DEF Inductive, Passwords, Usable, Recorded
<1>10. StoredPasswordRules'
    BY <1>1, <1>2, ProfilePassword, Values DEF Inductive, Passwords,
       StoredPasswordRules, PasswordAuthority, NotOpened, Recorded
<1>11. OwnerIsStored' /\ OwnerIsInForce' /\ SettledIsStored'
    BY <1>1, <1>4 DEF Inductive, OwnerIsStored, OwnerIsInForce, SettledIsStored,
       Kept, Recorded
<1>12. SettledIsInForce'
  <2>1. HadTurn'
      BY <1>1 DEF HadTurn, MayApply, ApplyNow, Managed, InitialConfiguration, Usable
  <2>2. Settles' = NoLabel \/ Settles' = Label(p)
      BY <1>1, <2>1 DEF Settles
  <2> QED BY <1>1, <1>2, <2>2 DEF SettledIsInForce, Remembers, Label
<1> QED BY <1>6, <1>7, <1>8, <1>9, <1>10, <1>11, <1>12 DEF Inductive

\* A profile that is not to be applied supplies at most the password of what
\* could not be used.
LEMMA PassProfileKeeps ==
    ASSUME Inductive, NEW p \in {image.profile} \ {NoProfile}, PassProfile(p)
    PROVE  Inductive'
<1>1. /\ at = "apply" /\ p.ours /\ ~MayApply(p)
      /\ rt' = [rt EXCEPT !.pw = Password(p)] /\ at' = "save"
      /\ UNCHANGED <<image, stored, status, requiresSave, pendingWiFi, candidate,
                     decoded, edited, rotated, forgotten, settled, verified,
                     saveFailed>>
    BY DEF PassProfile, owner
<1>2. /\ rt' \in Runtime /\ rt'.pw = Password(p) /\ rt'.wifi = rt.wifi
      /\ rt'.param = rt.param /\ rt'.prov = rt.prov
    BY <1>1, ProfilePassword, Records DEF Inductive, Runtime
<1>3. Usable => Password(p) = rt.pw
  <2>1. Usable => ~ApplyNow(p) /\ ~InitialConfiguration /\ status # "Corrupt"
      BY <1>1 DEF MayApply, Usable, InitialConfiguration
  <2> QED BY <2>1 DEF Password, TakesPassword
<1>4. TypeOK'
    BY <1>1, <1>2 DEF Inductive, TypeOK
<1>5. Stages'
    BY <1>1, <1>2 DEF Inductive, Stages, Recorded, Usable, HadTurn, Managed,
       InitialConfiguration
<1>6. ValuesMatchSchema' /\ WiFiIsVerified' /\ RuntimeIsVerified'
    BY <1>1, <1>2 DEF Inductive, ValuesMatchSchema, WiFiIsVerified,
       RuntimeIsVerified, Recorded
<1>7. Passwords'
    BY <1>1, <1>2, <1>3 DEF Inductive, Passwords, Usable, Recorded
<1>8. StoredPasswordRules'
    BY <1>1, <1>2, ProfilePassword, Values DEF Inductive, Passwords,
       StoredPasswordRules, PasswordAuthority, NotOpened, Recorded
<1>9. OwnerIsStored' /\ SettledIsStored'
    BY <1>1 DEF Inductive, OwnerIsStored, SettledIsStored, Kept, Recorded
<1>10. SettledIsInForce'
  <2>1. CASE status = "Corrupt"
    <3>1. Settles' = NoLabel
        BY <1>1, <2>1 DEF Settles
    <3> QED BY <1>1, <3>1 DEF SettledIsInForce, Remembers
  <2>2. CASE status # "Corrupt" /\ HadTurn
    <3>1. ~ApplyNow(p) /\ ~InitialConfiguration /\ p.policy = "reconcile"
        BY <1>1, <2>2 DEF HadTurn, MayApply, ApplyNow, Managed
    <3>2. <<rt.prov.hash, rt.prov.attempted>> = Label(p)
        BY <3>1 DEF ApplyNow, Differs, Label
    <3>3. Settles' = NoLabel \/ Settles' = Label(p)
        BY <1>1, <2>2 DEF Settles, HadTurn, Managed, InitialConfiguration, Usable
    <3> QED BY <1>1, <1>2, <3>2, <3>3 DEF SettledIsInForce, Remembers
  <2>3. CASE status # "Corrupt" /\ ~HadTurn
    <3>1. Settles' = NoLabel \/ Settles' = settled
        BY <1>1, <2>3 DEF Settles, HadTurn, Managed, InitialConfiguration, Usable
    <3>2. Remembers(rt.prov, settled)
        BY <1>1, <2>3 DEF Inductive, SettledIsInForce
    <3> QED BY <1>1, <1>2, <3>1, <3>2 DEF SettledIsInForce, Remembers
  <2> QED BY <2>1, <2>2, <2>3
<1>11. OwnerIsInForce'
  <2>1. Kept /\ status # "Corrupt" => Password(p) = rt.pw
      BY <1>1, AppliedOnce
  <2> QED BY <1>1, <1>2, <2>1 DEF Inductive, OwnerIsInForce, Kept, Unusable
<1> QED BY <1>4, <1>5, <1>6, <1>7, <1>8, <1>9, <1>10, <1>11 DEF Inductive

\* No profile, or one for another application.
LEMMA IgnoreProfileKeeps == ASSUME Inductive, IgnoreProfile PROVE Inductive'
<1>1. /\ at = "apply" /\ at' = "save"
      /\ image.profile # NoProfile => ~image.profile.ours
      /\ UNCHANGED <<image, stored, rt, status, requiresSave, pendingWiFi,
                     candidate, decoded, edited, rotated, forgotten, settled,
                     verified, saveFailed>>
    BY DEF IgnoreProfile, owner
<1>2. TypeOK'
    BY <1>1 DEF Inductive, TypeOK
<1>3. Stages' /\ ValuesMatchSchema' /\ WiFiIsVerified' /\ RuntimeIsVerified'
    BY <1>1 DEF Inductive, Stages, ValuesMatchSchema, WiFiIsVerified,
       RuntimeIsVerified, Recorded, Usable
<1>4. Passwords' /\ StoredPasswordRules'
    BY <1>1 DEF Inductive, Passwords, StoredPasswordRules, PasswordAuthority,
       NotOpened, Usable, Recorded
<1>5. OwnerIsStored' /\ OwnerIsInForce' /\ SettledIsStored'
    BY <1>1 DEF Inductive, OwnerIsStored, OwnerIsInForce, SettledIsStored, Kept,
       Recorded, Unusable
<1>6. SettledIsInForce'
  <2>1. Settles' = NoLabel \/ (Settles' = settled /\ status # "Corrupt")
      BY <1>1 DEF Settles, HadTurn
  <2> QED BY <1>1, <2>1 DEF Inductive, SettledIsInForce, Remembers
<1> QED BY <1>2, <1>3, <1>4, <1>5, <1>6 DEF Inductive

\* setup() saves what the load or the profile has changed.
LEMMA BootSaveKeeps ==
    ASSUME Inductive, NEW ok \in BOOLEAN, BootSave(ok) PROVE Inductive'
<1> DEFINE saves == requiresSave /\ ok
<1>1. /\ at = "save" /\ at' = "running"
      /\ candidate' = Started
      /\ UNCHANGED <<image, rt, status, requiresSave, pendingWiFi, decoded, verified>>
    BY DEF BootSave
<1>2. /\ stored' \in Stored /\ saveFailed' \in BOOLEAN
      /\ settled' \in Labels \cup {NoLabel}
      /\ settled' = IF saves THEN Settles ELSE settled
      /\ saves => /\ stored'.kind = "record" /\ stored'.conf = rt
                  /\ stored'.schema = image.schema
      /\ ~saves => stored' = stored /\ (~requiresSave \/ saveFailed')
  <2>1. CASE requiresSave
      BY <2>1, Saving, Records DEF Inductive, BootSave
  <2>2. CASE ~requiresSave
      BY <2>2 DEF Inductive, TypeOK, BootSave, owner
  <2> QED BY <2>1, <2>2
<1>3. /\ edited' \in BOOLEAN /\ rotated' \in BOOLEAN /\ forgotten' = forgotten
      /\ edited' => edited /\ (~saves \/ ~Unusable)
      /\ rotated' => rotated /\ (~saves \/ ~Unusable)
    BY DEF Inductive, TypeOK, BootSave, OwnerAfterSave, owner
<1>4. candidate' \in {"none", "trying"} /\ (candidate' = "trying" => pendingWiFi)
    BY <1>1 DEF Started
<1>5. TypeOK'
    BY <1>1, <1>2, <1>3, <1>4 DEF Inductive, TypeOK
<1>6. Stages'
    BY <1>1, <1>4 DEF Inductive, Stages, HadTurn, Managed, InitialConfiguration,
       Usable
<1>7. ValuesMatchSchema' /\ WiFiIsVerified' /\ RuntimeIsVerified'
    BY <1>1, <1>2 DEF Inductive, ValuesMatchSchema, WiFiIsVerified,
       RuntimeIsVerified, Recorded
<1>8. Passwords' /\ StoredPasswordRules'
    BY <1>1, <1>2 DEF Inductive, Passwords, StoredPasswordRules,
       PasswordAuthority, NotOpened, Usable, Recorded
<1>9. Remembers(rt.prov, Settles)
    BY <1>1 DEF Inductive, SettledIsInForce
<1>10. saves \in BOOLEAN /\ rt \in Runtime
    BY DEF Inductive, TypeOK
<1> HIDE DEF saves
<1>11. SettledIsStored' /\ OwnerIsStored'
    BY <1>1, <1>2, <1>3, <1>9, <1>10, OwnerStored
<1>12. SettledIsInForce'
  <2>1. Settles' = Settles
      BY <1>1, <1>2, <1>3 DEF Settles, HadTurn, Managed, InitialConfiguration, Usable
  <2> QED BY <1>1, <1>9, <2>1 DEF SettledIsInForce
<1>13. OwnerIsInForce'
    BY <1>1, <1>3 DEF Inductive, OwnerIsInForce, Kept, Unusable
<1> QED BY <1>5, <1>6, <1>7, <1>8, <1>11, <1>12, <1>13 DEF Inductive

-----------------------------------------------------------------------------
(* Running.                                                                *)

\* While the device runs a step that saves leaves the stored record as it was
\* or makes it the new runtime, in which whatever the owner changed still is.
LEMMA Saved ==
    ASSUME Inductive, at = "running", NEW ok \in BOOLEAN,
           UNCHANGED <<image, at, status, requiresSave, decoded, forgotten>>,
           candidate' \in {"none", "trying", "stored"}, pendingWiFi' \in BOOLEAN,
           saveFailed' \in BOOLEAN, edited' \in BOOLEAN, rotated' \in BOOLEAN,
           candidate' # "none" \/ pendingWiFi' => HadTurn,
           rt' \in Runtime, rt'.param.repr = image.schema,
           verified \subseteq verified', verified' \subseteq Labels,
           rt'.wifi \in Labels => rt'.wifi \in verified',
           rt'.pw = rt.pw \/ rt'.pw = Owner,
           rt'.param.by = rt.param.by \/ rt'.param.by = Owner,
           Remembers(rt'.prov, Settles),
           ok => stored' = [kind |-> "record", schema |-> image.schema, conf |-> rt'],
           ~ok => stored' = stored /\ saveFailed',
           settled' = IF ok THEN Settles ELSE settled,
           settled' \in Labels \cup {NoLabel},
           edited' => \/ edited /\ (~ok \/ ~Unusable)
                      \/ ok /\ Owned /\ rt'.param.by = Owner,
           rotated' => \/ rotated /\ (~ok \/ ~Unusable)
                       \/ ok /\ Owned /\ rt'.pw = Owner
    PROVE  Inductive'
<1> DEFINE record == [kind |-> "record", schema |-> image.schema, conf |-> rt']
<1>1. record \in Stored
    BY Values DEF Inductive, TypeOK, Stored, Record
<1>2. TypeOK'
    BY <1>1 DEF Inductive, TypeOK
<1>3. Stages'
    BY DEF Inductive, Stages, HadTurn, Managed, InitialConfiguration, Usable
<1>4. ValuesMatchSchema' /\ WiFiIsVerified' /\ RuntimeIsVerified'
    BY DEF Inductive, ValuesMatchSchema, WiFiIsVerified, RuntimeIsVerified,
       Recorded
<1>5. Passwords'
    BY DEF Passwords
<1>6. PasswordAuthority'
    BY DEF Inductive, StoredPasswordRules, PasswordAuthority, Usable, Recorded
<1>7. NotOpened'
    BY Values DEF Inductive, StoredPasswordRules, NotOpened, Recorded
<1>8. SettledIsStored' /\ OwnerIsStored'
  <2>1. ok => stored'.kind = "record" /\ stored'.conf = rt'
      OBVIOUS
  <2> QED BY <2>1, OwnerStored
<1>9. SettledIsInForce'
  <2>1. Settles' = Settles
      BY DEF Settles, HadTurn, Managed, InitialConfiguration, Usable
  <2> QED BY <2>1 DEF SettledIsInForce
<1>10. OwnerIsInForce'
    BY DEF Inductive, OwnerIsInForce, Kept, Unusable, Owned
<1> QED BY <1>2, <1>3, <1>4, <1>5, <1>6, <1>7, <1>8, <1>9, <1>10 DEF Inductive,
       StoredPasswordRules

\* Such a step, if it is not a change of the owner's.
LEMMA OwnerUntouched ==
    ASSUME Inductive, NEW ok \in BOOLEAN, OwnerAfterSave(ok)
    PROVE  /\ edited' \in BOOLEAN /\ rotated' \in BOOLEAN /\ forgotten' = forgotten
           /\ edited' => edited /\ (~ok \/ ~Unusable)
           /\ rotated' => rotated /\ (~ok \/ ~Unusable)
    BY DEF Inductive, TypeOK, OwnerAfterSave

\* A profile's Wi-Fi settings are stored once they have connected.
LEMMA CandidateConnectsKeeps ==
    ASSUME Inductive, NEW ok \in BOOLEAN, CandidateConnects(ok) PROVE Inductive'
<1> DEFINE conf == [rt EXCEPT !.wifi = Label(image.profile)]
<1>1. /\ at = "running" /\ candidate = "trying"
      /\ verified' = verified \cup {Label(image.profile)}
      /\ Save(conf, ok) /\ rt' = IF ok THEN conf ELSE rt
      /\ candidate' = IF ok THEN "stored" ELSE "none"
      /\ OwnerAfterSave(ok)
      /\ UNCHANGED <<image, at, status, requiresSave, pendingWiFi, decoded>>
    BY DEF CandidateConnects
<1>2. image.profile # NoProfile /\ Label(image.profile) \in Labels
    BY <1>1, Values DEF Inductive, Stages, TypeOK, HadTurn
<1>3. /\ conf \in Runtime /\ conf.pw = rt.pw /\ conf.param = rt.param
      /\ conf.prov = rt.prov /\ conf.wifi = Label(image.profile)
    BY <1>2, Records DEF Inductive, Runtime
<1> HIDE DEF conf
<1>4. /\ saveFailed' \in BOOLEAN /\ settled' \in Labels \cup {NoLabel}
      /\ settled' = IF ok THEN Settles ELSE settled
      /\ ok => stored' = [kind |-> "record", schema |-> image.schema, conf |-> rt']
      /\ ~ok => stored' = stored /\ saveFailed'
    BY <1>1, <1>3, Saving DEF Inductive
<1>5. /\ rt' \in Runtime /\ rt'.pw = rt.pw /\ rt'.param = rt.param
      /\ rt'.prov = rt.prov
      /\ rt'.wifi \in Labels => rt'.wifi \in verified'
    BY <1>1, <1>3, Records DEF Inductive, RuntimeIsVerified
<1>6. Remembers(rt'.prov, Settles)
    BY <1>1, <1>5 DEF Inductive, SettledIsInForce
<1>7. verified \subseteq verified' /\ verified' \subseteq Labels
    BY <1>1, <1>2 DEF Inductive, TypeOK
<1>8. candidate' \in {"none", "trying", "stored"} /\ pendingWiFi' \in BOOLEAN
      /\ HadTurn /\ rt'.param.repr = image.schema
    BY <1>1, <1>5 DEF Inductive, TypeOK, ValuesMatchSchema, Stages
<1> QED BY <1>1, <1>2, <1>4, <1>5, <1>6, <1>7, <1>8, OwnerUntouched, Saved

\* Then the revision is recorded as applied.
LEMMA MarkKeeps ==
    ASSUME Inductive, NEW ok \in BOOLEAN, MarkConnectionSucceeded(ok)
    PROVE  Inductive'
<1>1. /\ candidate = "stored" /\ candidate' = "none" /\ pendingWiFi' = ~ok
      /\ rt' = [rt EXCEPT !.prov.hash = image.profile.id,
                          !.prov.applied = image.profile.rev]
      /\ Save(rt', ok)
      /\ OwnerAfterSave(ok)
      /\ UNCHANGED <<image, at, status, requiresSave, decoded, verified>>
    BY DEF MarkConnectionSucceeded
<1>2. at = "running" /\ image.profile # NoProfile
    BY <1>1 DEF Inductive, Stages, HadTurn
<1>3. image.profile.id \in Ids /\ image.profile.rev \in Revisions
    BY <1>2, Values DEF Inductive, TypeOK
<1>4. rt \in Runtime /\ rt.prov \in Prov
    BY Records DEF Inductive
<1>5. /\ rt' \in Runtime /\ rt'.pw = rt.pw /\ rt'.param = rt.param
      /\ rt'.wifi = rt.wifi /\ rt'.prov.attempted = rt.prov.attempted
      /\ rt'.prov.hash = image.profile.id
    BY <1>1, <1>3, <1>4 DEF Runtime, Prov
<1>6. /\ saveFailed' \in BOOLEAN /\ settled' \in Labels \cup {NoLabel}
      /\ settled' = IF ok THEN Settles ELSE settled
      /\ ok => stored' = [kind |-> "record", schema |-> image.schema, conf |-> rt']
      /\ ~ok => stored' = stored /\ saveFailed'
    BY <1>1, <1>5, Saving DEF Inductive
<1>7. Remembers(rt'.prov, Settles)
  <2>1. Settles = NoLabel \/ Settles = Label(image.profile)
      BY <1>1, <1>2 DEF Inductive, Stages, Settles
  <2>2. Remembers(rt.prov, Settles)
      BY <1>2 DEF Inductive, SettledIsInForce
  <2> QED BY <1>5, <2>1, <2>2 DEF Remembers, Label
<1>8. rt'.wifi \in Labels => rt'.wifi \in verified'
    BY <1>1, <1>5 DEF Inductive, RuntimeIsVerified
<1>9. candidate' \in {"none", "trying", "stored"} /\ pendingWiFi' \in BOOLEAN
      /\ HadTurn /\ rt'.param.repr = image.schema
      /\ verified \subseteq verified' /\ verified' \subseteq Labels
    BY <1>1, <1>5 DEF Inductive, TypeOK, ValuesMatchSchema, Stages
<1> QED BY <1>1, <1>2, <1>5, <1>6, <1>7, <1>8, <1>9, OwnerUntouched, Saved

\* The candidate does not connect: nothing is stored.
LEMMA CandidateFailsKeeps == ASSUME Inductive, CandidateFails PROVE Inductive'
<1>1. /\ candidate' = "none"
      /\ UNCHANGED <<image, stored, rt, at, status, requiresSave, pendingWiFi,
                     decoded, edited, rotated, forgotten, settled, verified,
                     saveFailed>>
    BY DEF CandidateFails, owner
<1>2. TypeOK'
    BY <1>1 DEF Inductive, TypeOK
<1>3. Stages' /\ ValuesMatchSchema' /\ WiFiIsVerified' /\ RuntimeIsVerified'
    BY <1>1 DEF Inductive, Stages, ValuesMatchSchema, WiFiIsVerified,
       RuntimeIsVerified, Recorded, Usable, HadTurn, Managed, InitialConfiguration
<1>4. Passwords' /\ StoredPasswordRules'
    BY <1>1 DEF Inductive, Passwords, StoredPasswordRules, PasswordAuthority,
       NotOpened, Usable, Recorded
<1>5. OwnerIsStored' /\ OwnerIsInForce' /\ SettledIsStored'
    BY <1>1 DEF Inductive, OwnerIsStored, OwnerIsInForce, SettledIsStored, Kept,
       Recorded, Unusable
<1>6. SettledIsInForce'
    BY <1>1 DEF Inductive, SettledIsInForce, Settles, HadTurn, Managed,
       InitialConfiguration, Usable
<1> QED BY <1>2, <1>3, <1>4, <1>5, <1>6 DEF Inductive

\* An edit is in the runtime, and in the record if the save succeeds.
LEMMA EditParameterKeeps ==
    ASSUME Inductive, NEW ok \in BOOLEAN, EditParameter(ok) PROVE Inductive'
<1>1. /\ at = "running" /\ rt' = [rt EXCEPT !.param.by = Owner] /\ Save(rt', ok)
      /\ edited' = IF ok THEN Owned ELSE edited
      /\ rotated' = (rotated /\ ~(ok /\ Unusable))
      /\ UNCHANGED <<forgotten, image, at, status, requiresSave, pendingWiFi,
                     candidate, decoded, verified>>
    BY DEF EditParameter, Calm
<1>2. rt \in Runtime /\ rt.param \in Param /\ Owner \in By
    BY Records DEF Inductive, By
<1>3. /\ rt' \in Runtime /\ rt'.pw = rt.pw /\ rt'.wifi = rt.wifi
      /\ rt'.prov = rt.prov /\ rt'.param.by = Owner
      /\ rt'.param.repr = rt.param.repr
    BY <1>1, <1>2 DEF Runtime, Param
<1>4. /\ saveFailed' \in BOOLEAN /\ settled' \in Labels \cup {NoLabel}
      /\ settled' = IF ok THEN Settles ELSE settled
      /\ ok => stored' = [kind |-> "record", schema |-> image.schema, conf |-> rt']
      /\ ~ok => stored' = stored /\ saveFailed'
    BY <1>1, <1>3, Saving DEF Inductive
<1>5. /\ edited' \in BOOLEAN /\ rotated' \in BOOLEAN
      /\ edited' => (edited /\ ~ok) \/ (ok /\ Owned)
      /\ rotated' => rotated /\ (~ok \/ ~Unusable)
    BY <1>1 DEF Inductive, TypeOK, Owned, Unusable
<1>6. Remembers(rt'.prov, Settles)
    BY <1>1, <1>3 DEF Inductive, SettledIsInForce
<1>7. rt'.wifi \in Labels => rt'.wifi \in verified'
    BY <1>1, <1>3 DEF Inductive, RuntimeIsVerified
<1>8. /\ candidate' \in {"none", "trying", "stored"} /\ pendingWiFi' \in BOOLEAN
      /\ candidate' # "none" \/ pendingWiFi' => HadTurn
      /\ rt'.param.repr = image.schema
      /\ verified \subseteq verified' /\ verified' \subseteq Labels
    BY <1>1, <1>3 DEF Inductive, TypeOK, ValuesMatchSchema, Stages
<1> QED BY <1>1, <1>3, <1>4, <1>5, <1>6, <1>7, <1>8, Saved

\* A network is in the runtime and in the record, or in neither.
LEMMA EnterWiFiKeeps ==
    ASSUME Inductive, NEW ok \in BOOLEAN, EnterWiFi(ok) PROVE Inductive'
<1> DEFINE conf == [rt EXCEPT !.wifi = Owner]
<1>1. /\ at = "running" /\ Save(conf, ok) /\ rt' = IF ok THEN conf ELSE rt
      /\ OwnerAfterSave(ok)
      /\ UNCHANGED <<image, at, status, requiresSave, pendingWiFi, candidate,
                     decoded, verified>>
    BY DEF EnterWiFi, Calm
<1>2. /\ conf \in Runtime /\ conf.pw = rt.pw /\ conf.param = rt.param
      /\ conf.prov = rt.prov /\ conf.wifi = Owner
    BY Records DEF Inductive, Runtime
<1> HIDE DEF conf
<1>3. /\ saveFailed' \in BOOLEAN /\ settled' \in Labels \cup {NoLabel}
      /\ settled' = IF ok THEN Settles ELSE settled
      /\ ok => stored' = [kind |-> "record", schema |-> image.schema, conf |-> rt']
      /\ ~ok => stored' = stored /\ saveFailed'
    BY <1>1, <1>2, Saving DEF Inductive
<1>4. /\ rt' \in Runtime /\ rt'.pw = rt.pw /\ rt'.param = rt.param
      /\ rt'.prov = rt.prov
      /\ rt'.wifi \in Labels => rt'.wifi \in verified'
    BY <1>1, <1>2, Records, Values DEF Inductive, RuntimeIsVerified
<1>5. Remembers(rt'.prov, Settles)
    BY <1>1, <1>4 DEF Inductive, SettledIsInForce
<1>6. /\ candidate' \in {"none", "trying", "stored"} /\ pendingWiFi' \in BOOLEAN
      /\ candidate' # "none" \/ pendingWiFi' => HadTurn
      /\ rt'.param.repr = image.schema
      /\ verified \subseteq verified' /\ verified' \subseteq Labels
    BY <1>1, <1>4 DEF Inductive, TypeOK, ValuesMatchSchema, Stages
<1> QED BY <1>1, <1>3, <1>4, <1>5, <1>6, OwnerUntouched, Saved

\* So is a password.
LEMMA SetDevicePasswordKeeps ==
    ASSUME Inductive, NEW ok \in BOOLEAN, SetDevicePassword(ok) PROVE Inductive'
<1> DEFINE conf == [rt EXCEPT !.pw = Owner]
<1>1. /\ at = "running" /\ Save(conf, ok) /\ rt' = IF ok THEN conf ELSE rt
      /\ rotated' = IF ok THEN Owned ELSE rotated
      /\ edited' = (edited /\ ~(ok /\ Unusable))
      /\ UNCHANGED <<forgotten, image, at, status, requiresSave, pendingWiFi,
                     candidate, decoded, verified>>
    BY DEF SetDevicePassword, Calm
<1>2. /\ conf \in Runtime /\ conf.pw = Owner /\ conf.param = rt.param
      /\ conf.prov = rt.prov /\ conf.wifi = rt.wifi
    BY Records DEF Inductive, Runtime, By
<1> HIDE DEF conf
<1>3. /\ saveFailed' \in BOOLEAN /\ settled' \in Labels \cup {NoLabel}
      /\ settled' = IF ok THEN Settles ELSE settled
      /\ ok => stored' = [kind |-> "record", schema |-> image.schema, conf |-> rt']
      /\ ~ok => stored' = stored /\ saveFailed'
    BY <1>1, <1>2, Saving DEF Inductive
<1>4. /\ rt' \in Runtime /\ (rt'.pw = rt.pw \/ rt'.pw = Owner)
      /\ ok => rt'.pw = Owner
      /\ rt'.param = rt.param /\ rt'.prov = rt.prov /\ rt'.wifi = rt.wifi
    BY <1>1, <1>2, Records DEF Inductive
<1>5. /\ edited' \in BOOLEAN /\ rotated' \in BOOLEAN
      /\ edited' => edited /\ (~ok \/ ~Unusable)
      /\ rotated' => (rotated /\ ~ok) \/ (ok /\ Owned)
    BY <1>1 DEF Inductive, TypeOK, Owned, Unusable
<1>6. Remembers(rt'.prov, Settles)
    BY <1>1, <1>4 DEF Inductive, SettledIsInForce
<1>7. rt'.wifi \in Labels => rt'.wifi \in verified'
    BY <1>1, <1>4 DEF Inductive, RuntimeIsVerified
<1>8. /\ candidate' \in {"none", "trying", "stored"} /\ pendingWiFi' \in BOOLEAN
      /\ candidate' # "none" \/ pendingWiFi' => HadTurn
      /\ rt'.param.repr = image.schema
      /\ verified \subseteq verified' /\ verified' \subseteq Labels
    BY <1>1, <1>4 DEF Inductive, TypeOK, ValuesMatchSchema, Stages
<1> QED BY <1>1, <1>3, <1>4, <1>5, <1>6, <1>7, <1>8, Saved

\* A parameter reset keeps the password and the Wi-Fi profiles, unless its save
\* fails after the store has been erased; the profile may be applied again.
LEMMA ParameterResetKeeps ==
    ASSUME Inductive, NEW ok \in BOOLEAN, ParameterReset(ok) PROVE Inductive'
<1>1. /\ at = "running"
      /\ rt' = [rt EXCEPT !.param = DefaultsOf(image).param, !.prov = NoProv]
      /\ stored' =
             IF ok THEN [kind |-> "record", schema |-> image.schema, conf |-> rt']
             ELSE Nothing("Empty")
      /\ saveFailed' = ~ok
      /\ edited' = FALSE /\ rotated' = (rotated /\ ok) /\ forgotten' = TRUE
      /\ settled' = NoLabel
      /\ UNCHANGED <<image, at, status, requiresSave, pendingWiFi, candidate,
                     decoded, verified>>
    BY DEF ParameterReset, Calm
<1>2. /\ rt' \in Runtime /\ rt'.pw = rt.pw /\ rt'.wifi = rt.wifi
      /\ rt'.param.repr = image.schema
  <2>1. /\ DefaultsOf(image).param \in Param /\ NoProv \in Prov
        /\ DefaultsOf(image).param.repr = image.schema
      BY Values DEF Inductive, TypeOK, DefaultsOf, Runtime
  <2> QED BY <1>1, <2>1, Records DEF Inductive, Runtime
<1>3. /\ stored' \in Stored
      /\ \/ /\ Recorded' /\ stored'.conf = rt' /\ stored'.schema = image.schema
            /\ stored'.kind = "record"
         \/ ~Recorded' /\ saveFailed' = TRUE
  <2>1. CASE ok
      BY <1>1, <1>2, <2>1, Values DEF Inductive, TypeOK, Stored, Record, Recorded
  <2>2. CASE ~ok
      BY <1>1, <2>2, Values DEF Recorded, Kinds
  <2> QED BY <2>1, <2>2
<1>4. TypeOK'
    BY <1>1, <1>2, <1>3 DEF Inductive, TypeOK
<1>5. Stages'
    BY <1>1 DEF Inductive, Stages, HadTurn, Managed, InitialConfiguration, Usable
<1>6. ValuesMatchSchema' /\ WiFiIsVerified' /\ RuntimeIsVerified'
  <2>1. image' = image /\ verified' = verified
      BY <1>1
  <2>2. rt'.wifi \in Labels => rt'.wifi \in verified'
      BY <1>2, <2>1 DEF Inductive, RuntimeIsVerified
  <2> QED BY <1>2, <1>3, <2>1, <2>2 DEF ValuesMatchSchema, WiFiIsVerified,
         RuntimeIsVerified
<1>7. Passwords' /\ StoredPasswordRules'
    BY <1>1, <1>3 DEF Passwords, StoredPasswordRules, PasswordAuthority, NotOpened
<1>8. SettledIsStored' /\ SettledIsInForce'
  <2>1. Settles' = NoLabel
      BY <1>1 DEF Settles
  <2> QED BY <1>1, <2>1 DEF SettledIsStored, SettledIsInForce, Remembers
<1>9. OwnerIsStored' /\ OwnerIsInForce'
    BY <1>1 DEF OwnerIsStored, OwnerIsInForce, Kept
<1> QED BY <1>4, <1>5, <1>6, <1>7, <1>8, <1>9 DEF Inductive

-----------------------------------------------------------------------------
(* The theorems.                                                           *)

\* Every step keeps the inductive invariant.
LEMMA StepKeeps == Inductive /\ [Next]_vars => Inductive'
<1> SUFFICES ASSUME Inductive, [Next]_vars PROVE Inductive'
    OBVIOUS
<1>1. CASE UNCHANGED vars
  <2>1. TypeOK' /\ Stages' /\ ValuesMatchSchema'
      BY <1>1 DEF Inductive, vars, TypeOK, Stages, ValuesMatchSchema, Recorded,
         Usable, HadTurn, Managed, InitialConfiguration
  <2>2. WiFiIsVerified' /\ RuntimeIsVerified' /\ Passwords' /\ StoredPasswordRules'
      BY <1>1 DEF Inductive, vars, WiFiIsVerified, RuntimeIsVerified, Passwords,
         StoredPasswordRules, PasswordAuthority, NotOpened, Recorded, Usable
  <2>3. OwnerIsStored' /\ OwnerIsInForce' /\ SettledIsStored'
      BY <1>1 DEF Inductive, vars, OwnerIsStored, OwnerIsInForce, SettledIsStored,
         Kept, Managed, Recorded, Unusable
  <2>4. SettledIsInForce'
      BY <1>1 DEF Inductive, vars, SettledIsInForce, Settles, HadTurn, Managed,
         InitialConfiguration, Usable
  <2> QED BY <2>1, <2>2, <2>3, <2>4 DEF Inductive
<1>2. CASE Reboot \/ FactoryReset \/ \E i \in Images : Upload(i)
    BY <1>2, RebootKeeps, FactoryResetKeeps, UploadKeeps
<1>3. CASE NoReset \/ LoadNothing \/ LoadUnusable \/ LoadUsable
    BY <1>3, NoResetKeeps, LoadNothingKeeps, LoadUnusableKeeps, LoadUsableKeeps
<1>4. CASE Apply
    BY <1>4, IgnoreProfileKeeps, ApplyProfileKeeps, PassProfileKeeps DEF Apply
<1>5. CASE CandidateFails
    BY <1>5, CandidateFailsKeeps
<1>6. ASSUME NEW ok \in BOOLEAN,
             \/ DoubleReset(ok) \/ BootSave(ok)
             \/ CandidateConnects(ok) \/ MarkConnectionSucceeded(ok)
             \/ EditParameter(ok) \/ EnterWiFi(ok) \/ SetDevicePassword(ok)
             \/ ParameterReset(ok) \/ WiFiReset(ok)
      PROVE  Inductive'
    BY <1>6, DoubleResetKeeps, BootSaveKeeps, CandidateConnectsKeeps, MarkKeeps,
       EditParameterKeeps, EnterWiFiKeeps, SetDevicePasswordKeeps,
       ParameterResetKeeps, WiFiResetKeeps
<1> QED BY <1>1, <1>2, <1>3, <1>4, <1>5, <1>6 DEF Next

\* The invariant the theorems follow from.
LEMMA InductiveHolds == Spec => []Inductive
    BY InitInductive, StepKeeps, PTL DEF Spec

\* LocalChangesSurvive: "a later portal edit remains intact on a normal reboot
\* or another upload": for any set of images, what the owner has stored over a
\* usable record stays stored, and in force with every image that can use the
\* record, whatever reboots, failed saves and uploads come between, until
\* managed firmware of a revision that the device has not settled with.
THEOREM ChangesSurvive == Spec => []LocalChangesSurvive
<1>1. Inductive => LocalChangesSurvive
    BY DEF Inductive, LocalChangesSurvive, EditSurvives, RotationSurvives,
       OwnerIsStored, OwnerIsInForce, Kept
<1> QED BY <1>1, InductiveHolds, PTL

\* WiFiIsVerified: the Wi-Fi settings of a profile are stored only after they
\* have connected once, and no failed save, reset or reboot stores them sooner.
THEOREM CandidatesAreVerified == Spec => []WiFiIsVerified
<1>1. Inductive => WiFiIsVerified
    BY DEF Inductive
<1> QED BY <1>1, InductiveHolds, PTL

\* ValuesMatchSchema: a stored value is in the representation of the schema of
\* its record, and the runtime in that of the image: no value is migrated
\* twice, or saved before it has been migrated.
THEOREM MigratedOnce == Spec => []ValuesMatchSchema
<1>1. Inductive => ValuesMatchSchema
    BY DEF Inductive
<1> QED BY <1>1, InductiveHolds, PTL

\* StoredPasswordRules: the password in force over a usable record is the stored
\* one, and no downgrade and no migration that fails opens the device.
THEOREM StoredPasswordDecides == Spec => []StoredPasswordRules
<1>1. Inductive => StoredPasswordRules
    BY DEF Inductive
<1> QED BY <1>1, InductiveHolds, PTL

\* BootKeepsRecord: from the load on a boot never replaces a record that it
\* could not use, and never its Wi-Fi profiles.
THEOREM BootsKeepRecords == Spec => BootKeepsRecord
<1> DEFINE Keeps ==
        (at \in {"load", "apply", "save"} /\ Recorded) =>
          /\ status \in {"Corrupt", "Incompatible"} => stored' = stored
          /\ Recorded' /\ UNCHANGED stored.conf.wifi
<1>1. Inductive /\ [Next]_vars => [Keeps]_vars
  <2> SUFFICES ASSUME Inductive, Next, Recorded, at \in {"load", "apply", "save"}
               PROVE  /\ status \in {"Corrupt", "Incompatible"} => stored' = stored
                      /\ Recorded' /\ UNCHANGED stored.conf.wifi
      OBVIOUS
  <2>1. candidate = "none" /\ at # "running" /\ at # "rtc"
      BY DEF Inductive, Stages
  <2>2. \/ Reboot \/ LoadNothing \/ LoadUnusable \/ LoadUsable \/ Apply
        \/ \E ok \in BOOLEAN : BootSave(ok)
      BY <2>1 DEF Next, FactoryReset, Upload, NoReset, CandidateFails, DoubleReset,
         CandidateConnects, MarkConnectionSucceeded, EditParameter, EnterWiFi,
         SetDevicePassword, ParameterReset, WiFiReset, Calm
  <2>3. CASE Reboot \/ LoadNothing \/ LoadUnusable \/ LoadUsable \/ Apply
    <3>1. stored' = stored
        BY <2>3 DEF Reboot, LoadNothing, LoadUnusable, LoadUsable, Loading, Apply,
           IgnoreProfile, ApplyProfile, PassProfile
    <3> QED BY <3>1 DEF Recorded
  <2>4. ASSUME NEW ok \in BOOLEAN, BootSave(ok)
        PROVE  /\ status \in {"Corrupt", "Incompatible"} => stored' = stored
               /\ Recorded' /\ UNCHANGED stored.conf.wifi
    <3>1. CASE stored' = stored
        BY <3>1 DEF Recorded
    <3>2. CASE stored' # stored
      <4>1. requiresSave /\ at = "save"
          BY <2>4, <3>2 DEF BootSave
      <4>2. status \notin {"Corrupt", "Incompatible"} /\ rt.wifi = stored.conf.wifi
          BY <4>1 DEF Inductive, Stages
      <4>3. stored'.kind = "record" /\ stored'.conf = rt
          BY <2>4, <3>2, <4>1 DEF BootSave, Save
      <4> QED BY <4>2, <4>3 DEF Recorded
    <3> QED BY <3>1, <3>2
  <2> QED BY <2>2, <2>3, <2>4
<1> QED BY <1>1, InductiveHolds, PTL DEF Spec, BootKeepsRecord
=============================================================================
