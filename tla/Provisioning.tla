---------------------------- MODULE Provisioning ----------------------------
(***************************************************************************)
(* The life of a configuration across boots, firmware uploads and resets:  *)
(* DeviceFrameworkStorage::load decides whether the stored record is usable*)
(* for this firmware and migrates it, DeviceFrameworkProvisioning::apply   *)
(* lays the profile compiled into the firmware over it, setup() saves the  *)
(* result, and a Wi-Fi candidate of the profile is stored once it has      *)
(* connected.  A save is one step here (Storage shows that it is all or    *)
(* nothing) that succeeds or fails; power may be cut between any two steps.*)
(*                                                                         *)
(* Values are abstracted to their provenance: Default, Owner (entered      *)
(* through the portal or the API) or the <<id, revision>> of the profile   *)
(* that supplied them.  A profile ID stands for its hash, "none" for 0.    *)
(***************************************************************************)
EXTENDS Naturals

CONSTANTS
    Images,      \* firmware images; see ImageOK
    NoProfile,   \* the profile of an image without one
    NoConf       \* the configuration of what is not a record

Policies == {"bootstrap", "reconcile"}

ImageOK(i) ==
    /\ i.schema \in Nat \ {0}      \* CONFIGURATION_SCHEMA
    /\ i.migrates \in BOOLEAN      \* has a migration callback
    /\ <<"default", 0>> \in i.accepts  \* whose values its validators accept
    /\ i.profile # NoProfile =>
          /\ i.profile.id \notin {"none", "default", "owner"}
          /\ i.profile.rev \in Nat \ {0}
          /\ i.profile.policy \in Policies
          /\ i.profile.ours \in BOOLEAN   \* names this application
          /\ {i.profile.pw, i.profile.param, i.profile.wifi} \subseteq BOOLEAN

Label(p) == <<p.id, p.rev>>

Profiles == {i.profile : i \in Images} \ {NoProfile}

Labels == {Label(p) : p \in Profiles}

Schemas == {i.schema : i \in Images}

Ids == {p.id : p \in Profiles} \cup {"none"}

Revisions == {p.rev : p \in Profiles} \cup {0}

Default == <<"default", 0>>

Owner == <<"owner", 0>>

NoWiFi == <<"none", 0>>

NoLabel == <<"none", 0>>

By == {Default, Owner} \cup Labels

Param == [by: By, repr: Schemas]   \* repr: the schema it is represented in

Prov == [hash: Ids, attempted: Revisions, applied: Revisions]

NoProv == [hash |-> "none", attempted |-> 0, applied |-> 0]

Runtime == [pw: By, wifi: {Owner, NoWiFi} \cup Labels, param: Param, prov: Prov]

\* What a load finds that is not a record of this application.
Kinds == {"Empty", "ForeignApplication", "UnsupportedLegacyFormat", "Corrupt"}

Nothing(kind) == [kind |-> kind, schema |-> 0, conf |-> NoConf]

Record == [kind: {"record"}, schema: Schemas, conf: Runtime]

Stored == Record \cup {Nothing(kind) : kind \in Kinds}

ASSUME ProvisioningAssumption == \A i \in Images : ImageOK(i)

VARIABLES
    image,        \* the firmware
    stored,       \* the record in flash, or what else is found there
    rt,           \* the runtime configuration
    at,           \* where setup() is
    status,       \* lastLoadResult.status
    requiresSave, \* storageResult.requiresSave || profileApplied
    pendingWiFi,
    candidate,    \* what the connection controller does with the candidate
    decoded,      \* the load has not met a record that it could not decode
    edited,       \* an edit the owner stored is still to be in force ...
    rotated,      \* ... and so is a password
    forgotten,    \* a parameter reset has erased the provisioning state
    settled,      \* the last profile that had its turn and was saved with it
    verified,     \* the profiles whose Wi-Fi has connected
    saveFailed    \* a save has failed since the last load

vars == <<image, stored, rt, at, status, requiresSave, pendingWiFi, candidate,
          decoded, edited, rotated, forgotten, settled, verified, saveFailed>>

owner == <<edited, rotated, forgotten, settled>>

Recorded == stored.kind = "record"

Statuses == Kinds \cup {"Loaded", "Migrated", "Incompatible"}

TypeOK ==
    /\ image \in Images
    /\ stored \in Stored
    /\ rt \in Runtime
    /\ at \in {"rtc", "load", "apply", "save", "running"}
    /\ status \in Statuses
    /\ requiresSave \in BOOLEAN /\ pendingWiFi \in BOOLEAN
    /\ candidate \in {"none", "trying", "stored"}
    /\ edited \in BOOLEAN /\ rotated \in BOOLEAN /\ forgotten \in BOOLEAN
    /\ settled \in Labels \cup {NoLabel}
    /\ decoded \in BOOLEAN /\ saveFailed \in BOOLEAN
    /\ verified \subseteq Labels

-----------------------------------------------------------------------------
(* Booting.  RAM starts over with the defaults of the image. *)

DefaultsOf(i) ==
    [pw |-> Default, wifi |-> NoWiFi, prov |-> NoProv,
     param |-> [by |-> Default, repr |-> i.schema]]

BootInto(i) ==
    /\ image' = i
    /\ rt' = DefaultsOf(i)
    /\ at' = "rtc"
    /\ status' = "Empty"
    /\ requiresSave' = FALSE /\ pendingWiFi' = FALSE
    /\ candidate' = "none"
    /\ decoded' = TRUE /\ saveFailed' = FALSE

Init ==
    /\ image \in Images
    /\ \E kind \in Kinds : stored = Nothing(kind)
    /\ rt = DefaultsOf(image)
    /\ at = "rtc"
    /\ status = "Empty"
    /\ requiresSave = FALSE /\ pendingWiFi = FALSE
    /\ candidate = "none"
    /\ edited = FALSE /\ rotated = FALSE /\ forgotten = FALSE
    /\ settled = NoLabel /\ decoded = TRUE
    /\ verified = {} /\ saveFailed = FALSE

\* What the owner stored stays to be in force, or need not any more.
OwnerKeeps(all) ==
    /\ edited' = (edited /\ all)
    /\ rotated' = (rotated /\ all)
    /\ forgotten' = (forgotten /\ all)

Managed(i) ==
    i.profile # NoProfile /\ i.profile.ours /\ i.profile.policy = "reconcile"

\* A power cut or a restart, anywhere.
Reboot == BootInto(image) /\ UNCHANGED <<stored, owner, verified>>

\* What the owner stored outlives an upload, unless it brings another managed
\* revision than the device has last been run and saved with, whatever other
\* images have been on the device since.
Upload(i) ==
    /\ at = "running"
    /\ BootInto(i)
    /\ OwnerKeeps(Managed(i) => Label(i.profile) = settled)
    /\ UNCHANGED <<stored, settled, verified>>

Usable == status \in {"Loaded", "Migrated"}

InitialConfiguration ==
    status \in {"Empty", "ForeignApplication", "UnsupportedLegacyFormat"}

Unusable == status \in {"Corrupt", "Incompatible"}

\* The profile of the image was to be considered in this boot: a managed one
\* with every configuration it could use, a bootstrap one with none.
HadTurn ==
    /\ image.profile # NoProfile
    /\ image.profile.ours
    /\ InitialConfiguration \/ (Usable /\ Managed(image))

\* The profile whose values must not be applied again to what a save stores.
Settles ==
    IF at = "rtc" \/ forgotten \/ status = "Corrupt" THEN NoLabel
    ELSE IF HadTurn THEN Label(image.profile) ELSE settled

\* Save conf under the schema of the image; the previous record stays whole if
\* the save fails.
Save(conf, ok) ==
    /\ stored' =
           IF ok THEN [kind |-> "record", schema |-> image.schema, conf |-> conf]
           ELSE stored
    /\ settled' = IF ok THEN Settles ELSE settled
    /\ saveFailed' = (saveFailed \/ ~ok)

\* A save in place of a record that could not be used takes with it what the
\* owner had stored there.
OwnerAfterSave(ok) ==
    /\ edited' = (edited /\ ~(ok /\ Unusable))
    /\ rotated' = (rotated /\ ~(ok /\ Unusable))
    /\ UNCHANGED forgotten

-----------------------------------------------------------------------------
(* setupRTCMemory. *)

NoReset ==
    /\ at = "rtc"
    /\ at' = "load"
    /\ UNCHANGED <<image, stored, rt, status, requiresSave, pendingWiFi,
                   candidate, decoded, owner, verified, saveFailed>>

\* A double reset saves the runtime of this moment, which is all defaults.
DoubleReset(ok) ==
    /\ at = "rtc"
    /\ Save(rt, ok)
    /\ at' = "load"
    /\ OwnerKeeps(~ok)
    /\ UNCHANGED <<image, rt, status, requiresSave, pendingWiFi, candidate,
                   decoded, verified>>

-----------------------------------------------------------------------------
(* DeviceFrameworkStorage::load. *)

Loading(outcome, conf, save) ==
    /\ at = "load"
    /\ status' = outcome
    /\ rt' = conf
    /\ requiresSave' = save
    /\ at' = "apply"
    /\ saveFailed' = FALSE
    /\ UNCHANGED <<image, stored, pendingWiFi, candidate, rotated, forgotten,
                   settled, verified>>

\* No record of this application, or one that cannot be decoded.
LoadNothing ==
    /\ \/ ~Recorded /\ Loading(stored.kind, rt, FALSE)
       \/ Recorded /\ Loading("Corrupt", rt, FALSE)
    /\ decoded' = ~Recorded
    /\ UNCHANGED edited

\* Before the schema is looked at the password, the profiles and the
\* provisioning state are in place; the parameters stay defaults.
Restored == [stored.conf EXCEPT !.param = rt.param]

\* A variation of LoadUnusable that restores the password after the migration.
LoadUnusableOpen ==
    /\ Recorded
    /\ stored.schema # image.schema
    /\ IF stored.schema < image.schema /\ image.migrates
       THEN Loading("Corrupt", [Restored EXCEPT !.pw = rt.pw], FALSE)
       ELSE Loading("Incompatible", Restored, FALSE)
    /\ UNCHANGED <<decoded, edited>>

\* A newer schema, an older one without a migration, or a migration that fails.
LoadUnusable ==
    /\ Recorded
    /\ stored.schema # image.schema
    /\ Loading(IF stored.schema < image.schema /\ image.migrates
               THEN "Corrupt" ELSE "Incompatible", Restored, FALSE)
    /\ UNCHANGED <<decoded, edited>>

\* A variation of Migrated that copies the values of the old schema.
MigratedUnchanged == stored.conf.param

\* The application's migration converts the values (external).
Migrated == [stored.conf.param EXCEPT !.repr = image.schema]

\* A value the validators reject is discarded, and the record saved without it.
LoadUsable ==
    /\ Recorded
    /\ stored.schema <= image.schema
    /\ stored.schema < image.schema => image.migrates
    /\ LET valid == stored.conf.param.by \in image.accepts
           older == stored.schema < image.schema
       IN  /\ Loading(IF older THEN "Migrated" ELSE "Loaded",
                      IF valid THEN [stored.conf EXCEPT !.param = Migrated]
                      ELSE Restored,
                      older \/ ~valid)
           /\ edited' = (edited /\ valid)
           /\ UNCHANGED decoded

-----------------------------------------------------------------------------
(* DeviceFrameworkProvisioning::apply. *)

\* A variation of Differs that waits for the Wi-Fi candidate to connect.
DiffersFromApplied(p) == rt.prov.hash # p.id \/ rt.prov.applied # p.rev

Differs(p) == rt.prov.hash # p.id \/ rt.prov.attempted # p.rev

ApplyNow(p) ==
    InitialConfiguration \/ (p.policy = "reconcile" /\ Differs(p))

\* A variation of TakesPassword in which the profile is always the authority.
TakesAnyPassword(p) == p.pw

TakesPassword(p) ==
    /\ p.pw
    /\ \/ InitialConfiguration
       \/ status = "Corrupt"
       \/ p.policy = "reconcile" /\ ApplyNow(p)

Password(p) == IF TakesPassword(p) THEN Label(p) ELSE rt.pw

\* A variation of MayApply that does not look at what was loaded.
AlwaysMayApply(p) == ApplyNow(p)

\* Corrupt or schema-incompatible data is not overwritten by a reconcile.
MayApply(p) == (InitialConfiguration \/ Usable) /\ ApplyNow(p)

AppliedRuntime(p) ==
    [rt EXCEPT !.pw = Password(p),
               !.prov.hash = p.id, !.prov.attempted = p.rev,
               !.param.by = IF p.param /\ Label(p) \in image.accepts
                            THEN Label(p) ELSE @]

\* A variation of ApplyProfile that does not wait for a connection.
ApplyUnverified(p) ==
    /\ at = "apply"
    /\ p.ours
    /\ MayApply(p)
    /\ rt' = [AppliedRuntime(p) EXCEPT !.wifi = IF p.wifi THEN Label(p) ELSE NoWiFi]
    /\ requiresSave' = TRUE
    /\ pendingWiFi' = p.wifi
    /\ at' = "save"
    /\ UNCHANGED <<image, stored, status, candidate, decoded, owner, verified,
                   saveFailed>>

\* A variation of ApplyProfile that reports nothing to save.
ApplyUnsaved(p) ==
    /\ at = "apply"
    /\ p.ours
    /\ MayApply(p)
    /\ rt' = AppliedRuntime(p)
    /\ pendingWiFi' = p.wifi
    /\ at' = "save"
    /\ UNCHANGED <<image, stored, status, requiresSave, candidate, decoded, owner,
                   verified, saveFailed>>

ApplyProfile(p) ==
    /\ at = "apply"
    /\ p.ours
    /\ MayApply(p)
    /\ rt' = AppliedRuntime(p)
    /\ requiresSave' = TRUE
    /\ pendingWiFi' = p.wifi
    /\ at' = "save"
    /\ UNCHANGED <<image, stored, status, candidate, decoded, owner, verified,
                   saveFailed>>

\* Nothing is applied; a password may still be taken over in RAM.
PassProfile(p) ==
    /\ at = "apply"
    /\ p.ours
    /\ ~MayApply(p)
    /\ rt' = [rt EXCEPT !.pw = Password(p)]
    /\ at' = "save"
    /\ UNCHANGED <<image, stored, status, requiresSave, pendingWiFi, candidate,
                   decoded, owner, verified, saveFailed>>

\* A variation of IgnoreProfile that clears the state of a profile that is gone.
IgnoreAndForget ==
    /\ at = "apply"
    /\ image.profile # NoProfile => ~image.profile.ours
    /\ rt' = [rt EXCEPT !.prov = NoProv]
    /\ at' = "save"
    /\ UNCHANGED <<image, stored, status, requiresSave, pendingWiFi, candidate,
                   decoded, owner, verified, saveFailed>>

IgnoreProfile ==
    /\ at = "apply"
    /\ image.profile # NoProfile => ~image.profile.ours
    /\ at' = "save"
    /\ UNCHANGED <<image, stored, rt, status, requiresSave, pendingWiFi,
                   candidate, decoded, owner, verified, saveFailed>>

Apply ==
    \/ IgnoreProfile
    \/ \E p \in {image.profile} \ {NoProfile} : ApplyProfile(p) \/ PassProfile(p)

\* The connection controller starts with a pending candidate, which is not
\* stored yet, or else with the stored profiles.
Started == IF pendingWiFi THEN "trying" ELSE "none"

\* setup() saves if it has to, not looking at the result, and then sets the
\* Wi-Fi up.
BootSave(ok) ==
    /\ at = "save"
    /\ IF requiresSave THEN Save(rt, ok) /\ OwnerAfterSave(ok)
       ELSE UNCHANGED <<stored, owner, saveFailed>>
    /\ candidate' = Started
    /\ at' = "running"
    /\ UNCHANGED <<image, rt, status, requiresSave, pendingWiFi, decoded, verified>>

-----------------------------------------------------------------------------
(* Running. *)

\* The controller (external) gets the candidate an address, saves it through
\* the profile store, which rolls back if the save fails ...
CandidateConnects(ok) ==
    /\ at = "running"
    /\ candidate = "trying"
    /\ verified' = verified \cup {Label(image.profile)}
    /\ LET conf == [rt EXCEPT !.wifi = Label(image.profile)]
       IN  Save(conf, ok) /\ rt' = IF ok THEN conf ELSE rt
    /\ candidate' = IF ok THEN "stored" ELSE "none"
    /\ OwnerAfterSave(ok)
    /\ UNCHANGED <<image, at, status, requiresSave, pendingWiFi, decoded>>

\* ... and then reports it: markConnectionSucceeded.
MarkConnectionSucceeded(ok) ==
    /\ candidate = "stored"
    /\ rt' = [rt EXCEPT !.prov.hash = image.profile.id,
                        !.prov.applied = image.profile.rev]
    /\ Save(rt', ok)
    /\ pendingWiFi' = ~ok
    /\ candidate' = "none"
    /\ OwnerAfterSave(ok)
    /\ UNCHANGED <<image, at, status, requiresSave, decoded, verified>>

CandidateFails ==
    /\ candidate = "trying"
    /\ candidate' = "none"
    /\ UNCHANGED <<image, stored, rt, at, status, requiresSave, pendingWiFi,
                   decoded, owner, verified, saveFailed>>

Calm == at = "running" /\ candidate # "stored"

\* A change belongs to the owner from now on if the record was usable and the
\* device remembers which revision it has applied.
Owned == ~Unusable /\ ~forgotten

\* The owner edits a parameter in the portal.
EditParameter(ok) ==
    /\ Calm
    /\ Owner \in image.accepts
    /\ rt' = [rt EXCEPT !.param.by = Owner]
    /\ Save(rt', ok)
    /\ edited' = IF ok THEN Owned ELSE edited
    /\ rotated' = (rotated /\ ~(ok /\ Unusable))
    /\ UNCHANGED <<forgotten, image, at, status, requiresSave, pendingWiFi,
                   candidate, decoded, verified>>

\* The owner enters a network in the portal; it is stored once connected.
EnterWiFi(ok) ==
    /\ Calm
    /\ LET conf == [rt EXCEPT !.wifi = Owner]
       IN  Save(conf, ok) /\ rt' = IF ok THEN conf ELSE rt
    /\ OwnerAfterSave(ok)
    /\ UNCHANGED <<image, at, status, requiresSave, pendingWiFi, candidate,
                   decoded, verified>>

SetDevicePassword(ok) ==
    /\ Calm
    /\ LET conf == [rt EXCEPT !.pw = Owner]
       IN  Save(conf, ok) /\ rt' = IF ok THEN conf ELSE rt
    /\ rotated' = IF ok THEN Owned ELSE rotated
    /\ edited' = (edited /\ ~(ok /\ Unusable))
    /\ UNCHANGED <<forgotten, image, at, status, requiresSave, pendingWiFi,
                   candidate, decoded, verified>>

\* reset(ParametersOnly): Storage::reset also forgets the provisioning state.
ParameterReset(ok) ==
    /\ Calm
    /\ rt' = [rt EXCEPT !.param = DefaultsOf(image).param, !.prov = NoProv]
    /\ stored' =
           IF ok THEN [kind |-> "record", schema |-> image.schema, conf |-> rt']
           ELSE Nothing("Empty")
    /\ saveFailed' = ~ok
    /\ edited' = FALSE /\ rotated' = (rotated /\ ok) /\ forgotten' = TRUE
    /\ settled' = NoLabel
    /\ UNCHANGED <<image, at, status, requiresSave, pendingWiFi, candidate,
                   decoded, verified>>

\* reset(WiFiOnly) and the restart that follows it, or the reset command of
\* the broker: clearProfiles saves the record without its profiles, and
\* whether that succeeds or not the device restarts.
WiFiReset(ok) ==
    /\ Calm
    /\ stored' =
           IF ok THEN [kind |-> "record", schema |-> image.schema,
                       conf |-> [rt EXCEPT !.wifi = NoWiFi]]
           ELSE stored
    /\ settled' = IF ok THEN Settles ELSE settled
    /\ OwnerAfterSave(ok)
    /\ BootInto(image)
    /\ UNCHANGED verified

\* reset(Factory), and the restart that follows it.
FactoryReset ==
    /\ Calm
    /\ stored' = Nothing("Empty")
    /\ OwnerKeeps(FALSE)
    /\ settled' = NoLabel
    /\ BootInto(image)
    /\ UNCHANGED verified

Next ==
    \/ Reboot \/ FactoryReset \/ \E i \in Images : Upload(i)
    \/ NoReset \/ LoadNothing \/ LoadUnusable \/ LoadUsable \/ Apply
    \/ CandidateFails
    \/ \E ok \in BOOLEAN :
          \/ DoubleReset(ok) \/ BootSave(ok)
          \/ CandidateConnects(ok) \/ MarkConnectionSucceeded(ok)
          \/ EditParameter(ok) \/ EnterWiFi(ok) \/ SetDevicePassword(ok)
          \/ ParameterReset(ok) \/ WiFiReset(ok)

Spec == Init /\ [][Next]_vars

-----------------------------------------------------------------------------
(* Properties. *)

\* LocalChangesSurvive: what the owner changes on the device stays changed.
\* "A later portal edit remains intact on a normal reboot or another upload of
\* revision 6": a profile revision writes its values once, whatever reboots,
\* failed saves and images (of other profiles, of none, or that cannot use the
\* record) come between.
EditSurvives ==
    at = "running" /\ edited =>
        /\ stored.conf.param.by = Owner
        /\ ~Unusable => rt.param.by = Owner

\* So does a password, if no parameter reset has come in between; it is in force
\* with a newer or older schema too.
RotationSurvives ==
    at = "running" /\ rotated /\ ~forgotten =>
        /\ stored.conf.pw = Owner
        /\ status # "Corrupt" => rt.pw = Owner

LocalChangesSurvive == EditSurvives /\ RotationSurvives

\* "Verifies a new candidate before it persists the profile set".
WiFiIsVerified ==
    Recorded /\ stored.conf.wifi \in Labels => stored.conf.wifi \in verified

\* A migration converts each stored value once, wherever the power is cut: a
\* value and the schema of its record agree.
ValuesMatchSchema ==
    /\ Recorded => stored.conf.param.repr = stored.schema
    /\ rt.param.repr = image.schema

\* StoredPasswordRules: the record decides about the password.
\* "The saved value restores ... without the profile becoming a second runtime
\* authority": the password in force is the stored one.
PasswordAuthority ==
    at = "running" /\ Usable /\ ~saveFailed =>
        Recorded /\ rt.pw = stored.conf.pw

\* "A downgrade or migration failure does not silently open the device": the
\* default password is never in force over a record that has another one,
\* unless that record could not be decoded.
NotOpened ==
    at \in {"save", "running"} /\ Recorded /\ decoded
        => (rt.pw = Default => stored.conf.pw = Default)

StoredPasswordRules == PasswordAuthority /\ NotOpened

\* A boot never replaces data it could not use, and never the Wi-Fi profiles.
BootKeepsRecord ==
    [][(at \in {"load", "apply", "save"} /\ Recorded) =>
          /\ status \in {"Corrupt", "Incompatible"} => stored' = stored
          /\ Recorded' /\ UNCHANGED stored.conf.wifi]_vars

\* A parameter reset retains the shared password, and a reconcile profile owns
\* it "exactly once per profile ID/revision".
PasswordOutlivesReset == at = "running" /\ rotated => rt.pw = Owner
=============================================================================
