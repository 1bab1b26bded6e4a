---------------------------- MODULE ResetGesture ----------------------------
(***************************************************************************)
(* The reset tracker of DeviceFramework: setupRTCMemory counts boots that  *)
(* follow each other rapidly in a record that outlives a reset, loop()     *)
(* clears the record once a boot has lasted CONFIG_resetTimeout, restart() *)
(* marks a boot the framework asked for.  The second rapid boot is to      *)
(* clear Wi-Fi, the third to restore the factory state and boot again.     *)
(*                                                                         *)
(* The store has two slots.  A save fills the one that is not read, so a   *)
(* reset during its commit costs at most the configuration in that slot;   *)
(* the erase rewrites both, and a reset during its commit may leave either *)
(* unreadable (Storage has the commits step by step).  Inside              *)
(* setupRTCMemory the registry holds the defaults, load() comes later.     *)
(***************************************************************************)
EXTENDS Naturals

CONSTANTS
    MaxExternal,         \* bound on external resets: buttons, power, watchdog
    MaxFailures          \* bound on failed accesses to the record

ASSUME GestureAssumption ==
    /\ MaxExternal \in Nat
    /\ MaxFailures \in Nat

Config == [wifi: {"none", "lan"}, params: {"default", "edited"},
           pw: {"default1", "own"}]

Defaults == [wifi |-> "none", params |-> "default", pw |-> "default1"]

Erased == [wifi |-> "erased", params |-> "erased", pw |-> "erased"]

Reasons == {"none", "application", "factoryRecovery"}

RtcData == [ok: BOOLEAN, count: 0..255, reason: Reasons]

NoData == [ok |-> FALSE, count |-> 0, reason |-> "none"]

Places == {"callback", "read", "write", "double", "triple", "erase", "recount",
           "mark", "reboot", "load", "running"}

VARIABLES
    platform,    \* the ESP32 keeps the record in NVS, the ESP8266 in RTC RAM
    rtc,         \* the record that outlives a reset; ok: magic and CRC match
    rtcData,     \* its copy in RAM
    flash,       \* the stored configuration a boot loads, or Erased
    older,       \* the configuration in the other slot, or Erased
    rt,          \* the runtime configuration
    at,          \* where the boot or the loop is
    rtcCleared,
    lastReason,  \* lastRestartReason
    rapid,       \* external resets since a boot that outlasted the window or
                 \* that restart() asked for
    external,    \* external resets so far
    failures     \* failed accesses to the record so far

vars == <<platform, rtc, rtcData, flash, older, rt, at, rtcCleared, lastReason,
          rapid, external, failures>>

TypeOK ==
    /\ platform \in {"ESP32", "ESP8266"}
    /\ rtc \in RtcData
    /\ rtcData \in RtcData
    /\ flash \in Config \cup {Erased}
    /\ older \in Config \cup {Erased}
    /\ rt \in Config
    /\ at \in Places
    /\ rtcCleared \in BOOLEAN
    /\ lastReason \in Reasons
    /\ rapid \in Nat
    /\ external \in Nat
    /\ failures \in Nat

-----------------------------------------------------------------------------
(* The store, then resets: static variables start over. *)

\* A save takes the slot that is not read: the configuration read so far is the
\* older one from now on.
Save(config) ==
    /\ flash' = config
    /\ older' = flash

\* What a reset leaves of the slots: while a save may commit, the older one may
\* have become unreadable; while the erase commits, both.
LeaveSlots ==
    \/ UNCHANGED <<flash, older>>
    \/ /\ at \in {"double", "triple", "erase", "running"}
       /\ older' = Erased
       /\ UNCHANGED flash
    \/ /\ at = "erase"
       /\ flash' \in {older, Erased}
       /\ older' = Erased

StartOver ==
    /\ at' = "callback"
    /\ rtcData' = NoData
    /\ rt' = Defaults
    /\ rtcCleared' = FALSE
    /\ lastReason' = "none"
    /\ UNCHANGED failures

Init ==
    /\ platform \in {"ESP32", "ESP8266"}
    /\ rtc = NoData
    /\ rtcData = NoData
    /\ flash \in Config \cup {Erased}
    /\ older \in Config \cup {Erased}
    /\ flash = Erased => older = Erased
    /\ rt = Defaults
    /\ at = "callback"
    /\ rtcCleared = FALSE
    /\ lastReason = "none"
    /\ rapid = 1
    /\ external = 1
    /\ failures = 0

Counted ==
    /\ external < MaxExternal
    /\ external' = external + 1
    /\ rapid' = IF rtcCleared THEN 1 ELSE rapid + 1
    /\ LeaveSlots

\* The reset button or a watchdog, wherever the program is.
PressReset ==
    /\ Counted
    /\ StartOver
    /\ UNCHANGED rtc

PowerCut ==
    /\ Counted
    /\ StartOver
    /\ rtc' = IF platform = "ESP32" THEN rtc ELSE NoData

-----------------------------------------------------------------------------
(* beforeSetup and setupRTCMemory. *)

\* The application's registration callback returns.
Register ==
    /\ at = "callback"
    /\ at' = "read"
    /\ UNCHANGED <<rtc, rtcData, flash, older, rt, rtcCleared, lastReason, rapid,
                   external, failures>>

\* restart() in the callback: the record is not read yet, so ESP.restart()
\* without a marker.
RestartInCallback ==
    /\ at = "callback"
    /\ StartOver
    /\ UNCHANGED <<rtc, flash, older, rapid, external>>

\* An NVS access fails: a read finds nothing, a write leaves the record.
Fail ==
    /\ platform = "ESP32"
    /\ failures < MaxFailures
    /\ failures' = failures + 1

\* A variation of Counting that counts a marked boot as a physical one.
CountingEveryBoot(r) == (r.count + 1) % 256

\* A boot the framework asked for starts a fresh physical-reset sequence.
Counting(r) == IF r.reason # "none" THEN 0 ELSE (r.count + 1) % 256

ReadRecord ==
    /\ at = "read"
    /\ \E r \in {rtc, NoData} :
          /\ \/ r = rtc /\ UNCHANGED failures
             \/ r = NoData /\ Fail
          /\ rtcData' = [ok |-> TRUE, reason |-> "none",
                         count |-> IF r.ok THEN Counting(r) ELSE 1]
          /\ lastReason' = IF r.ok THEN r.reason ELSE "none"
    /\ at' = "write"
    /\ UNCHANGED <<rtc, flash, older, rt, rtcCleared, rapid, external>>

\* DeviceFrameworkRTC::write; its result is not looked at.
WriteRecord(data) ==
    \/ rtc' = data /\ UNCHANGED failures
    \/ Fail /\ UNCHANGED rtc

\* A variation of UpdateRecord that takes the count back before the recovery
\* instead of after it.
UpdateRecordEarly ==
    /\ at = "write"
    /\ WriteRecord(IF rtcData.count >= 3 THEN [rtcData EXCEPT !.count = 0]
                   ELSE rtcData)
    /\ at' = IF rtcData.count = 2 THEN "double"
             ELSE IF rtcData.count >= 3 THEN "triple" ELSE "load"
    /\ UNCHANGED <<rtcData, flash, older, rt, rtcCleared, lastReason, rapid,
                   external>>

\* The written count decides what this boot is.
UpdateRecord ==
    /\ at = "write"
    /\ WriteRecord(rtcData)
    /\ at' = IF rtcData.count = 2 THEN "double"
             ELSE IF rtcData.count >= 3 THEN "triple" ELSE "load"
    /\ UNCHANGED <<rtcData, flash, older, rt, rtcCleared, lastReason, rapid,
                   external>>

\* A variation of DoubleReset that leaves the stored profiles alone.
DoubleResetInRam ==
    /\ at = "double"
    /\ at' = "load"
    /\ UNCHANGED <<rtc, rtcData, flash, older, rt, rtcCleared, lastReason, rapid,
                   external, failures>>

\* clearProfiles: the profile store is not set up yet, so the record is saved
\* with no profiles - and with the password and the parameters of this moment.
DoubleReset ==
    /\ at = "double"
    /\ Save([rt EXCEPT !.wifi = "none"])
    /\ rt' = [rt EXCEPT !.wifi = "none"]
    /\ at' = "load"
    /\ UNCHANGED <<rtc, rtcData, rtcCleared, lastReason, rapid, external,
                   failures>>

\* reset(Factory) clears the profiles ...
TripleReset ==
    /\ at = "triple"
    /\ Save([rt EXCEPT !.wifi = "none"])
    /\ rt' = [rt EXCEPT !.wifi = "none"]
    /\ at' = "erase"
    /\ UNCHANGED <<rtc, rtcData, rtcCleared, lastReason, rapid, external,
                   failures>>

\* ... and erases both slots.
EraseStore ==
    /\ at = "erase"
    /\ flash' = Erased
    /\ older' = Erased
    /\ rt' = Defaults
    /\ at' = "recount"
    /\ UNCHANGED <<rtc, rtcData, rtcCleared, lastReason, rapid, external,
                   failures>>

ResetCount ==
    /\ at = "recount"
    /\ rtcData' = [rtcData EXCEPT !.count = 0]
    /\ WriteRecord(rtcData')
    /\ at' = "mark"
    /\ UNCHANGED <<flash, older, rt, rtcCleared, lastReason, rapid, external>>

-----------------------------------------------------------------------------
(* restart(): the marker, then ESP.restart(). *)

Mark(reason) ==
    /\ rtcData' = [rtcData EXCEPT !.reason = reason]
    /\ WriteRecord(rtcData')
    /\ at' = "reboot"
    /\ UNCHANGED <<flash, older, rt, rtcCleared, lastReason, rapid, external>>

Recover == at = "mark" /\ Mark("factoryRecovery")

Restart == at = "running" /\ Mark("application")

Reboot ==
    /\ at = "reboot"
    /\ StartOver
    /\ rapid' = 0
    /\ UNCHANGED <<rtc, flash, older, external>>

-----------------------------------------------------------------------------
(* setup() and loop(). *)

Load ==
    /\ at = "load"
    /\ rt' = IF flash = Erased THEN Defaults ELSE flash
    /\ at' = "running"
    /\ UNCHANGED <<rtc, rtcData, flash, older, rtcCleared, lastReason, rapid,
                   external, failures>>

\* A variation of CloseWindow that clears nothing.
CloseWindowInRam ==
    /\ at = "running"
    /\ ~rtcCleared
    /\ rtcCleared' = TRUE
    /\ UNCHANGED <<rtc, rtcData, flash, older, rt, at, lastReason, rapid, external,
                   failures>>

\* The boot has outlasted the window; rtcData keeps its contents.
CloseWindow ==
    /\ at = "running"
    /\ ~rtcCleared
    /\ rtcCleared' = TRUE
    /\ WriteRecord(NoData)
    /\ UNCHANGED <<rtcData, flash, older, rt, at, lastReason, rapid, external>>

\* The portal, Home Assistant or the application changes and saves a value.
Configure ==
    /\ at = "running"
    /\ rt' \in Config
    /\ Save(rt')
    /\ UNCHANGED <<rtc, rtcData, at, rtcCleared, lastReason, rapid, external,
                   failures>>

-----------------------------------------------------------------------------

BootStep ==
    /\ UNCHANGED platform
    /\ \/ Register \/ ReadRecord \/ UpdateRecord \/ DoubleReset
       \/ TripleReset \/ EraseStore \/ ResetCount \/ Recover \/ Reboot \/ Load

Other ==
    /\ UNCHANGED platform
    /\ \/ RestartInCallback \/ Restart \/ CloseWindow \/ Configure
       \/ PressReset \/ PowerCut

Next == BootStep \/ Other

\* The processor keeps executing the boot; nothing obliges the application to
\* restart or to change anything.
Spec == Init /\ [][Next]_vars /\ WF_vars(BootStep)

-----------------------------------------------------------------------------
(* Properties. *)

Intact == failures = 0

\* Only a physical gesture clears anything: a double reset takes two external
\* resets, a triple reset three, inside the window and not separated by a
\* restart() of the framework - as long as the record could be read and written.
GestureIsPhysical ==
    Intact => /\ at = "double" => rapid >= 2
              /\ at \in {"triple", "erase", "recount"} => rapid >= 3

\* Why: what the record counts are external resets.  It is behind by the reset
\* that started this boot until UpdateRecord.
Uncounted == {"callback", "read", "write"}

Unmarked == rtc.ok /\ rtc.reason = "none"

RecordInvariant == Intact =>
    /\ at \in Uncounted => /\ Unmarked => rtc.count < rapid
                           /\ ~rtc.ok => rapid >= 1
    /\ at \notin Uncounted => (Unmarked => rtc.count <= rapid)
    /\ at = "write" => rtcData.count <= rapid
    /\ at \notin {"callback", "read"} => rtcData.ok
    /\ at = "reboot" => rtc.ok /\ ~Unmarked
    /\ rtcCleared => at \in {"running", "reboot"} /\ ~Unmarked
    /\ GestureIsPhysical

\* A recognised gesture is not lost: whatever is pressed meanwhile, the device
\* comes up without Wi-Fi profiles, unless a power loss took the ESP8266's
\* record or the record could not be accessed.
GestureSticks ==
    at \in {"double", "triple"} /\ Intact
        ~> \/ at = "running" /\ rt.wifi = "none"
           \/ platform = "ESP8266" /\ ~rtc.ok
           \/ ~Intact

NoRecordFound == at = "write" /\ rtcData.count = 1 /\ (~rtc.ok \/ ~Intact)

\* A factory reset that has begun to erase ends in a device with the factory
\* configuration, even if the erase is cut between its slots, where a boot would
\* find the configuration of before: the count stays until the erase is done and
\* brings the recovery back.  Except when a boot finds no record: a power loss
\* took the ESP8266's, or the NVS could not be read.
RecoveryCompletes ==
    at = "erase" ~> \/ at = "running" /\ rt = Defaults
                    \/ NoRecordFound

\* "A double reset in the configured timeout clears Wi-Fi profiles", and
\* nothing else.
DoubleResetClearsOnlyWiFi ==
    [][at = "double" /\ at' = "load" /\ flash # Erased
          => flash' = [flash EXCEPT !.wifi = "none"]]_vars
=============================================================================
