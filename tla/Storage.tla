------------------------------ MODULE Storage ------------------------------
(***************************************************************************)
(* DeviceFrameworkStorage: the configuration record kept twice in emulated *)
(* EEPROM, and the operations of the device that rewrite it.  EEPROM.write *)
(* and EEPROM.read work on a RAM buffer; only EEPROM.commit touches flash. *)
(*                                                                         *)
(* A configuration is abstracted to three fields in payload order: the     *)
(* shared device password, the station profiles, and everything else (the  *)
(* parameter values).  A CRC is abstracted to the bytes it is computed     *)
(* over: a slot is readable when its header is valid and names its body.   *)
(***************************************************************************)
EXTENDS Slots

CONSTANTS
    Tasks,            \* threads of control: the loop task, the HTTP task
    Passwords, Profiles, Params,
    DefaultPassword, NoProfiles, DefaultParams,
    Oversize,         \* parameter values that do not fit in a slot
    NoConfig, Junk, NoArg, NoJob, Erase,
    Operations,       \* Operations[t]: what task t may be asked to do
    Cooperative,      \* TRUE: a task runs an operation to its end (ESP8266)
    CommitMayFail,    \* TRUE: EEPROM.commit may return false
    HeapMayFail,      \* TRUE: decoding a valid slot may run out of memory
    MaxGeneration     \* bound on the generation counter

OpNames == {"params", "profiles", "password", "paramReset", "factory"}

Config == [pw: Passwords, prof: Profiles, par: Params]

\* The bytes of a payload area, some of them possibly never written.
Body == [pw: Passwords \cup {Junk}, prof: Profiles \cup {Junk},
         par: Params \cup {Junk}]

ASSUME StorageAssumption ==
    /\ DefaultPassword \in Passwords
    /\ NoProfiles \in Profiles
    /\ DefaultParams \in Params \ Oversize
    /\ Junk \notin Passwords \cup Profiles \cup Params
    /\ NoArg \notin Passwords
    /\ NoConfig \notin Body
    /\ NoJob \notin Config /\ Erase \notin Config /\ NoJob # Erase
    /\ Operations \in [Tasks -> SUBSET OpNames]
    /\ Cooperative \in BOOLEAN
    /\ CommitMayFail \in BOOLEAN
    /\ HeapMayFail \in BOOLEAN
    /\ MaxGeneration \in Nat

Header == [mark: {"erased", "bad", "valid"}, gen: Nat, crc: Body]

Defaults == [pw |-> DefaultPassword, prof |-> NoProfiles, par |-> DefaultParams]

JunkBody == [pw |-> Junk, prof |-> Junk, par |-> Junk]

BlankSlot(mark) ==
    [hdr |-> [mark |-> mark, gen |-> 0, crc |-> JunkBody], body |-> JunkBody]

VARIABLES
    ram,      \* the EEPROM buffer, per slot
    flash,    \* what a reboot reads back, per slot
    rt,       \* the runtime configuration
    booted,
    degraded, \* a load fell back to an older slot and nothing was saved since
    pc,       \* pc[t]: where task t is in its operation
    frame     \* frame[t]: the locals of that operation

vars == <<ram, flash, rt, booted, degraded, pc, frame>>

SavePCs == {"inspect", "password", "profiles", "params", "header", "commit",
            "verify", "saved", "failed"}

ErasePCs == {"erase", "eraseCommit"}

Frame == [op: OpNames \cup {"none"}, arg: Passwords \cup {NoArg},
          kept: Profiles, target: Slot, gen: Nat, crc: Body]

NoFrame == [op |-> "none", arg |-> NoArg, kept |-> NoProfiles,
            target |-> 0, gen |-> 0, crc |-> JunkBody]

TypeOK ==
    /\ ram \in [Slot -> [hdr: Header, body: Body]]
    /\ flash \in [Slot -> [hdr: Header, body: Body]]
    /\ rt \in Config
    /\ booted \in BOOLEAN
    /\ degraded \in BOOLEAN
    /\ pc \in [Tasks -> SavePCs \cup ErasePCs \cup {"idle"}]
    /\ frame \in [Tasks -> Frame]

-----------------------------------------------------------------------------
(* Reading the store. *)

Readable(c) == c.hdr.mark = "valid" /\ c.hdr.crc = c.body

Valid(mem) == [s \in Slot |-> Readable(mem[s])]

Gen(mem) == [s \in Slot |-> IF Readable(mem[s]) THEN mem[s].hdr.gen ELSE 0]

\* readCurrent, where decodes[s] says whether slot s can be decoded: the
\* preferred slot, else the other one if it is valid.
ReadCurrent(mem, decodes) ==
    LET valid == Valid(mem)
        s == PreferredSlot(valid, Gen(mem))
    IN  IF valid[s] /\ decodes[s] THEN mem[s].body
        ELSE IF valid[Other(s)] /\ decodes[Other(s)] THEN mem[Other(s)].body
        ELSE NoConfig

AllDecode == [s \in Slot |-> TRUE]

Current(mem) == ReadCurrent(mem, AllDecode)

\* What the next boot runs with.
Loaded(mem) == IF Current(mem) = NoConfig THEN Defaults ELSE Current(mem)

-----------------------------------------------------------------------------
(* Starting an operation. *)

CanStart(t, op) ==
    /\ booted
    /\ pc[t] = "idle"
    /\ op \in Operations[t]
    /\ Cooperative => \A u \in Tasks : pc[u] = "idle"
    /\ NextGeneration(Gen(ram)) < MaxGeneration

Enter(t, op, arg, kept, where) ==
    /\ pc' = [pc EXCEPT ![t] = where]
    /\ frame' = [frame EXCEPT
                   ![t] = [NoFrame EXCEPT !.op = op, !.arg = arg, !.kept = kept]]
    /\ UNCHANGED <<ram, flash, booted, degraded>>

\* A Home Assistant command or the portal changes a parameter, then saves.
SaveParams(t, v) ==
    /\ CanStart(t, "params")
    /\ rt' = [rt EXCEPT !.par = v]
    /\ Enter(t, "params", NoArg, rt.prof, "inspect")

\* saveWithStationProfiles keeps the previous profiles for a rollback.
SaveProfiles(t, w) ==
    /\ CanStart(t, "profiles")
    /\ rt' = [rt EXCEPT !.prof = w]
    /\ Enter(t, "profiles", NoArg, rt.prof, "inspect")

\* setDevicePassword saves the candidate before it becomes the runtime one.
SetPassword(t, p) ==
    /\ CanStart(t, "password")
    /\ UNCHANGED rt
    /\ Enter(t, "password", p, rt.prof, "inspect")

\* reset(ParametersOnly) remembers the password and the profiles, then erases.
ParameterReset(t) ==
    /\ CanStart(t, "paramReset")
    /\ UNCHANGED rt
    /\ Enter(t, "paramReset", rt.pw, rt.prof, "erase")

\* reset(Factory) first clears the profiles, which is a save of its own.
FactoryReset(t) ==
    /\ CanStart(t, "factory")
    /\ rt' = [rt EXCEPT !.prof = NoProfiles]
    /\ Enter(t, "factory", NoArg, rt.prof, "inspect")

-----------------------------------------------------------------------------
(* saveWithDevicePassword, one step per access to shared memory. *)

Goto(t, where) == pc' = [pc EXCEPT ![t] = where]

\* Writing the state byte invalidates a header; an erased header stays erased
\* to hasAnyStoredData, which looks at the first byte of the slot.
Invalidated(c) ==
    [c EXCEPT !.hdr = [BlankSlot("bad").hdr EXCEPT
        !.mark = IF c.hdr.mark = "erased" THEN "erased" ELSE "bad"]]

Inspect(t) ==
    /\ pc[t] = "inspect"
    /\ LET gen == Gen(ram)
           target == TargetSlot(Valid(ram), gen)
       IN  /\ frame' = [frame EXCEPT ![t] = [@ EXCEPT
                           !.target = target, !.gen = NextGeneration(gen),
                           !.crc = JunkBody]]
           /\ ram' = [ram EXCEPT ![target] = Invalidated(@)]
    /\ Goto(t, "password")
    /\ UNCHANGED <<flash, rt, booted, degraded>>

\* The password the save writes: its argument, or the runtime password.
PasswordOf(t) == IF frame[t].arg = NoArg THEN rt.pw ELSE frame[t].arg

WritePassword(t) ==
    /\ pc[t] = "password"
    /\ ram' = [ram EXCEPT ![frame[t].target].body.pw = PasswordOf(t)]
    /\ frame' = [frame EXCEPT ![t].crc.pw = PasswordOf(t)]
    /\ Goto(t, "profiles")
    /\ UNCHANGED <<flash, rt, booted, degraded>>

WriteProfiles(t) ==
    /\ pc[t] = "profiles"
    /\ ram' = [ram EXCEPT ![frame[t].target].body.prof = rt.prof]
    /\ frame' = [frame EXCEPT ![t].crc.prof = rt.prof]
    /\ Goto(t, "params")
    /\ UNCHANGED <<flash, rt, booted, degraded>>

WriteParams(t) ==
    /\ pc[t] = "params"
    /\ rt.par \notin Oversize
    /\ ram' = [ram EXCEPT ![frame[t].target].body.par = rt.par]
    /\ frame' = [frame EXCEPT ![t].crc.par = rt.par]
    /\ Goto(t, "header")
    /\ UNCHANGED <<flash, rt, booted, degraded>>

\* A variation of Overflow that does not look at the result of writePayload.
OverflowIgnored(t) ==
    /\ pc[t] = "params"
    /\ rt.par \in Oversize
    /\ ram' = [ram EXCEPT ![frame[t].target].body.par = Junk]
    /\ Goto(t, "header")
    /\ UNCHANGED <<flash, rt, booted, degraded, frame>>

\* The payload does not fit: the save returns false without a commit and
\* leaves the target slot half written in the buffer.
Overflow(t) ==
    /\ pc[t] = "params"
    /\ rt.par \in Oversize
    /\ ram' = [ram EXCEPT ![frame[t].target].body.par = Junk]
    /\ Goto(t, "failed")
    /\ UNCHANGED <<flash, rt, booted, degraded, frame>>

WriteHeader(t) ==
    /\ pc[t] = "header"
    /\ ram' = [ram EXCEPT ![frame[t].target].hdr =
                  [mark |-> "valid", gen |-> frame[t].gen, crc |-> frame[t].crc]]
    /\ Goto(t, "commit")
    /\ UNCHANGED <<flash, rt, booted, degraded, frame>>

\* EEPROM.commit: the whole buffer reaches flash, or (external) it fails and
\* flash is as before.
FlushBuffer ==
    \/ flash' = ram
    \/ CommitMayFail /\ UNCHANGED flash

\* A variation of Commit that leaves the record in the buffer.
CommitForgotten(t) ==
    /\ pc[t] = "commit"
    /\ Goto(t, "verify")
    /\ UNCHANGED <<ram, flash, rt, booted, degraded, frame>>

\* The result of EEPROM.commit is not looked at.
Commit(t) ==
    /\ pc[t] = "commit"
    /\ FlushBuffer
    /\ Goto(t, "verify")
    /\ UNCHANGED <<ram, rt, booted, degraded, frame>>

\* writtenSlotMatches reads the buffer back.
Verify(t) ==
    /\ pc[t] = "verify"
    /\ LET c == ram[frame[t].target]
           asWritten == /\ Readable(c)
                        /\ c.hdr.gen = frame[t].gen
                        /\ c.hdr.crc = frame[t].crc
       IN  Goto(t, IF asWritten THEN "saved" ELSE "failed")
    /\ UNCHANGED <<ram, flash, rt, booted, degraded, frame>>

-----------------------------------------------------------------------------
(* What the callers do with the outcome. *)

\* A variation of FinishSave in which a failed profile save is not undone.
FinishWithoutRollback(t) ==
    /\ pc[t] \in {"saved", "failed"}
    /\ frame[t].op # "factory"
    /\ rt' = IF frame[t].op = "password" /\ pc[t] = "saved"
             THEN [rt EXCEPT !.pw = frame[t].arg] ELSE rt
    /\ Goto(t, "idle")
    /\ frame' = [frame EXCEPT ![t] = NoFrame]
    /\ degraded' = (degraded /\ pc[t] = "failed")
    /\ UNCHANGED <<ram, flash, booted>>

\* A failed profile save is rolled back; a stored password takes effect.
FinishSave(t) ==
    /\ pc[t] \in {"saved", "failed"}
    /\ frame[t].op # "factory"
    /\ rt' = CASE frame[t].op = "profiles" /\ pc[t] = "failed" ->
                    [rt EXCEPT !.prof = frame[t].kept]
               [] frame[t].op = "password" /\ pc[t] = "saved" ->
                    [rt EXCEPT !.pw = frame[t].arg]
               [] OTHER -> rt
    /\ Goto(t, "idle")
    /\ frame' = [frame EXCEPT ![t] = NoFrame]
    /\ degraded' = (degraded /\ pc[t] = "failed")
    /\ UNCHANGED <<ram, flash, booted>>

\* A factory reset goes on to erase whether or not the profiles were cleared.
FinishClear(t) ==
    /\ pc[t] \in {"saved", "failed"}
    /\ frame[t].op = "factory"
    /\ rt' = IF pc[t] = "failed" THEN [rt EXCEPT !.prof = frame[t].kept] ELSE rt
    /\ Goto(t, "erase")
    /\ UNCHANGED <<ram, flash, booted, degraded, frame>>

\* Storage::reset fills the buffer with 0xff ...
EraseBuffer(t) ==
    /\ pc[t] = "erase"
    /\ ram' = [s \in Slot |-> BlankSlot("erased")]
    /\ Goto(t, "eraseCommit")
    /\ UNCHANGED <<flash, rt, booted, degraded, frame>>

\* ... and commits it; then the runtime goes back to its defaults, except the
\* credentials a parameter reset puts back and saves again.
EraseCommit(t) ==
    /\ pc[t] = "eraseCommit"
    /\ FlushBuffer
    /\ IF frame[t].op = "paramReset"
       THEN /\ rt' = [rt EXCEPT !.par = DefaultParams, !.prof = frame[t].kept]
            /\ Goto(t, "inspect")
            /\ UNCHANGED frame
       ELSE /\ rt' = Defaults
            /\ Goto(t, "idle")
            /\ frame' = [frame EXCEPT ![t] = NoFrame]
    /\ degraded' = FALSE
    /\ UNCHANGED <<ram, booted>>

\* loadParameters: load() reads the buffer into the runtime, if it can.
Reload(t, decodes) ==
    /\ booted
    /\ pc[t] = "idle"
    /\ Cooperative => \A u \in Tasks : pc[u] = "idle"
    /\ LET c == ReadCurrent(ram, decodes)
       IN  /\ rt' = IF c = NoConfig THEN rt ELSE c
           /\ degraded' = (c # Current(ram) \/ (degraded /\ c = NoConfig))
    /\ UNCHANGED <<ram, flash, booted, pc, frame>>

-----------------------------------------------------------------------------
(* Power. *)

\* A commit that loses power leaves each slot it was changing old, new or
\* unreadable; a slot it was not changing is as it was.
Torn(mem, buffer, s) ==
    IF mem[s] = buffer[s] THEN {mem[s]}
    ELSE {mem[s], buffer[s], BlankSlot("bad")}

PowerLoss ==
    /\ booted
    /\ booted' = FALSE
    /\ IF \E t \in Tasks : pc[t] \in {"commit", "eraseCommit"}
       THEN \E a \in Torn(flash, ram, 0), b \in Torn(flash, ram, 1) :
               flash' = [s \in Slot |-> IF s = 0 THEN a ELSE b]
       ELSE UNCHANGED flash
    /\ UNCHANGED <<ram, rt, degraded, pc, frame>>

\* EEPROM.begin, registration of the defaults, load().
Boot(decodes) ==
    /\ ~booted
    /\ booted' = TRUE
    /\ ram' = flash
    /\ LET c == ReadCurrent(flash, decodes)
       IN  /\ rt' = IF c = NoConfig THEN Defaults ELSE c
           /\ degraded' = (c # Current(flash))
    /\ pc' = [t \in Tasks |-> "idle"]
    /\ frame' = [t \in Tasks |-> NoFrame]
    /\ UNCHANGED flash

-----------------------------------------------------------------------------

Init ==
    /\ ram = [s \in Slot |-> BlankSlot("erased")]
    /\ flash = ram
    /\ rt = Defaults
    /\ booted = TRUE
    /\ degraded = FALSE
    /\ pc = [t \in Tasks |-> "idle"]
    /\ frame = [t \in Tasks |-> NoFrame]

Start(t) ==
    \/ \E v \in Params : SaveParams(t, v)
    \/ \E w \in Profiles : SaveProfiles(t, w)
    \/ \E p \in Passwords : SetPassword(t, p)
    \/ ParameterReset(t)
    \/ FactoryReset(t)

Step(t) ==
    \/ Inspect(t) \/ WritePassword(t) \/ WriteProfiles(t)
    \/ WriteParams(t) \/ Overflow(t) \/ WriteHeader(t)
    \/ Commit(t) \/ Verify(t)
    \/ FinishSave(t) \/ FinishClear(t) \/ EraseBuffer(t) \/ EraseCommit(t)

Decodes == IF HeapMayFail THEN [Slot -> BOOLEAN] ELSE {AllDecode}

Next ==
    \/ \E t \in Tasks : Start(t) \/ (booted /\ Step(t))
    \/ \E t \in Tasks, decodes \in Decodes : Reload(t, decodes)
    \/ PowerLoss
    \/ \E decodes \in Decodes : Boot(decodes)

Spec == Init /\ [][Next]_vars

-----------------------------------------------------------------------------
(* Properties. *)

Quiet == booted /\ \A t \in Tasks : pc[t] = "idle"

\* Between operations the runtime and the store agree: a power cut now would
\* bring back the password, the profiles and (unless they do not fit) the
\* parameters the device is running with - unless a load could only decode an
\* older slot and nothing was saved since.  saveWithStationProfiles rolls back
\* and setDevicePassword stores first for this.
RuntimeIsDurable ==
    Quiet /\ ~degraded =>
             LET next == Loaded(flash)
             IN  /\ rt.pw = next.pw
                 /\ rt.prof = next.prof
                 /\ rt.par \notin Oversize => rt.par = next.par

\* A device that has a configuration never boots without one, wherever the
\* power is cut, unless a reset is erasing it.
NeverUnconfigured ==
    [][Current(flash) # NoConfig /\ (\A t \in Tasks : pc[t] # "eraseCommit")
         => Current(flash') # NoConfig]_vars

\* When a save reports success, the next boot loads the bytes it wrote.
SavedIsStored ==
    \A t \in Tasks :
        pc[t] = "saved" /\ booted => Current(flash) = frame[t].crc

\* "The old password remains active" if the save failed, the new one is
\* stored if it did not: between operations the runtime password is the one
\* the next boot loads.
PasswordIsStored == Quiet => rt.pw = Loaded(flash).pw

-----------------------------------------------------------------------------
(* Why the two slots are enough: the inductive invariant behind            *)
(* SavedIsStored and NeverUnconfigured, for a cooperative scheduler and a  *)
(* commit that does not fail.                                              *)

\* A header is only ever made valid over a complete payload.
Complete(mem) ==
    \A s \in Slot : mem[s].hdr.mark = "valid" => mem[s].hdr.crc \in Config

\* What task t has written so far is part of a configuration.
PartlyWritten(t) ==
    /\ pc[t] \in {"profiles", "params", "header"}
          => frame[t].crc.pw \in Passwords
    /\ pc[t] \in {"params", "header"} => frame[t].crc.prof \in Profiles
    /\ pc[t] = "header" => frame[t].crc.par \in Params
    /\ frame[t].op = "password" => frame[t].arg \in Passwords

HeadersNameConfigs ==
    /\ Complete(ram)
    /\ Complete(flash)
    /\ \A t \in Tasks : PartlyWritten(t)

OneAtATime ==
    \A t, u \in Tasks : pc[t] # "idle" /\ pc[u] # "idle" => t = u

NoTie(mem) ==
    Readable(mem[0]) /\ Readable(mem[1]) => mem[0].hdr.gen # mem[1].hdr.gen

\* Losing slot s in flash would not lose the current configuration.
Spare(s) ==
    Readable(flash[s]) => /\ Readable(flash[Other(s)])
                          /\ flash[s].hdr.gen < flash[Other(s)].hdr.gen

\* Outside a save the buffer differs from flash at most by spare slots that
\* a failed save left unreadable.
Synced == \A s \in Slot : ram[s] = flash[s] \/ (Spare(s) /\ ~Readable(ram[s]))

\* While task t fills its target slot, the other slot is safe in flash and
\* older than what t is writing.
Filling(t) ==
    LET o == Other(frame[t].target)
    IN  /\ Spare(frame[t].target)
        /\ \/ ram[o] = flash[o]
           \/ ~Readable(ram[o]) /\ ~Readable(flash[o])
        /\ Readable(ram[o]) => ram[o].hdr.gen < frame[t].gen

Written(t) ==
    LET c == ram[frame[t].target]
    IN  /\ Readable(c)
        /\ c.hdr.gen = frame[t].gen
        /\ c.hdr.crc = frame[t].crc

\* What a commit has put in flash is newer than the other slot.
Stored(t) ==
    /\ flash = ram
    /\ Written(t)
    /\ LET o == Other(frame[t].target)
       IN  Readable(ram[o]) => ram[o].hdr.gen < frame[t].gen

Phase(t) ==
    /\ pc[t] \in {"password", "profiles", "params", "header"} =>
          /\ Filling(t)
          /\ ram[frame[t].target].hdr.mark # "valid"
    /\ pc[t] \in {"profiles", "params", "header"} =>
          ram[frame[t].target].body.pw = frame[t].crc.pw
    /\ pc[t] \in {"params", "header"} =>
          ram[frame[t].target].body.prof = frame[t].crc.prof
    /\ pc[t] = "header" => ram[frame[t].target].body.par = frame[t].crc.par
    /\ pc[t] = "commit" => Filling(t) /\ Written(t)
    /\ pc[t] \in {"verify", "saved"} => Stored(t)
    /\ pc[t] = "eraseCommit" => \A s \in Slot : ~Readable(ram[s])

\* The places where no task has the store half changed.
Rest == {"idle", "inspect", "erase", "saved", "failed"}

StoreInvariant ==
    /\ HeadersNameConfigs
    /\ OneAtATime
    /\ NoTie(flash)
    /\ booted => /\ (\A t \in Tasks : pc[t] \in Rest) => Synced
                 /\ \A t \in Tasks : Phase(t)

-----------------------------------------------------------------------------
(* The store implements DurableConfig. *)

Busy == {t \in Tasks : booted /\ pc[t] # "idle"}

Job ==
    IF Busy = {} THEN NoJob
    ELSE LET t == CHOOSE u \in Tasks : u \in Busy
         IN  IF pc[t] \in ErasePCs THEN Erase
             ELSE [rt EXCEPT !.pw = PasswordOf(t)]

Outcome ==
    IF \E t \in Busy : pc[t] = "saved" THEN "saved"
    ELSE IF \E t \in Busy : pc[t] = "failed" THEN "failed" ELSE "none"

Durable == INSTANCE DurableConfig
    WITH stored <- Current(flash), job <- Job, outcome <- Outcome

\* Every behaviour of the slots is one of the single stored configuration.
DurableSpec == Durable!Spec
=============================================================================
