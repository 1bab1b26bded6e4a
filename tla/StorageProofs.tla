--------------------------- MODULE StorageProofs ---------------------------
(***************************************************************************)
(* Theorems about Storage, for every set of tasks and every configuration. *)
(***************************************************************************)
EXTENDS Storage, TLAPS

-----------------------------------------------------------------------------
(* The slot arithmetic. *)

\* Whatever inspectSlot reports, a save overwrites one of the two slots, never
\* the only valid one and never the newer of two, and the generation it stamps
\* exceeds every generation read.
LEMMA SlotChoice ==
    ASSUME NEW valid \in [Slot -> BOOLEAN], NEW gen \in [Slot -> Nat]
    PROVE  /\ TargetSlot(valid, gen) \in Slot
           /\ NextGeneration(gen) \in Nat
           /\ \A s \in Slot : gen[s] < NextGeneration(gen)
           /\ valid[TargetSlot(valid, gen)] =>
                 /\ valid[Other(TargetSlot(valid, gen))]
                 /\ gen[TargetSlot(valid, gen)]
                       <= gen[Other(TargetSlot(valid, gen))]
    BY DEF TargetSlot, NextGeneration, Other, Slot

\* A load prefers a valid slot if there is one, and the newer of two.
LEMMA Preference ==
    ASSUME NEW valid \in [Slot -> BOOLEAN], NEW gen \in [Slot -> Nat]
    PROVE  /\ PreferredSlot(valid, gen) \in Slot
           /\ (\E s \in Slot : valid[s]) => valid[PreferredSlot(valid, gen)]
           /\ \A s \in Slot : valid[s] => gen[s] <= gen[PreferredSlot(valid, gen)]
    BY DEF PreferredSlot, Slot

-----------------------------------------------------------------------------
(* Type correctness. *)

Memory == [Slot -> [hdr: Header, body: Body]]

\* The records the actions build have the types TypeOK asks for.
LEMMA Shapes ==
    /\ JunkBody \in Body
    /\ Defaults \in Config
    /\ NoFrame \in Frame
    /\ \A mark \in {"erased", "bad"} :
          /\ BlankSlot(mark) \in [hdr: Header, body: Body]
          /\ BlankSlot(mark).hdr.mark # "valid"
    BY StorageAssumption
    DEF JunkBody, Body, Defaults, Config, NoFrame, Frame, BlankSlot, Header,
        OpNames, Slot

\* What a load returns is a configuration, never a half-written payload.
LEMMA ReadsConfig ==
    ASSUME NEW mem \in Memory, Complete(mem), NEW decodes \in [Slot -> BOOLEAN]
    PROVE  ReadCurrent(mem, decodes) \in Config \cup {NoConfig}
<1>1. \A s \in Slot : Valid(mem)[s] => mem[s].body \in Config
    BY DEF Valid, Readable, Complete
<1>2. Valid(mem) \in [Slot -> BOOLEAN] /\ Gen(mem) \in [Slot -> Nat]
    BY DEF Valid, Readable, Gen, Memory, Header
<1>3. PreferredSlot(Valid(mem), Gen(mem)) \in Slot
    BY <1>2, Preference
<1>4. \A s \in Slot : Other(s) \in Slot
    BY DEF Other, Slot
<1> QED BY <1>1, <1>3, <1>4 DEF ReadCurrent

TypeInvariant == TypeOK /\ HeadersNameConfigs

\* The type invariant holds at first ...
LEMMA TypeInit == Init => TypeInvariant
<1> SUFFICES ASSUME Init PROVE TypeInvariant
    OBVIOUS
<1>1. TypeOK
    BY Shapes DEF Init, TypeOK
<1>2. HeadersNameConfigs
    BY Shapes DEF Init, HeadersNameConfigs, Complete, PartlyWritten, NoFrame
<1> QED BY <1>1, <1>2 DEF TypeInvariant

\* ... starting an operation keeps it ...
LEMMA TypeStart ==
    ASSUME TypeInvariant, NEW t \in Tasks, Start(t)
    PROVE  TypeInvariant'
<1> USE DEF TypeInvariant, HeadersNameConfigs, Complete, PartlyWritten
<1>1. ASSUME NEW op \in OpNames, NEW arg \in Passwords \cup {NoArg},
             NEW kept \in Profiles, NEW where \in {"inspect", "erase"},
             Enter(t, op, arg, kept, where), rt' \in Config,
             op = "password" => arg \in Passwords
      PROVE  TypeInvariant'
    BY <1>1, Shapes DEF Enter, TypeOK, Frame, NoFrame, SavePCs, ErasePCs
<1>2. ASSUME NEW v \in Params, SaveParams(t, v)
      PROVE  TypeInvariant'
    BY <1>1, <1>2 DEF SaveParams, OpNames, TypeOK, Config
<1>3. ASSUME NEW w \in Profiles, SaveProfiles(t, w)
      PROVE  TypeInvariant'
    BY <1>1, <1>3 DEF SaveProfiles, OpNames, TypeOK, Config
<1>4. ASSUME NEW p \in Passwords, SetPassword(t, p)
      PROVE  TypeInvariant'
    BY <1>1, <1>4 DEF SetPassword, OpNames, TypeOK, Config
<1>5. CASE ParameterReset(t)
    BY <1>1, <1>5 DEF ParameterReset, OpNames, TypeOK, Config
<1>6. CASE FactoryReset(t)
    BY <1>1, <1>6, StorageAssumption DEF FactoryReset, OpNames, TypeOK, Config
<1> QED BY <1>2, <1>3, <1>4, <1>5, <1>6 DEF Start

\* One step of a save: it rewrites its target slot, its locals and its place.
LEMMA TypeWrite ==
    ASSUME TypeInvariant, NEW t \in Tasks,
           NEW c \in [hdr: Header, body: Body],
           c.hdr.mark = "valid" => c.hdr.crc \in Config,
           NEW f \in Frame, f.op = "password" => f.arg \in Passwords,
           NEW where \in SavePCs,
           where \in {"profiles", "params", "header"} => f.crc.pw \in Passwords,
           where \in {"params", "header"} => f.crc.prof \in Profiles,
           where = "header" => f.crc.par \in Params,
           ram' = [ram EXCEPT ![frame[t].target] = c],
           frame' = [frame EXCEPT ![t] = f],
           Goto(t, where), UNCHANGED <<flash, rt, booted, degraded>>
    PROVE  TypeInvariant'
    BY DEF TypeInvariant, HeadersNameConfigs, Complete, PartlyWritten, TypeOK,
       Goto, ErasePCs

\* ... and so does every step of one ...
LEMMA TypeStep ==
    ASSUME TypeInvariant, NEW t \in Tasks, Step(t)
    PROVE  TypeInvariant'
<1>0. /\ rt \in Config
      /\ frame[t] \in Frame /\ frame[t].target \in Slot
      /\ ram[frame[t].target] \in [hdr: Header, body: Body]
      /\ ram[frame[t].target].hdr.mark = "valid"
            => ram[frame[t].target].hdr.crc \in Config
      /\ PartlyWritten(t)
  <2>1. frame[t] \in Frame
    BY DEF TypeInvariant, TypeOK
  <2>2. frame[t].target \in Slot
    BY <2>1 DEF Frame
  <2> QED BY <2>1, <2>2 DEF TypeInvariant, TypeOK, HeadersNameConfigs, Complete
<1>1. CASE Inspect(t)
  <2> DEFINE target == TargetSlot(Valid(ram), Gen(ram))
             f == [frame[t] EXCEPT !.target = target,
                      !.gen = NextGeneration(Gen(ram)), !.crc = JunkBody]
  <2>1. Valid(ram) \in [Slot -> BOOLEAN] /\ Gen(ram) \in [Slot -> Nat]
    BY DEF TypeInvariant, TypeOK, Valid, Readable, Gen, Header
  <2>2. target \in Slot /\ NextGeneration(Gen(ram)) \in Nat
    BY <2>1, SlotChoice
  <2>3. /\ Invalidated(ram[target]) \in [hdr: Header, body: Body]
        /\ Invalidated(ram[target]).hdr.mark # "valid"
    BY <2>2, Shapes DEF TypeInvariant, TypeOK, Invalidated, BlankSlot, Header
  <2>4. f \in Frame /\ f.op = frame[t].op /\ f.arg = frame[t].arg
    BY <1>0, <2>2, Shapes DEF Frame
  <2>5. /\ ram' = [ram EXCEPT ![target] = Invalidated(ram[target])]
        /\ frame' = [frame EXCEPT ![t] = f]
        /\ Goto(t, "password") /\ UNCHANGED <<flash, rt, booted, degraded>>
    BY <1>1 DEF Inspect
  <2> HIDE DEF target, f
  <2> QED BY <1>0, <2>2, <2>3, <2>4, <2>5
          DEF TypeInvariant, TypeOK, HeadersNameConfigs, Complete,
             PartlyWritten, Goto, SavePCs
<1>2. CASE WritePassword(t)
  <2> DEFINE c == [ram[frame[t].target] EXCEPT !.body.pw = PasswordOf(t)]
             f == [frame[t] EXCEPT !.crc.pw = PasswordOf(t)]
  <2>1. PasswordOf(t) \in Passwords
    BY <1>0 DEF PasswordOf, Frame, Config
  <2>2. c \in [hdr: Header, body: Body] /\ c.hdr = ram[frame[t].target].hdr
    BY <1>0, <2>1 DEF Body
  <2>3. f \in Frame /\ f.op = frame[t].op /\ f.arg = frame[t].arg
    BY <1>0, <2>1 DEF Frame, Body
  <2>4. /\ f.crc.pw = PasswordOf(t) /\ f.crc.prof = frame[t].crc.prof
        /\ f.crc.par = frame[t].crc.par
    BY <1>0 DEF Frame, Body
  <2>5. /\ ram' = [ram EXCEPT ![frame[t].target] = c]
        /\ frame' = [frame EXCEPT ![t] = f]
    BY <1>2 DEF WritePassword
  <2> HIDE DEF c, f
  <2> QED BY <1>0, <1>2, <2>1, <2>2, <2>3, <2>4, <2>5, TypeWrite
          DEF WritePassword, PartlyWritten, SavePCs
<1>3. CASE WriteProfiles(t)
  <2> DEFINE c == [ram[frame[t].target] EXCEPT !.body.prof = rt.prof]
             f == [frame[t] EXCEPT !.crc.prof = rt.prof]
  <2>1. rt.prof \in Profiles
    BY <1>0 DEF PasswordOf, Frame, Config
  <2>2. c \in [hdr: Header, body: Body] /\ c.hdr = ram[frame[t].target].hdr
    BY <1>0, <2>1 DEF Body
  <2>3. f \in Frame /\ f.op = frame[t].op /\ f.arg = frame[t].arg
    BY <1>0, <2>1 DEF Frame, Body
  <2>4. f.crc.prof = rt.prof /\ f.crc.pw = frame[t].crc.pw /\ f.crc.par = frame[t].crc.par
    BY <1>0 DEF Frame, Body
  <2>5. /\ ram' = [ram EXCEPT ![frame[t].target] = c]
        /\ frame' = [frame EXCEPT ![t] = f]
    BY <1>3 DEF WriteProfiles
  <2> HIDE DEF c, f
  <2> QED BY <1>0, <1>3, <2>1, <2>2, <2>3, <2>4, <2>5, TypeWrite
          DEF WriteProfiles, PartlyWritten, SavePCs
<1>4. CASE WriteParams(t)
  <2> DEFINE c == [ram[frame[t].target] EXCEPT !.body.par = rt.par]
             f == [frame[t] EXCEPT !.crc.par = rt.par]
  <2>1. rt.par \in Params
    BY <1>0 DEF PasswordOf, Frame, Config
  <2>2. c \in [hdr: Header, body: Body] /\ c.hdr = ram[frame[t].target].hdr
    BY <1>0, <2>1 DEF Body
  <2>3. f \in Frame /\ f.op = frame[t].op /\ f.arg = frame[t].arg
    BY <1>0, <2>1 DEF Frame, Body
  <2>4. f.crc.par = rt.par /\ f.crc.pw = frame[t].crc.pw /\ f.crc.prof = frame[t].crc.prof
    BY <1>0 DEF Frame, Body
  <2>5. /\ ram' = [ram EXCEPT ![frame[t].target] = c]
        /\ frame' = [frame EXCEPT ![t] = f]
    BY <1>4 DEF WriteParams
  <2> HIDE DEF c, f
  <2> QED BY <1>0, <1>4, <2>1, <2>2, <2>3, <2>4, <2>5, TypeWrite
          DEF WriteParams, PartlyWritten, SavePCs
<1>5. CASE Overflow(t)
  <2> DEFINE c == [ram[frame[t].target] EXCEPT !.body.par = Junk]
  <2>1. c \in [hdr: Header, body: Body] /\ c.hdr = ram[frame[t].target].hdr
    BY <1>0 DEF Body
  <2>2. /\ ram' = [ram EXCEPT ![frame[t].target] = c]
        /\ frame' = [frame EXCEPT ![t] = frame[t]]
    BY <1>5 DEF Overflow, TypeInvariant, TypeOK
  <2> HIDE DEF c
  <2> QED BY <1>0, <1>5, <2>1, <2>2, TypeWrite DEF Overflow, PartlyWritten,
     SavePCs
<1>6. CASE WriteHeader(t)
  <2> DEFINE h == [mark |-> "valid", gen |-> frame[t].gen, crc |-> frame[t].crc]
             c == [ram[frame[t].target] EXCEPT !.hdr = h]
  <2>1. frame[t].crc \in Config
    BY <1>0, <1>6 DEF WriteHeader, PartlyWritten, Frame, Body, Config
  <2>2. h \in Header /\ h.crc = frame[t].crc
    BY <1>0 DEF Frame, Header
  <2> HIDE DEF h
  <2>3. c \in [hdr: Header, body: Body] /\ c.hdr = h
    BY <1>0, <2>2
  <2>4. /\ ram' = [ram EXCEPT ![frame[t].target] = c]
        /\ frame' = [frame EXCEPT ![t] = frame[t]]
    BY <1>6 DEF WriteHeader, TypeInvariant, TypeOK, h
  <2> HIDE DEF c
  <2> QED BY <1>0, <1>6, <2>1, <2>2, <2>3, <2>4, TypeWrite
          DEF WriteHeader, PartlyWritten, SavePCs
<1>7. CASE Commit(t)
    BY <1>7 DEF Commit, FlushBuffer, Goto, SavePCs, TypeInvariant, TypeOK,
       HeadersNameConfigs, Complete, PartlyWritten
<1>8. CASE Verify(t)
    BY <1>8 DEF Verify, Goto, SavePCs, TypeInvariant, TypeOK,
       HeadersNameConfigs, Complete, PartlyWritten
<1>9. CASE FinishSave(t)
  <2>1. rt' \in Config
    BY <1>0, <1>9 DEF FinishSave, PartlyWritten, Config, Frame
  <2> QED BY <1>9, <2>1, Shapes DEF FinishSave, NoFrame, Goto, TypeInvariant,
     TypeOK, HeadersNameConfigs, Complete, PartlyWritten
<1>10. CASE FinishClear(t)
  <2>1. rt' \in Config
    BY <1>0, <1>10 DEF FinishClear, Config, Frame
  <2> QED BY <1>10, <2>1 DEF FinishClear, Goto, ErasePCs, TypeInvariant,
     TypeOK, HeadersNameConfigs, Complete, PartlyWritten
<1>11. CASE EraseBuffer(t)
    BY <1>11, Shapes DEF EraseBuffer, Goto, ErasePCs, TypeInvariant, TypeOK,
       HeadersNameConfigs, Complete, PartlyWritten
<1>12. CASE EraseCommit(t)
  <2>1. rt' \in Config
    BY <1>0, <1>12, StorageAssumption, Shapes DEF EraseCommit, Config, Frame
  <2>2. /\ ram' = ram /\ flash' \in {flash, ram} /\ booted' = booted
        /\ degraded' \in BOOLEAN
        /\ \E where \in {"inspect", "idle"} : pc' = [pc EXCEPT ![t] = where]
        /\ frame' = frame \/ frame' = [frame EXCEPT ![t] = NoFrame]
    BY <1>12 DEF EraseCommit, FlushBuffer, Goto
  <2>3. TypeOK'
    BY <2>1, <2>2, Shapes DEF TypeInvariant, TypeOK, SavePCs
  <2>4. HeadersNameConfigs'
    BY <1>0, <2>2, Shapes DEF TypeInvariant, TypeOK, HeadersNameConfigs,
       Complete, PartlyWritten, NoFrame
  <2> QED BY <2>3, <2>4 DEF TypeInvariant
<1> QED BY <1>1, <1>2, <1>3, <1>4, <1>5, <1>6, <1>7, <1>8, <1>9, <1>10, <1>11,
       <1>12 DEF Step

\* ... a power loss and a boot ...
LEMMA TypePower ==
    ASSUME TypeInvariant, NEW decodes \in [Slot -> BOOLEAN],
           PowerLoss \/ Boot(decodes) \/ \E t \in Tasks : Reload(t, decodes)
    PROVE  TypeInvariant'
<1> USE DEF TypeInvariant, HeadersNameConfigs, Complete, PartlyWritten, TypeOK
<1>1. CASE PowerLoss
  <2>1. ASSUME NEW s \in Slot, NEW a \in Torn(flash, ram, s)
        PROVE  /\ a \in [hdr: Header, body: Body]
               /\ a.hdr.mark = "valid" => a.hdr.crc \in Config
    BY <2>1, Shapes DEF Torn
  <2>2. flash' \in Memory /\ Complete(flash)'
    BY <1>1, <2>1 DEF PowerLoss, Memory, Slot
  <2> QED BY <1>1, <2>2 DEF PowerLoss, Memory
<1>2. CASE Boot(decodes)
  <2>1. ReadCurrent(flash, decodes) \in Config \cup {NoConfig}
    BY ReadsConfig DEF Memory
  <2> QED BY <1>2, <2>1, Shapes DEF Boot, NoFrame
<1>3. ASSUME NEW t \in Tasks, Reload(t, decodes)
      PROVE  TypeInvariant'
  <2>1. ReadCurrent(ram, decodes) \in Config \cup {NoConfig}
    BY ReadsConfig DEF Memory
  <2> QED BY <1>3, <2>1 DEF Reload
<1> QED BY <1>1, <1>2, <1>3

\* ... so every step does.
LEMMA TypeNext == TypeInvariant /\ [Next]_vars => TypeInvariant'
<1> SUFFICES ASSUME TypeInvariant, [Next]_vars PROVE TypeInvariant'
    OBVIOUS
<1>1. Decodes \subseteq [Slot -> BOOLEAN]
    BY DEF Decodes, AllDecode
<1>2. CASE UNCHANGED vars
    BY <1>2 DEF vars, TypeInvariant, TypeOK, HeadersNameConfigs, Complete,
       PartlyWritten
<1>3. CASE PowerLoss
    BY <1>3, TypePower, [s \in Slot |-> TRUE] \in [Slot -> BOOLEAN]
<1> QED BY <1>1, <1>2, <1>3, TypeStart, TypeStep, TypePower DEF Next

\* The runtime and the record in either slot are always complete
\* configurations: no interleaving of the tasks, no power cut in a commit and
\* no failed commit makes a load return a half-written payload.
THEOREM TypeCorrect == Spec => []TypeOK
<1>1. TypeInvariant => TypeOK
    BY DEF TypeInvariant
<1> QED BY <1>1, TypeInit, TypeNext, PTL DEF Spec

-----------------------------------------------------------------------------
(* The two slots.  StoreInvariant is inductive when one task at a time works *)
(* on the store and EEPROM.commit does what it says.                         *)

Sequential == Cooperative = TRUE /\ CommitMayFail = FALSE

Inductive == TypeInvariant /\ StoreInvariant

\* The store invariant holds of a blank store.
LEMMA StoreInit == Init => StoreInvariant
<1> SUFFICES ASSUME Init PROVE StoreInvariant
    OBVIOUS
<1>1. \A s \in Slot : ~Readable(ram[s]) /\ ram[s] = flash[s]
    BY Shapes DEF Init, Readable
<1>2. HeadersNameConfigs
    BY TypeInit DEF TypeInvariant
<1> QED BY <1>1, <1>2
        DEF Init, StoreInvariant, OneAtATime, NoTie, Synced, Phase, Slot

\* Only the task that steps has a phase to re-establish.
LEMMA OneStep ==
    ASSUME TypeOK, StoreInvariant, booted, NEW t \in Tasks, pc[t] # "idle",
           NEW where, Goto(t, where), booted', HeadersNameConfigs',
           NoTie(flash'), where \in Rest => Synced', Phase(t)'
    PROVE  StoreInvariant'
<1>1. \A u \in Tasks : u # t => pc'[u] = "idle"
    BY DEF StoreInvariant, OneAtATime, Goto, TypeOK
<1>2. pc'[t] = where
    BY DEF Goto, TypeOK
<1>3. OneAtATime'
    BY <1>1 DEF OneAtATime
<1>4. \A u \in Tasks : u # t => Phase(u)'
    BY <1>1 DEF Phase
<1>5. NoTie(flash)'
    BY DEF NoTie
<1> QED BY <1>2, <1>3, <1>4, <1>5 DEF StoreInvariant

\* The slot a save overwrites, in terms of the slots themselves.
LEMMA TargetIsOlder ==
    ASSUME NEW mem \in Memory
    PROVE  LET k == TargetSlot(Valid(mem), Gen(mem))
               o == Other(k)
           IN  /\ Readable(mem[k]) =>
                     Readable(mem[o]) /\ mem[k].hdr.gen <= mem[o].hdr.gen
               /\ Readable(mem[o]) => mem[o].hdr.gen < NextGeneration(Gen(mem))
<1>0. 0 \in Slot /\ 1 \in Slot
    BY DEF Slot
<1>1. /\ Valid(mem)[0] <=> Readable(mem[0])
      /\ Valid(mem)[1] <=> Readable(mem[1])
    BY <1>0, Zenon DEF Valid
<1>2. /\ Readable(mem[0]) => Gen(mem)[0] = mem[0].hdr.gen
      /\ Readable(mem[1]) => Gen(mem)[1] = mem[1].hdr.gen
      /\ Gen(mem)[0] \in Nat /\ Gen(mem)[1] \in Nat
    BY DEF Gen, Slot, Memory, Header
<1> QED BY <1>1, <1>2 DEF TargetSlot, Other, NextGeneration

\* inspectSlot and the choice of the target: what the save may lose is spare.
LEMMA StoreInspect ==
    ASSUME Inductive, booted, NEW t \in Tasks, Inspect(t), Synced,
           HeadersNameConfigs'
    PROVE  StoreInvariant'
<1> DEFINE k == TargetSlot(Valid(ram), Gen(ram))
           o == Other(k)
<1>1. Valid(ram) \in [Slot -> BOOLEAN] /\ Gen(ram) \in [Slot -> Nat]
    BY DEF Inductive, TypeInvariant, TypeOK, Valid, Readable, Gen, Header
<1>2. k \in Slot /\ o \in Slot /\ o # k /\ Slot = {k, o} /\ Other(o) = k
    BY <1>1, SlotChoice DEF Slot, Other
<1>3. /\ Readable(ram[k]) =>
            Readable(ram[o]) /\ ram[k].hdr.gen <= ram[o].hdr.gen
      /\ Readable(ram[o]) => ram[o].hdr.gen < NextGeneration(Gen(ram))
    BY <1>2, TargetIsOlder DEF Inductive, TypeInvariant, TypeOK, Memory
<1>4. NoTie(flash) /\ \A s \in Slot : /\ flash[s].hdr.gen \in Nat
                                      /\ ram[s].hdr.gen \in Nat
    BY DEF Inductive, TypeInvariant, TypeOK, Header, StoreInvariant
<1> HIDE DEF k, o
<1>5. Readable(flash[k]) /\ Readable(flash[o])
        => flash[k].hdr.gen # flash[o].hdr.gen
    BY <1>2, <1>4 DEF NoTie, Slot
<1>6. Readable(flash[k]) =>
         Readable(flash[o]) /\ flash[k].hdr.gen < flash[o].hdr.gen
  <2>1. ram[k] = flash[k] \/ (Spare(k) /\ ~Readable(ram[k]))
    BY <1>2 DEF Synced
  <2>2. ram[o] = flash[o] \/ ~Readable(ram[o])
    BY <1>2 DEF Synced
  <2>3. CASE Readable(ram[k])
    BY <2>1, <2>2, <2>3, <1>2, <1>3, <1>4, <1>5
  <2>4. CASE ~Readable(ram[k])
    BY <2>1, <2>4 DEF Spare, o
  <2> QED BY <2>3, <2>4
<1>7. ram[o] = flash[o] \/ (~Readable(ram[o]) /\ ~Readable(flash[o]))
    BY <1>2, <1>4, <1>6 DEF Synced, Spare
<1>8. /\ ram' = [ram EXCEPT ![k] = Invalidated(ram[k])]
      /\ frame'[t].target = k /\ frame'[t].gen = NextGeneration(Gen(ram))
      /\ flash' = flash /\ booted' = booted
      /\ Goto(t, "password") /\ pc[t] = "inspect"
  <2>1. frame[t] \in Frame
    BY DEF Inductive, TypeInvariant, TypeOK
  <2> QED BY <2>1 DEF Inspect, k, Inductive, TypeInvariant, TypeOK, Frame
<1>9. /\ ram'[o] = ram[o] /\ ram'[k].hdr.mark # "valid" /\ pc'[t] = "password"
  <2>1. Invalidated(ram[k]).hdr.mark # "valid"
    BY <1>2, Shapes DEF Inductive, TypeInvariant, TypeOK, Invalidated,
       BlankSlot, Header
  <2> QED BY <1>2, <1>8, <2>1
          DEF Inductive, TypeInvariant, TypeOK, Goto
<1>10. Filling(t)'
    BY <1>2, <1>3, <1>6, <1>7, <1>8, <1>9 DEF Filling, Spare, o
<1>11. Phase(t)'
    BY <1>8, <1>9, <1>10 DEF Phase
<1> QED BY <1>4, <1>8, <1>11, OneStep DEF Inductive, TypeInvariant, Rest

\* While task t works on its target slot, the phase of every step.
LEMMA StoreStep ==
    ASSUME Inductive, Sequential, booted, booted', NEW t \in Tasks, Step(t),
           TypeInvariant'
    PROVE  StoreInvariant'
<1> DEFINE k == frame[t].target
           o == Other(k)
<1>1. /\ TypeOK /\ StoreInvariant /\ HeadersNameConfigs' /\ NoTie(flash)
      /\ frame \in [Tasks -> Frame] /\ frame[t] \in Frame
      /\ ram \in Memory /\ flash \in Memory
      /\ pc \in [Tasks -> SavePCs \cup ErasePCs \cup {"idle"}]
      /\ k \in Slot /\ o \in Slot /\ o # k /\ Slot = {k, o} /\ Other(o) = k
      /\ ram[k] \in [hdr: Header, body: Body]
      /\ ram[o] \in [hdr: Header, body: Body]
  <2>1. frame[t] \in Frame
    BY DEF Inductive, TypeInvariant, TypeOK
  <2>2. k \in Slot /\ o \in Slot /\ o # k /\ Slot = {k, o} /\ Other(o) = k
    BY <2>1 DEF Frame, Slot, Other
  <2> QED BY <2>1, <2>2
          DEF Inductive, TypeInvariant, TypeOK, StoreInvariant, Memory
<1>2. Phase(t)
    BY DEF Inductive, StoreInvariant
<1>3. pc[t] \in Rest => Synced
  <2>1. pc[t] # "idle"
    BY DEF Step, Inspect, WritePassword, WriteProfiles, WriteParams, Overflow,
       WriteHeader, Commit, Verify, FinishSave, FinishClear, EraseBuffer,
       EraseCommit
  <2>2. \A u \in Tasks : u = t \/ pc[u] = "idle"
    BY <2>1 DEF Inductive, StoreInvariant, OneAtATime
  <2> QED BY <2>2 DEF Inductive, StoreInvariant, Rest
<1> HIDE DEF k, o
<1>4. CASE Inspect(t)
    BY <1>3, <1>4, StoreInspect DEF Inspect, Rest, TypeInvariant
<1>5. CASE WritePassword(t)
  <2>1. /\ Goto(t, "profiles") /\ flash' = flash
        /\ frame'[t].target = k /\ frame'[t].gen = frame[t].gen
        /\ ram'[o] = ram[o] /\ ram'[k].hdr = ram[k].hdr
        /\ ram'[k].body.pw = frame'[t].crc.pw
    BY <1>1, <1>5 DEF WritePassword, Frame, Body, Memory, k
  <2>2. Filling(t)' /\ Phase(t)'
    BY <1>1, <1>2, <1>5, <2>1 DEF WritePassword, Phase, Filling, Spare, Goto, o
  <2> QED BY <1>1, <1>5, <2>1, <2>2, OneStep DEF WritePassword, Rest
<1>6. CASE WriteProfiles(t)
  <2>1. /\ Goto(t, "params") /\ flash' = flash
        /\ frame'[t].target = k /\ frame'[t].gen = frame[t].gen
        /\ ram'[o] = ram[o] /\ ram'[k].hdr = ram[k].hdr
        /\ ram'[k].body.pw = ram[k].body.pw /\ frame'[t].crc.pw = frame[t].crc.pw
        /\ ram'[k].body.prof = frame'[t].crc.prof
    BY <1>1, <1>6 DEF WriteProfiles, Frame, Body, Memory, k
  <2>2. Filling(t)' /\ Phase(t)'
    BY <1>1, <1>2, <1>6, <2>1 DEF WriteProfiles, Phase, Filling, Spare, Goto, o
  <2> QED BY <1>1, <1>6, <2>1, <2>2, OneStep DEF WriteProfiles, Rest
<1>7. CASE WriteParams(t)
  <2>1. /\ Goto(t, "header") /\ flash' = flash
        /\ frame'[t].target = k /\ frame'[t].gen = frame[t].gen
        /\ ram'[o] = ram[o] /\ ram'[k].hdr = ram[k].hdr
        /\ ram'[k].body.pw = ram[k].body.pw /\ frame'[t].crc.pw = frame[t].crc.pw
        /\ ram'[k].body.prof = ram[k].body.prof
        /\ frame'[t].crc.prof = frame[t].crc.prof
        /\ ram'[k].body.par = frame'[t].crc.par
    BY <1>1, <1>7 DEF WriteParams, Frame, Body, Memory, k
  <2>2. Filling(t)' /\ Phase(t)'
    BY <1>1, <1>2, <1>7, <2>1 DEF WriteParams, Phase, Filling, Spare, Goto, o
  <2> QED BY <1>1, <1>7, <2>1, <2>2, OneStep DEF WriteParams, Rest
<1>8. CASE Overflow(t)
  <2>1. /\ Goto(t, "failed") /\ flash' = flash
        /\ ram'[o] = ram[o] /\ ram'[k].hdr = ram[k].hdr
    BY <1>1, <1>8 DEF Overflow, k, Memory
  <2>2. Filling(t) /\ ram[k].hdr.mark # "valid"
    BY <1>2, <1>8 DEF Overflow, Phase, k
  <2>3. /\ Spare(k) /\ ~Readable(ram'[k])
        /\ ram[o] = flash[o] \/ (~Readable(ram[o]) /\ ~Readable(flash[o]))
    BY <2>1, <2>2 DEF Filling, Readable, k, o
  <2>4. Synced'
    BY <1>1, <2>1, <2>3 DEF Synced, Spare
  <2>5. pc'[t] = "failed"
    BY <1>1, <2>1 DEF Goto
  <2>6. Phase(t)'
    BY <2>5 DEF Phase
  <2> QED BY <1>1, <1>8, <2>1, <2>4, <2>6, OneStep DEF Overflow, Rest
<1>9. CASE WriteHeader(t)
  <2>1. /\ Goto(t, "commit") /\ flash' = flash /\ frame' = frame
        /\ ram'[o] = ram[o] /\ ram'[k].body = ram[k].body
        /\ ram'[k].hdr = [mark |-> "valid", gen |-> frame[t].gen,
                          crc |-> frame[t].crc]
    BY <1>1, <1>9 DEF WriteHeader, k, Memory
  <2>2. frame[t].crc = ram[k].body
    BY <1>1, <1>2, <1>9 DEF WriteHeader, Phase, Frame, Body, k
  <2>3. Filling(t)' /\ Written(t)'
    BY <1>1, <1>2, <1>9, <2>1, <2>2
       DEF WriteHeader, Phase, Filling, Written, Readable, Spare, k, o
  <2>4. Phase(t)'
    BY <1>1, <2>1, <2>3 DEF Phase, Goto
  <2> QED BY <1>1, <1>9, <2>1, <2>4, OneStep DEF WriteHeader, Rest
<1>10. CASE Commit(t)
  <2>1. Goto(t, "verify") /\ flash' = ram /\ ram' = ram /\ frame' = frame
    BY <1>10 DEF Commit, FlushBuffer, Sequential
  <2>2. Filling(t) /\ Written(t)
    BY <1>2, <1>10 DEF Commit, Phase
  <2>3. Stored(t)' /\ Phase(t)'
    BY <1>1, <2>1, <2>2 DEF Filling, Written, Stored, Phase, Goto
  <2>4. NoTie(flash')
    BY <1>1, <2>1, <2>2
       DEF Filling, Written, NoTie, Slot, Memory, Header, Frame, k, o
  <2> QED BY <1>1, <1>10, <2>1, <2>3, <2>4, OneStep DEF Commit, Rest
<1>11. CASE Verify(t)
  <2>1. Stored(t) /\ Written(t) /\ flash = ram
    BY <1>2, <1>11 DEF Verify, Phase, Stored
  <2>2. /\ Goto(t, "saved")
        /\ ram' = ram /\ flash' = flash /\ frame' = frame
    BY <1>11, <2>1 DEF Verify, Written
  <2>3. Synced' /\ Phase(t)'
    BY <1>1, <2>1, <2>2 DEF Synced, Phase, Stored, Written, Goto
  <2> QED BY <1>1, <1>11, <2>2, <2>3, OneStep DEF Verify, Rest
<1>12. CASE FinishSave(t)
  <2>1. Goto(t, "idle") /\ ram' = ram /\ flash' = flash /\ Synced
    BY <1>3, <1>12 DEF FinishSave, Rest
  <2>2. Synced' /\ Phase(t)'
    BY <1>1, <2>1 DEF Synced, Spare, Phase, Goto
  <2> QED BY <1>1, <1>12, <2>1, <2>2, OneStep DEF FinishSave, Rest
<1>13. CASE FinishClear(t)
  <2>1. Goto(t, "erase") /\ ram' = ram /\ flash' = flash /\ Synced
    BY <1>3, <1>13 DEF FinishClear, Rest
  <2>2. Synced' /\ Phase(t)'
    BY <1>1, <2>1 DEF Synced, Spare, Phase, Goto
  <2> QED BY <1>1, <1>13, <2>1, <2>2, OneStep DEF FinishClear, Rest
<1>14. CASE EraseBuffer(t)
  <2>1. Goto(t, "eraseCommit") /\ flash' = flash /\ \A s \in Slot : ~Readable(ram'[s])
    BY <1>14, Shapes DEF EraseBuffer, Readable
  <2>2. Phase(t)'
    BY <1>1, <2>1 DEF Phase, Goto, Readable
  <2> QED BY <1>1, <1>14, <2>1, <2>2, OneStep DEF EraseBuffer, Rest
<1>15. CASE EraseCommit(t)
  <2>1. flash' = ram /\ ram' = ram /\ \A s \in Slot : ~Readable(ram[s])
    BY <1>2, <1>15 DEF EraseCommit, FlushBuffer, Sequential, Phase
  <2>2. PICK where \in {"inspect", "idle"} : Goto(t, where)
    BY <1>15 DEF EraseCommit
  <2>3. Synced' /\ Phase(t)' /\ NoTie(flash')
    BY <1>1, <2>1, <2>2 DEF Synced, Phase, Goto, NoTie, Slot
  <2> QED BY <1>1, <1>15, <2>2, <2>3, OneStep DEF EraseCommit, Rest
<1> QED BY <1>4, <1>5, <1>6, <1>7, <1>8, <1>9, <1>10, <1>11, <1>12, <1>13,
       <1>14, <1>15 DEF Step

\* An operation starts from a store at rest.
LEMMA StoreStart ==
    ASSUME Inductive, Sequential, NEW t \in Tasks, Start(t), TypeInvariant'
    PROVE  StoreInvariant'
<1>1. /\ booted /\ booted' /\ ram' = ram /\ flash' = flash
      /\ \A u \in Tasks : pc[u] = "idle"
      /\ \E where \in {"inspect", "erase"} : pc' = [pc EXCEPT ![t] = where]
  <2>1. ASSUME NEW op, NEW arg, NEW kept, NEW where \in {"inspect", "erase"},
               CanStart(t, op), Enter(t, op, arg, kept, where)
        PROVE  /\ booted /\ booted' /\ ram' = ram /\ flash' = flash
               /\ \A u \in Tasks : pc[u] = "idle"
               /\ pc' = [pc EXCEPT ![t] = where]
    BY <2>1 DEF CanStart, Enter, Sequential
  <2> QED BY <2>1 DEF Start, SaveParams, SaveProfiles, SetPassword,
             ParameterReset, FactoryReset
<1>2. \A u \in Tasks : pc'[u] \in {"idle", "inspect", "erase"}
                       /\ (u # t => pc'[u] = "idle")
  <2>1. PICK where \in {"inspect", "erase"} : pc' = [pc EXCEPT ![t] = where]
    BY <1>1
  <2>2. pc \in [Tasks -> SavePCs \cup ErasePCs \cup {"idle"}]
    BY DEF Inductive, TypeInvariant, TypeOK
  <2> QED BY <1>1, <2>1, <2>2
<1>3. Synced /\ NoTie(flash)
    BY <1>1 DEF Inductive, StoreInvariant, Rest
<1>4. Synced' /\ NoTie(flash)'
    BY <1>1, <1>3 DEF Synced, Spare, NoTie
<1> QED BY <1>2, <1>4
        DEF StoreInvariant, TypeInvariant, OneAtATime, Phase, Rest

\* A load finds a configuration exactly when a slot is readable.
LEMMA Configured ==
    ASSUME NEW mem \in Memory
    PROVE  Current(mem) # NoConfig <=> \E s \in Slot : Readable(mem[s])
<1>0. 0 \in Slot /\ 1 \in Slot
    BY DEF Slot
<1>1. /\ Valid(mem)[0] <=> Readable(mem[0])
      /\ Valid(mem)[1] <=> Readable(mem[1])
      /\ AllDecode[0] /\ AllDecode[1]
    BY <1>0, Zenon DEF Valid, AllDecode
<1>2. mem[0].body # NoConfig /\ mem[1].body # NoConfig
    BY StorageAssumption DEF Memory, Slot
<1> DEFINE k == PreferredSlot(Valid(mem), Gen(mem))
<1>3. /\ k = 0 \/ k = 1
      /\ Readable(mem[0]) \/ Readable(mem[1]) => Valid(mem)[k]
    BY <1>1 DEF PreferredSlot
<1>4. /\ AllDecode[k]
      /\ mem[k].body # NoConfig
      /\ Other(k) = 0 \/ Other(k) = 1
    BY <1>1, <1>2, <1>3 DEF Other
<1>5. CASE Readable(mem[0]) \/ Readable(mem[1])
  <2>1. Current(mem) = mem[k].body
    BY <1>3, <1>4, <1>5, Zenon DEF Current, ReadCurrent
  <2> QED BY <1>0, <1>4, <1>5, <2>1
<1>6. CASE ~Readable(mem[0]) /\ ~Readable(mem[1])
  <2>1. ~Valid(mem)[k] /\ ~Valid(mem)[Other(k)]
    BY <1>1, <1>3, <1>4, <1>6
  <2>2. Current(mem) = NoConfig
    BY <2>1, Zenon DEF Current, ReadCurrent
  <2> QED BY <1>6, <2>2 DEF Slot
<1> QED BY <1>5, <1>6

\* Of two slots of different ages a load takes the newer.
LEMMA NewestIsCurrent ==
    ASSUME NEW mem \in Memory, NEW k \in Slot, Readable(mem[k]),
           Readable(mem[Other(k)])
              => mem[Other(k)].hdr.gen < mem[k].hdr.gen
    PROVE  Current(mem) = mem[k].body
<1>0. 0 \in Slot /\ 1 \in Slot
    BY DEF Slot
<1>1. /\ Valid(mem)[0] <=> Readable(mem[0])
      /\ Valid(mem)[1] <=> Readable(mem[1])
      /\ AllDecode[0] /\ AllDecode[1]
    BY <1>0, Zenon DEF Valid, AllDecode
<1>2. /\ Readable(mem[0]) => Gen(mem)[0] = mem[0].hdr.gen
      /\ Readable(mem[1]) => Gen(mem)[1] = mem[1].hdr.gen
      /\ mem[0].hdr.gen \in Nat /\ mem[1].hdr.gen \in Nat
    BY DEF Gen, Slot, Memory, Header
<1>3. PreferredSlot(Valid(mem), Gen(mem)) = k
  <2>1. CASE k = 0
    BY <1>1, <1>2, <2>1 DEF PreferredSlot, Other
  <2>2. CASE k = 1
    BY <1>1, <1>2, <2>2 DEF PreferredSlot, Other
  <2> QED BY <2>1, <2>2 DEF Slot
<1>4. Valid(mem)[k] /\ AllDecode[k]
    BY <1>1 DEF Slot
<1> QED BY <1>3, <1>4, Zenon DEF Current, ReadCurrent

\* What a commit has put in flash is what the next boot loads.
LEMMA StoredIsCurrent ==
    ASSUME Inductive, NEW t \in Tasks, Stored(t)
    PROVE  Current(flash) = frame[t].crc
<1> DEFINE k == frame[t].target
           o == Other(k)
<1>1. flash \in Memory /\ k \in Slot /\ o \in Slot /\ o # k
  <2>1. frame[t] \in Frame
    BY DEF Inductive, TypeInvariant, TypeOK
  <2> QED BY <2>1 DEF Inductive, TypeInvariant, TypeOK, Memory, Frame, Slot,
     Other
<1>2. /\ Readable(flash[k]) /\ flash[k].body = frame[t].crc
      /\ Readable(flash[o]) => flash[o].hdr.gen < flash[k].hdr.gen
    BY DEF Stored, Written, Readable
<1> HIDE DEF k, o
<1>3. Current(flash) = flash[k].body
    BY <1>1, <1>2, NewestIsCurrent DEF k, o
<1> QED BY <1>2, <1>3

\* A commit of a save cut by a power loss: what may be torn is spare.
LEMMA TornCommit ==
    ASSUME Inductive, booted, NEW t \in Tasks, pc[t] = "commit",
           NEW mem, \A s \in Slot : mem[s] \in Torn(flash, ram, s)
    PROVE  /\ NoTie(mem)
           /\ (\E s \in Slot : Readable(flash[s]))
                 => \E s \in Slot : Readable(mem[s])
<1> DEFINE k == frame[t].target
           o == Other(k)
<1>1. /\ k \in Slot /\ o \in Slot /\ o # k /\ Slot = {k, o}
      /\ frame[t].gen \in Nat
  <2>1. frame[t] \in Frame
    BY DEF Inductive, TypeInvariant, TypeOK
  <2> QED BY <2>1 DEF Frame, Slot, Other
<1>2. Filling(t) /\ Written(t) /\ NoTie(flash)
    BY DEF Inductive, StoreInvariant, Phase
<1>3. ~Readable(BlankSlot("bad"))
    BY Shapes DEF Readable
<1>4. \A s \in Slot : ram[s].hdr.gen \in Nat /\ flash[s].hdr.gen \in Nat
    BY DEF Inductive, TypeInvariant, TypeOK, Header
<1> HIDE DEF k, o
<1>5. mem[o] = flash[o] \/ (~Readable(mem[o]) /\ ~Readable(flash[o]))
    BY <1>1, <1>2, <1>3 DEF Filling, Torn, k, o
<1>6. mem[k] = flash[k] \/ mem[k] = ram[k] \/ ~Readable(mem[k])
    BY <1>1, <1>3 DEF Torn
<1>7. Readable(mem[k]) /\ Readable(mem[o])
         => mem[k].hdr.gen # mem[o].hdr.gen
  <2>1. CASE mem[k] = flash[k]
    BY <1>1, <1>2, <1>5, <2>1 DEF NoTie, Slot
  <2>2. CASE mem[k] = ram[k]
    BY <1>1, <1>2, <1>4, <1>5, <2>2 DEF Filling, Written, k, o
  <2> QED BY <1>6, <2>1, <2>2
<1>8. NoTie(mem)
    BY <1>1, <1>7 DEF NoTie, Slot
<1>9. (\E s \in Slot : Readable(flash[s])) => Readable(mem[o])
    BY <1>1, <1>2, <1>5 DEF Filling, Spare, k, o
<1> QED BY <1>1, <1>8, <1>9

\* A power loss keeps what is needed of flash: while nothing is being
\* committed it does not change, a torn commit is TornCommit.
LEMMA StorePowerLoss ==
    ASSUME Inductive, PowerLoss, TypeInvariant'
    PROVE  /\ StoreInvariant'
           /\ (\A t \in Tasks : pc[t] # "eraseCommit") /\ Current(flash) # NoConfig
                 => Current(flash') # NoConfig
<1> USE DEF PowerLoss
<1>1. ASSUME NoTie(flash') PROVE StoreInvariant'
    BY <1>1 DEF Inductive, StoreInvariant, OneAtATime, TypeInvariant, NoTie
<1>2. CASE \A t \in Tasks : pc[t] \notin {"commit", "eraseCommit"}
    BY <1>1, <1>2 DEF Inductive, StoreInvariant
<1>3. ASSUME NEW t \in Tasks, pc[t] \in {"commit", "eraseCommit"}
      PROVE  \A s \in Slot : flash'[s] \in Torn(flash, ram, s)
    BY <1>3 DEF Slot
<1>4. ASSUME NEW t \in Tasks, pc[t] = "commit"
      PROVE  /\ StoreInvariant'
             /\ Current(flash) # NoConfig => Current(flash') # NoConfig
  <2>1. flash \in Memory /\ flash' \in Memory
    BY DEF Inductive, TypeInvariant, TypeOK, Memory
  <2> QED BY <1>1, <1>3, <1>4, <2>1, TornCommit, Configured
<1>5. ASSUME NEW t \in Tasks, pc[t] = "eraseCommit"
      PROVE  StoreInvariant'
  <2>1. \A s \in Slot : ~Readable(ram[s]) /\ ~Readable(BlankSlot("bad"))
    BY <1>5, Shapes DEF Inductive, StoreInvariant, Phase, Readable
  <2>2. \A s \in Slot : flash'[s] = flash[s] \/ ~Readable(flash'[s])
    BY <1>3, <1>5, <2>1 DEF Torn
  <2> QED BY <1>1, <2>2 DEF Inductive, StoreInvariant, NoTie, Slot
<1> QED BY <1>2, <1>4, <1>5

\* Every step keeps the store invariant.
LEMMA StoreNext ==
    ASSUME Sequential, Inductive, [Next]_vars
    PROVE  Inductive'
<1>1. TypeInvariant'
    BY TypeNext DEF Inductive
<1>2. CASE UNCHANGED vars
  <2>1. StoreInvariant'
    BY <1>2 DEF Inductive, StoreInvariant, vars, HeadersNameConfigs, Complete,
       PartlyWritten, OneAtATime, NoTie, Synced, Spare, Phase, Filling, Written,
       Stored
  <2> QED BY <1>1, <2>1 DEF Inductive
<1>3. ASSUME NEW t \in Tasks, booted, Step(t)
      PROVE  Inductive'
  <2>1. booted'
    BY <1>3 DEF Step, Inspect, WritePassword, WriteProfiles, WriteParams,
       Overflow, WriteHeader, Commit, Verify, FinishSave, FinishClear,
       EraseBuffer, EraseCommit
  <2> QED BY <1>1, <1>3, <2>1, StoreStep DEF Inductive
<1>4. ASSUME NEW t \in Tasks, NEW decodes, Reload(t, decodes)
      PROVE  Inductive'
  <2>1. StoreInvariant'
    BY <1>1, <1>4 DEF Reload, Inductive, TypeInvariant, StoreInvariant,
       OneAtATime, NoTie, Synced, Spare, Phase, Filling, Written, Stored
  <2> QED BY <1>1, <2>1 DEF Inductive
<1>5. ASSUME NEW decodes, Boot(decodes)
      PROVE  Inductive'
  <2>1. /\ \A t \in Tasks : pc'[t] = "idle"
        /\ ram' = flash /\ flash' = flash
    BY <1>5 DEF Boot
  <2>2. StoreInvariant'
    BY <1>1, <2>1 DEF Inductive, TypeInvariant, StoreInvariant, OneAtATime,
       NoTie, Synced, Phase
  <2> QED BY <1>1, <2>2 DEF Inductive
<1> QED BY <1>1, <1>2, <1>3, <1>4, <1>5, StoreStart, StorePowerLoss
        DEF Next, Inductive

\* Two slots are enough for one task at a time: wherever power is cut, what a
\* save may lose in flash is not what the next boot loads.
THEOREM StoreCorrect ==
    ASSUME Sequential
    PROVE  Spec => []StoreInvariant
<1>1. Init => Inductive
    BY TypeInit, StoreInit DEF Inductive
<1>2. Inductive /\ [Next]_vars => Inductive'
    BY StoreNext
<1>3. Inductive => StoreInvariant
    BY DEF Inductive
<1> QED BY <1>1, <1>2, <1>3, PTL DEF Spec

\* A save that reports success has stored what it wrote: the next boot loads it.
THEOREM SavesAreStored ==
    ASSUME Sequential
    PROVE  Spec => []SavedIsStored
<1>1. Init => Inductive
    BY TypeInit, StoreInit DEF Inductive
<1>2. Inductive /\ [Next]_vars => Inductive'
    BY StoreNext
<1>3. Inductive => SavedIsStored
    BY StoredIsCurrent DEF Inductive, StoreInvariant, Phase, SavedIsStored
<1> QED BY <1>1, <1>2, <1>3, PTL DEF Spec

\* A configured device never boots without a configuration, wherever the power
\* is cut, unless a reset was erasing it.
THEOREM AlwaysConfigured ==
    ASSUME Sequential
    PROVE  Spec => NeverUnconfigured
<1> DEFINE Keeps == Current(flash) # NoConfig
                    /\ (\A t \in Tasks : pc[t] # "eraseCommit")
                       => Current(flash') # NoConfig
<1>1. Init => Inductive
    BY TypeInit, StoreInit DEF Inductive
<1>2. Inductive /\ [Next]_vars => Inductive'
    BY StoreNext
<1>3. Inductive /\ [Next]_vars => [Keeps]_vars
  <2> SUFFICES ASSUME Inductive, Next PROVE Keeps
    OBVIOUS
  <2>1. Inductive'
    BY <1>2
  <2>2. CASE PowerLoss
    BY <2>1, <2>2, StorePowerLoss DEF Inductive
  <2>3. ASSUME NEW t \in Tasks, booted, Commit(t)
        PROVE  Current(flash') # NoConfig
    <3>1. flash' = ram /\ ram \in Memory /\ Written(t) /\ frame[t] \in Frame
      BY <2>3 DEF Commit, FlushBuffer, Sequential, Inductive, TypeInvariant,
         TypeOK, StoreInvariant, Phase, Memory
    <3> QED BY <3>1, Configured DEF Written, Frame
  <2>4. ASSUME NEW t \in Tasks, Step(t), ~Commit(t), ~EraseCommit(t)
        PROVE  flash' = flash
    BY <2>4 DEF Step, Inspect, WritePassword, WriteProfiles, WriteParams,
       Overflow, WriteHeader, Verify, FinishSave, FinishClear, EraseBuffer
  <2>5. ASSUME NEW t \in Tasks, Start(t)
        PROVE  flash' = flash
    BY <2>5 DEF Start, SaveParams, SaveProfiles, SetPassword, ParameterReset,
       FactoryReset, Enter
  <2>6. ASSUME NEW t \in Tasks, EraseCommit(t)
        PROVE  pc[t] = "eraseCommit"
    BY <2>6 DEF EraseCommit
  <2>7. ASSUME NEW t, NEW decodes, Reload(t, decodes) \/ Boot(decodes)
        PROVE  flash' = flash
    BY <2>7 DEF Reload, Boot
  <2> QED BY <2>2, <2>3, <2>4, <2>5, <2>6, <2>7 DEF Next
<1> QED BY <1>1, <1>2, <1>3, PTL DEF Spec, NeverUnconfigured

-----------------------------------------------------------------------------
(* The runtime and the store.  What RuntimeIsDurable says of a quiet device *)
(* follows, through the calls, from what the locals of a call are.          *)

\* The places of a save before its record is in flash.
Unstored == {"inspect", "password", "profiles", "params", "header", "commit",
             "failed"}

\* What is written so far is the runtime configuration with the password to be
\* stored, which for a parameter reset is the one in force; a save fails for
\* values that do not fit, and those of a parameter reset fit.
FrameFits(t) ==
    pc[t] # "idle" =>
        /\ frame[t].op \in OpNames
        /\ pc[t] \in ErasePCs => frame[t].op \in {"paramReset", "factory"}
        /\ frame[t].op \in {"params", "profiles", "factory"}
              => frame[t].arg = NoArg
        /\ frame[t].op = "paramReset" =>
              /\ frame[t].arg = rt.pw
              /\ pc[t] \notin ErasePCs => rt.par = DefaultParams
        /\ pc[t] \in {"profiles", "params", "header", "commit", "verify", "saved"}
              => frame[t].crc.pw = PasswordOf(t)
        /\ pc[t] \in {"params", "header", "commit", "verify", "saved"}
              => frame[t].crc.prof = rt.prof
        /\ pc[t] \in {"header", "commit", "verify", "saved"}
              => frame[t].crc.par = rt.par
        /\ pc[t] = "failed" => rt.par \in Oversize

\* Until the record is in flash, the next boot loads what the call found, of
\* the profiles what a failed save goes back to.
Agrees(t) ==
    /\ pc[t] \in Unstored /\ ~degraded
    /\ frame[t].op \in {"params", "profiles", "password"}
    => LET next == Loaded(flash)
       IN  /\ rt.pw = next.pw
           /\ next.prof = IF frame[t].op = "profiles" THEN frame[t].kept
                          ELSE rt.prof
           /\ frame[t].op # "params" /\ rt.par \notin Oversize
                 => rt.par = next.par

Agreement ==
    /\ booted => \A t \in Tasks : FrameFits(t) /\ Agrees(t)
    /\ RuntimeIsDurable

\* Outside a save the buffer and flash hold the same configuration.
LEMMA SyncedCurrent ==
    ASSUME Synced, ram \in Memory, flash \in Memory
    PROVE  Current(ram) = Current(flash)
<1>1. \A s \in Slot : /\ Other(s) \in Slot /\ Other(s) # s
                      /\ Slot = {s, Other(s)} /\ Other(Other(s)) = s
    BY DEF Slot, Other
<1>2. \A s \in Slot : flash[s].hdr.gen \in Nat
    BY DEF Memory, Header
<1>3. CASE \A s \in Slot : ~Readable(ram[s])
  <2>1. ASSUME NEW s \in Slot, Readable(flash[s]) PROVE FALSE
    <3> DEFINE o == Other(s)
    <3>1. o \in Slot /\ Other(o) = s
      BY <1>1
    <3>2. Spare(s)
      BY <1>3, <2>1 DEF Synced
    <3>3. Readable(flash[o]) /\ flash[s].hdr.gen < flash[o].hdr.gen
      BY <2>1, <3>2 DEF Spare
    <3>4. Spare(o)
      BY <1>3, <3>1, <3>3 DEF Synced
    <3>5. flash[o].hdr.gen < flash[s].hdr.gen
      BY <3>1, <3>3, <3>4 DEF Spare
    <3> QED BY <1>2, <3>1, <3>3, <3>5
  <2> QED BY <1>3, <2>1, Configured
<1>4. ASSUME NEW k \in Slot, Readable(ram[k])
      PROVE  Current(ram) = Current(flash)
  <2>1. ram[k] = flash[k]
    BY <1>4 DEF Synced
  <2>2. CASE ram[Other(k)] = flash[Other(k)]
    <3>1. ram = flash
      BY <1>1, <2>1, <2>2 DEF Memory
    <3> QED BY <3>1
  <2>3. CASE Spare(Other(k)) /\ ~Readable(ram[Other(k)])
    <3>1. Readable(flash[Other(k)])
             => flash[Other(k)].hdr.gen < flash[k].hdr.gen
      BY <1>1, <2>3 DEF Spare
    <3> QED BY <1>4, <2>1, <2>3, <3>1, NewestIsCurrent
  <2> QED BY <1>1, <2>2, <2>3 DEF Synced
<1> QED BY <1>3, <1>4

\* A task that steps is the only one with locals.
LEMMA OthersIdle ==
    ASSUME Inductive, booted, NEW t \in Tasks, pc[t] # "idle",
           NEW where, Goto(t, where)
    PROVE  /\ pc'[t] = where
           /\ \A u \in Tasks : u # t => pc'[u] = "idle"
    BY DEF Inductive, TypeInvariant, TypeOK, StoreInvariant, OneAtATime, Goto

\* A step inside a call, in terms of the place it leads to.
LEMMA AgreementStep ==
    ASSUME Inductive, booted, NEW t \in Tasks, pc[t] # "idle",
           NEW where, where # "idle", Goto(t, where),
           FrameFits(t)', Agrees(t)'
    PROVE  Agreement'
<1>1. /\ pc'[t] = where
      /\ \A u \in Tasks : u # t => pc'[u] = "idle"
    BY OthersIdle
<1>2. \A u \in Tasks : u # t => FrameFits(u)' /\ Agrees(u)'
    BY <1>1 DEF FrameFits, Agrees, Unstored
<1>3. ~Quiet'
    BY <1>1 DEF Quiet
<1> QED BY <1>2, <1>3 DEF Agreement, RuntimeIsDurable

\* Every step of a call keeps the agreement.
LEMMA AgreementOfStep ==
    ASSUME Inductive, Agreement, Sequential, booted, NEW t \in Tasks, Step(t)
    PROVE  Agreement'
<1>1. /\ frame \in [Tasks -> Frame] /\ frame[t] \in Frame /\ rt \in Config
      /\ ram \in Memory /\ flash \in Memory
      /\ pc \in [Tasks -> SavePCs \cup ErasePCs \cup {"idle"}]
      /\ FrameFits(t) /\ Agrees(t) /\ Phase(t) /\ PartlyWritten(t)
  <2>1. frame \in [Tasks -> Frame]
    BY DEF Inductive, TypeInvariant, TypeOK
  <2> QED BY <2>1 DEF Inductive, TypeInvariant, TypeOK, StoreInvariant, Memory,
             HeadersNameConfigs, Agreement
<1>2. pc[t] # "idle"
    BY DEF Step, Inspect, WritePassword, WriteProfiles, WriteParams, Overflow,
       WriteHeader, Commit, Verify, FinishSave, FinishClear, EraseBuffer,
       EraseCommit
<1>3. NoArg \notin Passwords /\ DefaultParams \notin Oversize
    BY StorageAssumption
\* The steps that write the payload.
<1>4. ASSUME NEW where \in {"password", "profiles", "params", "header"},
             pc[t] \in Unstored \ {"failed"}, Goto(t, where), flash' = flash,
             UNCHANGED <<rt, degraded>>,
             frame'[t].op = frame[t].op, frame'[t].arg = frame[t].arg,
             frame'[t].kept = frame[t].kept,
             where \in {"profiles", "params", "header"}
                => frame'[t].crc.pw = PasswordOf(t),
             where \in {"params", "header"} => frame'[t].crc.prof = rt.prof,
             where = "header" => frame'[t].crc.par = rt.par
      PROVE  Agreement'
  <2>1. pc'[t] = where
    BY <1>1, <1>4 DEF Goto
  <2>2. PasswordOf(t)' = PasswordOf(t)
    BY <1>4 DEF PasswordOf
  <2>3. FrameFits(t)'
    BY <1>1, <1>2, <1>4, <2>1, <2>2 DEF FrameFits, Unstored, ErasePCs
  <2>4. Agrees(t)'
    BY <1>1, <1>4, <2>1 DEF Agrees, Unstored
  <2> QED BY <1>2, <1>4, <2>3, <2>4, AgreementStep
<1>5. CASE Inspect(t)
  <2>1. /\ frame'[t].op = frame[t].op /\ frame'[t].arg = frame[t].arg
        /\ frame'[t].kept = frame[t].kept
    BY <1>1, <1>5 DEF Inspect, Frame
  <2> QED BY <1>4, <1>5, <2>1 DEF Inspect, Unstored
<1>6. CASE WritePassword(t)
  <2>1. /\ frame'[t].op = frame[t].op /\ frame'[t].arg = frame[t].arg
        /\ frame'[t].kept = frame[t].kept /\ frame'[t].crc.pw = PasswordOf(t)
    BY <1>1, <1>6 DEF WritePassword, Frame, Body
  <2> QED BY <1>4, <1>6, <2>1 DEF WritePassword, Unstored
<1>7. CASE WriteProfiles(t)
  <2>1. /\ frame'[t].op = frame[t].op /\ frame'[t].arg = frame[t].arg
        /\ frame'[t].kept = frame[t].kept
        /\ frame'[t].crc.pw = frame[t].crc.pw /\ frame'[t].crc.prof = rt.prof
    BY <1>1, <1>7 DEF WriteProfiles, Frame, Body
  <2>2. frame[t].crc.pw = PasswordOf(t)
    BY <1>1, <1>7 DEF WriteProfiles, FrameFits
  <2> QED BY <1>4, <1>7, <2>1, <2>2 DEF WriteProfiles, Unstored
<1>8. CASE WriteParams(t)
  <2>1. /\ frame'[t].op = frame[t].op /\ frame'[t].arg = frame[t].arg
        /\ frame'[t].kept = frame[t].kept /\ frame'[t].crc.par = rt.par
        /\ frame'[t].crc.pw = frame[t].crc.pw
        /\ frame'[t].crc.prof = frame[t].crc.prof
    BY <1>1, <1>8 DEF WriteParams, Frame, Body
  <2>2. frame[t].crc.pw = PasswordOf(t) /\ frame[t].crc.prof = rt.prof
    BY <1>1, <1>8 DEF WriteParams, FrameFits
  <2> QED BY <1>4, <1>8, <2>1, <2>2 DEF WriteParams, Unstored
\* The other steps of a save.
<1>9. CASE Overflow(t)
  <2>1. /\ pc'[t] = "failed" /\ rt.par \in Oversize /\ Goto(t, "failed")
        /\ UNCHANGED <<flash, rt, degraded, frame>> /\ pc[t] = "params"
    BY <1>1, <1>9 DEF Overflow, Goto
  <2>2. FrameFits(t)' /\ Agrees(t)'
    BY <1>1, <2>1 DEF FrameFits, Agrees, Unstored, ErasePCs
  <2> QED BY <1>2, <2>1, <2>2, AgreementStep
<1>10. CASE WriteHeader(t)
  <2>1. /\ pc'[t] = "commit" /\ pc[t] = "header" /\ Goto(t, "commit")
        /\ UNCHANGED <<flash, rt, degraded, frame>>
        /\ PasswordOf(t)' = PasswordOf(t)
    BY <1>1, <1>10 DEF WriteHeader, Goto, PasswordOf
  <2>2. FrameFits(t)' /\ Agrees(t)'
    BY <1>1, <2>1 DEF FrameFits, Agrees, Unstored, ErasePCs
  <2> QED BY <1>2, <2>1, <2>2, AgreementStep
<1>11. CASE Commit(t)
  <2>1. /\ pc'[t] = "verify" /\ pc[t] = "commit" /\ Goto(t, "verify")
        /\ UNCHANGED <<rt, degraded, frame>>
        /\ PasswordOf(t)' = PasswordOf(t)
    BY <1>1, <1>11 DEF Commit, Goto, PasswordOf
  <2>2. FrameFits(t)' /\ Agrees(t)'
    BY <1>1, <2>1 DEF FrameFits, Agrees, Unstored, ErasePCs
  <2> QED BY <1>2, <2>1, <2>2, AgreementStep
<1>12. CASE Verify(t)
  <2>1. Written(t)
    BY <1>1, <1>12 DEF Verify, Phase, Stored
  <2>2. /\ pc'[t] = "saved" /\ pc[t] = "verify" /\ Goto(t, "saved")
        /\ UNCHANGED <<flash, rt, degraded, frame>>
        /\ PasswordOf(t)' = PasswordOf(t)
    BY <1>1, <1>12, <2>1 DEF Verify, Written, Goto, PasswordOf
  <2>3. FrameFits(t)' /\ Agrees(t)'
    BY <1>1, <2>2 DEF FrameFits, Agrees, Unstored, ErasePCs
  <2> QED BY <1>2, <2>2, <2>3, AgreementStep
\* The end of a save: here the runtime follows the store, or goes back to it.
<1>13. CASE FinishSave(t)
  <2>1. /\ UNCHANGED flash /\ degraded' = (degraded /\ pc[t] = "failed")
        /\ Goto(t, "idle") /\ pc[t] \in {"saved", "failed"}
        /\ frame[t].op # "factory"
    BY <1>13 DEF FinishSave
  <2>2. \A u \in Tasks : pc'[u] = "idle"
    BY <1>1, <1>2, <2>1, OthersIdle DEF Goto
  <2>3. CASE pc[t] = "saved"
    <3>1. Current(flash) = frame[t].crc /\ frame[t].crc # NoConfig
      BY <1>1, <2>3, StoredIsCurrent, StorageAssumption DEF Phase, Frame
    <3>2. Loaded(flash) = frame[t].crc
      BY <3>1 DEF Loaded
    <3>3. /\ rt'.prof = rt.prof /\ rt'.par = rt.par
          /\ rt'.pw = PasswordOf(t)
      BY <1>1, <1>3, <1>13, <2>3 DEF FinishSave, PasswordOf, FrameFits, Config,
         OpNames, PartlyWritten
    <3>4. RuntimeIsDurable'
      BY <1>1, <2>1, <2>3, <3>2, <3>3 DEF RuntimeIsDurable, FrameFits
    <3> QED BY <2>2, <3>4 DEF Agreement, FrameFits, Agrees, Unstored
  <2>4. CASE pc[t] = "failed"
    <3>1. rt.par \in Oversize /\ frame[t].op \in {"params", "profiles", "password"}
      BY <1>1, <1>3, <2>1, <2>4 DEF FrameFits, OpNames, ErasePCs
    <3>2. /\ rt'.pw = rt.pw /\ rt'.par = rt.par
          /\ rt'.prof = IF frame[t].op = "profiles" THEN frame[t].kept
                        ELSE rt.prof
      BY <1>1, <1>13, <2>4 DEF FinishSave, Config
    <3>3. RuntimeIsDurable'
      BY <1>1, <2>1, <2>4, <3>1, <3>2
         DEF RuntimeIsDurable, Agrees, Unstored
    <3> QED BY <2>2, <3>3 DEF Agreement, FrameFits, Agrees, Unstored
  <2> QED BY <2>1, <2>3, <2>4
\* Erasing.
<1>14. CASE FinishClear(t)
  <2>1. /\ pc'[t] = "erase" /\ Goto(t, "erase") /\ frame' = frame
        /\ frame[t].op = "factory"
    BY <1>1, <1>14 DEF FinishClear, Goto
  <2>2. FrameFits(t)' /\ Agrees(t)'
    BY <1>1, <1>2, <2>1 DEF FrameFits, Agrees, Unstored, ErasePCs
  <2> QED BY <1>2, <2>1, <2>2, AgreementStep
<1>15. CASE EraseBuffer(t)
  <2>1. /\ pc'[t] = "eraseCommit" /\ Goto(t, "eraseCommit") /\ pc[t] = "erase"
        /\ frame' = frame /\ rt' = rt
    BY <1>1, <1>15 DEF EraseBuffer, Goto
  <2>2. FrameFits(t)' /\ Agrees(t)'
    BY <1>1, <2>1 DEF FrameFits, Agrees, Unstored, ErasePCs
  <2> QED BY <1>2, <2>1, <2>2, AgreementStep
<1>16. CASE EraseCommit(t)
  <2>1. /\ flash' = ram /\ \A s \in Slot : ~Readable(ram[s])
        /\ pc[t] = "eraseCommit"
    BY <1>1, <1>16 DEF EraseCommit, FlushBuffer, Sequential, Phase
  <2>2. CASE frame[t].op = "paramReset"
    <3>1. /\ pc'[t] = "inspect" /\ Goto(t, "inspect") /\ frame' = frame
          /\ rt'.pw = rt.pw /\ rt'.par = DefaultParams
      BY <1>1, <1>16, <2>2 DEF EraseCommit, Goto, Config
    <3>2. FrameFits(t)' /\ Agrees(t)'
      BY <1>1, <2>1, <2>2, <3>1 DEF FrameFits, Agrees, ErasePCs
    <3> QED BY <1>2, <3>1, <3>2, AgreementStep
  <2>3. CASE frame[t].op # "paramReset"
    <3>1. Goto(t, "idle") /\ rt' = Defaults
      BY <1>16, <2>3 DEF EraseCommit
    <3>2. Loaded(flash') = Defaults
      BY <1>1, <2>1, Configured DEF Loaded
    <3>3. RuntimeIsDurable'
      BY <3>1, <3>2 DEF RuntimeIsDurable
    <3>4. \A u \in Tasks : pc'[u] = "idle"
      BY <1>1, <1>2, <3>1, OthersIdle DEF Goto
    <3> QED BY <3>3, <3>4 DEF Agreement, FrameFits, Agrees, Unstored
  <2> QED BY <2>2, <2>3
<1> QED BY <1>5, <1>6, <1>7, <1>8, <1>9, <1>10, <1>11, <1>12, <1>13, <1>14,
       <1>15, <1>16 DEF Step

\* A call starts from a quiet device.
LEMMA AgreementOfStart ==
    ASSUME Inductive, Agreement, Sequential, NEW t \in Tasks, Start(t)
    PROVE  Agreement'
<1>1. /\ rt \in Config /\ frame \in [Tasks -> Frame]
      /\ pc \in [Tasks -> SavePCs \cup ErasePCs \cup {"idle"}]
      /\ NoArg \notin Passwords
    BY StorageAssumption DEF Inductive, TypeInvariant, TypeOK
<1>2. ASSUME NEW op \in OpNames, NEW arg, NEW kept, NEW where,
             CanStart(t, op), Enter(t, op, arg, kept, where),
             where = IF op = "paramReset" THEN "erase" ELSE "inspect",
             op \in {"params", "profiles", "factory"} => arg = NoArg,
             op = "paramReset" => arg = rt'.pw,
             rt'.pw = rt.pw, op # "params" => rt'.par = rt.par,
             op \in {"params", "password"} => rt'.prof = rt.prof,
             op = "profiles" => kept = rt.prof
      PROVE  Agreement'
  <2>1. /\ booted /\ booted' /\ UNCHANGED <<flash, degraded>>
        /\ pc' = [pc EXCEPT ![t] = where] /\ \A u \in Tasks : pc[u] = "idle"
        /\ frame'[t].op = op /\ frame'[t].arg = arg /\ frame'[t].kept = kept
    BY <1>1, <1>2 DEF CanStart, Enter, Sequential, NoFrame
  <2>2. pc'[t] = where /\ \A u \in Tasks : u # t => pc'[u] = "idle"
    BY <1>1, <2>1
  <2>3. FrameFits(t)'
    BY <1>2, <2>1, <2>2 DEF FrameFits, ErasePCs
  <2>4. Agrees(t)'
    BY <1>2, <2>1, <2>2 DEF Agreement, RuntimeIsDurable, Quiet, Agrees, Unstored
  <2>5. \A u \in Tasks : u # t => FrameFits(u)' /\ Agrees(u)'
    BY <2>2 DEF FrameFits, Agrees, Unstored
  <2>6. ~Quiet'
    BY <1>2, <2>2 DEF Quiet
  <2> QED BY <2>3, <2>4, <2>5, <2>6 DEF Agreement, RuntimeIsDurable
<1>3. ASSUME NEW v \in Params, SaveParams(t, v) PROVE Agreement'
  <2>1. rt'.pw = rt.pw /\ rt'.prof = rt.prof
    BY <1>1, <1>3 DEF SaveParams, Config
  <2> QED BY <1>2, <1>3, <2>1 DEF SaveParams, OpNames
<1>4. ASSUME NEW w \in Profiles, SaveProfiles(t, w) PROVE Agreement'
  <2>1. rt'.pw = rt.pw /\ rt'.par = rt.par
    BY <1>1, <1>4 DEF SaveProfiles, Config
  <2> QED BY <1>2, <1>4, <2>1 DEF SaveProfiles, OpNames
<1>5. ASSUME NEW p \in Passwords, SetPassword(t, p) PROVE Agreement'
    BY <1>2, <1>5 DEF SetPassword, OpNames
<1>6. CASE ParameterReset(t)
    BY <1>2, <1>6 DEF ParameterReset, OpNames
<1>7. CASE FactoryReset(t)
  <2>1. rt'.pw = rt.pw /\ rt'.par = rt.par
    BY <1>1, <1>7 DEF FactoryReset, Config
  <2> QED BY <1>2, <1>7, <2>1 DEF FactoryReset, OpNames
<1> QED BY <1>3, <1>4, <1>5, <1>6, <1>7 DEF Start

\* A load brings the runtime to what it has found, unless it is degraded.
LEMMA AgreementOfLoad ==
    ASSUME Inductive, Agreement, Sequential, NEW decodes,
           Boot(decodes) \/ \E t \in Tasks : Reload(t, decodes)
    PROVE  Agreement'
<1>1. ram \in Memory /\ flash \in Memory
    BY DEF Inductive, TypeInvariant, TypeOK, Memory
<1>2. CASE Boot(decodes)
  <2>1. /\ \A t \in Tasks : pc'[t] = "idle"
        /\ ~degraded' => rt' = Loaded(flash) /\ flash' = flash
    BY <1>2 DEF Boot, Loaded
  <2> QED BY <2>1 DEF Agreement, FrameFits, Agrees, Unstored, RuntimeIsDurable
<1>3. ASSUME NEW t \in Tasks, Reload(t, decodes)
      PROVE  Agreement'
  <2>1. /\ booted /\ pc' = pc /\ flash' = flash
        /\ \A u \in Tasks : pc[u] = "idle"
    BY <1>3 DEF Reload, Sequential
  <2>2. Current(ram) = Current(flash)
    BY <1>1, <2>1, SyncedCurrent DEF Inductive, StoreInvariant, Rest
  <2>3. ~degraded' => rt' = Loaded(flash) \/ (rt' = rt /\ ~degraded)
    BY <1>3, <2>2 DEF Reload, Loaded
  <2>4. RuntimeIsDurable'
    BY <2>1, <2>3 DEF Agreement, RuntimeIsDurable, Quiet
  <2> QED BY <2>1, <2>4 DEF Agreement, FrameFits, Agrees, Unstored
<1> QED BY <1>2, <1>3

\* Every step keeps the agreement.
LEMMA AgreementNext ==
    ASSUME Sequential, Inductive, Agreement, [Next]_vars
    PROVE  Agreement'
<1>1. CASE UNCHANGED vars
    BY <1>1 DEF vars, Agreement, FrameFits, Agrees, PasswordOf,
       RuntimeIsDurable, Quiet
<1>2. CASE PowerLoss
    BY <1>2 DEF PowerLoss, Agreement, RuntimeIsDurable, Quiet
<1> QED BY <1>1, <1>2, AgreementOfStep, AgreementOfStart, AgreementOfLoad
        DEF Next

AgreementAlways == Inductive /\ Agreement

\* The agreement holds at all times.
LEMMA AgreementHolds ==
    ASSUME Sequential
    PROVE  Spec => []AgreementAlways
<1>1. Init => AgreementAlways
  <2> SUFFICES ASSUME Init PROVE AgreementAlways
    OBVIOUS
  <2>1. Inductive
    BY TypeInit, StoreInit DEF Inductive
  <2>2. Loaded(flash) = Defaults
    <3>1. \A s \in Slot : ~Readable(flash[s])
      BY Shapes DEF Init, Readable
    <3> QED BY <2>1, <3>1, Configured
            DEF Loaded, Inductive, TypeInvariant, TypeOK, Memory
  <2>3. /\ \A t \in Tasks : pc[t] = "idle"
        /\ rt = Defaults
    BY DEF Init
  <2> QED BY <2>1, <2>2, <2>3 DEF AgreementAlways, Agreement, FrameFits,
             Agrees, Unstored, RuntimeIsDurable
<1>2. AgreementAlways /\ [Next]_vars => AgreementAlways'
    BY StoreNext, AgreementNext DEF AgreementAlways
<1> QED BY <1>1, <1>2, PTL DEF Spec

\* Between calls a power cut would bring back what the device is running with:
\* failed saves are rolled back or were not in force yet, whatever was called
\* before and wherever power was lost.
THEOREM RuntimeAgrees ==
    ASSUME Sequential
    PROVE  Spec => []RuntimeIsDurable
<1>1. AgreementAlways => RuntimeIsDurable
    BY DEF AgreementAlways, Agreement
<1> QED BY <1>1, AgreementHolds, PTL

-----------------------------------------------------------------------------
(* The refinement: every step of the slots is a step of the single stored   *)
(* configuration, or changes nothing of it.                                 *)

\* A commit of a save cut by a power loss leaves the old configuration or the
\* new one.
LEMMA TornIsOldOrNew ==
    ASSUME Inductive, booted, NEW t \in Tasks, pc[t] = "commit",
           NEW mem \in Memory, \A s \in Slot : mem[s] \in Torn(flash, ram, s)
    PROVE  Current(mem) \in {Current(flash), frame[t].crc}
<1> DEFINE k == frame[t].target
           o == Other(k)
<1>1. /\ k \in Slot /\ o \in Slot /\ o # k /\ Slot = {k, o} /\ Other(o) = k
      /\ flash \in Memory
  <2>1. frame[t] \in Frame
    BY DEF Inductive, TypeInvariant, TypeOK
  <2> QED BY <2>1 DEF Frame, Slot, Other, Inductive, TypeInvariant, TypeOK, Memory
<1>2. Filling(t) /\ Written(t)
    BY DEF Inductive, StoreInvariant, Phase
<1>3. ~Readable(BlankSlot("bad"))
    BY Shapes DEF Readable
<1> HIDE DEF k, o
<1>4. mem[o] = flash[o] \/ (~Readable(mem[o]) /\ ~Readable(flash[o]))
    BY <1>1, <1>2, <1>3 DEF Filling, Torn, k, o
<1>5. mem[k] = flash[k] \/ mem[k] = ram[k] \/ ~Readable(mem[k])
    BY <1>1, <1>3 DEF Torn
<1>6. Readable(flash[k])
         => Readable(flash[o]) /\ flash[k].hdr.gen < flash[o].hdr.gen
    BY <1>2 DEF Filling, Spare, k, o
<1>7. CASE mem[k] = ram[k]
  <2>1. Readable(mem[o]) => mem[o].hdr.gen < mem[k].hdr.gen
    BY <1>2, <1>4, <1>7 DEF Filling, Written, k, o
  <2>2. Current(mem) = mem[k].body
    BY <1>1, <1>2, <1>7, <2>1, NewestIsCurrent DEF Written, k, o
  <2> QED BY <1>2, <1>7, <2>2 DEF Written, Readable, k
<1>8. CASE Readable(flash[o]) /\ mem[o] = flash[o]
           /\ (mem[k] = flash[k] \/ ~Readable(mem[k]))
  <2>1. Current(flash) = flash[o].body
    BY <1>1, <1>6, <1>8, NewestIsCurrent
  <2>2. Current(mem) = mem[o].body
    BY <1>1, <1>6, <1>8, NewestIsCurrent
  <2> QED BY <1>8, <2>1, <2>2
<1>9. CASE ~Readable(flash[o]) /\ ~Readable(mem[o])
           /\ (mem[k] = flash[k] \/ ~Readable(mem[k]))
  <2>1. (\A s \in Slot : ~Readable(flash[s])) /\ \A s \in Slot : ~Readable(mem[s])
    BY <1>1, <1>6, <1>9
  <2> QED BY <1>1, <2>1, Configured
<1> QED BY <1>4, <1>5, <1>7, <1>8, <1>9

\* What the abstract variables are while a call is under way, and between calls.
JobShape ==
    /\ \A t \in Tasks : booted /\ pc[t] # "idle" =>
          /\ Job = IF pc[t] \in ErasePCs THEN Erase
                   ELSE [rt EXCEPT !.pw = PasswordOf(t)]
          /\ pc[t] \notin ErasePCs => Job \in Config
          /\ Outcome = IF pc[t] \in {"saved", "failed"} THEN pc[t] ELSE "none"
    /\ ~booted \/ (\A t \in Tasks : pc[t] = "idle")
          => Job = NoJob /\ Outcome = "none"
    /\ Current(flash) \in Config \cup {NoConfig}

\* What the inductive invariant says of a job.
LEMMA JobIsShaped == Inductive => JobShape
<1> SUFFICES ASSUME Inductive PROVE JobShape
    OBVIOUS
<1>1. ASSUME NEW t \in Tasks, booted, pc[t] # "idle"
      PROVE  /\ Job = IF pc[t] \in ErasePCs THEN Erase
                      ELSE [rt EXCEPT !.pw = PasswordOf(t)]
             /\ pc[t] \notin ErasePCs => Job \in Config
             /\ Outcome = IF pc[t] \in {"saved", "failed"} THEN pc[t] ELSE "none"
  <2>1. Busy = {t}
    BY <1>1 DEF Busy, Inductive, StoreInvariant, OneAtATime
  <2>2. (CHOOSE u \in Tasks : u \in Busy) = t
    BY <2>1
  <2>3. Job = IF pc[t] \in ErasePCs THEN Erase
              ELSE [rt EXCEPT !.pw = PasswordOf(t)]
    BY <2>1, <2>2 DEF Job
  <2>4. [rt EXCEPT !.pw = PasswordOf(t)] \in Config
    <3>1. frame[t] \in Frame /\ rt \in Config
      BY DEF Inductive, TypeInvariant, TypeOK
    <3>2. PasswordOf(t) \in Passwords
      BY <3>1 DEF PasswordOf, Frame, Config
    <3> QED BY <3>1, <3>2 DEF Config
  <2> QED BY <2>1, <2>3, <2>4 DEF Outcome
<1>2. ASSUME ~booted \/ (\A t \in Tasks : pc[t] = "idle")
      PROVE  Job = NoJob /\ Outcome = "none"
    BY <1>2 DEF Busy, Job, Outcome
<1>3. Current(flash) \in Config \cup {NoConfig}
  <2>1. AllDecode \in [Slot -> BOOLEAN]
    BY DEF AllDecode
  <2> QED BY <2>1, ReadsConfig DEF Current, Inductive, TypeInvariant, TypeOK,
     Memory, HeadersNameConfigs
<1> QED BY <1>1, <1>2, <1>3 DEF JobShape

\* Every step inside a call is a step of DurableConfig, or none.
LEMMA StepImplements ==
    ASSUME Sequential, Inductive, Agreement, JobShape, JobShape', booted,
           NEW t \in Tasks, Step(t)
    PROVE  [Durable!Next]_Durable!vars
<1>1. /\ frame[t] \in Frame /\ rt \in Config /\ ram \in Memory
      /\ pc \in [Tasks -> SavePCs \cup ErasePCs \cup {"idle"}]
      /\ frame \in [Tasks -> Frame]
      /\ FrameFits(t) /\ Phase(t)
  <2>1. frame \in [Tasks -> Frame]
    BY DEF Inductive, TypeInvariant, TypeOK
  <2> QED BY <2>1 DEF Inductive, TypeInvariant, TypeOK, StoreInvariant, Memory,
             Agreement
<1>2. pc[t] # "idle" /\ booted'
    BY DEF Step, Inspect, WritePassword, WriteProfiles, WriteParams, Overflow,
       WriteHeader, Commit, Verify, FinishSave, FinishClear, EraseBuffer,
       EraseCommit
<1>3. ASSUME NEW where, where # "idle", Goto(t, where)
      PROVE  /\ pc'[t] = where
             /\ Job' = IF where \in ErasePCs THEN Erase
                       ELSE [rt' EXCEPT !.pw = PasswordOf(t)']
             /\ where \notin ErasePCs => Job' \in Config
             /\ Outcome' = IF where \in {"saved", "failed"} THEN where ELSE "none"
  <2>1. pc'[t] = where
    BY <1>1, <1>3 DEF Goto
  <2> QED BY <1>2, <1>3, <2>1 DEF JobShape
<1>4. /\ Job = IF pc[t] \in ErasePCs THEN Erase
               ELSE [rt EXCEPT !.pw = PasswordOf(t)]
      /\ pc[t] \notin ErasePCs => Job \in Config
      /\ Outcome = IF pc[t] \in {"saved", "failed"} THEN pc[t] ELSE "none"
    BY <1>2 DEF JobShape
\* The steps that show nothing.
<1>5. ASSUME NEW where \in {"password", "profiles", "params", "header", "commit"},
             pc[t] \in {"inspect", "password", "profiles", "params", "header"},
             Goto(t, where), flash' = flash, rt' = rt,
             frame'[t].arg = frame[t].arg
      PROVE  UNCHANGED Durable!vars
  <2>1. PasswordOf(t)' = PasswordOf(t)
    BY <1>5 DEF PasswordOf
  <2> QED BY <1>3, <1>4, <1>5, <2>1 DEF Durable!vars, ErasePCs
<1>6. CASE Inspect(t)
    BY <1>1, <1>5, <1>6 DEF Inspect, Frame
<1>7. CASE WritePassword(t)
    BY <1>1, <1>5, <1>7 DEF WritePassword, Frame
<1>8. CASE WriteProfiles(t)
    BY <1>1, <1>5, <1>8 DEF WriteProfiles, Frame
<1>9. CASE WriteParams(t)
    BY <1>1, <1>5, <1>9 DEF WriteParams, Frame
<1>10. CASE WriteHeader(t)
    BY <1>5, <1>10 DEF WriteHeader
\* The outcomes of a save.
<1>11. CASE Overflow(t)
  <2>1. /\ Goto(t, "failed") /\ flash' = flash /\ rt' = rt /\ pc[t] = "params"
        /\ PasswordOf(t)' = PasswordOf(t)
    BY <1>11 DEF Overflow, PasswordOf
  <2> QED BY <1>3, <1>4, <2>1 DEF Durable!Next, Durable!ReportFailed, ErasePCs
<1>12. CASE Commit(t)
  <2>1. /\ Goto(t, "verify") /\ flash' = ram /\ rt' = rt /\ pc[t] = "commit"
        /\ PasswordOf(t)' = PasswordOf(t) /\ frame' = frame
    BY <1>12 DEF Commit, FlushBuffer, Sequential, PasswordOf
  <2>2. Current(ram) = frame[t].crc
    <3> DEFINE k == frame[t].target
               o == Other(k)
    <3>1. Filling(t) /\ Written(t)
      BY <1>1, <2>1 DEF Phase
    <3>2. k \in Slot /\ (Readable(ram[o]) => ram[o].hdr.gen < ram[k].hdr.gen)
      BY <1>1, <3>1 DEF Filling, Written, Frame
    <3> HIDE DEF k, o
    <3>3. Current(ram) = ram[k].body
      BY <1>1, <3>1, <3>2, NewestIsCurrent DEF Written, k, o
    <3> QED BY <3>1, <3>3 DEF Written, Readable, k
  <2>3. Job = frame[t].crc
    BY <1>1, <1>4, <2>1 DEF FrameFits, Frame, Body, Config, ErasePCs
  <2> QED BY <1>3, <1>4, <2>1, <2>2, <2>3
          DEF Durable!Next, Durable!Install, ErasePCs
<1>13. CASE Verify(t)
  <2>1. Stored(t) /\ Written(t)
    BY <1>1, <1>13 DEF Verify, Phase, Stored
  <2>2. /\ Goto(t, "saved") /\ flash' = flash /\ rt' = rt /\ pc[t] = "verify"
        /\ PasswordOf(t)' = PasswordOf(t)
    BY <1>13, <2>1 DEF Verify, Written, PasswordOf
  <2>3. Current(flash) = frame[t].crc
    BY <2>1, StoredIsCurrent
  <2>4. Job = frame[t].crc
    BY <1>1, <1>4, <2>2 DEF FrameFits, Frame, Body, Config, ErasePCs
  <2> QED BY <1>3, <1>4, <2>2, <2>3, <2>4
          DEF Durable!Next, Durable!ReportSaved, ErasePCs
<1>14. CASE FinishSave(t)
  <2>1. flash' = flash /\ Goto(t, "idle") /\ pc[t] \in {"saved", "failed"}
    BY <1>14 DEF FinishSave
  <2>2. \A u \in Tasks : pc'[u] = "idle"
    BY <1>1, <1>2, <2>1, OthersIdle DEF Goto
  <2>3. Job' = NoJob /\ Outcome' = "none"
    BY <2>2 DEF JobShape
  <2> QED BY <1>4, <2>1, <2>3 DEF Durable!Next, Durable!Finish
<1>15. CASE FinishClear(t)
    BY <1>3, <1>4, <1>15
       DEF FinishClear, ErasePCs, Durable!Next, Durable!Finish
\* Erasing.
<1>16. CASE EraseBuffer(t)
    BY <1>3, <1>4, <1>16 DEF EraseBuffer, ErasePCs, Durable!vars
<1>17. CASE EraseCommit(t)
  <2>1. /\ flash' = ram /\ \A s \in Slot : ~Readable(ram[s])
        /\ pc[t] = "eraseCommit"
    BY <1>1, <1>17 DEF EraseCommit, FlushBuffer, Sequential, Phase
  <2>2. Current(flash') = NoConfig
    BY <1>1, <2>1, Configured
  <2>3. Job' \in Config \cup {NoJob} /\ Outcome' = "none"
    <3>1. CASE Goto(t, "inspect")
      BY <1>3, <3>1 DEF ErasePCs
    <3>2. CASE Goto(t, "idle")
      <4>1. \A u \in Tasks : pc'[u] = "idle"
        BY <1>1, <1>2, <3>2, OthersIdle DEF Goto
      <4> QED BY <4>1 DEF JobShape
    <3> QED BY <1>17, <3>1, <3>2 DEF EraseCommit
  <2> QED BY <1>4, <2>1, <2>2, <2>3
          DEF Durable!Next, Durable!EraseAll, ErasePCs
<1> QED BY <1>6, <1>7, <1>8, <1>9, <1>10, <1>11, <1>12, <1>13, <1>14, <1>15,
       <1>16, <1>17 DEF Step

\* Starting a call begins a job.
LEMMA StartImplements ==
    ASSUME Sequential, Inductive, JobShape, JobShape', NEW t \in Tasks, Start(t)
    PROVE  Durable!Begin
<1>1. /\ booted /\ \A u \in Tasks : pc[u] = "idle"
      /\ booted' = booted /\ flash' = flash
      /\ \E where \in {"inspect", "erase"} : pc' = [pc EXCEPT ![t] = where]
    BY DEF Start, SaveParams, SaveProfiles, SetPassword, ParameterReset,
       FactoryReset, CanStart, Enter, Sequential
<1>2. pc'[t] \in {"inspect", "erase"}
    BY <1>1 DEF Inductive, TypeInvariant, TypeOK
<1>3. Job = NoJob /\ Outcome = "none"
    BY <1>1 DEF JobShape
<1>4. Job' \in Config \cup {Erase} /\ Outcome' = "none"
    BY <1>1, <1>2 DEF JobShape, ErasePCs
<1> QED BY <1>1, <1>3, <1>4 DEF Durable!Begin

\* A power cut leaves the old configuration or the new one, of an erase what
\* it has not reached.
LEMMA PowerLossImplements ==
    ASSUME Sequential, Inductive, Agreement, JobShape, JobShape', Inductive',
           PowerLoss
    PROVE  Durable!PowerCut
<1>1. booted /\ ~booted'
    BY DEF PowerLoss
<1>2. Job' = NoJob /\ Outcome' = "none"
    BY <1>1 DEF JobShape
<1>3. CASE \A t \in Tasks : pc[t] \notin {"commit", "eraseCommit"}
    BY <1>2, <1>3 DEF PowerLoss, Durable!PowerCut
<1>4. ASSUME NEW t \in Tasks, pc[t] \in {"commit", "eraseCommit"}
      PROVE  \A s \in Slot : flash'[s] \in Torn(flash, ram, s)
    BY <1>4 DEF PowerLoss, Slot
<1>5. ASSUME NEW t \in Tasks, pc[t] = "commit"
      PROVE  Durable!PowerCut
  <2>1. flash' \in Memory
    BY DEF Inductive, TypeInvariant, TypeOK, Memory
  <2>2. Current(flash') \in {Current(flash), frame[t].crc}
    BY <1>1, <1>4, <1>5, <2>1, TornIsOldOrNew
  <2>3. /\ Job = [rt EXCEPT !.pw = PasswordOf(t)]
        /\ Job \in Config
        /\ Outcome = "none"
    BY <1>1, <1>5 DEF JobShape, ErasePCs
  <2>4. FrameFits(t) /\ frame[t] \in Frame /\ rt \in Config
    BY <1>1 DEF Agreement, Inductive, TypeInvariant, TypeOK
  <2>5. Job = frame[t].crc
    BY <1>5, <2>3, <2>4 DEF FrameFits, Frame, Body, Config
  <2> QED BY <1>2, <2>2, <2>3, <2>5 DEF Durable!PowerCut
<1>6. ASSUME NEW t \in Tasks, pc[t] = "eraseCommit"
      PROVE  Durable!PowerCut
  <2>1. Job = Erase /\ Current(flash') \in Config \cup {NoConfig}
    BY <1>1, <1>6 DEF JobShape, ErasePCs
  <2> QED BY <1>2, <2>1 DEF Durable!PowerCut
<1> QED BY <1>3, <1>5, <1>6

\* A load, and the way back from a power loss, change nothing stored.
LEMMA LoadImplements ==
    ASSUME Sequential, JobShape, JobShape', NEW decodes,
           Boot(decodes) \/ \E t \in Tasks : Reload(t, decodes)
    PROVE  UNCHANGED Durable!vars
<1>1. /\ flash' = flash
      /\ ~booted \/ \A t \in Tasks : pc[t] = "idle"
      /\ \A t \in Tasks : pc'[t] = "idle"
    BY DEF Boot, Reload, Sequential
<1> QED BY <1>1 DEF JobShape, Durable!vars

\* The two slots implement the single stored configuration: each call stores
\* its configuration as a whole or not at all, reports success only for what
\* the next boot loads, and a power cut leaves the old one or the new one.
THEOREM StoreImplements ==
    ASSUME Sequential
    PROVE  Spec => DurableSpec
<1>1. Init => Durable!Init
  <2> SUFFICES ASSUME Init PROVE Durable!Init
    OBVIOUS
  <2>1. Inductive
    BY TypeInit, StoreInit DEF Inductive
  <2>2. Job = NoJob /\ Outcome = "none"
    BY <2>1, JobIsShaped DEF JobShape, Init
  <2>3. \A s \in Slot : ~Readable(flash[s])
    BY Shapes DEF Init, Readable
  <2>4. Current(flash) = NoConfig
    BY <2>1, <2>3, Configured DEF Inductive, TypeInvariant, TypeOK, Memory
  <2> QED BY <2>2, <2>4 DEF Durable!Init
<1>2. AgreementAlways /\ AgreementAlways' /\ JobShape /\ JobShape' /\ [Next]_vars
         => [Durable!Next]_Durable!vars
  <2> SUFFICES ASSUME AgreementAlways, AgreementAlways', JobShape, JobShape',
                      [Next]_vars
               PROVE  [Durable!Next]_Durable!vars
    OBVIOUS
  <2> USE DEF AgreementAlways
  <2>1. CASE UNCHANGED vars
    BY <2>1 DEF vars, Durable!vars, Job, Outcome, Busy, PasswordOf
  <2>2. ASSUME NEW t \in Tasks, Start(t) PROVE [Durable!Next]_Durable!vars
    BY <2>2, StartImplements DEF Durable!Next
  <2>3. ASSUME NEW t \in Tasks, booted, Step(t)
        PROVE  [Durable!Next]_Durable!vars
    BY <2>3, StepImplements
  <2>4. CASE PowerLoss
    BY <2>4, PowerLossImplements DEF Durable!Next
  <2>5. ASSUME NEW decodes,
               Boot(decodes) \/ \E t \in Tasks : Reload(t, decodes)
        PROVE  [Durable!Next]_Durable!vars
    BY <2>5, LoadImplements
  <2> QED BY <2>1, <2>2, <2>3, <2>4, <2>5 DEF Next
<1>3. AgreementAlways => JobShape
    BY JobIsShaped DEF AgreementAlways
<1> QED BY <1>1, <1>2, <1>3, AgreementHolds, PTL
        DEF Spec, DurableSpec, Durable!Spec

-----------------------------------------------------------------------------
(* What success means when EEPROM.commit may fail.  Flash and buffer may    *)
(* then have nothing to do with each other, so the argument is about the    *)
(* buffer alone, which writtenSlotMatches reads.                            *)

\* The slot that task t does not write is older than what it is writing.
Older(t) ==
    LET o == Other(frame[t].target)
    IN  Readable(ram[o]) => ram[o].hdr.gen < frame[t].gen

BufferPhase(t) ==
    /\ pc[t] \in {"password", "profiles", "params", "header", "commit",
                  "verify", "saved"} => Older(t)
    /\ pc[t] \in {"profiles", "params", "header"} =>
          ram[frame[t].target].body.pw = frame[t].crc.pw
    /\ pc[t] \in {"params", "header"} =>
          ram[frame[t].target].body.prof = frame[t].crc.prof
    /\ pc[t] = "header" => ram[frame[t].target].body.par = frame[t].crc.par
    /\ pc[t] \in {"commit", "verify", "saved"} => Written(t)

\* While the device runs, the task that saves has its slot of the buffer.
BufferInvariant ==
    booted => OneAtATime /\ \A t \in Tasks : BufferPhase(t)

BufferInductive == TypeInvariant /\ BufferInvariant

\* When a save reports success, the buffer's current record is what it wrote,
\* whatever has become of flash.
SavedIsBuffered ==
    \A t \in Tasks : pc[t] = "saved" /\ booted => Current(ram) = frame[t].crc

\* The read-back of writtenSlotMatches finds what has been written.
ReadBackMatches ==
    \A t \in Tasks : pc[t] = "verify" /\ booted => Written(t)

\* Only the task that steps has a phase of the buffer to re-establish.
LEMMA OneBufferStep ==
    ASSUME TypeOK, OneAtATime, NEW t \in Tasks, pc[t] # "idle",
           NEW where, Goto(t, where), BufferPhase(t)'
    PROVE  BufferInvariant'
<1>1. \A u \in Tasks : u # t => pc'[u] = "idle"
    BY DEF OneAtATime, Goto, TypeOK
<1>2. OneAtATime'
    BY <1>1 DEF OneAtATime
<1>3. \A u \in Tasks : u # t => BufferPhase(u)'
    BY <1>1 DEF BufferPhase
<1> QED BY <1>2, <1>3 DEF BufferInvariant

\* The phase of every step of a save, whether or not its commit succeeds.
LEMMA BufferStep ==
    ASSUME BufferInductive, booted, NEW t \in Tasks, Step(t)
    PROVE  BufferInvariant'
<1> DEFINE k == frame[t].target
           o == Other(k)
<1>1. /\ TypeOK /\ OneAtATime /\ BufferPhase(t)
      /\ frame \in [Tasks -> Frame] /\ frame[t] \in Frame
      /\ ram \in Memory
      /\ pc \in [Tasks -> SavePCs \cup ErasePCs \cup {"idle"}]
      /\ k \in Slot /\ o \in Slot /\ o # k /\ Slot = {k, o} /\ Other(o) = k
      /\ ram[k] \in [hdr: Header, body: Body]
      /\ ram[o] \in [hdr: Header, body: Body]
  <2>1. frame[t] \in Frame
    BY DEF BufferInductive, TypeInvariant, TypeOK
  <2>2. k \in Slot /\ o \in Slot /\ o # k /\ Slot = {k, o} /\ Other(o) = k
    BY <2>1 DEF Frame, Slot, Other
  <2> QED BY <2>1, <2>2
          DEF BufferInductive, TypeInvariant, TypeOK, BufferInvariant, Memory
<1> HIDE DEF k, o
<1>2. CASE Inspect(t)
  <2> DEFINE j == TargetSlot(Valid(ram), Gen(ram))
  <2>1. /\ ram' = [ram EXCEPT ![j] = Invalidated(ram[j])]
        /\ frame'[t].target = j /\ frame'[t].gen = NextGeneration(Gen(ram))
        /\ Goto(t, "password") /\ pc[t] = "inspect"
    BY <1>1, <1>2 DEF Inspect, Frame
  <2>2. Valid(ram) \in [Slot -> BOOLEAN] /\ Gen(ram) \in [Slot -> Nat]
    BY <1>1 DEF TypeOK, Valid, Readable, Gen, Header
  <2>3. j \in Slot /\ Other(j) \in Slot /\ Other(j) # j
    BY <2>2, SlotChoice DEF Slot, Other
  <2>4. Readable(ram[Other(j)])
           => ram[Other(j)].hdr.gen < NextGeneration(Gen(ram))
    BY <1>1, TargetIsOlder
  <2> HIDE DEF j
  <2>5. ram'[Other(j)] = ram[Other(j)]
    BY <1>1, <2>1, <2>3 DEF Memory
  <2>6. Older(t)' /\ pc'[t] = "password"
    BY <1>1, <2>1, <2>4, <2>5 DEF Older, Goto
  <2>7. BufferPhase(t)'
    BY <2>6 DEF BufferPhase
  <2> QED BY <1>1, <2>1, <2>7, OneBufferStep
<1>3. CASE WritePassword(t)
  <2>1. /\ Goto(t, "profiles") /\ pc'[t] = "profiles" /\ pc[t] = "password"
        /\ frame'[t].target = k /\ frame'[t].gen = frame[t].gen
        /\ ram'[o] = ram[o]
        /\ ram'[k].body.pw = frame'[t].crc.pw
    BY <1>1, <1>3 DEF WritePassword, Frame, Body, Memory, k, Goto
  <2>2. Older(t)' /\ BufferPhase(t)'
    BY <1>1, <2>1 DEF BufferPhase, Older, k, o
  <2> QED BY <1>1, <2>1, <2>2, OneBufferStep
<1>4. CASE WriteProfiles(t)
  <2>1. /\ Goto(t, "params") /\ pc'[t] = "params" /\ pc[t] = "profiles"
        /\ frame'[t].target = k /\ frame'[t].gen = frame[t].gen
        /\ ram'[o] = ram[o]
        /\ ram'[k].body.pw = ram[k].body.pw /\ frame'[t].crc.pw = frame[t].crc.pw
        /\ ram'[k].body.prof = frame'[t].crc.prof
    BY <1>1, <1>4 DEF WriteProfiles, Frame, Body, Memory, k, Goto
  <2>2. Older(t)' /\ BufferPhase(t)'
    BY <1>1, <2>1 DEF BufferPhase, Older, k, o
  <2> QED BY <1>1, <2>1, <2>2, OneBufferStep
<1>5. CASE WriteParams(t)
  <2>1. /\ Goto(t, "header") /\ pc'[t] = "header" /\ pc[t] = "params"
        /\ frame'[t].target = k /\ frame'[t].gen = frame[t].gen
        /\ ram'[o] = ram[o]
        /\ ram'[k].body.pw = ram[k].body.pw /\ frame'[t].crc.pw = frame[t].crc.pw
        /\ ram'[k].body.prof = ram[k].body.prof
        /\ frame'[t].crc.prof = frame[t].crc.prof
        /\ ram'[k].body.par = frame'[t].crc.par
    BY <1>1, <1>5 DEF WriteParams, Frame, Body, Memory, k, Goto
  <2>2. Older(t)' /\ BufferPhase(t)'
    BY <1>1, <2>1 DEF BufferPhase, Older, k, o
  <2> QED BY <1>1, <2>1, <2>2, OneBufferStep
<1>6. CASE WriteHeader(t)
  <2>1. /\ Goto(t, "commit") /\ pc'[t] = "commit" /\ pc[t] = "header"
        /\ frame' = frame
        /\ ram'[o] = ram[o] /\ ram'[k].body = ram[k].body
        /\ ram'[k].hdr = [mark |-> "valid", gen |-> frame[t].gen,
                          crc |-> frame[t].crc]
    BY <1>1, <1>6 DEF WriteHeader, k, Memory, Goto
  <2>2. frame[t].crc = ram[k].body
    BY <1>1, <2>1 DEF BufferPhase, Frame, Body, k
  <2>3. Older(t)' /\ Written(t)'
    BY <1>1, <2>1, <2>2 DEF BufferPhase, Older, Written, Readable, k, o
  <2>4. BufferPhase(t)'
    BY <2>1, <2>3 DEF BufferPhase
  <2> QED BY <1>1, <2>1, <2>4, OneBufferStep
<1>7. CASE Commit(t) \/ Verify(t)
  <2>1. PICK where \in {"verify", "saved", "failed"} :
           /\ Goto(t, where) /\ pc'[t] = where /\ pc[t] \in {"commit", "verify"}
           /\ ram' = ram /\ frame' = frame
    BY <1>1, <1>7 DEF Commit, Verify, Goto
  <2>2. Older(t)' /\ Written(t)'
    BY <1>1, <2>1 DEF BufferPhase, Older, Written
  <2>3. BufferPhase(t)'
    BY <2>1, <2>2 DEF BufferPhase
  <2> QED BY <1>1, <2>1, <2>3, OneBufferStep
<1>8. CASE Overflow(t) \/ FinishSave(t) \/ FinishClear(t) \/ EraseBuffer(t)
           \/ EraseCommit(t)
  <2>1. PICK where \in Rest \cup {"eraseCommit"} :
           /\ where # "saved" /\ Goto(t, where) /\ pc'[t] = where
           /\ pc[t] # "idle"
    BY <1>1, <1>8 DEF Overflow, FinishSave, FinishClear, EraseBuffer,
       EraseCommit, Goto, Rest
  <2>2. BufferPhase(t)'
    BY <2>1 DEF BufferPhase, Rest
  <2> QED BY <1>1, <2>1, <2>2, OneBufferStep
<1> QED BY <1>2, <1>3, <1>4, <1>5, <1>6, <1>7, <1>8 DEF Step

\* An operation starts when no other is under way.
LEMMA BufferStart ==
    ASSUME Cooperative, BufferInductive, NEW t \in Tasks, Start(t)
    PROVE  BufferInvariant'
<1>1. /\ \A u \in Tasks : pc[u] = "idle"
      /\ \E where \in {"inspect", "erase"} : pc' = [pc EXCEPT ![t] = where]
  <2>1. ASSUME NEW op, NEW arg, NEW kept, NEW where \in {"inspect", "erase"},
               CanStart(t, op), Enter(t, op, arg, kept, where)
        PROVE  /\ \A u \in Tasks : pc[u] = "idle"
               /\ pc' = [pc EXCEPT ![t] = where]
    BY <2>1 DEF CanStart, Enter
  <2> QED BY <2>1 DEF Start, SaveParams, SaveProfiles, SetPassword,
             ParameterReset, FactoryReset
<1>2. \A u \in Tasks : pc'[u] \in {"idle", "inspect", "erase"}
                       /\ (u # t => pc'[u] = "idle")
  <2>1. PICK where \in {"inspect", "erase"} : pc' = [pc EXCEPT ![t] = where]
    BY <1>1
  <2>2. pc \in [Tasks -> SavePCs \cup ErasePCs \cup {"idle"}]
    BY DEF BufferInductive, TypeInvariant, TypeOK
  <2> QED BY <1>1, <2>1, <2>2
<1> QED BY <1>2 DEF BufferInvariant, OneAtATime, BufferPhase

\* Every step keeps the buffer's invariant.
LEMMA BufferNext ==
    ASSUME Cooperative, BufferInductive, [Next]_vars
    PROVE  BufferInductive'
<1>1. TypeInvariant'
    BY TypeNext DEF BufferInductive
<1>2. CASE UNCHANGED vars
  <2>1. BufferInvariant'
    BY <1>2 DEF BufferInductive, BufferInvariant, vars, OneAtATime,
       BufferPhase, Older, Written
  <2> QED BY <1>1, <2>1 DEF BufferInductive
<1>3. ASSUME NEW t \in Tasks, NEW decodes, Reload(t, decodes)
      PROVE  BufferInvariant'
    BY <1>3 DEF Reload, BufferInductive, BufferInvariant, OneAtATime,
       BufferPhase, Older, Written
<1>4. ASSUME PowerLoss
      PROVE  BufferInvariant'
    BY <1>4 DEF PowerLoss, BufferInvariant
<1>5. ASSUME NEW decodes, Boot(decodes)
      PROVE  BufferInvariant'
  <2>1. \A t \in Tasks : pc'[t] = "idle"
    BY <1>5 DEF Boot
  <2> QED BY <2>1 DEF BufferInvariant, OneAtATime, BufferPhase
<1>6. ASSUME NEW t \in Tasks, Start(t) \/ (booted /\ Step(t))
      PROVE  BufferInvariant'
    BY <1>6, BufferStart, BufferStep
<1>7. CASE Next
  <2>1. BufferInvariant'
    BY <1>3, <1>4, <1>5, <1>6, <1>7 DEF Next
  <2> QED BY <1>1, <2>1 DEF BufferInductive
<1> QED BY <1>2, <1>7

\* The invariant of the buffer holds where tasks do not overlap.
LEMMA BufferHolds ==
    ASSUME Cooperative
    PROVE  Spec => []BufferInductive
<1>1. Init => BufferInductive
  <2>1. Init => BufferInvariant
    BY DEF Init, BufferInvariant, OneAtATime, BufferPhase
  <2> QED BY <2>1, TypeInit DEF BufferInductive
<1>2. BufferInductive /\ [Next]_vars => BufferInductive'
    BY BufferNext
<1> QED BY <1>1, <1>2, PTL DEF Spec

\* SavedIsBuffered: where tasks do not overlap a save that reports success is
\* what the buffer holds, and so what every load until the next restart reads,
\* even if EEPROM.commit has failed.  That it is in flash (SavesAreStored)
\* needs the commit too.
THEOREM SavesAreBuffered ==
    ASSUME Cooperative
    PROVE  Spec => []SavedIsBuffered
<1>1. BufferInductive => SavedIsBuffered
  <2> SUFFICES ASSUME BufferInductive, booted, NEW t \in Tasks, pc[t] = "saved"
               PROVE  Current(ram) = frame[t].crc
    BY DEF SavedIsBuffered
  <2> DEFINE k == frame[t].target
  <2>1. Older(t) /\ Written(t)
    BY DEF BufferInductive, BufferInvariant, BufferPhase
  <2>2. ram \in Memory /\ k \in Slot
    BY DEF BufferInductive, TypeInvariant, TypeOK, Memory, Frame
  <2>3. /\ Readable(ram[k]) /\ ram[k].body = frame[t].crc
        /\ Readable(ram[Other(k)]) => ram[Other(k)].hdr.gen < ram[k].hdr.gen
    BY <2>1 DEF Older, Written, Readable
  <2> HIDE DEF k
  <2> QED BY <2>2, <2>3, NewestIsCurrent
<1> QED BY <1>1, BufferHolds, PTL

\* ReadBackMatches: the read-back of writtenSlotMatches succeeds after every
\* commit, one that failed too, so where tasks do not overlap it can detect
\* nothing: the save it is there to fail never fails.
THEOREM ReadBackDetectsNothing ==
    ASSUME Cooperative
    PROVE  Spec => []ReadBackMatches
<1>1. BufferInductive => ReadBackMatches
    BY DEF BufferInductive, BufferInvariant, BufferPhase, ReadBackMatches
<1> QED BY <1>1, BufferHolds, PTL
=============================================================================
