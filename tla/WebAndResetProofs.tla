------------------------- MODULE WebAndResetProofs -------------------------
(***************************************************************************)
(* Theorems about resets and about what the web interface hands out: what  *)
(* the reset tracker recognises (ResetGesture), the delayed restart of the *)
(* web interface (WebControl), the blobs of a sketch in RTC memory         *)
(* (RtcBlob), and the permits, the slots and the logos of streamed         *)
(* responses (WebStreams, StreamAdmission, LogoStream).                    *)
(***************************************************************************)
EXTENDS ResetGesture, WebControl, RtcBlob, WebStreams, FiniteSetTheorems,
        TLAPS

-----------------------------------------------------------------------------
(* The reset tracker, for any number of resets, wherever they hit.  A      *)
(* failed access makes GestureIsPhysical vacuous, so the proof keeps the   *)
(* types on those branches and the record on the others.                   *)

Inductive == TypeOK /\ RecordInvariant

\* The values that Init and a reset assign have their types.
LEMMA Shapes ==
    /\ NoData \in RtcData /\ NoData.ok = FALSE
    /\ Defaults \in Config
    /\ "none" \in Reasons /\ "callback" \in Places
    BY DEF NoData, RtcData, Reasons, Defaults, Config, Places

\* The first boot counts itself as one external reset.
LEMMA GestureInit == Init => Inductive
<1> SUFFICES ASSUME Init PROVE Inductive
    OBVIOUS
<1>1. TypeOK
    BY Shapes DEF Init, TypeOK
<1>2. RecordInvariant
    BY Shapes DEF Init, RecordInvariant, Uncounted, Unmarked,
       GestureIsPhysical, Intact
<1> QED BY <1>1, <1>2 DEF Inductive

\* An external reset is counted by the boot it starts, not before.
LEMMA GestureReset ==
    ASSUME Inductive, UNCHANGED platform, PressReset \/ PowerCut
    PROVE  Inductive'
<1>1. /\ at' = "callback" /\ rtcCleared' = FALSE
      /\ rtc' = rtc \/ rtc' = NoData
      /\ rapid' = IF rtcCleared THEN 1 ELSE rapid + 1
    BY DEF PressReset, PowerCut, StartOver, Counted
<1>2. TypeOK'
  <2>1. /\ rtcData' = NoData /\ rt' = Defaults /\ lastReason' = "none"
        /\ external' = external + 1 /\ failures' = failures
    BY DEF PressReset, PowerCut, StartOver, Counted
  <2>2. /\ rapid' \in Nat /\ external' \in Nat /\ failures' \in Nat
        /\ platform' \in {"ESP32", "ESP8266"}
    BY <1>1, <2>1 DEF Inductive, TypeOK
  <2>3. rtc' \in RtcData
    BY <1>1, Shapes DEF Inductive, TypeOK
  <2>4. flash' \in Config \cup {Erased} /\ older' \in Config \cup {Erased}
    BY DEF PressReset, PowerCut, Counted, LeaveSlots, Inductive, TypeOK
  <2> QED BY <1>1, <2>1, <2>2, <2>3, <2>4, Shapes DEF TypeOK
<1>3. RecordInvariant'
  <2>1. failures' = failures
    BY DEF PressReset, PowerCut, StartOver, Counted
  <2> QED BY <1>1, <2>1, Shapes
     DEF Intact, Inductive, TypeOK, RtcData, RecordInvariant, Uncounted,
       Unmarked, GestureIsPhysical
<1> QED BY <1>2, <1>3 DEF Inductive

\* Reading or writing the record keeps the types; if it fails, the invariant
\* has nothing left to say.
LEMMA Access ==
    ASSUME TypeOK
    PROVE  /\ \A data \in RtcData : WriteRecord(data) =>
                 /\ rtc' \in RtcData /\ failures' \in Nat
                 /\ Intact' => rtc' = data /\ Intact
           /\ Fail => failures' \in Nat /\ ~Intact'
           /\ rtc \in RtcData /\ rtcData \in RtcData
           /\ \A r \in RtcData : Counting(r) \in 0..255 /\ Counting(r) <= r.count + 1
<1>1. Fail => failures' \in Nat /\ ~Intact'
    BY DEF TypeOK, Fail, Intact
<1>2. ASSUME NEW data \in RtcData, WriteRecord(data)
      PROVE  /\ rtc' \in RtcData /\ failures' \in Nat
             /\ Intact' => rtc' = data /\ Intact
    BY <1>1, <1>2 DEF WriteRecord, TypeOK, Intact
<1>3. ASSUME NEW r \in RtcData
      PROVE  Counting(r) \in 0..255 /\ Counting(r) <= r.count + 1
  <2>1. r.count \in 0..255
    BY DEF RtcData
  <2>2. (r.count + 1) % 256 \in 0..255 /\ (r.count + 1) % 256 <= r.count + 1
    BY <2>1
  <2> QED BY <2>1, <2>2 DEF Counting
<1> QED BY <1>1, <1>2, <1>3 DEF TypeOK

\* Every step keeps the types and what the record counts.
LEMMA GestureNext ==
    ASSUME Inductive, [Next]_vars
    PROVE  Inductive'
<1> USE DEF Inductive, TypeOK, RecordInvariant, Uncounted, Unmarked,
        GestureIsPhysical, Places
<1>1. CASE UNCHANGED vars
    BY <1>1 DEF vars, Intact
<1> SUFFICES ASSUME Next, UNCHANGED platform
             PROVE  Inductive'
    BY <1>1 DEF Next, BootStep, Other
<1>2. CASE Register
    BY <1>2 DEF Register, Intact
<1>3. CASE ReadRecord
  <2>1. PICK r \in {rtc, NoData} :
           /\ \/ r = rtc /\ UNCHANGED failures
              \/ r = NoData /\ Fail
           /\ rtcData' = [ok |-> TRUE, reason |-> "none",
                          count |-> IF r.ok THEN Counting(r) ELSE 1]
           /\ lastReason' = IF r.ok THEN r.reason ELSE "none"
    BY <1>3 DEF ReadRecord
  <2>2. /\ at = "read" /\ at' = "write"
        /\ UNCHANGED <<rtc, flash, older, rt, rtcCleared, rapid, external>>
    BY <1>3 DEF ReadRecord
  <2>3. r \in RtcData /\ r.reason \in Reasons /\ r.count \in 0..255
    BY <2>1, Shapes DEF RtcData
  <2>4. Counting(r) \in 0..255 /\ Counting(r) <= r.count + 1
    BY <2>3, Access
  <2>5. rtcData' \in RtcData /\ lastReason' \in Reasons /\ rtcData'.ok
    BY <2>1, <2>3, <2>4 DEF RtcData, Reasons
  <2>6. failures' \in Nat /\ (Intact' => r = rtc /\ Intact)
    BY <2>1, Access DEF Intact
  <2>7. Intact' => rtcData'.count <= rapid
    <3> SUFFICES ASSUME Intact' PROVE rtcData'.count <= rapid
      OBVIOUS
    <3>1. CASE ~rtc.ok
      BY <3>1, <2>1, <2>2, <2>6
    <3>2. CASE rtc.ok /\ rtc.reason # "none"
      BY <3>2, <2>1, <2>6 DEF Counting
    <3>3. CASE rtc.ok /\ rtc.reason = "none"
      <4>1. r = rtc /\ Intact /\ rtcData'.count = Counting(r)
        BY <3>3, <2>1, <2>6
      <4>2. r.count < rapid
        BY <3>3, <4>1, <2>2
      <4>3. rapid \in Nat
        OBVIOUS
      <4>4. /\ Counting(r) \in Nat /\ r.count \in Nat
            /\ Counting(r) <= r.count + 1
        BY <2>3, <2>4
      <4> HIDE DEF Inductive
      <4> QED BY <4>1, <4>2, <4>3, <4>4
    <3> QED BY <3>1, <3>2, <3>3
  <2>8. TypeOK'
    BY <2>2, <2>5, <2>6
  <2>9. RecordInvariant'
    BY <2>2, <2>5, <2>6, <2>7
  <2> QED BY <2>8, <2>9
<1>4. CASE UpdateRecord
  <2>1. rtc' \in RtcData /\ failures' \in Nat /\ (Intact' => rtc' = rtcData /\ Intact)
    BY <1>4, Access DEF UpdateRecord
  <2>2. rtcData.count \in 0..255
    BY DEF RtcData
  <2>3. TypeOK'
    BY <1>4, <2>1 DEF UpdateRecord
  <2>4. RecordInvariant'
    BY <1>4, <2>1, <2>2 DEF UpdateRecord
  <2> QED BY <2>3, <2>4
<1>5. CASE DoubleReset
    BY <1>5 DEF DoubleReset, Save, Config, Intact
<1>6. CASE TripleReset
    BY <1>6 DEF TripleReset, Save, Config, Intact
<1>7. CASE EraseStore
    BY <1>7, Shapes DEF EraseStore, Intact
<1>8. CASE ResetCount
  <2>1. rtcData' = [rtcData EXCEPT !.count = 0]
    BY <1>8 DEF ResetCount
  <2>2. rtcData' \in RtcData /\ rtcData'.count = 0 /\ rtcData'.ok = rtcData.ok
    BY <2>1 DEF RtcData
  <2>3. rtc' \in RtcData /\ failures' \in Nat /\ (Intact' => rtc' = rtcData' /\ Intact)
    BY <1>8, <2>2, Access DEF ResetCount
  <2>4. TypeOK'
    BY <1>8, <2>2, <2>3 DEF ResetCount
  <2>5. /\ at = "recount" /\ at' = "mark"
        /\ UNCHANGED <<rtcCleared, rapid>>
    BY <1>8 DEF ResetCount
  <2>6. RecordInvariant'
    BY <2>2, <2>3, <2>5
  <2> QED BY <2>4, <2>6
<1>9. CASE Recover \/ Restart
  <2>1. PICK reason \in {"factoryRecovery", "application"} :
           Mark(reason) /\ at \in {"mark", "running"}
    BY <1>9 DEF Recover, Restart
  <2>2. rtcData' = [rtcData EXCEPT !.reason = reason]
    BY <2>1 DEF Mark
  <2>3. rtcData' \in RtcData /\ rtcData'.reason # "none" /\ rtcData'.ok = rtcData.ok
    BY <2>2 DEF RtcData, Reasons
  <2>4. rtc' \in RtcData /\ failures' \in Nat /\ (Intact' => rtc' = rtcData' /\ Intact)
    BY <2>1, <2>3, Access DEF Mark
  <2>5. /\ at' = "reboot"
        /\ UNCHANGED <<flash, older, rt, rtcCleared, lastReason, rapid, external>>
    BY <2>1 DEF Mark
  <2>6. TypeOK'
    BY <2>3, <2>4, <2>5
  <2>7. RecordInvariant'
    BY <2>1, <2>3, <2>4, <2>5
  <2> QED BY <2>6, <2>7
<1>10. CASE Reboot
    BY <1>10, Shapes DEF Reboot, StartOver, Reasons, Intact
<1>11. CASE RestartInCallback
    BY <1>11, Shapes DEF RestartInCallback, StartOver, Reasons, Intact
<1>12. CASE Load
    BY <1>12, Shapes DEF Load, Intact
<1>13. CASE CloseWindow
  <2>1. rtc' \in RtcData /\ failures' \in Nat /\ (Intact' => rtc' = NoData /\ Intact)
    BY <1>13, Access, Shapes DEF CloseWindow
  <2> QED BY <1>13, <2>1, Shapes DEF CloseWindow
<1>14. CASE Configure
    BY <1>14 DEF Configure, Save, Intact
<1> QED BY <1>2, <1>3, <1>4, <1>5, <1>6, <1>7, <1>8, <1>9, <1>10, <1>11,
       <1>12, <1>13, <1>14, GestureReset DEF Next, BootStep, Other

\* Wherever resets and failed accesses hit, the tracker's state keeps its types:
\* the count it stores stays in its byte.
THEOREM GestureTypes == Spec => []TypeOK
<1>1. Inductive => TypeOK
    BY DEF Inductive
<1> QED BY <1>1, GestureNext, GestureInit, PTL DEF Spec

\* A double reset takes two external resets and a triple reset three, inside
\* the window and not separated by a restart() of the framework: a marked
\* restart is never mistaken for a press of the button.
THEOREM OnlyPhysicalGestures == Spec => []GestureIsPhysical
<1>1. Inductive => GestureIsPhysical
    BY DEF Inductive, RecordInvariant, GestureIsPhysical
<1> QED BY <1>1, GestureNext, GestureInit, PTL DEF Spec

-----------------------------------------------------------------------------
(* Blobs (RtcBlob).  A payload in its place is the last written there.      *)

\* A write puts its payload in its place, and leaves the other places alone.
LEMMA WriteKeeps ==
    ASSUME Sane, BlobInvariant, NEW name \in Name, NEW d \in Payload,
           Write(name, d)
    PROVE  BlobInvariant'
<1> DEFINE last == [hash |-> Hash[name], data |-> d]
<1>1. /\ store' = [store EXCEPT ![KeyOf(name)] = Written(name, d)]
      /\ latest' = [latest EXCEPT ![KeyOf(name)] = last]
      /\ cut' = {}
      /\ Hash[name] \in HashValue /\ Length[d] \in Nat
  BY DEF Write, Sane
<1>2. KeyOf(name) \in Key /\ Written(name, d) \in Record
  BY <1>1 DEF KeyOf, Key, Written, Record
<1>3. /\ store \in [Key -> Record]
      /\ latest \in [Key -> [hash : HashValue \cup {Nothing},
                             data : Payload \cup {Nothing}]]
  BY DEF BlobInvariant, BlobTypeOK
<1>4. BlobTypeOK'
  <2>1. store' \in [Key -> Record]
    BY <1>1, <1>2, <1>3
  <2>2. last \in [hash : HashValue \cup {Nothing}, data : Payload \cup {Nothing}]
    BY <1>1
  <2>3. latest' \in [Key -> [hash : HashValue \cup {Nothing},
                             data : Payload \cup {Nothing}]]
    BY <1>1, <1>3, <2>2
  <2> QED BY <1>1, <2>1, <2>3 DEF BlobTypeOK, Key, Record
<1>5. ASSUME NEW k \in Key, store'[k].data # Nothing
      PROVE  /\ store'[k].data = latest'[k].data
             /\ store'[k].hash \in cut' \cup {latest'[k].hash, Nothing}
  <2>1. CASE k = KeyOf(name)
    <3>1. store'[k] = Written(name, d) /\ latest'[k] = last
      BY <1>1, <1>2, <1>3, <2>1
    <3> QED BY <3>1 DEF Written
  <2>2. CASE k # KeyOf(name)
    <3>1. ~OneSlot /\ store'[k] = store[k] /\ latest'[k] = latest[k]
      BY <1>1, <1>3, <2>2 DEF KeyOf, Key
    <3>2. cut = {}
      BY <3>1 DEF BlobInvariant
    <3>3. /\ store[k].data = latest[k].data
          /\ store[k].hash \in {latest[k].hash, Nothing}
      BY <1>5, <3>1, <3>2 DEF BlobInvariant
    <3> QED BY <3>1, <3>2, <3>3, <1>1
  <2> QED BY <2>1, <2>2
<1> QED BY <1>1, <1>4, <1>5 DEF BlobInvariant, Key

\* What takes payloads out of their places or gives them a name whose write was
\* cut short keeps the invariant.
LEMMA LossKeeps ==
    ASSUME BlobInvariant, latest' = latest, store' \in [Key -> Record],
           cut \subseteq cut', cut' \subseteq HashValue, OneSlot \/ cut' = cut,
           \A k \in Key : store'[k].data # Nothing =>
               /\ store'[k].data = store[k].data
               /\ store'[k].hash \in cut' \cup {store[k].hash, Nothing}
    PROVE  BlobInvariant'
<1>1. BlobTypeOK'
  BY DEF BlobInvariant, BlobTypeOK, Key, Record
<1>2. OneSlot \/ cut' = {}
  BY DEF BlobInvariant
<1>3. ASSUME NEW k \in Key, store'[k].data # Nothing
      PROVE  /\ store'[k].data = latest'[k].data
             /\ store'[k].hash \in cut' \cup {latest'[k].hash, Nothing}
  BY <1>3 DEF BlobInvariant
<1> QED BY <1>1, <1>2, <1>3 DEF BlobInvariant, Key

\* The first words of a record over another one lose the payload or keep it,
\* under the name of either.
LEMMA PartlyKeeps ==
    ASSUME BlobInvariant, OneSlot, Key = {Slot}, latest' = latest,
           cut \subseteq cut', cut' \subseteq HashValue,
           NEW new \in Record, new.hash \in cut' \cup {Nothing},
           NEW words \in 1..5,
           store' = [store EXCEPT ![Slot] = Partly(store[Slot], new, words)]
    PROVE  BlobInvariant'
<1> DEFINE old == store[Slot]
<1>1. store \in [Key -> Record] /\ old \in Record
  BY DEF BlobInvariant, BlobTypeOK
<1>2. Partly(old, new, words) \in Record
  BY <1>1 DEF Partly, Record
<1>3. /\ store' \in [Key -> Record]
      /\ store'[Slot] = Partly(old, new, words)
  BY <1>1, <1>2
<1>4. \A k \in Key : store'[k].data # Nothing =>
               /\ store'[k].data = store[k].data
               /\ store'[k].hash \in cut' \cup {store[k].hash, Nothing}
  BY <1>3 DEF Partly
<1> QED BY <1>3, <1>4, LossKeeps

\* Every step keeps the payloads in their places the last written there.
LEMMA BlobKept ==
    ASSUME Sane, BlobInvariant, [BlobNext]_blobVars
    PROVE  BlobInvariant'
<1>0. /\ store \in [Key -> Record] /\ cut \subseteq HashValue
      /\ Noise \in Record /\ Noise.data = Nothing
  BY DEF BlobInvariant, BlobTypeOK, Noise, Record
<1>1. ASSUME NEW name \in Name, NEW d \in Payload, Write(name, d)
      PROVE  BlobInvariant'
  BY <1>1, WriteKeeps
<1>2. ASSUME NEW name \in Name, NEW d \in Payload, WriteInterrupted(name, d)
      PROVE  BlobInvariant'
  <2>1. /\ OneSlot /\ Key = {Slot} /\ Hash[name] \in HashValue
        /\ Written(name, d) \in Record
        /\ cut' = cut \cup {Hash[name]} /\ latest' = latest
    BY <1>0, <1>2 DEF WriteInterrupted, Key, Sane, Written, Record
  <2>2. PICK words \in 1..5 :
            store' = [store EXCEPT
                        ![Slot] = Partly(store[Slot], Written(name, d), words)]
    BY <1>2 DEF WriteInterrupted
  <2>3. Written(name, d).hash \in cut'
    BY <2>1 DEF Written
  <2> QED BY <1>0, <2>1, <2>2, <2>3, PartlyKeeps
<1>3. ASSUME NEW name \in Name, Clear(name)
      PROVE  BlobInvariant'
  <2>1. /\ store' = [store EXCEPT ![KeyOf(name)] = Noise]
        /\ latest' = latest /\ cut' = cut
    BY <1>3 DEF Clear
  <2>2. store' \in [Key -> Record]
    BY <1>0, <2>1
  <2>3. \A k \in Key : store'[k].data # Nothing => store'[k] = store[k]
    BY <1>0, <2>1
  <2> QED BY <1>0, <2>1, <2>2, <2>3, LossKeeps
<1>4. CASE PowerLoss
  <2>1. store' = [k \in Key |-> Noise] /\ latest' = latest /\ cut' = cut
    BY <1>4 DEF PowerLoss
  <2>2. store' \in [Key -> Record]
    BY <1>0, <2>1
  <2>3. \A k \in Key : store'[k].data = Nothing
    BY <1>0, <2>1
  <2> QED BY <1>0, <2>1, <2>2, <2>3, LossKeeps
<1>5. CASE ClearInterrupted
  <2>1. OneSlot /\ Key = {Slot} /\ latest' = latest /\ cut' = cut
    BY <1>5 DEF ClearInterrupted, Key
  <2>2. PICK words \in 1..5 :
            store' = [store EXCEPT ![Slot] = Partly(store[Slot], Noise, words)]
    BY <1>5 DEF ClearInterrupted
  <2>3. Noise.hash = Nothing
    BY DEF Noise
  <2> QED BY <1>0, <2>1, <2>2, <2>3, PartlyKeeps
<1>6. CASE UNCHANGED blobVars
  BY <1>6 DEF blobVars, BlobInvariant, BlobTypeOK, Key, Record
<1> QED BY <1>1, <1>2, <1>3, <1>4, <1>5, <1>6 DEF BlobNext

\* A payload read back is the last one written whole to its place and fits its
\* buffer (DeviceFrameworkRtcBlob::read), on either platform; it can be
\* another name's only after a reset cut a write under this name short.
THEOREM BlobsAreTheLastWritten ==
    ASSUME Sane
    PROVE  BlobSpec => [](BlobTypeOK /\ ReadsAreTheLastWritten)
<1>1. ASSUME BlobInit PROVE BlobInvariant
  <2>1. Noise \in Record /\ Noise.data = Nothing
    BY DEF Noise, Record
  <2> QED BY <1>1, <2>1 DEF BlobInit, BlobInvariant, BlobTypeOK
<1>2. BlobInvariant /\ [BlobNext]_blobVars => BlobInvariant'
  BY BlobKept
<1>3. ASSUME BlobInvariant PROVE BlobTypeOK /\ ReadsAreTheLastWritten
  <2>1. ASSUME NEW name \in Name, NEW capacity \in Nat,
               NEW asksLength \in BOOLEAN,
               Read(name, capacity, asksLength) # Nothing
        PROVE  LET d == Read(name, capacity, asksLength)
                   last == latest[KeyOf(name)]
               IN  /\ d = last.data /\ Length[d] <= capacity
                   /\ last.hash # Hash[name] => OneSlot /\ Hash[name] \in cut
    <3> DEFINE record == store[KeyOf(name)]
               last == latest[KeyOf(name)]
    <3>1. /\ record.hash = Hash[name] /\ record.data # Nothing
          /\ Read(name, capacity, asksLength) = record.data
          /\ record.length = Length[record.data] /\ record.length \in Nat
          /\ record.length <= capacity \/ record.length = capacity
      BY <2>1 DEF Read
    <3>2. KeyOf(name) \in Key
      BY DEF KeyOf, Key, Sane
    <3>3. record.data = last.data /\ record.hash \in cut \cup {last.hash}
      BY <1>3, <3>1, <3>2 DEF BlobInvariant, Sane
    <3>4. OneSlot \/ cut = {}
      BY <1>3 DEF BlobInvariant
    <3>5. Length[record.data] <= capacity
      BY <3>1
    <3> QED BY <3>1, <3>3, <3>4, <3>5
  <2> QED BY <1>3, <2>1 DEF BlobInvariant, ReadsAreTheLastWritten
<1> QED BY <1>1, <1>2, <1>3, PTL DEF BlobSpec

\* The names of an ESP32 do not disturb each other (the keys that
\* preferencesKeyForName makes), for any names and payloads.
THEOREM NamesAreApart ==
    ASSUME Sane
    PROVE  BlobSpec => Undisturbed
<1>1. ASSUME BlobInit PROVE BlobInvariant
  <2>1. Noise \in Record /\ Noise.data = Nothing
    BY DEF Noise, Record
  <2> QED BY <1>1, <2>1 DEF BlobInit, BlobInvariant, BlobTypeOK
<1>2. BlobInvariant /\ [BlobNext]_blobVars => BlobInvariant'
  BY BlobKept
<1>3. ASSUME BlobInvariant PROVE LeavesOthers
  <2>1. ASSUME NEW name \in Name, NEW other \in Name, NEW capacity \in Nat,
               NEW asksLength \in BOOLEAN, ~OneSlot,
               Hash[other] # Hash[name],
               (\E d \in Payload : Write(other, d)) \/ Clear(other)
        PROVE  Read(name, capacity, asksLength)'
                    = Read(name, capacity, asksLength)
    <3>1. /\ store \in [Key -> Record]
          /\ KeyOf(name) \in Key /\ KeyOf(name) # KeyOf(other)
      BY <1>3, <2>1 DEF BlobInvariant, BlobTypeOK, KeyOf, Key, Sane
    <3>2. \E r : store' = [store EXCEPT ![KeyOf(other)] = r]
      <4>1. CASE Clear(other)
        BY <4>1 DEF Clear
      <4>2. ASSUME NEW d \in Payload, Write(other, d)
            PROVE  \E r : store' = [store EXCEPT ![KeyOf(other)] = r]
        BY <4>2 DEF Write
      <4> QED BY <2>1, <4>1, <4>2
    <3>3. store'[KeyOf(name)] = store[KeyOf(name)]
      BY <3>1, <3>2
    <3> QED BY <3>3 DEF Read, KeyOf, Fits
  <2> QED BY <2>1 DEF LeavesOthers
<1>4. BlobInvariant => [LeavesOthers]_blobVars
  BY <1>3
<1> QED BY <1>1, <1>2, <1>4, PTL DEF BlobSpec, Undisturbed

-----------------------------------------------------------------------------
(* The delayed restart (WebControl), for one task at a time.               *)

\* A clock reading that wraps at most once, in either direction.
LEMMA Wrap ==
    ASSUME NEW n \in Nat \ {0}, NEW x \in (1 - n)..(2 * n - 1)
    PROVE  x % n = IF x < 0 THEN x + n ELSE IF x < n THEN x ELSE x - n
<1>1. CASE x < 0
    BY <1>1
<1>2. CASE x >= 0 /\ x < n
    BY <1>2
<1>3. CASE x >= n
    BY <1>3
<1> QED BY <1>1, <1>2, <1>3

\* The clock after a while of less than a turn.
LEMMA ClockForward ==
    ASSUME NEW n \in Nat \ {0}, NEW t \in 0..(n - 1), NEW d \in 0..(n - 1)
    PROVE  (t + d) % n = IF t + d < n THEN t + d ELSE t + d - n
<1>1. CASE t + d < n
    BY <1>1
<1>2. CASE t + d >= n
    BY <1>2
<1> QED BY <1>1, <1>2

\* The restart is due only once Delay has passed since the last request.
LEMMA ReachedInTime ==
    ASSUME ControlInvariant, restartPending, http.at = "idle", loop = "idle",
           Reached
    PROVE  wait >= Delay
<1>1. /\ Clock \in Nat \ {0} /\ Delay \in Nat /\ MaxWait \in Nat
      /\ Delay <= MaxWait /\ 2 * MaxWait < Clock
    BY WebControlAssumption
<1>2. /\ now \in 0..(Clock - 1) /\ restartAt \in 0..(Clock - 1)
      /\ wait \in 0..MaxWait
      /\ restartAt + wait - Delay - now \in {-Clock, 0, Clock}
    BY DEF ControlInvariant, ControlTypeOK, DueInTime
<1>3. now - restartAt \in (1 - Clock)..(2 * Clock - 1)
    BY <1>1, <1>2
<1>4. (now - restartAt) % Clock
         = IF now - restartAt < 0 THEN (now - restartAt) + Clock
           ELSE now - restartAt
  <2>1. now - restartAt < Clock
    BY <1>1, <1>2
  <2> DEFINE d == now - restartAt
  <2>2. d % Clock = IF d < 0 THEN d + Clock ELSE IF d < Clock THEN d ELSE d - Clock
    BY <1>1, <1>3, Wrap, Zenon
  <2> HIDE DEF d
  <2>3. d < Clock => d % Clock = IF d < 0 THEN d + Clock ELSE d
    BY <2>2, Zenon
  <2> QED BY <2>1, <2>3, Zenon DEF d
<1>5. (now - restartAt) % Clock < Clock \div 2 /\ 2 * (Clock \div 2) <= Clock
    BY <1>1 DEF Reached
<1> SUFFICES ASSUME wait < Delay PROVE FALSE
    BY <1>1, <1>2
<1>6. \/ now - restartAt = wait - Delay
      \/ now - restartAt = wait - Delay + Clock
      \/ now - restartAt = wait - Delay - Clock
    BY <1>1, <1>2
<1>7. (now - restartAt) % Clock = wait - Delay + Clock
    BY <1>1, <1>2, <1>4, <1>6
<1> QED BY <1>1, <1>2, <1>5, <1>7

\* A request is due Delay later, up to a turn of the clock.
LEMMA DueAfterDelay ==
    ASSUME ControlTypeOK, SetTime
    PROVE  /\ restartAt' \in 0..(Clock - 1)
           /\ restartAt' + 0 - Delay - now \in {-Clock, 0, Clock}
<1>1. Clock \in Nat \ {0} /\ Delay \in 0..(Clock - 1) /\ now \in 0..(Clock - 1)
    BY WebControlAssumption DEF ControlTypeOK
<1>2. restartAt' = (now + Delay) % Clock
    BY DEF SetTime
<1>3. restartAt' = IF now + Delay < Clock THEN now + Delay
                   ELSE now + Delay - Clock
    BY <1>1, <1>2, ClockForward, Zenon
<1> QED BY <1>1, <1>3

\* A handler's step keeps what was promised, and when it is due.
LEMMA HandlerKeeps ==
    ASSUME ControlInvariant, Cooperative = TRUE,
           HttpStep \/ \E r \in Requests : Answer(r)
    PROVE  ControlInvariant'
<1> USE DEF ControlInvariant, ControlTypeOK, OneTask, PromiseKept, DueInTime,
            pending, ghosts, Scopes, RestartReasons, Requests
<1>1. /\ Clock \in Nat \ {0} /\ Delay \in Nat /\ MaxWait \in Nat
      /\ MaxRequests \in Nat /\ Delay < Clock
    BY WebControlAssumption
<1>2. ASSUME NEW r \in Requests, Answer(r) PROVE ControlInvariant'
    BY <1>1, <1>2 DEF Answer, Resets
<1>3. CASE SetScope
    BY <1>3 DEF SetScope, HttpGoto
<1>4. CASE SetReset
    BY <1>4 DEF SetReset, HttpGoto
<1>5. CASE SetReason
    BY <1>5 DEF SetReason, HttpGoto
<1>6. CASE SetPending
    BY <1>6 DEF SetPending, HttpGoto
<1>7. CASE SetTime
  <2>1. restartAt' \in 0..(Clock - 1)
        /\ restartAt' + 0 - Delay - now \in {-Clock, 0, Clock}
    BY <1>7, DueAfterDelay
  <2> QED BY <1>7, <2>1 DEF SetTime, Idle
<1> QED BY <1>2, <1>3, <1>4, <1>5, <1>6, <1>7 DEF HttpStep

\* The state every boot begins in.
Booted ==
    /\ now = 0 /\ restartPending = FALSE /\ resetPending = FALSE
    /\ pendingResetScope = "Factory" /\ pendingRestartReason = "WebRequest"
    /\ restartAt = 0 /\ http = Idle /\ loop = "idle"
    /\ wait = MaxWait /\ promised = "none" /\ ran = "none" /\ requests = 0

\* A boot starts with no request.
LEMMA AtBoot == Booted => ControlInvariant
<1> SUFFICES ASSUME Booted PROVE ControlInvariant
    OBVIOUS
<1>1. /\ 0 \in 0..(Clock - 1) /\ MaxWait \in 0..MaxWait
      /\ 0 \in 0..MaxRequests
    BY WebControlAssumption
<1>2. ~restartPending /\ restartPending \in BOOLEAN /\ resetPending \in BOOLEAN
    BY Zenon DEF Booted
<1>3. http.at = "idle" /\ loop = "idle" /\ promised = "none"
    BY DEF Booted, Idle
<1>4. ControlTypeOK
    BY <1>1, <1>2
    DEF Booted, ControlTypeOK, Idle, Scopes, RestartReasons, Requests
<1> QED BY <1>2, <1>3, <1>4
        DEF ControlInvariant, OneTask, PromiseKept, DueInTime

\* So does the boot after a restart.
LEMMA AfterRestart == RunRestart => ControlInvariant'
<1>1. RunRestart => Booted'
    BY DEF RunRestart, Boot, Booted
<1> QED BY <1>1, AtBoot, PTL

\* So does a step of the loop.
LEMMA LoopKeeps ==
    ASSUME ControlInvariant, Cooperative = TRUE, LoopStep
    PROVE  ControlInvariant'
<1> USE DEF ControlInvariant, ControlTypeOK, OneTask, PromiseKept, DueInTime,
            pending, ghosts, LoopGoto
<1>1. CASE RestartDue
  <2>1. wait >= Delay
    BY <1>1, ReachedInTime DEF RestartDue, Yielded
  <2> QED BY <1>1, <2>1 DEF RestartDue, Yielded
<1>2. CASE TakeRestart
    BY <1>2 DEF TakeRestart
<1>3. CASE TakeReset
    BY <1>3 DEF TakeReset
<1>4. CASE RunReset
    BY <1>4 DEF RunReset
<1>5. CASE RunRestart
    BY <1>5, AfterRestart
<1> QED BY <1>1, <1>2, <1>3, <1>4, <1>5 DEF LoopStep

\* The clock is a reading further, or starts again.
LEMMA NextTick ==
    ASSUME ControlTypeOK, Tick
    PROVE  now' = IF now + 1 < Clock THEN now + 1 ELSE 0
<1>1. Clock \in Nat \ {0} /\ now \in 0..(Clock - 1) /\ now' = (now + 1) % Clock
    BY WebControlAssumption DEF ControlTypeOK, Tick
<1>2. CASE Clock = 1
    BY <1>1, <1>2
<1>3. CASE Clock # 1
  <2>1. 1 \in 0..(Clock - 1)
    BY <1>1, <1>3
  <2>2. (now + 1) % Clock = IF now + 1 < Clock THEN now + 1 ELSE now + 1 - Clock
    BY <1>1, <2>1, ClockForward, Zenon
  <2>3. now + 1 < Clock \/ now + 1 - Clock = 0
    BY <1>1
  <2> QED BY <1>1, <2>2, <2>3, Zenon
<1> QED BY <1>2, <1>3

\* And the passing of time.
LEMMA TimeKeeps ==
    ASSUME ControlInvariant, Tick
    PROVE  ControlInvariant'
<1> USE DEF ControlInvariant, ControlTypeOK, OneTask, PromiseKept, DueInTime,
            pending
<1>1. /\ Clock \in Nat \ {0} /\ Delay \in Nat /\ MaxWait \in Nat
      /\ Delay <= MaxWait /\ 2 * MaxWait < Clock
    BY WebControlAssumption
<1>3. now' = IF now + 1 < Clock THEN now + 1 ELSE 0
    BY NextTick
<1>4. now' \in 0..(Clock - 1) /\ wait' \in 0..MaxWait
    BY <1>1, <1>3 DEF Tick
<1>5. restartPending => restartAt + wait' - Delay - now' \in {-Clock, 0, Clock}
    BY <1>1, <1>3 DEF Tick
<1> QED BY <1>4, <1>5 DEF Tick

\* The delayed restart keeps its invariant.
LEMMA ControlHolds ==
    ASSUME Cooperative = TRUE
    PROVE  ControlSpec => []ControlInvariant
<1>1. ControlInit => ControlInvariant
    BY AtBoot DEF ControlInit, Booted
<1>2. ControlInvariant /\ [ControlNext]_controlVars => ControlInvariant'
  <2>1. ASSUME ControlInvariant, UNCHANGED controlVars PROVE ControlInvariant'
    BY <2>1 DEF controlVars, pending, ghosts, ControlInvariant, ControlTypeOK,
       OneTask, PromiseKept, DueInTime
  <2> QED BY <2>1, HandlerKeeps, LoopKeeps, TimeKeeps DEF ControlNext
<1> QED BY <1>1, <1>2, PTL DEF ControlSpec

\* A reset that was answered with success is run before the device restarts,
\* and named as the reason, whatever other requests arrive within the delay.
THEOREM ResetIsRun ==
    ASSUME Cooperative = TRUE
    PROVE  ControlSpec => []ResetIsPreserved
<1>1. ControlInvariant => ResetIsPreserved
    BY DEF ControlInvariant, OneTask, PromiseKept, ResetIsPreserved
<1> QED BY <1>1, ControlHolds, PTL

\* The client has the whole delay to receive the answer to its last request,
\* also when millis() wraps meanwhile.
THEOREM AnswersHaveTime ==
    ASSUME Cooperative = TRUE
    PROVE  ControlSpec => []AnswerIsDelivered
<1>1. ControlInvariant => AnswerIsDelivered
    BY DEF ControlInvariant, DueInTime, AnswerIsDelivered
<1> QED BY <1>1, ControlHolds, PTL

\* A reset is carried out only if one has been asked for in this boot.
ResetIsAsked == loop = "runReset" \/ ran # "none" => promised # "none"

\* What leads to a reset, from the request to the loop.
AskedFor ==
    /\ http \in [at: {"idle", "scope", "flag", "reason", "pending", "time"},
                 for: Requests \cup {"none"},
                 reason: RestartReasons \cup {"none"}]
    /\ http.at \in {"scope", "flag"} => promised # "none"
    /\ resetPending => promised # "none"
    /\ ResetIsAsked

\* No step of a handler or of the loop leads to a reset from anything else,
\* in whatever order the two tasks take them.
LEMMA AskedNext ==
    ASSUME AskedFor, [ControlNext]_controlVars
    PROVE  AskedFor'
<1> USE DEF AskedFor, ResetIsAsked
<1>1. ASSUME NEW r \in Requests, Answer(r) PROVE AskedFor'
    BY <1>1 DEF Answer, Resets, Requests, Scopes, RestartReasons, pending
<1>2. ASSUME HttpStep PROVE AskedFor'
    BY <1>2 DEF HttpStep, SetScope, SetReset, SetReason, SetPending, SetTime,
       HttpGoto, Idle, ghosts
<1>3. ASSUME LoopStep PROVE AskedFor'
  <2>1. CASE RunRestart
    BY <2>1 DEF RunRestart, Boot, Idle
  <2>2. CASE RestartDue \/ TakeRestart \/ TakeReset \/ RunReset
    BY <2>2 DEF RestartDue, TakeRestart, TakeReset, RunReset, LoopGoto,
       pending, ghosts
  <2> QED BY <1>3, <2>1, <2>2 DEF LoopStep
<1>4. ASSUME Tick \/ UNCHANGED controlVars PROVE AskedFor'
    BY <1>4 DEF Tick, controlVars, pending, ghosts
<1> QED BY <1>1, <1>2, <1>3, <1>4 DEF ControlNext

\* ResetIsAsked: on both platforms, also where handlers and the loop overlap,
\* a request for a restart or a new password never ends in a reset that
\* nobody has asked for.
THEOREM ResetsAreAsked == ControlSpec => []ResetIsAsked
<1>1. ControlInit => AskedFor
    BY DEF ControlInit, AskedFor, ResetIsAsked, Idle
<1>2. AskedFor => ResetIsAsked
    BY DEF AskedFor
<1> QED BY <1>1, <1>2, AskedNext, PTL DEF ControlSpec

-----------------------------------------------------------------------------
(* The streamed responses.  While no late release has disturbed the        *)
(* permits, the permit of a response is a bijection from the responses of  *)
(* this life to the permits in use: that is what makes the count that of   *)
(* the responses.  The slots are never started again, so theirs hold       *)
(* whatever the permits do.                                                *)

Fields == {"kind", "life", "body", "permit", "permitGeneration", "slot",
           "slotGeneration", "stream"}

Busy(table) == {p \in Permit : table[p].active}

\* Every holder has an entry of its own.
SlotsFit(table, Holders, answers) ==
    /\ table \in [Permit -> Entry]
    /\ \A r \in Holders : /\ answers[r].slot \in Permit
                          /\ Holds(table, answers[r].slot,
                                   answers[r].slotGeneration)
    /\ \A q, r \in Holders : answers[q].slot = answers[r].slot => q = r

ResponsesFit ==
    /\ responses = [r \in Request |-> responses[r]]
    /\ \A r \in Open : /\ Fields \subseteq DOMAIN responses[r]
                       /\ responses[r].kind \in {"page", "status", "logo"}
                       /\ responses[r].permit \in Permit
                       /\ responses[r].life \in Nat
                       /\ responses[r].life <= life

PermitsFit ==
    /\ permits \in [Permit -> Entry]
    /\ maxConcurrentStreamResponses \in Permit
    /\ up \in BOOLEAN /\ disturbed \in BOOLEAN /\ life \in Nat
    /\ activeStreamResponses = Cardinality(Busy(permits))
    /\ activeStreamResponses <= maxConcurrentStreamResponses
    /\ ~up => Busy(permits) = {}

CurrentFit ==
    /\ ~disturbed => \A q, r \in Current :
                        responses[q].permit = responses[r].permit => q = r
    /\ up /\ ~disturbed =>
          /\ \A r \in Current : Holds(permits, responses[r].permit,
                                      responses[r].permitGeneration)
          /\ \A p \in Busy(permits) :
                \E r \in Current : responses[r].permit = p

StreamsFit ==
    /\ PermitsFit /\ ResponsesFit /\ CurrentFit
    /\ SlotsFit(statusResponseSlots, Statuses, responses)
    /\ SlotsFit(logoResponseSlots, Logos, responses)

\* A generation stays in its width.
LEMMA Generation ==
    ASSUME NEW g \in Int
    PROVE  NextGeneration(g) \in 0..(Generations - 1)
<1>1. Generations \in Nat \ {0, 1}
    BY StreamAdmissionAssumption
<1>2. (g + 1) % Generations \in 0..(Generations - 1)
    BY <1>1
<1>3. 1 \in 0..(Generations - 1)
    BY <1>1
<1> QED BY <1>2, <1>3, Zenon DEF NextGeneration

\* Taking the first free entry of a table, and freeing one.
LEMMA TakingAnEntry ==
    ASSUME NEW table \in [Permit -> Entry], NEW p \in FirstFree(table)
    PROVE  /\ p \in Permit /\ ~table[p].active
           /\ Taken(table, p) \in [Permit -> Entry]
           /\ Holds(Taken(table, p), p, NextGeneration(table[p].generation))
           /\ \A q \in Permit : q # p => Taken(table, p)[q] = table[q]
           /\ Busy(Taken(table, p)) = Busy(table) \cup {p}
<1>1. p \in Permit /\ ~table[p].active
    BY DEF FirstFree
<1> DEFINE g == NextGeneration(table[p].generation)
<1>2. g \in 0..(Generations - 1)
  <2>1. table[p].generation \in Int
      BY <1>1, StreamAdmissionAssumption DEF Entry
  <2> QED BY <2>1, Generation
<1>3. Taken(table, p) = [table EXCEPT ![p] = [active |-> TRUE,
                                              generation |-> g]]
    BY DEF Taken
<1> HIDE DEF g
<1>4. [active |-> TRUE, generation |-> g] \in Entry
    BY <1>2 DEF Entry
<1>5. /\ Taken(table, p) \in [Permit -> Entry]
      /\ Taken(table, p)[p] = [active |-> TRUE, generation |-> g]
      /\ \A q \in Permit : q # p => Taken(table, p)[q] = table[q]
    BY <1>1, <1>3, <1>4
<1>6. Holds(Taken(table, p), p, g)
    BY <1>5 DEF Holds
<1>7. Busy(Taken(table, p)) = Busy(table) \cup {p}
    BY <1>1, <1>5 DEF Busy
<1> QED BY <1>1, <1>5, <1>6, <1>7 DEF g

\* Freeing an entry changes it only for the generation that holds it.
LEMMA FreeingAnEntry ==
    ASSUME NEW table \in [Permit -> Entry], NEW p \in Permit, NEW g
    PROVE  /\ Freed(table, p, g) \in [Permit -> Entry]
           /\ ~Holds(table, p, g) => Freed(table, p, g) = table
           /\ Holds(table, p, g) => /\ p \in Busy(table)
                                    /\ Busy(Freed(table, p, g))
                                         = Busy(table) \ {p}
           /\ \A q \in Permit : q # p => Freed(table, p, g)[q] = table[q]
<1>1. CASE ~Holds(table, p, g)
    BY <1>1 DEF Freed
<1>2. CASE Holds(table, p, g)
  <2>1. Freed(table, p, g) = [table EXCEPT ![p].active = FALSE]
      BY <1>2 DEF Freed
  <2>2. [table[p] EXCEPT !.active = FALSE] \in Entry
      BY DEF Entry
  <2>3. /\ Freed(table, p, g) \in [Permit -> Entry]
        /\ ~Freed(table, p, g)[p].active
        /\ \A q \in Permit : q # p => Freed(table, p, g)[q] = table[q]
      BY <2>1, <2>2 DEF Entry
  <2>4. table[p].active
      BY <1>2 DEF Holds
  <2>5. p \in Busy(table) /\ Busy(Freed(table, p, g)) = Busy(table) \ {p}
      BY <2>3, <2>4 DEF Busy
  <2> QED BY <1>2, <2>3, <2>5
<1> QED BY <1>1, <1>2

\* The permits in use can be counted.
LEMMA CountingEntries ==
    ASSUME NEW table
    PROVE  /\ IsFiniteSet(Busy(table)) /\ Cardinality(Busy(table)) \in Nat
           /\ \A p \in Permit \ Busy(table) :
                 Cardinality(Busy(table) \cup {p})
                   = Cardinality(Busy(table)) + 1
           /\ \A p \in Busy(table) :
                 /\ Cardinality(Busy(table)) > 0
                 /\ Cardinality(Busy(table) \ {p})
                      = Cardinality(Busy(table)) - 1
<1>1. IsFiniteSet(Permit)
  <2>1. 1 \in Int /\ Permits \in Int
      BY StreamAdmissionAssumption
  <2> QED BY <2>1, FS_Interval DEF Permit
<1>2. IsFiniteSet(Busy(table))
  <2>1. Busy(table) \in SUBSET Permit
      BY DEF Busy
  <2> QED BY <1>1, <2>1, FS_Subset
<1>3. Cardinality(Busy(table)) \in Nat
    BY <1>2, FS_CardinalityType
<1>4. \A p \in Permit \ Busy(table) :
          Cardinality(Busy(table) \cup {p}) = Cardinality(Busy(table)) + 1
    BY <1>2, FS_AddElement
<1>5. \A p \in Busy(table) :
          Cardinality(Busy(table) \ {p}) = Cardinality(Busy(table)) - 1
    BY <1>2, FS_RemoveElement
<1>6. \A p \in Busy(table) : Cardinality(Busy(table)) > 0
  <2>1. Cardinality(Busy(table)) = 0 => Busy(table) = {}
      BY <1>2, FS_EmptySet
  <2> QED BY <1>3, <2>1
<1> QED BY <1>2, <1>3, <1>4, <1>5, <1>6

\* The slots stay as they should be under a response that enters ...
LEMMA SlotTaken ==
    ASSUME NEW table, NEW H, NEW a, NEW b, NEW r, NEW s,
           SlotsFit(table, H, a), s \in FirstFree(table),
           \A q \in H : b[q] = a[q], r \notin H,
           b[r].slot = s,
           b[r].slotGeneration = NextGeneration(table[s].generation)
    PROVE  SlotsFit(Taken(table, s), H \cup {r}, b)
<1>1. table \in [Permit -> Entry]
    BY DEF SlotsFit
<1> DEFINE new == Taken(table, s)
<1>2. /\ s \in Permit /\ ~table[s].active
      /\ new \in [Permit -> Entry]
      /\ Holds(new, s, NextGeneration(table[s].generation))
      /\ \A q \in Permit : q # s => new[q] = table[q]
    BY <1>1, TakingAnEntry
<1> HIDE DEF new
<1>3. \A q \in H : /\ b[q].slot \in Permit /\ b[q].slot # s
                   /\ Holds(new, b[q].slot, b[q].slotGeneration)
    BY <1>2 DEF SlotsFit, Holds
<1>4. \A q \in H \cup {r} : /\ b[q].slot \in Permit
                            /\ Holds(new, b[q].slot, b[q].slotGeneration)
    BY <1>2, <1>3
<1>5. \A q, t \in H \cup {r} : b[q].slot = b[t].slot => q = t
    BY <1>3 DEF SlotsFit
<1> QED BY <1>2, <1>4, <1>5 DEF SlotsFit, new

\* ... one that leaves ...
LEMMA SlotFreed ==
    ASSUME NEW table, NEW H, NEW a, NEW b, NEW r \in H,
           SlotsFit(table, H, a), \A q \in H \ {r} : b[q] = a[q]
    PROVE  SlotsFit(Freed(table, a[r].slot, a[r].slotGeneration), H \ {r}, b)
<1> DEFINE new == Freed(table, a[r].slot, a[r].slotGeneration)
<1>1. table \in [Permit -> Entry] /\ a[r].slot \in Permit
    BY DEF SlotsFit
<1>2. /\ new \in [Permit -> Entry]
      /\ \A q \in Permit : q # a[r].slot => new[q] = table[q]
    BY <1>1, FreeingAnEntry
<1> HIDE DEF new
<1>3. \A q \in H \ {r} : /\ b[q].slot \in Permit
                         /\ Holds(new, b[q].slot, b[q].slotGeneration)
    BY <1>1, <1>2 DEF SlotsFit, Holds
<1>4. \A q, t \in H \ {r} : b[q].slot = b[t].slot => q = t
    BY DEF SlotsFit
<1> QED BY <1>2, <1>3, <1>4 DEF SlotsFit, new

\* ... and one that goes on.
LEMMA SlotKept ==
    ASSUME NEW table, NEW H, NEW a, NEW b, SlotsFit(table, H, a),
           \A q \in H : /\ b[q].slot = a[q].slot
                        /\ b[q].slotGeneration = a[q].slotGeneration
    PROVE  SlotsFit(table, H, b)
    BY DEF SlotsFit

\* The answer a handler gives: a permit and, for some, a slot.
LEMMA Opening ==
    ASSUME StreamsFit, up, NEW r \in Request, responses[r] = NoResponse,
           NEW p \in Available(TRUE), TryAcquireStreamPermit(p),
           NEW kind \in {"page", "status", "logo"},
           NEW s, NEW g, NEW stream,
           responses' = [responses EXCEPT ![r] =
                            Admitted(kind, p, s, g, stream)],
           UNCHANGED <<up, life, disturbed>>
    PROVE  /\ PermitsFit' /\ ResponsesFit' /\ CurrentFit'
           /\ r \notin Open
           /\ \A q \in Open : responses'[q] = responses[q]
           /\ Statuses' = IF kind = "status" THEN Statuses \cup {r}
                          ELSE Statuses
           /\ Logos' = IF kind = "logo" THEN Logos \cup {r} ELSE Logos
<1> DEFINE new == Admitted(kind, p, s, g, stream)
           generation == NextGeneration(permits[p].generation)
<1>1. /\ new.kind = kind /\ new.life = life /\ new.permit = p
      /\ new.permitGeneration = generation
      /\ new.slot = s /\ new.slotGeneration = g
      /\ DOMAIN new = Fields /\ new # NoResponse
  <2>1. /\ new.kind = kind /\ new.life = life /\ new.permit = p
        /\ new.permitGeneration = generation
        /\ new.slot = s /\ new.slotGeneration = g
        /\ DOMAIN new = Fields
      BY DEF Admitted, Fields
  <2>2. NoResponse.kind = "none"
      BY DEF NoResponse
  <2> HIDE DEF new
  <2>3. new # NoResponse
      BY <2>1, <2>2
  <2> QED BY <2>1, <2>3
<1>2. /\ permits \in [Permit -> Entry] /\ life \in Nat
      /\ activeStreamResponses = Cardinality(Busy(permits))
      /\ activeStreamResponses < maxConcurrentStreamResponses
      /\ p \in FirstFree(permits)
    BY DEF StreamsFit, PermitsFit, Available
<1>3. /\ p \in Permit /\ ~permits[p].active
      /\ permits' \in [Permit -> Entry]
      /\ Holds(permits', p, generation)
      /\ \A q \in Permit : q # p => permits'[q] = permits[q]
      /\ Busy(permits') = Busy(permits) \cup {p}
    BY <1>2, TakingAnEntry DEF TryAcquireStreamPermit
<1> HIDE DEF new, generation
<1>4. responses' = [q \in Request |-> IF q = r THEN new ELSE responses[q]]
  <2>1. responses = [q \in Request |-> responses[q]]
      BY DEF StreamsFit, ResponsesFit
  <2>2. responses' = [responses EXCEPT ![r] = new]
      BY DEF new
  <2> QED BY <2>1, <2>2
<1>5. /\ responses'[r] = new
      /\ \A q \in Request : q # r => responses'[q] = responses[q]
    BY <1>4
<1>6. r \notin Open /\ Open' = Open \cup {r}
  <2>1. r \notin Open
      BY DEF Open
  <2>2. \A q \in Request : q \in Open' <=> q \in Open \/ q = r
      BY <1>1, <1>5 DEF Open, NoResponse
  <2> QED BY <2>1, <2>2 DEF Open
<1>7. \A q \in Open : responses'[q] = responses[q]
    BY <1>5, <1>6 DEF Open
<1>8. /\ Statuses' = IF kind = "status" THEN Statuses \cup {r} ELSE Statuses
      /\ Logos' = IF kind = "logo" THEN Logos \cup {r} ELSE Logos
      /\ Current' = Current \cup {r}
  <2>1. Current' = Current \cup {r}
      BY <1>1, <1>5, <1>6, <1>7 DEF Current
  <2>2. Statuses' = IF kind = "status" THEN Statuses \cup {r} ELSE Statuses
      BY <1>1, <1>5, <1>6, <1>7 DEF Statuses
  <2>3. Logos' = IF kind = "logo" THEN Logos \cup {r} ELSE Logos
      BY <1>1, <1>5, <1>6, <1>7 DEF Logos
  <2> QED BY <2>1, <2>2, <2>3
<1>9. PermitsFit'
  <2>1. /\ activeStreamResponses' = activeStreamResponses + 1
        /\ maxConcurrentStreamResponses' = maxConcurrentStreamResponses
      BY DEF TryAcquireStreamPermit
  <2>2. p \notin Busy(permits)
      BY <1>3 DEF Busy
  <2>3. Cardinality(Busy(permits')) = Cardinality(Busy(permits)) + 1
      BY <1>3, <2>2, CountingEntries
  <2>4. /\ activeStreamResponses \in Nat
        /\ maxConcurrentStreamResponses \in Permit /\ Permit \subseteq Nat
      BY <1>2, CountingEntries DEF StreamsFit, PermitsFit, Permit
  <2>5. activeStreamResponses' <= maxConcurrentStreamResponses'
      BY <1>2, <2>1, <2>4
  <2> QED BY <1>2, <1>3, <2>1, <2>3, <2>5 DEF StreamsFit, PermitsFit
<1>10. ResponsesFit'
  <2>1. responses' = [q \in Request |-> responses'[q]]
      BY <1>4
  <2>2. ASSUME NEW q \in Open'
        PROVE  /\ Fields \subseteq DOMAIN responses'[q]
               /\ responses'[q].kind \in {"page", "status", "logo"}
               /\ responses'[q].permit \in Permit
               /\ responses'[q].life \in Nat
               /\ responses'[q].life <= life
    <3>1. CASE q = r
        BY <1>1, <1>2, <1>3, <1>5, <3>1
    <3>2. CASE q # r
        BY <1>6, <1>7, <2>2, <3>2 DEF StreamsFit, ResponsesFit
    <3> QED BY <3>1, <3>2
  <2> QED BY <2>1, <2>2 DEF ResponsesFit
<1>11. CurrentFit'
  <2> SUFFICES ASSUME ~disturbed PROVE CurrentFit'
      BY DEF CurrentFit
  <2>1. \A q \in Current : /\ responses'[q] = responses[q]
                           /\ Holds(permits, responses[q].permit,
                                    responses[q].permitGeneration)
                           /\ responses[q].permit \in Permit
      BY <1>7 DEF Current, StreamsFit, CurrentFit, ResponsesFit
  <2>2. \A q \in Current : responses[q].permit # p
      BY <1>3, <2>1 DEF Holds
  <2>3. \A q, t \in Current' :
            responses'[q].permit = responses'[t].permit => q = t
      BY <1>1, <1>5, <1>8, <2>1, <2>2 DEF StreamsFit, CurrentFit
  <2>4. \A q \in Current' : Holds(permits', responses'[q].permit,
                                  responses'[q].permitGeneration)
      BY <1>1, <1>3, <1>5, <1>8, <2>1, <2>2 DEF Holds
  <2>5. \A t \in Busy(permits') : \E q \in Current' : responses'[q].permit = t
      BY <1>1, <1>3, <1>5, <1>8, <2>1 DEF StreamsFit, CurrentFit
  <2> QED BY <2>3, <2>4, <2>5 DEF CurrentFit
<1> QED BY <1>1, <1>5, <1>6, <1>7, <1>8, <1>9, <1>10, <1>11

\* A permit that is given back has used up a generation.
LEMMA Returning ==
    ASSUME StreamsFit, NEW p \in Available(TRUE), Returned(p),
           UNCHANGED <<up, life, slots, responses, disturbed>>
    PROVE  StreamsFit'
<1>1. /\ permits \in [Permit -> Entry]
      /\ p \in Permit /\ ~permits[p].active
    BY DEF StreamsFit, PermitsFit, Available, FirstFree
<1> DEFINE g == NextGeneration(permits[p].generation)
<1>2. permits' = [permits EXCEPT ![p].generation = g]
    BY DEF Returned
<1>3. g \in 0..(Generations - 1)
  <2>1. permits[p].generation \in Int
      BY <1>1, StreamAdmissionAssumption DEF Entry
  <2> QED BY <2>1, Generation
<1> HIDE DEF g
<1>4. /\ permits' \in [Permit -> Entry] /\ ~permits'[p].active
      /\ \A q \in Permit : q # p => permits'[q] = permits[q]
    BY <1>1, <1>2, <1>3 DEF Entry
<1>5. Busy(permits') = Busy(permits)
    BY <1>1, <1>4 DEF Busy
<1>6. /\ Open' = Open /\ Current' = Current /\ Statuses' = Statuses
      /\ Logos' = Logos
    BY DEF Open, Current, Statuses, Logos
<1>7. PermitsFit' /\ ResponsesFit'
    BY <1>4, <1>5, <1>6 DEF StreamsFit, PermitsFit, ResponsesFit, Returned
<1>8. CurrentFit'
  <2>1. up /\ ~disturbed => \A r \in Current :
            Holds(permits', responses[r].permit, responses[r].permitGeneration)
      BY <1>1, <1>4 DEF StreamsFit, CurrentFit, ResponsesFit, Current, Holds
  <2> QED BY <1>5, <1>6, <2>1 DEF StreamsFit, CurrentFit
<1>9. /\ SlotsFit(statusResponseSlots, Statuses, responses)'
      /\ SlotsFit(logoResponseSlots, Logos, responses)'
    BY <1>6 DEF StreamsFit, slots
<1> QED BY <1>7, <1>8, <1>9 DEF StreamsFit

\* The handlers.
LEMMA Getting ==
    ASSUME StreamsFit, NEW r \in Request, NEW path, NEW authenticated,
           Get(r, path, authenticated)
    PROVE  StreamsFit'
<1>1. CASE UNCHANGED streamVars
    BY <1>1 DEF streamVars, admission, slots, StreamsFit, PermitsFit,
       ResponsesFit, CurrentFit, Open, Current, Statuses, Logos, SlotsFit
<1>2. ASSUME NEW allocated \in BOOLEAN, HandlePage(r, allocated)
      PROVE  StreamsFit'
  <2>1. PICK p \in Available(TRUE) :
            IF allocated
            THEN /\ TryAcquireStreamPermit(p)
                 /\ responses' = [responses EXCEPT ![r] =
                       WithoutSlot("page", p, [left |-> Chunks])]
            ELSE Returned(p) /\ UNCHANGED responses
      BY <1>2 DEF HandlePage
  <2>2. /\ up /\ responses[r] = NoResponse
        /\ UNCHANGED <<up, life, slots, disturbed>>
      BY <1>2 DEF HandlePage
  <2>3. CASE ~allocated
      BY <2>1, <2>2, <2>3, Returning
  <2>4. CASE allocated
    <3> DEFINE stream == [left |-> Chunks]
    <3>0. responses' = [responses EXCEPT ![r] =
              Admitted("page", p, 0, 0, stream)]
        BY <2>1, <2>4 DEF WithoutSlot
    <3> HIDE DEF stream
    <3>1. /\ PermitsFit' /\ ResponsesFit' /\ CurrentFit'
          /\ \A q \in Open : responses'[q] = responses[q]
          /\ Statuses' = Statuses /\ Logos' = Logos
        BY <2>1, <2>2, <2>4, <3>0, Opening
    <3>2. /\ SlotsFit(statusResponseSlots', Statuses', responses')
          /\ SlotsFit(logoResponseSlots', Logos', responses')
        BY <2>2, <3>1, SlotKept DEF StreamsFit, slots, Statuses, Logos
    <3> QED BY <3>1, <3>2 DEF StreamsFit
  <2> QED BY <2>3, <2>4
<1>3. ASSUME NEW text, HandleWebLogo(r, text) PROVE StreamsFit'
  <2>1. PICK p \in Available(TRUE) :
          \/ \E s \in FirstFree(logoResponseSlots) :
                /\ TryAcquireStreamPermit(p)
                /\ logoResponseSlots' = Taken(logoResponseSlots, s)
                /\ responses' = [responses EXCEPT ![r] =
                      WithSlot("logo", p, logoResponseSlots, s,
                               Logo!Start(text))]
          \/ /\ FirstFree(logoResponseSlots) = {}
             /\ Returned(p) /\ UNCHANGED <<logoResponseSlots, responses>>
      BY <1>3 DEF HandleWebLogo
  <2>2. /\ up /\ responses[r] = NoResponse
        /\ UNCHANGED <<up, life, statusResponseSlots, disturbed>>
      BY <1>3 DEF HandleWebLogo
  <2>3. CASE Returned(p) /\ UNCHANGED <<logoResponseSlots, responses>>
      BY <2>1, <2>2, <2>3, Returning DEF slots
  <2>4. ASSUME NEW s \in FirstFree(logoResponseSlots),
               TryAcquireStreamPermit(p),
               logoResponseSlots' = Taken(logoResponseSlots, s),
               responses' = [responses EXCEPT ![r] =
                   WithSlot("logo", p, logoResponseSlots, s,
                            Logo!Start(text))]
        PROVE  StreamsFit'
    <3> DEFINE stream == Logo!Start(text)
    <3>4. PICK g : g = NextGeneration(logoResponseSlots[s].generation)
        OBVIOUS
    <3>0. responses' = [responses EXCEPT ![r] =
              Admitted("logo", p, s, g, stream)]
        BY <2>4, <3>4 DEF WithSlot
    <3> HIDE DEF stream
    <3>1. /\ PermitsFit' /\ ResponsesFit' /\ CurrentFit' /\ r \notin Open
          /\ \A q \in Open : responses'[q] = responses[q]
          /\ responses'[r].slot = s /\ responses'[r].slotGeneration = g
          /\ Statuses' = Statuses /\ Logos' = Logos \cup {r}
      <4>1. /\ UNCHANGED <<up, life, disturbed>> /\ up
            /\ responses[r] = NoResponse /\ TryAcquireStreamPermit(p)
            /\ "logo" \in {"page", "status", "logo"}
          BY <2>2, <2>4
      <4>2. /\ PermitsFit' /\ ResponsesFit' /\ CurrentFit' /\ r \notin Open
            /\ \A q \in Open : responses'[q] = responses[q]
            /\ Statuses' = IF "logo" = "status" THEN Statuses \cup {r}
                           ELSE Statuses
            /\ Logos' = IF "logo" = "logo" THEN Logos \cup {r} ELSE Logos
          BY <3>0, <4>1, Opening
      <4>3. responses'[r].slot = s /\ responses'[r].slotGeneration = g
          BY <3>0 DEF Admitted, StreamsFit, ResponsesFit
      <4> QED BY <4>2, <4>3
    <3>2. /\ SlotsFit(statusResponseSlots', Statuses', responses')
        BY <2>2, <3>1, SlotKept DEF StreamsFit, Statuses
    <3>3. SlotsFit(logoResponseSlots', Logos', responses')
      <4>1. /\ SlotsFit(logoResponseSlots, Logos, responses)
            /\ r \notin Logos /\ \A q \in Logos : responses'[q] = responses[q]
          BY <3>1 DEF StreamsFit, Logos
      <4>2. responses'[r].slotGeneration
              = NextGeneration(logoResponseSlots[s].generation)
          BY <3>1, <3>4
      <4>3. SlotsFit(Taken(logoResponseSlots, s), Logos \cup {r}, responses')
          BY <2>4, <3>1, <4>1, <4>2, SlotTaken
      <4> QED BY <2>4, <3>1, <4>3
    <3> QED BY <3>1, <3>2, <3>3 DEF StreamsFit
  <2> QED BY <2>1, <2>3, <2>4
<1>4. CASE HandleAPIStatus(r)
  <2>1. PICK p \in Available(TRUE) :
          \/ \E s \in FirstFree(statusResponseSlots) :
                /\ TryAcquireStreamPermit(p)
                /\ statusResponseSlots' = Taken(statusResponseSlots, s)
                /\ responses' = [responses EXCEPT ![r] =
                      WithSlot("status", p, statusResponseSlots, s,
                               [left |-> Chunks])]
          \/ /\ FirstFree(statusResponseSlots) = {}
             /\ Returned(p) /\ UNCHANGED <<statusResponseSlots, responses>>
      BY <1>4 DEF HandleAPIStatus
  <2>2. /\ up /\ responses[r] = NoResponse
        /\ UNCHANGED <<up, life, logoResponseSlots, disturbed>>
      BY <1>4 DEF HandleAPIStatus
  <2>3. CASE Returned(p) /\ UNCHANGED <<statusResponseSlots, responses>>
      BY <2>1, <2>2, <2>3, Returning DEF slots
  <2>4. ASSUME NEW s \in FirstFree(statusResponseSlots),
               TryAcquireStreamPermit(p),
               statusResponseSlots' = Taken(statusResponseSlots, s),
               responses' = [responses EXCEPT ![r] =
                   WithSlot("status", p, statusResponseSlots, s,
                            [left |-> Chunks])]
        PROVE  StreamsFit'
    <3> DEFINE stream == [left |-> Chunks]
    <3>4. PICK g : g = NextGeneration(statusResponseSlots[s].generation)
        OBVIOUS
    <3>0. responses' = [responses EXCEPT ![r] =
              Admitted("status", p, s, g, stream)]
        BY <2>4, <3>4 DEF WithSlot
    <3> HIDE DEF stream
    <3>1. /\ PermitsFit' /\ ResponsesFit' /\ CurrentFit' /\ r \notin Open
          /\ \A q \in Open : responses'[q] = responses[q]
          /\ responses'[r].slot = s /\ responses'[r].slotGeneration = g
          /\ Statuses' = Statuses \cup {r} /\ Logos' = Logos
      <4>1. /\ UNCHANGED <<up, life, disturbed>> /\ up
            /\ responses[r] = NoResponse /\ TryAcquireStreamPermit(p)
            /\ "status" \in {"page", "status", "logo"}
          BY <2>2, <2>4
      <4>2. /\ PermitsFit' /\ ResponsesFit' /\ CurrentFit' /\ r \notin Open
            /\ \A q \in Open : responses'[q] = responses[q]
            /\ Statuses' = IF "status" = "status" THEN Statuses \cup {r}
                           ELSE Statuses
            /\ Logos' = IF "status" = "logo" THEN Logos \cup {r} ELSE Logos
          BY <3>0, <4>1, Opening
      <4>3. responses'[r].slot = s /\ responses'[r].slotGeneration = g
          BY <3>0 DEF Admitted, StreamsFit, ResponsesFit
      <4> QED BY <4>2, <4>3
    <3>2. /\ SlotsFit(logoResponseSlots', Logos', responses')
        BY <2>2, <3>1, SlotKept DEF StreamsFit, Logos
    <3>3. SlotsFit(statusResponseSlots', Statuses', responses')
      <4>1. /\ SlotsFit(statusResponseSlots, Statuses, responses)
            /\ r \notin Statuses /\ \A q \in Statuses : responses'[q] = responses[q]
          BY <3>1 DEF StreamsFit, Statuses
      <4>2. responses'[r].slotGeneration
              = NextGeneration(statusResponseSlots[s].generation)
          BY <3>1, <3>4
      <4>3. SlotsFit(Taken(statusResponseSlots, s), Statuses \cup {r}, responses')
          BY <2>4, <3>1, <4>1, <4>2, SlotTaken
      <4> QED BY <2>4, <3>1, <4>3
    <3> QED BY <3>1, <3>2, <3>3 DEF StreamsFit
  <2> QED BY <2>1, <2>3, <2>4
<1> QED BY <1>1, <1>2, <1>3, <1>4 DEF Get

\* A chunk changes what has been sent and where the response stands.
LEMMA Streaming ==
    ASSUME StreamsFit, NEW r \in Request, NEW n, Chunk(r, n)
    PROVE  StreamsFit'
<1>1. PICK stream, body : responses' = [responses EXCEPT ![r].stream = stream,
                                                         ![r].body = body]
    BY DEF Chunk
<1>2. r \in Open /\ UNCHANGED <<admission, up, life, slots, disturbed>>
    BY DEF Chunk
<1> DEFINE old == responses[r]
           new == [old EXCEPT !.stream = stream, !.body = body]
<1>3. /\ responses = [q \in Request |-> responses[q]]
      /\ Fields \subseteq DOMAIN old
    BY <1>2 DEF StreamsFit, ResponsesFit
<1>4. responses' = [responses EXCEPT ![r] = new]
    BY <1>1, <1>3
<1>5. /\ DOMAIN new = DOMAIN old
      /\ new.kind = old.kind /\ new.life = old.life
      /\ new.permit = old.permit
      /\ new.permitGeneration = old.permitGeneration
      /\ new.slot = old.slot /\ new.slotGeneration = old.slotGeneration
    BY <1>3 DEF Fields
<1> HIDE DEF new
<1>6. /\ responses' = [q \in Request |-> IF q = r THEN new ELSE responses[q]]
    BY <1>3, <1>4
<1>7. \A q \in Request :
          responses'[q] = IF q = r THEN new ELSE responses[q]
    BY <1>6
<1>8. \A q \in Open : /\ DOMAIN responses'[q] = DOMAIN responses[q]
                      /\ responses'[q].kind = responses[q].kind
                      /\ responses'[q].life = responses[q].life
                      /\ responses'[q].permit = responses[q].permit
                      /\ responses'[q].permitGeneration
                           = responses[q].permitGeneration
                      /\ responses'[q].slot = responses[q].slot
                      /\ responses'[q].slotGeneration
                           = responses[q].slotGeneration
    BY <1>5, <1>7 DEF Open
<1>9. Open' = Open
  <2>1. new.kind # "none"
      BY <1>2, <1>5 DEF StreamsFit, ResponsesFit
  <2>2. new # NoResponse
      BY <2>1 DEF NoResponse
  <2> QED BY <1>2, <1>7, <2>2 DEF Open
<1>10. /\ Current' = Current /\ Statuses' = Statuses /\ Logos' = Logos
       /\ Current \subseteq Open /\ Statuses \subseteq Open
       /\ Logos \subseteq Open
    BY <1>2, <1>8, <1>9 DEF Current, Statuses, Logos
<1>11. PermitsFit'
    BY <1>2 DEF StreamsFit, PermitsFit, admission, Busy
<1>12. ResponsesFit'
  <2>1. responses' = [q \in Request |-> responses'[q]]
      BY <1>6
  <2> QED BY <1>2, <1>8, <1>9, <2>1 DEF StreamsFit, ResponsesFit
<1>13. CurrentFit'
  <2>1. UNCHANGED <<up, disturbed, permits>>
      BY <1>2 DEF admission
  <2>2. \A q \in Current : /\ responses'[q].permit = responses[q].permit
                           /\ responses'[q].permitGeneration
                                = responses[q].permitGeneration
      BY <1>8, <1>10
  <2>3. Busy(permits') = Busy(permits)
      BY <2>1
  <2> QED BY <1>10, <2>1, <2>2, <2>3 DEF StreamsFit, CurrentFit
<1>14. /\ SlotsFit(statusResponseSlots', Statuses', responses')
       /\ SlotsFit(logoResponseSlots', Logos', responses')
  <2>1. /\ statusResponseSlots' = statusResponseSlots
        /\ logoResponseSlots' = logoResponseSlots
      BY <1>2 DEF slots
  <2>2. /\ SlotsFit(statusResponseSlots, Statuses, responses')
        /\ SlotsFit(logoResponseSlots, Logos, responses')
      BY <1>8, <1>10, SlotKept DEF StreamsFit
  <2> QED BY <1>10, <2>1, <2>2
<1> QED BY <1>11, <1>12, <1>13, <1>14 DEF StreamsFit

\* A response is destroyed: it gives back what it holds, or, when the server
\* has begun again since, nothing or the permit of another one, which is noted.
LEMMA Closing ==
    ASSUME StreamsFit, NEW r \in Request, Close(r)
    PROVE  StreamsFit'
<1> DEFINE p == responses[r].permit
           g == responses[r].permitGeneration
<1>1. /\ r \in Open /\ ReleaseStreamPermit(p, g)
      /\ responses' = [responses EXCEPT ![r] = NoResponse]
      /\ disturbed' = \/ disturbed
                      \/ responses[r].life /= life /\ Holds(permits, p, g)
      /\ UNCHANGED <<up, life>>
    BY DEF Close
<1>2. /\ responses = [q \in Request |-> responses[q]]
      /\ permits \in [Permit -> Entry] /\ p \in Permit
    BY <1>1 DEF StreamsFit, PermitsFit, ResponsesFit
<1>3. responses' = [q \in Request |->
                       IF q = r THEN NoResponse ELSE responses[q]]
    BY <1>1, <1>2
<1>4. /\ \A q \in Request :
             responses'[q] = IF q = r THEN NoResponse ELSE responses[q]
      /\ Open' = Open \ {r}
      /\ \A q \in Open' : responses'[q] = responses[q]
    BY <1>3 DEF Open
<1>5. /\ Current' = Current \ {r} /\ Statuses' = Statuses \ {r}
      /\ Logos' = Logos \ {r}
    BY <1>1, <1>4 DEF Current, Statuses, Logos
<1>6. /\ permits' = Freed(permits, p, g)
      /\ activeStreamResponses' =
           IF Holds(permits, p, g) /\ activeStreamResponses > 0
           THEN activeStreamResponses - 1 ELSE activeStreamResponses
      /\ maxConcurrentStreamResponses' = maxConcurrentStreamResponses
    BY <1>1 DEF ReleaseStreamPermit
<1>7. /\ permits' \in [Permit -> Entry]
      /\ ~Holds(permits, p, g) => permits' = permits
      /\ Holds(permits, p, g) => /\ p \in Busy(permits)
                                 /\ Busy(permits') = Busy(permits) \ {p}
      /\ \A q \in Permit : q # p => permits'[q] = permits[q]
    BY <1>2, <1>6, FreeingAnEntry
<1>8. PermitsFit'
  <2>1. disturbed' \in BOOLEAN
      BY <1>1 DEF StreamsFit, PermitsFit
  <2>2. CASE ~Holds(permits, p, g)
      BY <1>1, <1>6, <1>7, <2>1, <2>2 DEF StreamsFit, PermitsFit
  <2>3. CASE Holds(permits, p, g)
    <3>1. /\ activeStreamResponses = Cardinality(Busy(permits))
          /\ activeStreamResponses \in Nat /\ activeStreamResponses > 0
          /\ Cardinality(Busy(permits')) = activeStreamResponses - 1
        BY <1>7, <2>3, CountingEntries DEF StreamsFit, PermitsFit
    <3>2. activeStreamResponses' = activeStreamResponses - 1
        BY <1>6, <2>3, <3>1
    <3>3. activeStreamResponses' <= maxConcurrentStreamResponses'
      <4>1. maxConcurrentStreamResponses \in Int
          BY DEF StreamsFit, PermitsFit, Permit
      <4>2. activeStreamResponses <= maxConcurrentStreamResponses
          BY DEF StreamsFit, PermitsFit
      <4> QED BY <1>6, <3>1, <3>2, <4>1, <4>2
    <3>4. up' = up /\ (~up => Busy(permits') = {})
        BY <1>1, <1>7, <2>3 DEF StreamsFit, PermitsFit
    <3> QED BY <1>1, <1>6, <1>7, <2>1, <3>1, <3>2, <3>3, <3>4
            DEF StreamsFit, PermitsFit
  <2> QED BY <2>2, <2>3
<1>9. ResponsesFit'
  <2>1. responses' = [q \in Request |-> responses'[q]]
      BY <1>3
  <2>2. life' = life /\ \A q \in Open' : q \in Open
      BY <1>1, <1>4
  <2> QED BY <1>4, <2>1, <2>2 DEF StreamsFit, ResponsesFit
<1>10. CurrentFit'
  <2> SUFFICES ASSUME ~disturbed' PROVE CurrentFit'
      BY DEF CurrentFit
  <2>1. ~disturbed /\ (Holds(permits, p, g) => r \in Current)
      BY <1>1 DEF Current
  <2>2. \A q \in Current' : q \in Current /\ q # r
                            /\ responses'[q] = responses[q]
                            /\ responses[q].permit \in Permit
      BY <1>4, <1>5 DEF Current, StreamsFit, ResponsesFit
  <2>3. \A q, t \in Current' :
            responses'[q].permit = responses'[t].permit => q = t
      BY <2>1, <2>2 DEF StreamsFit, CurrentFit
  <2>4. ASSUME up, ~Holds(permits, p, g)
        PROVE  /\ \A q \in Current' : Holds(permits', responses'[q].permit,
                                            responses'[q].permitGeneration)
               /\ \A t \in Busy(permits') :
                     \E q \in Current' : responses'[q].permit = t
    <3>1. r \notin Current
        BY <2>1, <2>4 DEF StreamsFit, CurrentFit
    <3>2. Current' = Current /\ permits' = permits
        BY <1>5, <1>7, <2>4, <3>1
    <3> QED BY <2>1, <2>2, <2>4, <3>2 DEF StreamsFit, CurrentFit
  <2>5. ASSUME up, Holds(permits, p, g)
        PROVE  /\ \A q \in Current' : Holds(permits', responses'[q].permit,
                                            responses'[q].permitGeneration)
               /\ \A t \in Busy(permits') :
                     \E q \in Current' : responses'[q].permit = t
    <3>1. \A q \in Current' : responses[q].permit # p
        BY <2>1, <2>2, <2>5 DEF StreamsFit, CurrentFit
    <3>2. \A q \in Current' : Holds(permits', responses'[q].permit,
                                    responses'[q].permitGeneration)
        BY <1>7, <2>1, <2>2, <2>5, <3>1 DEF StreamsFit, CurrentFit, Holds
    <3>3. ASSUME NEW t \in Busy(permits')
          PROVE  \E q \in Current' : responses'[q].permit = t
      <4>1. t \in Busy(permits) /\ t # p
          BY <1>7, <2>5, <3>3
      <4>2. PICK q \in Current : responses[q].permit = t
          BY <2>1, <2>5, <4>1 DEF StreamsFit, CurrentFit
      <4>3. q # r /\ q \in Current'
          BY <1>5, <4>1, <4>2
      <4> QED BY <2>2, <4>2, <4>3
    <3> QED BY <3>2, <3>3
  <2>6. up' = up
      BY <1>1
  <2> QED BY <2>3, <2>4, <2>5, <2>6 DEF CurrentFit
<1>11. SlotsFit(statusResponseSlots', Statuses', responses')
  <2>1. CASE r \in Statuses
    <3>1. statusResponseSlots' = Freed(statusResponseSlots, responses[r].slot,
                                       responses[r].slotGeneration)
        BY <2>1 DEF Close
    <3>2. /\ SlotsFit(statusResponseSlots, Statuses, responses)
          /\ \A q \in Statuses \ {r} : responses'[q] = responses[q]
        BY <1>4 DEF StreamsFit, Statuses
    <3> QED BY <1>5, <2>1, <3>1, <3>2, SlotFreed
  <2>2. CASE r \notin Statuses
    <3>1. statusResponseSlots' = statusResponseSlots
        BY <2>2 DEF Close
    <3>2. /\ SlotsFit(statusResponseSlots, Statuses, responses)
          /\ \A q \in Statuses : responses'[q] = responses[q]
          /\ Statuses' = Statuses
        BY <1>4, <1>5, <2>2 DEF StreamsFit, Statuses
    <3> QED BY <3>1, <3>2, SlotKept
  <2> QED BY <2>1, <2>2
<1>12. SlotsFit(logoResponseSlots', Logos', responses')
  <2>1. CASE r \in Logos
    <3>1. logoResponseSlots' = Freed(logoResponseSlots, responses[r].slot,
                                     responses[r].slotGeneration)
        BY <2>1 DEF Close
    <3>2. /\ SlotsFit(logoResponseSlots, Logos, responses)
          /\ \A q \in Logos \ {r} : responses'[q] = responses[q]
        BY <1>4 DEF StreamsFit, Logos
    <3> QED BY <1>5, <2>1, <3>1, <3>2, SlotFreed
  <2>2. CASE r \notin Logos
    <3>1. logoResponseSlots' = logoResponseSlots
        BY <2>2 DEF Close
    <3>2. /\ SlotsFit(logoResponseSlots, Logos, responses)
          /\ \A q \in Logos : responses'[q] = responses[q]
          /\ Logos' = Logos
        BY <1>4, <1>5, <2>2 DEF StreamsFit, Logos
    <3> QED BY <3>1, <3>2, SlotKept
  <2> QED BY <2>1, <2>2
<1> QED BY <1>8, <1>9, <1>10, <1>11, <1>12 DEF StreamsFit

\* The server goes and comes back: the responses stay.
LEMMA ComingAndGoing ==
    ASSUME StreamsFit, Shutdown \/ Setup
    PROVE  StreamsFit'
<1>1. /\ responses' = responses
      /\ statusResponseSlots' = statusResponseSlots
      /\ logoResponseSlots' = logoResponseSlots
      /\ maxConcurrentStreamResponses' = maxConcurrentStreamResponses
      /\ activeStreamResponses' = 0
      /\ life \in Nat /\ permits \in [Permit -> Entry]
    BY DEF Shutdown, Setup, AdmissionEnd, AdmissionBegin, slots, StreamsFit,
       PermitsFit
<1>2. Open' = Open /\ Statuses' = Statuses /\ Logos' = Logos
    BY <1>1 DEF Open, Statuses, Logos
<1>3. permits' \in [Permit -> Entry] /\ Busy(permits') = {}
  <2>1. CASE Shutdown
    <3>1. permits' = [p \in Permit |-> [permits[p] EXCEPT !.active = FALSE]]
        BY <2>1 DEF Shutdown, AdmissionEnd
    <3>2. \A p \in Permit : /\ [permits[p] EXCEPT !.active = FALSE] \in Entry
                            /\ ~[permits[p] EXCEPT !.active = FALSE].active
        BY <1>1 DEF Entry
    <3> QED BY <3>1, <3>2 DEF Busy
  <2>2. CASE Setup
    <3>1. permits' = [p \in Permit |-> [active |-> FALSE, generation |-> 0]]
        BY <2>2 DEF Setup, AdmissionBegin, Unused
    <3>2. [active |-> FALSE, generation |-> 0] \in Entry
        BY StreamAdmissionAssumption DEF Entry
    <3> QED BY <3>1, <3>2 DEF Busy
  <2> QED BY <2>1, <2>2
<1>4. PermitsFit'
  <2>1. Cardinality(Busy(permits')) = 0
      BY <1>3, FS_EmptySet
  <2>2. 0 <= maxConcurrentStreamResponses
      BY DEF StreamsFit, PermitsFit, Permit
  <2>3. up' \in BOOLEAN /\ disturbed' \in BOOLEAN /\ life' \in Nat
    <3>1. life' \in Nat
        BY <1>1 DEF Shutdown, Setup
    <3>2. up' \in BOOLEAN /\ disturbed' \in BOOLEAN
        BY DEF Shutdown, Setup, StreamsFit, PermitsFit
    <3> QED BY <3>1, <3>2
  <2> QED BY <1>1, <1>3, <2>1, <2>2, <2>3 DEF StreamsFit, PermitsFit
<1>5. ResponsesFit'
  <2>1. life' = life \/ life' = life + 1
      BY DEF Shutdown, Setup
  <2> QED BY <1>1, <1>2, <2>1 DEF StreamsFit, ResponsesFit
<1>6. CurrentFit'
  <2>1. CASE Shutdown
    <3>1. ~up' /\ disturbed' = disturbed /\ life' = life
        BY <2>1 DEF Shutdown
    <3>2. Current' = Current
        BY <1>1, <1>2, <3>1 DEF Current
    <3> QED BY <1>1, <3>1, <3>2 DEF StreamsFit, CurrentFit
  <2>2. CASE Setup
    <3>1. life' = life + 1
        BY <2>2 DEF Setup
    <3>2. ASSUME NEW q \in Open PROVE responses[q].life # life'
      <4>1. responses[q].life \in Nat /\ responses[q].life <= life
          BY DEF StreamsFit, ResponsesFit
      <4> QED BY <1>1, <3>1, <4>1
    <3>3. Current' = {}
        BY <1>1, <1>2, <3>2 DEF Current
    <3> QED BY <1>3, <3>3 DEF CurrentFit
  <2> QED BY <2>1, <2>2
<1>7. /\ SlotsFit(statusResponseSlots', Statuses', responses')
      /\ SlotsFit(logoResponseSlots', Logos', responses')
    BY <1>1, <1>2 DEF StreamsFit
<1> QED BY <1>4, <1>5, <1>6, <1>7 DEF StreamsFit

\* The invariant of the streams, initially and over every step.
LEMMA StreamsInitially == StreamInit => StreamsFit
<1> SUFFICES ASSUME StreamInit PROVE StreamsFit
    OBVIOUS
<1>1. Unused \in [Permit -> Entry] /\ Busy(Unused) = {}
    BY StreamAdmissionAssumption DEF Unused, Entry, Busy
<1>2. /\ Open = {} /\ Current = {} /\ Statuses = {} /\ Logos = {}
    BY DEF StreamInit, Open, Current, Statuses, Logos
<1>3. PermitsFit
  <2>1. Cardinality(Busy(Unused)) = 0
      BY <1>1, FS_EmptySet
  <2>2. 0 <= maxConcurrentStreamResponses
      BY DEF StreamInit, AdmissionInit, Permit
  <2> QED BY <1>1, <2>1, <2>2 DEF StreamInit, AdmissionInit, PermitsFit
<1>4. ResponsesFit
    BY <1>2 DEF StreamInit, ResponsesFit
<1>5. CurrentFit
    BY <1>1, <1>2 DEF StreamInit, AdmissionInit, CurrentFit
<1>6. /\ SlotsFit(statusResponseSlots, Statuses, responses)
      /\ SlotsFit(logoResponseSlots, Logos, responses)
    BY <1>1, <1>2 DEF StreamInit, SlotsFit
<1> QED BY <1>3, <1>4, <1>5, <1>6 DEF StreamsFit

\* All actions together.
LEMMA StreamsStep == StreamsFit /\ [StreamNext]_streamVars => StreamsFit'
<1> SUFFICES ASSUME StreamsFit, [StreamNext]_streamVars PROVE StreamsFit'
    OBVIOUS
<1>1. CASE UNCHANGED streamVars
    BY <1>1 DEF streamVars, admission, slots, StreamsFit, PermitsFit,
       ResponsesFit, CurrentFit, Open, Current, Statuses, Logos, SlotsFit
<1>2. ASSUME NEW r \in Request, NEW path, NEW authenticated,
             Get(r, path, authenticated)
      PROVE  StreamsFit'
    BY <1>2, Getting
<1>3. ASSUME NEW r \in Request, NEW n, Chunk(r, n) PROVE StreamsFit'
    BY <1>3, Streaming
<1>4. ASSUME NEW r \in Request, Close(r) PROVE StreamsFit'
    BY <1>4, Closing
<1>5. CASE Shutdown \/ Setup
    BY <1>5, ComingAndGoing
<1> QED BY <1>1, <1>2, <1>3, <1>4, <1>5 DEF StreamNext

\* The responses of this life are as many as the permits in use.
LEMMA CountingResponses ==
    ASSUME StreamsFit, up, ~disturbed
    PROVE  Cardinality(Current) = Cardinality(Busy(permits))
<1> DEFINE holder == [p \in Busy(permits) |->
                         CHOOSE r \in Current : responses[r].permit = p]
<1>1. \A p \in Busy(permits) : \E r \in Current : responses[r].permit = p
    BY DEF StreamsFit, CurrentFit
<1>2. \A p \in Busy(permits) : /\ holder[p] \in Current
                               /\ responses[holder[p]].permit = p
    BY <1>1
<1>3. holder \in [Busy(permits) -> Current]
    BY <1>2
<1>4. \A p, q \in Busy(permits) : holder[p] = holder[q] => p = q
  <2> HIDE DEF holder
  <2> QED BY <1>2
<1>5. \A r \in Current : \E p \in Busy(permits) : holder[p] = r
  <2> TAKE r \in Current
  <2> DEFINE p == responses[r].permit
  <2>1. p \in Busy(permits)
      BY DEF StreamsFit, CurrentFit, ResponsesFit, Current, Holds, Busy
  <2> HIDE DEF holder
  <2>2. holder[p] = r
      BY <1>2, <2>1 DEF StreamsFit, CurrentFit
  <2> QED BY <2>1, <2>2
<1> HIDE DEF holder
<1>6. holder \in Bijection(Busy(permits), Current)
    BY <1>3, <1>4, <1>5
       DEF Bijection, Injection, Surjection, IsInjective
<1>7. ExistsBijection(Busy(permits), Current)
    BY <1>6 DEF ExistsBijection
<1> QED BY <1>7, CountingEntries, FS_Bijection

\* ResponsesHoldTheirOwn: for any number of permits, requests and setups, any
\* limit and any width of a generation.
THEOREM ResponsesAreHeld == StreamSpec => []ResponsesHoldTheirOwn
<1>1. StreamsFit => ResponsesHoldTheirOwn
  <2> SUFFICES ASSUME StreamsFit PROVE ResponsesHoldTheirOwn
      OBVIOUS
  <2>1. up /\ ~disturbed => activeStreamResponses = Cardinality(Current)
      BY CountingResponses DEF StreamsFit, PermitsFit
  <2>2. /\ activeStreamResponses = Cardinality({p \in Permit : permits[p].active})
        /\ activeStreamResponses <= maxConcurrentStreamResponses
      BY DEF StreamsFit, PermitsFit, Busy
  <2>3. ~disturbed => \A q, r \in Current :
            responses[q].permit = responses[r].permit => q = r
      BY DEF StreamsFit, CurrentFit
  <2> QED BY <2>1, <2>2, <2>3
          DEF StreamsFit, SlotsFit, ResponsesHoldTheirOwn
<1> QED BY <1>1, StreamsInitially, StreamsStep, PTL DEF StreamSpec

-----------------------------------------------------------------------------
(* The streamed logo, for every text and every division into chunks.  Both *)
(* the quartets of a text and the bytes of a chunk are without bound; the  *)
(* arguments about them take the least position, or the least number of    *)
(* bytes, at which something fails.                                        *)

\* What a text is made of.
Char == {"digit", "=", "other"}

\* Every set of naturals has a least one.
LEMMA LeastNumber ==
    ASSUME NEW T, T \subseteq Nat, T /= {}
    PROVE  \E x \in T : \A y \in T : x <= y
<1> DEFINE R == OpToRel(<, Nat)
<1>1. IsWellFoundedOn(R, Nat)
    BY NatLessThanWellFounded
<1>2. R = {ss \in Nat \X Nat : ss[1] < ss[2]}
    BY DEF OpToRel
<1>3. \A y, x \in Nat : <<y, x>> \in R <=> y < x
    BY <1>2
<1> HIDE DEF R
<1>4. PICK x \in T : \A y \in T : ~(<<y, x>> \in R)
    BY <1>1, WFMin
<1>5. T \subseteq Nat
    OBVIOUS
<1>6. \A y \in T : ~(y < x)
    BY <1>3, <1>4, <1>5
<1> QED BY <1>5, <1>6

\* The first place behind a position.
LEMMA NextPlaceIsFirst ==
    ASSUME NEW text \in Seq(Char), NEW i \in Nat
    PROVE  LET n == Logo!NextPlace(text, i)
           IN  /\ n \in Nat /\ n <= Len(text) + 1
               /\ n <= Len(text) => n > i /\ n \in Logo!Place(text)
               /\ \A j \in Logo!Place(text) : j > i => n <= j
<1> DEFINE n == Logo!NextPlace(text, i)
           S == {j \in Logo!Place(text) : j > i} \cup {Len(text) + 1}
<1>1. Len(text) \in Nat /\ Logo!Place(text) \subseteq 1..Len(text)
    BY DEF Logo!Place
<1>2. S \subseteq Nat /\ S # {}
    BY <1>1
<1>3. n = CHOOSE x \in S : \A y \in S : x <= y
    BY DEF Logo!NextPlace, Logo!Min
<1>4. \E x \in S : \A y \in S : x <= y
  <2> HIDE DEF S
  <2> QED BY <1>2, LeastNumber
<1>5. n \in S /\ \A y \in S : n <= y
  <2> HIDE DEF S
  <2> QED BY <1>3, <1>4
<1> QED BY <1>1, <1>5

\* Cardinality is the same inside the instance.
LEMMA LogoCardinality ==
    ASSUME NEW S
    PROVE  Logo!Cardinality(S) = Cardinality(S)
    BY Zenon DEF Logo!Cardinality, Cardinality

\* Places are finitely many.
LEMMA PlacesAreFinite ==
    ASSUME NEW text \in Seq(Char)
    PROVE  /\ Len(text) \in Nat
           /\ Logo!Place(text) \subseteq 1..Len(text)
           /\ IsFiniteSet(Logo!Place(text))
<1>1. Logo!Place(text) \in SUBSET (1..Len(text))
    BY DEF Logo!Place
<1>2. IsFiniteSet(1..Len(text))
  <2>1. Len(text) \in Int /\ 1 \in Int
      OBVIOUS
  <2> QED BY <2>1, FS_Interval
<1>3. IsFiniteSet(Logo!Place(text))
    BY <1>1, <1>2, FS_Subset
<1> QED BY <1>1, <1>3

\* Those up to a position can be counted.
LEMMA RankIsCount ==
    ASSUME NEW text \in Seq(Char), NEW i
    PROVE  /\ IsFiniteSet({j \in Logo!Place(text) : j <= i})
           /\ Logo!Rank(text, i) = Cardinality({j \in Logo!Place(text) : j <= i})
<1>1. IsFiniteSet(Logo!Place(text))
    BY PlacesAreFinite
<1>2. {j \in Logo!Place(text) : j <= i} \in SUBSET Logo!Place(text)
    OBVIOUS
<1>3. IsFiniteSet({j \in Logo!Place(text) : j <= i})
    BY <1>1, <1>2, FS_Subset
<1>4. Logo!Rank(text, i) = Logo!Cardinality({j \in Logo!Place(text) : j <= i})
    BY Zenon DEF Logo!Rank
<1> QED BY <1>3, <1>4, LogoCardinality

\* Ranks count the places.
LEMMA Ranks ==
    ASSUME NEW text \in Seq(Char)
    PROVE  /\ Cardinality(Logo!Place(text)) \in Nat
           /\ \A i \in Nat : /\ Logo!Rank(text, i) \in Nat
                             /\ Logo!Rank(text, i) <= Cardinality(Logo!Place(text))
           /\ \A i \in Nat : i >= Len(text) =>
                 Logo!Rank(text, i) = Cardinality(Logo!Place(text))
           /\ \A i \in Nat : \A j \in Logo!Place(text) :
                 i < j => Logo!Rank(text, i) < Logo!Rank(text, j)
           /\ \A i, j \in Nat :
                 i <= j => Logo!Rank(text, i) <= Logo!Rank(text, j)
<1> DEFINE P == Logo!Place(text)
           Upto(i) == {j \in P : j <= i}
<1>1. Len(text) \in Nat /\ P \subseteq 1..Len(text) /\ IsFiniteSet(P)
    BY PlacesAreFinite
<1>3. \A i : Logo!Rank(text, i) = Cardinality(Upto(i)) /\ IsFiniteSet(Upto(i))
    BY RankIsCount
<1>9. P = Logo!Place(text)
    OBVIOUS
<1> HIDE DEF P
<1>4. \A i : /\ Cardinality(Upto(i)) \in Nat
             /\ Cardinality(Upto(i)) <= Cardinality(P)
  <2> TAKE i
  <2>1. Upto(i) \in SUBSET P /\ IsFiniteSet(Upto(i))
      BY <1>3
  <2> HIDE DEF Upto
  <2> QED BY <1>1, <2>1, FS_Subset, FS_CardinalityType
<1>5. Cardinality(P) \in Nat
    BY <1>1, FS_CardinalityType
<1>6. ASSUME NEW i \in Nat, i >= Len(text)
      PROVE  Cardinality(Upto(i)) = Cardinality(P)
  <2>1. \A j \in P : j <= i
      BY <1>1, <1>6
  <2>2. Upto(i) = P
      BY <2>1
  <2> QED BY <2>2
<1>7. ASSUME NEW i \in Nat, NEW j \in Nat, i <= j
      PROVE  /\ Cardinality(Upto(i)) <= Cardinality(Upto(j))
             /\ j \in P /\ i < j => Cardinality(Upto(i)) < Cardinality(Upto(j))
  <2>1. \A k \in P : k <= i => k <= j
      BY <1>1, <1>7
  <2>5. Upto(i) \in SUBSET Upto(j)
      BY <2>1
  <2>2. /\ Cardinality(Upto(i)) <= Cardinality(Upto(j))
        /\ Cardinality(Upto(j)) = Cardinality(Upto(i)) => Upto(j) = Upto(i)
    <3>1. IsFiniteSet(Upto(j))
        BY <1>3
    <3> HIDE DEF Upto
    <3> QED BY <3>1, <2>5, FS_Subset
  <2>3. j \in P /\ i < j => j \in Upto(j) /\ j \notin Upto(i)
      BY <1>1
  <2>4. Cardinality(Upto(i)) \in Nat /\ Cardinality(Upto(j)) \in Nat
      BY <1>4
  <2> HIDE DEF Upto
  <2> QED BY <2>2, <2>3, <2>4
<1>8. P \subseteq Nat
    BY <1>1
<1> HIDE DEF Upto
<1>10. ASSUME NEW i \in Nat, NEW j \in P, i < j
       PROVE  Cardinality(Upto(i)) < Cardinality(Upto(j))
    BY <1>7, <1>8, <1>10
<1>11. /\ \A i \in Nat : /\ Logo!Rank(text, i) \in Nat
                         /\ Logo!Rank(text, i) <= Cardinality(P)
       /\ \A i \in Nat : i >= Len(text) => Logo!Rank(text, i) = Cardinality(P)
    BY <1>3, <1>4, <1>6
<1>12. \A i, j \in Nat : i <= j => Logo!Rank(text, i) <= Logo!Rank(text, j)
    BY <1>3, <1>7
<1>13. \A i \in Nat : \A j \in P :
           i < j => Logo!Rank(text, i) < Logo!Rank(text, j)
    BY <1>3, <1>10
<1> QED BY <1>5, <1>9, <1>11, <1>12, <1>13

\* The next place has the next rank, and if there is none all are counted.
LEMMA NextRank ==
    ASSUME NEW text \in Seq(Char), NEW i \in Nat
    PROVE  LET n == Logo!NextPlace(text, i)
           IN  /\ n <= Len(text) =>
                     Logo!Rank(text, n) = Logo!Rank(text, i) + 1
               /\ n > Len(text) =>
                     Logo!Rank(text, i) = Cardinality(Logo!Place(text))
<1> DEFINE n == Logo!NextPlace(text, i)
           P == Logo!Place(text)
           Upto(k) == {j \in P : j <= k}
<1>1. Len(text) \in Nat /\ P \subseteq 1..Len(text) /\ IsFiniteSet(P)
    BY PlacesAreFinite
<1>2. /\ n \in Nat /\ n <= Len(text) + 1
      /\ n <= Len(text) => n > i /\ n \in P
      /\ \A j \in P : j > i => n <= j
    BY NextPlaceIsFirst
<1>4. \A k : Logo!Rank(text, k) = Cardinality(Upto(k)) /\ IsFiniteSet(Upto(k))
    BY RankIsCount
<1>8. n = Logo!NextPlace(text, i) /\ P = Logo!Place(text)
    OBVIOUS
<1> HIDE DEF n, P
<1>6. CASE n <= Len(text)
  <2>1. n \in P /\ \A j \in P : j <= n <=> j <= i \/ j = n
      BY <1>1, <1>2, <1>6
  <2>4. ~(n <= i)
      BY <1>2, <1>6
  <2>3. Upto(n) = Upto(i) \cup {n} /\ n \notin Upto(i)
      BY <2>1, <2>4
  <2>2. Cardinality(Upto(n)) = Cardinality(Upto(i)) + 1
    <3>1. IsFiniteSet(Upto(i))
        BY <1>4
    <3> HIDE DEF Upto
    <3> QED BY <3>1, <2>3, FS_AddElement
  <2> HIDE DEF Upto
  <2> QED BY <1>1, <1>2, <1>4, <1>6, <2>2, <1>8
<1>7. CASE n > Len(text)
  <2>2. \A j \in P : j <= i
      BY <1>1, <1>2, <1>7
  <2>1. Upto(i) = P
      BY <2>2
  <2> QED BY <1>1, <1>2, <1>4, <1>7, <2>1, <1>8
<1> QED BY <1>1, <1>2, <1>6, <1>7, <1>8

\* Quartets are counted by four.
LEMMA ByFour ==
    ASSUME NEW r \in Nat, NEW total \in Nat, r <= total, r % 4 = 0
    PROVE  /\ (r + 1) % 4 = 1 /\ (r + 2) % 4 = 2 /\ (r + 3) % 4 = 3
           /\ (r + 4) % 4 = 0
           /\ r + 4 <= total => r + 4 <= total - (total % 4)
           /\ total < r + 4 => total - (total % 4) = r
    OBVIOUS

\* A byte of the image is made of neighbouring digits of a complete quartet.
LEMMA ImageBytes ==
    ASSUME NEW text \in Seq(Char)
    PROVE  LET total == Cardinality(Logo!Place(text))
           IN  \A byte : byte \in Logo!Image(text) <=>
                 /\ byte = <<byte[1], byte[2]>>
                 /\ byte[1] \in Logo!Place(text) /\ byte[2] \in Logo!Place(text)
                 /\ text[byte[1]] = "digit" /\ text[byte[2]] = "digit"
                 /\ Logo!Rank(text, byte[2]) = Logo!Rank(text, byte[1]) + 1
                 /\ Logo!Rank(text, byte[1]) % 4 # 0
                 /\ Logo!Rank(text, byte[1]) < total - (total % 4)
<1> DEFINE total == Cardinality(Logo!Place(text))
           P == Logo!Place(text)
<1>1. total = Logo!Cardinality(Logo!Place(text))
    BY LogoCardinality
<1>2. Logo!Image(text) =
          {byte \in P \X P :
              /\ text[byte[1]] = "digit" /\ text[byte[2]] = "digit"
              /\ Logo!Rank(text, byte[2]) = Logo!Rank(text, byte[1]) + 1
              /\ Logo!Rank(text, byte[1]) % 4 # 0
              /\ Logo!Rank(text, byte[1]) < total - (total % 4)}
    BY <1>1, Zenon DEF Logo!Image
<1> HIDE DEF total, P
<1>3. \A byte : byte \in Logo!Image(text) <=>
          /\ byte \in P \X P
          /\ text[byte[1]] = "digit" /\ text[byte[2]] = "digit"
          /\ Logo!Rank(text, byte[2]) = Logo!Rank(text, byte[1]) + 1
          /\ Logo!Rank(text, byte[1]) % 4 # 0
          /\ Logo!Rank(text, byte[1]) < total - (total % 4)
    BY <1>2
<1>4. \A byte : byte \in P \X P <=> /\ byte = <<byte[1], byte[2]>>
                                    /\ byte[1] \in P /\ byte[2] \in P
    OBVIOUS
<1> QED BY <1>3, <1>4 DEF total, P

\* Its digits stand in order.
LEMMA ImageInOrder ==
    ASSUME NEW text \in Seq(Char), NEW byte \in Logo!Image(text)
    PROVE  /\ byte[1] \in Nat /\ byte[2] \in Nat /\ byte[1] < byte[2]
           /\ byte[2] <= Len(text)
<1>1. /\ byte[1] \in Logo!Place(text) /\ byte[2] \in Logo!Place(text)
      /\ Logo!Rank(text, byte[2]) = Logo!Rank(text, byte[1]) + 1
    BY ImageBytes
<1>2. /\ byte[1] \in Nat /\ byte[2] \in Nat /\ byte[2] <= Len(text)
    BY <1>1, PlacesAreFinite
<1>3. ~(byte[2] <= byte[1])
  <2>1. byte[2] <= byte[1] =>
            Logo!Rank(text, byte[2]) <= Logo!Rank(text, byte[1])
      BY <1>2, Ranks
  <2>2. Logo!Rank(text, byte[1]) \in Nat
      BY <1>2, Ranks
  <2> QED BY <1>1, <2>1, <2>2
<1> QED BY <1>2, <1>3

\* The next four places, if there are four, have the next four ranks.
LEMMA FourPlaces ==
    ASSUME NEW text \in Seq(Char), NEW o \in Nat
    PROVE  LET a == Logo!NextPlace(text, o)
               b == Logo!NextPlace(text, a)
               c == Logo!NextPlace(text, b)
               d == Logo!NextPlace(text, c)
           IN
           /\ a \in Nat /\ b \in Nat /\ c \in Nat /\ d \in Nat
           /\ Len(text) \in Nat /\ d <= Len(text) + 1
           /\ Logo!Rank(text, o) \in Nat
           /\ Cardinality(Logo!Place(text)) \in Nat
           /\ Logo!Rank(text, o) <= Cardinality(Logo!Place(text))
           /\ d <= Len(text) =>
                 /\ o < a /\ a < b /\ b < c /\ c < d
                 /\ a \in Logo!Place(text) /\ b \in Logo!Place(text)
                 /\ c \in Logo!Place(text) /\ d \in Logo!Place(text)
                 /\ Logo!Rank(text, a) = Logo!Rank(text, o) + 1
                 /\ Logo!Rank(text, b) = Logo!Rank(text, o) + 2
                 /\ Logo!Rank(text, c) = Logo!Rank(text, o) + 3
                 /\ Logo!Rank(text, d) = Logo!Rank(text, o) + 4
                 /\ Logo!Rank(text, o) + 4 <= Cardinality(Logo!Place(text))
           /\ d > Len(text) =>
                 Cardinality(Logo!Place(text)) < Logo!Rank(text, o) + 4
<1> DEFINE a == Logo!NextPlace(text, o)
           b == Logo!NextPlace(text, a)
           c == Logo!NextPlace(text, b)
           d == Logo!NextPlace(text, c)
           P == Logo!Place(text)
           L == Len(text)
           R(i) == Logo!Rank(text, i)
<1>0. L \in Nat /\ P \subseteq 1..L
    BY PlacesAreFinite
<1>1. \A i \in Nat : LET n == Logo!NextPlace(text, i)
                     IN  /\ n \in Nat /\ n <= L + 1
                         /\ n <= L => n > i /\ n \in P
                         /\ n <= L => R(n) = R(i) + 1
                         /\ n > L => R(i) = Cardinality(P)
    BY NextPlaceIsFirst, NextRank
<1>2. /\ Cardinality(P) \in Nat
      /\ \A i \in Nat : R(i) \in Nat /\ R(i) <= Cardinality(P)
    BY Ranks
<1>11. /\ a = Logo!NextPlace(text, o) /\ b = Logo!NextPlace(text, a)
       /\ c = Logo!NextPlace(text, b) /\ d = Logo!NextPlace(text, c)
    OBVIOUS
<1> HIDE DEF P, L, R, a, b, c, d
<1>3. /\ a \in Nat /\ a <= L + 1
      /\ a <= L => a > o /\ a \in P /\ R(a) = R(o) + 1
      /\ a > L => R(o) = Cardinality(P)
    BY <1>1, <1>11
<1>4. /\ b \in Nat /\ b <= L + 1
      /\ b <= L => b > a /\ b \in P /\ R(b) = R(a) + 1
      /\ b > L => R(a) = Cardinality(P)
    BY <1>1, <1>3, <1>11
<1>5. /\ c \in Nat /\ c <= L + 1
      /\ c <= L => c > b /\ c \in P /\ R(c) = R(b) + 1
      /\ c > L => R(b) = Cardinality(P)
    BY <1>1, <1>4, <1>11
<1>6. /\ d \in Nat /\ d <= L + 1
      /\ d <= L => d > c /\ d \in P /\ R(d) = R(c) + 1
      /\ d > L => R(c) = Cardinality(P)
    BY <1>1, <1>5, <1>11
<1>7. /\ R(o) \in Nat /\ R(a) \in Nat /\ R(b) \in Nat /\ R(c) \in Nat
      /\ R(o) <= Cardinality(P) /\ R(d) <= Cardinality(P)
    BY <1>2, <1>3, <1>4, <1>5, <1>6
<1>10. a \in Nat /\ b \in Nat /\ c \in Nat /\ d \in Nat /\ d <= L + 1
    BY <1>0, <1>3, <1>4, <1>5, <1>6
<1>8. CASE d <= L
  <2>1. o < a /\ a < b /\ b < c /\ c < d /\ a <= L /\ b <= L /\ c <= L
      BY <1>0, <1>3, <1>4, <1>5, <1>6, <1>8
  <2>2. /\ a \in P /\ b \in P /\ c \in P /\ d \in P
        /\ R(a) = R(o) + 1 /\ R(b) = R(o) + 2 /\ R(c) = R(o) + 3
        /\ R(d) = R(o) + 4
    <3>1. a \in P /\ b \in P /\ c \in P /\ d \in P
        BY <1>3, <1>4, <1>5, <1>6, <1>8, <2>1
    <3>2. R(a) = R(o) + 1
        BY <1>3, <2>1
    <3>3. R(b) = R(o) + 2
        BY <1>4, <1>7, <2>1, <3>2
    <3>4. R(c) = R(o) + 3
        BY <1>5, <1>7, <2>1, <3>3
    <3>5. R(d) = R(o) + 4
        BY <1>6, <1>7, <1>8, <3>4
    <3> QED BY <3>1, <3>2, <3>3, <3>4, <3>5
  <2>3. R(o) + 4 <= Cardinality(P)
      BY <2>2, <1>7
  <2>4. ~(d > L)
      BY <1>0, <1>6, <1>8
  <2> QED BY <1>0, <1>2, <1>7, <1>10, <2>1, <2>2, <2>3, <2>4
          DEF P, L, R, a, b, c, d
<1>9. CASE d > L
  <2>1. ASSUME a > L PROVE Cardinality(P) < R(o) + 4
      BY <1>2, <1>3, <1>7, <2>1
  <2>2. ASSUME a <= L, b > L PROVE Cardinality(P) < R(o) + 4
      BY <1>2, <1>3, <1>4, <1>7, <2>2
  <2>3. ASSUME a <= L, b <= L, c > L PROVE Cardinality(P) < R(o) + 4
    <3>1. /\ R(a) = R(o) + 1 /\ R(b) = R(a) + 1 /\ R(b) = Cardinality(P)
        BY <1>3, <1>4, <1>5, <2>3
    <3> QED BY <1>7, <3>1
  <2>4. ASSUME a <= L, b <= L, c <= L PROVE Cardinality(P) < R(o) + 4
    <3>1. /\ R(a) = R(o) + 1 /\ R(b) = R(a) + 1 /\ R(c) = R(b) + 1
          /\ R(c) = Cardinality(P)
        BY <1>3, <1>4, <1>5, <1>6, <1>9, <2>4
    <3> QED BY <1>7, <3>1
  <2>5. Cardinality(P) < R(o) + 4
    <3>1. (a > L \/ a <= L) /\ (b > L \/ b <= L) /\ (c > L \/ c <= L)
        BY <1>0, <1>3, <1>4, <1>5
    <3> QED BY <2>1, <2>2, <2>3, <2>4, <3>1
  <2>6. ~(d <= L)
      BY <1>0, <1>6, <1>9
  <2> QED BY <1>0, <1>2, <1>7, <1>10, <2>5, <2>6
          DEF P, L, R, a, b, c, d
<1> QED BY <1>0, <1>6, <1>8, <1>9 DEF L, d

\* The bytes of the image that end in a quartet: none if it is cut short.
LEMMA BytesOfQuartet ==
    ASSUME NEW text \in Seq(Char), NEW o \in Nat,
           o = Len(text) \/ Logo!Rank(text, o) % 4 = 0,
           NEW a, a = Logo!NextPlace(text, o),
           NEW b, b = Logo!NextPlace(text, a),
           NEW c, c = Logo!NextPlace(text, b),
           NEW d, d = Logo!NextPlace(text, c),
           NEW byte \in Logo!Image(text), byte[2] > o
    PROVE  /\ d <= Len(text)
           /\ byte[1] >= a /\ byte[2] >= b
           /\ byte[2] <= d => byte \in {<<a, b>>, <<b, c>>, <<c, d>>}
<1>0. /\ a \in Nat /\ b \in Nat /\ c \in Nat /\ d \in Nat
      /\ Len(text) \in Nat /\ d <= Len(text) + 1
      /\ Logo!Rank(text, o) \in Nat
      /\ Cardinality(Logo!Place(text)) \in Nat
      /\ Logo!Rank(text, o) <= Cardinality(Logo!Place(text))
      /\ d <= Len(text) =>
            /\ o < a /\ a < b /\ b < c /\ c < d
            /\ a \in Logo!Place(text) /\ b \in Logo!Place(text)
            /\ c \in Logo!Place(text) /\ d \in Logo!Place(text)
            /\ Logo!Rank(text, a) = Logo!Rank(text, o) + 1
            /\ Logo!Rank(text, b) = Logo!Rank(text, o) + 2
            /\ Logo!Rank(text, c) = Logo!Rank(text, o) + 3
            /\ Logo!Rank(text, d) = Logo!Rank(text, o) + 4
            /\ Logo!Rank(text, o) + 4 <= Cardinality(Logo!Place(text))
      /\ d > Len(text) =>
            Cardinality(Logo!Place(text)) < Logo!Rank(text, o) + 4
    BY FourPlaces
<1> DEFINE P == Logo!Place(text)
           L == Len(text)
           R(k) == Logo!Rank(text, k)
           total == Cardinality(P)
           whole == total - (total % 4)
           i == byte[1]
           j == byte[2]
<1>1. /\ byte = <<i, j>> /\ i \in P /\ j \in P
      /\ R(j) = R(i) + 1 /\ R(i) % 4 # 0 /\ R(i) < whole
    BY ImageBytes
<1>2. i \in Nat /\ j \in Nat /\ i < j /\ j <= L /\ L \in Nat
    BY ImageInOrder, PlacesAreFinite
<1>3. /\ a \in Nat /\ b \in Nat /\ c \in Nat /\ d \in Nat
      /\ R(o) \in Nat /\ total \in Nat
      /\ R(o) <= total
      /\ d <= L => /\ o < a /\ a < b /\ b < c /\ c < d
                   /\ a \in P /\ b \in P /\ c \in P /\ d \in P
                   /\ R(a) = R(o) + 1 /\ R(b) = R(o) + 2
                   /\ R(c) = R(o) + 3 /\ R(d) = R(o) + 4
                   /\ R(o) + 4 <= total
      /\ d > L => total < R(o) + 4
    BY <1>0
<1>4. /\ \A k \in P : \A m \in P : k < m => R(k) < R(m)
      /\ \A m \in P : o < m => R(o) < R(m)
      /\ \A k \in P : R(k) \in Nat /\ k \in Nat
  <2>1. P \subseteq Nat
      BY PlacesAreFinite
  <2> QED BY <2>1, Ranks
<1>5. o # L
    BY <1>2
<1>6. /\ R(o) % 4 = 0
      /\ total < R(o) + 4 => whole = R(o)
  <2>1. R(o) % 4 = 0
      BY <1>5
  <2> QED BY <2>1, <1>3, ByFour
<1>15. whole \in Int
    BY <1>3
<1> HIDE DEF P, L, R, total, whole, i, j
<1>7. j > o
    BY DEF j
<1>16. R(i) \in Nat /\ R(j) \in Nat
    BY <1>1, <1>4
<1>8. R(o) < R(i)
  <2>1. R(o) < R(j)
      BY <1>1, <1>4, <1>7
  <2>2. R(i) # R(o)
      BY <1>1, <1>6
  <2> QED BY <1>1, <1>3, <1>16, <2>1, <2>2
<1>9. d <= L
  <2>1. ASSUME d > L PROVE FALSE
    <3>1. whole = R(o)
        BY <1>3, <1>6, <2>1
    <3> QED BY <1>1, <1>3, <1>8, <1>16, <3>1
  <2> QED BY <1>2, <1>3, <2>1
<1>10. \A k \in P, m \in P : R(k) = R(m) => k = m
    BY <1>4
<1>14. \A k \in P, m \in P : R(k) <= R(m) => k <= m
    BY <1>4
<1>17. /\ a \in P /\ b \in P /\ c \in P /\ d \in P
       /\ R(a) = R(o) + 1 /\ R(b) = R(o) + 2
       /\ R(c) = R(o) + 3 /\ R(d) = R(o) + 4
    BY <1>3, <1>9
<1>11. i >= a /\ j >= b
  <2>1. R(a) <= R(i) /\ R(b) <= R(j)
    <3>1. R(o) + 1 <= R(i) /\ R(o) + 2 <= R(j)
        BY <1>1, <1>3, <1>8, <1>16
    <3> QED BY <1>17, <3>1
  <2>2. a <= i /\ b <= j
      BY <1>1, <1>17, <1>14, <2>1
  <2> QED BY <2>2, <1>2, <1>3
<1>12. ASSUME j <= d
       PROVE  \/ i = a /\ j = b
              \/ i = b /\ j = c
              \/ i = c /\ j = d
  <2>1. R(j) <= R(d)
    <3>1. j = d \/ j < d
        BY <1>2, <1>3, <1>12
    <3>2. j < d => R(j) < R(d)
        BY <1>1, <1>4, <1>17
    <3>3. R(j) \in Nat /\ (j = d => R(j) = R(d))
        BY <1>16
    <3>4. R(d) \in Nat
        BY <1>4, <1>17
    <3> HIDE DEF R
    <3> QED BY <3>1, <3>2, <3>3, <3>4
  <2>2. R(i) = R(o) + 1 \/ R(i) = R(o) + 2 \/ R(i) = R(o) + 3
    <3>1. R(i) + 1 <= R(o) + 4
        BY <1>1, <1>17, <2>1
    <3>2. R(i) \in Int /\ R(o) \in Int /\ R(o) < R(i)
        BY <1>3, <1>8, <1>16
    <3>3. \A x, y \in Int : x < y /\ y + 1 <= x + 4 =>
              y = x + 1 \/ y = x + 2 \/ y = x + 3
        OBVIOUS
    <3> QED BY <3>1, <3>2, <3>3
  <2>3. R(i) = R(a) \/ R(i) = R(b) \/ R(i) = R(c)
      BY <1>17, <2>2
  <2>4. i = a \/ i = b \/ i = c
      BY <1>1, <1>17, <1>10, <2>3
  <2>5. R(b) = R(a) + 1 /\ R(c) = R(b) + 1 /\ R(d) = R(c) + 1
      BY <1>3, <1>17
  <2>6. /\ i = a => R(j) = R(b)
        /\ i = b => R(j) = R(c)
        /\ i = c => R(j) = R(d)
      BY <1>1, <2>5
  <2> QED BY <1>1, <1>17, <1>10, <2>4, <2>6
<1>13. j <= d => byte \in {<<a, b>>, <<b, c>>, <<c, d>>}
    BY <1>1, <1>12
<1> QED BY <1>9, <1>11, <1>13 DEF L, i, j

Pairs == Nat \X Nat

\* What the state of a logo is made of.
LogoStates(text) ==
    [text: {text}, sourceOffset: 0..Len(text), pending: Seq(Pairs),
     inputFinished: BOOLEAN, complete: BOOLEAN]

\* The decoder stands between two quartets, or at the end.
Aligned(s) == \/ s.sourceOffset = Len(s.text)
              \/ Logo!Rank(s.text, s.sourceOffset) % 4 = 0

\* The bytes new are those of the image between two positions, in order.
Between(text, new, from, to) ==
    /\ new \in Seq(Pairs)
    /\ \A k \in DOMAIN new : /\ new[k] \in Logo!Image(text)
                             /\ from < new[k][1] /\ new[k][1] < to
    /\ \A k, l \in DOMAIN new : k < l => new[k][1] < new[l][1]
    /\ Logo!Base64(text) =>
          \A byte \in Logo!Image(text) :
              from < byte[2] /\ byte[2] <= to => \E k \in DOMAIN new : new[k] = byte

\* Base64 pads at the end only.
LEMMA Padding ==
    ASSUME NEW text \in Seq(Char), Logo!Base64(text),
           NEW i \in Logo!Place(text), NEW j \in Logo!Place(text),
           i <= j, text[i] = "="
    PROVE  text[j] = "="
<1>1. i \in Nat /\ j \in Nat
    BY PlacesAreFinite
<1>2. i = j \/ i < j
    BY <1>1
<1> QED BY <1>2 DEF Logo!Base64

\* A quartet that is no use to the decoder ends the image.
LEMMA NothingAfterUnusable ==
    ASSUME NEW text \in Seq(Char), Logo!Base64(text), NEW o \in Nat,
           o = Len(text) \/ Logo!Rank(text, o) % 4 = 0,
           NEW a, a = Logo!NextPlace(text, o),
           NEW b, b = Logo!NextPlace(text, a),
           NEW c, c = Logo!NextPlace(text, b),
           NEW d, d = Logo!NextPlace(text, c),
           \/ d > Len(text)
           \/ d <= Len(text) /\ text[a] = "="
           \/ d <= Len(text) /\ text[b] = "="
           \/ d <= Len(text) /\ text[c] = "=" /\ text[d] # "=",
           NEW byte \in Logo!Image(text)
    PROVE  byte[2] <= o
<1> SUFFICES ASSUME byte[2] > o PROVE FALSE
    BY ImageInOrder
<1>1. d <= Len(text) /\ byte[1] >= a /\ byte[2] >= b
    BY BytesOfQuartet
<1>2. /\ a \in Nat /\ b \in Nat /\ c \in Nat /\ d \in Nat
      /\ a \in Logo!Place(text) /\ b \in Logo!Place(text)
      /\ c \in Logo!Place(text) /\ d \in Logo!Place(text)
      /\ c < d
    BY <1>1, FourPlaces
<1>3. /\ byte[1] \in Logo!Place(text) /\ byte[2] \in Logo!Place(text)
      /\ text[byte[1]] = "digit" /\ text[byte[2]] = "digit"
    BY ImageBytes
<1>4. byte[1] \in Nat /\ byte[2] \in Nat
    BY ImageInOrder
<1>5. text[a] # "="
    BY <1>1, <1>2, <1>3, <1>4, Padding
<1>6. text[b] # "="
    BY <1>1, <1>2, <1>3, <1>4, Padding
<1>7. ~(text[c] = "=" /\ text[d] # "=")
    BY <1>2, Padding
<1>8. ~(d > Len(text))
    BY <1>1, <1>2, PlacesAreFinite
<1> QED BY <1>5, <1>6, <1>7, <1>8

\* Sequences of one, two or three.
LEMMA OnePair ==
    ASSUME NEW x \in Pairs, NEW s, s = <<x>>
    PROVE  s \in Seq(Pairs) /\ DOMAIN s = {1} /\ s[1] = x
<1>1. s \in Seq(Pairs) /\ Len(s) = 1 /\ s[1] = x
    OBVIOUS
<1> QED BY <1>1

\* The same for two bytes.
LEMMA TwoPairs ==
    ASSUME NEW x \in Pairs, NEW y \in Pairs, NEW s, s = <<x, y>>
    PROVE  s \in Seq(Pairs) /\ DOMAIN s = {1, 2} /\ s[1] = x /\ s[2] = y
<1>1. s \in Seq(Pairs) /\ Len(s) = 2 /\ s[1] = x /\ s[2] = y
    OBVIOUS
<1> QED BY <1>1

\* The same for three bytes.
LEMMA ThreePairs ==
    ASSUME NEW x \in Pairs, NEW y \in Pairs, NEW z \in Pairs,
           NEW s, s = <<x, y, z>>
    PROVE  /\ s \in Seq(Pairs) /\ DOMAIN s = {1, 2, 3}
           /\ s[1] = x /\ s[2] = y /\ s[3] = z
<1>1. s \in Seq(Pairs) /\ Len(s) = 3 /\ s[1] = x /\ s[2] = y /\ s[3] = z
    OBVIOUS
<1> QED BY <1>1

\* A quartet that is of use adds its bytes.
LEMMA BytesAdded ==
    ASSUME NEW text \in Seq(Char), NEW o \in Nat,
           o = Len(text) \/ Logo!Rank(text, o) % 4 = 0,
           NEW a, a = Logo!NextPlace(text, o),
           NEW b, b = Logo!NextPlace(text, a),
           NEW c, c = Logo!NextPlace(text, b),
           NEW d, d = Logo!NextPlace(text, c),
           d <= Len(text), text[a] # "=", text[b] # "=",
           text[c] = "=" => text[d] = "=",
           NEW new, new = IF text[c] = "=" THEN << <<a, b>> >>
                          ELSE IF text[d] = "=" THEN << <<a, b>>, <<b, c>> >>
                          ELSE << <<a, b>>, <<b, c>>, <<c, d>> >>
    PROVE  Between(text, new, o, d)
<1> DEFINE P == Logo!Place(text)
           R(k) == Logo!Rank(text, k)
           total == Cardinality(P)
           whole == total - (total % 4)
<1>1. /\ a \in Nat /\ b \in Nat /\ c \in Nat /\ d \in Nat
      /\ R(o) \in Nat /\ total \in Nat /\ R(o) <= total
      /\ o < a /\ a < b /\ b < c /\ c < d
      /\ a \in P /\ b \in P /\ c \in P /\ d \in P
      /\ R(a) = R(o) + 1 /\ R(b) = R(o) + 2
      /\ R(c) = R(o) + 3 /\ R(d) = R(o) + 4
      /\ R(o) + 4 <= total
    BY FourPlaces
<1>2. R(o) % 4 = 0
    BY <1>1
<1>3. /\ R(a) % 4 # 0 /\ R(b) % 4 # 0 /\ R(c) % 4 # 0
      /\ R(o) + 4 <= whole /\ whole \in Int
  <2>1. /\ (R(o) + 1) % 4 = 1 /\ (R(o) + 2) % 4 = 2 /\ (R(o) + 3) % 4 = 3
        /\ R(o) + 4 <= whole
      BY <1>1, <1>2, ByFour
  <2>2. whole \in Int
      BY <1>1
  <2> HIDE DEF whole, R, P, total
  <2>3. R(a) % 4 = 1 /\ R(b) % 4 = 2 /\ R(c) % 4 = 3
      BY <1>1, <2>1, Zenon
  <2> QED BY <2>1, <2>2, <2>3
<1> HIDE DEF whole
<1>4. R(a) < whole /\ R(b) < whole /\ R(c) < whole
  <2> HIDE DEF R, P, total
  <2>1. \A x \in Int, y \in Int : x + 4 <= y => x + 1 < y /\ x + 2 < y /\ x + 3 < y
      OBVIOUS
  <2>2. R(o) \in Int /\ R(o) + 4 <= whole /\ whole \in Int
      BY <1>1, <1>3
  <2>3. R(o) + 1 < whole /\ R(o) + 2 < whole /\ R(o) + 3 < whole
      BY <2>1, <2>2
  <2> QED BY <1>1, <2>3, Zenon
<1>5. ASSUME NEW x \in P, NEW y \in P, text[x] # "=", text[y] # "=",
             R(y) = R(x) + 1, R(x) % 4 # 0, R(x) < whole
      PROVE  <<x, y>> \in Logo!Image(text)
  <2>1. text[x] = "digit" /\ text[y] = "digit"
      BY <1>5 DEF Char, Logo!Place
  <2>2. <<x, y>>[1] = x /\ <<x, y>>[2] = y
      OBVIOUS
  <2> QED BY <1>5, <2>1, <2>2, ImageBytes DEF whole
<1>6. <<a, b>> \in Logo!Image(text)
  <2> HIDE DEF R, P, total
  <2>1. R(b) = R(a) + 1
      BY <1>1
  <2> QED BY <1>1, <1>3, <1>4, <1>5, <2>1
<1>7. text[c] # "=" => <<b, c>> \in Logo!Image(text)
  <2> HIDE DEF R, P, total
  <2>1. R(c) = R(b) + 1
      BY <1>1
  <2> QED BY <1>1, <1>3, <1>4, <1>5, <2>1
<1>8. text[c] # "=" /\ text[d] # "=" => <<c, d>> \in Logo!Image(text)
  <2> HIDE DEF R, P, total
  <2>1. R(d) = R(c) + 1
      BY <1>1
  <2> QED BY <1>1, <1>3, <1>4, <1>5, <2>1
<1>9. \A byte \in Logo!Image(text) : o < byte[2] /\ byte[2] <= d =>
          /\ byte \in {<<a, b>>, <<b, c>>, <<c, d>>}
          /\ text[byte[1]] # "=" /\ text[byte[2]] # "="
  <2> TAKE byte \in Logo!Image(text)
  <2> SUFFICES ASSUME o < byte[2], byte[2] <= d
               PROVE  /\ byte \in {<<a, b>>, <<b, c>>, <<c, d>>}
                      /\ text[byte[1]] # "=" /\ text[byte[2]] # "="
      OBVIOUS
  <2>1. byte[2] > o
      BY ImageInOrder
  <2>2. byte \in {<<a, b>>, <<b, c>>, <<c, d>>}
      BY <2>1, BytesOfQuartet
  <2>3. text[byte[1]] = "digit" /\ text[byte[2]] = "digit"
      BY ImageBytes
  <2> QED BY <2>2, <2>3
<1> HIDE DEF R, P, total
<1>10. <<a, b>> \in Pairs /\ <<b, c>> \in Pairs /\ <<c, d>> \in Pairs
    BY <1>1 DEF Pairs
<1>16. PICK x \in Pairs : x = <<a, b>>
    BY <1>10
<1>17. PICK y \in Pairs : y = <<b, c>>
    BY <1>10
<1>18. PICK z \in Pairs : z = <<c, d>>
    BY <1>10
<1>14. x[1] = a /\ y[1] = b /\ y[2] = c /\ z[1] = c /\ z[2] = d
    BY <1>16, <1>17, <1>18
<1>19. /\ x \in Logo!Image(text)
       /\ text[c] # "=" => y \in Logo!Image(text)
       /\ text[c] # "=" /\ text[d] # "=" => z \in Logo!Image(text)
       /\ \A byte \in Logo!Image(text) : o < byte[2] /\ byte[2] <= d =>
              /\ byte \in {x, y, z}
              /\ text[byte[1]] # "=" /\ text[byte[2]] # "="
    BY <1>6, <1>7, <1>8, <1>9, <1>16, <1>17, <1>18
<1>15. /\ a < b /\ b < c /\ a < c /\ o < a /\ o < b /\ o < c
       /\ a < d /\ b < d /\ c < d
       /\ ~(b < b) /\ ~(a < a) /\ ~(c < c)
    BY <1>1
<1>20. \A s : s = <<x, y>> => /\ s \in Seq(Pairs) /\ DOMAIN s = {1, 2}
                             /\ s[1] = x /\ s[2] = y
    BY TwoPairs
<1>21. \A s : s = <<x, y, z>> => /\ s \in Seq(Pairs) /\ DOMAIN s = {1, 2, 3}
                                /\ s[1] = x /\ s[2] = y /\ s[3] = z
    BY ThreePairs
<1>11. CASE text[c] = "="
  <2>1. new = <<x>>
      BY <1>11, <1>16
  <2>2. /\ new \in Seq(Pairs) /\ DOMAIN new = {1} /\ new[1] = x
      BY <2>1, OnePair
  <2>3. \A byte \in Logo!Image(text) :
            o < byte[2] /\ byte[2] <= d => new[1] = byte
      BY <1>19, <1>11, <1>14, <2>2
  <2>4. \A k \in DOMAIN new : /\ new[k] \in Logo!Image(text)
                              /\ o < new[k][1] /\ new[k][1] < d
      BY <1>19, <1>14, <1>15, <2>2
  <2>5. \A k, l \in DOMAIN new : k < l => new[k][1] < new[l][1]
      BY <2>2
  <2>6. \A byte \in Logo!Image(text) :
            o < byte[2] /\ byte[2] <= d => \E k \in DOMAIN new : new[k] = byte
      BY <2>2, <2>3
  <2> QED BY <2>2, <2>4, <2>5, <2>6 DEF Between
<1>12. CASE text[c] # "=" /\ text[d] = "="
  <2>1. new = <<x, y>>
      BY <1>12, <1>16, <1>17
  <2>2. /\ new \in Seq(Pairs) /\ DOMAIN new = {1, 2}
        /\ new[1] = x /\ new[2] = y
      BY <1>20, <2>1
  <2>3. \A byte \in Logo!Image(text) :
            o < byte[2] /\ byte[2] <= d => new[1] = byte \/ new[2] = byte
      BY <1>19, <1>12, <1>14, <2>2
  <2>4. \A k \in DOMAIN new : /\ new[k] \in Logo!Image(text)
                              /\ o < new[k][1] /\ new[k][1] < d
      BY <1>19, <1>12, <1>14, <1>15, <2>2
  <2>5. \A k, l \in DOMAIN new : k < l => new[k][1] < new[l][1]
      BY <1>14, <1>15, <2>2
  <2>6. \A byte \in Logo!Image(text) :
            o < byte[2] /\ byte[2] <= d => \E k \in DOMAIN new : new[k] = byte
      BY <2>2, <2>3
  <2> QED BY <2>2, <2>4, <2>5, <2>6 DEF Between
<1>13. CASE text[c] # "=" /\ text[d] # "="
  <2>1. new = <<x, y, z>>
      BY <1>13, <1>16, <1>17, <1>18
  <2>2. /\ new \in Seq(Pairs) /\ DOMAIN new = {1, 2, 3}
        /\ new[1] = x /\ new[2] = y /\ new[3] = z
      BY <1>21, <2>1
  <2>4. \A k \in DOMAIN new : /\ new[k] \in Logo!Image(text)
                              /\ o < new[k][1] /\ new[k][1] < d
      BY <1>19, <1>13, <1>14, <1>15, <2>2
  <2>5. \A k, l \in DOMAIN new : k < l => new[k][1] < new[l][1]
      BY <1>14, <1>15, <2>2
  <2>6. \A byte \in Logo!Image(text) :
            o < byte[2] /\ byte[2] <= d => \E k \in DOMAIN new : new[k] = byte
      BY <1>19, <2>2
  <2> QED BY <2>2, <2>4, <2>5, <2>6 DEF Between
<1> QED BY <1>11, <1>12, <1>13

\* No byte ends at the position it starts at.
LEMMA NothingBetween ==
    ASSUME NEW text \in Seq(Char), NEW from \in Nat, NEW to,
           Logo!Base64(text) =>
               \A byte \in Logo!Image(text) : byte[2] <= from
    PROVE  Between(text, <<>>, from, to)
<1>1. <<>> \in Seq(Pairs) /\ DOMAIN <<>> = {}
    OBVIOUS
<1>2. Logo!Base64(text) => \A byte \in Logo!Image(text) : ~(from < byte[2])
    BY ImageInOrder
<1> QED BY <1>1, <1>2 DEF Between

\* fillDecodedLogoBytes, from one quartet to the next.
LEMMA Filling ==
    ASSUME NEW text \in Seq(Char), NEW s \in LogoStates(text),
           s.pending = <<>>, Aligned(s)
    PROVE  LET t == Logo!Fill(s)
           IN  /\ t \in LogoStates(text) /\ Aligned(t)
               /\ s.sourceOffset <= t.sourceOffset
               /\ Between(text, t.pending, s.sourceOffset, t.sourceOffset)
               /\ t.inputFinished /\ Logo!Base64(text) =>
                     \A byte \in Logo!Image(text) : byte[2] <= t.sourceOffset
<1> DEFINE o == s.sourceOffset
           a == Logo!NextPlace(text, o)
           b == Logo!NextPlace(text, a)
           c == Logo!NextPlace(text, b)
           d == Logo!NextPlace(text, c)
           short == d > Len(text)
           Padded(i) == text[i] = "="
           unusable == \/ short \/ Padded(a) \/ Padded(b)
                       \/ (Padded(c) /\ ~Padded(d))
           offset == IF short THEN Len(text) ELSE d
           new == IF Padded(c) THEN << <<a, b>> >>
                  ELSE IF Padded(d) THEN << <<a, b>>, <<b, c>> >>
                  ELSE << <<a, b>>, <<b, c>>, <<c, d>> >>
           finished == offset >= Len(text) \/ Padded(c) \/ Padded(d)
           t == Logo!Fill(s)
<1>1. /\ s.text = text /\ o \in 0..Len(text) /\ o \in Nat /\ Len(text) \in Nat
      /\ s.inputFinished \in BOOLEAN /\ s.complete \in BOOLEAN
  <2>1. Len(text) \in Nat
      OBVIOUS
  <2> QED BY <2>1 DEF LogoStates
<1>2. t = IF unusable
          THEN [s EXCEPT !.sourceOffset = offset, !.inputFinished = TRUE]
          ELSE [s EXCEPT !.sourceOffset = offset, !.pending = new,
                         !.inputFinished = finished]
    BY <1>1, Zenon DEF Logo!Fill
<1>3. o = Len(text) \/ Logo!Rank(text, o) % 4 = 0
    BY <1>1 DEF Aligned
<1>4. /\ a = Logo!NextPlace(text, o) /\ b = Logo!NextPlace(text, a)
      /\ c = Logo!NextPlace(text, b) /\ d = Logo!NextPlace(text, c)
    OBVIOUS
<1>5. /\ d \in Nat /\ d <= Len(text) + 1 /\ a \in Nat /\ b \in Nat /\ c \in Nat
      /\ d <= Len(text) =>
            /\ o < d /\ d \in Logo!Place(text)
            /\ c \in Logo!Place(text) /\ c <= d
            /\ Logo!Rank(text, d) % 4 = 0
  <2>1. /\ Logo!Rank(text, o) \in Nat
        /\ Cardinality(Logo!Place(text)) \in Nat
        /\ Logo!Rank(text, o) <= Cardinality(Logo!Place(text))
        /\ a \in Nat /\ b \in Nat /\ c \in Nat /\ d \in Nat
        /\ d <= Len(text) + 1
        /\ d <= Len(text) => /\ o < a /\ a < b /\ b < c /\ c < d
                             /\ d \in Logo!Place(text) /\ c \in Logo!Place(text)
                             /\ Logo!Rank(text, d) = Logo!Rank(text, o) + 4
      BY <1>1, FourPlaces
  <2> HIDE DEF o, a, b, c, d
  <2>2. d <= Len(text) => o < d /\ c <= d
      BY <1>1, <2>1
  <2>3. ASSUME d <= Len(text) PROVE Logo!Rank(text, d) % 4 = 0
    <3>3. o # Len(text)
        BY <1>1, <2>1, <2>2, <2>3
    <3>1. Logo!Rank(text, o) % 4 = 0
        BY <1>3, <3>3, Zenon
    <3>2. (Logo!Rank(text, o) + 4) % 4 = 0
        BY <2>1, <3>1, ByFour
    <3> QED BY <2>1, <2>3, <3>2, Zenon
  <2> QED BY <2>1, <2>2, <2>3
<1> HIDE DEF a, b, c, d, t, o
<1>6. offset \in Nat /\ offset \in 0..Len(text) /\ o <= offset
    BY <1>1, <1>5
<1>7. offset = Len(text) \/ Logo!Rank(text, offset) % 4 = 0
    BY <1>5
<1>8. CASE unusable
  <2>1. t = [s EXCEPT !.sourceOffset = offset, !.inputFinished = TRUE]
      BY <1>2, <1>8
  <2>2. /\ t \in LogoStates(text) /\ t.text = text /\ t.sourceOffset = offset
        /\ t.pending = <<>>
      BY <1>1, <1>6, <2>1 DEF LogoStates
  <2>3. Aligned(t)
      BY <1>7, <2>2 DEF Aligned
  <2>4. ASSUME Logo!Base64(text), NEW byte \in Logo!Image(text)
        PROVE  byte[2] <= o
    <3>1. \/ d > Len(text)
          \/ d <= Len(text) /\ text[a] = "="
          \/ d <= Len(text) /\ text[b] = "="
          \/ d <= Len(text) /\ text[c] = "=" /\ text[d] # "="
        BY <1>1, <1>5, <1>8
    <3> QED BY <1>1, <1>3, <1>4, <2>4, <3>1, NothingAfterUnusable
  <2>5. Between(text, <<>>, o, offset)
      BY <1>1, <2>4, NothingBetween
  <2>6. Logo!Base64(text) =>
            \A byte \in Logo!Image(text) : byte[2] <= offset
      BY <1>1, <1>6, <2>4, ImageInOrder
  <2> QED BY <1>6, <2>2, <2>3, <2>5, <2>6 DEF t, o
<1>9. CASE ~unusable
  <2>1. t = [s EXCEPT !.sourceOffset = offset, !.pending = new,
                      !.inputFinished = finished]
      BY <1>2, <1>9
  <2>2. /\ d <= Len(text) /\ offset = d
        /\ text[a] # "=" /\ text[b] # "=" /\ (text[c] = "=" => text[d] = "=")
      BY <1>1, <1>5, <1>9
  <2>3. Between(text, new, o, d)
      BY <1>1, <1>3, <1>4, <2>2, BytesAdded
  <2>4. new \in Seq(Pairs)
      BY <2>3 DEF Between
  <2> HIDE DEF new
  <2>5. /\ t \in LogoStates(text) /\ t.text = text /\ t.sourceOffset = d
        /\ t.pending = new /\ t.inputFinished = finished
      BY <1>1, <1>6, <2>1, <2>2, <2>4 DEF LogoStates
  <2>6. Aligned(t)
      BY <1>7, <2>2, <2>5 DEF Aligned
  <2>7. ASSUME finished, Logo!Base64(text), NEW byte \in Logo!Image(text)
        PROVE  byte[2] <= d
    <3>1. CASE d >= Len(text)
        BY <1>1, <1>5, <3>1, ImageInOrder
    <3>2. CASE text[c] = "=" \/ text[d] = "="
      <4>1. text[d] = "="
          BY <1>5, <2>2, <3>2
      <4>2. byte[2] \in Logo!Place(text) /\ text[byte[2]] = "digit"
          BY ImageBytes
      <4>3. ~(d <= byte[2])
          BY <1>5, <2>2, <2>7, <4>1, <4>2, Padding
      <4> QED BY <1>5, <4>3, ImageInOrder
    <3> QED BY <2>2, <2>7, <3>1, <3>2
  <2> QED BY <1>6, <2>2, <2>3, <2>5, <2>6, <2>7 DEF t, o
<1> QED BY <1>8, <1>9

\* b is what there is of the image up to where the decoder stands.
Decoded(s, b) ==
    /\ Aligned(s)
    /\ Between(s.text, b, -1, s.sourceOffset)
    /\ s.inputFinished /\ Logo!Base64(s.text) =>
          \A byte \in Logo!Image(s.text) : byte[2] <= s.sourceOffset

\* What has been decoded and what a quartet adds are what there is up to its end.
LEMMA BetweenJoined ==
    ASSUME NEW text \in Seq(Char), NEW from \in Int, NEW to \in Nat,
           NEW end \in Nat, from < to, to <= end, NEW b, NEW new,
           Between(text, b, from, to), Between(text, new, to, end)
    PROVE  Between(text, b \o new, from, end)
<1>1. b \in Seq(Pairs) /\ new \in Seq(Pairs)
    BY DEF Between
<1>2. /\ b \o new \in Seq(Pairs)
      /\ Len(b) \in Nat /\ Len(new) \in Nat
      /\ DOMAIN b = 1..Len(b) /\ DOMAIN new = 1..Len(new)
      /\ DOMAIN (b \o new) = 1..(Len(b) + Len(new))
      /\ \A k \in 1..(Len(b) + Len(new)) :
             (b \o new)[k] = IF k <= Len(b) THEN b[k] ELSE new[k - Len(b)]
    BY <1>1
<1>3. ASSUME NEW k \in 1..(Len(b) + Len(new))
      PROVE  \/ k \in DOMAIN b /\ (b \o new)[k] = b[k]
             \/ /\ k \notin DOMAIN b /\ k - Len(b) \in DOMAIN new
                /\ (b \o new)[k] = new[k - Len(b)]
    BY <1>2
<1>4. \A byte \in Logo!Image(text) : byte[1] \in Nat /\ byte[2] \in Nat
                                     /\ byte[1] < byte[2]
    BY ImageInOrder
<1>5. \A k \in DOMAIN b : /\ b[k] \in Logo!Image(text) /\ b[k][1] \in Nat
                          /\ from < b[k][1] /\ b[k][1] < to
    BY <1>4 DEF Between
<1>6. \A k \in DOMAIN new : /\ new[k] \in Logo!Image(text) /\ new[k][1] \in Nat
                            /\ to < new[k][1] /\ new[k][1] < end
    BY <1>4 DEF Between
<1> DEFINE w == b \o new
<1>7. \A k \in DOMAIN w : /\ w[k] \in Logo!Image(text)
                          /\ from < w[k][1] /\ w[k][1] < end
  <2> TAKE k \in DOMAIN w
  <2>1. CASE k \in DOMAIN b /\ w[k] = b[k]
      BY <1>5, <2>1
  <2>2. CASE k - Len(b) \in DOMAIN new /\ w[k] = new[k - Len(b)]
      BY <1>6, <2>2
  <2> QED BY <1>2, <1>3, <2>1, <2>2
<1>8. \A k, l \in DOMAIN w : k < l => w[k][1] < w[l][1]
  <2> TAKE k, l \in DOMAIN w
  <2> SUFFICES ASSUME k < l PROVE w[k][1] < w[l][1]
      OBVIOUS
  <2>1. CASE l \in DOMAIN b
    <3>1. k \in DOMAIN b
        BY <1>2, <2>1
    <3>2. w[k] = b[k] /\ w[l] = b[l]
        BY <1>2, <1>3, <2>1, <3>1
    <3>3. b[k][1] < b[l][1]
        BY <2>1, <3>1 DEF Between
    <3> QED BY <3>2, <3>3
  <2>2. CASE l \notin DOMAIN b /\ k \in DOMAIN b
    <3>1. /\ w[k] = b[k] /\ l - Len(b) \in DOMAIN new
          /\ w[l] = new[l - Len(b)]
        BY <1>2, <1>3, <2>2
    <3>2. /\ b[k][1] \in Nat /\ b[k][1] < to
          /\ new[l - Len(b)][1] \in Nat /\ to < new[l - Len(b)][1]
        BY <1>5, <1>6, <2>2, <3>1
    <3>3. b[k][1] < new[l - Len(b)][1]
        BY <3>2
    <3> QED BY <3>1, <3>3
  <2>3. CASE k \notin DOMAIN b /\ l \notin DOMAIN b
    <3>1. /\ k - Len(b) \in DOMAIN new /\ w[k] = new[k - Len(b)]
          /\ l - Len(b) \in DOMAIN new /\ w[l] = new[l - Len(b)]
        BY <1>2, <1>3, <2>3
    <3>2. k - Len(b) < l - Len(b)
        BY <1>2
    <3>3. new[k - Len(b)][1] < new[l - Len(b)][1]
        BY <3>1, <3>2 DEF Between
    <3> QED BY <3>1, <3>3
  <2> QED BY <2>1, <2>2, <2>3
<1>9. ASSUME Logo!Base64(text), NEW byte \in Logo!Image(text),
             from < byte[2], byte[2] <= end
      PROVE  \E k \in DOMAIN w : w[k] = byte
  <2>1. CASE byte[2] <= to
    <3>1. PICK k \in DOMAIN b : b[k] = byte
        BY <1>9, <2>1 DEF Between
    <3>2. k \in DOMAIN w /\ w[k] = b[k]
        BY <1>2, <3>1
    <3> QED BY <3>1, <3>2
  <2>2. CASE to < byte[2]
    <3>1. PICK k \in DOMAIN new : new[k] = byte
        BY <1>9, <2>2 DEF Between
    <3>2. k + Len(b) \in DOMAIN w /\ w[k + Len(b)] = new[k]
        BY <1>2, <3>1
    <3> QED BY <3>1, <3>2
  <2> QED BY <1>4, <2>1, <2>2
<1>10. w \in Seq(Pairs)
    BY <1>2
<1> HIDE DEF w
<1>11. Between(text, w, from, end)
    BY <1>7, <1>8, <1>9, <1>10 DEF Between
<1> QED BY <1>11 DEF w

\* The loop that fills a chunk.
ChunkStates(text) ==
    [s: LogoStates(text), bytes: Seq(Pairs), break: BOOLEAN]

\* Moving the first of what is pending behind what has been written changes
\* nothing of the two together.
LEMMA Moving ==
    ASSUME NEW A \in Seq(Pairs), NEW q \in Seq(Pairs), NEW p \in Seq(Pairs),
           p # <<>>
    PROVE  /\ Append(q, Head(p)) \in Seq(Pairs) /\ Tail(p) \in Seq(Pairs)
           /\ (A \o Append(q, Head(p))) \o Tail(p) = (A \o q) \o p
<1>1. /\ Append(q, Head(p)) \in Seq(Pairs) /\ Tail(p) \in Seq(Pairs)
      /\ Len(p) \in Nat \ {0}
    OBVIOUS
<1> DEFINE l == (A \o Append(q, Head(p))) \o Tail(p)
           r == (A \o q) \o p
<1>2. l \in Seq(Pairs) /\ r \in Seq(Pairs)
    BY <1>1
<1>3. /\ Len(l) = Len(A) + Len(q) + Len(p)
      /\ Len(r) = Len(A) + Len(q) + Len(p)
    BY <1>1
<1>4. ASSUME NEW k \in 1..(Len(A) + Len(q) + Len(p)) PROVE l[k] = r[k]
    BY <1>1
<1> HIDE DEF l, r
<1>5. l = [k \in 1..Len(l) |-> l[k]] /\ r = [k \in 1..Len(r) |-> r[k]]
    BY <1>2
<1>6. l = r
    BY <1>3, <1>4, <1>5
<1> QED BY <1>1, <1>6 DEF l, r

\* One more byte, or none.
LEMMA OneByte ==
    ASSUME NEW text \in Seq(Char), NEW B \in Seq(Pairs),
           NEW chunk \in ChunkStates(text),
           Decoded(chunk.s, (B \o chunk.bytes) \o chunk.s.pending)
    PROVE  LET n == Logo!NextByte(chunk)
           IN  /\ n \in ChunkStates(text)
               /\ Decoded(n.s, (B \o n.bytes) \o n.s.pending)
<1> DEFINE s == IF chunk.s.pending = <<>> THEN Logo!Fill(chunk.s) ELSE chunk.s
           n == Logo!NextByte(chunk)
<1>1. /\ chunk.s \in LogoStates(text) /\ chunk.bytes \in Seq(Pairs)
      /\ chunk = [s |-> chunk.s, bytes |-> chunk.bytes, break |-> chunk.break]
      /\ chunk.break \in BOOLEAN
    BY DEF ChunkStates
<1>2. n = IF chunk.break THEN chunk
          ELSE IF s.pending = <<>> THEN [chunk EXCEPT !.s = s, !.break = TRUE]
          ELSE [s |-> [s EXCEPT !.pending = Tail(s.pending)],
                bytes |-> Append(chunk.bytes, Head(s.pending)), break |-> FALSE]
    BY DEF Logo!NextByte
<1>3. /\ chunk.s.text = text /\ chunk.s.sourceOffset \in Nat
      /\ chunk.s.pending \in Seq(Pairs) /\ Len(text) \in Nat
    BY <1>1 DEF LogoStates
<1>4. s \in LogoStates(text) /\ Decoded(s, (B \o chunk.bytes) \o s.pending)
  <2>1. CASE chunk.s.pending # <<>>
      BY <1>1, <2>1
  <2>2. CASE chunk.s.pending = <<>>
    <3> DEFINE o == chunk.s.sourceOffset
               old == B \o chunk.bytes
    <3>1. old \in Seq(Pairs) /\ old \o <<>> = old
        BY <1>1
    <3>2. Aligned(chunk.s) /\ Between(text, old, -1, o)
        BY <1>3, <2>2, <3>1 DEF Decoded
    <3>3. s = Logo!Fill(chunk.s)
        BY <2>2
    <3>4. /\ s \in LogoStates(text) /\ Aligned(s)
          /\ o <= s.sourceOffset
          /\ Between(text, s.pending, o, s.sourceOffset)
          /\ s.inputFinished /\ Logo!Base64(text) =>
                \A byte \in Logo!Image(text) : byte[2] <= s.sourceOffset
        BY <1>1, <2>2, <3>2, <3>3, Filling
    <3> HIDE DEF s, old
    <3>5. s.text = text /\ s.sourceOffset \in Nat
        BY <1>3, <3>4 DEF LogoStates
    <3>6. Between(text, old \o s.pending, -1, s.sourceOffset)
        BY <1>3, <3>2, <3>4, <3>5, BetweenJoined
    <3> QED BY <3>4, <3>5, <3>6 DEF Decoded, old
  <2> QED BY <2>1, <2>2
<1> HIDE DEF s, n
<1>9. \A w, p \in Seq(Pairs) : p # <<>> =>
          /\ Append(w, Head(p)) \in Seq(Pairs) /\ Tail(p) \in Seq(Pairs)
          /\ (B \o Append(w, Head(p))) \o Tail(p) = (B \o w) \o p
    BY Moving
<1>5. s.pending \in Seq(Pairs)
    BY <1>4 DEF LogoStates
<1>6. CASE chunk.break
    BY <1>2, <1>6 DEF n
<1>7. CASE ~chunk.break /\ s.pending = <<>>
  <2>1. n = [s |-> s, bytes |-> chunk.bytes, break |-> TRUE]
      BY <1>1, <1>2, <1>7
  <2>2. n \in ChunkStates(text)
      BY <1>1, <1>4, <2>1 DEF ChunkStates
  <2>3. n.s = s /\ n.bytes = chunk.bytes
      BY <2>1
  <2> QED BY <1>4, <2>2, <2>3 DEF n
<1>8. CASE ~chunk.break /\ s.pending # <<>>
  <2> DEFINE m == [s EXCEPT !.pending = Tail(s.pending)]
             q == Append(chunk.bytes, Head(s.pending))
  <2>1. n = [s |-> m, bytes |-> q, break |-> FALSE]
      BY <1>2, <1>8
  <2>2. /\ q \in Seq(Pairs) /\ Tail(s.pending) \in Seq(Pairs)
        /\ (B \o q) \o Tail(s.pending) = (B \o chunk.bytes) \o s.pending
    <3>1. PICK p \in Seq(Pairs) : p = s.pending
        BY <1>5
    <3>4. PICK w \in Seq(Pairs) : w = chunk.bytes
        BY <1>1
    <3> HIDE DEF q, m
    <3>5. p # <<>>
        BY <1>8, <3>1
    <3>6. /\ Append(w, Head(p)) \in Seq(Pairs) /\ Tail(p) \in Seq(Pairs)
          /\ (B \o Append(w, Head(p))) \o Tail(p) = (B \o w) \o p
        BY <1>9, <3>1, <3>4, <3>5, Zenon
    <3> QED BY <3>1, <3>4, <3>6, Zenon DEF q
  <2>3. /\ m \in LogoStates(text) /\ m.pending = Tail(s.pending)
        /\ m.text = s.text /\ m.sourceOffset = s.sourceOffset
        /\ m.inputFinished = s.inputFinished
      BY <1>4, <2>2 DEF LogoStates
  <2> HIDE DEF m, q
  <2>4. Decoded(m, (B \o q) \o m.pending)
      BY <1>4, <2>2, <2>3 DEF Decoded, Aligned
  <2>5. n \in ChunkStates(text) /\ n.s = m /\ n.bytes = q
      BY <2>1, <2>2, <2>3 DEF ChunkStates
  <2> QED BY <2>4, <2>5 DEF n
<1> QED BY <1>1, <1>6, <1>7, <1>8

\* The loop computes what its recursion says: there is such a function.
LEMMA LoopExists ==
    ASSUME NEW s, NEW n \in Nat
    PROVE  \E f : f = [i \in 0..n |->
                          IF i = 0 THEN [s |-> s, bytes |-> <<>>, break |-> FALSE]
                          ELSE Logo!NextByte(f[i - 1])]
<1> DEFINE first == [s |-> s, bytes |-> <<>>, break |-> FALSE]
           Loop(f, m) == f = [i \in 0..m |-> IF i = 0 THEN first
                                             ELSE Logo!NextByte(f[i - 1])]
           Missing == {m \in Nat : ~\E f : Loop(f, m)}
<1>1. SUFFICES Missing = {}
    OBVIOUS
<1>2. SUFFICES ASSUME Missing # {} PROVE FALSE
    OBVIOUS
<1>3. PICK m \in Missing : \A k \in Missing : m <= k
  <2>1. Missing \subseteq Nat
      OBVIOUS
  <2> HIDE DEF Missing
  <2> QED BY <1>2, <2>1, LeastNumber
<1> HIDE DEF first
<1>4. m # 0
  <2> SUFFICES \E f : Loop(f, 0)
      OBVIOUS
  <2> DEFINE f == [i \in 0..0 |-> first]
  <2>1. f = [i \in 0..0 |-> IF i = 0 THEN first ELSE Logo!NextByte(f[i - 1])]
      OBVIOUS
  <2> QED BY <2>1
<1>5. m \in Nat /\ m - 1 \in Nat /\ m - 1 \notin Missing
  <2>1. m \in Nat
      OBVIOUS
  <2> HIDE DEF Missing
  <2>2. m - 1 \in Nat /\ ~(m <= m - 1)
      BY <1>4, <2>1
  <2> QED BY <1>3, <2>1, <2>2
<1>6. PICK f : Loop(f, m - 1)
    BY <1>5
<1> DEFINE g == [i \in 0..m |-> IF i = m THEN Logo!NextByte(f[m - 1]) ELSE f[i]]
<1>7. \A i \in 0..(m - 1) : f[i] = IF i = 0 THEN first
                                   ELSE Logo!NextByte(f[i - 1])
    BY <1>6
<1>8. \A i \in 0..m : g[i] = IF i = 0 THEN first ELSE Logo!NextByte(g[i - 1])
  <2> TAKE i \in 0..m
  <2>1. CASE i = 0
      BY <1>4, <1>5, <1>7, <2>1
  <2>2. CASE i # 0 /\ i # m
    <3>1. i \in 0..(m - 1) /\ i - 1 \in 0..m /\ i - 1 # m
        BY <1>5, <2>2
    <3> QED BY <1>7, <2>2, <3>1
  <2>3. CASE i = m
    <3>1. m - 1 \in 0..m /\ m - 1 # m
        BY <1>5
    <3> QED BY <1>4, <2>3, <3>1
  <2> QED BY <2>1, <2>2, <2>3
<1>9. DOMAIN g = 0..m /\ g = [i \in 0..m |-> g[i]]
    OBVIOUS
<1> HIDE DEF g
<1>10. Loop(g, m)
    BY <1>8, <1>9
<1> QED BY <1>10

\* What holds of the first chunk and is kept by every byte holds of the last.
LEMMA ChunkKeeps ==
    ASSUME NEW text \in Seq(Char), NEW B \in Seq(Pairs),
           NEW s \in LogoStates(text), Decoded(s, B \o s.pending), NEW n \in Nat
    PROVE  LET chunk == Logo!Written(s, n)
           IN  /\ chunk \in ChunkStates(text)
               /\ Decoded(chunk.s, (B \o chunk.bytes) \o chunk.s.pending)
<1> DEFINE first == [s |-> s, bytes |-> <<>>, break |-> FALSE]
           Loop(f) == f = [i \in 0..n |-> IF i = 0 THEN first
                                          ELSE Logo!NextByte(f[i - 1])]
           After == CHOOSE f : Loop(f)
           Good(c) == /\ c \in ChunkStates(text)
                      /\ Decoded(c.s, (B \o c.bytes) \o c.s.pending)
           Bad == {i \in 0..n : ~Good(After[i])}
<1>1. Logo!Written(s, n) = After[n]
    BY DEF Logo!Written
<1>2. Loop(After)
    BY LoopExists
<1> HIDE DEF After
<1>3. Good(first)
  <2>1. first \in ChunkStates(text)
      BY DEF ChunkStates
  <2>2. B \o <<>> = B
      OBVIOUS
  <2>3. first.s = s /\ first.bytes = <<>>
      OBVIOUS
  <2> HIDE DEF first
  <2> QED BY <2>1, <2>2, <2>3
<1> HIDE DEF first
<1>4. \A c : Good(c) => Good(Logo!NextByte(c))
    BY OneByte
<1> HIDE DEF Good
<1>5. /\ After[0] = first
      /\ \A i \in 0..n : i # 0 => After[i] = Logo!NextByte(After[i - 1])
    BY <1>2
<1> HIDE DEF Loop
<1>6. Bad = {}
  <2> SUFFICES ASSUME Bad # {} PROVE FALSE
      OBVIOUS
  <2>1. Bad \subseteq Nat
      OBVIOUS
  <2>2. PICK m \in Bad : \A k \in Bad : m <= k
    <3> HIDE DEF Bad
    <3> QED BY <2>1, LeastNumber
  <2>3. m # 0 /\ m \in 0..n
      BY <1>3, <1>5
  <2>4. m - 1 \in 0..n /\ m - 1 \notin Bad
    <3>1. m - 1 \in 0..n /\ ~(m <= m - 1)
        BY <2>3
    <3> HIDE DEF Bad
    <3> QED BY <2>2, <3>1
  <2>5. Good(After[m - 1])
      BY <2>4
  <2>6. Good(After[m])
      BY <1>4, <1>5, <2>3, <2>5
  <2> QED BY <2>6
<1>7. Good(After[n])
    BY <1>6
<1> QED BY <1>1, <1>7 DEF Good

\* A logo is decoded as far as its response stands.
LogoFits(response) ==
    LET s == response.stream
    IN  /\ s.text \in Seq(Char) /\ s \in LogoStates(s.text)
        /\ response.body \in Seq(Pairs)
        /\ Decoded(s, response.body \o s.pending)
        /\ s.complete => s.inputFinished /\ s.pending = <<>>

LogosFit == \A r \in Logos : LogoFits(responses[r])

\* Nothing has been decoded at first.
LEMMA FirstState ==
    ASSUME NEW text \in Seq(Char), NEW response,
           response.stream = Logo!Start(text), response.body = <<>>
    PROVE  LogoFits(response)
<1> DEFINE s == Logo!Start(text)
<1>1. /\ s \in LogoStates(text) /\ s.text = text /\ s.sourceOffset = 0
      /\ s.pending = <<>> /\ s.inputFinished = FALSE /\ s.complete = FALSE
    BY DEF Logo!Start, LogoStates
<1>2. Logo!Rank(text, 0) = 0
  <2>1. {j \in Logo!Place(text) : j <= 0} = {}
      BY PlacesAreFinite
  <2> QED BY <2>1, RankIsCount, FS_EmptySet
<1>3. Logo!Rank(text, 0) % 4 = 0
    BY <1>2
<1>4. Between(text, <<>>, -1, 0)
  <2>1. \A byte \in Logo!Image(text) : ~(byte[2] <= 0)
      BY ImageInOrder
  <2>2. <<>> \in Seq(Pairs) /\ DOMAIN <<>> = {}
      OBVIOUS
  <2> QED BY <2>1, <2>2 DEF Between
<1> HIDE DEF s
<1>5. Decoded(s, <<>>)
    BY <1>1, <1>3, <1>4 DEF Decoded, Aligned
<1>6. <<>> \in Seq(Pairs) /\ <<>> \o <<>> = <<>>
    OBVIOUS
<1>7. response.stream = s
    BY DEF s
<1> QED BY <1>1, <1>5, <1>6, <1>7 DEF LogoFits

\* renderDecodedLogoChunk.
LEMMA Rendering ==
    ASSUME NEW old, NEW new, NEW n \in Nat, LogoFits(old),
           new.stream = Logo!Render(old.stream, n).s,
           new.body = old.body \o Logo!Render(old.stream, n).bytes
    PROVE  LogoFits(new)
<1> DEFINE s == old.stream
           text == s.text
           B == old.body
           chunk == Logo!Written(s, n)
           t == chunk.s
           u == [t EXCEPT !.complete = t.inputFinished /\ t.pending = <<>>]
<1>1. /\ text \in Seq(Char) /\ s \in LogoStates(text) /\ B \in Seq(Pairs)
      /\ Decoded(s, B \o s.pending)
    BY DEF LogoFits
<1>2. /\ chunk \in ChunkStates(text)
      /\ Decoded(chunk.s, (B \o chunk.bytes) \o chunk.s.pending)
  <2> HIDE DEF s, B, text
  <2> QED BY <1>1, ChunkKeeps
<1>3. new.stream = u /\ new.body = B \o chunk.bytes
    BY DEF Logo!Render
<1> HIDE DEF chunk, s, B, text
<1>4. t \in LogoStates(text) /\ chunk.bytes \in Seq(Pairs)
    BY <1>2 DEF ChunkStates
<1> HIDE DEF t
<1>5. /\ u \in LogoStates(text) /\ u.text = text /\ u.pending = t.pending
      /\ u.sourceOffset = t.sourceOffset /\ t.text = text
      /\ u.inputFinished = t.inputFinished
      /\ u.complete = (t.inputFinished /\ t.pending = <<>>)
    BY <1>4 DEF LogoStates
<1>6. Decoded(t, (B \o chunk.bytes) \o t.pending)
    BY <1>2 DEF t
<1> HIDE DEF u
<1>7. Decoded(u, (B \o chunk.bytes) \o u.pending)
    BY <1>5, <1>6 DEF Decoded, Aligned
<1>8. B \o chunk.bytes \in Seq(Pairs)
    BY <1>1, <1>4
<1>9. u.complete => u.inputFinished /\ u.pending = <<>>
    BY <1>5
<1> QED BY <1>1, <1>3, <1>5, <1>7, <1>8, <1>9 DEF LogoFits

\* A response that stays as it is keeps its logo.
LEMMA LogosKept ==
    ASSUME LogosFit,
           \A q \in Logos' : q \in Logos /\ responses'[q] = responses[q]
    PROVE  LogosFit'
    BY DEF LogosFit

\* No step loses or doubles a byte of a logo.
LEMMA LogosStep ==
    ASSUME StreamsFit, LogosFit, [StreamNext]_streamVars
    PROVE  LogosFit'
<1>0. responses = [q \in Request |-> responses[q]]
    BY DEF StreamsFit, ResponsesFit
<1>1. CASE UNCHANGED responses
    BY <1>1, LogosKept DEF Logos, Open
<1>2. ASSUME NEW r \in Request, NEW new, responses[r] = NoResponse,
             responses' = [responses EXCEPT ![r] = new],
             new.kind = "logo" => LogoFits(new)
      PROVE  LogosFit'
  <2>1. \A q \in Request : responses'[q] = IF q = r THEN new ELSE responses[q]
      BY <1>0, <1>2
  <2>2. ASSUME NEW q \in Logos' PROVE LogoFits(responses'[q])
    <3>1. q \in Request /\ responses'[q] # NoResponse
          /\ responses'[q].kind = "logo"
        BY <2>2 DEF Logos, Open
    <3>2. CASE q = r
        BY <1>2, <2>1, <3>1, <3>2
    <3>3. CASE q # r
      <4>1. responses'[q] = responses[q]
          BY <2>1, <3>1, <3>3
      <4>2. q \in Logos
          BY <3>1, <4>1 DEF Logos, Open
      <4> QED BY <4>1, <4>2 DEF LogosFit
    <3> QED BY <3>2, <3>3
  <2> QED BY <2>2 DEF LogosFit
<1>3. ASSUME NEW r \in Request, NEW path, NEW authenticated,
             Get(r, path, authenticated)
      PROVE  LogosFit'
  <2>1. CASE UNCHANGED streamVars
      BY <1>1, <2>1 DEF streamVars
  <2>2. ASSUME NEW allocated, HandlePage(r, allocated) PROVE LogosFit'
    <3>1. PICK p \in Available(TRUE) :
              \/ responses' = [responses EXCEPT ![r] =
                    WithoutSlot("page", p, [left |-> Chunks])]
              \/ UNCHANGED responses
        BY <2>2 DEF HandlePage
    <3>2. WithoutSlot("page", p, [left |-> Chunks]).kind = "page"
        BY DEF WithoutSlot, Admitted
    <3>3. responses[r] = NoResponse
        BY <2>2 DEF HandlePage
    <3> QED BY <1>1, <1>2, <3>1, <3>2, <3>3
  <2>3. ASSUME NEW text \in Texts, HandleWebLogo(r, text) PROVE LogosFit'
    <3>1. PICK p, s :
              \/ responses' = [responses EXCEPT ![r] =
                    WithSlot("logo", p, logoResponseSlots, s,
                             Logo!Start(text))]
              \/ UNCHANGED responses
        BY <2>3 DEF HandleWebLogo
    <3> DEFINE new == WithSlot("logo", p, logoResponseSlots, s,
                               Logo!Start(text))
    <3>2. new.stream = Logo!Start(text) /\ new.body = <<>>
        BY DEF WithSlot, Admitted
    <3>3. responses[r] = NoResponse
        BY <2>3 DEF HandleWebLogo
    <3>4. text \in Seq(Char)
        BY StreamTextsAssumption DEF Char
    <3> HIDE DEF new
    <3>5. LogoFits(new)
        BY <3>2, <3>4, FirstState
    <3>6. responses' = [responses EXCEPT ![r] = new] \/ UNCHANGED responses
        BY <3>1 DEF new
    <3> QED BY <1>1, <1>2, <3>3, <3>5, <3>6
  <2>4. CASE HandleAPIStatus(r)
    <3>1. PICK p, s :
              \/ responses' = [responses EXCEPT ![r] =
                    WithSlot("status", p, statusResponseSlots, s,
                             [left |-> Chunks])]
              \/ UNCHANGED responses
        BY <2>4 DEF HandleAPIStatus
    <3>2. WithSlot("status", p, statusResponseSlots, s,
                   [left |-> Chunks]).kind = "status"
        BY DEF WithSlot, Admitted
    <3>3. responses[r] = NoResponse
        BY <2>4 DEF HandleAPIStatus
    <3> QED BY <1>1, <1>2, <3>1, <3>2, <3>3
  <2> QED BY <1>3, <2>1, <2>2, <2>3, <2>4 DEF Get
<1>4. ASSUME NEW r \in Request, NEW n \in 1..MaxChunk, Chunk(r, n)
      PROVE  LogosFit'
  <2> DEFINE old == responses[r]
             chunk == IF r \in Logos THEN Logo!Render(old.stream, n)
                      ELSE [s |-> [left |-> old.stream.left - 1], bytes |-> <<>>]
             new == [old EXCEPT !.stream = chunk.s, !.body = @ \o chunk.bytes]
  <2>1. r \in Open /\ responses' = [responses EXCEPT ![r].stream = chunk.s,
                                                ![r].body = @ \o chunk.bytes]
      BY <1>4 DEF Chunk
  <2>2. Fields \subseteq DOMAIN old /\ old.kind \in {"page", "status", "logo"}
      BY <2>1 DEF StreamsFit, ResponsesFit
  <2> HIDE DEF chunk
  <2>3. responses' = [responses EXCEPT ![r] = new]
      BY <1>0, <2>1
  <2>4. \A q \in Request : responses'[q] = IF q = r THEN new ELSE responses[q]
    <3> HIDE DEF new
    <3> QED BY <1>0, <2>3
  <2>5. /\ new.kind = old.kind /\ new.stream = chunk.s
        /\ new.body = old.body \o chunk.bytes
      BY <2>2 DEF Fields
  <2> HIDE DEF new
  <2>6. ASSUME NEW q \in Logos' PROVE LogoFits(responses'[q])
    <3>1. /\ q \in Request /\ responses'[q] # NoResponse
          /\ responses'[q].kind = "logo"
        BY <2>6 DEF Logos, Open
    <3>2. CASE q # r
      <4>1. responses'[q] = responses[q]
          BY <2>4, <3>1, <3>2
      <4>2. q \in Logos
          BY <3>1, <4>1 DEF Logos, Open
      <4> QED BY <4>1, <4>2 DEF LogosFit
    <3>3. CASE q = r
      <4>1. responses'[q] = new /\ new.kind = "logo"
          BY <2>4, <3>1, <3>3
      <4>2. r \in Logos
          BY <2>1, <2>5, <4>1 DEF Logos
      <4>3. LogoFits(old)
          BY <4>2 DEF LogosFit
      <4>4. n \in Nat
          OBVIOUS
      <4>5. chunk = Logo!Render(old.stream, n)
          BY <4>2 DEF chunk
      <4> HIDE DEF old
      <4>6. LogoFits(new)
          BY <2>5, <4>3, <4>4, <4>5, Rendering
      <4> QED BY <4>1, <4>6
    <3> QED BY <3>2, <3>3
  <2> QED BY <2>6 DEF LogosFit
<1>5. ASSUME NEW r \in Request, Close(r) PROVE LogosFit'
  <2>1. responses' = [responses EXCEPT ![r] = NoResponse]
      BY <1>5 DEF Close
  <2>2. \A q \in Logos' : q \in Logos /\ responses'[q] = responses[q]
      BY <1>0, <2>1 DEF Logos, Open
  <2> QED BY <2>2, LogosKept
<1>6. CASE Shutdown \/ Setup
    BY <1>1, <1>6 DEF Shutdown, Setup
<1>7. CASE UNCHANGED streamVars
    BY <1>1, <1>7 DEF streamVars
<1> QED BY <1>3, <1>4, <1>5, <1>6, <1>7 DEF StreamNext

\* What has been sent of a logo is part of what it stands for, and all of it
\* when it is complete.
LEMMA DecodedLogo ==
    ASSUME NEW response, LogoFits(response)
    PROVE  LET s == response.stream
           IN  /\ Logo!PartOf(s.text, response.body)
               /\ s.complete /\ Logo!Base64(s.text) =>
                     Logo!Depicts(s.text, response.body)
<1> DEFINE s == response.stream
           text == s.text
           b == response.body
           w == b \o s.pending
<1>1. /\ text \in Seq(Char) /\ s \in LogoStates(text) /\ b \in Seq(Pairs)
      /\ Decoded(s, w)
      /\ s.complete => s.inputFinished /\ s.pending = <<>>
    BY DEF LogoFits
<1>2. s.pending \in Seq(Pairs)
    BY <1>1 DEF LogoStates
<1>3. Between(text, w, -1, s.sourceOffset)
    BY <1>1 DEF Decoded
<1> HIDE DEF s, text, b
<1>4. \A k \in DOMAIN b : k \in DOMAIN w /\ w[k] = b[k]
    BY <1>1, <1>2
<1>5. \A k \in DOMAIN b : b[k] \in Logo!Image(text)
    BY <1>3, <1>4 DEF Between
<1>6. \A k, l \in DOMAIN b : k < l => b[k][1] < b[l][1]
    BY <1>3, <1>4 DEF Between
<1>7. Logo!PartOf(text, b)
    BY <1>5, <1>6 DEF Logo!PartOf, Logo!Range
<1>8. ASSUME s.complete, Logo!Base64(text) PROVE Logo!Depicts(text, b)
  <2>1. w = b
      BY <1>1, <1>8
  <2>2. \A byte \in Logo!Image(text) : byte[2] <= s.sourceOffset
      BY <1>1, <1>8 DEF Decoded, text
  <2>3. \A byte \in Logo!Image(text) : -1 < byte[2]
      BY <1>1, ImageInOrder
  <2>4. \A byte \in Logo!Image(text) : \E k \in DOMAIN b : b[k] = byte
      BY <1>3, <1>8, <2>1, <2>2, <2>3 DEF Between
  <2> QED BY <1>7, <2>4 DEF Logo!Depicts, Logo!Range
<1> QED BY <1>7, <1>8 DEF s, text, b

\* LogosAreWhole: for any texts, sent in chunks of any sizes.  What has arrived of
\* a logo are bytes of its image, in their order and none twice, and of a base64
\* text the whole image once the response is complete.
THEOREM LogosArriveWhole == StreamSpec => []LogosAreWhole
<1>1. StreamInit => LogosFit
    BY DEF StreamInit, LogosFit, Logos, Open
<1>2. StreamsFit /\ LogosFit /\ [StreamNext]_streamVars => LogosFit'
    BY LogosStep
<1>3. LogosFit => LogosAreWhole
  <2> SUFFICES ASSUME LogosFit, NEW r \in Logos
               PROVE  LET text == responses[r].stream.text
                          body == responses[r].body
                      IN  /\ Logo!PartOf(text, body)
                          /\ Complete(responses[r]) /\ Logo!Base64(text) =>
                                Logo!Depicts(text, body)
      BY DEF LogosAreWhole
  <2>1. LogoFits(responses[r]) /\ responses[r].kind = "logo"
      BY DEF LogosFit, Logos
  <2>2. Complete(responses[r]) => responses[r].stream.complete
      BY <2>1 DEF Complete
  <2> QED BY <2>1, <2>2, DecodedLogo
<1> QED BY <1>1, <1>2, <1>3, StreamsInitially, StreamsStep, PTL DEF StreamSpec
=============================================================================
