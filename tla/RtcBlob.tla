------------------------------ MODULE RtcBlob ------------------------------
(***************************************************************************)
(* DeviceFrameworkRtcBlob: named payloads of a sketch that outlive a       *)
(* restart.  An ESP8266 has one slot of RTC memory for every name, which a *)
(* reset can leave half written and which power loss fills with noise; an  *)
(* ESP32 keeps an entry of its Preferences per hash of a name, written     *)
(* whole or not at all.  The words of a record go out in the order of its  *)
(* fields, and its checksum covers the payload alone: after the word with  *)
(* the name's hash an interrupted write has given the old payload a new    *)
(* name.  That the checksum tells a payload from a half written one is     *)
(* assumed.                                                                *)
(***************************************************************************)
EXTENDS Naturals

CONSTANTS
    Name, Payload,
    HashValue,
    Hash,           \* hashName; two names may have one hash
    Length,         \* Length[d]: the bytes of a payload
    MaxPayload,     \* MAX_PAYLOAD, 64
    OneSlot,        \* an ESP8266
    Slot,           \* its slot
    Nothing         \* no record, and no payload read

VARIABLES
    store,      \* the record under each key
    latest,     \* history: the hash and the payload last written whole there
    cut         \* history: the hashes whose writes were cut short since then

blobVars == <<store, latest, cut>>

Sane == /\ Hash \in [Name -> HashValue]
        /\ Length \in [Payload -> Nat] /\ MaxPayload \in Nat
        /\ OneSlot \in BOOLEAN /\ Slot \notin HashValue
        /\ Nothing \notin Payload \cup HashValue

Key == IF OneSlot THEN {Slot} ELSE HashValue
KeyOf(name) == IF OneSlot THEN Slot ELSE Hash[name]

\* Magic, nameHash, payloadLen, payloadCrc32 as the payload it fits, and the
\* payload.
Record == [magic : BOOLEAN, hash : HashValue \cup {Nothing}, length : Nat,
           crc : Payload \cup {Nothing}, data : Payload \cup {Nothing}]
Noise == [magic |-> FALSE, hash |-> Nothing, length |-> 0,
          crc |-> Nothing, data |-> Nothing]

Written(name, d) ==
    [magic |-> TRUE, hash |-> Hash[name], length |-> Length[d], crc |-> d,
     data |-> d]

\* The first words of a new record over an old one: the magic, the hash, the
\* length, the checksum, and some of the payload.
Partly(old, new, words) ==
    [magic  |-> new.magic,
     hash   |-> IF words >= 2 THEN new.hash ELSE old.hash,
     length |-> IF words >= 3 THEN new.length ELSE old.length,
     crc    |-> IF words >= 4 THEN new.crc ELSE old.crc,
     data   |-> IF words >= 5 THEN Nothing ELSE old.data]

\* A payload that write accepts.
Fits(d) == Length[d] \in 1..MaxPayload

-----------------------------------------------------------------------------
\* Whatever a first boot finds: noise, or nothing.
BlobInit ==
    /\ store = [k \in Key |-> Noise]
    /\ latest = [k \in Key |-> [hash |-> Nothing, data |-> Nothing]]
    /\ cut = {}

\* write; memory that refuses is left as it was, and the sketch told.
Write(name, d) ==
    /\ Fits(d)
    /\ store' = [store EXCEPT ![KeyOf(name)] = Written(name, d)]
    /\ latest' = [latest EXCEPT ![KeyOf(name)] =
                     [hash |-> Hash[name], data |-> d]]
    /\ cut' = {}

\* A reset in the middle of write; after the last word it is Write itself.
WriteInterrupted(name, d) ==
    /\ OneSlot /\ Fits(d)
    /\ \E words \in 1..5 :
          store' = [store EXCEPT ![Slot] = Partly(@, Written(name, d), words)]
    /\ cut' = cut \cup {Hash[name]}
    /\ UNCHANGED latest

\* clear: on an ESP8266 whatever the slot holds, whosever it is.
Clear(name) ==
    /\ store' = [store EXCEPT ![KeyOf(name)] = Noise]
    /\ UNCHANGED <<latest, cut>>

\* A reset in the middle of the zeros that clear writes on an ESP8266.
ClearInterrupted ==
    /\ OneSlot
    /\ \E words \in 1..5 :
          store' = [store EXCEPT ![Slot] = Partly(@, Noise, words)]
    /\ UNCHANGED <<latest, cut>>

PowerLoss ==
    /\ OneSlot
    /\ store' = [k \in Key |-> Noise]
    /\ UNCHANGED <<latest, cut>>

\* read into a buffer of `capacity' bytes: the magic, the format and the
\* checksum in order, the hash that of the name, and the length the buffer's,
\* or no more than the buffer's where the caller asks for it.
Read(name, capacity, asksLength) ==
    LET record == store[KeyOf(name)]
    IN  IF /\ record.magic /\ record.hash = Hash[name]
           /\ record.length \in 1..MaxPayload
           /\ record.data # Nothing
           /\ record.crc = record.data /\ record.length = Length[record.data]
           /\ IF asksLength THEN record.length <= capacity
              ELSE record.length = capacity
        THEN record.data ELSE Nothing

BlobNext ==
    \/ \E name \in Name, d \in Payload :
            Write(name, d) \/ WriteInterrupted(name, d)
    \/ \E name \in Name : Clear(name)
    \/ ClearInterrupted \/ PowerLoss

BlobSpec == BlobInit /\ [][BlobNext]_blobVars

-----------------------------------------------------------------------------
BlobTypeOK ==
    /\ store \in [Key -> Record]
    /\ latest \in [Key -> [hash : HashValue \cup {Nothing},
                           data : Payload \cup {Nothing}]]
    /\ cut \subseteq HashValue

\* What is read is the payload last written whole, and fits the buffer it is
\* copied into: never half of a payload, never one that has been replaced.
\* "Read fails if the stored name hash does not match" (DeviceFrameworkRtcBlob.h
\* 19), so it was written under this name or under one with its hash - unless
\* a write under this name has been cut short since, on an ESP8266: then it may
\* be another name's.
ReadsAreTheLastWritten ==
    \A name \in Name, capacity \in Nat, asksLength \in BOOLEAN :
        LET d == Read(name, capacity, asksLength)
            last == latest[KeyOf(name)]
        IN  d # Nothing =>
                /\ d = last.data /\ Length[d] <= capacity
                /\ last.hash # Hash[name] => OneSlot /\ Hash[name] \in cut

\* On an ESP32 the names do not disturb each other: what is read under one,
\* into a buffer of any capacity, is what was read before a name with another
\* hash was written or cleared.
LeavesOthers ==
    \A name, other \in Name, capacity \in Nat, asksLength \in BOOLEAN :
        ( /\ ~OneSlot
          /\ Hash[other] # Hash[name]
          /\ \/ \E d \in Payload : Write(other, d)
             \/ Clear(other) )
        => Read(name, capacity, asksLength)' = Read(name, capacity, asksLength)
Undisturbed == [][LeavesOthers]_blobVars

-----------------------------------------------------------------------------
(* A payload in its place is the one last written there, under that name,  *)
(* one whose write was cut short, or none.                                 *)

BlobInvariant ==
    /\ BlobTypeOK
    /\ OneSlot \/ cut = {}
    /\ \A k \in Key : store[k].data # Nothing =>
            /\ store[k].data = latest[k].data
            /\ store[k].hash \in cut \cup {latest[k].hash, Nothing}
=============================================================================
