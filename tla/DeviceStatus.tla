---------------------------- MODULE DeviceStatus ----------------------------
(***************************************************************************)
(* DeviceStatusManager: the status of the device, gathered by the loop of  *)
(* the web interface and by every status request, and printed as JSON into *)
(* the chunks of the responses.                                            *)
(*                                                                         *)
(* Of the gathered values two are kept: whether the Wi-Fi is connected,    *)
(* which stands for what only a heavy update reads, and the width of a     *)
(* field, which any update may change.  Times are kept as ages, that is,   *)
(* as what TimeUtils makes of now and a stamp (DifferenceIsElapsed of      *)
(* StatusProofs).  On ESP32 the loop and the handlers are two tasks;       *)
(* an update or a chunk is one step here.                                  *)
(***************************************************************************)
EXTENDS Integers, Sequences

CONSTANTS
    Reader,         \* status responses that may be open at the same time
    MaxChunk,       \* bound on the room for a chunk
    Widths,         \* widths of the variable field of the document
    CacheInterval,  \* CONFIG_apiStatusCacheInterval, in ticks
    HeavyInterval   \* CONFIG_heavyUpdateInterval

ASSUME DeviceStatusAssumption ==
    /\ Widths \subseteq Nat /\ MaxChunk \in Nat \ {0}
    /\ CacheInterval \in Nat /\ HeavyInterval \in Nat

VARIABLES
    link,       \* WiFi.isConnected()
    connected,  \* deviceStatus.runtime.wifi.connected
    width,      \* of the field, in deviceStatus
    updateAge,  \* time since lastUpdate, as far as it matters
    heavyAge,   \* time since lastHeavyUpdate
    responses   \* the open status responses: the stream, what has been sent,
                \* and whether the status was gathered again meanwhile

status == <<connected, width, updateAge, heavyAge>>

vars == <<link, status, responses>>

Closed == [stream |-> [bytesEmitted |-> 0, complete |-> FALSE],
           body |-> <<>>, mixed |-> FALSE, open |-> FALSE]

Open == {r \in Reader : responses[r].open}

Complete(r) == responses[r].stream.complete

TypeOK ==
    /\ {link, connected} \subseteq BOOLEAN
    /\ width \in Widths
    /\ updateAge \in 0..CacheInterval /\ heavyAge \in 0..(HeavyInterval + 1)
    /\ \A r \in Open :
          /\ responses[r].stream.bytesEmitted = Len(responses[r].body)
          /\ {Complete(r), responses[r].mixed} \subseteq BOOLEAN

\* DeviceFrameworkWeb::setup has made the first update.
Init ==
    /\ link \in BOOLEAN /\ connected = link /\ width \in Widths
    /\ updateAge = 0 /\ heavyAge = 0
    /\ responses = [r \in Reader |-> Closed]

-----------------------------------------------------------------------------
(* updateRuntimeInfo. *)

NeedsUpdate == updateAge >= CacheInterval

\* A variation of NeedsHeavyUpdate that leaves it to the age of the status.
NeedsHeavyWhenStale == NeedsUpdate

NeedsHeavyUpdate == heavyAge > HeavyInterval \/ NeedsUpdate

UpdateRuntimeInfo ==
    /\ IF NeedsHeavyUpdate
       THEN connected' = link /\ heavyAge' = 0
       ELSE UNCHANGED <<connected, heavyAge>>
    /\ width' \in Widths
    /\ updateAge' = 0
    /\ UNCHANGED link

\* The responses that are open go on with other values than they began with.
Mixed == [r \in Reader |-> [responses[r] EXCEPT !.mixed = @ \/ r \in Open]]

-----------------------------------------------------------------------------
(* JSONChunkPrint, buildJSONResponse, renderJSONChunk. *)

Document(w) == <<"{">> \o [i \in 1..w |-> "value"] \o <<"}">>

Least(m, n) == IF m < n THEN m ELSE n

\* A variation of Printed that repeats the byte the last chunk ended with.
PrintedAgain(document, skip, capacity) ==
    SubSeq(document, IF skip = 0 THEN 1 ELSE skip,
           Least(skip + capacity, Len(document)))

\* JSONChunkPrint passes over what has been sent and stops when its buffer is
\* full.
Printed(document, skip, capacity) ==
    SubSeq(document, skip + 1, Least(skip + capacity, Len(document)))

\* A variation of RenderJSONChunk that waits for the end to be hit exactly.
RenderToTheEnd(stream, maxLen) ==
    LET document == Document(width)
        bytes == Printed(document, stream.bytesEmitted, maxLen)
        emitted == stream.bytesEmitted + Len(bytes)
    IN  [s |-> [bytesEmitted |-> emitted, complete |-> emitted = Len(document)],
         bytes |-> bytes]

\* The document is printed anew for every chunk.
RenderJSONChunk(stream, maxLen) ==
    LET document == Document(width)
        bytes == Printed(document, stream.bytesEmitted, maxLen)
        emitted == stream.bytesEmitted + Len(bytes)
    IN  [s |-> [bytesEmitted |-> emitted, complete |-> emitted >= Len(document)],
         bytes |-> bytes]

-----------------------------------------------------------------------------

\* handleAPIStatus, once admitted: "fresh snapshot semantics".
HandleAPIStatus(r) ==
    /\ r \notin Open
    /\ UpdateRuntimeInfo
    /\ responses' = [Mixed EXCEPT ![r] = [Closed EXCEPT !.open = TRUE]]

Chunk(r, maxLen) ==
    /\ r \in Open /\ ~Complete(r)
    /\ LET chunk == RenderJSONChunk(responses[r].stream, maxLen)
       IN  responses' = [responses EXCEPT ![r].stream = chunk.s,
                                          ![r].body = @ \o chunk.bytes]
    /\ UNCHANGED <<link, status>>

\* A complete response, or one whose client has gone.
Close(r) ==
    /\ r \in Open
    /\ responses' = [responses EXCEPT ![r] = Closed]
    /\ UNCHANGED <<link, status>>

\* DeviceFrameworkWeb::loop, whenever its two seconds have passed; the loop of
\* the framework returns before it while the Wi-Fi is not usable.
Loop ==
    /\ link
    /\ NeedsUpdate
    /\ UpdateRuntimeInfo
    /\ responses' = Mixed

Older(age, limit) == IF age < limit THEN age + 1 ELSE age

Tick ==
    /\ updateAge' = Older(updateAge, CacheInterval)
    /\ heavyAge' = Older(heavyAge, HeavyInterval + 1)
    /\ UNCHANGED <<link, connected, width, responses>>

LinkChanges == link' = ~link /\ UNCHANGED <<status, responses>>

Next ==
    \/ \E r \in Reader :
          \/ HandleAPIStatus(r)
          \/ \E n \in 1..MaxChunk : Chunk(r, n)
          \/ Close(r)
    \/ Loop \/ Tick \/ LinkChanges

\* A connection takes what it is sent or is given up, an answered one is
\* closed; time passes and the loop comes round.
Fairness ==
    /\ \A r \in Reader :
          /\ WF_vars(\E n \in 1..MaxChunk : Chunk(r, n))
          /\ WF_vars(r \in Open /\ Complete(r) /\ Close(r))
    /\ WF_vars(Loop) /\ WF_vars(Tick)

Spec == Init /\ [][Next]_vars /\ Fairness

-----------------------------------------------------------------------------
(* Properties. *)

\* Chunks of any size put together are the document, if nothing was gathered
\* in between: what one chunk leaves out the next one begins with.
QuietBodiesAreWhole ==
    \A r \in Open : Complete(r) /\ ~responses[r].mixed =>
        responses[r].body = Document(width)

\* "ESP8266 status JSON stream must remain structurally valid": what a client
\* receives is a document, whoever gathers the status meanwhile.
StatusIsWellFormed ==
    \A r \in Open : Complete(r) => \E w \in Widths : responses[r].body = Document(w)

\* Every response comes to an end, even when the document shrinks and grows
\* under it.
ResponsesEnd == \A r \in Reader : r \in Open ~> r \notin Open

\* When the Wi-Fi stays connected, the status says so after a while, however
\* often clients ask: their requests refresh the status, and so keep the loop
\* from it, but not what only a heavy update reads.  When it is lost for good,
\* the loop does not come by any more, and only requests that keep coming (over
\* the access point of the portal) make the status say so.
StatusFollowsLink ==
    /\ <>[]link => <>[]connected
    /\ <>[]~link /\ []<><<\E r \in Reader : HandleAPIStatus(r)>>_vars
          => <>[]~connected
=============================================================================
