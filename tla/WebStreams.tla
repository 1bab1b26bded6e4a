----------------------------- MODULE WebStreams -----------------------------
(***************************************************************************)
(* The streamed responses of the web interface: pages, the status and the  *)
(* logo.  A handler acquires a permit, and for the status and the logo a   *)
(* slot for the state of the response; the server then asks for chunks     *)
(* and, when the response is complete or its client has gone, destroys it, *)
(* which gives both back.                                                  *)
(*                                                                         *)
(* The sketch may shut the web interface down and set it up again while    *)
(* responses are open: the server object goes, the requests it has handed  *)
(* to their connections do not.  Handlers, chunks and updates do not       *)
(* overlap.  What the template engine makes of a page is left out, and the *)
(* status is the subject of DeviceStatus: both are a number of chunks.     *)
(***************************************************************************)
EXTENDS StreamAdmission, Sequences

CONSTANTS
    Request,    \* requests that may be open at the same time
    Texts,      \* logos in base64
    MaxChunk,   \* bound on the room for a chunk
    Chunks,     \* of a page or a status
    MaxLife     \* bound on setups of the web interface in one boot

ASSUME StreamTextsAssumption ==
    Texts \subseteq Seq({"digit", "=", "other"})

VARIABLES
    up,             \* webInterfaceEnabled, and webServer exists
    life,           \* setups so far
    statusResponseSlots, logoResponseSlots,
    responses,      \* the open responses
    disturbed       \* history: a response of an earlier life has released
                    \* a permit of this one

slots == <<statusResponseSlots, logoResponseSlots>>

streamVars == <<admission, up, life, slots, responses, disturbed>>

Logo == INSTANCE LogoStream

NoResponse == [kind |-> "none"]

Open == {r \in Request : responses[r] /= NoResponse}

Current == {r \in Open : responses[r].life = life}

Statuses == {r \in Open : responses[r].kind = "status"}

Logos == {r \in Open : responses[r].kind = "logo"}

StreamTypeOK ==
    /\ AdmissionTypeOK
    /\ {up, disturbed} \subseteq BOOLEAN /\ life \in 1..MaxLife
    /\ {statusResponseSlots, logoResponseSlots} \subseteq [Permit -> Entry]
    /\ \A r \in Open :
          /\ responses[r].kind \in {"page", "status", "logo"}
          /\ responses[r].permit \in Permit /\ responses[r].life \in 1..life
          /\ r \notin Statuses \cup Logos \/ responses[r].slot \in Permit

StreamInit ==
    /\ AdmissionInit
    /\ up = TRUE /\ life = 1
    /\ statusResponseSlots = Unused /\ logoResponseSlots = Unused
    /\ responses = [r \in Request |-> NoResponse]
    /\ disturbed = FALSE

-----------------------------------------------------------------------------
(* The handlers. *)

\* What a response remembers of its admission: its permit, and the entry s of a
\* table if it has one.
Admitted(kind, p, s, slotGeneration, stream) ==
    [kind |-> kind, life |-> life, body |-> <<>>, permit |-> p,
     permitGeneration |-> NextGeneration(permits[p].generation),
     slot |-> s, slotGeneration |-> slotGeneration, stream |-> stream]

WithSlot(kind, p, table, s, stream) ==
    Admitted(kind, p, s, NextGeneration(table[s].generation), stream)

WithoutSlot(kind, p, stream) == Admitted(kind, p, 0, 0, stream)

\* A variation of Returned that forgets about the count.
Abandoned(p) ==
    /\ permits' = [permits EXCEPT ![p].generation = NextGeneration(@)]
    /\ activeStreamResponses' = activeStreamResponses + 1
    /\ UNCHANGED maxConcurrentStreamResponses

\* Headroom is judged before the tables are looked at.  A permit that turns
\* out to be of no use is given back: that uses up a generation.
Returned(p) ==
    /\ permits' = [permits EXCEPT ![p].generation = NextGeneration(@)]
    /\ UNCHANGED <<maxConcurrentStreamResponses, activeStreamResponses>>

\* sendStreamingResponse.  The context may not be had.
HandlePage(r, allocated) ==
    /\ up /\ responses[r] = NoResponse
    /\ \E p \in Available(TRUE) :
          IF allocated
          THEN /\ TryAcquireStreamPermit(p)
               /\ responses' = [responses EXCEPT ![r] =
                     WithoutSlot("page", p, [left |-> Chunks])]
          ELSE Returned(p) /\ UNCHANGED responses
    /\ UNCHANGED <<up, life, slots, disturbed>>

HandleWebLogo(r, text) ==
    /\ up /\ responses[r] = NoResponse
    /\ \E p \in Available(TRUE) :
          \/ \E s \in FirstFree(logoResponseSlots) :
                /\ TryAcquireStreamPermit(p)
                /\ logoResponseSlots' = Taken(logoResponseSlots, s)
                /\ responses' = [responses EXCEPT ![r] =
                      WithSlot("logo", p, logoResponseSlots, s,
                               Logo!Start(text))]
          \/ /\ FirstFree(logoResponseSlots) = {}
             /\ Returned(p) /\ UNCHANGED <<logoResponseSlots, responses>>
    /\ UNCHANGED <<up, life, statusResponseSlots, disturbed>>

HandleAPIStatus(r) ==
    /\ up /\ responses[r] = NoResponse
    /\ \E p \in Available(TRUE) :
          \/ \E s \in FirstFree(statusResponseSlots) :
                /\ TryAcquireStreamPermit(p)
                /\ statusResponseSlots' = Taken(statusResponseSlots, s)
                /\ responses' = [responses EXCEPT ![r] =
                      WithSlot("status", p, statusResponseSlots, s,
                               [left |-> Chunks])]
          \/ /\ FirstFree(statusResponseSlots) = {}
             /\ Returned(p) /\ UNCHANGED <<statusResponseSlots, responses>>
    /\ UNCHANGED <<up, life, logoResponseSlots, disturbed>>

\* templateForWebPagePath, the root and the page of what is not found.
Page == {"/", "/serial", "/no/such/page"}

\* Sent from program memory as they are, without a permit.
StaticAsset == {"/assets/deviceframework.css", "/assets/deviceframework.js"}

\* handleWebRoot and handleWebNotFound.  All but the icon asks for credentials
\* first, and a request that is refused them occupies nothing.  (The requests
\* that change something are in WebControl.)
Get(r, path, authenticated) ==
    \/ /\ path = "/favicon.ico" \/ path \in StaticAsset \/ ~authenticated
       /\ up /\ responses[r] = NoResponse
       /\ UNCHANGED streamVars
    \/ /\ authenticated /\ path \in Page
       /\ \E allocated \in BOOLEAN : HandlePage(r, allocated)
    \/ /\ authenticated /\ path = "/assets/deviceframework-logo"
       /\ \E text \in Texts : HandleWebLogo(r, text)
    \/ /\ authenticated /\ path = "/api/status"
       /\ HandleAPIStatus(r)

Path == Page \cup StaticAsset
        \cup {"/favicon.ico", "/assets/deviceframework-logo", "/api/status"}

-----------------------------------------------------------------------------
(* The server asks for chunks, and destroys the response. *)

Complete(response) ==
    IF response.kind = "logo" THEN response.stream.complete
    ELSE response.stream.left = 0

Chunk(r, maxLen) ==
    /\ r \in Open /\ ~Complete(responses[r])
    /\ LET stream == responses[r].stream
           chunk ==
             IF r \in Logos THEN Logo!Render(stream, maxLen)
             ELSE [s |-> [left |-> stream.left - 1], bytes |-> <<>>]
       IN  responses' = [responses EXCEPT ![r].stream = chunk.s,
                                          ![r].body = @ \o chunk.bytes]
    /\ UNCHANGED <<admission, up, life, slots, disturbed>>

\* releaseResponseSlot and releaseStreamPermit, with what the closure has kept.
Close(r) ==
    LET response == responses[r]
        p == response.permit
        generation == response.permitGeneration
    IN  /\ r \in Open
        /\ ReleaseStreamPermit(p, generation)
        /\ statusResponseSlots' =
             IF r \in Statuses
             THEN Freed(statusResponseSlots, response.slot, response.slotGeneration)
             ELSE statusResponseSlots
        /\ logoResponseSlots' =
             IF r \in Logos
             THEN Freed(logoResponseSlots, response.slot, response.slotGeneration)
             ELSE logoResponseSlots
        /\ responses' = [responses EXCEPT ![r] = NoResponse]
        /\ disturbed' = \/ disturbed
                        \/ response.life /= life /\ Holds(permits, p, generation)
        /\ UNCHANGED <<up, life>>

-----------------------------------------------------------------------------
(* DeviceFrameworkWeb. *)

Shutdown ==
    /\ up /\ life < MaxLife /\ up' = FALSE
    /\ AdmissionEnd
    /\ UNCHANGED <<life, slots, responses, disturbed>>

Setup ==
    /\ ~up /\ up' = TRUE /\ life' = life + 1
    /\ AdmissionBegin
    /\ disturbed' = FALSE
    /\ UNCHANGED <<slots, responses>>

StreamNext ==
    \/ \E r \in Request :
          \/ \E path \in Path, authenticated \in BOOLEAN :
                Get(r, path, authenticated)
          \/ \E n \in 1..MaxChunk : Chunk(r, n)
          \/ Close(r)
    \/ Shutdown \/ Setup

StreamSpec == StreamInit /\ [][StreamNext]_streamVars

-----------------------------------------------------------------------------
(* Properties. *)

\* No two responses share a slot, no two of this life share a permit, and the
\* count is that of the permits in use: the limit holds.  The exception is a
\* response that outlives the server: begin() starts the generations again,
\* so what it releases late may be the permit of a newer response, which the
\* next one then shares.
ResponsesHoldTheirOwn ==
    /\ \A r \in Statuses : Holds(statusResponseSlots, responses[r].slot,
                                 responses[r].slotGeneration)
    /\ \A r \in Logos : Holds(logoResponseSlots, responses[r].slot,
                              responses[r].slotGeneration)
    /\ \A q, r \in Statuses : responses[q].slot = responses[r].slot => q = r
    /\ \A q, r \in Logos : responses[q].slot = responses[r].slot => q = r
    /\ ~disturbed => \A q, r \in Current :
                        responses[q].permit = responses[r].permit => q = r
    /\ activeStreamResponses = Cardinality({p \in Permit : permits[p].active})
    /\ up /\ ~disturbed => activeStreamResponses = Cardinality(Current)
    /\ activeStreamResponses <= maxConcurrentStreamResponses

\* Chunks of any size put together are the image, and what is not base64 still
\* adds no byte that the text does not have.  (Digits behind the padding are
\* decoded or not, depending on the sizes of the chunks.)
LogosAreWhole ==
    \A r \in Logos :
        LET text == responses[r].stream.text
            body == responses[r].body
        IN  /\ Logo!PartOf(text, body)
            /\ Complete(responses[r]) /\ Logo!Base64(text) => Logo!Depicts(text, body)
=============================================================================
