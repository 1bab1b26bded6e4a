----------------------------- MODULE SerialView -----------------------------
(***************************************************************************)
(* How the serial page shows the lines it receives (WebInterfaceJS.h): a   *)
(* message is split at its newlines, the lines wait in pendingLines, and   *)
(* animation frames move them into the document in batches.  Lines, and    *)
(* what is kept of a line without a newline, are counted.                  *)
(***************************************************************************)
EXTENDS Naturals

CONSTANTS
    Batch,      \* BATCH_SIZE, 10
    MaxLines,   \* the lines above which the oldest goes, 200
    MaxBuffer,  \* MAX_BUFFER_SIZE, 2048
    HasOutput   \* whether the page has its serial-output-content element

VARIABLES
    messageBuffer,      \* length of the unfinished line
    pendingLines,       \* lines waiting for a frame
    isUpdating,         \* scheduleUpdate has a frame under way
    chained,            \* frames processPendingLines asked for itself
    domLines,           \* the lines of the document
    serialLineCount,    \* what the page says their number is
    serialPaused

viewVars == <<messageBuffer, pendingLines, isUpdating, chained, domLines,
              serialLineCount, serialPaused>>

SaneView ==
    /\ Batch \in Nat \ {0} /\ MaxLines \in Nat /\ MaxBuffer \in Nat
    /\ HasOutput \in BOOLEAN

Least(a, b) == IF a <= b THEN a ELSE b

-----------------------------------------------------------------------------
ViewInit ==
    /\ messageBuffer = 0 /\ pendingLines = 0
    /\ isUpdating = FALSE /\ chained = 0
    /\ domLines = 0 /\ serialLineCount = 0
    /\ serialPaused = FALSE

\* addSerialLine and scheduleUpdate, n times: lines met while the output is
\* paused are dropped; the others need one frame, unless one is under way.
AddSerialLines(n, paused) ==
    IF n = 0 \/ paused THEN UNCHANGED <<pendingLines, isUpdating>>
    ELSE /\ pendingLines' = pendingLines + n
         /\ isUpdating' = TRUE

\* processWebSocketMessage and processCompleteLines: a message with `lines'
\* complete lines that are not blank and `rest' characters after its last
\* newline, or without a newline at all; what is kept too long is a line.
ProcessWebSocketMessage(newline, lines, rest) ==
    LET kept == IF newline THEN rest ELSE messageBuffer + rest
        overflow == kept > MaxBuffer
    IN  /\ newline \/ lines = 0
        /\ messageBuffer' = IF overflow THEN 0 ELSE kept
        /\ AddSerialLines(lines + (IF overflow THEN 1 ELSE 0), serialPaused)
        /\ UNCHANGED <<chained, domLines, serialLineCount, serialPaused>>

\* A note of the page itself: connected, disconnected, busy.
Note ==
    /\ AddSerialLines(1, serialPaused)
    /\ UNCHANGED <<messageBuffer, chained, domLines, serialLineCount,
                   serialPaused>>

\* processPendingLines.  The lines of the batch join the document after the
\* loop, so each of them removes at most one of those already there.  The
\* frame was one of `left' chained ones; lines that remain ask for another.
ProcessPendingLines(left) ==
    IF pendingLines = 0 \/ ~HasOutput
    THEN /\ pendingLines' = 0 /\ chained' = left
         /\ UNCHANGED <<domLines, serialLineCount>>
    ELSE LET batch == Least(Batch, pendingLines)
             removed == IF domLines <= MaxLines THEN 0
                        ELSE Least(batch, domLines - MaxLines)
         IN  /\ pendingLines' = pendingLines - batch
             /\ domLines' = (domLines - removed) + batch
             /\ serialLineCount' = (serialLineCount + batch) - removed
             /\ chained' = IF pendingLines' > 0 THEN left + 1 ELSE left

\* The frame of scheduleUpdate.
UpdateFrame ==
    /\ isUpdating
    /\ isUpdating' = FALSE
    /\ ProcessPendingLines(chained)
    /\ UNCHANGED <<messageBuffer, serialPaused>>

\* A frame processPendingLines asked for.
ChainedFrame ==
    /\ chained > 0
    /\ ProcessPendingLines(chained - 1)
    /\ UNCHANGED <<messageBuffer, isUpdating, serialPaused>>

\* clearSerial.
ClearSerial ==
    /\ HasOutput
    /\ domLines' = 0 /\ serialLineCount' = 0
    /\ AddSerialLines(1, serialPaused)
    /\ UNCHANGED <<messageBuffer, chained, serialPaused>>

\* pauseSerial: the line that says so is added after the flag has changed.
PauseSerial ==
    /\ serialPaused' = ~serialPaused
    /\ AddSerialLines(1, serialPaused')
    /\ UNCHANGED <<messageBuffer, chained, domLines, serialLineCount>>

ViewNext ==
    \/ \E newline \in BOOLEAN, lines, rest \in Nat :
            ProcessWebSocketMessage(newline, lines, rest)
    \/ Note
    \/ UpdateFrame
    \/ ChainedFrame
    \/ ClearSerial
    \/ PauseSerial

ViewSpec == ViewInit /\ [][ViewNext]_viewVars

-----------------------------------------------------------------------------
ViewTypeOK ==
    /\ messageBuffer \in Nat /\ pendingLines \in Nat /\ chained \in Nat
    /\ domLines \in Nat /\ serialLineCount \in Nat
    /\ isUpdating \in BOOLEAN /\ serialPaused \in BOOLEAN

\* The number the page shows is the number of lines it holds, whichever
\* frames interleave with messages, clearing and pausing.
CountIsExact == serialLineCount = domLines

\* The document and the unfinished line stay small: a batch can exceed the
\* limit on lines, but never by more than itself.
MemoryIsBounded ==
    /\ domLines <= MaxLines + Batch
    /\ messageBuffer <= MaxBuffer

\* Lines that wait always have a frame to come: none is left behind when
\* messages arrive between the frames of an earlier burst.
PendingHasFrame == pendingLines > 0 => isUpdating \/ chained > 0

ViewInvariant == ViewTypeOK /\ CountIsExact /\ MemoryIsBounded /\ PendingHasFrame
=============================================================================
