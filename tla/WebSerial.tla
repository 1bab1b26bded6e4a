----------------------------- MODULE WebSerial -----------------------------
(***************************************************************************)
(* DeviceFrameworkWebSerial: log output is queued in a circular buffer     *)
(* and sent to every WebSocket client from send() and from loop().         *)
(*                                                                         *)
(* One task sends and runs the loop (at); the events of the WebSocket      *)
(* server come in between, and so may the client objects it keeps lag      *)
(* behind.  The heap may be short of the critical floor whenever it is     *)
(* looked at.                                                              *)
(*                                                                         *)
(* Whether the interval of a client check or of the housekeeping has       *)
(* elapsed is an input of the turn.  Of _lastFlushTime only that is kept:  *)
(* a stamp in the future counts as elapsed (FutureStampHasElapsed of       *)
(* StatusProofs), until that time has come.                                *)
(***************************************************************************)
EXTENDS SerialAdmission, Sequences

CONSTANTS
    Size,       \* CONFIG_wsBufferSize
    Lengths,    \* lengths of messages
    MaxBytes    \* bound on the bytes handed to send

ASSUME WebSerialAssumption ==
    /\ Size \in Nat \ {0}
    /\ Lengths \subseteq Nat \ {0} /\ MaxBytes \in Nat

VARIABLES
    enabled,            \* _enabled: begin() has got its WebSocket
    status,             \* of the server's client objects
    accepts,            \* some client of _clientStates can take more
    buffer,             \* *_buffer, or Unallocated
    lastFlush,          \* _lastFlushTime
    at,                 \* where the task is
    message,            \* length of the message in hand
    taken, sent, dropped    \* history, and droppedWebSerialBytes: see LogPipe

clients == <<admission, status>>

pipe == <<buffer, taken, sent, dropped>>

vars == <<admission, enabled, status, accepts, buffer, lastFlush, at, message,
          taken, sent, dropped>>

C == INSTANCE CircularBuffer WITH Byte <- 1..MaxBytes, NoByte <- 0

Unallocated == [dataLength |-> 0]

Allocated == buffer /= Unallocated

DataLength == buffer.dataLength

HasConnections == enabled /\ activeWebSerialClients > 0

TypeOK ==
    /\ AdmissionTypeOK
    /\ {enabled, accepts} \subseteq BOOLEAN
    /\ status \in [Client -> {"new", "connected", "closing", "gone"}]
    /\ buffer \in C!Buffer \cup {Unallocated}
    /\ lastFlush \in {"recent", "elapsed", "future"}
    /\ at \in {"idle", "add", "forced", "retry", "check", "eager", "periodic",
               "cleanup", "last", "end"}
    /\ message \in Lengths \cup {0}
    /\ {taken, sent, dropped} \subseteq 0..MaxBytes

Init ==
    /\ AdmissionInit /\ enabled = TRUE
    /\ status = [c \in Client |-> "new"] /\ accepts = FALSE
    /\ buffer = Unallocated
    /\ lastFlush = "recent"
    /\ at = "idle" /\ message = 0
    /\ taken = 0 /\ sent = 0 /\ dropped = 0

-----------------------------------------------------------------------------
(* Events of the WebSocket server. *)

Closing(set) ==
    status' = [c \in Client |->
                 IF c \in set /\ status[c] = "connected" THEN "closing"
                 ELSE status[c]]

\* handleWebSocketEvent with WS_EVT_CONNECT.
Connect(c, takeover, critical) ==
    /\ enabled /\ status[c] = "new"
    /\ \A d \in Client : d < c => status[d] /= "new"
    /\ IF Refused(takeover, critical)
       THEN /\ status' = [status EXCEPT ![c] = "closing"]
            /\ UNCHANGED admission
       ELSE \/ /\ AdmitFreely(c)
               /\ status' = [status EXCEPT ![c] = "connected"]
            \/ \E s \in Evictable(takeover) :
                  /\ AdmitFor(c, s)
                  /\ status' = [status EXCEPT ![c] = "connected",
                                              ![records[s].id] = "closing"]
    /\ UNCHANGED <<enabled, accepts, pipe, lastFlush, at, message>>

\* The connection of a client breaks or is closed; its object stays.
Break(c) ==
    /\ status[c] = "connected" /\ Closing({c})
    /\ UNCHANGED <<admission, enabled, accepts, pipe, lastFlush, at, message>>

\* handleWebSocketEvent with WS_EVT_DISCONNECT.
Disconnect(c) ==
    /\ status[c] = "closing"
    /\ status' = [status EXCEPT ![c] = "gone"]
    /\ records' = Refreshed({c}, [s \in Active |-> records[s].load])
    /\ activeWebSerialClients' = Released({c})
    /\ UNCHANGED <<limits, enabled, accepts, pipe, lastFlush, at, message>>

-----------------------------------------------------------------------------
(* updateClientStates, flushBuffer. *)

\* A variation of Gone that leaves it to the event.
ReportedGone == {c \in Client : status[c] = "gone"}

Gone == {c \in Client : status[c] \in {"closing", "gone"}}

\* Connected objects beyond the size of _clientStates.
Excess == {c \in Client : status[c] = "connected" /\
             Cardinality({d \in Client : d < c /\ status[d] = "connected"})
                 >= Slots}

UpdateClientStates(load) ==
    /\ records' = Refreshed(Gone, load)
    /\ activeWebSerialClients' = Released(Gone)
    /\ accepts' = \E s \in Active : records[s].id \notin Gone /\ load[s] < Full
    /\ UNCHANGED limits

DropAll ==
    /\ dropped' = dropped + DataLength
    /\ buffer' = C!Clear(buffer)
    /\ UNCHANGED <<taken, sent>>

\* A variation of SendSlice that counts on textAll.
SendAndForget(discarded) ==
    LET slice == C!ContiguousData(buffer)
    IN  /\ buffer' = C!Consume(buffer, Len(slice))
        /\ sent' = IF discarded THEN sent ELSE slice[Len(slice)]
        /\ UNCHANGED <<taken, dropped>>

\* The slice goes to textAll and is consumed, whatever becomes of it.
SendSlice(discarded) ==
    LET slice == C!ContiguousData(buffer)
    IN  /\ buffer' = C!Consume(buffer, Len(slice))
        /\ IF discarded
           THEN dropped' = dropped + Len(slice) /\ UNCHANGED sent
           ELSE sent' = slice[Len(slice)] /\ UNCHANGED dropped
        /\ UNCHANGED taken

FlushBuffer(critical, discarded) ==
    CASE DataLength = 0 -> UNCHANGED <<pipe, lastFlush>>
      [] DataLength > 0 /\ ~HasConnections -> DropAll /\ UNCHANGED lastFlush
      [] DataLength > 0 /\ HasConnections /\ critical ->
           DropAll /\ lastFlush' = "future"
      [] OTHER -> /\ SendSlice(discarded)
                  /\ lastFlush' = IF discarded THEN "future" ELSE "recent"

\* Where the task goes on after the flush.
AfterFlush ==
    CASE at = "forced" -> "retry"
      [] at = "periodic" -> "cleanup"
      [] at = "last" -> "end"
      [] OTHER -> "idle"

Flush(critical, discarded) ==
    /\ at \in {"forced", "eager", "periodic", "last"}
    /\ FlushBuffer(critical, discarded)
    /\ at' = AfterFlush
    /\ UNCHANGED <<clients, enabled, accepts, message>>

-----------------------------------------------------------------------------
(* send. *)

\* send: nothing is taken up without a client or memory for the buffer.
Send(n) ==
    /\ at = "idle" /\ HasConnections /\ taken + n <= MaxBytes
    /\ buffer' = IF Allocated THEN buffer ELSE C!EmptyBuffer
    /\ message' = n /\ at' = "add"
    /\ UNCHANGED <<clients, enabled, accepts, lastFlush, taken, sent, dropped>>

\* addToBuffer: after one forced flush the message goes in or is dropped.
AddToBuffer ==
    LET bytes == [i \in 1..message |-> taken + i]
    IN  /\ at \in {"add", "retry"}
        /\ IF C!Fits(buffer, bytes)
           THEN /\ buffer' = C!Add(buffer, bytes) /\ taken' = taken + message
                /\ at' = "check" /\ message' = 0
                /\ UNCHANGED <<dropped, sent>>
           ELSE IF at = "add"
           THEN at' = "forced" /\ UNCHANGED <<pipe, message>>
           ELSE /\ dropped' = dropped + message /\ taken' = taken + message
                /\ at' = "check" /\ message' = 0
                /\ UNCHANGED <<buffer, sent>>
        /\ UNCHANGED <<clients, enabled, accepts, lastFlush>>

\* shouldFlushImmediately.
Check(due, load) ==
    /\ at = "check"
    /\ IF due
       THEN UpdateClientStates(load) /\ Closing(Excess)
       ELSE UNCHANGED <<clients, accepts>>
    /\ at' = IF accepts' /\ C!IsNearFull(buffer) THEN "eager" ELSE "idle"
    /\ UNCHANGED <<enabled, pipe, lastFlush, message>>

-----------------------------------------------------------------------------
(* loop, end, begin. *)

LoopStart(due, load) ==
    /\ at = "idle" /\ enabled
    /\ IF due /\ activeWebSerialClients > 0
       THEN UpdateClientStates(load) /\ Closing(Excess)
       ELSE UNCHANGED <<clients, accepts>>
    /\ at' = IF Allocated /\ lastFlush /= "recent" /\ DataLength > 0
             THEN "periodic" ELSE "cleanup"
    /\ UNCHANGED <<enabled, pipe, lastFlush, message>>

\* The five-second housekeeping: refresh, shed one client under pressure,
\* free the buffer when nobody listens and nothing waits.
Housekeep(load, critical) ==
    LET refreshed == Refreshed(Gone, load)
        left == {s \in Active : records[s].id \notin Gone}
        shed == IF critical
                THEN {s \in left : \A t \in left :
                        \/ load[t] < load[s]
                        \/ load[t] = load[s] /\ s <= t}
                ELSE {}
    IN  /\ records' = [s \in Slot |-> IF s \in shed THEN Free ELSE refreshed[s]]
        /\ activeWebSerialClients' =
             Fewer(Cardinality(Admitted \cap Gone) + Cardinality(shed))
        /\ Closing(Excess \cup {records[s].id : s \in shed})
        /\ IF activeWebSerialClients' = 0 /\ Allocated /\ DataLength = 0
           THEN buffer' = Unallocated /\ accepts' = FALSE
           ELSE /\ accepts' = \E s \in left : load[s] < Full
                /\ UNCHANGED buffer
        /\ UNCHANGED limits

LoopEnd(due, load, critical) ==
    /\ at = "cleanup"
    /\ IF due
       THEN Housekeep(load, critical)
       ELSE UNCHANGED <<clients, accepts, buffer>>
    /\ at' = "idle"
    /\ UNCHANGED <<enabled, lastFlush, message, taken, sent, dropped>>

\* DeviceFrameworkWeb::cleanup begins: end() flushes once more.
EndStart ==
    /\ at = "idle" /\ enabled
    /\ at' = IF DataLength > 0 THEN "last" ELSE "end"
    /\ UNCHANGED <<clients, enabled, accepts, pipe, lastFlush, message>>

\* The rest of end() and of cleanup: the server goes with its clients.
End ==
    /\ at = "end" /\ at' = "idle"
    /\ AdmissionEnd /\ enabled' = FALSE
    /\ status' = [c \in Client |-> "gone"]
    /\ buffer' = Unallocated /\ accepts' = FALSE
    /\ UNCHANGED <<lastFlush, message, taken, sent, dropped>>

\* DeviceFrameworkWeb::setup: a new server numbers its clients anew.  If its
\* WebSocket cannot be allocated, WebSerial stays off.
Begin(allocated) ==
    /\ ~enabled /\ enabled' = allocated
    /\ AdmissionEnd /\ taken' = 0 /\ sent' = 0 /\ dropped' = 0
    /\ status' = [c \in Client |-> IF allocated THEN "new" ELSE "gone"]
    /\ lastFlush' = "recent"
    /\ UNCHANGED <<accepts, buffer, at, message>>

\* Time passes; a turn of loop() works with the time it began at.
Tick ==
    /\ at = "idle"
    /\ lastFlush' = IF lastFlush = "future" THEN "recent" ELSE "elapsed"
    /\ UNCHANGED <<clients, enabled, accepts, pipe, at, message>>

\* The task goes on with what it has begun.
Continue ==
    \/ \E critical, discarded \in BOOLEAN : Flush(critical, discarded)
    \/ AddToBuffer
    \/ \E due \in BOOLEAN, load \in [Active -> Load] : Check(due, load)
    \/ \E due, critical \in BOOLEAN, load \in [Active -> Load] :
          LoopEnd(due, load, critical)
    \/ End

Next ==
    \/ \E c \in Client, takeover, critical \in BOOLEAN :
          Connect(c, takeover, critical)
    \/ \E c \in Client : Break(c) \/ Disconnect(c)
    \/ \E n \in Lengths : Send(n)
    \/ \E due \in BOOLEAN, load \in [Active -> Load] : LoopStart(due, load)
    \/ EndStart
    \/ Continue
    \/ \E allocated \in BOOLEAN : Begin(allocated)
    \/ Tick

\* The task finishes what it has begun and comes back to loop() whatever it
\* sends in between, time passes, and every interval elapses.
Fairness ==
    /\ WF_vars(Continue)
    /\ SF_vars(\E load \in [Active -> Load] : LoopStart(TRUE, load))
    /\ SF_vars(Tick)

Spec == Init /\ [][Next]_vars /\ Fairness

-----------------------------------------------------------------------------
(* Properties. *)

\* The table and the sockets agree: the count is the number of active
\* records and within the limit, no client has two, every connected client
\* has one, and a record is of a socket that has not been reported gone.
\* Admission, eviction, shedding, refresh and the late event of a client
\* that lost its record earlier all have to keep to it.
RecordsMatchSockets ==
    /\ activeWebSerialClients = Cardinality(Active)
    /\ activeWebSerialClients <= limits.max
    /\ \A s, t \in Active : records[s].id = records[t].id => s = t
    /\ {c \in Client : status[c] = "connected"} \subseteq Admitted
    /\ \A c \in Admitted : status[c] \in {"connected", "closing"}

\* What comes out of the circular buffer, over wrapped slices, forced flushes,
\* discarded sends, sheddings and restarts, is a lossy pipe: in order, nothing
\* twice, and every loss is counted but those of end().
Pipe == INSTANCE LogPipe
    WITH open <- enabled,
         queue <- C!Contents(buffer),
         Capacity <- Size

PipeSpec == Pipe!Spec

\* A tab that has gone gives its slot back, although the server may never
\* report it; and bytes that wait go out, in order, or are dropped: the buffer
\* is never stuck.
SlotsAndBytesMoveOn ==
    /\ \A c \in Client :
          (c \in Admitted /\ status[c] = "closing") ~> (c \notin Admitted)
    /\ \/ []<>(DataLength = 0)
       \/ []<><<DataLength' < DataLength>>_vars
=============================================================================
