------------------------------ MODULE LogPipe ------------------------------
(***************************************************************************)
(* What WebSerial promises about log output: a lossy pipe.  Every byte     *)
(* handed over is numbered.  It is sent once, in order, or it is lost, and *)
(* then counted; only closing the pipe loses bytes without counting them.  *)
(***************************************************************************)
EXTENDS Integers, Sequences

CONSTANTS Capacity, MaxBytes

VARIABLES open,     \* the pipe is in use
          queue,    \* the bytes that wait
          taken,    \* bytes handed over since the pipe was opened
          sent,     \* the last byte sent
          dropped   \* the bytes counted as dropped

vars == <<open, queue, taken, sent, dropped>>

Init == open = TRUE /\ queue = <<>> /\ taken = 0 /\ sent = 0 /\ dropped = 0

Following(n) == [i \in 1..n |-> taken + i]

\* A message is queued as a whole ...
Put(n) ==
    /\ Len(queue) + n <= Capacity
    /\ queue' = queue \o Following(n) /\ taken' = taken + n
    /\ UNCHANGED <<open, sent, dropped>>

\* ... or lost as a whole.
Refuse(n) ==
    /\ dropped' = dropped + n /\ taken' = taken + n
    /\ UNCHANGED <<open, queue, sent>>

\* The oldest bytes go out.
Send(n) ==
    /\ n \in 1..Len(queue) /\ sent < queue[1]
    /\ sent' = queue[n] /\ queue' = SubSeq(queue, n + 1, Len(queue))
    /\ UNCHANGED <<open, taken, dropped>>

\* The oldest bytes are lost.
Drop(n) ==
    /\ n \in 1..Len(queue)
    /\ dropped' = dropped + n /\ queue' = SubSeq(queue, n + 1, Len(queue))
    /\ UNCHANGED <<open, taken, sent>>

Close ==
    /\ open /\ open' = FALSE /\ queue' = <<>>
    /\ UNCHANGED <<taken, sent, dropped>>

Open ==
    /\ ~open /\ open' \in BOOLEAN
    /\ taken' = 0 /\ sent' = 0 /\ dropped' = 0 /\ UNCHANGED queue

Next ==
    \/ /\ open
       /\ \E n \in 1..MaxBytes : Put(n) \/ Refuse(n) \/ Send(n) \/ Drop(n)
    \/ Close \/ Open

Spec == Init /\ [][Next]_vars
=============================================================================
