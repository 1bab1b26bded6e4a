--------------------------- MODULE CircularBuffer ---------------------------
(***************************************************************************)
(* DeviceFrameworkCircularBuffer: the bytes that wait for the WebSerial    *)
(* clients.  A value of the class is a record of its four members; bytes   *)
(* are whatever the user of the module stores.                             *)
(***************************************************************************)
EXTENDS Integers, Sequences

CONSTANTS Size,     \* _bufferSize
          Byte, NoByte

Position == 0..(Size - 1)

Buffer == [cells: [Position -> Byte \cup {NoByte}], writePos: Position,
           readPos: Position, dataLength: 0..Size]

EmptyBuffer == [cells |-> [p \in Position |-> NoByte], writePos |-> 0,
                readPos |-> 0, dataLength |-> 0]

Clear(b) == [b EXCEPT !.writePos = 0, !.readPos = 0, !.dataLength = 0]

Least(m, n) == IF m < n THEN m ELSE n

AvailableSpace(b) == Size - b.dataLength

ContiguousWriteSpace(b) ==
    IF b.writePos >= b.readPos THEN Size - b.writePos
    ELSE b.readPos - b.writePos

ContiguousReadSpace(b) ==
    IF b.dataLength = 0 THEN 0
    ELSE IF b.readPos < b.writePos THEN b.writePos - b.readPos
    ELSE Size - b.readPos

ContiguousDataLength(b) == Least(ContiguousReadSpace(b), b.dataLength)

ContiguousData(b) ==
    [i \in 1..ContiguousDataLength(b) |-> b.cells[b.readPos + i - 1]]

\* One memcpy of add: as much of s as fits before the end of the array.
Copy(b, s) ==
    LET n == Least(Len(s), ContiguousWriteSpace(b))
    IN  [b EXCEPT
           !.cells = [p \in Position |->
                        IF p \in b.writePos..(b.writePos + n - 1)
                        THEN s[p - b.writePos + 1] ELSE @[p]],
           !.writePos = (@ + n) % Size,
           !.dataLength = @ + n]

Fits(b, s) == Len(s) <= AvailableSpace(b)

\* The loop of add, for an s that fits: it takes one memcpy or two.
Add(b, s) ==
    LET n == Least(Len(s), ContiguousWriteSpace(b))
    IN  IF n = Len(s) THEN Copy(b, s)
        ELSE Copy(Copy(b, s), SubSeq(s, n + 1, Len(s)))

\* 80 per cent full.
IsNearFull(b) == 5 * b.dataLength >= 4 * Size

Consume(b, length) ==
    LET n == Least(length, b.dataLength)
    IN  [b EXCEPT !.readPos = (@ + n) % Size, !.dataLength = @ - n]

\* The queue a buffer stands for.
Contents(b) ==
    [i \in 1..b.dataLength |-> b.cells[(b.readPos + i - 1) % Size]]
=============================================================================
