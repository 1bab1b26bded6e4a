-------------------------- MODULE SerialAdmission --------------------------
(***************************************************************************)
(* The half of DeviceFrameworkWebAdmissionControl that decides which       *)
(* WebSerial clients may stay: a table of records and the count of the     *)
(* active ones.                                                            *)
(*                                                                         *)
(* How much output waits for a client (queueLen, queueIsFull) is one of    *)
(* three loads.  millis() wraps, so any active record may be the one with  *)
(* the least connectedAt.  The statistics of the class other than the      *)
(* count are left out.                                                     *)
(***************************************************************************)
EXTENDS Integers, FiniteSets

CONSTANTS
    Client,     \* WebSocket client identifiers, numbered from 1
    Slots,      \* kMaximumTrackedWebSerialClients
    Policies    \* the admission policies a sketch may configure

ASSUME SerialAdmissionAssumption ==
    /\ Client \subseteq Nat \ {0} /\ Slots \in Nat \ {0}
    /\ Policies \subseteq {"PreserveExisting", "ReplaceSlowest",
                           "ExplicitTakeover"}

VARIABLES
    limits,     \* maxWebSerialClients and webSerialAdmissionPolicy
    records,    \* webSerialClients
    activeWebSerialClients

admission == <<limits, records, activeWebSerialClients>>

NoClient == 0

Idle == 0
Queued == 1
Full == 2

Load == Idle..Full

Record == [id: Client \cup {NoClient}, load: Load]

Free == [id |-> NoClient, load |-> Idle]

Slot == 1..Slots

Active == {s \in Slot : records[s].id /= NoClient}

Admitted == {records[s].id : s \in Active}

AdmissionTypeOK ==
    /\ limits \in [max: Slot, policy: Policies]
    /\ records \in [Slot -> Record]
    /\ activeWebSerialClients \in 0..Slots

\* validateResourceLimits has accepted the limits; begin clears the table.
AdmissionInit ==
    /\ limits \in [max: Slot, policy: Policies]
    /\ records = [s \in Slot |-> Free]
    /\ activeWebSerialClients = 0

AdmissionEnd ==
    /\ records' = [s \in Slot |-> Free]
    /\ activeWebSerialClients' = 0
    /\ UNCHANGED limits

\* The guarded decrement of the count.
Fewer(n) == IF n > activeWebSerialClients THEN 0 ELSE activeWebSerialClients - n

\* findFreeClient, given the slots in use.
FreeSlots(used) ==
    {s \in Slot \ used : \A t \in Slot \ used : s <= t}

\* selectSlowestClient: the heaviest load, the first of those that have it.
Slowest ==
    {s \in Active : \A t \in Active :
        \/ records[t].load < records[s].load
        \/ records[t].load = records[s].load /\ s <= t}

Evictable(takeover) ==
    CASE limits.policy = "ReplaceSlowest" ->
           {s \in Slowest : records[s].load > Idle}
      [] limits.policy = "ExplicitTakeover" /\ takeover -> Active
      [] OTHER -> {}

\* admitWebSerial: c is refused, or gets a record; out is the client that
\* has to go for it.
Refused(takeover, critical) ==
    \/ critical
    \/ activeWebSerialClients >= limits.max /\ Evictable(takeover) = {}
    \/ activeWebSerialClients < limits.max /\ FreeSlots(Active) = {}

AdmitFreely(c) ==
    /\ activeWebSerialClients < limits.max
    /\ \E s \in FreeSlots(Active) :
          records' = [records EXCEPT ![s] = [id |-> c, load |-> Idle]]
    /\ activeWebSerialClients' = activeWebSerialClients + 1
    /\ UNCHANGED limits

AdmitFor(c, s) ==
    /\ activeWebSerialClients >= limits.max
    /\ \E t \in FreeSlots(Active \ {s}) :
          records' = [[records EXCEPT ![s] = Free] EXCEPT
                         ![t] = [id |-> c, load |-> Idle]]
    /\ activeWebSerialClients' = Fewer(1) + 1
    /\ UNCHANGED limits

\* releaseWebSerial and updateWebSerialClient, for sets of clients.
Refreshed(gone, load) ==
    [s \in Slot |-> IF records[s].id \in gone THEN Free
                    ELSE IF s \in Active THEN [records[s] EXCEPT !.load = load[s]]
                    ELSE records[s]]

\* A variation of Released for a release that finds no record.
ReleasedBlindly(gone) == Fewer(Cardinality(gone))

Released(gone) == Fewer(Cardinality(Admitted \cap gone))
=============================================================================
