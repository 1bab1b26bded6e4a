-------------------------- MODULE StreamAdmission --------------------------
(***************************************************************************)
(* The half of DeviceFrameworkWebAdmissionControl that bounds streamed     *)
(* responses: a table of permits, each with a generation that tells a      *)
(* response from an earlier holder of its permit, and the count of the     *)
(* active ones.  The slots DeviceFrameworkWebHandlers keeps for the state  *)
(* of a response are handed out in the same way.                           *)
(***************************************************************************)
EXTENDS Integers, FiniteSets

CONSTANTS
    Permits,        \* kMaximumStreamPermits, kResponseSlotCount
    Generations     \* the generation is a uint16_t: it wraps

ASSUME StreamAdmissionAssumption ==
    Permits \in Nat \ {0} /\ Generations \in Nat \ {0, 1}

VARIABLES
    maxConcurrentStreamResponses,
    permits,                    \* streamPermits
    activeStreamResponses

admission == <<maxConcurrentStreamResponses, permits, activeStreamResponses>>

Permit == 1..Permits

Entry == [active: BOOLEAN, generation: 0..(Generations - 1)]

Unused == [p \in Permit |-> [active |-> FALSE, generation |-> 0]]

AdmissionTypeOK ==
    /\ maxConcurrentStreamResponses \in Permit
    /\ permits \in [Permit -> Entry]
    /\ activeStreamResponses \in 0..Permits

AdmissionInit ==
    /\ maxConcurrentStreamResponses \in Permit
    /\ permits = Unused /\ activeStreamResponses = 0

\* begin starts the generations again, end keeps them.
AdmissionBegin ==
    /\ permits' = Unused /\ activeStreamResponses' = 0
    /\ UNCHANGED maxConcurrentStreamResponses

AdmissionEnd ==
    /\ permits' = [p \in Permit |-> [permits[p] EXCEPT !.active = FALSE]]
    /\ activeStreamResponses' = 0
    /\ UNCHANGED maxConcurrentStreamResponses

\* The first free entry of a table, as a set of at most one.
FirstFree(table) ==
    {p \in Permit : /\ ~table[p].active
                    /\ \A q \in 1..(p - 1) : table[q].active}

\* A generation of 0 is passed over.
NextGeneration(g) ==
    IF (g + 1) % Generations = 0 THEN 1 ELSE (g + 1) % Generations

Taken(table, p) ==
    [table EXCEPT ![p] = [active |-> TRUE,
                          generation |-> NextGeneration(@.generation)]]

Holds(table, p, generation) ==
    table[p].active /\ table[p].generation = generation

Freed(table, p, generation) ==
    IF Holds(table, p, generation) THEN [table EXCEPT ![p].active = FALSE]
    ELSE table

\* tryAcquireStreamPermit finds a permit, or there is none.
Available(memory) ==
    IF memory /\ activeStreamResponses < maxConcurrentStreamResponses
    THEN FirstFree(permits) ELSE {}

TryAcquireStreamPermit(p) ==
    /\ permits' = Taken(permits, p)
    /\ activeStreamResponses' = activeStreamResponses + 1
    /\ UNCHANGED maxConcurrentStreamResponses

ReleaseStreamPermit(p, generation) ==
    /\ permits' = Freed(permits, p, generation)
    /\ activeStreamResponses' =
         IF Holds(permits, p, generation) /\ activeStreamResponses > 0
         THEN activeStreamResponses - 1 ELSE activeStreamResponses
    /\ UNCHANGED maxConcurrentStreamResponses
=============================================================================
