---------------------- MODULE ParameterRegistryProofs ----------------------
(***************************************************************************)
(* The registry's array, its values and the portal's fields, for every set *)
(* of parameters and every sequence of registrations, edits and failed     *)
(* allocations.  The order in which identifiers are sorted is not used.    *)
(***************************************************************************)
EXTENDS ParameterRegistry, TLAPS

\* What nobody has registered keeps the default it will be registered with.
UnregisteredIsDefault ==
    \A id \in Id \ Registered : value[id] = Default[id]

IInv == /\ TypeOK
        /\ ArrayIsSound
        /\ ValuesAreAccepted
        /\ PortalShowsTheValue
        /\ UnregisteredIsDefault
        /\ InPortal \subseteq Registered

-----------------------------------------------------------------------------
(* Growth.                                                                 *)

\* A tier has room for what it was chosen for.
LEMMA TierIsEnough ==
    ASSUME Sane, NEW required \in Nat, required <= Maximum
    PROVE  Tier(required) \in required..Maximum
<1> DEFINE T == {Initial, 2 * Initial, Maximum}
           Least(t) == /\ required <= t
                       /\ \A u \in T : required <= u => t <= u
<1>1. Initial \in Nat /\ Maximum = 4 * Initial
  BY DEF Sane
<1>2. \E t \in T : Least(t)
  <2>1. CASE required <= Initial
    BY <1>1, <2>1
  <2>2. CASE required > Initial /\ required <= 2 * Initial
    BY <1>1, <2>2
  <2>3. CASE required > 2 * Initial
    BY <1>1, <2>3
  <2> QED BY <1>1, <2>1, <2>2, <2>3
<1>3. Tier(required) \in T /\ Least(Tier(required))
  BY <1>2 DEF Tier
<1> QED BY <1>1, <1>3

\* Reserving and growing never shrink the array nor pass its maximum.
LEMMA CapacityOnlyGrows ==
    ASSUME Sane, TypeOK, NEW required \in Nat, NEW got \in BOOLEAN
    PROVE  /\ Reserve(required, got) \in capacity..Maximum
           /\ Ensure(required, got) \in capacity..Maximum
<1>1. capacity \in 0..Maximum /\ Maximum \in Nat
  BY DEF Sane, TypeOK
<1>2. \A r \in Nat : Reserve(r, got) \in capacity..Maximum
  BY <1>1 DEF Reserve
<1>3. required <= Maximum => Tier(required) \in Nat
  BY <1>1, TierIsEnough
<1> QED BY <1>1, <1>2, <1>3 DEF Ensure

\* The copy that a growth makes of the array is the array.
LEMMA GrowthCopies ==
    ASSUME TypeOK, ArrayIsSound, NEW room \in capacity..Maximum,
           Maximum \in Nat
    PROVE  Grown(room) = parameters
<1>1. /\ parameters \in Seq(Id) /\ Len(parameters) \in Nat
      /\ capacity \in Nat /\ Len(parameters) <= capacity
  BY DEF TypeOK, ArrayIsSound
<1>2. parameters = [i \in 1..Len(parameters) |-> parameters[i]]
  BY <1>1
<1>3. \A i \in 1..Len(parameters) : Replacement(room)[i] = parameters[i]
  BY <1>1 DEF Replacement
<1> QED BY <1>2, <1>3 DEF Grown

\* One more parameter joins the registered ones, and only it.
LEMMA RegisteredByAppend ==
    ASSUME TypeOK, NEW id \in Id, parameters' = Append(parameters, id)
    PROVE  Registered' = Registered \cup {id}
<1>1. parameters \in Seq(Id)
  BY DEF TypeOK
<1>2. /\ Len(parameters') = Len(parameters) + 1
      /\ \A i \in 1..Len(parameters) : parameters'[i] = parameters[i]
      /\ parameters'[Len(parameters) + 1] = id
      /\ DOMAIN parameters = 1..Len(parameters)
      /\ DOMAIN parameters' = 1..Len(parameters) + 1
      /\ Len(parameters) \in Nat
  BY <1>1
<1> QED BY <1>2 DEF Registered

-----------------------------------------------------------------------------
\* The registry starts empty, which satisfies the inductive invariant.
THEOREM Initially ==
    ASSUME Sane PROVE Init => IInv
<1> SUFFICES ASSUME Init PROVE IInv
  OBVIOUS
<1>1. Maximum \in Nat /\ Default \in [Id -> Value] /\ Blank \in Value
  BY DEF Sane
<1>2. TypeOK
  <2>1. parameters \in Seq(Id) /\ capacity \in 0..Maximum
    BY <1>1 DEF Init
  <2>2. shown \in [Id -> Value]
    BY <1>1 DEF Init
  <2> QED BY <1>1, <2>1, <2>2 DEF Init, TypeOK
<1>3. Registered = {} /\ InPortal = {}
  BY DEF Init, Registered, InPortal
<1>4. ArrayIsSound
  BY <1>1 DEF Init, ArrayIsSound
<1> QED BY <1>2, <1>3, <1>4
        DEF IInv, Init, ValuesAreAccepted, PortalShowsTheValue, Inputs,
            UnregisteredIsDefault

\* What a cut and a check leave is a value, and a valid one when the last was.
LEMMA StoredIsTyped ==
    ASSUME Sane, TypeOK, NEW id \in Id, NEW v \in Value
    PROVE  /\ Stored(id, v) \in Value
           /\ Takes(id, v) => Stored(id, v) \in Accepts[id]
           /\ Takes(id, v) => Stored(id, v) = Cut[id][v]
           /\ ~Takes(id, v) => Stored(id, v) = value[id]
           /\ Cut[id][v] \in Value
BY DEF Sane, TypeOK, Stored, Takes

\* The fields that follow a change of values are typed and show the values.
LEMMA FieldsFollow ==
    ASSUME Sane, TypeOK, PortalShowsTheValue, Follow(shown),
           value' \in [Id -> Value], portalRefs' = portalRefs
    PROVE  /\ shown' \in [Id -> Value]
           /\ unsynced' \subseteq Id
           /\ PortalShowsTheValue'
<1>1. \A id \in Id, v \in Value : Cut[id][v] \in Value
  BY DEF Sane
<1>2. Inputs' = Inputs
  BY DEF Inputs, InPortal
<1>3. shown' \in [Id -> Value] /\ unsynced' \subseteq Id
  BY <1>1 DEF Follow, TypeOK
<1>4. ASSUME NEW id \in Id, id \in Inputs \ unsynced'
      PROVE  shown'[id] = Cut[id][value'[id]]
  <2>1. CASE value'[id] # value[id]
    BY <1>4, <2>1 DEF Follow
  <2>2. CASE value'[id] = value[id]
    <3>1. id \notin unsynced
      BY <1>4, <2>2 DEF Follow
    <3>2. shown[id] = Cut[id][value[id]]
      BY <1>4, <3>1 DEF PortalShowsTheValue
    <3> QED BY <1>4, <2>2, <3>2 DEF Follow
  <2> QED BY <2>1, <2>2
<1>5. Inputs \subseteq Id
  BY DEF Inputs, InPortal
<1> QED BY <1>2, <1>3, <1>4, <1>5 DEF PortalShowsTheValue

-----------------------------------------------------------------------------
(* One step preserves the invariant.                                       *)

\* The array is left alone: what the registration is about stays.
LEMMA SameArray ==
    ASSUME IInv, UNCHANGED <<parameters, capacity>>
    PROVE  ArrayIsSound' /\ Registered' = Registered
BY DEF IInv, ArrayIsSound, Registered

\* The portal's fields are of parameters, and parameters are never removed.
LEMMA SamePortal ==
    ASSUME IInv, portalRefs' = portalRefs, Registered \subseteq Registered'
    PROVE  InPortal' \subseteq Registered'
BY DEF IInv, InPortal

\* Each operation preserves the invariant: what runs before setup,
LEMMA BeforeSetupKeeps ==
    ASSUME Sane, IInv, NEW expected \in 0..Maximum + 1,
           NEW got \in BOOLEAN, NEW gotTier \in BOOLEAN,
           BeforeSetup(expected, got, gotTier)
    PROVE  IInv'
<1>1. TypeOK /\ Maximum \in Nat /\ Core \in Nat
  BY DEF IInv, Sane
<1>2. Core + expected \in Nat
  BY <1>1
<1>3. capacity' \in capacity..Maximum
  <2>1. Reserve(Core + expected, got) \in capacity..Maximum
    BY <1>1, <1>2, CapacityOnlyGrows
  <2>2. Ensure(Core, gotTier) \in capacity..Maximum
    BY <1>1, CapacityOnlyGrows
  <2> QED BY <2>1, <2>2 DEF BeforeSetup
<1>4. /\ UNCHANGED <<parameters, default, value, portalRefs, shown, haRefs,
                     portalMade, entitiesMade, redefined, unsynced>>
      /\ prepared' = TRUE
  <2>1. Grown(capacity') = parameters
    BY <1>1, <1>3, GrowthCopies DEF IInv
  <2> QED BY <2>1 DEF BeforeSetup
<1>5. TypeOK'
  BY <1>1, <1>3, <1>4 DEF TypeOK
<1>6. ArrayIsSound'
  <2>1. Len(parameters) \in Nat /\ capacity \in Nat
    BY <1>1 DEF TypeOK
  <2> QED BY <1>1, <1>3, <1>4, <2>1 DEF IInv, ArrayIsSound
<1> QED BY <1>4, <1>5, <1>6
        DEF IInv, ValuesAreAccepted, PortalShowsTheValue, Inputs, InPortal,
            Registered, UnregisteredIsDefault

\* a registration,
LEMMA RegisterKeeps ==
    ASSUME Sane, IInv, NEW id \in Id, NEW got \in BOOLEAN,
           RegisterParameter(id, got)
    PROVE  IInv'
<1>1. TypeOK /\ Maximum \in Nat /\ Len(parameters) \in Nat
  BY DEF IInv, Sane, TypeOK
<1>2. capacity' \in capacity..Maximum
  <2>1. Ensure(Len(parameters) + 1, got) \in capacity..Maximum
    BY <1>1, CapacityOnlyGrows
  <2> QED BY <2>1 DEF RegisterParameter
<1>3. UNCHANGED <<portalRefs, shown, haRefs, portalMade, entitiesMade,
                  prepared, redefined, unsynced>>
  BY DEF RegisterParameter
<1>4. capacity \in Nat /\ Len(parameters) <= capacity
  BY <1>1 DEF IInv, TypeOK, ArrayIsSound
<1>5. value' = value /\ default' \in [Id -> Value]
  <2>1. value[id] = Default[id] /\ Default[id] \in Value
    BY DEF IInv, UnregisteredIsDefault, RegisterParameter, Sane
  <2> QED BY <1>1, <2>1 DEF RegisterParameter, TypeOK
<1>6. CASE Len(parameters) + 1 <= capacity'
  <2>1. parameters' = Append(parameters, id)
    <3>1. Grown(capacity') = parameters
      BY <1>1, <1>2, GrowthCopies DEF IInv
    <3> QED BY <1>6, <3>1 DEF RegisterParameter, AddParameter
  <2>2. Registered' = Registered \cup {id}
    BY <1>1, <2>1, RegisteredByAppend
  <2>3. /\ Len(parameters') = Len(parameters) + 1
        /\ \A i \in 1..Len(parameters) : parameters'[i] = parameters[i]
        /\ parameters'[Len(parameters) + 1] = id
        /\ DOMAIN parameters = 1..Len(parameters)
        /\ DOMAIN parameters' = 1..Len(parameters) + 1
    BY <1>1, <2>1 DEF TypeOK
  <2>4. \A i \in 1..Len(parameters) : parameters[i] # id
    BY <2>3 DEF RegisterParameter, Registered
  <2>5. ArrayIsSound'
    <3>1. Len(parameters') <= capacity' /\ capacity' <= Maximum
      BY <1>1, <1>2, <1>4, <1>6, <2>3
    <3>2. ASSUME NEW i \in DOMAIN parameters', NEW j \in DOMAIN parameters',
                 parameters'[i] = parameters'[j]
          PROVE  i = j
      <4>1. CASE i \in 1..Len(parameters) /\ j \in 1..Len(parameters)
        BY <2>3, <3>2, <4>1 DEF IInv, ArrayIsSound
      <4>2. CASE i = Len(parameters) + 1 \/ j = Len(parameters) + 1
        BY <1>1, <2>3, <2>4, <3>2, <4>2
      <4> QED BY <1>1, <2>3, <4>1, <4>2
    <3> QED BY <3>1, <3>2 DEF ArrayIsSound
  <2>6. parameters' \in Seq(Id)
    BY <1>1, <2>1 DEF TypeOK
  <2>7. TypeOK'
    BY <1>1, <1>2, <1>3, <1>4, <1>5, <2>6 DEF TypeOK
  <2>8. ValuesAreAccepted' /\ UnregisteredIsDefault'
    BY <1>3, <1>5, <2>2 DEF IInv, ValuesAreAccepted, UnregisteredIsDefault,
       RegisterParameter
  <2>9. InPortal' \subseteq Registered'
    BY <1>3, <2>2, SamePortal
  <2> QED BY <1>3, <1>5, <2>5, <2>7, <2>8, <2>9
          DEF IInv, PortalShowsTheValue, Inputs, InPortal
<1>7. CASE ~(Len(parameters) + 1 <= capacity')
  <2>1. parameters' = parameters
    BY <1>7 DEF RegisterParameter, AddParameter
  <2>2. ArrayIsSound'
    BY <1>1, <1>2, <1>4, <2>1 DEF IInv, ArrayIsSound
  <2>3. TypeOK'
    BY <1>1, <1>2, <1>3, <1>4, <1>5, <2>1 DEF TypeOK
  <2> QED BY <1>3, <1>5, <2>1, <2>2, <2>3
          DEF IInv, ValuesAreAccepted, PortalShowsTheValue, Inputs, InPortal,
              Registered, UnregisteredIsDefault
<1> QED BY <1>6, <1>7

\* a change of a value,
LEMMA SetValueKeeps ==
    ASSUME Sane, IInv, NEW id \in Id, NEW v \in Value, SetValue(id, v)
    PROVE  IInv'
<1>1. TypeOK /\ PortalShowsTheValue
  BY DEF IInv
<1>2. /\ UNCHANGED <<parameters, capacity, default, portalRefs, haRefs,
                     portalMade, entitiesMade, prepared>>
      /\ Follow(shown)
      /\ value' = [value EXCEPT ![id] = Stored(id, v)]
      /\ id \in Registered
  BY DEF SetValue
<1>3. /\ Stored(id, v) \in Value
      /\ Takes(id, v) => Stored(id, v) \in Accepts[id]
      /\ ~Takes(id, v) => Stored(id, v) = value[id]
  BY <1>1, StoredIsTyped
<1>4. value' \in [Id -> Value]
  BY <1>1, <1>2, <1>3 DEF TypeOK
<1>5. /\ shown' \in [Id -> Value] /\ unsynced' \subseteq Id
      /\ PortalShowsTheValue'
  BY <1>1, <1>2, <1>4, FieldsFollow
<1>6. ArrayIsSound' /\ Registered' = Registered
  BY <1>2, SameArray
<1>7. redefined' \subseteq Id
  BY <1>1 DEF SetValue, TypeOK
<1>8. TypeOK'
  BY <1>1, <1>2, <1>4, <1>5, <1>7 DEF TypeOK
<1>9. ValuesAreAccepted'
  <2>1. ASSUME NEW other \in Registered \ redefined'
        PROVE  value'[other] \in Accepts[other]
    <3>1. other \in Id
      BY <1>1 DEF TypeOK, Registered
    <3>2. CASE other = id /\ Takes(id, v)
      BY <1>1, <1>2, <1>3, <3>1, <3>2 DEF TypeOK
    <3>3. CASE ~(other = id /\ Takes(id, v))
      <4>1. other \notin redefined
        BY <2>1, <3>3 DEF SetValue
      <4>2. value'[other] = value[other]
        BY <1>1, <1>2, <1>3, <3>1, <3>3 DEF TypeOK
      <4> QED BY <2>1, <4>1, <4>2 DEF IInv, ValuesAreAccepted
    <3> QED BY <3>2, <3>3
  <2> QED BY <1>6, <2>1 DEF ValuesAreAccepted
<1>10. UnregisteredIsDefault'
  BY <1>1, <1>2, <1>6 DEF IInv, UnregisteredIsDefault, TypeOK
<1>11. InPortal' \subseteq Registered'
  BY <1>2, <1>6, SamePortal
<1> QED BY <1>11, <1>5, <1>6, <1>8, <1>9, <1>10 DEF IInv

\* a change of a default,
LEMMA SetDefaultKeeps ==
    ASSUME Sane, IInv, NEW id \in Id, NEW v \in Value,
           SetDefaultValue(id, v)
    PROVE  IInv'
<1>1. TypeOK /\ Cut[id][v] \in Value
  BY DEF IInv, Sane
<1>2. /\ UNCHANGED <<parameters, capacity, portalRefs, shown, haRefs,
                     portalMade, entitiesMade, prepared>>
      /\ default' = [default EXCEPT ![id] = Cut[id][v]]
      /\ value' = [value EXCEPT ![id] = Cut[id][v]]
      /\ redefined' = redefined \cup {id}
      /\ unsynced' = unsynced \cup {id}
      /\ id \in Registered
  BY DEF SetDefaultValue
<1>3. TypeOK'
  BY <1>1, <1>2 DEF TypeOK
<1>4. ArrayIsSound' /\ Registered' = Registered
  BY <1>2, SameArray
<1>5. \A other \in Id : other # id => value'[other] = value[other]
  BY <1>1, <1>2 DEF TypeOK
<1>6. ValuesAreAccepted' /\ UnregisteredIsDefault'
  <2>1. Registered \subseteq Id
    BY <1>1 DEF TypeOK, Registered
  <2> QED BY <1>2, <1>4, <1>5, <2>1
          DEF IInv, ValuesAreAccepted, UnregisteredIsDefault
<1>7. PortalShowsTheValue'
  BY <1>2, <1>5 DEF IInv, PortalShowsTheValue, Inputs, InPortal
<1>8. InPortal' \subseteq Registered'
  BY <1>2, <1>4, SamePortal
<1> QED BY <1>8, <1>3, <1>4, <1>6, <1>7 DEF IInv

\* the return to the defaults,
LEMMA RestoreDefaultsKeeps ==
    ASSUME Sane, IInv, RestoreDefaults
    PROVE  IInv'
<1>1. TypeOK /\ PortalShowsTheValue
  BY DEF IInv
<1>2. /\ UNCHANGED <<parameters, capacity, default, portalRefs, haRefs,
                     portalMade, entitiesMade, prepared>>
      /\ Follow(shown)
      /\ value' = [id \in Id |-> IF id \in Registered
                                 THEN Stored(id, default[id]) ELSE value[id]]
      /\ redefined' = {id \in redefined :
                        id \in Registered => ~Takes(id, default[id])}
  BY DEF RestoreDefaults
<1>3. \A id \in Id :
        /\ Stored(id, default[id]) \in Value
        /\ Takes(id, default[id]) =>
                Stored(id, default[id]) \in Accepts[id]
        /\ ~Takes(id, default[id]) => Stored(id, default[id]) = value[id]
  <2>1. \A id \in Id : default[id] \in Value
    BY <1>1 DEF TypeOK
  <2> QED BY <1>1, <2>1, StoredIsTyped
<1>4. value' \in [Id -> Value]
  BY <1>1, <1>2, <1>3 DEF TypeOK
<1>5. /\ shown' \in [Id -> Value] /\ unsynced' \subseteq Id
      /\ PortalShowsTheValue'
  BY <1>1, <1>2, <1>4, FieldsFollow
<1>6. ArrayIsSound' /\ Registered' = Registered /\ Registered \subseteq Id
  BY <1>1, <1>2, SameArray DEF TypeOK, Registered
<1>7. TypeOK'
  <2>1. redefined' \subseteq Id
    BY <1>1, <1>2 DEF TypeOK
  <2> QED BY <1>1, <1>2, <1>4, <1>5, <2>1 DEF TypeOK
<1>8. ValuesAreAccepted'
  <2>1. ASSUME NEW id \in Id, id \in Registered \ redefined'
        PROVE  value'[id] \in Accepts[id]
    <3>1. value'[id] = Stored(id, default[id])
      BY <1>2, <2>1
    <3>2. CASE Takes(id, default[id])
      BY <1>3, <3>1, <3>2
    <3>3. CASE ~Takes(id, default[id])
      <4>1. id \notin redefined
        BY <1>2, <2>1, <3>3
      <4>2. value'[id] = value[id]
        BY <1>3, <3>1, <3>3
      <4> QED BY <2>1, <4>1, <4>2 DEF IInv, ValuesAreAccepted
    <3> QED BY <3>2, <3>3
  <2> QED BY <1>6, <2>1 DEF ValuesAreAccepted
<1>9. UnregisteredIsDefault'
  BY <1>2, <1>6 DEF IInv, UnregisteredIsDefault
<1>10. InPortal' \subseteq Registered'
  BY <1>2, <1>6, SamePortal
<1> QED BY <1>10, <1>5, <1>6, <1>7, <1>8, <1>9 DEF IInv

\* the fields of the portal,
LEMMA CreatePortalKeeps ==
    ASSUME Sane, IInv, CreateWiFiManagerParameters
    PROVE  IInv'
<1>1. TypeOK
  BY DEF IInv
<1> DEFINE Field(id) == IF Portal[id] = "input" THEN Cut[id][value[id]]
                        ELSE IF Portal[id] = "select" THEN Rendered(id)
                        ELSE shown[id]
<1>2. /\ UNCHANGED <<parameters, capacity, default, value, haRefs,
                     entitiesMade, prepared, redefined>>
      /\ shown' = [id \in Id |-> Field(id)]
      /\ unsynced' = {} /\ portalMade' = TRUE
  BY DEF CreateWiFiManagerParameters
<1>3. ASSUME NEW id \in Id PROVE Field(id) \in Value
  <2>1. value[id] \in Value /\ shown[id] \in Value
    BY <1>1 DEF TypeOK
  <2>2. CASE Portal[id] = "input"
    BY <2>1, <2>2 DEF Sane
  <2>3. CASE Portal[id] = "select"
    <3>1. Options[id] \in Seq(Value) /\ Options[id] # << >>
      BY <2>3 DEF Sane
    <3>2. Options[id][1] \in Value
      BY <3>1
    <3> QED BY <2>1, <2>3, <3>2 DEF Rendered
  <2>4. CASE Portal[id] \notin {"input", "select"}
    BY <2>1, <2>4
  <2> QED BY <2>2, <2>3, <2>4
<1> HIDE DEF Field
<1>4. TypeOK'
  <2>1. shown' \in [Id -> Value]
    BY <1>2, <1>3
  <2> QED BY <1>1, <1>2, <2>1 DEF TypeOK
<1>5. ArrayIsSound' /\ Registered' = Registered
  BY <1>2, SameArray
<1>6. PortalShowsTheValue'
  BY <1>2 DEF PortalShowsTheValue, Inputs, InPortal, Field
<1>7. InPortal' \subseteq Registered
  <2> DEFINE ids == SortedIds({id \in Id : Portal[id] # "none"})
  <2>1. portalRefs' = [i \in 1..Len(ids) |->
                         IF ids[i] \in Registered THEN ids[i] ELSE Absent]
    BY DEF CreateWiFiManagerParameters
  <2> HIDE DEF ids
  <2>2. Absent \notin Id
    BY DEF Sane
  <2> QED BY <2>1, <2>2 DEF InPortal
<1> QED BY <1>2, <1>4, <1>5, <1>6, <1>7
        DEF IInv, ValuesAreAccepted, UnregisteredIsDefault

\* the entities of Home Assistant,
LEMMA CreateHADevicesKeeps ==
    ASSUME IInv, CreateHADevices
    PROVE  IInv'
<1>1. /\ UNCHANGED <<parameters, capacity, default, value, portalRefs,
                     shown, portalMade, prepared, redefined, unsynced>>
      /\ entitiesMade' = TRUE
  BY DEF CreateHADevices
<1> QED BY <1>1 DEF IInv, TypeOK, ArrayIsSound, ValuesAreAccepted,
           PortalShowsTheValue, UnregisteredIsDefault, Registered, Inputs,
           InPortal

\* and what the portal saves.
LEMMA SaveParamsKeeps ==
    ASSUME Sane, IInv, NEW form \in [InPortal -> Value \cup {Absent}],
           SaveParams(form)
    PROVE  IInv'
<1> DEFINE Copied(id) ==
               IF form[id] = Absent THEN Blank ELSE Cut[id][form[id]]
           Received(id) ==
               IF /\ Portal[id] = "input"
                  /\ (Copied(id) # Blank \/ form[id] = Absent)
               THEN Copied(id) ELSE form[id]
           edited == {id \in InPortal \cap Registered :
                          Received(id) \notin {Absent, value[id]}}
           refused == {id \in edited : ~Takes(id, Received(id))}
<1>1. TypeOK /\ Blank \in Value
  BY DEF IInv, Sane
<1>2. /\ UNCHANGED <<parameters, capacity, default, portalRefs, haRefs,
                     portalMade, entitiesMade, prepared>>
      /\ value' = [id \in Id |-> IF id \in edited
                                 THEN Stored(id, Received(id))
                                 ELSE value[id]]
      /\ shown' = [id \in Id |->
                      IF id \notin Inputs THEN shown[id]
                      ELSE IF value'[id] # value[id]
                           THEN Cut[id][value'[id]]
                      ELSE Copied(id)]
      /\ redefined' = redefined \ (edited \ refused)
      /\ unsynced' = (unsynced \ Inputs) \cup refused
  BY DEF SaveParams
<1>3. ASSUME NEW id \in InPortal
      PROVE  /\ Copied(id) \in Value
             /\ Received(id) \in Value \cup {Absent}
             /\ Cut[id][Copied(id)] = Copied(id)
  <2>1. form[id] # Absent => form[id] \in Value
    OBVIOUS
  <2>2. id \in Id
    BY DEF InPortal
  <2> QED BY <1>1, <2>1, <2>2 DEF Sane
<1>4. /\ Inputs \subseteq InPortal /\ InPortal \subseteq Id
      /\ edited \subseteq InPortal
  BY DEF Inputs, InPortal
<1>5. ASSUME NEW id \in edited
      PROVE  /\ Stored(id, Received(id)) \in Value
             /\ id \notin refused =>
                    /\ Stored(id, Received(id)) \in Accepts[id]
                    /\ Stored(id, Received(id)) = Cut[id][Received(id)]
             /\ id \in refused => Stored(id, Received(id)) = value[id]
  <2>1. Received(id) \in Value /\ id \in Id
    BY <1>3, <1>4, <1>5
  <2> QED BY <1>1, <1>5, <2>1, StoredIsTyped
<1> HIDE DEF Copied, Received
<1>6. TypeOK'
  <2>1. value' \in [Id -> Value]
    BY <1>1, <1>2, <1>5 DEF TypeOK
  <2>2. \A id \in Id : Cut[id][value'[id]] \in Value
    BY <2>1 DEF Sane
  <2>3. shown' \in [Id -> Value]
    BY <1>1, <1>2, <1>3, <1>4, <2>2 DEF TypeOK
  <2>4. redefined' \subseteq Id /\ unsynced' \subseteq Id
    BY <1>1, <1>2, <1>4 DEF TypeOK
  <2> QED BY <1>1, <1>2, <2>1, <2>3, <2>4 DEF TypeOK
<1>7. ArrayIsSound' /\ Registered' = Registered /\ Registered \subseteq Id
  BY <1>1, <1>2, SameArray DEF TypeOK, Registered
<1>8. ValuesAreAccepted'
  <2>1. ASSUME NEW id \in Id, id \in Registered \ redefined'
        PROVE  value'[id] \in Accepts[id]
    <3>1. CASE id \in edited \ refused
      BY <1>2, <1>5, <3>1
    <3>2. CASE id \notin edited \ refused
      <4>1. id \notin redefined
        BY <1>2, <2>1, <3>2
      <4>2. value'[id] = value[id]
        BY <1>2, <1>5, <2>1, <3>2
      <4> QED BY <2>1, <4>1, <4>2 DEF IInv, ValuesAreAccepted
    <3> QED BY <3>1, <3>2
  <2> QED BY <1>7, <2>1 DEF ValuesAreAccepted
<1>9. UnregisteredIsDefault'
  BY <1>2, <1>7 DEF IInv, UnregisteredIsDefault
<1>10. PortalShowsTheValue'
  <2>1. Inputs' = Inputs
    BY <1>2 DEF Inputs, InPortal
  <2>2. ASSUME NEW id \in Id, id \in Inputs, id \notin unsynced'
        PROVE  shown'[id] = Cut[id][value'[id]]
    <3>1. CASE value'[id] # value[id]
      BY <1>2, <2>2, <3>1
    <3>2. CASE value'[id] = value[id] /\ id \in edited
      <4>1. id \notin refused
        BY <1>2, <2>2
      <4>2. value'[id] = Cut[id][Received(id)]
        BY <1>2, <1>5, <3>2, <4>1
      <4>3. Received(id) \in Value /\ Received(id) # Absent
        BY <1>3, <3>2
      <4>4. Cut[id][value'[id]] = Cut[id][Received(id)]
        BY <4>2, <4>3 DEF Sane
      <4>5. Cut[id][Received(id)] = Copied(id)
        <5>1. form[id] = Absent => Received(id) = Copied(id)
          BY <2>2 DEF Received, Inputs
        <5>2. CASE Received(id) = Copied(id)
          BY <1>3, <1>4, <2>2, <5>2
        <5>3. CASE Received(id) # Copied(id)
          BY <5>1, <5>3, <4>3 DEF Received, Copied
        <5> QED BY <5>2, <5>3
      <4> QED BY <1>2, <2>2, <3>2, <4>4, <4>5
    <3>3. CASE value'[id] = value[id] /\ id \notin edited
      <4>1. shown'[id] = Copied(id)
        BY <1>2, <2>2, <3>3
      <4>2. id \in InPortal \cap Registered
        BY <2>2 DEF IInv, Inputs
      <4>3. Received(id) = Copied(id) \/ Received(id) = form[id]
        BY DEF Received
      <4>4. Received(id) \in {Absent, value[id]}
        BY <3>3, <4>2
      <4>5. Received(id) = Absent => form[id] = Absent
        BY <1>3, <4>2, <4>3 DEF Sane
      <4>6. Received(id) # Absent
        BY <1>3, <2>2, <4>2, <4>5 DEF Received, Inputs, Sane
      <4>7. Cut[id][Received(id)] = Copied(id)
        BY <1>3, <2>2, <4>2, <4>6 DEF Received, Copied, Inputs
      <4> QED BY <3>3, <4>1, <4>4, <4>6, <4>7
    <3> QED BY <3>1, <3>2, <3>3
  <2> QED BY <1>4, <2>1, <2>2 DEF PortalShowsTheValue
<1>11. InPortal' \subseteq Registered'
  BY <1>2, <1>7, SamePortal
<1> QED BY <1>11, <1>6, <1>7, <1>8, <1>9, <1>10 DEF IInv

-----------------------------------------------------------------------------
\* All operations together.
LEMMA Inductive ==
    ASSUME IInv, [Next]_vars
    PROVE  IInv'
<1> USE RegistryAssumption
<1>1. ASSUME NEW expected \in 0..Maximum + 1, NEW got \in BOOLEAN,
             NEW gotTier \in BOOLEAN, BeforeSetup(expected, got, gotTier)
      PROVE  IInv'
  BY <1>1, BeforeSetupKeeps
<1>2. ASSUME NEW id \in Id, NEW got \in BOOLEAN, RegisterParameter(id, got)
      PROVE  IInv'
  BY <1>2, RegisterKeeps
<1>3. ASSUME NEW id \in Id, NEW v \in Value, SetValue(id, v)
      PROVE  IInv'
  BY <1>3, SetValueKeeps
<1>4. ASSUME NEW pair \in Redefinitions, SetDefaultValue(pair[1], pair[2])
      PROVE  IInv'
  <2>1. pair[1] \in Id /\ pair[2] \in Value
    BY DEF Sane
  <2> QED BY <1>4, <2>1, SetDefaultKeeps
<1>5. ASSUME NEW id \in Id, NEW index \in 0..2, SelectOption(id, index)
      PROVE  IInv'
  <2>1. SetValue(id, OptionAt(id, index))
    BY <1>5 DEF SelectOption
  <2>2. OptionAt(id, index) \in Value
    BY DEF Sane, OptionAt
  <2> QED BY <2>1, <2>2, SetValueKeeps
<1>6. ASSUME NEW form \in [InPortal -> Value \cup {Absent}], SaveParams(form)
      PROVE  IInv'
  BY <1>6, SaveParamsKeeps
<1>7. CASE UNCHANGED vars
  BY <1>7 DEF vars, IInv, TypeOK, ArrayIsSound, ValuesAreAccepted,
     PortalShowsTheValue, UnregisteredIsDefault, Registered, Inputs, InPortal
<1> QED
  BY <1>1, <1>2, <1>3, <1>4, <1>5, <1>6, <1>7, RestoreDefaultsKeeps,
     CreatePortalKeeps, CreateHADevicesKeeps DEF Next

\* Where the registry can get.
LEMMA Reached == Spec => []IInv
<1>1. Init => IInv
  BY RegistryAssumption, Initially
<1>2. IInv /\ [Next]_vars => IInv'
  BY Inductive
<1> QED BY <1>1, <1>2, PTL DEF Spec

\* Every state has the types of TypeOK.
THEOREM RegistryTypes == Spec => []TypeOK
<1>1. IInv => TypeOK
  BY DEF IInv
<1> QED BY <1>1, Reached, PTL

\* ArrayIsSound: each identifier is kept once, within the room there is
\* (ensureParameterCapacity, addParameter).
THEOREM ArrayStaysSound == Spec => []ArrayIsSound
<1>1. IInv => ArrayIsSound
  BY DEF IInv
<1> QED BY <1>1, Reached, PTL

\* ValuesAreAccepted: a value has passed validateValue, or setDefaultValue
\* imposed it.
THEOREM ValuesStayAccepted == Spec => []ValuesAreAccepted
<1>1. IInv => ValuesAreAccepted
  BY DEF IInv
<1> QED BY <1>1, Reached, PTL

\* PortalShowsTheValue: a form sent back as it is shown edits nothing.
THEOREM PortalStaysTrue == Spec => []PortalShowsTheValue
<1>1. IInv => PortalShowsTheValue
  BY DEF IInv
<1> QED BY <1>1, Reached, PTL

\* ParametersStay: no growth, registration, edit or reset moves or drops a parameter
\* (reserveParameterCapacity copies every entry in its place).
THEOREM ParametersNeverMove == Spec => ParametersStay
<1>1. IInv /\ [Next]_vars => [KeepsPlaces]_vars
  <2> SUFFICES ASSUME IInv, Next PROVE KeepsPlaces
    BY DEF vars
  <2>1. TypeOK /\ ArrayIsSound /\ Sane /\ Maximum \in Nat /\ Core \in Nat
    BY RegistryAssumption DEF IInv, Sane
  <2>2. Len(parameters) + 1 \in Nat
    BY <2>1 DEF TypeOK
  <2>3. parameters' = parameters
        \/ \E id \in Id : parameters' = Append(parameters, id)
    <3>1. ASSUME NEW expected \in 0..Maximum + 1, NEW got \in BOOLEAN,
                 NEW gotTier \in BOOLEAN, BeforeSetup(expected, got, gotTier)
          PROVE  parameters' = parameters
      <4>1. Core + expected \in Nat
        BY <2>1
      <4>2. /\ Reserve(Core + expected, got) \in capacity..Maximum
            /\ Ensure(Core, gotTier) \in capacity..Maximum
        BY <2>1, <4>1, CapacityOnlyGrows
      <4>3. capacity' \in capacity..Maximum
        BY <3>1, <4>2 DEF BeforeSetup
      <4> QED BY <2>1, <3>1, <4>3, GrowthCopies DEF BeforeSetup
    <3>2. ASSUME NEW id \in Id, NEW got \in BOOLEAN, RegisterParameter(id, got)
          PROVE  parameters' \in {parameters, Append(parameters, id)}
      <4>1. capacity' \in capacity..Maximum
        BY <2>1, <2>2, <3>2, CapacityOnlyGrows DEF RegisterParameter
      <4> QED BY <2>1, <3>2, <4>1, GrowthCopies
              DEF RegisterParameter, AddParameter
    <3> QED BY <3>1, <3>2 DEF Next, SetValue, SetDefaultValue, SelectOption,
               RestoreDefaults, CreateWiFiManagerParameters, SaveParams,
               CreateHADevices
  <2>4. parameters \in Seq(Id)
    BY <2>1 DEF TypeOK
  <2>5. CASE parameters' = parameters
    BY <2>5 DEF KeepsPlaces
  <2>6. ASSUME NEW id \in Id, parameters' = Append(parameters, id)
        PROVE  KeepsPlaces
    BY <2>4, <2>6 DEF KeepsPlaces
  <2> QED BY <2>3, <2>5, <2>6
<1> QED BY <1>1, Reached, PTL DEF Spec, ParametersStay
=============================================================================
