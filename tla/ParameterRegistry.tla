------------------------- MODULE ParameterRegistry -------------------------
(***************************************************************************)
(* The registry of parameters: the array the core and the sketch register  *)
(* into, the values and their validation, the copies the Wi-Fi portal      *)
(* shows, and the entities Home Assistant commands.                        *)
(*                                                                         *)
(* A value is a member of a set; what its type, its range and its length   *)
(* limit say of it are the constants Accepts and Cut.  The publications to *)
(* the broker and the records in flash are in HomeAssistant and Storage.   *)
(***************************************************************************)
EXTENDS Naturals, FiniteSets, Sequences, SequencesExt

CONSTANTS
    Id,         \* the identifiers a registration may name
    BadId,      \* those of them that are empty or not alphanumeric
    Value,      \* the values, as strings
    Blank,      \* the empty string
    Absent,     \* no argument in a form
    Default,    \* Default[id]: defaultValue of the metadata registered
    Accepts,    \* Accepts[id]: the values validateValue takes
    Cut,        \* Cut[id][v]: the first maxLength characters of v
    Order,      \* Order[id]: the order field
    Portal,     \* Portal[id]: "none", "input" or "select"
    Entity,     \* Entity[id]: "none", "typed", or "untyped" (type NONE)
    Options,    \* Options[id]: the options, trimmed, empty ones skipped
    Redefinitions, \* whose default the sketch sets later, and to what
    Initial,    \* kInitialCapacity, 8
    Maximum,    \* maximumParameterCapacity(), 32
    Core        \* coreParameterCount(), 6

VARIABLES
    parameters,     \* the array, up to parameterCount
    capacity,       \* parameterCapacity
    default,        \* metadata.defaultValue of each parameter
    value,          \* the current value of each parameter
    portalRefs,     \* wifiManagerRefs
    shown,          \* what the portal's field for a parameter holds
    haRefs,         \* haDeviceRefs: an identifier, or Absent for no entity
    portalMade,     \* createWiFiManagerParameters has been called
    entitiesMade,   \* createHADevices has been called
    prepared,       \* beforeSetupCalled
    redefined,      \* history: whose value is an unchecked default
    unsynced        \* history: whose field may differ from the value

vars == <<parameters, capacity, default, value, portalRefs, shown, haRefs,
          portalMade, entitiesMade, prepared, redefined, unsynced>>

\* What the constants are.
Sane ==
    /\ Blank \in Value /\ Absent \notin Value /\ Absent \notin Id
    /\ BadId \subseteq Id
    /\ Default \in [Id -> Value] /\ Accepts \in [Id -> SUBSET Value]
    /\ Cut \in [Id -> [Value -> Value]]
    /\ \A id \in Id, v \in Value : Cut[id][Cut[id][v]] = Cut[id][v]
    /\ \A id \in Id : Cut[id][Blank] = Blank
    /\ Order \in [Id -> Nat]
    /\ Portal \in [Id -> {"none", "input", "select"}]
    /\ Entity \in [Id -> {"none", "typed", "untyped"}]
    /\ Options \in [Id -> Seq(Value)]
    /\ \A id \in Id : Portal[id] = "select" => Options[id] # << >>
    /\ Redefinitions \subseteq Id \X Value
    /\ Initial \in Nat \ {0} /\ Maximum = 4 * Initial
    /\ Core \in 1..Maximum

ASSUME RegistryAssumption == Sane

Registered == {parameters[i] : i \in DOMAIN parameters}
InPortal == {id \in Id : \E i \in DOMAIN portalRefs : portalRefs[i] = id}
Inputs == {id \in InPortal : Portal[id] = "input"}

-----------------------------------------------------------------------------
(* The array.                                                              *)

\* reserveParameterCapacity: exactly the capacity asked for; `got' is the
\* outcome of the allocation.
Reserve(required, got) ==
    IF required <= capacity THEN capacity
    ELSE IF required > Maximum \/ ~got THEN capacity
    ELSE required

\* The next of the tiers 8, 16 and 32.
Tier(required) ==
    CHOOSE t \in {Initial, 2 * Initial, Maximum} :
        /\ required <= t
        /\ \A u \in {Initial, 2 * Initial, Maximum} : required <= u => t <= u

\* ensureParameterCapacity: an array that is too small grows to a tier.
Ensure(required, got) ==
    IF required <= capacity \/ required > Maximum THEN capacity
    ELSE Reserve(Tier(required), got)

\* The array that replaces one that is too small: a copy of each entry in its
\* place, and fresh ones.
Replacement(required) ==
    [i \in 1..required |-> IF i <= Len(parameters) THEN parameters[i] ELSE Absent]

\* A variation of Grown that copies, and counts, one entry too few.
GrownShort(room) ==
    IF room = capacity THEN parameters
    ELSE [i \in 1..(Len(parameters) - 1) |-> Replacement(room)[i]]

\* The parameters in an array with `room' entries.
Grown(room) ==
    IF room = capacity THEN parameters
    ELSE [i \in 1..Len(parameters) |-> Replacement(room)[i]]

\* getParameterIdsSorted: those of the given parameters that are registered, in
\* the order their metadata gives, those of one order as they were registered.
SortedIds(ids) ==
    LET Insert(s, id) ==
            SelectSeq(s, LAMBDA x : Order[x] <= Order[id]) \o <<id>>
                \o SelectSeq(s, LAMBDA x : Order[x] > Order[id])
        Given(id) == id \in ids
    IN  FoldLeft(Insert, << >>, SelectSeq(parameters, Given))

-----------------------------------------------------------------------------
Init ==
    /\ parameters = << >> /\ capacity = 0
    /\ default = Default /\ value = Default
    /\ portalRefs = << >> /\ haRefs = << >>
    /\ shown = [id \in Id |-> Blank]
    /\ portalMade = FALSE /\ entitiesMade = FALSE /\ prepared = FALSE
    /\ redefined = {} /\ unsynced = {}

\* beforeSetup: exactly the entries the sketch announces; an announcement
\* that is absent (0) or too large, or an allocation that fails, leaves the
\* tiers.
BeforeSetup(expected, got, gotTier) ==
    /\ ~prepared
    /\ prepared' = TRUE
    /\ LET hinted == expected # 0 /\ expected <= Maximum - Core
                     /\ (got \/ Core + expected <= capacity)
       IN  capacity' = IF hinted THEN Reserve(Core + expected, got)
                       ELSE Ensure(Core, gotTier)
    /\ parameters' = Grown(capacity')
    /\ UNCHANGED <<default, value, portalRefs, shown, haRefs,
                   portalMade, entitiesMade, redefined, unsynced>>

\* A variation of AddParameter that ignores that there is no room.
AddAnyway(id, room) == Append(Grown(room), id)

\* addParameter: the array with an entry at its end, if there is room.
AddParameter(id, room) ==
    IF Len(parameters) + 1 <= room THEN Append(Grown(room), id) ELSE parameters

\* registerParameter: a new, well-formed identifier whose default is valid.
\* The default is not cut to the length limit.
RegisterParameter(id, got) ==
    /\ id \notin BadId
    /\ id \notin Registered
    /\ Default[id] \in Accepts[id]
    /\ capacity' = Ensure(Len(parameters) + 1, got)
    /\ parameters' = AddParameter(id, capacity')
    /\ IF id \in Registered'
       THEN /\ default' = [default EXCEPT ![id] = Default[id]]
            /\ value' = [value EXCEPT ![id] = Default[id]]
       ELSE UNCHANGED <<default, value>>
    /\ UNCHANGED <<portalRefs, shown, haRefs, portalMade, entitiesMade,
                   prepared, redefined, unsynced>>

-----------------------------------------------------------------------------
(* Values.                                                                 *)

\* A variation of Takes that validates before it cuts.
TakesUncut(id, v) == v \in Accepts[id]

\* A value is cut to its limit and refused when its type or its range does.
Takes(id, v) == Cut[id][v] \in Accepts[id]

\* What setValue(id, v) leaves.
Stored(id, v) == IF Takes(id, v) THEN Cut[id][v] ELSE value[id]

\* A variation of Follow that forgets the portal.
StayBehind(fields) == shown' = fields /\ unsynced' = unsynced

\* notifyValueChanged and syncToWiFiManager: of the parameters that changed,
\* the fields of the portal that are inputs follow; a select keeps the page
\* it was given (the portal's setValue does nothing without an identifier).
Follow(fields) ==
    LET changed == {id \in Inputs : value'[id] # value[id]}
    IN  /\ shown' = [id \in Id |-> IF id \in changed THEN Cut[id][value'[id]]
                                   ELSE fields[id]]
        /\ unsynced' = unsynced \ changed

\* setValue, from the sketch, a saved record or a profile, or (the handlers
\* onHANumberCommand, ...SwitchCommand and ...TextCommand) Home Assistant.
SetValue(id, v) ==
    /\ id \in Registered
    /\ value' = [value EXCEPT ![id] = Stored(id, v)]
    /\ redefined' = IF Takes(id, v) THEN redefined \ {id} ELSE redefined
    /\ Follow(shown)
    /\ UNCHANGED <<parameters, capacity, default, portalRefs, haRefs,
                   portalMade, entitiesMade, prepared>>

\* indexToOptionString: indices count from 0, and one out of range gives the
\* empty string.
OptionAt(id, index) ==
    IF index + 1 \in DOMAIN Options[id] THEN Options[id][index + 1] ELSE Blank

\* onHASelectCommand: the option at the index received, and nothing at all
\* when there is none.
SelectOption(id, index) ==
    /\ id \in {haRefs[i] : i \in DOMAIN haRefs}
    /\ OptionAt(id, index) # Blank
    /\ SetValue(id, OptionAt(id, index))

\* setDefaultValue: cut to its limit, made the current value too; neither is
\* checked, and nobody is told.
SetDefaultValue(id, v) ==
    /\ id \in Registered
    /\ default' = [default EXCEPT ![id] = Cut[id][v]]
    /\ value' = [value EXCEPT ![id] = Cut[id][v]]
    /\ redefined' = redefined \cup {id}
    /\ unsynced' = unsynced \cup {id}
    /\ UNCHANGED <<parameters, capacity, portalRefs, shown, haRefs,
                   portalMade, entitiesMade, prepared>>

\* DeviceFrameworkParameters::restoreDefaults: setValue of every default.
RestoreDefaults ==
    /\ value' = [id \in Id |-> IF id \in Registered
                               THEN Stored(id, default[id]) ELSE value[id]]
    /\ redefined' = {id \in redefined :
                        id \in Registered => ~Takes(id, default[id])}
    /\ Follow(shown)
    /\ UNCHANGED <<parameters, capacity, default, portalRefs, haRefs,
                   portalMade, entitiesMade, prepared>>

-----------------------------------------------------------------------------
(* The portal.                                                             *)

\* generateCustomInputHTML: the page of a select marks the option equal to
\* the value; the browser shows the first when none is marked.
Rendered(id) ==
    IF \E i \in DOMAIN Options[id] : Options[id][i] = value[id]
    THEN value[id] ELSE Options[id][1]

\* createWiFiManagerParameters: an input is given the value (which the
\* portal cuts to the limit), a select the page as it is rendered now.  (An
\* identifier without metadata would leave its place empty.)
CreateWiFiManagerParameters ==
    /\ ~portalMade /\ prepared
    /\ portalMade' = TRUE
    /\ LET ids == SortedIds({id \in Id : Portal[id] # "none"})
       IN  portalRefs' = [i \in 1..Len(ids) |->
                            IF ids[i] \in Registered THEN ids[i] ELSE Absent]
    /\ shown' = [id \in Id |-> IF Portal[id] = "input" THEN Cut[id][value[id]]
                               ELSE IF Portal[id] = "select" THEN Rendered(id)
                               ELSE shown[id]]
    /\ unsynced' = {}
    /\ UNCHANGED <<parameters, capacity, default, value, haRefs,
                   entitiesMade, prepared, redefined>>

\* saveParamsCallbackInternal and syncFromWiFiManager: the portal has copied
\* the arguments into its inputs (an argument the form lacks empties one);
\* each field that differs from the value is set.
SaveParams(form) ==
    LET inputs == Inputs
        Copied(id) == IF form[id] = Absent THEN Blank ELSE Cut[id][form[id]]
        Received(id) ==
            IF Portal[id] = "input" /\ (Copied(id) # Blank \/ form[id] = Absent)
            THEN Copied(id) ELSE form[id]
        edited == {id \in InPortal \cap Registered :
                       Received(id) \notin {Absent, value[id]}}
        refused == {id \in edited : ~Takes(id, Received(id))}
    IN  /\ portalMade
        /\ value' = [id \in Id |-> IF id \in edited
                                   THEN Stored(id, Received(id))
                                   ELSE value[id]]
        /\ shown' = [id \in Id |->
                        IF id \notin inputs THEN shown[id]
                        ELSE IF value'[id] # value[id] THEN Cut[id][value'[id]]
                        ELSE Copied(id)]
        /\ redefined' = redefined \ (edited \ refused)
        /\ unsynced' = (unsynced \ inputs) \cup refused
        /\ UNCHANGED <<parameters, capacity, default, portalRefs, haRefs,
                       portalMade, entitiesMade, prepared>>

\* The entities made, one for each parameter with a type, at the front of an
\* array as long as the parameters of the source.
MadeEntities(ids) ==
    LET typed == SelectSeq(ids, LAMBDA id : Entity[id] = "typed")
    IN  [i \in 1..Len(ids) |->
            IF i <= Len(typed) THEN typed[i] ELSE Absent]

\* createHADevices, when the connection to the broker is set up.
CreateHADevices ==
    /\ ~entitiesMade /\ prepared
    /\ entitiesMade' = TRUE
    /\ haRefs' = MadeEntities(SortedIds({id \in Id : Entity[id] # "none"}))
    /\ UNCHANGED <<parameters, capacity, default, value, portalRefs, shown,
                   portalMade, prepared, redefined, unsynced>>

-----------------------------------------------------------------------------
Next ==
    \/ \E expected \in 0..Maximum + 1, got, gotTier \in BOOLEAN :
            BeforeSetup(expected, got, gotTier)
    \/ \E id \in Id, got \in BOOLEAN : RegisterParameter(id, got)
    \/ \E id \in Id, v \in Value : SetValue(id, v)
    \/ \E pair \in Redefinitions :
            SetDefaultValue(pair[1], pair[2])
    \/ \E id \in Id, index \in 0..2 : SelectOption(id, index)
    \/ RestoreDefaults
    \/ CreateWiFiManagerParameters
    \/ \E form \in [InPortal -> Value \cup {Absent}] : SaveParams(form)
    \/ CreateHADevices

Spec == Init /\ [][Next]_vars

-----------------------------------------------------------------------------
TypeOK ==
    /\ parameters \in Seq(Id)
    /\ capacity \in 0..Maximum
    /\ default \in [Id -> Value] /\ value \in [Id -> Value]
    /\ shown \in [Id -> Value]
    /\ portalMade \in BOOLEAN /\ entitiesMade \in BOOLEAN
    /\ prepared \in BOOLEAN
    /\ redefined \subseteq Id /\ unsynced \subseteq Id

\* The array holds what it has room for, each identifier once, whatever the
\* sketch announced, however registration went on and whichever allocation
\* failed (ensureParameterCapacity).
ArrayIsSound ==
    /\ Len(parameters) <= capacity
    /\ capacity <= Maximum
    /\ \A i, j \in DOMAIN parameters :
            parameters[i] = parameters[j] => i = j

\* A growth never loses or moves a parameter: records in flash, the portal
\* and the entities are made from the array's order.
KeepsPlaces ==
    \A i \in DOMAIN parameters :
        i \in DOMAIN parameters' /\ parameters'[i] = parameters[i]

ParametersStay == [][KeepsPlaces]_vars

\* Every value the application reads passed validateValue, except one that
\* setDefaultValue put there.
ValuesAreAccepted ==
    \A id \in Registered \ redefined : value[id] \in Accepts[id]

\* A form that is sent back as the portal shows it changes no input: the
\* field holds the value, unless the last edit was refused or the default
\* was redefined since.
PortalShowsTheValue ==
    \A id \in Inputs \ unsynced : shown[id] = Cut[id][value[id]]
=============================================================================
