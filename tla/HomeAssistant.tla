--------------------------- MODULE HomeAssistant ---------------------------
(***************************************************************************)
(* DeviceFrameworkMQTT and the Home Assistant side of the parameter        *)
(* registry: one round of DeviceFrameworkMQTT::loop reconnects to a broker *)
(* that was changed, lets HAMqtt work, and takes one step of the paced     *)
(* resynchronisation of the entities.                                      *)
(*                                                                         *)
(* ArduinoHA is external.  An entity keeps the state it last published; it *)
(* publishes a state that differs from that one, or any if forced; when a  *)
(* connection is made all entities publish what they keep.                 *)
(*                                                                         *)
(* A stamp of millis() is represented by its age, up to Old; a stamp of 0, *)
(* which the code takes for none, is Old.                                  *)
(***************************************************************************)
EXTENDS Integers

CONSTANTS
    Entities,     \* number of entities
    Refs,         \* haDeviceRefCount: entities, then unused references
    Values,       \* Values[p]: what the entity p may be set to
    Servers,      \* what the broker's address may be set to
    NoServer,     \* the empty string, and no address
    Literals,     \* the servers that are given as an address, not by name
    Interval,     \* CONFIG_mqttHAResyncInterval
    Settle,       \* kMqttReconfigurationStabilizationMs
    MaxTurn,      \* bound: how long HAMqtt::loop may take
    MaxChanges,   \* bound on changes of parameters
    MaxDrops      \* bound on connections that die

Entity == 1..Entities

\* The broker's address is no entity: only the portal, the web interface and
\* the application set it.
Server == 0

Param == Entity \cup {Server}

MayBe(p) == IF p = Server THEN Servers ELSE Values[p]

Old == Interval + Settle + MaxTurn

ASSUME HomeAssistantAssumption ==
    /\ Entities \in Nat /\ Refs \in Nat /\ Entities <= Refs
    /\ NoServer \in Servers /\ Literals \subseteq Servers \ {NoServer}
    /\ \A p \in Entity : Values[p] # {}
    /\ {Interval, Settle, MaxTurn, MaxChanges, MaxDrops} \subseteq Nat

VARIABLES
    value,          \* the registry
    mqttReady, haResyncPending, haResyncNextIndex,
    lastHAResyncAt,
    mqttReconfigurationRequested,
    mqttReconfiguredAt,
    mqttBegun,
    asked,          \* the server that was configured when HAMqtt was begun
    broker,         \* the server whose address HAMqtt::begin was given
    cache,          \* the resolver: lastResolvedHostname and cachedIP
    connected,      \* HAMqtt::isConnected
    alive,          \* the connection still carries data
    entity,         \* the state each entity keeps
    shown,          \* the state Home Assistant shows
    at,             \* where DeviceFrameworkMQTT::loop is
    turn,           \* age of now in DeviceFrameworkMQTT::loop
    closed,         \* history: ticks since a reconfiguration disconnected
    changes, drops  \* history: changes and dead connections so far

registry == <<value, mqttReady, haResyncPending, haResyncNextIndex,
              lastHAResyncAt>>

client == <<mqttBegun, asked, broker, connected, alive, closed>>

reconfiguration == <<mqttReconfigurationRequested, mqttReconfiguredAt>>

view == <<entity, shown>>

bounds == <<changes, drops>>

vars == <<registry, client, cache, reconfiguration, view, at, turn, bounds>>

Age == 0..Old

AnyValue == UNION {MayBe(p) : p \in Param}

TypeOK ==
    /\ value \in [Param -> AnyValue] /\ value[Server] \in Servers
    /\ mqttReady \in BOOLEAN /\ haResyncPending \in BOOLEAN
    /\ haResyncNextIndex \in 0..Refs
    /\ lastHAResyncAt \in Age
    /\ mqttReconfigurationRequested \in BOOLEAN
    /\ mqttReconfiguredAt \in Age
    /\ mqttBegun \in BOOLEAN
    /\ asked \in Servers /\ broker \in Servers
    /\ cache \in [name: Servers, address: Servers]
    /\ connected \in BOOLEAN
    /\ alive \in BOOLEAN
    /\ entity \in [Entity -> AnyValue] /\ shown \in [Entity -> AnyValue]
    /\ at \in {"idle", "client", "resync"}
    /\ turn \in 0..MaxTurn
    /\ closed \in Age
    /\ changes \in 0..MaxChanges
    /\ drops \in 0..MaxDrops

Init ==
    /\ value \in [Param -> AnyValue] /\ \A p \in Param : value[p] \in MayBe(p)
    /\ mqttReady = FALSE /\ haResyncPending = FALSE /\ haResyncNextIndex = 0
    /\ lastHAResyncAt = Old
    /\ mqttReconfigurationRequested = FALSE /\ mqttReconfiguredAt = Old
    /\ mqttBegun = FALSE /\ asked = NoServer /\ broker = NoServer
    /\ cache = [name |-> NoServer, address |-> NoServer]
    /\ connected = FALSE /\ alive = FALSE
    /\ entity = [p \in Entity |-> CHOOSE v \in Values[p] : TRUE]
    /\ shown = entity
    /\ at = "idle" /\ turn = 0 /\ closed = Old
    /\ changes = 0 /\ drops = 0

-----------------------------------------------------------------------------
(* Publishing. *)

\* setState of an entity (external).  On a connection that has died it may or
\* may not notice.
Publish(p, v, force) ==
    IF ~force /\ entity[p] = v THEN UNCHANGED view
    ELSE IF alive
    THEN entity' = [entity EXCEPT ![p] = v] /\ shown' = [shown EXCEPT ![p] = v]
    ELSE entity' \in {entity, [entity EXCEPT ![p] = v]} /\ UNCHANGED shown

\* syncToHA; a reference without an entity is passed over.
SyncToHA(p, v, force) ==
    IF p \in Entity /\ (mqttReady \/ force) THEN Publish(p, v, force)
    ELSE UNCHANGED view

\* A variation of Notify that does not publish.
NotifyLocally(p, v) ==
    /\ mqttReconfigurationRequested' =
           (mqttReconfigurationRequested \/ p = Server)
    /\ UNCHANGED view

\* notifyValueChanged for a change that did not come from Home Assistant.
Notify(p, v) ==
    /\ mqttReconfigurationRequested' =
           (mqttReconfigurationRequested \/ p = Server)
    /\ SyncToHA(p, v, FALSE)

\* The application or the portal changes a parameter.
SetValue(p, v) ==
    /\ at = "idle"
    /\ changes < MaxChanges
    /\ changes' = changes + 1
    /\ v # value[p]
    /\ value' = [value EXCEPT ![p] = v]
    /\ Notify(p, v)
    /\ UNCHANGED <<mqttReady, haResyncPending, haResyncNextIndex,
                   lastHAResyncAt, client, cache, mqttReconfiguredAt, at, turn,
                   drops>>

-----------------------------------------------------------------------------
(* setMqttReady. *)

\* A variation of ScheduleFullHASync that goes on where it was.
ScheduleWhereItWas ==
    IF Refs = 0
    THEN UNCHANGED <<haResyncPending, haResyncNextIndex, lastHAResyncAt>>
    ELSE /\ haResyncPending' = (haResyncNextIndex < Refs)
         /\ lastHAResyncAt' = 0
         /\ UNCHANGED haResyncNextIndex

ScheduleFullHASync ==
    IF Refs = 0
    THEN UNCHANGED <<haResyncPending, haResyncNextIndex, lastHAResyncAt>>
    ELSE haResyncPending' = TRUE /\ haResyncNextIndex' = 0 /\ lastHAResyncAt' = 0

CancelPendingHASync ==
    haResyncPending' = FALSE /\ haResyncNextIndex' = 0 /\ lastHAResyncAt' = Old

OnConnected == mqttReady' = TRUE /\ ScheduleFullHASync

OnDisconnected == mqttReady' = FALSE /\ CancelPendingHASync

-----------------------------------------------------------------------------
(* DeviceFrameworkMQTT::loop, up to HAMqtt::loop. *)

\* A variation of Reconfigure that keeps no time.
ReconfigureAtOnce ==
    /\ at = "idle"
    /\ mqttReconfigurationRequested
    /\ mqttReconfigurationRequested' = FALSE
    /\ mqttBegun' = FALSE
    /\ connected' = FALSE /\ alive' = FALSE
    /\ closed' = IF mqttBegun THEN 0 ELSE closed
    /\ UNCHANGED <<registry, mqttReconfiguredAt, asked, broker, cache, view, at,
                   turn, bounds>>

\* A variation of Reconfigure that leaves HAMqtt with the old broker.
ReconnectOnly ==
    /\ at = "idle"
    /\ mqttReconfigurationRequested
    /\ mqttReconfigurationRequested' = FALSE
    /\ mqttReconfiguredAt' = 0
    /\ connected' = FALSE /\ alive' = FALSE
    /\ closed' = IF mqttBegun THEN 0 ELSE closed
    /\ UNCHANGED <<registry, mqttBegun, asked, broker, cache, view, at, turn, bounds>>

\* A broker parameter has changed: disconnect, and do nothing else this round.
\* Whether HAMqtt::disconnect calls onDisconnected is left open.
Reconfigure ==
    /\ at = "idle"
    /\ mqttReconfigurationRequested
    /\ mqttReconfigurationRequested' = FALSE
    /\ mqttReconfiguredAt' = 0
    /\ mqttBegun' = FALSE
    /\ connected' = FALSE /\ alive' = FALSE
    /\ closed' = IF mqttBegun THEN 0 ELSE closed
    /\ \/ connected /\ OnDisconnected
       \/ UNCHANGED <<mqttReady, haResyncPending, haResyncNextIndex,
                      lastHAResyncAt>>
    /\ UNCHANGED <<value, asked, broker, cache, view, at, turn, bounds>>

Settled == mqttReconfiguredAt >= Settle

\* resolveCached answers with the address of a server: a literal is one; a name
\* gets what is cached if the resolver was last asked for that name, whichever
\* server that is the address of, or is resolved (the age of the cache is left
\* open here; see NetworkServices).
ResolveCached(name, address) ==
    \/ name \in Literals /\ address = name /\ UNCHANGED cache
    \/ /\ name \notin Literals /\ cache.name = name
       /\ cache.address # NoServer /\ address = cache.address
       /\ UNCHANGED cache
    \/ /\ name \notin Literals /\ address = name
       /\ cache' = [name |-> name, address |-> name]

\* beginMqtt, once a usable connection, a server and an address are there; until
\* then the round ends here.
BeginMqtt ==
    /\ at = "idle"
    /\ ~mqttReconfigurationRequested
    /\ Settled
    /\ ~mqttBegun
    /\ value[Server] # NoServer
    /\ ResolveCached(value[Server], broker')
    /\ mqttBegun' = TRUE
    /\ asked' = value[Server]
    /\ mqttReconfiguredAt' = Old
    /\ at' = "client"
    /\ UNCHANGED <<registry, connected, alive, closed,
                   mqttReconfigurationRequested, view, turn, bounds>>

\* The name does not resolve: it is then what the resolver was last asked for, next
\* to the address that it had cached before; or it is not looked up, because the
\* responder is not there, is resolving, or was asked a moment ago.
NotResolved ==
    /\ at = "idle"
    /\ ~mqttReconfigurationRequested
    /\ Settled
    /\ ~mqttBegun
    /\ value[Server] \notin Literals \cup {NoServer}
    /\ cache' \in {cache, [cache EXCEPT !.name = value[Server]]}
    /\ mqttReconfiguredAt' = Old
    /\ UNCHANGED <<registry, client, mqttReconfigurationRequested, view, at, turn,
                   bounds>>

EnterClient ==
    /\ at = "idle"
    /\ ~mqttReconfigurationRequested
    /\ Settled
    /\ mqttBegun
    /\ mqttReconfiguredAt' = Old
    /\ at' = "client"
    /\ UNCHANGED <<registry, client, cache, mqttReconfigurationRequested, view,
                   turn, bounds>>

-----------------------------------------------------------------------------
(* HAMqtt::loop (external) and the callbacks it makes. *)

\* The entities publish what they keep, then onConnected is called.
Connect ==
    /\ at = "client"
    /\ ~connected
    /\ connected' = TRUE /\ alive' = TRUE
    /\ shown' = entity
    /\ OnConnected
    /\ at' = "resync"
    /\ UNCHANGED <<value, mqttBegun, asked, broker, cache, closed,
                   reconfiguration, entity, turn, bounds>>

\* No connection this time; the interval between attempts is HAMqtt's.
NoConnection ==
    /\ at = "client"
    /\ ~connected
    /\ at' = "idle" /\ turn' = 0
    /\ UNCHANGED <<registry, client, cache, reconfiguration, view, bounds>>

\* HAMqtt notices that the connection has died.
Disconnect ==
    /\ at = "client"
    /\ connected
    /\ ~alive
    /\ connected' = FALSE
    /\ OnDisconnected
    /\ at' = "idle" /\ turn' = 0
    /\ UNCHANGED <<value, mqttBegun, asked, broker, cache, alive, closed,
                   reconfiguration, view, bounds>>

\* Home Assistant commands a value (onHANumberCommand and its siblings): it is
\* set or rejected, and what is then in force is published in any case.
Command(p, v) ==
    /\ at = "client"
    /\ connected /\ alive
    /\ \/ UNCHANGED <<value, changes>>
       \/ /\ v # value[p]
          /\ changes < MaxChanges
          /\ changes' = changes + 1
          /\ value' = [value EXCEPT ![p] = v]
    /\ SyncToHA(p, value'[p], TRUE)
    /\ at' = "resync"
    /\ UNCHANGED <<mqttReady, haResyncPending, haResyncNextIndex,
                   lastHAResyncAt, client, cache, reconfiguration, turn, drops>>

Nothing ==
    /\ at = "client"
    /\ connected
    /\ at' = "resync"
    /\ UNCHANGED <<registry, client, cache, reconfiguration, view, turn, bounds>>

-----------------------------------------------------------------------------
(* processPendingHASync, with the time the round began. *)

\* now - lastHAResyncAt, unsigned: a stamp taken later than now is long ago.
Due ==
    \/ lastHAResyncAt = Old
    \/ lastHAResyncAt < turn
    \/ lastHAResyncAt - turn >= Interval

Resync ==
    /\ at = "resync"
    /\ mqttReady /\ haResyncPending /\ Due
    /\ LET p == haResyncNextIndex + 1
       IN  SyncToHA(p, IF p \in Entity THEN value[p] ELSE NoServer, FALSE)
    /\ haResyncNextIndex' = haResyncNextIndex + 1
    /\ lastHAResyncAt' = turn
    /\ haResyncPending' = (haResyncNextIndex' < Refs)
    /\ at' = "idle" /\ turn' = 0
    /\ UNCHANGED <<value, mqttReady, client, cache, reconfiguration, bounds>>

NoResync ==
    /\ at = "resync"
    /\ ~(mqttReady /\ haResyncPending /\ Due)
    /\ at' = "idle" /\ turn' = 0
    /\ UNCHANGED <<registry, client, cache, reconfiguration, view, bounds>>

-----------------------------------------------------------------------------
(* The world. *)

\* The network or the broker goes away without a word.
Drop ==
    /\ alive
    /\ drops < MaxDrops
    /\ drops' = drops + 1
    /\ alive' = FALSE
    /\ UNCHANGED <<registry, mqttBegun, asked, broker, cache, connected, closed,
                   reconfiguration, view, at, turn, changes>>

Older(age) == IF age < Old THEN age + 1 ELSE Old

\* Time passes between rounds, or while HAMqtt::loop is at work.
Tick ==
    /\ at = "client" => turn < MaxTurn
    /\ at # "resync"
    /\ turn' = IF at = "client" THEN turn + 1 ELSE turn
    /\ lastHAResyncAt' = Older(lastHAResyncAt)
    /\ mqttReconfiguredAt' = Older(mqttReconfiguredAt)
    /\ closed' = Older(closed)
    /\ UNCHANGED <<value, mqttReady, haResyncPending, haResyncNextIndex,
                   mqttReconfigurationRequested, mqttBegun, asked, broker, cache,
                   connected, alive, view, at, bounds>>

Round == Reconfigure \/ BeginMqtt \/ EnterClient

HALoop ==
    \/ Connect \/ NoConnection \/ Disconnect \/ Nothing
    \/ \E p \in Entity : \E v \in Values[p] : Command(p, v)

Next ==
    \/ Round \/ NotResolved \/ HALoop \/ Resync \/ NoResync \/ Drop \/ Tick
    \/ \E p \in Param : \E v \in MayBe(p) : SetValue(p, v)

\* The framework's loop keeps being called and time passes; names resolve and
\* the configured broker accepts a connection in the end, and a dead one is
\* noticed.
Spec ==
    /\ Init /\ [][Next]_vars
    /\ WF_vars(Round) /\ WF_vars(HALoop) /\ WF_vars(Resync \/ NoResync)
    /\ SF_vars(Tick) /\ SF_vars(Connect /\ broker = asked) /\ SF_vars(Disconnect)

-----------------------------------------------------------------------------
(* Properties. *)

\* On a connection that carries data Home Assistant shows the value of every
\* entity the resynchronisation has passed, whatever is changed, commanded or
\* rejected meanwhile.
ShowsWhatIsSynced ==
    connected /\ alive =>
        \A p \in Entity :
            (haResyncPending => p <= haResyncNextIndex) => shown[p] = value[p]

\* Once changes and failures cease, Home Assistant shows the device's values,
\* if HAMqtt has been given the address of the configured broker.
HomeAssistantCatchesUp ==
    [](value[Server] # NoServer) /\ <>[](mqttBegun => broker = value[Server])
        => <>[](connected /\ \A p \in Entity : shown[p] = value[p])

\* HAMqtt is never connected with other settings than the configured ones, except
\* until the next round after a change; a broker that is configured by its
\* address is the one it is connected to.
SettingsAreTaken ==
    connected /\ ~mqttReconfigurationRequested =>
        /\ asked = value[Server]
        /\ value[Server] \in Literals => broker = value[Server]

\* "Do not immediately create a replacement socket": no connection is made
\* until Settle ticks after a reconfiguration closed the last one, however
\* often the settings change in between.
SocketSettles == [][connected' /\ ~connected => closed >= Settle]_vars

\* "Honour the configured pacing interval before the first resync as well as
\* between later entries."
ResyncIsPaced ==
    [][haResyncNextIndex' = haResyncNextIndex + 1
          => lastHAResyncAt >= Interval]_vars
=============================================================================
