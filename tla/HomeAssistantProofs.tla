------------------------ MODULE HomeAssistantProofs ------------------------
(***************************************************************************)
(* Theorems about HomeAssistant, for any entities, values, intervals and   *)
(* numbers of changes and disconnects.                                     *)
(***************************************************************************)
EXTENDS HomeAssistant, TLAPS

(* The inductive invariant, part by part. *)

\* HAMqtt only works once it has been begun, with the settings there are until
\* a change of them has been noticed.
ClientFits ==
    /\ at = "client" \/ connected => mqttBegun
    /\ mqttBegun /\ ~mqttReconfigurationRequested =>
          /\ asked = value[Server]
          /\ value[Server] \in Literals => broker = value[Server]

\* On a live connection the registry publishes, and entities and Home Assistant
\* agree.
Publishes == connected /\ alive => mqttReady /\ entity = shown

\* A resynchronisation under way has a reference left; one that is not under way
\* on a live connection has passed them all.
HasNext == haResyncPending => haResyncNextIndex < Refs

IInv ==
    /\ TypeOK
    /\ ClientFits /\ Publishes /\ HasNext
    /\ ShowsWhatIsSynced

-----------------------------------------------------------------------------

\* What the assumption says of the bounds.
LEMMA Constants ==
    /\ Entities \in Nat /\ Refs \in Nat /\ Entities <= Refs
    /\ Interval \in Nat /\ Settle \in Nat /\ MaxTurn \in Nat
    /\ MaxChanges \in Nat /\ MaxDrops \in Nat
    /\ Old \in Nat /\ MaxTurn <= Old
    /\ NoServer \in Servers /\ NoServer \in AnyValue
    /\ Server \notin Entity /\ Entity \subseteq 1..Refs
    /\ 0 \in 0..Refs /\ 0 \in Age /\ Old \in Age /\ 0 \in 0..MaxTurn
    /\ 0..MaxTurn \subseteq Age
<1>1. /\ Entities \in Nat /\ Refs \in Nat /\ Entities <= Refs
      /\ Interval \in Nat /\ Settle \in Nat /\ MaxTurn \in Nat
      /\ MaxChanges \in Nat /\ MaxDrops \in Nat
  BY HomeAssistantAssumption
<1>2. NoServer \in MayBe(Server) /\ Server \in Param
  BY HomeAssistantAssumption DEF MayBe, Param
<1>3. NoServer \in AnyValue
  BY <1>2 DEF AnyValue
<1> QED BY <1>1, <1>3, HomeAssistantAssumption DEF Old, Age, Server, Entity

\* What a snapshot may contain is a value.
LEMMA ValuesAny == \A p \in Param : MayBe(p) \subseteq AnyValue
BY DEF AnyValue

\* An age that grows stays one.
LEMMA OlderAge == \A age \in Age : Older(age) \in Age
BY Constants DEF Older, Age

\* What publishing does to the entity that is published and to the others.
LEMMA Published ==
    ASSUME TypeOK, Publishes, NEW p \in Entity, NEW v \in AnyValue,
           NEW force \in BOOLEAN, mqttReady \/ force, SyncToHA(p, v, force)
    PROVE  /\ entity' \in [Entity -> AnyValue] /\ shown' \in [Entity -> AnyValue]
           /\ connected /\ alive =>
                  /\ entity' = shown'
                  /\ \A q \in Entity :
                         shown'[q] = IF q = p THEN v ELSE shown[q]
<1>1. Publish(p, v, force)
  BY DEF SyncToHA
<1>2. CASE ~force /\ entity[p] = v
  <2>1. UNCHANGED view
    BY <1>1, <1>2 DEF Publish
  <2> QED BY <1>2, <2>1 DEF view, TypeOK, Publishes
<1>3. CASE (force \/ entity[p] # v) /\ alive
  BY <1>1, <1>3 DEF Publish, TypeOK, Publishes
<1>4. CASE (force \/ entity[p] # v) /\ ~alive
  BY <1>1, <1>4 DEF Publish, TypeOK
<1> QED BY <1>2, <1>3, <1>4

\* While MQTT is not ready, or for a parameter without an entity, nothing is
\* published.
LEMMA Unpublished ==
    ASSUME NEW p, NEW v, p \notin Entity \/ ~mqttReady, SyncToHA(p, v, FALSE)
    PROVE  UNCHANGED view
BY DEF SyncToHA

\* The inductive invariant, initially and over a step.
LEMMA Initially == Init => IInv
<1> SUFFICES ASSUME Init PROVE IInv
  OBVIOUS
<1>1. \A p \in Entity : (CHOOSE v \in Values[p] : TRUE) \in AnyValue
  <2> SUFFICES ASSUME NEW p \in Entity
               PROVE  (CHOOSE v \in Values[p] : TRUE) \in AnyValue
    OBVIOUS
  <2>1. Values[p] # {} /\ p \in Param /\ MayBe(p) = Values[p]
    BY HomeAssistantAssumption, Constants DEF Param, MayBe
  <2> QED BY <2>1 DEF AnyValue
<1>2. entity \in [Entity -> AnyValue]
  BY <1>1 DEF Init
<1>3. changes \in 0..MaxChanges /\ drops \in 0..MaxDrops
  BY Constants DEF Init
<1>4. value[Server] \in Servers
  BY DEF Init, MayBe, Param
<1>5. cache \in [name : Servers, address : Servers] /\ NoServer \in Servers
  BY HomeAssistantAssumption DEF Init
<1>6. TypeOK
  BY <1>2, <1>3, <1>4, <1>5, Constants DEF Init, TypeOK
<1> QED BY <1>6 DEF Init, IInv, ClientFits, Publishes, HasNext,
                    ShowsWhatIsSynced

\* onConnected starts a resynchronisation at the first reference.
LEMMA Scheduled ==
    ASSUME TypeOK, HasNext, OnConnected
    PROVE  /\ mqttReady' = TRUE /\ haResyncPending' \in BOOLEAN
           /\ haResyncNextIndex' \in 0..Refs /\ lastHAResyncAt' \in Age
           /\ haResyncPending' => haResyncNextIndex' < Refs
           /\ Refs # 0 => haResyncPending' /\ haResyncNextIndex' = 0
<1>1. CASE Refs = 0
  BY <1>1 DEF OnConnected, ScheduleFullHASync, TypeOK, HasNext
<1>2. CASE Refs # 0
  BY <1>2, Constants DEF OnConnected, ScheduleFullHASync
<1> QED BY <1>1, <1>2

\* A resync that is cancelled leaves nothing to be sent.
LEMMA Cancelled ==
    ASSUME OnDisconnected
    PROVE  /\ mqttReady' = FALSE /\ haResyncPending' = FALSE
           /\ haResyncNextIndex' = 0 /\ lastHAResyncAt' = Old
BY DEF OnDisconnected, CancelPendingHASync

\* One case for each action.
LEMMA Step == IInv /\ [Next]_vars => IInv'
<1> SUFFICES ASSUME IInv, [Next]_vars PROVE IInv'
  OBVIOUS
<1> USE Constants DEF IInv
<1>1. ASSUME NEW p \in Param, NEW v \in MayBe(p), SetValue(p, v) PROVE IInv'
  <2>1. v \in AnyValue /\ value' = [value EXCEPT ![p] = v]
        /\ value' \in [Param -> AnyValue]
    BY <1>1, ValuesAny DEF SetValue, TypeOK
  <2>2. SyncToHA(p, v, FALSE)
        /\ mqttReconfigurationRequested' =
               (mqttReconfigurationRequested \/ p = Server)
    BY <1>1 DEF SetValue, Notify
  <2>3. /\ entity' \in [Entity -> AnyValue] /\ shown' \in [Entity -> AnyValue]
        /\ connected /\ alive => entity' = shown'
        /\ connected /\ alive =>
               \A q \in Entity : shown'[q] = IF q = p THEN v ELSE shown[q]
    <3>1. CASE p \in Entity /\ mqttReady
      BY <2>1, <2>2, <3>1, Published
    <3>2. CASE p \notin Entity \/ ~mqttReady
      <4>1. UNCHANGED view
        BY <2>2, <3>2, Unpublished
      <4> QED BY <3>2, <4>1 DEF view, TypeOK, Publishes
    <3> QED BY <3>1, <3>2
  <2>4. changes' \in 0..MaxChanges
    BY <1>1 DEF SetValue, TypeOK
  <2>0. value'[Server] \in Servers
    BY <1>1, <2>1 DEF TypeOK, MayBe, Param
  <2>5. TypeOK'
    BY <1>1, <2>0, <2>1, <2>2, <2>3, <2>4 DEF SetValue, TypeOK, client
  <2>6. ClientFits'
    BY <1>1, <2>1, <2>2 DEF SetValue, ClientFits, TypeOK, client, Param
  <2>7. (Publishes /\ HasNext)'
    BY <1>1, <2>3 DEF SetValue, Publishes, HasNext, client
  <2>8. ShowsWhatIsSynced'
    BY <1>1, <2>1, <2>3 DEF SetValue, ShowsWhatIsSynced, TypeOK, client, Param
  <2> QED BY <2>5, <2>6, <2>7, <2>8
<1>2. CASE Reconfigure
  <2>1. /\ mqttReady' \in BOOLEAN /\ haResyncPending' \in BOOLEAN
        /\ haResyncNextIndex' \in 0..Refs /\ lastHAResyncAt' \in Age
        /\ HasNext'
    <3>1. CASE OnDisconnected
      BY <3>1, Cancelled DEF HasNext
    <3>2. CASE UNCHANGED <<mqttReady, haResyncPending, haResyncNextIndex,
                           lastHAResyncAt>>
      BY <3>2 DEF TypeOK, HasNext
    <3> QED BY <1>2, <3>1, <3>2 DEF Reconfigure
  <2>2. closed' \in Age
    BY <1>2 DEF Reconfigure, TypeOK
  <2>3. TypeOK'
    BY <1>2, <2>1, <2>2 DEF Reconfigure, TypeOK, view, bounds
  <2>4. (ClientFits /\ Publishes /\ ShowsWhatIsSynced)'
    BY <1>2 DEF Reconfigure, ClientFits, Publishes, ShowsWhatIsSynced
  <2> QED BY <2>1, <2>3, <2>4
<1>3. CASE BeginMqtt
  <2>1. /\ value[Server] \in Servers /\ cache.address \in Servers
        /\ ResolveCached(value[Server], broker')
    BY <1>3 DEF BeginMqtt, TypeOK
  <2>2. /\ broker' \in Servers /\ cache' \in [name : Servers, address : Servers]
        /\ value[Server] \in Literals => broker' = value[Server]
    BY <2>1 DEF ResolveCached, TypeOK
  <2>3. TypeOK'
    BY <1>3, <2>1, <2>2 DEF BeginMqtt, TypeOK, registry, view, bounds
  <2>4. (ClientFits /\ Publishes /\ HasNext /\ ShowsWhatIsSynced)'
    BY <1>3, <2>2 DEF BeginMqtt, ClientFits, Publishes, HasNext,
                ShowsWhatIsSynced, registry, view
  <2> QED BY <2>3, <2>4
<1>4. CASE EnterClient
  BY <1>4 DEF EnterClient, TypeOK, ClientFits, Publishes, HasNext,
              ShowsWhatIsSynced, registry, client, view, bounds
<1>5. CASE Connect
  <2>1. /\ mqttReady' = TRUE /\ haResyncPending' \in BOOLEAN
        /\ haResyncNextIndex' \in 0..Refs /\ lastHAResyncAt' \in Age
        /\ haResyncPending' => haResyncNextIndex' < Refs
        /\ Refs # 0 => haResyncPending' /\ haResyncNextIndex' = 0
    BY <1>5, Scheduled DEF Connect
  <2>2. TypeOK'
    BY <1>5, <2>1 DEF Connect, TypeOK, reconfiguration, bounds
  <2>3. (ClientFits /\ Publishes /\ HasNext)'
    BY <1>5, <2>1 DEF Connect, ClientFits, Publishes, HasNext, reconfiguration
  <2>4. ShowsWhatIsSynced'
    BY <1>5, <2>1 DEF Connect, ShowsWhatIsSynced
  <2> QED BY <2>2, <2>3, <2>4
<1>6. CASE NoConnection \/ Nothing \/ NoResync
  <2>1. /\ UNCHANGED <<registry, client, cache, reconfiguration, view, bounds>>
        /\ turn' \in {0, turn}
        /\ at' \in {"idle", "resync"}
    BY <1>6 DEF NoConnection, Nothing, NoResync
  <2>2. TypeOK'
    BY <2>1 DEF TypeOK, registry, client, reconfiguration, view, bounds
  <2>3. (ClientFits /\ Publishes /\ HasNext /\ ShowsWhatIsSynced)'
    BY <2>1 DEF ClientFits, Publishes, HasNext, ShowsWhatIsSynced, registry,
                client, reconfiguration, view
  <2> QED BY <2>2, <2>3
<1>7. CASE Disconnect
  <2>1. /\ mqttReady' = FALSE /\ haResyncPending' = FALSE
        /\ haResyncNextIndex' = 0 /\ lastHAResyncAt' = Old
    BY <1>7, Cancelled DEF Disconnect
  <2>2. TypeOK'
    BY <1>7, <2>1 DEF Disconnect, TypeOK, reconfiguration, view, bounds
  <2>3. (ClientFits /\ Publishes /\ HasNext /\ ShowsWhatIsSynced)'
    BY <1>7, <2>1 DEF Disconnect, ClientFits, Publishes, HasNext,
                      ShowsWhatIsSynced, reconfiguration
  <2> QED BY <2>2, <2>3
<1>8. ASSUME NEW p \in Entity, NEW v \in Values[p], Command(p, v) PROVE IInv'
  <2>1. p \in Param /\ p # Server /\ v \in AnyValue
    BY ValuesAny DEF Param, MayBe
  <2>2. /\ value' \in [Param -> AnyValue] /\ changes' \in 0..MaxChanges
        /\ \A q \in Param : q # p => value'[q] = value[q]
    BY <1>8, <2>1 DEF Command, TypeOK
  <2>3. /\ entity' \in [Entity -> AnyValue] /\ shown' \in [Entity -> AnyValue]
        /\ entity' = shown'
        /\ \A q \in Entity : shown'[q] = IF q = p THEN value'[p] ELSE shown[q]
    <3>1. SyncToHA(p, value'[p], TRUE) /\ connected /\ alive
      BY <1>8 DEF Command
    <3>2. value'[p] \in AnyValue
      BY <2>1, <2>2
    <3> QED BY <3>1, <3>2, Published
  <2>4. value'[Server] = value[Server]
    BY <2>1, <2>2 DEF Param
  <2>5. TypeOK'
    BY <1>8, <2>2, <2>3, <2>4 DEF Command, TypeOK, client, reconfiguration
  <2>6. (ClientFits /\ Publishes /\ HasNext)'
    BY <1>8, <2>3, <2>4 DEF Command, ClientFits, Publishes, HasNext, client,
                            reconfiguration
  <2>7. ShowsWhatIsSynced'
    BY <1>8, <2>2, <2>3 DEF Command, ShowsWhatIsSynced, TypeOK, client, Param
  <2> QED BY <2>5, <2>6, <2>7
<1>9. CASE Resync
  <2> DEFINE p == haResyncNextIndex + 1
             v == IF p \in Entity THEN value[p] ELSE NoServer
  <2>1. /\ mqttReady /\ haResyncPending /\ SyncToHA(p, v, FALSE)
        /\ haResyncNextIndex' = p /\ p \in 1..Refs
        /\ haResyncPending' = (p < Refs)
    <3>1. /\ mqttReady /\ haResyncPending /\ SyncToHA(p, v, FALSE)
          /\ haResyncNextIndex' = p
      BY <1>9 DEF Resync
    <3>2. haResyncPending' = (p < Refs)
      BY <1>9, <3>1 DEF Resync
    <3>3. p \in 1..Refs
      BY <3>1 DEF TypeOK, HasNext
    <3> QED BY <3>1, <3>2, <3>3
  <2>2. /\ entity' \in [Entity -> AnyValue] /\ shown' \in [Entity -> AnyValue]
        /\ connected /\ alive => entity' = shown'
        /\ connected /\ alive =>
               \A q \in Entity : shown'[q] = IF q = p THEN value[q] ELSE shown[q]
    <3>1. CASE p \in Entity
      <4>1. v = value[p] /\ v \in AnyValue
        BY <3>1 DEF TypeOK, Param
      <4>2. SyncToHA(p, v, FALSE) /\ (mqttReady \/ FALSE)
        BY <2>1
      <4> HIDE DEF p, v
      <4> QED BY <3>1, <4>1, <4>2, Published
    <3>2. CASE p \notin Entity
      <4>1. UNCHANGED view
        BY <2>1, <3>2, Unpublished
      <4> QED BY <3>2, <4>1 DEF view, TypeOK, Publishes
    <3> QED BY <3>1, <3>2
  <2>3. TypeOK'
    BY <1>9, <2>1, <2>2 DEF Resync, TypeOK, client, reconfiguration, bounds
  <2>4. (ClientFits /\ Publishes /\ HasNext)'
    BY <1>9, <2>1, <2>2 DEF Resync, ClientFits, Publishes, HasNext, client,
                            reconfiguration
  <2>5. ShowsWhatIsSynced'
    <3> SUFFICES ASSUME (connected /\ alive)', NEW q \in Entity,
                        haResyncPending' => q <= haResyncNextIndex'
                 PROVE  shown'[q] = value'[q]
      BY DEF ShowsWhatIsSynced
    <3>1. connected /\ alive /\ value' = value
      BY <1>9 DEF Resync, client
    <3>2. q \in Int /\ q <= Refs /\ q <= p
      <4>1. q \in 1..Refs
        OBVIOUS
      <4>2. CASE p < Refs
        <5>1. haResyncPending'
          BY <2>1, <4>2
        <5> QED BY <2>1, <4>1, <5>1
      <4>3. CASE ~(p < Refs)
        <5>1. p = Refs
          BY <2>1, <4>3
        <5> QED BY <4>1, <5>1
      <4> QED BY <4>2, <4>3
    <3>3. CASE q = p
      BY <2>2, <3>1, <3>3
    <3>4. CASE q # p
      <4>1. q <= haResyncNextIndex
        BY <3>2, <3>4 DEF TypeOK
      <4> QED BY <2>1, <2>2, <3>1, <3>4, <4>1 DEF ShowsWhatIsSynced
    <3> QED BY <3>3, <3>4
  <2> QED BY <2>3, <2>4, <2>5
<1>10. CASE Drop
  <2>1. drops' \in 0..MaxDrops
    BY <1>10 DEF Drop, TypeOK
  <2>2. TypeOK'
    BY <1>10, <2>1 DEF Drop, TypeOK, registry, reconfiguration, view
  <2>3. (ClientFits /\ Publishes /\ HasNext /\ ShowsWhatIsSynced)'
    BY <1>10 DEF Drop, ClientFits, Publishes, HasNext, ShowsWhatIsSynced,
                 registry, reconfiguration, view
  <2> QED BY <2>2, <2>3
<1>11. CASE Tick
  <2>1. turn' \in 0..MaxTurn
    BY <1>11 DEF Tick, TypeOK
  <2>2. TypeOK'
    BY <1>11, <2>1, OlderAge DEF Tick, TypeOK, view, bounds
  <2>3. (ClientFits /\ Publishes /\ HasNext /\ ShowsWhatIsSynced)'
    BY <1>11 DEF Tick, ClientFits, Publishes, HasNext, ShowsWhatIsSynced, view
  <2> QED BY <2>2, <2>3
<1>12. CASE NotResolved
  <2>1. cache' \in [name : Servers, address : Servers]
    BY <1>12 DEF NotResolved, TypeOK
  <2>2. TypeOK'
    BY <1>12, <2>1 DEF NotResolved, TypeOK, registry, client, view, bounds
  <2>3. (ClientFits /\ Publishes /\ HasNext /\ ShowsWhatIsSynced)'
    BY <1>12 DEF NotResolved, ClientFits, Publishes, HasNext, ShowsWhatIsSynced,
                 registry, client, view
  <2> QED BY <2>2, <2>3
<1>13. CASE UNCHANGED vars
  BY <1>13 DEF vars, registry, client, reconfiguration, view, bounds, TypeOK,
               ClientFits, Publishes, HasNext, ShowsWhatIsSynced
<1> QED
  BY <1>1, <1>2, <1>3, <1>4, <1>5, <1>6, <1>7, <1>8, <1>9, <1>10, <1>11,
     <1>12, <1>13 DEF Next, Round, HALoop

-----------------------------------------------------------------------------

\* Every state of the MQTT client and the registry has its type.
THEOREM TypeCorrect == Spec => []TypeOK
<1>1. IInv => TypeOK
  BY DEF IInv
<1> QED BY Initially, Step, <1>1, PTL DEF Spec

\* On a live connection Home Assistant shows the value of every entity that
\* processPendingHASync has passed.
THEOREM SyncCorrect == Spec => []ShowsWhatIsSynced
<1>1. IInv => ShowsWhatIsSynced
  BY DEF IInv
<1> QED BY Initially, Step, <1>1, PTL DEF Spec

\* SettingsAreTaken: after the round that notices a change HAMqtt is connected
\* only with the server, the port and the credentials that are configured, and
\* to that address if the server is given by one.
THEOREM SettingsInForce == Spec => []SettingsAreTaken
<1>1. IInv => SettingsAreTaken
  BY DEF IInv, ClientFits, SettingsAreTaken
<1> QED BY Initially, Step, <1>1, PTL DEF Spec

-----------------------------------------------------------------------------
(* The settling time.                                                      *)

\* HAMqtt is started Settle ticks after its last connection was closed: the
\* stamp that is waited for is taken no earlier.
Settling ==
    /\ mqttBegun => closed >= Settle
    /\ mqttReconfiguredAt <= closed \/ closed >= Settle

\* Ages grow together.
LEMMA OlderKeepsOrder ==
    \A a, b \in Age : /\ a <= b => Older(a) <= Older(b)
                      /\ a >= Settle => Older(a) >= Settle
BY Constants DEF Older, Age

\* Settling is kept by every step, next to IInv.
LEMMA SettlingStep == IInv /\ Settling /\ [Next]_vars => Settling'
<1> SUFFICES ASSUME IInv, Settling, [Next]_vars PROVE Settling'
  OBVIOUS
<1>1. closed \in Age /\ mqttReconfiguredAt \in Age /\ Settle \in Nat /\ Old \in Nat
  BY Constants DEF IInv, TypeOK
<1>2. CASE Reconfigure
  BY <1>1, <1>2 DEF Reconfigure, Settling, Age
<1>3. CASE BeginMqtt \/ EnterClient \/ NotResolved
  BY <1>1, <1>3 DEF BeginMqtt, EnterClient, NotResolved, Settled, Settling, client, Age
<1>4. CASE Tick
  BY <1>1, <1>4, OlderKeepsOrder DEF Tick, Settling
<1>5. CASE HALoop \/ Resync \/ NoResync \/ Drop
            \/ \E p \in Param : \E v \in MayBe(p) : SetValue(p, v)
  <2>1. UNCHANGED <<mqttBegun, closed, mqttReconfiguredAt>>
    BY <1>5 DEF HALoop, Connect, NoConnection, Disconnect, Nothing, Command,
                Resync, NoResync, Drop, SetValue, client, reconfiguration
  <2> QED BY <2>1 DEF Settling
<1>6. CASE UNCHANGED vars
  BY <1>6 DEF vars, client, reconfiguration, Settling
<1> QED BY <1>2, <1>3, <1>4, <1>5, <1>6 DEF Next, Round

\* SocketSettles: "do not immediately create a replacement socket": however
\* often the settings change, a connection is made only Settle ticks after a
\* reconfiguration has closed the last one.
THEOREM SocketsSettle == Spec => SocketSettles
<1>1. Init => Settling
  BY Constants DEF Init, Settling, Old
<1>2. IInv /\ Settling /\ [Next]_vars
          => [connected' /\ ~connected => closed >= Settle]_vars
  <2> SUFFICES ASSUME IInv, Settling, Next, connected', ~connected
               PROVE  closed >= Settle
    OBVIOUS
  <2>1. Connect
    BY DEF Next, Round, Reconfigure, BeginMqtt, EnterClient, NotResolved, HALoop, NoConnection,
           Disconnect, Nothing, Command, Resync, NoResync, Drop, Tick, SetValue,
           client
  <2> QED BY <2>1 DEF Connect, IInv, ClientFits, Settling
<1> QED BY Initially, Step, SettlingStep, <1>1, <1>2, PTL DEF Spec, SocketSettles
=============================================================================
