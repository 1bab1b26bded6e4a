----------------------- MODULE NetworkServicesProofs -----------------------
(***************************************************************************)
(* Theorems about NetworkServices, for any addresses, names and times.     *)
(***************************************************************************)
EXTENDS NetworkServices, TLAPS

(* The responder and what it was set up for. *)

\* While a resolution blocks, and from the gate to it, a running responder is
\* the one of the network the device is in, or has just lost.
ResponderFits ==
    /\ at \in {"mdns", "mqtt"} => localIP # None
    /\ at \in {"mdns", "mqtt"} /\ initialized => currentResolverIP = localIP
    /\ at = "resolving" => initialized /\ localIP \in {None, currentResolverIP}

(* The stamps of the gate. *)

GateWaits ==
    /\ linkObserved => up >= linkObservedAt
    /\ servicesInitialized =>
           up >= Stabilization + servicesInitializedAt \/ up = Old
    /\ at = "mdns" => servicesInitialized

\* The inductive invariant.
IInv ==
    /\ TypeOK
    /\ ResponderFits /\ CacheIsOfThisNetwork
    /\ GateWaits /\ ServicesWait

-----------------------------------------------------------------------------

\* Times are natural numbers, and the oldest age is past both delays.
LEMMA Times ==
    /\ Stabilization \in Nat /\ StartDelay \in Nat /\ CacheDuration \in Nat
    /\ Timeout \in Nat /\ Retry \in Nat /\ MaxChanges \in Nat
    /\ Old \in Nat /\ Old >= Stabilization + StartDelay /\ 0 \in Age
<1>1. /\ Stabilization \in Nat /\ StartDelay \in Nat /\ CacheDuration \in Nat
      /\ Timeout \in Nat /\ Retry \in Nat /\ MaxChanges \in Nat
  BY NetworkServicesAssumption
<1> QED BY <1>1 DEF Old, Age

\* Older stays an age, and no age gets smaller.
LEMMA OlderAge ==
    ASSUME NEW age \in Age
    PROVE  /\ Older(age) \in Age /\ Older(age) >= age
           /\ Older(age) = age + 1 \/ (Older(age) = Old /\ age = Old)
BY Times DEF Older, Age

\* The inductive invariant, initially.
LEMMA Initially == Init => IInv
<1> SUFFICES ASSUME Init PROVE IInv
  OBVIOUS
<1>1. changes \in 0..MaxChanges
  BY Times DEF Init
<1>2. TypeOK
  BY <1>1, Times DEF Init, TypeOK
<1> QED BY <1>2, Times DEF Init, IInv, ResponderFits, CacheIsOfThisNetwork,
                           GateWaits, ServicesWait

\* Losing the network leaves no address behind.
LEMMA LossForgets ==
    ASSUME TypeOK, CacheIsOfThisNetwork, OnNetworkLost
    PROVE  /\ initialized' = FALSE /\ currentResolverIP' = None
           /\ cachedIP' = NotFound /\ isResolving' \in BOOLEAN
           /\ lastResolvedHostname' \in Hosts \cup {None}
           /\ lastResolutionAttempt' \in Age
BY DEF TypeOK, CacheIsOfThisNetwork, OnNetworkLost, Forget, responder, cache

\* A responder that is ready is set up for the present network.
LEMMA ReadyFits ==
    ASSUME TypeOK, CacheIsOfThisNetwork, NEW heapOK \in BOOLEAN,
           OnNetworkReady(heapOK), localIP # None
    PROVE  /\ initialized' \in BOOLEAN
           /\ currentResolverIP' \in Addresses \cup {None}
           /\ initialized' => currentResolverIP' = localIP
           /\ cachedIP' \in Found \cup {NotFound} /\ isResolving' \in BOOLEAN
           /\ lastResolvedHostname' \in Hosts \cup {None}
           /\ lastResolutionAttempt' \in Age
           /\ cachedIP' # NotFound =>
                  initialized' /\ cachedIP'.on = currentResolverIP'
<1>1. CASE ~initialized
  BY <1>1 DEF TypeOK, CacheIsOfThisNetwork, OnNetworkReady, Setup, cache
<1>2. CASE initialized /\ currentResolverIP = localIP
  BY <1>2 DEF TypeOK, CacheIsOfThisNetwork, OnNetworkReady, cache, responder
<1>3. CASE initialized /\ currentResolverIP # localIP
  BY <1>3 DEF TypeOK, OnNetworkReady, Setup, Forget
<1> QED BY <1>1, <1>2, <1>3 DEF TypeOK

\* ... and over every step.
LEMMA Step == IInv /\ [Next]_vars => IInv'
<1> SUFFICES ASSUME IInv, [Next]_vars PROVE IInv'
  OBVIOUS
<1> USE Times DEF IInv
<1>1. CASE LinkLost
  <2>1. /\ initialized' = FALSE /\ currentResolverIP' = None
        /\ cachedIP' = NotFound /\ isResolving' \in BOOLEAN
        /\ lastResolvedHostname' \in Hosts \cup {None}
        /\ lastResolutionAttempt' \in Age
    BY <1>1, LossForgets DEF LinkLost
  <2>2. TypeOK'
    BY <1>1, <2>1 DEF LinkLost, TypeOK, world
  <2>3. (GateWaits /\ ServicesWait /\ ResponderFits /\ CacheIsOfThisNetwork)'
    BY <1>1, <2>1 DEF LinkLost, GateWaits, ServicesWait, ResponderFits,
                      CacheIsOfThisNetwork
  <2> QED BY <2>2, <2>3
<1>2. CASE LinkObserved
  <2>1. TypeOK'
    BY <1>2 DEF LinkObserved, TypeOK, world, responder, cache, Age
  <2>2. (ResponderFits /\ CacheIsOfThisNetwork)'
    BY <1>2 DEF LinkObserved, ResponderFits, CacheIsOfThisNetwork, world,
                responder, cache
  <2>3. (GateWaits /\ ServicesWait)'
    BY <1>2 DEF LinkObserved, GateWaits, ServicesWait, TypeOK, Age
  <2> QED BY <2>1, <2>2, <2>3
<1>3. ASSUME NEW heapOK \in BOOLEAN, NetworkReady(heapOK) PROVE IInv'
  <2>1. /\ initialized' \in BOOLEAN
        /\ currentResolverIP' \in Addresses \cup {None}
        /\ initialized' => currentResolverIP' = localIP
        /\ cachedIP' \in Found \cup {NotFound} /\ isResolving' \in BOOLEAN
        /\ lastResolvedHostname' \in Hosts \cup {None}
        /\ lastResolutionAttempt' \in Age
        /\ cachedIP' # NotFound =>
               initialized' /\ cachedIP'.on = currentResolverIP'
    BY <1>3, ReadyFits DEF NetworkReady, Stable
  <2>2. /\ servicesInitializedAt' \in Age
        /\ servicesInitialized' \in BOOLEAN /\ at' \in {"idle", "mdns"}
    BY <1>3 DEF NetworkReady, TypeOK, Age
  <2>3. TypeOK'
    BY <1>3, <2>1, <2>2 DEF NetworkReady, TypeOK, world
  <2>4. (ResponderFits /\ CacheIsOfThisNetwork)'
    BY <1>3, <2>1 DEF NetworkReady, Stable, ResponderFits, CacheIsOfThisNetwork,
                      world
  <2>5. (GateWaits /\ ServicesWait)'
    BY <1>3 DEF NetworkReady, Stable, GateWaits, ServicesWait, TypeOK, Age
  <2> QED BY <2>3, <2>4, <2>5
<1>4. CASE Suspend
  <2>1. TypeOK'
    <3>1. changes' \in 0..MaxChanges /\ at' \in {"idle", "mqtt"}
      BY <1>4 DEF Suspend, AfterMdns, TypeOK
    <3> QED BY <1>4, <3>1 DEF Suspend, Forget, TypeOK, gate
  <2>2. (ResponderFits /\ CacheIsOfThisNetwork)'
    BY <1>4 DEF Suspend, Forget, AfterMdns, ResponderFits, CacheIsOfThisNetwork
  <2>3. (GateWaits /\ ServicesWait)'
    BY <1>4 DEF Suspend, AfterMdns, GateWaits, ServicesWait, TypeOK, gate, Age
  <2> QED BY <2>1, <2>2, <2>3
<1>5. CASE MdnsLoop
  <2>1. TypeOK'
    BY <1>5 DEF MdnsLoop, AfterMdns, TypeOK, gate, world, responder
  <2>2. (ResponderFits /\ CacheIsOfThisNetwork)'
    BY <1>5 DEF MdnsLoop, AfterMdns, ResponderFits, CacheIsOfThisNetwork,
                world, responder
  <2>3. (GateWaits /\ ServicesWait)'
    BY <1>5 DEF MdnsLoop, AfterMdns, GateWaits, ServicesWait, TypeOK, gate, Age
  <2> QED BY <2>1, <2>2, <2>3
<1>6. CASE NotAsked \/ ResolveLiteral \/ UseCache \/ NoAnswer \/ Unresolved
  <2>1. /\ UNCHANGED <<world, gate, responder, cache, up>> /\ at' = "idle"
        /\ answer' \in Found \cup {NotFound}
    <3>1. CASE ResolveLiteral
      <4>1. localIP \in Addresses
        BY <3>1 DEF ResolveLiteral, ResponderFits, TypeOK
      <4> QED BY <3>1, <4>1 DEF ResolveLiteral, TypeOK, Found
    <3>2. CASE UseCache
      BY <3>2 DEF UseCache, TypeOK
    <3>3. CASE NotAsked \/ NoAnswer \/ Unresolved
      BY <3>3 DEF NotAsked, NoAnswer, Unresolved, TypeOK
    <3> QED BY <1>6, <3>1, <3>2, <3>3
  <2>2. TypeOK'
    BY <2>1 DEF TypeOK, world, gate, responder, cache
  <2>3. (ResponderFits /\ CacheIsOfThisNetwork)'
    BY <2>1 DEF ResponderFits, CacheIsOfThisNetwork, world, responder, cache
  <2>4. (GateWaits /\ ServicesWait)'
    BY <2>1 DEF GateWaits, ServicesWait, gate
  <2> QED BY <2>2, <2>3, <2>4
<1>7. CASE StartResolution
  <2>1. TypeOK'
    BY <1>7 DEF StartResolution, TypeOK, world, gate, responder, Age
  <2>2. (ResponderFits /\ CacheIsOfThisNetwork)'
    BY <1>7 DEF StartResolution, Asked, ResponderFits, CacheIsOfThisNetwork,
                world, responder
  <2>3. (GateWaits /\ ServicesWait)'
    BY <1>7 DEF StartResolution, GateWaits, ServicesWait, gate
  <2> QED BY <2>1, <2>2, <2>3
<1>8. CASE Resolved
  <2>1. cachedIP' \in Found /\ cachedIP'.on = localIP /\ answer' = cachedIP'
    BY <1>8 DEF Resolved, TypeOK, Found
  <2>2. TypeOK'
    BY <1>8, <2>1 DEF Resolved, TypeOK, world, gate, responder
  <2>3. (ResponderFits /\ CacheIsOfThisNetwork)'
    BY <1>8, <2>1 DEF Resolved, ResponderFits, CacheIsOfThisNetwork, world,
                      responder
  <2>4. (GateWaits /\ ServicesWait)'
    BY <1>8 DEF Resolved, GateWaits, ServicesWait, gate
  <2> QED BY <2>2, <2>3, <2>4
<1>9. CASE Tick
  <2>1. /\ \A a \in {linkObservedAt, servicesInitializedAt,
                     lastResolutionAttempt, uptime, up} :
               a \in Age /\ Older(a) \in Age
    BY OlderAge DEF TypeOK
  <2>2. TypeOK'
    BY <1>9, <2>1 DEF Tick, TypeOK, responder
  <2>3. (ResponderFits /\ CacheIsOfThisNetwork)'
    BY <1>9 DEF Tick, ResponderFits, CacheIsOfThisNetwork, responder
  <2>4. (GateWaits /\ ServicesWait)'
    BY <1>9, <2>1 DEF Tick, Yielding, Older, Age, GateWaits, ServicesWait
  <2> QED BY <2>2, <2>3, <2>4
<1>10. ASSUME NEW ip \in Addresses \cup {None}, LinkChanges(ip) PROVE IInv'
  <2>1. TypeOK'
    BY <1>10 DEF LinkChanges, TypeOK, gate, responder, cache
  <2>2. (ResponderFits /\ CacheIsOfThisNetwork)'
    BY <1>10 DEF LinkChanges, Yielding, ResponderFits, CacheIsOfThisNetwork,
                 responder, cache
  <2>3. (GateWaits /\ ServicesWait)'
    BY <1>10 DEF LinkChanges, GateWaits, ServicesWait, gate
  <2> QED BY <2>1, <2>2, <2>3
<1>11. ASSUME NEW h \in Hosts, SetMqttServer(h) PROVE IInv'
  <2>1. TypeOK'
    BY <1>11 DEF SetMqttServer, TypeOK, gate, responder, cache
  <2>2. (ResponderFits /\ CacheIsOfThisNetwork)'
    BY <1>11 DEF SetMqttServer, ResponderFits, CacheIsOfThisNetwork, responder,
                 cache
  <2>3. (GateWaits /\ ServicesWait)'
    BY <1>11 DEF SetMqttServer, GateWaits, ServicesWait, gate
  <2> QED BY <2>1, <2>2, <2>3
<1>12. CASE UNCHANGED vars
  BY <1>12 DEF vars, world, gate, responder, cache, TypeOK, ResponderFits,
               CacheIsOfThisNetwork, GateWaits, ServicesWait
<1> QED
  BY <1>1, <1>2, <1>3, <1>4, <1>5, <1>6, <1>7, <1>8, <1>9, <1>10, <1>11, <1>12
     DEF Next, Round, Mdns, Mqtt, Ask

-----------------------------------------------------------------------------

\* Every state of DeviceFramework::loop's network half has its type.
THEOREM TypeCorrect == Spec => []TypeOK
<1>1. IInv => TypeOK
  BY DEF IInv
<1> QED BY Initially, Step, <1>1, PTL DEF Spec

\* resolveCached never holds an address found on another network than the one
\* the responder was set up for, whenever the link changes.
THEOREM CacheCorrect == Spec => []CacheIsOfThisNetwork
<1>1. IInv => CacheIsOfThisNetwork
  BY DEF IInv
<1> QED BY Initially, Step, <1>1, PTL DEF Spec

\* DeviceFramework::loop gives MQTT no turn before the link it has been watching
\* has been usable for the stabilisation time and the start delay.
THEOREM GateCorrect == Spec => []ServicesWait
<1>1. IInv => ServicesWait
  BY DEF IInv
<1> QED BY Initially, Step, <1>1, PTL DEF Spec
=============================================================================
