-------------------------- MODULE NetworkServices --------------------------
(***************************************************************************)
(* The network half of DeviceFramework::loop: the link has to be usable    *)
(* for a while before anything starts, then the mDNS responder, then MQTT, *)
(* which asks DeviceFrameworkMDNS::resolveCached for its broker's address. *)
(*                                                                         *)
(* The loop is sequential, but resolving a name blocks: meanwhile time     *)
(* passes and the link comes and goes.  The heap may be short whenever it  *)
(* is looked at.  A stamp of millis() is represented by its age, up to     *)
(* Old; a stamp of 0 is as old as the boot.                                *)
(***************************************************************************)
EXTENDS Naturals

CONSTANTS
    Addresses,      \* local addresses the device may get
    Hosts,          \* broker names, by which MQTT asks
    Literals,       \* those that are numeric endpoints
    None,
    Stabilization,  \* NetworkServicesStabilizationMs
    StartDelay,     \* NetworkServicesMqttStartDelayMs
    CacheDuration, Timeout,  \* CONFIG_dnsCacheDuration, _dnsResolutionTimeout
    Retry,          \* 5000 ms between attempts
    MaxChanges      \* bound on changes of link and broker, and on suspensions

Old == Stabilization + StartDelay + CacheDuration + Retry

Age == 0..Old

ASSUME NetworkServicesAssumption ==
    /\ Literals \subseteq Hosts
    /\ None \notin Addresses \cup Hosts
    /\ {Stabilization, StartDelay, CacheDuration, Timeout, Retry, MaxChanges}
           \subseteq Nat

\* An address a name was resolved to: for which name, on which network.
Found == [host: Hosts, on: Addresses]

NotFound == [host |-> None, on |-> None]

VARIABLES
    localIP,              \* the link: None, or usable with this address
    linkObserved, linkObservedAt, servicesInitialized, servicesInitializedAt,
    initialized,          \* the mDNS responder runs
    currentResolverIP, cachedIP, lastResolvedHostname, lastResolutionAttempt,
    isResolving,
    mqttServer,           \* the configured broker
    at,                   \* where the loop is
    answer,               \* what MQTT was last told, and when it had asked
    uptime,               \* age of the boot
    up,                   \* history: ticks since the loop saw the link down
    changes               \* history: changes so far

gate == <<linkObserved, linkObservedAt, servicesInitialized,
          servicesInitializedAt>>

cache == <<cachedIP, lastResolvedHostname, lastResolutionAttempt, isResolving>>

responder == <<initialized, currentResolverIP>>

world == <<localIP, mqttServer, uptime, changes>>

vars == <<world, gate, responder, cache, at, answer, up>>

TypeOK ==
    /\ localIP \in Addresses \cup {None}
    /\ linkObserved \in BOOLEAN /\ servicesInitialized \in BOOLEAN
    /\ {linkObservedAt, servicesInitializedAt, lastResolutionAttempt, uptime, up}
           \subseteq Age
    /\ initialized \in BOOLEAN /\ isResolving \in BOOLEAN
    /\ currentResolverIP \in Addresses \cup {None}
    /\ cachedIP \in Found \cup {NotFound}
    /\ lastResolvedHostname \in Hosts \cup {None}
    /\ mqttServer \in Hosts
    /\ at \in {"idle", "mdns", "mqtt", "resolving"}
    /\ answer \in Found \cup {NotFound}
    /\ changes \in 0..MaxChanges

Init ==
    /\ localIP = None /\ mqttServer \in Hosts
    /\ linkObserved = FALSE /\ linkObservedAt = 0
    /\ servicesInitialized = FALSE /\ servicesInitializedAt = 0
    /\ initialized = FALSE /\ currentResolverIP = None
    /\ cachedIP = NotFound /\ lastResolvedHostname = None
    /\ lastResolutionAttempt = 0 /\ isResolving = FALSE
    /\ at = "idle" /\ answer = NotFound
    /\ uptime = 0 /\ up = 0 /\ changes = 0

-----------------------------------------------------------------------------
(* DeviceFrameworkMDNS. *)

\* A variation of Forget that keeps what was resolved.
ForgetResponder ==
    /\ isResolving' = FALSE
    /\ UNCHANGED <<cachedIP, lastResolvedHostname, lastResolutionAttempt>>

Forget ==
    /\ cachedIP' = NotFound /\ lastResolvedHostname' = None
    /\ lastResolutionAttempt' = uptime
    /\ isResolving' = FALSE

OnNetworkLost ==
    IF ~initialized /\ currentResolverIP = None
    THEN UNCHANGED <<responder, cache>>
    ELSE initialized' = FALSE /\ currentResolverIP' = None /\ Forget

\* setup(): the responder starts unless the heap is short.
Setup(heapOK) ==
    /\ initialized' = heapOK
    /\ currentResolverIP' = IF heapOK THEN localIP ELSE None

OnNetworkReady(heapOK) ==
    IF initialized
    THEN IF currentResolverIP = localIP THEN UNCHANGED <<responder, cache>>
         ELSE Forget /\ Setup(heapOK)
    ELSE UNCHANGED cache /\ Setup(heapOK)

-----------------------------------------------------------------------------
(* DeviceFramework::loop. *)

\* A variation of LinkLost that does not start the services' timer over.
LinkLostUnnoticed ==
    /\ at = "idle"
    /\ localIP = None
    /\ linkObserved' = FALSE
    /\ OnNetworkLost
    /\ up' = 0
    /\ UNCHANGED <<world, linkObservedAt, servicesInitialized,
                   servicesInitializedAt, at, answer>>

LinkLost ==
    /\ at = "idle"
    /\ localIP = None
    /\ linkObserved' = FALSE /\ servicesInitialized' = FALSE
    /\ OnNetworkLost
    /\ up' = 0
    /\ UNCHANGED <<world, linkObservedAt, servicesInitializedAt, at, answer>>

LinkObserved ==
    /\ at = "idle"
    /\ localIP # None
    /\ ~linkObserved
    /\ linkObserved' = TRUE /\ linkObservedAt' = 0
    /\ UNCHANGED <<world, servicesInitialized, servicesInitializedAt, responder,
                   cache, at, answer, up>>

Stable ==
    /\ localIP # None
    /\ linkObserved
    /\ linkObservedAt >= Stabilization

NetworkReady(heapOK) ==
    /\ at = "idle"
    /\ Stable
    /\ OnNetworkReady(heapOK)
    /\ IF servicesInitialized
       THEN /\ at' = "mdns"
            /\ UNCHANGED <<servicesInitialized, servicesInitializedAt>>
       ELSE /\ servicesInitialized' = TRUE /\ servicesInitializedAt' = 0
            /\ UNCHANGED at
    /\ UNCHANGED <<world, linkObserved, linkObservedAt, answer, up>>

AfterMdns ==
    at' = IF servicesInitializedAt >= StartDelay THEN "mqtt" ELSE "idle"

\* DeviceFrameworkMDNS::loop on an ESP8266 that runs short of heap.
Suspend ==
    /\ at = "mdns"
    /\ initialized
    /\ changes < MaxChanges
    /\ changes' = changes + 1
    /\ initialized' = FALSE /\ currentResolverIP' = None
    /\ Forget
    /\ AfterMdns
    /\ UNCHANGED <<localIP, mqttServer, uptime, gate, answer, up>>

\* A variation of MdnsLoop that does not give up a resolution.
MdnsLoopForever ==
    /\ at = "mdns"
    /\ AfterMdns
    /\ UNCHANGED <<world, gate, responder, cache, answer, up>>

MdnsLoop ==
    /\ at = "mdns"
    /\ isResolving' =
           (isResolving /\ (initialized => lastResolutionAttempt < Timeout))
    /\ AfterMdns
    /\ UNCHANGED <<world, gate, responder, cachedIP, lastResolvedHostname,
                   lastResolutionAttempt, answer, up>>

-----------------------------------------------------------------------------
(* resolveCached(mqttServer). *)

\* MQTT has begun already, or is waiting itself.
NotAsked ==
    /\ at = "mqtt"
    /\ at' = "idle"
    /\ UNCHANGED <<world, gate, responder, cache, answer, up>>

ResolveLiteral ==
    /\ at = "mqtt"
    /\ mqttServer \in Literals
    /\ answer' = [host |-> mqttServer, on |-> localIP]
    /\ at' = "idle"
    /\ UNCHANGED <<world, gate, responder, cache, up>>

Asked == at = "mqtt" /\ mqttServer \notin Literals /\ initialized

Hit ==
    /\ cachedIP # NotFound
    /\ lastResolvedHostname = mqttServer
    /\ lastResolutionAttempt < CacheDuration

UseCache ==
    /\ Asked
    /\ Hit
    /\ answer' = cachedIP
    /\ at' = "idle"
    /\ UNCHANGED <<world, gate, responder, cache, up>>

StartResolution ==
    /\ Asked
    /\ ~Hit
    /\ ~isResolving
    /\ lastResolutionAttempt >= Retry
    /\ isResolving' = TRUE
    /\ lastResolutionAttempt' = 0
    /\ lastResolvedHostname' = mqttServer
    /\ at' = "resolving"
    /\ UNCHANGED <<world, gate, responder, cachedIP, answer, up>>

NoAnswer ==
    /\ at = "mqtt"
    /\ mqttServer \notin Literals
    /\ initialized => ~Hit /\ (isResolving \/ lastResolutionAttempt < Retry)
    /\ at' = "idle"
    /\ UNCHANGED <<world, gate, responder, cache, answer, up>>

\* resolve() finds an address.
Resolved ==
    /\ at = "resolving"
    /\ localIP # None
    /\ cachedIP' = [host |-> mqttServer, on |-> localIP]
    /\ isResolving' = FALSE
    /\ answer' = cachedIP'
    /\ at' = "idle"
    /\ UNCHANGED <<world, gate, responder, lastResolvedHostname,
                   lastResolutionAttempt, up>>

Unresolved ==
    /\ at = "resolving"
    /\ at' = "idle"
    /\ UNCHANGED <<world, gate, responder, cache, answer, up>>

-----------------------------------------------------------------------------
(* The world, while the loop yields. *)

Yielding == at \in {"idle", "resolving"}

\* The link comes and goes.  Joining another network takes longer than
\* resolving a name.
LinkChanges(ip) ==
    /\ Yielding
    /\ at = "resolving" => ip \in {None, currentResolverIP}
    /\ changes < MaxChanges
    /\ changes' = changes + 1
    /\ localIP' = ip /\ ip # localIP
    /\ UNCHANGED <<mqttServer, uptime, gate, responder, cache, at, answer, up>>

\* Another broker is configured: what MQTT was told is for the last one.
SetMqttServer(h) ==
    /\ at = "idle"
    /\ changes < MaxChanges
    /\ changes' = changes + 1
    /\ mqttServer' = h /\ h # mqttServer
    /\ answer' = NotFound
    /\ UNCHANGED <<localIP, uptime, gate, responder, cache, at, up>>

Older(age) == IF age < Old THEN age + 1 ELSE Old

Tick ==
    /\ Yielding
    /\ linkObservedAt' = Older(linkObservedAt)
    /\ servicesInitializedAt' = Older(servicesInitializedAt)
    /\ lastResolutionAttempt' = Older(lastResolutionAttempt)
    /\ uptime' = Older(uptime) /\ up' = Older(up)
    /\ UNCHANGED <<localIP, mqttServer, changes, linkObserved,
                   servicesInitialized, responder, cachedIP,
                   lastResolvedHostname, isResolving, at, answer>>

Round ==
    \/ LinkLost \/ LinkObserved
    \/ \E heapOK \in BOOLEAN : NetworkReady(heapOK)

Mdns == Suspend \/ MdnsLoop

Ask == ResolveLiteral \/ UseCache \/ StartResolution \/ NoAnswer

Mqtt == NotAsked \/ Ask \/ Resolved \/ Unresolved

Next ==
    \/ Round \/ Mdns \/ Mqtt \/ Tick
    \/ \E ip \in Addresses \cup {None} : LinkChanges(ip)
    \/ \E h \in Hosts : SetMqttServer(h)

\* The loop keeps being called and time passes.  The model assumes that the
\* responder finds heap again and again, and that a name that is asked for again
\* and again is resolved in the end.
Spec ==
    /\ Init /\ [][Next]_vars
    /\ WF_vars(Round \/ Mdns \/ Mqtt) /\ SF_vars(Tick)
    /\ SF_vars(NetworkReady(TRUE)) /\ SF_vars(Ask) /\ SF_vars(Resolved)

-----------------------------------------------------------------------------
(* Properties. *)

\* No address outlives the network it was found on: the cache holds addresses
\* of the network the responder was set up for, and none without a responder.
CacheIsOfThisNetwork ==
    cachedIP # NotFound => initialized /\ cachedIP.on = currentResolverIP

\* After the loop has seen the link down, MQTT does not get its turn before the
\* link has been usable for the stabilisation time and the start delay.
ServicesWait == at = "mqtt" => up >= Stabilization + StartDelay

\* A resolution that fails, is given up, or is overtaken by a lost network does
\* not block later ones.
NamesResolve ==
    <>[](localIP # None) => <>[](answer # NotFound)

\* "MQTT begins only after usable Wi-Fi and broker resolution are available":
\* the address MQTT is given was found for the broker it has to connect to.
AnswerIsForBroker == answer # NotFound => answer.host = mqttServer
=============================================================================
