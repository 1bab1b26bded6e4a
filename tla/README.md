# DeviceFramework in TLA+

DeviceFramework is a C++ library for ESP8266 and ESP32 devices: it keeps the device
configuration in emulated EEPROM, brings the device into a Wi-Fi network, connects it to
an MQTT broker and Home Assistant, serves a web interface, and recovers it by physical
resets. This directory holds a specification of its stateful parts in TLA+, model-checked
with TLC on small instances and, for the modules named below, proved with TLAPS for every
value of their constants.

Paths are relative to the repository (`src/src/...` is the library). `PROJECT.json` maps
every definition that models code to the lines it stands for.

## 1. Inventory

| Component | State | Operations | Interacts with |
|---|---|---|---|
| Configuration store (`Storage/DeviceFrameworkStorage`) | two EEPROM slots, each a header (magic, format, state byte, generation, CRC, length) and a payload; `lastLoadResult` | `load`, `save`, `saveWithDevicePassword`, `saveWithStationProfiles`, `reset` | reads and writes the registry and the shared password; called from the boot, the portal, the web API, Home Assistant commands and the profile store |
| Reset tracker (`DeviceFramework::setupRTCMemory`, `restart`, `loop`; `Storage/DeviceFrameworkRTC`) | a record of rapid boots and a restart marker, in NVS (ESP32) or RTC memory (ESP8266); its copy in RAM; `rtcCleared`; `lastRestartReason` | count at boot, mark before `ESP.restart()`, clear when the window closes | runs `clearProfiles` and `reset(Factory)` before the store has been loaded |
| Provisioning (`Provisioning/DeviceFrameworkProvisioning`) | profile ID hash, attempted and applied revision; a pending Wi-Fi candidate | `apply`, `markConnectionSucceeded` | between `load` and the save in `setup()` |
| Life cycle (`DeviceFramework`) | static flags, two network timers | `beforeSetup`, `setup`, `loop`, `reset`, `restart`, `setDevicePassword` | everything |
| Wi-Fi controller (`WiFi/`) | station profiles, candidate, portal | `setup`, `loop`, `clearProfiles`, save callbacks | WiFiManager (external), store |
| Delayed restart (`WebInterface/DeviceFrameworkWebHandlers`) | `restartPending`, `resetPending`, scope, reason, `restartAt` | `scheduleRestart`, `scheduleReset`, `loop` | request handlers, which run in another task on ESP32 |
| MQTT client (`MQTT/`) | `mqttBegun`, reconfiguration flag and time, `wasConnected` | `loop`, `beginMqtt`, `requestMqttReconfiguration` | ArduinoHA (external), mDNS, registry |
| Parameter registry (`Configuration/DeviceFrameworkParameterRegistry`) | a growing array of entries, the portal's and Home Assistant's indices into it, entities, `mqttReady`, resynchronisation cursor | registration, `setValue`, `syncToHA`, `processPendingHASync`, the portal's forms | MQTT, portal, store, application callback |
| mDNS (`MDNS/`) | responder state, resolver cache | `onNetworkReady`, `onNetworkLost`, `loop`, `resolveCached` | life cycle, MQTT |
| Admission control (`WebInterface/...AdmissionControl`) | permits for streamed responses, with generations; the table of WebSerial clients | `tryAcquire`, `release`; `admitWebSerial`, `shed`, `onWebSerialDisconnect` | web server, WebSerial |
| WebSerial (`WebInterface/...WebSerial`) | circular byte buffer, client states, flush time | `send`, `flushBuffer`, `loop`, events, `begin`, `end` | admission control, WebSocket (external) |
| Web server (`WebInterface/...Web`, `...WebHandlers`) | the server, slots for the state of status and logo responses | `setup`, `cleanup`, request handlers, `renderDecodedLogoChunk` | admission control, device status |
| Device status (`WebInterface/...DeviceStatus`) | the gathered status, its stamps, heap samples, connection losses | `loop`, `updateStatus`, `getStatus`, `renderJSONChunk` | Wi-Fi, MQTT, web server |
| Pages in the browser (`templates/WebInterfaceJS.h`) | per page: the WebSocket, timers, lines that wait | availability check, `connectWebSocket`, navigation, `processPendingLines` | WebSerial over the network, the document |
| RTC blob store (`Storage/DeviceFrameworkRtcBlob`) | one slot (ESP8266) or an entry per name (ESP32) | `write`, `read`, `clear` | the sketch |
| Time helpers (`Utils/TimeUtils`), identity and migration operations, host names | (pure) | - | every timer |
| OTA, user interface settings, logging, runtime settings | mostly text | - | - |

What is hard here:

- **Crash recovery.** Power may be cut between any two steps: inside a commit, between an
  erase and the save that follows it, between migration and its save, between counting a
  boot and acting on the count.
- **Two copies that must agree.** The EEPROM library works on a RAM buffer; flash follows
  only at a commit. A failed save leaves the buffer changed, the next one commits it.
- **Order within a boot.** The reset tracker acts before the configuration is loaded,
  the profile is applied after it and before the save.
- **Two tasks.** On ESP8266 everything is cooperative. On ESP32 the handlers of the web
  server run in the task of the asynchronous TCP library, beside the loop task, and the
  library takes no lock.
- **Timers** on a wrapping `millis()`.
- **Responses in chunks.** A response is a state machine that the server drives whenever
  the connection has room; between two chunks everything else happens.
- **Few slots.** Permits, response slots and WebSerial clients are two to four records
  each; whoever is turned away has to come back, and whoever leaves may be reported late,
  twice or never.

The hazards are listed one by one, at their lines, under `hazards` in `PROJECT.json`.

### What makes each component correct

- Store: a configured device never boots without a configuration; a save that reports
  success is what the next boot loads; runtime and flash agree between operations.
- Reset tracker: only physical resets inside the window count; a recognised gesture and a
  started factory reset are completed whatever interrupts them.
- Provisioning: a profile revision writes its values once and then the owner's edits stand;
  unverified Wi-Fi is never stored; data that could not be used is not overwritten; a
  failed load does not open the device; values are migrated once.
- Delayed restart: a promised reset is carried out, the answer has time to be delivered,
  the restart happens.
- MQTT and registry: Home Assistant shows the values the resynchronisation has passed and
  ends up showing all of them, whatever is changed or disconnects; the client is connected
  with the configured settings only, through a socket that is not made too early.
- mDNS and the gating of network services: services wait for a stable link; no address of
  an earlier network or of another host is served; a failed resolution is repeated.
- Registry: array and indices agree however registration and growth fail; a value passes
  its validator; the portal shows it; an entry never moves.
- Admission control: permits and slots are neither leaked nor freed for another holder; the
  limit holds; the records of WebSerial clients are those of the sockets.
- WebSerial: a byte is sent once and in order or counted as dropped, and bytes move on.
- Device status: a response is the document and ends; the status follows the link, as far as
  the loop gets to it.
- Serial page: one connection, never none for good, and in the end its turn.
- RTC blobs: what is read was written whole, and is the last that was; under that name, unless
  a reset has cut a write short.

## 2. Modules

| Module | Models | Extends / instances |
|---|---|---|
| `Slots` | which slot a save overwrites, its generation, which slot a load prefers | - |
| `DurableConfig` | abstract: one stored configuration, replaced as a whole or not at all | - |
| `Storage` | the two-slot store and the operations that rewrite it | `Slots`; `DurableConfig` as a refinement |
| `StorageProofs` | theorems about `Storage` | `Storage` |
| `ResetGesture` | reset tracker, `restart()`, factory recovery | - |
| `Provisioning` | load, migration, profile, save, across boots and firmware images | - |
| `ProvisioningProofs` | theorems about it | `Provisioning` |
| `WebControl` | delayed restart and reset of the web interface | - |
| `HomeAssistant` | MQTT client and the Home Assistant side of the registry | - |
| `NetworkServices` | link gating in `loop()`, mDNS responder, resolver cache | - |
| `HomeAssistantProofs`, `NetworkServicesProofs` | theorems about the two | the module they are named after |
| `CircularBuffer` | WebSerial's byte buffer, as operators on its four members | - |
| `SerialAdmission` | the table of WebSerial clients: admission, eviction, shedding | - |
| `LogPipe` | abstract: bytes are sent once and in order, or lost and counted | - |
| `WebSerial` | send, flush, loop, events, begin and end | `SerialAdmission`, `CircularBuffer`; `LogPipe` as a refinement |
| `StreamAdmission` | permits with generations; the slot tables handed out in the same way | - |
| `LogoStream` | base64 decoded in chunks, as operators on the state of a response | - |
| `WebStreams` | routing, streamed responses, set-up and shutdown | `StreamAdmission`, `LogoStream` |
| `DeviceStatus` | when the status is gathered, its document in chunks | - |
| `SerialPage` | the script of `/serial` in several tabs, and the device's slots | - |
| `SerialView` | how lines reach the document | - |
| `SerialProofs` | theorems about the log, from the buffer to the document | `WebSerial`, `SerialPage`, `SerialView` |
| `RtcBlob` | named payloads over restarts, both platforms | - |
| `WebAndResetProofs` | theorems about resets, restarts, blobs and streamed responses | `ResetGesture`, `WebControl`, `RtcBlob`, `WebStreams` |
| `TimeUtils` | differences of wrapping stamps, as operators | - |
| `RuntimeTracking` | heap samples, trend, extremes, connection losses | `TimeUtils` |
| `StatusProofs` | theorems about the two and the status | `DeviceStatus`, `RuntimeTracking` |
| `ParameterRegistry` | array, values, portal fields, entities | - |
| `ParameterRegistryProofs` | theorems about it | `ParameterRegistry` |
| `MCStorage`, `MCProvisioning`, `MCHomeAssistant`, `MCWebStreams`, `MCParameterRegistry` | instances for TLC | the module they are named after |

### Storage

A configuration is abstracted to password, station profiles and the rest (parameters), in
the order in which the payload is written. A CRC is abstracted to the bytes it is computed
over, so a slot is readable exactly when its header is valid and its body is what the
header was written for. Each access to shared memory in `saveWithDevicePassword` is a step
(`Inspect`, `WritePassword`, `WriteProfiles`, `WriteParams` or `Overflow`, `WriteHeader`,
`Commit`, `Verify`), each caller contributes the steps around it (`SetPassword`,
`SaveProfiles` with its rollback, `ParameterReset`, `FactoryReset`, `SaveParams`).

| State | Code |
|---|---|
| `ram`, `flash` | the EEPROM library's buffer, the flash behind it; index = slot |
| `rt` | registry values, `WiFiProfileStore` profiles and the shared password |
| `pc`, `frame` | where a call is, and its locals (`target`, `generation`, `crc`, the candidate password, the profiles kept for a rollback) |
| `degraded` | history: a load fell back to an older slot for want of heap and nothing was saved since |

`PowerLoss` inside a commit leaves every slot that the commit changes arbitrary: as before,
as after, or torn. A slot whose bytes the commit does not change is assumed to survive;
this is an assumption about the EEPROM library and the flash (external), which on ESP8266
rewrites the whole sector.

`Cooperative`, `CommitMayFail` and `HeapMayFail` select the environment: on ESP8266 a call
runs to its end, on ESP32 two tasks interleave.

### ResetGesture

`rtc` is the record that outlives a reset, `rtcData` its copy, `at` the place in
`beforeSetup`/`setup`/`loop`. `flash` is the configuration a boot would load and `older` the one
in the other slot. A save fills the slot that is not read (`Save`), so a reset while it commits
costs at most that slot. The erase rewrites both slots: a reset while it commits leaves each of
them as it was or unreadable, so that the next boot may find the configuration of before
(`LeaveSlots`). Both platforms are explored: a power cut empties the ESP8266's record only, NVS
accesses can fail on the ESP32 only.
`rapid` is a history variable: the external resets since a boot that outlasted the window
or that `restart()` asked for.

### Provisioning

One image out of `Images` is running; `Upload` replaces it. A value is abstracted to where
it came from (default, owner, a profile revision) and the schema it is represented in,
because the properties are about provenance. `stored` is the record in flash or what else
is found there, `at` is the place in `setup()`, `status` and `requiresSave` are the
results of `load`, `candidate` is the Wi-Fi candidate handed to the controller. Any save may
fail; `Storage` shows that one that does leaves the record whole. `WiFiReset` is the reset of
Wi-Fi only, by the API or the MQTT command: parameters and password stay.

`owner` is history: `edited` and `rotated` say that a value or a password which the owner stored
is still to be in force, `forgotten` that a parameter reset has erased the provisioning state,
and `settled` is the last profile that has had its turn in a boot and was saved with it. An
upload ends the owner's claim only if it brings a managed profile other than the settled one;
which images have been on the device in between makes no difference. A save that replaces a
record the boot could not use takes with it what the owner had stored there. `decoded` says
that the load of this boot has not met a record it could not decode: a failed migration is
reported as `Corrupt` too, but the record was decoded, and its password has to hold.

### WebControl

`http` is the place in a handler, `loop` in `DeviceFrameworkWebHandlers::loop`; each step
is one access to the five pending variables. `now` wraps at `Clock`. `Cooperative` keeps
handlers and loop apart (ESP8266) or interleaves them (ESP32).

### HomeAssistant

`DeviceFrameworkMQTT::loop` is sequential; `at` is its place: `idle` between rounds,
`client` inside `HAMqtt::loop`, `resync` before `processPendingHASync`. `turn` is the age
of its local `now`. The other variables have the code's names; a stamp is represented by
its age, saturating at `Old`. A stamp of 0, which the code reads as "none", is `Old`: that
a real stamp may be 0 once in 49 days is left out.

| State | Code |
|---|---|
| `value` | registry values; `Server` stands for the four broker parameters, which are no entities |
| `entity`, `shown` | the state an ArduinoHA entity keeps; the state Home Assistant has received |
| `connected`, `alive` | `HAMqtt::isConnected`; whether the connection still carries data |
| `asked`, `broker` | the server that was configured when `HAMqtt::begin` was called, and the server whose address it was given |
| `cache` | the resolver's `lastResolvedHostname` and `cachedIP` |
| `closed` | history: ticks since a reconfiguration disconnected |

ArduinoHA is external. Assumed of it: an entity publishes a state that differs from the one
it keeps, or any if forced; on connection all entities publish what they keep, and then
`onConnected` is called; a setter on a dead connection may or may not record the state; a
connection that has died stays dead until it is noticed. Whether `disconnect()` calls
`onDisconnected` is left open. `Refs` exceeds `Entities` because `createHADevices` counts
references before it skips parameters without an entity.

A server is configured by its address (`Literals`) or by a name. `ResolveCached` answers for a
name with the address of that server or with what is cached, and `NotResolved` writes the name
but leaves the address: the next answer for the new broker may be the old one's address, and
HAMqtt keeps it. When the cache is too old, when the responder is there and when the resolver
is asked again is `NetworkServices`' matter; here these are free choices, and names resolve
in the end.

### NetworkServices

`at` is the place in `DeviceFramework::loop`: the gate, `DeviceFrameworkMDNS::loop`, MQTT's
turn, and `resolving` inside the blocking `resolve`. An address is abstracted to the name
it was found for and the network it was found on. `answer` is what MQTT was last told, `up`
the time since the loop saw the link down. Stamps are ages, as above; a stamp reset to 0 is
as old as the boot.

The link changes between rounds and while `resolve` blocks; joining another network is
assumed to take longer than one resolution, so a resolution that began on one network does
not end on another. Low heap is a free choice each time it is looked at. The device's host
name is constant here: `onNetworkReady` would restart the responder for a new one.
`updateResolverIP` never finds a difference, because `onNetworkReady` precedes it in the
same round. Whether MQTT asks at all is left open (`NotAsked`).

### WebSerial, SerialAdmission, CircularBuffer, LogPipe

| State | Code |
|---|---|
| `records`, `activeWebSerialClients`, `limits` | the table of the admission control, its count, the configured limit and policy |
| `enabled`, `buffer` | whether `begin()` has got its WebSocket; the circular buffer, or none |
| `status` | the WebSocket server's client objects (external) |
| `accepts` | whether some client of `_clientStates` has room |
| `at`, `message` | where `send` or `loop` is, and the message in hand |
| `taken`, `sent` | history: bytes handed over, and the last byte sent |

Bytes are numbered, so the buffer shows which of them wait. The output queue of a client
is one of three loads; the heap may be short whenever it is looked at. Events of the
WebSocket server come between the steps of `send` and `loop`, but not inside one: on ESP32
they can, and nothing protects the buffer then (section 5). In `LogPipe` only closing the
pipe may lose bytes that are not counted; that is what `end()` does.

### WebStreams, StreamAdmission, LogoStream

An open response is a record of its kind, its permit and slot with their generations, and
what it has sent. `Get` is the routing with its authentication, the handlers (`HandlePage`,
`HandleAPIStatus`, `HandleWebLogo`) acquire or refuse, `Close`
is the destructor of a response, finished or abandoned. `Shutdown` and the following set-up
leave responses open, as the code does. `Generations` is how far a generation counts before
it wraps. A logo's bytes are named by the positions of the two digits they are decoded from,
so a byte that is missing, doubled or made of the wrong digits is seen. `Image` is the
reference: without any loop, the neighbouring digits of a text's complete quartets.

### DeviceStatus

The document has one field whose width may change from update to update, and one value that
only a heavy update reads. A chunk prints the whole document anew and keeps what lies behind
the bytes already sent, as `renderJSONChunk` does with its counting `Print`. `mixed` marks
a response during which the status has been gathered again.

### SerialPage and SerialView

`page[t]` has the script's variables of one tab: `desired`, `generation`, the current
socket, `fetching`, and the timers as counts of those pending and whether the script can
still clear them. `sockets[t]` has for each socket what the browser and what the device
think of it; both sides' events arrive when they like. `SerialView` counts lines and the
length of an unfinished one; `chained` are the frames `processPendingLines` asks for itself.

### RtcBlob

`store` is the record under each key: one key on an ESP8266, a key per hash of a name on
an ESP32. On the ESP8266 a reset may cut a write or a clear short after any word of the record,
in the order of its fields (`Partly`): magic, hash of the name, length, checksum, payload. The
checksum covers the payload only, so after the hash the old payload has a new name. Power loss
fills the slot with noise. `latest` and `cut` are history. Two names may share a hash.

### TimeUtils and RuntimeTracking

`Clocks` is the width of `millis()`. `RuntimeTracking` has the ring of ten heap samples with
its write position and length as the code keeps them, next to `samples`, the history of all
samples. Connections come and go between updates (`ConnectionChanges`), and `losses` counts
every one that goes; an update sees only how they are at that moment.

### ParameterRegistry

The array with its capacity tiers, where each allocation may fail and each growth copies the
entries into a new array (`Replacement`); values as members of a
set, with `Accepts` for `validateValue` and `Cut` for the length limit; `shown` is what the
portal's inputs (which WiFiManager keeps) and select pages (rendered once) hold; a form
gives an argument or none for each field. `redefined` and `unsynced` are history and mark
the two known exceptions: a default set later is not validated, and a refused edit stays in
its field.

## 3. Runs

| Run | Asks | Result |
|---|---|---|
| `store` | two-slot store, all operations, failing decodes, power cuts | all properties hold |
| `commit_failure` | the same with a failing `EEPROM.commit()` | finding |
| `reset_gesture` | gestures, recovery, both platforms, failing NVS | all properties hold |
| `provisioning` | five firmware images, any order of uploads, edits, resets | all properties hold |
| `web_control` | delayed restart, cooperative | all properties hold |
| `home_assistant` | values, commands, reconfigurations, dead connections around a paced resynchronisation | all properties hold |
| `network_services` | links that come and go, short heap, failing resolutions | all properties hold |
| `web_serial` | log output to clients that are admitted, evicted, shed, closed and forgotten | all properties hold |
| `web_streams` | pages, status and logos requested, refused, abandoned and shut down | all properties hold |
| `device_status` | status responses in chunks, gathered again meanwhile | all properties hold |
| `serial_page` | tabs that check, connect, are turned away, reconnect and navigate | all properties hold |
| `parameter_registry` | registrations up to the maximum, values from every side, the portal's forms | all properties hold |

### Properties

- `store`: `RuntimeIsDurable`, `NeverUnconfigured` and `SavedIsStored` are the promises;
  `StoreInvariant` is the inductive invariant behind them, checked here before it is
  proved; `DurableSpec` says that the slots implement `DurableConfig`.
- `reset_gesture`: `GestureIsPhysical` (a double reset takes two, a triple three external
  resets in the window), `GestureSticks` and `RecoveryCompletes` (liveness: a factory reset whose
  erase is cut between the slots is repeated by the following boots; the count is only taken
  back when it is done).
- `provisioning`: `LocalChangesSurvive` (the owner's edits and a rotated password outlive
  every revision already settled, also when it comes back after other images),
  `WiFiIsVerified`, `ValuesMatchSchema`, `StoredPasswordRules` (the stored password is in force,
  and neither a downgrade nor a failed migration opens the device), `BootKeepsRecord`.
- `web_control`: `ResetIsPreserved`, `AnswerIsDelivered`, `RestartHappens` (liveness).
- `home_assistant`: `ShowsWhatIsSynced` (Home Assistant shows the value of every entity the
  resynchronisation has passed), `SettingsAreTaken` (the client is connected with the settings
  that are configured, and to the broker if it is configured by its address), `SocketSettles`,
  `HomeAssistantCatchesUp` (liveness, if the resolver's answer was the configured broker's).
- `network_services`: `CacheIsOfThisNetwork`, `ServicesWait`, `NamesResolve` (liveness).
- `web_serial`: `PipeSpec` (the circular buffer and its flushing implement `LogPipe`),
  `RecordsMatchSockets` (no socket counts twice, none is left out, the count is that of the
  records), `SlotsAndBytesMoveOn` (liveness: a forgotten client's slot is given back, bytes
  that wait are sent or dropped).
- `web_streams`: `ResponsesHoldTheirOwn` (no slot or permit is shared and the limit holds),
  `LogosAreWhole` (chunks of any size add up to the image).
- `device_status`: `QuietBodiesAreWhole`, `ResponsesEnd` and `StatusFollowsLink` (liveness: a link
  that comes back for good is shown; one that is lost for good is shown as soon as clients keep
  asking, because the loop does not get to the status without it).
- `serial_page`: `OneConnection`, `NeverInert`, `TurnIsTaken` (liveness).
- `parameter_registry`: `ArrayIsSound` (never beyond the capacity, no identifier twice),
  `ParametersStay`, `ValuesAreAccepted`, `PortalShowsTheValue`.

Every state machine has a type invariant, `TypeOK`. Modules about which one module of
proofs speaks together name theirs, and their `Init`, `Next` and `Spec`, after themselves
(`PageTypeOK`, `ControlTypeOK`, `StreamTypeOK`). Only `store` lists it; added to the INVARIANTS
of the other configurations it holds too, and most are proved (section 4).

### Bounds, and why they are enough

- `MCStorage`: two passwords, two profile sets, three parameter sets of which one does not
  fit; generations up to 5. Three saves after the first are enough to fill both slots,
  overwrite the older one and follow a failed save by another; which slot is the target
  depends only on the order of two generations. The proofs remove these bounds for the
  properties they cover.
- `MCResetGesture`: six external resets and two failed accesses: a triple reset, a
  recovery cut during its erase, repeated and cut again.
- `MCProvisioning`: five images: two revisions of a reconcile profile, the second across
  a schema change with a migration and without a password of its own; a bootstrap profile;
  a downgrade without a profile; an image with stricter validators, no migration and a
  profile for another application. Nothing else is bounded, the model is finite.
- `MCWebControl`: a clock of 12 ticks with a delay of 3, so that a request before the wrap
  falls due after it, and three requests per boot; `MaxWait` is how late the loop may look
  at a due request, less than half the clock: the code's signed comparison needs it.
- `MCHomeAssistant`: two entities with two values each and one reference without an entity;
  a broker parameter that may be empty, an address or one of two names, with any of them to
  begin with. Two changes and one dead connection: a change of the broker and another within
  the settling time, or one of a value during the resynchronisation that follows. `MaxTurn`
  is 1: `HAMqtt::loop` takes time or does not. The proofs remove these bounds for the safety
  properties.
- `MCNetworkServices`: two networks, two broker names and a numeric broker, and three
  changes in all (link, broker, suspensions of the responder): resolve, lose or change the
  network, and resolve again. Failed resolutions are not bounded.
- `MCWebSerial`: two clients for two slots, of which a limit of one or two may be used, and
  both policies that evict (`PreserveExisting` only refuses, which both also do). Three
  cells and messages of two and four bytes: one that fits, one that never does, two that
  wrap around the end of the array. Four bytes in all fill and empty the buffer once and
  begin again; events are not bounded.
- `MCWebStreams`: two permits and three requests, so that one is refused; two generations,
  so that they wrap; three lives of the server, because it takes the second for two responses
  to share a permit and the third for both to have outlived theirs; three logos, with a line end
  and padding, cut short, and with digits behind the padding, in chunks of one or two bytes.
  Requests are symmetric: they differ in nothing but their names, and the run checks no
  liveness. `LogosArriveWhole` removes the bounds on texts and chunks.
- `MCDeviceStatus`: two readers, a document that gets longer and shorter by two, chunks of
  one or two bytes: a change may move the end of the document behind or before what has
  been sent.
- `MCSerialPage`: two tabs for one slot, two sockets per tab (an old one that is closing and
  its successor) and one dropped connection. Reloads and navigations are not bounded;
  that WebSerial is enabled or not is chosen at the start.
- `MCParameterRegistry`: an array of at most four in tiers of one, two and four, and five
  parameters that would be registered: a number with an input, a choice with a page, three of
  the sketch (interchangeable); two more are always refused. A number that is too long is cut
  to one out of range, and is what the sketch sets as default later. The announcement, and
  whether an allocation succeeds, are free.

Deadlock is checked in every run. `web_streams` and `parameter_registry` take up to two
minutes each, `store`, `web_serial` and `serial_page` about one, the others less.

### Fairness

- `ResetGesture`: `WF(BootStep)`. The processor executes the boot; nothing obliges anyone
  to press a button, to restart or to change a value, so those actions are not fair.
- `WebControl`: `WF` of the handler's steps, of the loop's steps and of the tick: both
  tasks are scheduled and time passes. Requests need not come.
- `HomeAssistant`: `WF` of the steps of the loop, in which names resolve; `SF` of the tick, which
  is not enabled inside a round, and of `Connect` and `Disconnect`: the configured broker accepts
  a connection in the end (another server whose address a name was given need not) and
  keep-alive notices a dead one. Changes and dead connections need not come.
- `NetworkServices`: `WF` of the loop, `SF` of the tick and of three assumptions about the
  environment: a responder that is started again and again finds heap, MQTT goes on asking,
  and a name that is asked for again and again is resolved.
- `WebSerial`: `WF` of the steps inside `send` and `loop`; `SF` of a turn of the loop in which
  the intervals have elapsed and of the tick: neither is enabled inside a call, and one loop
  turn among many is due. Clients owe nothing.
- `DeviceStatus`: `WF` of the chunks and the end of an open response (the server polls it),
  of the tick, and of the loop, which gets to the status only while Wi-Fi is usable
  (`DeviceFramework.cpp:254-258` returns before it): without the link nothing is promised unless
  a client asks. Requests need not come, nor need they stop.
- `SerialPage`: `WF` of each timer, of the logo's time limit, and of the events of a socket
  at the browser and at the device. `SF` of an answer that WebSerial is available: a device
  that is asked again and again, while it is enabled, is not always too busy to answer.
- `Storage`, `Provisioning` and `WebStreams` state safety only.

## 4. Proofs

Every safety invariant, action property and refinement that a run checks is also a theorem,
for every value of the constants, except the properties of the findings. A lemma per action,
or per operator that several actions share, carries each invariant.

**`StorageProofs`** assumes `Sequential`, unless said otherwise: calls do not interleave
(`Cooperative`) and a commit does not fail (`~CommitMayFail`). Without either the properties
are false, as `commit_failure` and section 5 show. Nothing is assumed about the number of
tasks, the values, or the generations.

- `TypeCorrect`: `Spec => []TypeOK`, for interleaved calls and failing commits too. With
  `HeadersNameConfigs`, on which it rests, it says that a torn slot is never decoded.
- `StoreCorrect`: `Spec => []StoreInvariant`. `SavedIsStored` is not inductive: that a
  commit stores the new record as the newest needs to know that the target was the
  spare slot, and that in turn needs that failed saves spoil in the buffer only slots that
  may be lost. `StoreInvariant` says so: headers are only made valid over complete payloads
  (`HeadersNameConfigs`), at most one call is active (`OneAtATime`), the generations of two
  readable slots differ (`NoTie`), outside a save the buffer differs from flash at most in
  slots that may be lost (`Synced`), and for each place inside a save what has been
  established so far (`Phase`).
- `SavesAreStored` and `AlwaysConfigured` follow from it.
- `RuntimeAgrees` (`[]RuntimeIsDurable`). Between calls nothing is known of the call that
  comes, so `Agreement` says for each kind of call what relates the runtime to flash at
  every place before its commit (`Agrees`): the password and the parameters still agree,
  and the profiles agree or are kept for the rollback.
- `StoreImplements` (`DurableSpec`): of the two slots, their generations and checksums and
  the torn writes nothing is left but one configuration that a save replaces as a whole or
  not at all, and that only an interrupted erase leaves open. Each access of a call maps to
  a step of `DurableConfig` or to a stutter; `JobShape` says which save it is a part of.
- `SavesAreBuffered` and `ReadBackDetectsNothing` need only `Cooperative`: they say what is left
  when a commit may fail. Success means that the buffer's current record is the one the save
  wrote (`SavedIsBuffered`), and the read-back of `writtenSlotMatches`, which reads that buffer,
  succeeds always, after a commit that failed as after any other (`ReadBackMatches`). Flash
  and buffer may then have nothing to do with each other, so `BufferInvariant` speaks of the
  buffer alone: the other slot is older than what is being written (`Older`), and the target
  holds what has been written so far.

**`ProvisioningProofs`** has no assumption but the one on images (`ProvisioningAssumption`).
`ChangesSurvive`, `CandidatesAreVerified`, `MigratedOnce`, `StoredPasswordDecides` and
`BootsKeepRecords` all come from one invariant, `Inductive`. The owner's edit is only safe
together with what stops the next boot from applying the profile again:
`SettledIsStored` and `SettledIsInForce` say that the profile the device has settled with is
the one the record, and then the runtime, remembers as attempted (`Remembers`), through
uploads of other images; `OwnerIsStored` says that what the owner changed is in the record and
that an image which brings a managed profile brings the settled one, and `OwnerIsInForce` from
which stage of a boot on the runtime has the owner's values.
`Stages` and `Passwords` say what a boot knows between its load and its save.

**`WebAndResetProofs`**

- `GestureTypes` (`[]TypeOK`) and `OnlyPhysicalGestures` (`[]GestureIsPhysical`), the second
  from `RecordInvariant`: the record never counts more than the external resets there have
  been, a marked record counts none, and the record is behind by one until `UpdateRecord`.
- `ResetIsRun` (`[]ResetIsPreserved`) and `AnswersHaveTime` (`[]AnswerIsDelivered`) assume
  `Cooperative`; section 5 shows both false without it. `ResetsAreAsked` (`[]ResetIsAsked`: a
  plain restart never turns into a reset) does not need it. `ControlInvariant`: handler
  and loop are never both under way (`OneTask`), the promise is what is scheduled, being
  written or carried out (`PromiseKept`), and `restartAt` is `Delay` after the last request
  up to a turn of the clock (`DueInTime`).
- `ResponsesAreHeld` (`[]ResponsesHoldTheirOwn`), for any permits, limits, requests, set-ups
  and widths of the generations, from `StreamsFit`. While no late release has disturbed the
  permits, `permit` is a bijection from the open responses of this life to the permits in use
  (`CurrentFit`), so the count is theirs; slots are never started again, so `SlotsFit` holds
  without that condition. The property once spoke of any two responses of the same life.
  That was true of two lives of the server only: with a third, two responses that shared a
  permit in the second are both open when nothing has been disturbed yet. It now speaks of
  the responses of the current life, and the run has three.
- `LogosArriveWhole` (`[]LogosAreWhole`), for any texts and any division into chunks.
  `Decoded` says of what has been sent, together with what is pending, that it is part of
  the image up to the place read, in its order, and of a base64 text all of that part
  (`Between`), and that this place ends a quartet or the text (`Aligned`). `Filling` is
  the step of a quartet, `OneByte` that of a byte, `ChunkKeeps` the loop over a chunk. The loop
  is a recursive function: that it exists (`LoopExists`), and that what a byte keeps the whole
  chunk keeps, follow from the least number of bytes at which it would fail (`LeastNumber`,
  from the well-foundedness of the naturals). The induction theorems of the library, which
  take the predicate as a parameter, are not needed for that.
- `BlobsAreTheLastWritten` (whatever is read was the last written whole to its place and fits;
  under another name only if a write under this one was cut short on an ESP8266) and
  `NamesAreApart` (on an ESP32 another name's entry is not touched). `PartlyKeeps` is what the
  first words of a record over another one leave.

**`HomeAssistantProofs`**: `TypeCorrect`, `SyncCorrect` (`[]ShowsWhatIsSynced`),
`SettingsInForce` (`[]SettingsAreTaken`) and `SocketsSettle` (`SocketSettles`), for any
entities, values, intervals and bounds. What Home Assistant shows is only preserved together
with `Publishes` (on a live connection the registry publishes, and each entity keeps what
Home Assistant shows: an unforced publish of an equal state may then be skipped) and `HasNext`
(a resynchronisation under way has a reference left, so the one that ends has passed every
entity); `ClientFits` ties the settings HAMqtt was begun with to the registry. `Settling` relates the stamp of a
reconfiguration to the time the socket has really been closed.

**`NetworkServicesProofs`**: `TypeCorrect`, `CacheCorrect` (`[]CacheIsOfThisNetwork`) and
`GateCorrect` (`[]ServicesWait`), for any delays. `ResponderFits` is what the cache needs:
from the gate to the end of a resolution a running responder belongs to the network the
device is in or has just lost; `GateWaits` relates the two stamps of the gate to the time
the link has been up.

**`SerialProofs`**

- `RecordsMatch` (`[]RecordsMatchSockets`), from `ClientsFit`: the table, the count and the
  sockets, through admission, eviction, shedding and late events.
- `LogIsAPipe` (`PipeSpec`) and `SerialTypes` (`[]TypeOK`), from `PipeFits`. The buffer's
  contents are, in order, bytes that have been taken and not been sent (`BytesFit`), and its
  position, count and array describe them (`Ring`), wrapped or not. Lemmas say what `Add`,
  `Consume` and `ContiguousData` do to the contents, for every size (`Copying`, `Adding`,
  `Consuming`, `Slicing`); every step is then a step of `LogPipe` or a stutter.
- `TabsHoldOneConnection`, `PagesAreNeverInert` and `PageTypes`, for any tabs and sockets,
  from `PageInvariant`: what the script's variables, timers and sockets may be together
  (`PageFits`), and why something is pending (`PageMovesOn`).
- `ViewIsSound`: the count shown is that of the document, document and buffer are bounded,
  and lines that wait have a frame coming: the last needs that `isUpdating` is true exactly
  while such a frame or a chained one is pending.

**`StatusProofs`**

- `QuietBodies` (`[]QuietBodiesAreWhole`), for any readers, widths and sizes of chunks, from
  `RepliesFit`: an undisturbed response has sent a prefix of the document as it is now.
- `DifferenceIsElapsed` (a difference of stamps is the time elapsed, across the wrap, for every
  width), `FutureStampHasElapsed` (a stamp in the future counts as elapsed), `TrackingIsSound`
  (the ring holds exactly the last samples and the trend is over them; no loss of a connection
  is counted twice, or without having happened).

**`ParameterRegistryProofs`**: `RegistryTypes`, `ArrayStaysSound` (`[]ArrayIsSound`),
`ValuesStayAccepted` (`[]ValuesAreAccepted`), `PortalStaysTrue` (`[]PortalShowsTheValue`) and
`ParametersNeverMove` (`ParametersStay`), for any identifiers, values, validators, limits and
capacities, with any allocation failing. One invariant, `IInv`, joins them: values with
validators (except a default set later), the portal's inputs with values (except a refused
edit), the portal's fields with registered entries, and `UnregisteredIsDefault`, the
strengthening that registration needs. Growth copies entries (`GrowthCopies` says that the copy
is the array, because the new one is never smaller), so that a parameter keeps its place is an
action property.

`RuntimeTracking`, `TimeUtils`, `SerialView` and `RtcBlob` are proved and have no run. Their
theorems assume a definition that types the constants (`SaneClock`, `SaneView`), where they
need one; it is not an assumption of the module. Small
instances of them were checked with TLC on the way to the proofs.

Only model-checked:

- all liveness (`GestureSticks`, `RecoveryCompletes`, `RestartHappens`,
  `HomeAssistantCatchesUp`, `NamesResolve`, `SlotsAndBytesMoveOn`, `ResponsesEnd`,
  `StatusFollowsLink`, `TurnIsTaken`): the prover has no rule for fairness;
- the behaviour of two tasks on an ESP32, where the properties are false (section 5), except
  `TypeCorrect` and `ResetsAreAsked`.

## 5. Findings

One run violates a property that the repository states; the quote is in `PROJECT.json`: a
failed `EEPROM.commit()` is reported as success, because its result is not used and the
verification reads the RAM buffer (`commit_failure`); `ReadBackDetectsNothing` proves that
this verification never fails.

The following are refuted by TLC as well. They have no run here; each is reproduced by one
change of a configuration:

| Property | Change | What TLC shows |
|---|---|---|
| `PasswordIsStored` | `MCStorage.cfg`: `Operations <- TaskOperations`, `Cooperative = FALSE`, `HeapMayFail = FALSE`, this as only INVARIANT | on ESP32 a save of the loop task stores the old password over the one just rotated by a handler |
| `ResyncIsPaced` | `MCHomeAssistant.cfg`: this as only PROPERTY | the first parameter is published in the turn that connected: the turn's `now` is older than the stamp taken on connection, and the unsigned difference passes for a long time |
| `AnswerIsForBroker` | `MCNetworkServices.cfg`: this as INVARIANT | when the name of a new broker does not resolve at first, the next attempt is given the old broker's cached address |
| `DoubleResetClearsOnlyWiFi` | `MCResetGesture.cfg`: `MaxExternal = 4`, `MaxFailures = 0`, this as PROPERTY | a double reset also replaces parameters and password by defaults: it saves before anything has been loaded (`OPERATIONS.md:69`) |
| `StatusIsWellFormed` | `MCDeviceStatus.cfg`: this as only INVARIANT | a status response is not a snapshot (`WebHandlers.cpp:364`): when the status is gathered again between two chunks and a field has changed its width, the client receives the beginning of one document and the end of another |
| `PasswordOutlivesReset` | `MCProvisioning.cfg`: this as INVARIANT | a parameter reset forgets the applied revision, so the next boot replaces the password that the reset retained (`OPERATIONS.md:66`) |
| `ResetIsPreserved` | `MCWebControl.cfg`: `Cooperative = FALSE` | on ESP32 a reset answered with success is lost if it is scheduled between the loop's look at `resetPending` and the restart |
| `AnswerIsDelivered` | `MCWebControl.cfg`: `Cooperative = FALSE`, this as only INVARIANT | on ESP32 the loop may find `restartPending` set while `restartAt` is still the old value (`WebHandlers.cpp:192-193`), and restarts before the client has its answer |

Noted while modelling:

- Registry and portal: the page of a select is rendered once, so an old form submitted
  again reverts a value changed since; a refused edit stays in its field; a form that lacks
  an input's argument empties it; an over-long default is not cut at registration but by
  the first save of the portal; `setDefaultValue` neither validates nor publishes; options
  are trimmed for the page but compared untrimmed by `validateValue`; `haDeviceRefCount`
  counts parameters without a type, so the resynchronisation spends turns on nothing.
- WebSerial: the back-off has no effect (`WebSerial.cpp:408`, `420`; `Config.cpp:28`), because a
  stamp in the future counts as elapsed; `end()` flushes one contiguous slice and loses the
  rest uncounted (`WebSerial.cpp:280-295`); on ESP32 handlers and loop share the buffer
  without a lock.
- Web server: `begin()` starts the generations of permits again, so a response that outlives
  the server may release a newer response's permit; a page response that outlives
  `cleanup()` renders from a placeholder registry that has been deleted
  (`TemplatePlaceholders.cpp:141-155`); digits behind the padding of a logo are decoded or
  not, depending on the sizes of the chunks.
- Serial page: a connection that is opened and closed within a millisecond is not taken for
  a rejection and is tried again after one second, not the ten of `WEB_UI.md:142`; an
  availability answer that arrives during a navigation can open the connection again; an
  exception of `new WebSocket` leaves the page inert; the line that announces a pause is
  discarded, because pausing takes effect first.
- RTC blobs: on an ESP8266 a reset in the middle of a write can leave another name's old payload
  under the new name, because the checksum does not cover the header (`RtcBlob.cpp:111`, `189`);
  `RtcBlob.h:19` says that such a read fails.
- Device status: connections are compared at updates, so a loss that begins and ends between
  two of them is not counted, and while Wi-Fi is down only a request updates the status.
- MQTT and others: once MQTT has begun, the broker's name is not resolved again, on another
  network neither. `HOME_ASSISTANT_MQTT.md:161` says that a rename does not rename
  initialised mDNS transports, but `onNetworkReady` restarts the responder when the host
  name differs. `Provisioning.h:25-28` still speaks of "V4 records" that retain their
  password, a rule the reconcile policy has replaced; `appliedRevision` keeps the value of an
  earlier profile ID until the new candidate connects, but no code reads it.

## 6. Not modelled, and why

- WiFiManager, ArduinoHA, the EEPROM and NVS libraries, the web server library, ArduinoOTA
  and the browser are not part of the repository: they appear as the choices their callers
  see.
- Style sheets, HTML, the fields of the status document, discovery details of entities
  (units, icons, ranges), logging and user interface settings are layout and wording.
- OTA delegates to its library; an upload is a step of `Provisioning`. Runtime settings are
  setters; those that matter appear as constants. `getRemainingTime` and `isInFuture` have no
  caller. Host names and migration operations are string work.
- The Wi-Fi portal's LED and time-outs, the service queries of mDNS, the host name (constant
  in `NetworkServices`), and the order in which `setup()` calls its parts.
- The two tasks of an ESP32 interleave in `Storage` and `WebControl` only; elsewhere a handler,
  a chunk or an event is one step between the steps of the loop.
- The wrap of the 32-bit generation of a configuration record, and a stamp that is 0 by chance:
  neither has consequences within the life of a device.
- A `String` whose copy fails for want of heap, anywhere.

## 7. What is left

1. A composition of `NetworkServices` with `HomeAssistant`: a broker whose address changes
   while its name does not.
2. `WebSerial` and `DeviceStatus` with handlers that interleave inside a step of the loop, as
   on ESP32; the result would be further findings of the kind of section 5.
3. Proofs: what two overlapping tasks of an ESP32 leave true of `Storage`, beyond its types.
