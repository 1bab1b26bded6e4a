---------------------------- MODULE SerialProofs ----------------------------
(***************************************************************************)
(* Theorems about the path of log output from DeviceFrameworkWebSerial     *)
(* into the browser: the clients and the buffer on the device (WebSerial), *)
(* the connections of the tabs (SerialPage) and what a tab shows           *)
(* (SerialView), for any number of clients, tabs and sockets, and any size *)
(* of buffer, message and batch.                                           *)
(***************************************************************************)
EXTENDS WebSerial, SerialPage, SerialView, FiniteSetTheorems, TLAPS

-----------------------------------------------------------------------------
(* The connections of the tabs: the inductive invariant.                   *)

Script ==
    [shown: BOOLEAN, started: BOOLEAN, leaving: BOOLEAN,
     desired: BOOLEAN, connected: BOOLEAN, socket: Socket \cup {NoSocket},
     fetching: BOOLEAN, retry: Timer, reconnect: Timer]

Connection ==
    [state: {"none", "connecting", "open", "closing"},
     server: {"new", "serving", "busy", "gone"}, own: BOOLEAN]

OneTimer == [pending |-> 1, known |-> TRUE]

\* The script of a tab p, and its sockets.  A page asks, waits to ask again, or
\* knows; while it waits to reconnect it has no socket; a live socket is its
\* current one.
PageFits(p, own) ==
    /\ p \in Script /\ own \in [Socket -> Connection]
    /\ ~p.shown => p = Elsewhere
    /\ ~p.started => ~p.desired /\ ~p.fetching /\ p.retry = NoTimer
    /\ p.desired => available
    /\ p.retry \in {NoTimer, OneTimer} /\ p.reconnect \in {NoTimer, OneTimer}
    /\ p.fetching => p.retry = NoTimer
    /\ p.reconnect # NoTimer => p.desired /\ ~p.connected /\ p.socket = NoSocket
    /\ \A s \in Socket : own[s].state \in {"connecting", "open"} =>
          p.socket = s /\ own[s].own

PageMovesOn(p, own) ==
    p.started /\ ~p.leaving =>
        IF p.desired
        THEN \/ p.socket # NoSocket
                /\ own[p.socket].state \in {"connecting", "open"}
             \/ p.reconnect # NoTimer
        ELSE p.fetching \/ p.retry # NoTimer \/ ~available

PageInvariant ==
    /\ available \in BOOLEAN /\ drops \in 0..MaxDrops
    /\ page \in [Tab -> Script] /\ sockets \in [Tab -> [Socket -> Connection]]
    /\ \A t \in Tab : /\ PageFits(page[t], sockets[t])
                      /\ PageMovesOn(page[t], sockets[t])

-----------------------------------------------------------------------------
(* Steps of one tab.                                                       *)

\* A step that leaves a tab as it should be leaves the others alone.
LEMMA TabStep ==
    ASSUME PageInvariant, NEW t \in Tab, NEW p, NEW own,
           page' = [page EXCEPT ![t] = p], sockets' = [sockets EXCEPT ![t] = own],
           UNCHANGED available, drops' \in 0..MaxDrops,
           PageFits(p, own), PageMovesOn(p, own)
    PROVE  PageInvariant'
<1>1. p \in Script /\ own \in [Socket -> Connection]
  BY DEF PageFits
<1>2. page' \in [Tab -> Script] /\ sockets' \in [Tab -> [Socket -> Connection]]
  BY <1>1 DEF PageInvariant
<1>3. ASSUME NEW u \in Tab
      PROVE  PageFits(page[u], sockets[u])' /\ PageMovesOn(page[u], sockets[u])'
  <2>1. CASE u = t
    <3>1. page'[u] = p /\ sockets'[u] = own
      BY <2>1 DEF PageInvariant
    <3> QED BY <3>1 DEF PageFits, PageMovesOn
  <2>2. CASE u # t
    <3>1. page'[u] = page[u] /\ sockets'[u] = sockets[u]
      BY <2>2 DEF PageInvariant
    <3>2. PageFits(page[u], sockets[u]) /\ PageMovesOn(page[u], sockets[u])
      BY DEF PageInvariant
    <3> QED BY <3>1, <3>2 DEF PageFits, PageMovesOn
  <2> QED BY <2>1, <2>2
<1> QED BY <1>2, <1>3 DEF PageInvariant

\* What holds of a tab.
LEMMA TabFits ==
    ASSUME PageInvariant, NEW t \in Tab
    PROVE  /\ PageFits(page[t], sockets[t]) /\ PageMovesOn(page[t], sockets[t])
           /\ available \in BOOLEAN /\ drops \in 0..MaxDrops
           /\ page = [page EXCEPT ![t] = page[t]]
           /\ sockets = [sockets EXCEPT ![t] = sockets[t]]
BY DEF PageInvariant

\* Timers are set when there is none, and cleared when there is one.
LEMMA Timers01 ==
    /\ NoTimer \in Timer /\ OneTimer \in Timer /\ NoTimer # OneTimer
    /\ SetTimeout(NoTimer) = OneTimer /\ Fired(OneTimer) = NoTimer
    /\ ClearTimeout(NoTimer) = NoTimer /\ ClearTimeout(OneTimer) = NoTimer
    /\ NoTimer.pending = 0 /\ OneTimer.pending = 1
<1>1. /\ NoTimer.pending = 0 /\ OneTimer.pending = 1
      /\ NoTimer.known = FALSE /\ OneTimer.known = TRUE
  BY DEF NoTimer, OneTimer
<1>2. NoTimer \in Timer /\ OneTimer \in Timer /\ NoTimer # OneTimer
  BY <1>1 DEF NoTimer, OneTimer, Timer
<1>3. SetTimeout(NoTimer) = OneTimer
  BY <1>1 DEF SetTimeout, OneTimer
<1>4. Fired(OneTimer) = NoTimer
  <2>1. (OneTimer.known /\ OneTimer.pending > 1) = FALSE
    BY <1>1
  <2>2. OneTimer.pending - 1 = 0
    BY <1>1
  <2> QED BY <2>1, <2>2, Zenon DEF Fired, NoTimer
<1>5. ClearTimeout(NoTimer) = NoTimer /\ ClearTimeout(OneTimer) = NoTimer
  <2>1. OneTimer.pending - 1 = 0
    BY <1>1
  <2> QED BY <1>1, <2>1, Zenon DEF ClearTimeout, NoTimer
<1> QED BY <1>1, <1>2, <1>3, <1>4, <1>5

\* A page that is opened, or left.
LEMMA OpenAndHide ==
    ASSUME PageInvariant, NEW t \in Tab, OpenPage(t) \/ PageHide(t)
    PROVE  PageInvariant'
<1> USE Timers01
<1>1. Elsewhere \in Script /\ Elsewhere.socket = NoSocket
  BY DEF Elsewhere, Script
<1>2. CASE OpenPage(t)
  <2> DEFINE p == [Elsewhere EXCEPT !.shown = TRUE]
  <2>1. page' = [page EXCEPT ![t] = p] /\ UNCHANGED <<available, sockets, drops>>
    BY <1>2 DEF OpenPage, Update
  <2>2. page[t] = Elsewhere
    BY <1>2, TabFits DEF OpenPage, PageFits
  <2>3. /\ p \in Script /\ p.shown /\ ~p.desired /\ ~p.fetching
        /\ p.retry = NoTimer /\ p.reconnect = NoTimer
    BY DEF Elsewhere, Script
  <2>4. /\ sockets[t] \in [Socket -> Connection]
        /\ \A s \in Socket : ~Live(t, s)
    BY <1>1, <2>2, TabFits DEF PageFits, Live, Socket, NoSocket
  <2>5. PageFits(p, sockets[t])
    BY <2>3, <2>4 DEF PageFits, Live
  <2>6. PageMovesOn(p, sockets[t])
    BY DEF PageMovesOn, Elsewhere
  <2> HIDE DEF p
  <2> QED BY <2>1, <2>5, <2>6, TabFits, TabStep
<1>3. CASE PageHide(t)
  <2> DEFINE own == [s \in Socket |->
                       IF sockets[t][s].state = "none" THEN sockets[t][s]
                       ELSE [sockets[t][s] EXCEPT !.state = "closing",
                                                  !.own = FALSE]]
  <2>1. page' = [page EXCEPT ![t] = Elsewhere] /\ UNCHANGED <<available, drops>>
    BY <1>3 DEF PageHide, Update
  <2>2. sockets' = [sockets EXCEPT ![t] = own]
    BY <1>3 DEF PageHide
  <2>3. /\ own \in [Socket -> Connection]
        /\ \A s \in Socket : own[s].state \notin {"connecting", "open"}
    <3>1. sockets[t] \in [Socket -> Connection]
      BY TabFits DEF PageFits
    <3> QED BY <3>1 DEF Connection
  <2>4. PageFits(Elsewhere, own)
    BY <1>1, <2>3 DEF PageFits, Elsewhere
  <2>5. PageMovesOn(Elsewhere, own)
    BY DEF PageMovesOn, Elsewhere
  <2> HIDE DEF own
  <2> QED BY <2>1, <2>2, <2>4, <2>5, TabFits, TabStep
<1> QED BY <1>2, <1>3

\* The page asks, is put off and asks again.
LEMMA Asking ==
    ASSUME PageInvariant, NEW t \in Tab,
           LogoSettles(t) \/ Deferred(t) \/ Retry(t)
    PROVE  PageInvariant'
<1> USE Timers01
<1>1. PageFits(page[t], sockets[t]) /\ PageMovesOn(page[t], sockets[t])
  BY TabFits
<1>2. page[t] \in Script
  BY <1>1 DEF PageFits
<1>3. CASE LogoSettles(t)
  <2> DEFINE p == [page[t] EXCEPT !.started = TRUE, !.fetching = TRUE]
  <2>1. page' = [page EXCEPT ![t] = p] /\ UNCHANGED <<available, sockets, drops>>
    BY <1>3 DEF LogoSettles, Update
  <2>2. PageFits(p, sockets[t]) /\ PageMovesOn(p, sockets[t])
    BY <1>1, <1>2, <1>3 DEF LogoSettles, PageFits, PageMovesOn, Script
  <2> HIDE DEF p
  <2> QED BY <2>1, <2>2, TabFits, TabStep
<1>4. CASE Deferred(t)
  <2> DEFINE p == [page[t] EXCEPT !.fetching = FALSE, !.retry = SetTimeout(@)]
  <2>1. page' = [page EXCEPT ![t] = p] /\ UNCHANGED <<available, sockets, drops>>
    BY <1>4 DEF Deferred, Update
  <2>2. page[t].fetching /\ page[t].retry = NoTimer /\ page[t].started
    BY <1>1, <1>4 DEF Deferred, PageFits
  <2>3. p = [page[t] EXCEPT !.fetching = FALSE, !.retry = OneTimer]
    BY <1>2, <2>2 DEF Script
  <2>4. /\ p \in Script /\ p.retry = OneTimer /\ p.fetching = FALSE
        /\ p.shown = page[t].shown /\ p.started = page[t].started
        /\ p.leaving = page[t].leaving /\ p.desired = page[t].desired
        /\ p.connected = page[t].connected /\ p.socket = page[t].socket
        /\ p.reconnect = page[t].reconnect
    BY <1>2, <2>3 DEF Script
  <2> HIDE DEF p
  <2>5. page[t].shown
    BY <1>1, <2>2 DEF PageFits, Elsewhere
  <2>6. PageFits(p, sockets[t]) /\ PageMovesOn(p, sockets[t])
    BY <1>1, <2>2, <2>4, <2>5 DEF PageFits, PageMovesOn
  <2> QED BY <2>1, <2>6, TabFits, TabStep
<1>5. CASE Retry(t)
  <2> DEFINE p == [page[t] EXCEPT !.retry = Fired(@), !.fetching = TRUE]
  <2>1. page' = [page EXCEPT ![t] = p] /\ UNCHANGED <<available, sockets, drops>>
    BY <1>5 DEF Retry, Update
  <2>2. page[t].retry = OneTimer /\ page[t].started
    BY <1>1, <1>5 DEF Retry, PageFits
  <2>3. /\ p \in Script /\ p.retry = NoTimer /\ p.fetching = TRUE
        /\ p.shown = page[t].shown /\ p.started = page[t].started
        /\ p.leaving = page[t].leaving /\ p.desired = page[t].desired
        /\ p.connected = page[t].connected /\ p.socket = page[t].socket
        /\ p.reconnect = page[t].reconnect
    BY <1>2, <2>2 DEF Script
  <2> HIDE DEF p
  <2>4. page[t].shown
    BY <1>1, <2>2 DEF PageFits, Elsewhere
  <2>5. PageFits(p, sockets[t]) /\ PageMovesOn(p, sockets[t])
    BY <1>1, <2>2, <2>3, <2>4 DEF PageFits, PageMovesOn
  <2> QED BY <2>1, <2>5, TabFits, TabStep
<1> QED BY <1>3, <1>4, <1>5

\* A page that wants a connection has one live socket afterwards.
LEMMA Initializing ==
    ASSUME PageInvariant, NEW t \in Tab, NEW p \in Script,
           InitializeWebSerial(t, p), UNCHANGED <<available, drops>>,
           p.shown, p.started, p.desired, available,
           p.retry \in {NoTimer, OneTimer}, p.fetching => p.retry = NoTimer,
           p.reconnect = NoTimer, p.socket = page[t].socket
    PROVE  PageInvariant'
<1>1. /\ sockets[t] \in [Socket -> Connection]
      /\ \A s \in Socket : sockets[t][s].state \in {"connecting", "open"} =>
            page[t].socket = s /\ sockets[t][s].own
  BY TabFits DEF PageFits
<1>2. CASE HasLiveSocket(t)
  <2>1. page' = [page EXCEPT ![t] = p] /\ UNCHANGED sockets
    BY <1>2 DEF InitializeWebSerial, Update
  <2>2. PageFits(p, sockets[t])
    BY <1>1, Timers01 DEF PageFits
  <2>3. PageMovesOn(p, sockets[t])
    BY <1>2 DEF PageMovesOn, HasLiveSocket, Live
  <2> QED BY <2>1, <2>2, <2>3, TabFits, TabStep
<1>3. CASE ~HasLiveSocket(t)
  <2>1. PICK s \in Socket :
           /\ page' = [page EXCEPT ![t] = [p EXCEPT !.socket = s]]
           /\ sockets' = [sockets EXCEPT ![t][s] =
                  [state |-> "connecting", server |-> "new", own |-> TRUE]]
    BY <1>3 DEF InitializeWebSerial, Update
  <2> DEFINE q == [p EXCEPT !.socket = s]
             fresh == [state |-> "connecting", server |-> "new", own |-> TRUE]
             own == [sockets[t] EXCEPT ![s] = fresh]
  <2>2. /\ q \in Script /\ q.socket = s /\ q.shown /\ q.started /\ q.desired
        /\ q.retry = p.retry /\ q.fetching = p.fetching
        /\ q.reconnect = NoTimer /\ s # NoSocket
    BY DEF Script, Socket, NoSocket
  <2>3. fresh \in Connection /\ fresh.state = "connecting" /\ fresh.own
    BY DEF Connection
  <2> HIDE DEF fresh
  <2>4. /\ own \in [Socket -> Connection] /\ own[s] = fresh
        /\ \A r \in Socket : r # s => own[r] = sockets[t][r]
    BY <1>1, <2>3
  <2>5. \A r \in Socket : sockets[t][r].state \notin {"connecting", "open"}
    BY <1>1, <1>3 DEF HasLiveSocket, Live, Socket, NoSocket
  <2>6. sockets' = [sockets EXCEPT ![t] = own]
    BY <2>1 DEF fresh
  <2> HIDE DEF q, own
  <2>7. PageFits(q, own)
    BY <2>2, <2>3, <2>4, <2>5, Timers01 DEF PageFits
  <2>8. PageMovesOn(q, own)
    BY <2>2, <2>3, <2>4 DEF PageMovesOn
  <2>9. page' = [page EXCEPT ![t] = q]
    BY <2>1 DEF q
  <2> QED BY <2>6, <2>7, <2>8, <2>9, TabFits, TabStep
<1> QED BY <1>2, <1>3

\* The answer whether WebSerial is available.
LEMMA Answered ==
    ASSUME PageInvariant, NEW t \in Tab, Available(t) PROVE PageInvariant'
<1> DEFINE p == [page[t] EXCEPT !.fetching = FALSE, !.desired = available]
<1>1. PageFits(page[t], sockets[t]) /\ PageMovesOn(page[t], sockets[t])
  BY TabFits
<1>2. /\ page[t].fetching /\ page[t].retry = NoTimer /\ page[t].started
      /\ page[t].shown
  BY <1>1 DEF Available, PageFits, Elsewhere
<1>3. available \in BOOLEAN /\ page[t] \in Script
  BY <1>1 DEF PageInvariant, PageFits
<1>4. /\ p \in Script /\ p.desired = available /\ p.fetching = FALSE
      /\ p.shown = page[t].shown /\ p.started = page[t].started
      /\ p.leaving = page[t].leaving /\ p.retry = page[t].retry
      /\ p.connected = page[t].connected /\ p.socket = page[t].socket
      /\ p.reconnect = page[t].reconnect
  BY <1>3 DEF Script
<1>5. CASE page[t].desired = available
  <2>1. page' = [page EXCEPT ![t] = p] /\ UNCHANGED <<available, sockets, drops>>
    BY <1>5 DEF Available, Update
  <2> HIDE DEF p
  <2>2. PageFits(p, sockets[t]) /\ PageMovesOn(p, sockets[t])
    BY <1>1, <1>2, <1>4, <1>5 DEF PageFits, PageMovesOn
  <2> QED BY <2>1, <2>2, TabFits, TabStep
<1>6. CASE page[t].desired # available
  <2>1. InitializeWebSerial(t, p) /\ UNCHANGED <<available, drops>>
    BY <1>6 DEF Available
  <2>2. available /\ ~page[t].desired
    BY <1>1, <1>3, <1>6 DEF PageFits, Script
  <2>3. page[t].reconnect = NoTimer
    BY <1>1, <2>2 DEF PageFits
  <2> HIDE DEF p
  <2> QED BY <1>2, <1>4, <2>1, <2>2, <2>3, Initializing
<1> QED BY <1>5, <1>6

\* The timer for a reconnection.
LEMMA Reconnecting ==
    ASSUME PageInvariant, NEW t \in Tab, Reconnect(t) PROVE PageInvariant'
<1> DEFINE p == [page[t] EXCEPT !.reconnect = Fired(@)]
<1>1. PageFits(page[t], sockets[t])
  BY TabFits
<1>2. page[t].reconnect = OneTimer
  BY <1>1, Timers01 DEF Reconnect, PageFits
<1>3. /\ page[t] \in Script /\ page[t].desired /\ ~page[t].connected
      /\ page[t].started /\ page[t].shown /\ available
      /\ page[t].retry \in {NoTimer, OneTimer}
      /\ page[t].fetching => page[t].retry = NoTimer
  BY <1>1, <1>2, Timers01 DEF PageFits, Elsewhere
<1>4. /\ p \in Script /\ p.reconnect = NoTimer /\ p.fetching = page[t].fetching
      /\ p.shown = page[t].shown /\ p.started = page[t].started
      /\ p.desired = page[t].desired /\ p.retry = page[t].retry
      /\ p.connected = page[t].connected /\ p.socket = page[t].socket
  BY <1>2, <1>3, Timers01 DEF Script
<1>5. InitializeWebSerial(t, p) /\ UNCHANGED <<available, drops>>
  BY <1>3, <1>4 DEF Reconnect
<1> HIDE DEF p
<1> QED BY <1>3, <1>4, <1>5, Initializing

\* What the device does to a connection, the page has yet to hear of.
LEMMA DeviceSide ==
    ASSUME PageInvariant, NEW t \in Tab, NEW s \in Socket,
           Answer(t, s) \/ Drop(t, s) \/ Notice(t, s)
    PROVE  PageInvariant'
<1>1. PICK end \in {"serving", "busy", "gone"} :
         sockets' = [sockets EXCEPT ![t][s].server = end]
  BY DEF Answer, Drop, Notice
<1> DEFINE own == [sockets[t] EXCEPT ![s].server = end]
<1>2. PageFits(page[t], sockets[t]) /\ PageMovesOn(page[t], sockets[t])
  BY TabFits
<1>3. sockets[t] \in [Socket -> Connection]
  BY <1>2 DEF PageFits
<1>4. /\ own \in [Socket -> Connection]
      /\ \A r \in Socket : /\ own[r].state = sockets[t][r].state
                           /\ own[r].own = sockets[t][r].own
  BY <1>3 DEF Connection
<1>5. sockets' = [sockets EXCEPT ![t] = own]
  BY <1>1
<1>6. UNCHANGED <<available, page>> /\ drops' \in 0..MaxDrops
  BY SerialPageAssumption DEF Answer, Drop, Notice, PageInvariant
<1> HIDE DEF own
<1>7. PageFits(page[t], own)
  BY <1>2, <1>4 DEF PageFits
<1>8. PageMovesOn(page[t], own)
  BY <1>2, <1>4 DEF PageFits, PageMovesOn, Script
<1> QED BY <1>5, <1>6, <1>7, <1>8, TabFits, TabStep

\* onopen: a socket that is no longer wanted is closed at once.
LEMMA Opening ==
    ASSUME PageInvariant, NEW t \in Tab, NEW s \in Socket, Opened(t, s)
    PROVE  PageInvariant'
<1>1. PageFits(page[t], sockets[t]) /\ PageMovesOn(page[t], sockets[t])
  BY TabFits
<1>2. /\ page[t] \in Script /\ sockets[t] \in [Socket -> Connection]
      /\ page[t].socket = s /\ s # NoSocket /\ sockets[t][s].own
      /\ page[t].reconnect = NoTimer /\ page[t].shown
  BY <1>1 DEF Opened, PageFits, Socket, NoSocket, Elsewhere
<1>3. CASE page[t].desired
  <2> DEFINE p == [page[t] EXCEPT !.connected = TRUE]
             own == [sockets[t] EXCEPT ![s].state = "open"]
  <2>1. /\ page' = [page EXCEPT ![t] = p] /\ UNCHANGED <<available, drops>>
        /\ sockets' = [sockets EXCEPT ![t] = own]
    BY <1>2, <1>3 DEF Opened, Update
  <2>2. /\ p \in Script /\ p.retry = page[t].retry
        /\ p.shown = page[t].shown /\ p.started = page[t].started
        /\ p.leaving = page[t].leaving /\ p.desired = page[t].desired
        /\ p.fetching = page[t].fetching /\ p.socket = page[t].socket
        /\ p.reconnect = page[t].reconnect
    BY <1>2 DEF Script
  <2>3. /\ own \in [Socket -> Connection] /\ own[s].state = "open" /\ own[s].own
        /\ \A r \in Socket : r # s => own[r] = sockets[t][r]
    BY <1>2 DEF Connection
  <2> HIDE DEF p, own
  <2>4. PageFits(p, own)
    BY <1>1, <1>2, <2>2, <2>3 DEF PageFits
  <2>5. PageMovesOn(p, own)
    BY <1>2, <1>3, <2>2, <2>3 DEF PageMovesOn
  <2> QED BY <2>1, <2>4, <2>5, TabFits, TabStep
<1>4. CASE ~page[t].desired
  <2> DEFINE own == [sockets[t] EXCEPT ![s].state = "closing"]
  <2>1. /\ UNCHANGED <<available, page, drops>>
        /\ sockets' = [sockets EXCEPT ![t] = own]
    BY <1>4 DEF Opened
  <2>2. /\ own \in [Socket -> Connection] /\ own[s].state = "closing"
        /\ \A r \in Socket : r # s => own[r] = sockets[t][r]
    BY <1>2 DEF Connection
  <2> HIDE DEF own
  <2>3. PageFits(page[t], own)
    BY <1>1, <2>2 DEF PageFits
  <2>4. PageMovesOn(page[t], own)
    BY <1>1, <1>4 DEF PageMovesOn
  <2> QED BY <2>1, <2>3, <2>4, TabFits, TabStep
<1> QED BY <1>3, <1>4

\* onclose: a page that wants a connection waits to make another one.
LEMMA ConnectionCloses ==
    ASSUME PageInvariant, NEW t \in Tab, NEW s \in Socket, Closed(t, s)
    PROVE  PageInvariant'
<1> DEFINE own == [sockets[t] EXCEPT ![s] = NoConnection]
<1>1. PageFits(page[t], sockets[t]) /\ PageMovesOn(page[t], sockets[t])
  BY TabFits
<1>2. page[t] \in Script /\ sockets[t] \in [Socket -> Connection] /\ s # NoSocket
  BY <1>1 DEF PageFits, Socket, NoSocket
<1>3. /\ NoConnection \in Connection
      /\ NoConnection.state \notin {"connecting", "open"}
  BY DEF NoConnection, Connection
<1>4. /\ own \in [Socket -> Connection] /\ own[s] = NoConnection
      /\ \A r \in Socket : r # s => own[r] = sockets[t][r]
  BY <1>2, <1>3
<1>5. sockets' = [sockets EXCEPT ![t] = own] /\ UNCHANGED <<available, drops>>
  BY DEF Closed
<1> HIDE DEF own
<1>6. CASE sockets[t][s].own /\ page[t].socket = s
  <2> DEFINE p == Disconnected(page[t])
  <2>1. page' = [page EXCEPT ![t] = p]
    BY <1>6 DEF Closed, Update
  <2>2. page[t].reconnect = NoTimer /\ page[t].shown
    BY <1>1, <1>2, <1>6 DEF PageFits, Elsewhere
  <2>3. p = [page[t] EXCEPT !.socket = NoSocket, !.connected = FALSE,
                            !.reconnect = IF page[t].desired THEN OneTimer
                                          ELSE NoTimer]
    BY <1>2, <2>2, Timers01 DEF Disconnected, Script
  <2>4. /\ p \in Script /\ p.socket = NoSocket /\ p.connected = FALSE
        /\ p.reconnect = IF page[t].desired THEN OneTimer ELSE NoTimer
        /\ p.shown = page[t].shown /\ p.started = page[t].started
        /\ p.leaving = page[t].leaving /\ p.desired = page[t].desired
        /\ p.fetching = page[t].fetching /\ p.retry = page[t].retry
    BY <1>2, <2>3, Timers01 DEF Script
  <2> HIDE DEF p
  <2>5. PageFits(p, own)
    BY <1>1, <1>3, <1>4, <1>6, <2>2, <2>4, Timers01 DEF PageFits
  <2>6. PageMovesOn(p, own)
    BY <1>1, <2>4, Timers01 DEF PageMovesOn
  <2> QED BY <1>5, <2>1, <2>5, <2>6, TabFits, TabStep
<1>7. CASE ~(sockets[t][s].own /\ page[t].socket = s)
  <2>1. UNCHANGED page
    BY <1>7 DEF Closed
  <2>2. sockets[t][s].state \notin {"connecting", "open"}
    BY <1>1, <1>7 DEF PageFits
  <2>3. PageFits(page[t], own)
    BY <1>1, <1>3, <1>4 DEF PageFits
  <2>4. PageMovesOn(page[t], own)
    BY <1>1, <1>2, <1>4, <2>2 DEF PageMovesOn, Script
  <2> QED BY <1>5, <2>1, <2>3, <2>4, TabFits, TabStep
<1> QED BY <1>6, <1>7

\* A page that is about to leave closes its socket and stops its timers.
LEMMA Navigating ==
    ASSUME PageInvariant, NEW t \in Tab, Navigate(t) PROVE PageInvariant'
<1> DEFINE p == [page[t] EXCEPT !.leaving = TRUE, !.desired = FALSE,
                                !.reconnect = ClearTimeout(@),
                                !.retry = ClearTimeout(@)]
           own == IF page[t].socket = NoSocket THEN sockets[t]
                  ELSE [sockets[t] EXCEPT ![page[t].socket].state = "closing"]
<1>1. PageFits(page[t], sockets[t]) /\ page[t].shown
  BY TabFits DEF Navigate
<1>2. page[t] \in Script /\ sockets[t] \in [Socket -> Connection]
  BY <1>1 DEF PageFits
<1>3. page' = [page EXCEPT ![t] = p] /\ UNCHANGED <<available, drops>>
  BY DEF Navigate, Update
<1>4. sockets' = [sockets EXCEPT ![t] = own]
  BY TabFits DEF Navigate
<1>5. ClearTimeout(page[t].reconnect) = NoTimer /\ ClearTimeout(page[t].retry) = NoTimer
  BY <1>1, Timers01 DEF PageFits
<1>6. p = [page[t] EXCEPT !.leaving = TRUE, !.desired = FALSE,
                          !.reconnect = NoTimer, !.retry = NoTimer]
  BY <1>2, <1>5 DEF Script
<1>7. /\ p \in Script /\ p.leaving = TRUE /\ p.desired = FALSE
      /\ p.reconnect = NoTimer /\ p.retry = NoTimer
      /\ p.shown = page[t].shown /\ p.started = page[t].started
      /\ p.fetching = page[t].fetching /\ p.socket = page[t].socket
  BY <1>2, <1>6, Timers01 DEF Script
<1>8. /\ own \in [Socket -> Connection]
      /\ \A s \in Socket : own[s].state \notin {"connecting", "open"}
  <2>1. CASE page[t].socket = NoSocket
    BY <1>1, <1>2, <2>1 DEF PageFits, Socket, NoSocket
  <2>2. CASE page[t].socket # NoSocket
    <3>1. page[t].socket \in Socket
      BY <1>2, <2>2 DEF Script
    <3>2. own \in [Socket -> Connection]
      BY <1>2, <2>2, <3>1 DEF Connection
    <3>3. ASSUME NEW s \in Socket PROVE own[s].state \notin {"connecting", "open"}
      BY <1>1, <1>2, <2>2, <3>1 DEF PageFits, Connection
    <3> QED BY <3>2, <3>3
  <2> QED BY <2>1, <2>2
<1> HIDE DEF p, own
<1>9. PageFits(p, own)
  BY <1>1, <1>7, <1>8 DEF PageFits
<1>10. PageMovesOn(p, own)
  BY <1>7 DEF PageMovesOn
<1> QED BY <1>3, <1>4, <1>9, <1>10, TabFits, TabStep

\* Tabs that all show another page.
LEMMA PageInitially == PageInit => PageInvariant
<1> SUFFICES ASSUME PageInit PROVE PageInvariant
  OBVIOUS
<1>1. NoConnection \in Connection /\ NoConnection.state = "none"
  BY DEF NoConnection, Connection
<1>2. Elsewhere \in Script
  BY Timers01 DEF Elsewhere, Script
<1>3. page = [t \in Tab |-> Elsewhere]
      /\ sockets = [t \in Tab |-> [s \in Socket |-> NoConnection]]
  BY DEF PageInit
<1>4. page \in [Tab -> Script] /\ sockets \in [Tab -> [Socket -> Connection]]
  BY <1>1, <1>2, <1>3
<1>5. ASSUME NEW t \in Tab
      PROVE  PageFits(page[t], sockets[t]) /\ PageMovesOn(page[t], sockets[t])
  <2>1. page[t] = Elsewhere /\ \A s \in Socket : sockets[t][s] = NoConnection
    BY <1>3
  <2> QED BY <1>1, <1>2, <1>4, <2>1 DEF PageFits, PageMovesOn, Elsewhere
<1>6. drops \in 0..MaxDrops
  BY SerialPageAssumption DEF PageInit
<1> QED BY <1>4, <1>5, <1>6 DEF PageInit, PageInvariant

\* Every step keeps the invariant of the tabs.
LEMMA PageStep == PageInvariant /\ [PageNext]_pageVars => PageInvariant'
<1> SUFFICES ASSUME PageInvariant, [PageNext]_pageVars PROVE PageInvariant'
  OBVIOUS
<1>1. CASE UNCHANGED pageVars
  BY <1>1 DEF pageVars, PageInvariant, PageFits, PageMovesOn
<1>2. ASSUME NEW t \in Tab,
             \/ OpenPage(t) \/ LogoSettles(t) \/ Available(t) \/ Deferred(t)
             \/ Timers(t) \/ PageHide(t) \/ Navigate(t)
      PROVE  PageInvariant'
  BY <1>2, OpenAndHide, Asking, Answered, Reconnecting, Navigating
     DEF Timers, ContinueNavigation
<1>3. ASSUME NEW t \in Tab, NEW s \in Socket,
             \/ Answer(t, s) \/ Drop(t, s) \/ Notice(t, s)
             \/ Opened(t, s) \/ Closed(t, s)
      PROVE  PageInvariant'
  BY <1>3, DeviceSide, Opening, ConnectionCloses
<1> QED BY <1>1, <1>2, <1>3 DEF PageNext

\* The invariant the theorems about the tabs follow from.
LEMMA PageInvariantHolds == PageSpec => []PageInvariant
<1> QED BY PageInitially, PageStep, PTL DEF PageSpec

\* OneConnection: however a tab comes to connect again, it has one live socket
\* at most, no timer beside it, and no timer that can no longer be cleared.
THEOREM TabsHoldOneConnection == PageSpec => []OneConnection
<1>1. ASSUME PageInvariant PROVE OneConnection
  <2> SUFFICES ASSUME NEW t \in Tab
               PROVE  /\ \A s \in Socket : Live(t, s) =>
                            page[t].socket = s /\ sockets[t][s].own
                      /\ HasLiveSocket(t) => page[t].reconnect.pending = 0
                      /\ \A timer \in {page[t].reconnect, page[t].retry} :
                            timer.pending <= 1 /\ (timer.pending = 1 => timer.known)
    BY DEF OneConnection
  <2>1. PageFits(page[t], sockets[t])
    BY <1>1, TabFits
  <2>2. NoTimer.pending <= 1 /\ OneTimer.pending <= 1 /\ OneTimer.known
    BY DEF NoTimer, OneTimer
  <2> QED BY <2>1, <2>2, Timers01 DEF PageFits, Live, HasLiveSocket
<1> QED BY <1>1, PageInvariantHolds, PTL

\* NeverInert: a page that stays has a connection, or something pending that
\* will bring it one, whenever the device turns it away or drops it.
THEOREM PagesAreNeverInert == PageSpec => []NeverInert
<1>1. ASSUME PageInvariant PROVE NeverInert
  <2> SUFFICES ASSUME NEW t \in Tab, page[t].started, ~page[t].leaving
               PROVE  IF page[t].desired
                      THEN HasLiveSocket(t) \/ page[t].reconnect.pending > 0
                      ELSE \/ page[t].fetching \/ page[t].retry.pending > 0
                           \/ ~available
    BY DEF NeverInert
  <2>1. PageFits(page[t], sockets[t]) /\ PageMovesOn(page[t], sockets[t])
    BY <1>1, TabFits
  <2>2. OneTimer.pending > 0
    BY DEF OneTimer
  <2> QED BY <2>1, <2>2 DEF PageFits, PageMovesOn, Live, HasLiveSocket
<1> QED BY <1>1, PageInvariantHolds, PTL

\* Every variable of the scripts and sockets has its type; a timer is never
\* started a third time.
THEOREM PageTypes == PageSpec => []PageTypeOK
<1>1. PageInvariant => PageTypeOK
  BY DEF PageInvariant, PageTypeOK, Script, Connection
<1> QED BY <1>1, PageInvariantHolds, PTL

-----------------------------------------------------------------------------
(* What a tab shows.                                                       *)

\* Lines that are added have a frame to come.
LEMMA AddedLinesHaveFrame ==
    ASSUME ViewInvariant, NEW n \in Nat, NEW paused \in BOOLEAN,
           AddSerialLines(n, paused), chained' = chained
    PROVE  /\ pendingLines' \in Nat /\ isUpdating' \in BOOLEAN
           /\ PendingHasFrame'
<1>1. CASE n = 0 \/ paused
  BY <1>1 DEF ViewInvariant, ViewTypeOK, AddSerialLines, PendingHasFrame
<1>2. CASE ~(n = 0 \/ paused)
  <2>1. pendingLines' = pendingLines + n /\ isUpdating' = TRUE
    BY <1>2 DEF AddSerialLines
  <2> QED BY <2>1 DEF ViewInvariant, ViewTypeOK, PendingHasFrame
<1> QED BY <1>1, <1>2

\* A frame keeps the count exact and the document bounded.
LEMMA FrameIsExact ==
    ASSUME SaneView, ViewInvariant, NEW left \in Nat, ProcessPendingLines(left)
    PROVE  /\ pendingLines' \in Nat /\ chained' \in Nat
           /\ domLines' \in Nat /\ serialLineCount' = domLines'
           /\ domLines' <= MaxLines + Batch
           /\ pendingLines' > 0 => chained' > 0
<1>1. /\ pendingLines \in Nat /\ domLines \in Nat
      /\ serialLineCount = domLines /\ domLines <= MaxLines + Batch
      /\ Batch \in Nat \ {0} /\ MaxLines \in Nat
  BY DEF ViewInvariant, ViewTypeOK, CountIsExact, MemoryIsBounded, SaneView
<1>2. CASE pendingLines = 0 \/ ~HasOutput
  BY <1>1, <1>2 DEF ProcessPendingLines
<1>3. CASE ~(pendingLines = 0 \/ ~HasOutput)
  <2> DEFINE batch == Least(Batch, pendingLines)
             removed == IF domLines <= MaxLines THEN 0
                        ELSE Least(batch, domLines - MaxLines)
  <2>1. /\ pendingLines' = pendingLines - batch
        /\ domLines' = (domLines - removed) + batch
        /\ serialLineCount' = (serialLineCount + batch) - removed
        /\ chained' = IF pendingLines' > 0 THEN left + 1 ELSE left
    BY <1>3 DEF ProcessPendingLines
  <2>2. batch \in 1..pendingLines /\ batch <= Batch
    BY <1>1, <1>3 DEF Least
  <2>3. /\ removed \in 0..domLines
        /\ (domLines - removed) + batch <= MaxLines + Batch
    <3>1. CASE domLines <= MaxLines
      BY <1>1, <2>2, <3>1
    <3>2. CASE domLines > MaxLines /\ batch <= domLines - MaxLines
      BY <1>1, <2>2, <3>2 DEF Least
    <3>3. CASE domLines > MaxLines /\ ~(batch <= domLines - MaxLines)
      BY <1>1, <2>2, <3>3 DEF Least
    <3> QED BY <1>1, <2>2, <3>1, <3>2, <3>3
  <2> HIDE DEF batch, removed
  <2> QED BY <1>1, <2>1, <2>2, <2>3
<1> QED BY <1>2, <1>3

\* Every step keeps what is shown exact, small and on its way.
LEMMA ViewStep ==
    ASSUME SaneView, ViewInvariant, [ViewNext]_viewVars
    PROVE  ViewInvariant'
<1>1. ASSUME NEW newline \in BOOLEAN, NEW lines \in Nat, NEW rest \in Nat,
             ProcessWebSocketMessage(newline, lines, rest)
      PROVE  ViewInvariant'
  <2> DEFINE kept == IF newline THEN rest ELSE messageBuffer + rest
             n == lines + (IF kept > MaxBuffer THEN 1 ELSE 0)
  <2>1. kept \in Nat /\ n \in Nat
    BY DEF ViewInvariant, ViewTypeOK
  <2>2. /\ messageBuffer' = IF kept > MaxBuffer THEN 0 ELSE kept
        /\ AddSerialLines(n, serialPaused)
        /\ UNCHANGED <<chained, domLines, serialLineCount, serialPaused>>
    BY <1>1 DEF ProcessWebSocketMessage
  <2>3. /\ pendingLines' \in Nat /\ isUpdating' \in BOOLEAN
        /\ PendingHasFrame'
    BY <2>1, <2>2, AddedLinesHaveFrame DEF ViewInvariant, ViewTypeOK
  <2>4. messageBuffer' \in Nat /\ messageBuffer' <= MaxBuffer
    BY <2>1, <2>2 DEF SaneView
  <2> QED BY <2>2, <2>3, <2>4 DEF ViewInvariant, ViewTypeOK, CountIsExact, MemoryIsBounded
<1>2. CASE Note
  <2>1. /\ pendingLines' \in Nat /\ isUpdating' \in BOOLEAN
        /\ PendingHasFrame'
    BY <1>2, AddedLinesHaveFrame DEF Note, ViewInvariant, ViewTypeOK
  <2> QED BY <1>2, <2>1
          DEF Note, ViewInvariant, ViewTypeOK, CountIsExact, MemoryIsBounded
<1>3. CASE UpdateFrame
  <2>1. /\ pendingLines' \in Nat /\ chained' \in Nat
        /\ domLines' \in Nat /\ serialLineCount' = domLines'
        /\ domLines' <= MaxLines + Batch
        /\ pendingLines' > 0 => chained' > 0
    BY <1>3, FrameIsExact DEF UpdateFrame, ViewInvariant, ViewTypeOK
  <2> QED BY <1>3, <2>1 DEF UpdateFrame, ViewInvariant, ViewTypeOK, CountIsExact,
             MemoryIsBounded, PendingHasFrame
<1>4. CASE ChainedFrame
  <2>1. chained - 1 \in Nat
    BY <1>4 DEF ChainedFrame, ViewInvariant, ViewTypeOK
  <2>2. /\ pendingLines' \in Nat /\ chained' \in Nat
        /\ domLines' \in Nat /\ serialLineCount' = domLines'
        /\ domLines' <= MaxLines + Batch
        /\ pendingLines' > 0 => chained' > 0
    BY <1>4, <2>1, FrameIsExact DEF ChainedFrame
  <2> QED BY <1>4, <2>2 DEF ChainedFrame, ViewInvariant, ViewTypeOK, CountIsExact,
             MemoryIsBounded, PendingHasFrame
<1>5. CASE ClearSerial
  <2>1. /\ pendingLines' \in Nat /\ isUpdating' \in BOOLEAN
        /\ PendingHasFrame'
    BY <1>5, AddedLinesHaveFrame DEF ClearSerial, ViewInvariant, ViewTypeOK
  <2> QED BY <1>5, <2>1 DEF ClearSerial, ViewInvariant, ViewTypeOK, CountIsExact,
             MemoryIsBounded, SaneView
<1>6. CASE PauseSerial
  <2>1. serialPaused' \in BOOLEAN
    BY <1>6 DEF PauseSerial
  <2>2. /\ pendingLines' \in Nat /\ isUpdating' \in BOOLEAN
        /\ PendingHasFrame'
    BY <1>6, <2>1, AddedLinesHaveFrame DEF PauseSerial
  <2> QED BY <1>6, <2>1, <2>2
          DEF PauseSerial, ViewInvariant, ViewTypeOK, CountIsExact, MemoryIsBounded
<1>7. CASE UNCHANGED viewVars
  BY <1>7 DEF viewVars, ViewInvariant, ViewTypeOK, CountIsExact, MemoryIsBounded,
     PendingHasFrame
<1> QED BY <1>1, <1>2, <1>3, <1>4, <1>5, <1>6, <1>7 DEF ViewNext

\* The count on the page is exact, the document and the buffer are bounded
\* and waiting lines have a frame (processPendingLines), for every batch,
\* limit and length of message.
THEOREM ViewIsSound ==
    ASSUME SaneView
    PROVE  ViewSpec => [](/\ CountIsExact
                      /\ MemoryIsBounded
                      /\ PendingHasFrame)
<1>1. ASSUME ViewInit PROVE ViewInvariant
  <2>1. ViewTypeOK
    BY <1>1 DEF ViewInit, ViewTypeOK
  <2>2. domLines <= MaxLines + Batch /\ messageBuffer <= MaxBuffer
    BY <1>1 DEF ViewInit, SaneView
  <2> QED BY <1>1, <2>1, <2>2 DEF ViewInit, ViewInvariant, CountIsExact, MemoryIsBounded,
             PendingHasFrame
<1>2. ViewInvariant /\ [ViewNext]_viewVars => ViewInvariant'
  BY ViewStep
<1>3. ViewInvariant => CountIsExact /\ MemoryIsBounded /\ PendingHasFrame
  BY DEF ViewInvariant
<1> QED BY <1>1, <1>2, <1>3, PTL DEF ViewSpec

-----------------------------------------------------------------------------
(* The table of clients.                                                   *)

\* The part of the state the events of the WebSocket server change.
ClientsFit ==
    /\ AdmissionTypeOK
    /\ status \in [Client -> {"new", "connected", "closing", "gone"}]
    /\ RecordsMatchSockets

\* The slots are finitely many, and so are those in use.
LEMMA SlotsAreFinite ==
    /\ Slots \in Nat \ {0} /\ Slot \subseteq Nat /\ IsFiniteSet(Slot)
    /\ IsFiniteSet(Active) /\ \A S \in SUBSET Slot : IsFiniteSet(S)
    /\ NoClient \notin Client /\ Free \in Record /\ Free.id = NoClient
<1>1. Slots \in Nat \ {0} /\ Client \subseteq Nat \ {0}
  BY SerialAdmissionAssumption
<1>2. IsFiniteSet(Slot)
  BY <1>1, FS_Interval DEF Slot
<1>3. \A S \in SUBSET Slot : IsFiniteSet(S)
  BY <1>2, FS_Subset
<1>4. NoClient \notin Client /\ Free \in Record /\ Free.id = NoClient
  BY <1>1 DEF NoClient, Free, Record, Load, Idle, Full
<1> QED BY <1>1, <1>2, <1>3, <1>4 DEF Slot, Active

\* Distinct slots have distinct clients: as many records as clients go.
LEMMA SlotsOfClients ==
    ASSUME ClientsFit, NEW gone
    PROVE  Cardinality({s \in Active : records[s].id \in gone})
               = Cardinality(Admitted \cap gone)
<1> DEFINE A == {s \in Active : records[s].id \in gone}
           B == Admitted \cap gone
           f == [s \in A |-> records[s].id]
<1>1. IsFiniteSet(A)
  BY SlotsAreFinite DEF Active
<1>2. f \in Bijection(A, B)
  <2>1. \A s \in A : f[s] \in B
    BY DEF Admitted
  <2>2. \A s, t \in A : f[s] = f[t] => s = t
    BY DEF ClientsFit, RecordsMatchSockets
  <2>3. \A c \in B : \E s \in A : f[s] = c
    BY DEF Admitted
  <2> QED BY <2>1, <2>2, <2>3 DEF Bijection, Injection, Surjection, IsInjective
<1>3. Cardinality(B) = Cardinality(A)
  BY <1>1, <1>2, FS_Bijection DEF ExistsBijection
<1> QED BY <1>3

\* A set without some of its elements.
LEMMA Without ==
    ASSUME NEW S, IsFiniteSet(S), NEW T \in SUBSET S
    PROVE  /\ Cardinality(S) \in Nat /\ Cardinality(T) \in Nat
           /\ Cardinality(T) <= Cardinality(S)
           /\ Cardinality(S \ T) = Cardinality(S) - Cardinality(T)
<1>1. IsFiniteSet(T) /\ IsFiniteSet(S \ T)
  BY FS_Subset
<1>2. (S \ T) \cup T = S /\ (S \ T) \cap T = {}
  OBVIOUS
<1>3. Cardinality((S \ T) \cup T)
        = Cardinality(S \ T) + Cardinality(T) - Cardinality((S \ T) \cap T)
  BY <1>1, FS_Union
<1>4. Cardinality((S \ T) \cap T) = 0
  BY <1>2, FS_EmptySet
<1> QED BY <1>1, <1>2, <1>3, <1>4, FS_CardinalityType, FS_Subset

\* Clients that are gone, and slots that are shed, leave the table as it should
\* be: released, updated, shed.
LEMMA Forgotten ==
    ASSUME ClientsFit, NEW gone, NEW load \in [Active -> Load],
           NEW shed \in SUBSET {s \in Active : records[s].id \notin gone},
           records' = [s \in Slot |-> IF s \in shed THEN Free
                                      ELSE Refreshed(gone, load)[s]],
           activeWebSerialClients' =
               Fewer(Cardinality(Admitted \cap gone) + Cardinality(shed)),
           UNCHANGED limits
    PROVE  /\ AdmissionTypeOK'
           /\ Active' = {s \in Active : records[s].id \notin gone} \ shed
           /\ \A s \in Active' : records'[s].id = records[s].id
           /\ activeWebSerialClients' = Cardinality(Active')
           /\ activeWebSerialClients' <= limits'.max
<1> DEFINE left == {s \in Active : records[s].id \notin gone}
           lost == {s \in Active : records[s].id \in gone}
<1>1. /\ limits \in [max: Slot, policy: Policies]
      /\ records \in [Slot -> Record] /\ activeWebSerialClients \in 0..Slots
      /\ activeWebSerialClients = Cardinality(Active)
      /\ activeWebSerialClients <= limits.max
  BY DEF ClientsFit, AdmissionTypeOK, RecordsMatchSockets
<1>2. ASSUME NEW s \in Slot
      PROVE  /\ records'[s] \in Record
             /\ s \in left \ shed =>
                   records'[s].id = records[s].id /\ records'[s].id # NoClient
             /\ s \notin left \ shed => records'[s].id = NoClient
  <2>1. records'[s] = IF s \in shed THEN Free
                      ELSE IF records[s].id \in gone THEN Free
                      ELSE IF s \in Active
                      THEN [records[s] EXCEPT !.load = load[s]]
                      ELSE records[s]
    BY DEF Refreshed
  <2>2. s \in Active => load[s] \in Load
    OBVIOUS
  <2>3. CASE s \in shed \/ records[s].id \in gone
    BY <2>1, <2>3, SlotsAreFinite
  <2>4. CASE ~(s \in shed \/ records[s].id \in gone) /\ s \in Active
    BY <1>1, <2>1, <2>2, <2>4 DEF Record, Active
  <2>5. CASE ~(s \in shed \/ records[s].id \in gone) /\ s \notin Active
    BY <1>1, <2>1, <2>5 DEF Active
  <2> QED BY <2>3, <2>4, <2>5
<1>3. Active' = left \ shed
  BY <1>2 DEF Active
<1>4. Cardinality(left) = Cardinality(Active) - Cardinality(lost)
      /\ Cardinality(lost) \in Nat
  <2>1. left = Active \ lost /\ lost \in SUBSET Active
    OBVIOUS
  <2> HIDE DEF left, lost
  <2> QED BY <2>1, SlotsAreFinite, Without
<1>5. Cardinality(left \ shed) = Cardinality(left) - Cardinality(shed)
      /\ Cardinality(shed) \in Nat /\ Cardinality(shed) <= Cardinality(left)
  <2>1. IsFiniteSet(left)
    BY SlotsAreFinite DEF Active
  <2> HIDE DEF left
  <2> QED BY <2>1, Without DEF left
<1>6. Cardinality(lost) = Cardinality(Admitted \cap gone)
  BY SlotsOfClients
<1>7. Cardinality(left \ shed) \in Nat
  BY SlotsAreFinite, FS_CardinalityType DEF Active
<1> HIDE DEF left, lost
<1>8. activeWebSerialClients' = Cardinality(left \ shed)
  BY <1>1, <1>4, <1>5, <1>6, <1>7 DEF Fewer
<1>9. activeWebSerialClients' \in 0..Slots /\ activeWebSerialClients' <= limits'.max
  BY <1>1, <1>4, <1>5, <1>7, <1>8, SlotsAreFinite DEF Slot
<1>10. records' \in [Slot -> Record]
  BY <1>2 DEF Refreshed
<1> QED BY <1>1, <1>2, <1>3, <1>8, <1>9, <1>10 DEF AdmissionTypeOK, left, Active

\* A client that gets a record, in a free slot or in place of another client.
LEMMA Admitting ==
    ASSUME ClientsFit, NEW c \in Client, NEW takeover \in BOOLEAN,
           NEW critical \in BOOLEAN, Connect(c, takeover, critical)
    PROVE  ClientsFit'
<1>1. /\ limits \in [max: Slot, policy: Policies]
      /\ records \in [Slot -> Record] /\ activeWebSerialClients \in 0..Slots
      /\ activeWebSerialClients = Cardinality(Active)
      /\ activeWebSerialClients <= limits.max
      /\ status \in [Client -> {"new", "connected", "closing", "gone"}]
      /\ \A s, t \in Active : records[s].id = records[t].id => s = t
      /\ {d \in Client : status[d] = "connected"} \subseteq Admitted
      /\ \A d \in Admitted : status[d] \in {"connected", "closing"}
  BY DEF ClientsFit, AdmissionTypeOK, RecordsMatchSockets
<1>2. /\ status[c] = "new" /\ c # NoClient
      /\ \A s \in Active : records[s].id # c
  <2>1. status[c] = "new"
    BY DEF Connect
  <2>2. \A s \in Active : records[s].id \in Admitted
    BY DEF Admitted
  <2> QED BY <1>1, <2>1, <2>2, SlotsAreFinite
<1> DEFINE new == [id |-> c, load |-> Idle]
<1>3. new \in Record /\ new.id = c
  BY DEF Record, Load, Idle, Full
<1> HIDE DEF new
<1>4. CASE Refused(takeover, critical)
  <2>1. UNCHANGED admission /\ status' = [status EXCEPT ![c] = "closing"]
    BY <1>4 DEF Connect
  <2>2. c \notin Admitted
    BY <1>2 DEF Admitted
  <2> QED BY <1>1, <2>1, <2>2 DEF ClientsFit, AdmissionTypeOK,
         RecordsMatchSockets, admission, Active, Admitted
<1>5. ASSUME AdmitFreely(c), status' = [status EXCEPT ![c] = "connected"]
      PROVE  ClientsFit'
  <2>1. PICK s \in Slot \ Active : records' = [records EXCEPT ![s] = new]
    BY <1>5 DEF AdmitFreely, FreeSlots, new
  <2>2. /\ activeWebSerialClients < limits.max /\ limits' = limits
        /\ activeWebSerialClients' = activeWebSerialClients + 1
    BY <1>5 DEF AdmitFreely
  <2>3. /\ records' \in [Slot -> Record] /\ records'[s] = new
        /\ \A t \in Slot : t # s => records'[t] = records[t]
    BY <1>1, <1>3, <2>1
  <2>4. Active' = Active \cup {s} /\ s \notin Active
    BY <1>2, <1>3, <2>1, <2>3 DEF Active
  <2>5. Cardinality(Active') = Cardinality(Active) + 1
    BY <2>4, SlotsAreFinite, FS_AddElement
  <2>6. AdmissionTypeOK'
    <3>1. limits.max \in 1..Slots /\ Slots \in Nat
      BY <1>1, SlotsAreFinite DEF Slot
    <3>2. activeWebSerialClients' \in 0..Slots
      BY <1>1, <2>2, <3>1
    <3> QED BY <1>1, <2>2, <2>3, <3>2 DEF AdmissionTypeOK
  <2>7. Admitted' = Admitted \cup {c}
    BY <1>3, <2>1, <2>3, <2>4 DEF Admitted, Active
  <2>8. \A t, u \in Active' : records'[t].id = records'[u].id => t = u
    BY <1>1, <1>2, <1>3, <2>3, <2>4 DEF Active
  <2>9. activeWebSerialClients' <= limits'.max
    BY <1>1, <2>2 DEF Slot
  <2>10. /\ {d \in Client : status'[d] = "connected"} \subseteq Admitted'
         /\ \A d \in Admitted' : status'[d] \in {"connected", "closing"}
    BY <1>1, <1>5, <2>7
  <2> QED BY <1>1, <1>5, <2>2, <2>5, <2>6, <2>8, <2>9, <2>10
         DEF ClientsFit, RecordsMatchSockets
<1>6. ASSUME NEW s \in Evictable(takeover), AdmitFor(c, s),
             status' = [status EXCEPT ![c] = "connected",
                                      ![records[s].id] = "closing"]
      PROVE  ClientsFit'
  <2>1. s \in Active
    BY DEF Evictable, Slowest
  <2>2. PICK t \in Slot \ (Active \ {s}) :
            records' = [[records EXCEPT ![s] = Free] EXCEPT ![t] = new]
    BY <1>6 DEF AdmitFor, FreeSlots, new
  <2>3. /\ records' \in [Slot -> Record] /\ records'[t] = new
        /\ s # t => records'[s] = Free
        /\ \A u \in Slot : u # s /\ u # t => records'[u] = records[u]
    BY <1>1, <1>3, <2>1, <2>2, SlotsAreFinite DEF Active
  <2>4. Active' = (Active \ {s}) \cup {t} /\ t \notin Active \ {s}
    BY <1>2, <1>3, <2>1, <2>2, <2>3, SlotsAreFinite DEF Active
  <2>5. Cardinality(Active') = Cardinality(Active) /\ Cardinality(Active) # 0
    <3>1. Cardinality(Active \ {s}) = Cardinality(Active) - 1
          /\ IsFiniteSet(Active \ {s})
      BY <2>1, SlotsAreFinite, FS_RemoveElement
    <3>2. Cardinality((Active \ {s}) \cup {t}) = Cardinality(Active \ {s}) + 1
      BY <2>4, <3>1, FS_AddElement
    <3>3. Cardinality(Active) # 0
      BY <2>1, SlotsAreFinite, FS_EmptySet
    <3> QED BY <1>1, <2>4, <3>1, <3>2, <3>3
  <2>6. activeWebSerialClients' = activeWebSerialClients /\ limits' = limits
    <3>1. /\ activeWebSerialClients' = Fewer(1) + 1 /\ limits' = limits
          /\ activeWebSerialClients \in Nat /\ activeWebSerialClients # 0
      BY <1>1, <1>6, <2>5 DEF AdmitFor
    <3> QED BY <3>1 DEF Fewer
  <2>7. AdmissionTypeOK'
    BY <1>1, <2>3, <2>6 DEF AdmissionTypeOK
  <2>8. /\ records[s].id \in Client /\ records[s].id # c
        /\ records[s].id \in Admitted
    <3>1. records[s] \in Record /\ records[s].id # NoClient
      BY <1>1, <2>1 DEF Active
    <3> QED BY <1>2, <2>1, <3>1 DEF Record, Admitted
  <2>9. Admitted' = (Admitted \ {records[s].id}) \cup {c}
    <3>1. \A u \in Active \ {s} : /\ records'[u].id = records[u].id
                                  /\ records[u].id # records[s].id
      BY <1>1, <2>1, <2>3, <2>4 DEF Active
    <3>2. records'[t].id = c
      BY <1>3, <2>3
    <3> QED BY <2>4, <3>1, <3>2 DEF Admitted
  <2>10. \A u, v \in Active' : records'[u].id = records'[v].id => u = v
    BY <1>1, <1>2, <1>3, <2>1, <2>3, <2>4 DEF Active
  <2>11. /\ status' \in [Client -> {"new", "connected", "closing", "gone"}]
         /\ status'[c] = "connected" /\ status'[records[s].id] = "closing"
         /\ \A d \in Client : d # c /\ d # records[s].id => status'[d] = status[d]
    BY <1>1, <1>6, <2>8
  <2>12. /\ {d \in Client : status'[d] = "connected"} \subseteq Admitted'
         /\ \A d \in Admitted' : status'[d] \in {"connected", "closing"}
    <3>1. Admitted \subseteq Client
      BY <1>1 DEF Admitted, Active, Record
    <3> QED BY <1>1, <2>8, <2>9, <2>11, <3>1
  <2> QED BY <1>1, <2>5, <2>6, <2>7, <2>10, <2>11, <2>12
         DEF ClientsFit, RecordsMatchSockets
<1> QED BY <1>4, <1>5, <1>6 DEF Connect

\* The connection of a client breaks, or is reported gone.
LEMMA Parting ==
    ASSUME ClientsFit, NEW c \in Client, Break(c) \/ Disconnect(c)
    PROVE  ClientsFit'
<1>1. /\ status \in [Client -> {"new", "connected", "closing", "gone"}]
      /\ \A s, t \in Active : records[s].id = records[t].id => s = t
      /\ {d \in Client : status[d] = "connected"} \subseteq Admitted
      /\ \A d \in Admitted : status[d] \in {"connected", "closing"}
  BY DEF ClientsFit, RecordsMatchSockets
<1>2. CASE Break(c)
  <2>1. /\ status' = [status EXCEPT ![c] = "closing"] /\ UNCHANGED admission
    BY <1>1, <1>2 DEF Break, Closing
  <2> QED BY <1>1, <2>1 DEF ClientsFit, AdmissionTypeOK, RecordsMatchSockets,
         admission, Active, Admitted
<1>3. CASE Disconnect(c)
  <2> DEFINE load == [s \in Active |-> records[s].load]
  <2>1. /\ status[c] = "closing" /\ status' = [status EXCEPT ![c] = "gone"]
        /\ records' = Refreshed({c}, load) /\ limits' = limits
        /\ activeWebSerialClients' = Released({c})
    BY <1>3 DEF Disconnect
  <2>2. load \in [Active -> Load]
    BY DEF ClientsFit, AdmissionTypeOK, Record, Active
  <2> HIDE DEF load
  <2> DEFINE gone == {c}
             shed == {}
  <2>3. /\ records' = [s \in Slot |-> IF s \in shed THEN Free
                                      ELSE Refreshed(gone, load)[s]]
        /\ shed \in SUBSET {s \in Active : records[s].id \notin gone}
    BY <2>1 DEF Refreshed
  <2>4. Cardinality(shed) = 0 /\ Cardinality(Admitted \cap gone) \in Nat
    <3>1. IsFiniteSet({c}) /\ Admitted \cap {c} \in SUBSET {c}
      BY FS_Singleton
    <3> QED BY <3>1, FS_EmptySet, FS_Subset, FS_CardinalityType
  <2>5. activeWebSerialClients' =
            Fewer(Cardinality(Admitted \cap gone) + Cardinality(shed))
    BY <2>1, <2>4 DEF Released
  <2> HIDE DEF gone, shed
  <2>6. /\ AdmissionTypeOK'
        /\ Active' = {s \in Active : records[s].id \notin gone} \ shed
        /\ \A s \in Active' : records'[s].id = records[s].id
        /\ activeWebSerialClients' = Cardinality(Active')
        /\ activeWebSerialClients' <= limits'.max
    <3>1. UNCHANGED limits
      BY <2>1
    <3> QED BY <2>2, <2>3, <2>5, <3>1, Forgotten
  <2>7. Admitted' = Admitted \ {c}
    BY <2>6 DEF Admitted, gone, shed
  <2>8. ASSUME NEW s \in Active', NEW t \in Active', records'[s].id = records'[t].id
        PROVE  s = t
    BY <1>1, <2>6, <2>8
  <2>9. Admitted \subseteq Client
    BY DEF ClientsFit, AdmissionTypeOK, Admitted, Active, Record
  <2> QED BY <1>1, <2>1, <2>6, <2>7, <2>8, <2>9 DEF ClientsFit,
         RecordsMatchSockets
<1> QED BY <1>2, <1>3

\* Some clients are closed, and those whose object closes or has gone lose
\* their records, as do those that are shed.
LEMMA Refreshing ==
    ASSUME ClientsFit, NEW load \in [Active -> Load], NEW set,
           NEW shed \in SUBSET {s \in Active : records[s].id \notin Gone},
           {records[s].id : s \in shed} \subseteq set,
           records' = [s \in Slot |-> IF s \in shed THEN Free
                                      ELSE Refreshed(Gone, load)[s]],
           activeWebSerialClients' =
               Fewer(Cardinality(Admitted \cap Gone) + Cardinality(shed)),
           UNCHANGED limits, Closing(set)
    PROVE  ClientsFit'
<1>1. /\ status \in [Client -> {"new", "connected", "closing", "gone"}]
      /\ \A s, t \in Active : records[s].id = records[t].id => s = t
      /\ {d \in Client : status[d] = "connected"} \subseteq Admitted
      /\ \A d \in Admitted : status[d] \in {"connected", "closing"}
  BY DEF ClientsFit, RecordsMatchSockets
<1>2. /\ AdmissionTypeOK'
      /\ Active' = {s \in Active : records[s].id \notin Gone} \ shed
      /\ \A s \in Active' : records'[s].id = records[s].id
      /\ activeWebSerialClients' = Cardinality(Active')
      /\ activeWebSerialClients' <= limits'.max
  BY Forgotten
<1>3. /\ status' \in [Client -> {"new", "connected", "closing", "gone"}]
      /\ \A c \in Client : status'[c] =
             IF c \in set /\ status[c] = "connected" THEN "closing" ELSE status[c]
  BY <1>1 DEF Closing
<1>4. ASSUME NEW s \in Active', NEW t \in Active', records'[s].id = records'[t].id
      PROVE  s = t
  <2>1. s \in Active /\ t \in Active
    BY <1>2, Zenon
  <2>2. records[s].id = records[t].id
    BY <1>2, <1>4, Zenon
  <2> QED BY <1>1, <2>1, <2>2, Zenon
<1>5. \A d \in Admitted' : d \in Admitted
  BY <1>2 DEF Admitted
<1>6. Admitted \subseteq Client
  BY DEF ClientsFit, AdmissionTypeOK, Admitted, Active, Record
<1>7. ASSUME NEW c \in Client, status'[c] = "connected" PROVE c \in Admitted'
  <2>1. status[c] = "connected" /\ c \notin set
    BY <1>1, <1>3, <1>7
  <2>2. PICK s \in Active : records[s].id = c
    BY <1>1, <2>1 DEF Admitted
  <2>3. c \notin Gone /\ s \notin shed
    BY <2>1, <2>2 DEF Gone
  <2> QED BY <1>2, <2>2, <2>3 DEF Admitted
<1> QED BY <1>1, <1>2, <1>3, <1>4, <1>5, <1>6, <1>7 DEF ClientsFit,
       RecordsMatchSockets

\* updateClientStates.
LEMMA Updating ==
    ASSUME ClientsFit, NEW load \in [Active -> Load], UpdateClientStates(load),
           Closing(Excess)
    PROVE  ClientsFit'
<1>1. /\ records' = Refreshed(Gone, load) /\ limits' = limits
      /\ activeWebSerialClients' = Released(Gone)
  BY DEF UpdateClientStates
<1>2. records' = [s \in Slot |-> IF s \in {} THEN Free ELSE Refreshed(Gone, load)[s]]
  BY <1>1 DEF Refreshed
<1>3. Cardinality({}) = 0 /\ Cardinality(Admitted \cap Gone) \in Nat
  <2>1. Cardinality({s \in Active : records[s].id \in Gone}) \in Nat
    BY SlotsAreFinite, FS_CardinalityType DEF Active
  <2> QED BY <2>1, SlotsOfClients, FS_EmptySet
<1>4. activeWebSerialClients' =
          Fewer(Cardinality(Admitted \cap Gone) + Cardinality({}))
  BY <1>1, <1>3 DEF Released
<1> QED BY <1>1, <1>2, <1>4, Refreshing

\* The housekeeping.
LEMMA Housekeeping ==
    ASSUME ClientsFit, NEW load \in [Active -> Load], NEW critical \in BOOLEAN,
           Housekeep(load, critical)
    PROVE  ClientsFit'
<1> DEFINE left == {s \in Active : records[s].id \notin Gone}
           shed == IF critical
                   THEN {s \in left : \A t \in left :
                           \/ load[t] < load[s]
                           \/ load[t] = load[s] /\ s <= t}
                   ELSE {}
           set == Excess \cup {records[s].id : s \in shed}
<1>1. /\ records' = [s \in Slot |-> IF s \in shed THEN Free
                                    ELSE Refreshed(Gone, load)[s]]
      /\ activeWebSerialClients' =
             Fewer(Cardinality(Admitted \cap Gone) + Cardinality(shed))
      /\ Closing(set)
      /\ UNCHANGED limits
  BY DEF Housekeep
<1>2. shed \in SUBSET left /\ {records[s].id : s \in shed} \subseteq set
  OBVIOUS
<1> HIDE DEF shed, set
<1> QED BY <1>1, <1>2, Refreshing

\* The server goes with its clients, or a new one comes without any.
LEMMA Restarting ==
    ASSUME ClientsFit, AdmissionEnd,
           NEW start \in {"new", "gone"}, status' = [c \in Client |-> start]
    PROVE  ClientsFit'
<1>1. /\ limits' = limits /\ limits \in [max: Slot, policy: Policies]
      /\ records' = [s \in Slot |-> Free] /\ activeWebSerialClients' = 0
  BY DEF ClientsFit, AdmissionTypeOK, AdmissionEnd
<1>2. \A s \in Slot : records'[s] = Free
  BY <1>1
<1>3. Active' = {} /\ Admitted' = {}
  BY <1>2, SlotsAreFinite DEF Active, Admitted
<1>4. limits.max \in 1..Slots /\ Slots \in Nat
  BY <1>1, SlotsAreFinite DEF Slot
<1>5. AdmissionTypeOK'
  BY <1>1, <1>4, SlotsAreFinite DEF AdmissionTypeOK
<1>6. Cardinality(Active') = 0
  BY <1>3, FS_EmptySet
<1>7. \A c \in Client : status'[c] = start
  OBVIOUS
<1>8. {c \in Client : status'[c] = "connected"} = {}
  BY <1>7
<1> QED BY <1>1, <1>3, <1>4, <1>5, <1>6, <1>7, <1>8 DEF ClientsFit,
       RecordsMatchSockets

\* Nothing that leaves the clients alone disturbs them.
LEMMA ClientsAlone == ASSUME ClientsFit, UNCHANGED clients PROVE ClientsFit'
BY DEF clients, admission, ClientsFit, AdmissionTypeOK, RecordsMatchSockets,
   Active, Admitted

\* Every step keeps the table.
LEMMA ClientsStep == ClientsFit /\ [Next]_vars => ClientsFit'
<1> SUFFICES ASSUME ClientsFit, [Next]_vars PROVE ClientsFit'
  OBVIOUS
<1>1. CASE UNCHANGED vars
  BY <1>1, ClientsAlone DEF vars, clients
<1>2. ASSUME NEW c \in Client, NEW takeover \in BOOLEAN, NEW critical \in BOOLEAN,
             Connect(c, takeover, critical)
      PROVE  ClientsFit'
  BY <1>2, Admitting
<1>3. ASSUME NEW c \in Client, Break(c) \/ Disconnect(c) PROVE ClientsFit'
  BY <1>3, Parting
<1>4. ASSUME NEW n \in Lengths, Send(n) PROVE ClientsFit'
  BY <1>4, ClientsAlone DEF Send
<1>5. ASSUME NEW due \in BOOLEAN, NEW load \in [Active -> Load],
             LoopStart(due, load) \/ Check(due, load)
      PROVE  ClientsFit'
  <2>1. \/ UpdateClientStates(load) /\ Closing(Excess)
        \/ UNCHANGED clients
    BY <1>5 DEF LoopStart, Check
  <2> QED BY <2>1, Updating, ClientsAlone
<1>6. CASE EndStart \/ AddToBuffer \/ Tick
  <2>1. UNCHANGED clients
    BY <1>6 DEF EndStart, AddToBuffer, Tick
  <2> QED BY <2>1, ClientsAlone
<1>7. ASSUME NEW critical \in BOOLEAN, NEW discarded \in BOOLEAN,
             Flush(critical, discarded)
      PROVE  ClientsFit'
  BY <1>7, ClientsAlone DEF Flush
<1>8. ASSUME NEW due \in BOOLEAN, NEW critical \in BOOLEAN,
             NEW load \in [Active -> Load], LoopEnd(due, load, critical)
      PROVE  ClientsFit'
  <2>1. Housekeep(load, critical) \/ UNCHANGED clients
    BY <1>8 DEF LoopEnd
  <2> QED BY <2>1, Housekeeping, ClientsAlone
<1>9. CASE End
  BY <1>9, Restarting DEF End
<1>10. ASSUME NEW allocated \in BOOLEAN, Begin(allocated) PROVE ClientsFit'
  <2> DEFINE start == IF allocated THEN "new" ELSE "gone"
  <2>1. AdmissionEnd /\ status' = [c \in Client |-> start]
    BY <1>10 DEF Begin
  <2>2. start \in {"new", "gone"}
    OBVIOUS
  <2> HIDE DEF start
  <2> QED BY <2>1, <2>2, Restarting
<1> QED BY <1>1, <1>2, <1>3, <1>4, <1>5, <1>6, <1>7, <1>8, <1>9, <1>10
       DEF Next, Continue

\* No client at first.
LEMMA ClientsInitially == Init => ClientsFit
<1> SUFFICES ASSUME Init PROVE ClientsFit
  OBVIOUS
<1>1. /\ limits \in [max: Slot, policy: Policies]
      /\ records = [s \in Slot |-> Free] /\ activeWebSerialClients = 0
      /\ status = [c \in Client |-> "new"]
  BY DEF Init, AdmissionInit
<1>2. \A s \in Slot : records[s] = Free
  BY <1>1
<1>3. Active = {} /\ Admitted = {}
  BY <1>2, SlotsAreFinite DEF Active, Admitted
<1>4. limits.max \in 1..Slots /\ Slots \in Nat
  BY <1>1, SlotsAreFinite DEF Slot
<1>5. AdmissionTypeOK
  BY <1>1, <1>4, SlotsAreFinite DEF AdmissionTypeOK
<1>6. {c \in Client : status[c] = "connected"} = {}
  BY <1>1
<1> QED BY <1>1, <1>3, <1>4, <1>5, <1>6, FS_EmptySet DEF ClientsFit,
       RecordsMatchSockets

\* RecordsMatchSockets: for any number of clients and slots and any policy, the
\* table of WebSerial clients and the sockets agree, through admission,
\* eviction, shedding, refresh and the late events of clients that lost their
\* records earlier.
THEOREM RecordsMatch == Spec => []RecordsMatchSockets
<1>1. ClientsFit => RecordsMatchSockets
  BY DEF ClientsFit
<1> QED BY <1>1, ClientsInitially, ClientsStep, PTL DEF Spec

-----------------------------------------------------------------------------
(* The circular buffer: what add, consume and getContiguousData do to the  *)
(* bytes that wait, wherever they lie in the array.                        *)

Wrapped(n) == IF n < Size THEN n ELSE n - Size

Ring == {b \in C!Buffer : b.writePos = Wrapped(b.readPos + b.dataLength)}

\* A position taken modulo the size of the buffer.
LEMMA Remainder ==
    ASSUME NEW m \in Nat \ {0}, NEW x \in 0..(2 * m - 1)
    PROVE  /\ x < m => x % m = x
           /\ x >= m => x % m = x - m
<1>1. x < m => x % m = x
  BY SMT
<1>2. x >= m => x % m = x - m
  BY SMT
<1> QED BY <1>1, <1>2

\* Positions in the array, in terms of the remainder.
LEMMA Wrapping ==
    ASSUME NEW x \in 0..(2 * Size - 1)
    PROVE  x % Size = Wrapped(x) /\ Wrapped(x) \in C!Position
<1>1. Size \in Nat \ {0}
  BY WebSerialAssumption
<1>2. x < Size => x % Size = x
  BY <1>1, Remainder, Zenon
<1>3. x >= Size => x % Size = x - Size
  BY <1>1, Remainder, Zenon
<1>4. x % Size = Wrapped(x)
  <2>1. x < Size \/ x >= Size
    BY <1>1
  <2>2. CASE x < Size
    BY <1>2, <2>2, Zenon DEF Wrapped
  <2>3. CASE x >= Size
    <3>1. ~(x < Size)
      BY <1>1, <2>3
    <3> QED BY <1>3, <2>3, <3>1, Zenon DEF Wrapped
  <2> QED BY <2>1, <2>2, <2>3
<1>5. Wrapped(x) \in C!Position
  BY <1>1 DEF Wrapped, C!Position
<1> QED BY <1>4, <1>5

\* What is known of a buffer.
LEMMA Ringed ==
    ASSUME NEW b \in Ring
    PROVE  /\ b.cells \in [C!Position -> (1..MaxBytes) \cup {0}]
           /\ b.writePos \in 0..(Size - 1) /\ b.readPos \in 0..(Size - 1)
           /\ b.dataLength \in 0..Size /\ Size \in Nat \ {0}
           /\ b.writePos = Wrapped(b.readPos + b.dataLength)
           /\ b = [cells |-> b.cells, writePos |-> b.writePos,
                   readPos |-> b.readPos, dataLength |-> b.dataLength]
BY WebSerialAssumption DEF Ring, C!Buffer, C!Position

\* The bytes that wait, one by one.
LEMMA ContentsOf ==
    ASSUME NEW b \in Ring
    PROVE  /\ C!Contents(b) \in Seq((1..MaxBytes) \cup {0})
           /\ Len(C!Contents(b)) = b.dataLength
           /\ \A i \in 1..b.dataLength :
                 C!Contents(b)[i] = b.cells[Wrapped(b.readPos + i - 1)]
<1>1. /\ b.cells \in [C!Position -> (1..MaxBytes) \cup {0}]
      /\ b.readPos \in 0..(Size - 1) /\ b.dataLength \in 0..Size
      /\ Size \in Nat \ {0}
  BY Ringed
<1>2. ASSUME NEW i \in 1..b.dataLength
      PROVE  /\ (b.readPos + i - 1) % Size = Wrapped(b.readPos + i - 1)
             /\ Wrapped(b.readPos + i - 1) \in C!Position
  <2>1. b.readPos + i - 1 \in 0..(2 * Size - 1)
    BY <1>1
  <2> QED BY <2>1, Wrapping
<1> DEFINE cell(i) == b.cells[(b.readPos + i - 1) % Size]
<1>3. \A i \in 1..b.dataLength : /\ cell(i) = b.cells[Wrapped(b.readPos + i - 1)]
                                 /\ cell(i) \in (1..MaxBytes) \cup {0}
  BY <1>1, <1>2, Zenon
<1>4. C!Contents(b) = [i \in 1..b.dataLength |-> cell(i)]
  BY DEF C!Contents
<1> HIDE DEF cell
<1> QED BY <1>1, <1>3, <1>4

\* The elements of a sequence.
LEMMA Elements ==
    ASSUME NEW S, NEW s \in Seq(S)
    PROVE  Len(s) \in Nat /\ \A i \in 1..Len(s) : s[i] \in S
OBVIOUS

\* One memcpy: the buffer afterwards.
LEMMA Copying ==
    ASSUME NEW b \in Ring, NEW s \in Seq(1..MaxBytes), NEW n \in Nat,
           n = C!Least(Len(s), C!ContiguousWriteSpace(b)),
           Len(s) <= Size - b.dataLength
    PROVE  /\ C!Copy(b, s) \in Ring /\ n <= Len(s)
           /\ C!Copy(b, s).readPos = b.readPos
           /\ C!Copy(b, s).dataLength = b.dataLength + n
           /\ \A i \in 1..b.dataLength :
                 C!Contents(C!Copy(b, s))[i] = C!Contents(b)[i]
           /\ \A i \in 1..n : C!Contents(C!Copy(b, s))[b.dataLength + i] = s[i]
           /\ n # Len(s) => C!Copy(b, s).writePos = 0 /\ b.writePos >= b.readPos
<1> DEFINE w == b.writePos
           r == b.readPos
           d == b.dataLength
           cells == [p \in C!Position |-> IF p \in w..(w + n - 1)
                                          THEN s[p - w + 1] ELSE b.cells[p]]
           c == C!Copy(b, s)
           free == C!ContiguousWriteSpace(b)
<1>1. /\ b.cells \in [C!Position -> (1..MaxBytes) \cup {0}]
      /\ w \in 0..(Size - 1) /\ r \in 0..(Size - 1) /\ d \in 0..Size
      /\ Size \in Nat \ {0} /\ w = Wrapped(r + d)
  BY Ringed
<1>2. Len(s) \in Nat /\ \A i \in 1..Len(s) : s[i] \in 1..MaxBytes
  BY Elements
<1>3. free = IF w >= r THEN Size - w ELSE r - w
  BY DEF C!ContiguousWriteSpace
<1>4. c = [b EXCEPT !.cells = cells, !.writePos = (w + n) % Size,
                    !.dataLength = d + n]
  BY Zenon DEF C!Copy
<1>5. b = [cells |-> b.cells, writePos |-> w, readPos |-> r, dataLength |-> d]
  BY Ringed
<1>c. n = C!Least(Len(s), free)
  OBVIOUS
<1> HIDE DEF w, r, d, c, free
<1>a. /\ w \in 0..(Size - 1) /\ r \in 0..(Size - 1) /\ d \in 0..Size
      /\ Size \in Nat \ {0} /\ Len(s) \in Nat
  BY <1>1, <1>2
<1>6. /\ n <= Len(s) /\ w + n <= Size /\ d + n \in 0..Size
      /\ n # Len(s) => w + n = Size /\ w >= r
      /\ Wrapped(w + n) = Wrapped(r + (d + n)) /\ Wrapped(w + n) \in 0..(Size - 1)
      /\ \A i \in 1..d : /\ Wrapped(r + i - 1) \in 0..(Size - 1)
                         /\ Wrapped(r + i - 1) \notin w..(w + n - 1)
      /\ \A i \in 1..n : Wrapped(r + (d + i) - 1) = w + i - 1
  <2> DEFINE len == Len(s)
  <2>1. /\ len \in Nat /\ len <= Size - d
        /\ \/ len <= free /\ n = len
           \/ len > free /\ n = free
    BY <1>1, <1>2, <1>3, <1>c DEF d, C!Least
  <2> HIDE DEF cells, len
  <2>2. \/ r + d < Size /\ w = r + d
        \/ r + d >= Size /\ w = (r + d) - Size
    BY <1>1, <1>a DEF Wrapped
  <2>3. \/ w >= r /\ free = Size - w
        \/ w < r /\ free = r - w
    BY <1>3, <1>a
  <2>4. /\ n <= len /\ w + n <= Size /\ d + n \in 0..Size
        /\ n # len => w + n = Size /\ w >= r
    BY <1>a, <2>1, <2>2, <2>3
  <2>5. Wrapped(w + n) = Wrapped(r + (d + n)) /\ Wrapped(w + n) \in 0..(Size - 1)
    <3>1. CASE r + d < Size /\ w = r + d
      <4>1. r + (d + n) = w + n
        BY <1>a, <3>1
      <4>2. Wrapped(w + n) \in 0..(Size - 1)
        BY <1>a, <2>4 DEF Wrapped
      <4> QED BY <4>1, <4>2
    <3>2. CASE r + d >= Size /\ w = (r + d) - Size
      <4>1. w + n < Size /\ r + (d + n) = (w + n) + Size
        BY <1>a, <2>1, <2>3, <3>2
      <4> QED BY <1>a, <4>1 DEF Wrapped
    <3> QED BY <2>2, <3>1, <3>2
  <2>6. ASSUME NEW i \in 1..d
        PROVE  /\ Wrapped(r + i - 1) \in 0..(Size - 1)
               /\ Wrapped(r + i - 1) \notin w..(w + n - 1)
    BY <1>a, <2>1, <2>2, <2>3, <2>4 DEF Wrapped
  <2>7. ASSUME NEW i \in 1..n
        PROVE  Wrapped(r + (d + i) - 1) = w + i - 1
    BY <1>a, <2>1, <2>2, <2>3, <2>4 DEF Wrapped
  <2> QED BY <2>4, <2>5, <2>6, <2>7, Zenon DEF len
<1>b. n <= Len(s) /\ w + n <= Size /\ d + n \in 0..Size
  BY <1>6, Zenon
<1>7. (w + n) % Size = Wrapped(w + n)
  <2>1. w + n \in 0..(2 * Size - 1)
    BY <1>a, <1>b
  <2> QED BY <2>1, Wrapping
<1>8. \A p \in w..(w + n - 1) : s[p - w + 1] \in 1..MaxBytes
  <2>1. \A p \in w..(w + n - 1) : p - w + 1 \in 1..Len(s)
    BY <1>a, <1>b
  <2> QED BY <1>2, <2>1
<1>9. cells \in [C!Position -> (1..MaxBytes) \cup {0}]
  BY <1>1, <1>8
<1> HIDE DEF cells
<1>10. /\ c.cells = cells /\ c.writePos = Wrapped(w + n)
       /\ c.readPos = r /\ c.dataLength = d + n
       /\ c = [cells |-> cells, writePos |-> Wrapped(w + n),
               readPos |-> r, dataLength |-> d + n]
  <2> DEFINE v == Wrapped(w + n)
             e == d + n
             k == b.cells
  <2>1. c = [b EXCEPT !.cells = cells, !.writePos = v, !.dataLength = e]
    BY <1>4, <1>7
  <2>3. b = [cells |-> k, writePos |-> w, readPos |-> r, dataLength |-> d]
    BY <1>5
  <2> HIDE DEF v, e, k
  <2>2. c = [cells |-> cells, writePos |-> v, readPos |-> r, dataLength |-> e]
    BY <2>3, <2>1
  <2> QED BY <2>2 DEF v, e
<1>11. c \in Ring
  <2>1. c \in C!Buffer
    BY <1>1, <1>6, <1>9, <1>10 DEF C!Buffer, C!Position
  <2> QED BY <1>6, <1>10, <2>1 DEF Ring
<1>12. ASSUME NEW i \in 1..d PROVE C!Contents(c)[i] = C!Contents(b)[i]
  <2> DEFINE p == Wrapped(r + i - 1)
  <2>1. p \in C!Position /\ p \notin w..(w + n - 1)
    BY <1>6 DEF C!Position
  <2>2. C!Contents(c)[i] = cells[p]
    <3>1. i \in 1..c.dataLength
      BY <1>1, <1>10
    <3> QED BY <1>10, <1>11, <3>1, ContentsOf
  <2>3. C!Contents(b)[i] = b.cells[p]
    BY ContentsOf DEF d, r
  <2> HIDE DEF p
  <2> QED BY <2>1, <2>2, <2>3 DEF cells
<1>13. ASSUME NEW i \in 1..n PROVE C!Contents(c)[d + i] = s[i]
  <2> DEFINE p == w + i - 1
  <2>1. Wrapped(r + (d + i) - 1) = p
    BY <1>6
  <2>2. C!Contents(c)[d + i] = cells[p]
    <3>1. d + i \in 1..c.dataLength
      BY <1>1, <1>10
    <3> QED BY <1>10, <1>11, <2>1, <3>1, ContentsOf
  <2>3. p \in w..(w + n - 1) /\ p - w + 1 = i /\ p \in C!Position
    BY <1>a, <1>b DEF C!Position
  <2> HIDE DEF p
  <2> QED BY <2>2, <2>3 DEF cells
<1>14. n # Len(s) => c.writePos = 0
  BY <1>1, <1>6, <1>10 DEF Wrapped
<1> QED BY <1>6, <1>10, <1>11, <1>12, <1>13, <1>14 DEF c, w, r, d
\* What is left of a sequence without its first elements.
LEMMA Rests ==
    ASSUME NEW S, NEW s \in Seq(S), NEW n \in 0..Len(s)
    PROVE  /\ SubSeq(s, n + 1, Len(s)) \in Seq(S)
           /\ Len(SubSeq(s, n + 1, Len(s))) = Len(s) - n
           /\ \A i \in 1..(Len(s) - n) : SubSeq(s, n + 1, Len(s))[i] = s[n + i]
<1>1. Len(s) \in Nat /\ \A i \in 1..Len(s) : s[i] \in S
  BY Elements
<1> DEFINE m == Len(s)
<1>2. SubSeq(s, n + 1, m) = [i \in 1..(m - n) |-> s[n + i]]
  BY <1>1
<1> QED BY <1>1, <1>2

\* A sequence behind another one.
LEMMA Appended ==
    ASSUME NEW S, NEW s \in Seq(S), NEW t \in Seq(S)
    PROVE  /\ s \o t \in Seq(S) /\ Len(s \o t) = Len(s) + Len(t)
           /\ \A i \in 1..(Len(s) + Len(t)) :
                 (s \o t)[i] = IF i <= Len(s) THEN s[i] ELSE t[i - Len(s)]
OBVIOUS

\* add, for bytes that fit: they queue up behind the others.
LEMMA Adding ==
    ASSUME NEW b \in Ring, NEW s \in Seq(1..MaxBytes), C!Fits(b, s)
    PROVE  /\ C!Add(b, s) \in Ring
           /\ C!Add(b, s).dataLength = b.dataLength + Len(s)
           /\ \A i \in 1..b.dataLength :
                 C!Contents(C!Add(b, s))[i] = C!Contents(b)[i]
           /\ \A i \in 1..Len(s) :
                 C!Contents(C!Add(b, s))[b.dataLength + i] = s[i]
<1> DEFINE n == C!Least(Len(s), C!ContiguousWriteSpace(b))
           c == C!Copy(b, s)
           d == b.dataLength
<1>1. /\ b.writePos \in 0..(Size - 1) /\ b.readPos \in 0..(Size - 1)
      /\ d \in 0..Size /\ Size \in Nat \ {0}
  BY Ringed
<1>2. Len(s) \in Nat /\ Len(s) <= Size - d
  BY DEF C!Fits, C!AvailableSpace
<1>3. n \in Nat
  BY <1>1, <1>2 DEF C!Least, C!ContiguousWriteSpace
<1>4. /\ c \in Ring /\ n <= Len(s) /\ c.readPos = b.readPos
      /\ c.dataLength = d + n
      /\ \A i \in 1..d : C!Contents(c)[i] = C!Contents(b)[i]
      /\ \A i \in 1..n : C!Contents(c)[d + i] = s[i]
      /\ n # Len(s) => c.writePos = 0 /\ b.writePos >= b.readPos
  <2> HIDE DEF n
  <2>1. n = C!Least(Len(s), C!ContiguousWriteSpace(b))
    BY DEF n
  <2> QED BY <1>2, <1>3, <2>1, Copying
<1>5. CASE n = Len(s)
  <2>1. C!Add(b, s) = c
    BY <1>5 DEF C!Add
  <2> HIDE DEF n, c
  <2> QED BY <1>4, <1>5, <2>1
<1>6. CASE n # Len(s)
  <2> DEFINE t == SubSeq(s, n + 1, Len(s))
             e == C!Copy(c, t)
             m == C!Least(Len(t), C!ContiguousWriteSpace(c))
  <2>1. C!Add(b, s) = e
    BY <1>6 DEF C!Add
  <2>2. /\ t \in Seq(1..MaxBytes) /\ Len(t) = Len(s) - n
        /\ \A i \in 1..Len(t) : t[i] = s[n + i]
    <3>1. n \in 0..Len(s)
      BY <1>2, <1>3, <1>4
    <3> HIDE DEF n
    <3> QED BY <3>1, Rests
  <2>3. Len(t) <= Size - c.dataLength /\ Len(t) \in Nat \ {0}
    <3> HIDE DEF n, c, t
    <3> QED BY <1>1, <1>2, <1>3, <1>4, <1>6, <2>2
  <2>4. m = Len(t)
    <3> HIDE DEF n, c, t
    <3>1. c.writePos = 0 /\ c.readPos \in 0..(Size - 1)
      BY <1>1, <1>4, <1>6
    <3>2. c.writePos = Wrapped(c.readPos + c.dataLength) /\ c.dataLength \in 0..Size
      BY <1>4, Ringed
    <3>3. c.readPos + c.dataLength = Size \/ c.readPos + c.dataLength = 0
      <4> DEFINE x == c.readPos + c.dataLength
      <4>1. x \in Nat /\ 0 = Wrapped(x)
        BY <3>1, <3>2
      <4> HIDE DEF x
      <4>2. x = Size \/ x = 0
        BY <1>1, <4>1 DEF Wrapped
      <4> QED BY <4>2 DEF x
    <3>4. c.dataLength # 0
      <4>1. n # 0
        BY <1>1, <1>2, <1>6 DEF n, C!Least, C!ContiguousWriteSpace
      <4> QED BY <1>1, <1>3, <1>4, <4>1
    <3>5. Len(t) <= c.readPos /\ 0 < c.readPos
      BY <1>1, <2>3, <3>1, <3>2, <3>3, <3>4
    <3>6. C!ContiguousWriteSpace(c) = c.readPos
      BY <1>1, <3>1, <3>5 DEF C!ContiguousWriteSpace
    <3>7. ~(Len(t) < c.readPos) => Len(t) = c.readPos
      BY <1>1, <2>3, <3>1, <3>5
    <3> QED BY <3>6, <3>7 DEF m, C!Least
  <2> HIDE DEF n, c, m, t
  <2>5. m \in Nat /\ m = C!Least(Len(t), C!ContiguousWriteSpace(c))
    BY <2>3, <2>4 DEF m
  <2>6. /\ e \in Ring /\ e.dataLength = c.dataLength + m
        /\ \A i \in 1..c.dataLength : C!Contents(e)[i] = C!Contents(c)[i]
        /\ \A i \in 1..m : C!Contents(e)[c.dataLength + i] = t[i]
    BY <1>4, <2>2, <2>3, <2>5, Copying
  <2> HIDE DEF e
  <2>7. e.dataLength = d + Len(s)
    BY <1>1, <1>2, <1>3, <1>4, <2>2, <2>4, <2>6
  <2>8. ASSUME NEW i \in 1..d PROVE C!Contents(e)[i] = C!Contents(b)[i]
    BY <1>1, <1>3, <1>4, <2>6
  <2>9. ASSUME NEW i \in 1..Len(s) PROVE C!Contents(e)[d + i] = s[i]
    <3>1. CASE i <= n
      <4>1. i \in 1..n /\ d + i \in 1..c.dataLength
        BY <1>1, <1>2, <1>3, <1>4, <3>1
      <4> QED BY <1>4, <2>6, <4>1
    <3>2. CASE i > n
      <4> DEFINE j == i - n
      <4>1. j \in 1..m /\ c.dataLength + j = d + i /\ n + j = i
        BY <1>1, <1>2, <1>3, <1>4, <2>2, <2>4, <3>2
      <4> HIDE DEF j
      <4>2. C!Contents(e)[c.dataLength + j] = t[j] /\ t[j] = s[n + j]
        BY <2>2, <2>4, <2>6, <4>1
      <4> QED BY <4>1, <4>2
    <3> QED BY <1>2, <1>3, <3>1, <3>2
  <2> QED BY <2>1, <2>6, <2>7, <2>8, <2>9
<1> QED BY <1>5, <1>6

\* consume: the first bytes go.
LEMMA Consuming ==
    ASSUME NEW b \in Ring, NEW n \in 1..b.dataLength
    PROVE  /\ C!Consume(b, n) \in Ring
           /\ C!Consume(b, n).dataLength = b.dataLength - n
           /\ \A i \in 1..(b.dataLength - n) :
                 C!Contents(C!Consume(b, n))[i] = C!Contents(b)[n + i]
<1> DEFINE w == b.writePos
           r == b.readPos
           d == b.dataLength
           k == b.cells
           c == C!Consume(b, n)
           v == Wrapped(r + n)
           e == d - n
<1>1. /\ k \in [C!Position -> (1..MaxBytes) \cup {0}]
      /\ w \in 0..(Size - 1) /\ r \in 0..(Size - 1) /\ d \in 0..Size
      /\ Size \in Nat \ {0} /\ w = Wrapped(r + d)
  BY Ringed
<1>2. b = [cells |-> k, writePos |-> w, readPos |-> r, dataLength |-> d]
  BY Ringed
<1>3. n \in 1..d
  OBVIOUS
<1>4. C!Least(n, d) = n
  <2>1. ~(n < d) => n = d
    BY <1>1, <1>3
  <2> QED BY <2>1 DEF C!Least
<1> HIDE DEF w, r, d, k
<1>5. (r + n) % Size = v
  <2>1. r + n \in 0..(2 * Size - 1)
    BY <1>1, <1>3
  <2> QED BY <2>1, Wrapping
<1>6. c = [b EXCEPT !.readPos = v, !.dataLength = e]
  <2>1. c = [b EXCEPT !.readPos = (r + C!Least(n, d)) % Size,
                      !.dataLength = d - C!Least(n, d)]
    BY Zenon DEF C!Consume, r, d
  <2> QED BY <1>4, <1>5, <2>1
<1> HIDE DEF c
<1>7. v \in 0..(Size - 1) /\ e \in 0..Size
  BY <1>1, <1>3 DEF Wrapped
<1>8. w = Wrapped(v + e)
  <2>1. CASE r + n < Size
    <3>1. v + e = r + d
      BY <1>1, <1>3, <2>1 DEF Wrapped
    <3> QED BY <1>1, <3>1
  <2>2. CASE r + n >= Size
    <3>1. v + e = (r + d) - Size /\ r + d >= Size /\ v + e < Size
      BY <1>1, <1>3, <2>2 DEF Wrapped
    <3> QED BY <1>1, <3>1 DEF Wrapped
  <2> QED BY <1>1, <1>3, <2>1, <2>2
<1>9. ASSUME NEW i \in 1..e
      PROVE  i \in Nat /\ n + i \in 1..d
             /\ Wrapped(v + i - 1) = Wrapped(r + (n + i) - 1)
  <2>1. i \in Nat /\ n + i \in 1..d
    BY <1>1, <1>3
  <2>2. CASE r + n < Size
    <3>1. v + i - 1 = r + (n + i) - 1
      BY <1>1, <1>3, <2>1, <2>2 DEF Wrapped
    <3> QED BY <2>1, <3>1
  <2>3. CASE r + n >= Size
    <3>1. /\ v + i - 1 = (r + (n + i) - 1) - Size
          /\ r + (n + i) - 1 >= Size /\ v + i - 1 < Size
      BY <1>1, <1>3, <2>1, <2>3 DEF Wrapped
    <3> QED BY <1>1, <1>3, <2>1, <3>1 DEF Wrapped
  <2> QED BY <1>1, <1>3, <2>2, <2>3, <2>1
<1> HIDE DEF v, e
<1>10. /\ c = [cells |-> k, writePos |-> w, readPos |-> v, dataLength |-> e]
       /\ c.cells = k /\ c.writePos = w /\ c.readPos = v /\ c.dataLength = e
  BY <1>2, <1>6
<1>11. c \in Ring
  BY <1>1, <1>7, <1>8, <1>10 DEF Ring, C!Buffer, C!Position
<1>12. ASSUME NEW i \in 1..e PROVE C!Contents(c)[i] = C!Contents(b)[n + i]
  <2>1. C!Contents(c)[i] = k[Wrapped(v + i - 1)]
    BY <1>10, <1>11, ContentsOf
  <2>2. C!Contents(b)[n + i] = k[Wrapped(r + (n + i) - 1)]
    BY <1>9, ContentsOf DEF d, r, k
  <2> QED BY <1>9, <2>1, <2>2
<1> QED BY <1>10, <1>11, <1>12 DEF c, e, d

\* getContiguousData: the first bytes, at least one of those that wait.
LEMMA Slicing ==
    ASSUME NEW b \in Ring, b.dataLength > 0
    PROVE  /\ Len(C!ContiguousData(b)) \in 1..b.dataLength
           /\ \A i \in 1..Len(C!ContiguousData(b)) :
                 C!ContiguousData(b)[i] = C!Contents(b)[i]
<1> DEFINE n == C!ContiguousDataLength(b)
           r == b.readPos
           d == b.dataLength
<1>1. /\ b.writePos \in 0..(Size - 1) /\ r \in 0..(Size - 1) /\ d \in 1..Size
      /\ Size \in Nat \ {0} /\ b.writePos = Wrapped(r + d)
  BY Ringed
<1>2. n \in 1..d /\ r + n <= Size
  <2> DEFINE m == C!ContiguousReadSpace(b)
             w == b.writePos
  <2>1. m = IF r < w THEN w - r ELSE Size - r
    BY <1>1 DEF C!ContiguousReadSpace
  <2>3. n = IF m < d THEN m ELSE d
    BY DEF C!ContiguousDataLength, C!Least
  <2>4. w \in 0..(Size - 1) /\ w = Wrapped(r + d)
    BY <1>1
  <2> HIDE DEF m, w, n, r, d
  <2> QED BY <1>1, <2>1, <2>3, <2>4 DEF Wrapped
<1>3. C!ContiguousData(b) = [i \in 1..n |-> b.cells[r + i - 1]]
  BY DEF C!ContiguousData
<1> HIDE DEF n
<1>4. Len(C!ContiguousData(b)) = n
  BY <1>1, <1>2, <1>3
<1>5. ASSUME NEW i \in 1..n PROVE C!ContiguousData(b)[i] = C!Contents(b)[i]
  <2>1. Wrapped(r + i - 1) = r + i - 1 /\ i \in 1..d
    BY <1>1, <1>2 DEF Wrapped
  <2>2. C!Contents(b)[i] = b.cells[Wrapped(r + i - 1)]
    BY <2>1, ContentsOf
  <2> HIDE DEF r, d
  <2> QED BY <1>3, <2>1, <2>2
<1> QED BY <1>2, <1>4, <1>5
-----------------------------------------------------------------------------
(* The bytes that wait, and those that have been sent or dropped.          *)

\* The buffer is sound; the bytes that wait are in order, none of them has been
\* sent, and no byte is counted that has not been taken.
BytesFit(b, t, s, d) ==
    /\ b \in Ring \cup {Unallocated}
    /\ t \in 0..MaxBytes /\ s \in 0..MaxBytes /\ s <= t /\ d \in Nat
    /\ d + b.dataLength <= t
    /\ \A i \in 1..b.dataLength : s < C!Contents(b)[i] /\ C!Contents(b)[i] <= t
    /\ \A i, j \in 1..b.dataLength :
          i < j => C!Contents(b)[i] < C!Contents(b)[j]

\* Two sequences that agree everywhere.
LEMMA Same ==
    ASSUME NEW S, NEW T, NEW s \in Seq(S), NEW t \in Seq(T), Len(s) = Len(t),
           \A i \in 1..Len(s) : s[i] = t[i]
    PROVE  s = t
<1>1. s = [i \in 1..Len(s) |-> s[i]] /\ t = [i \in 1..Len(t) |-> t[i]]
  OBVIOUS
<1> QED BY <1>1

\* An empty buffer, and none at all, stand for the empty queue.
LEMMA NothingWaits ==
    ASSUME NEW b, b.dataLength = 0 PROVE C!Contents(b) = <<>>
<1> DEFINE cell(i) == b.cells[(b.readPos + i - 1) % Size]
<1>1. C!Contents(b) = [i \in 1..b.dataLength |-> cell(i)]
  BY DEF C!Contents
<1> HIDE DEF cell
<1> QED BY <1>1

\* Buffers with nothing in them.
LEMMA Emptied ==
    /\ C!EmptyBuffer \in Ring /\ C!EmptyBuffer.dataLength = 0
    /\ Unallocated.dataLength = 0
    /\ \A b \in Ring : C!Clear(b) \in Ring /\ C!Clear(b).dataLength = 0
<1>1. Size \in Nat \ {0} /\ 0 \in 0..(Size - 1) /\ 0 \in 0..Size /\ Wrapped(0) = 0
  BY WebSerialAssumption DEF Wrapped
<1>2. C!EmptyBuffer \in Ring /\ C!EmptyBuffer.dataLength = 0
  BY <1>1 DEF C!EmptyBuffer, Ring, C!Buffer, C!Position
<1>3. Unallocated.dataLength = 0
  BY DEF Unallocated
<1>4. ASSUME NEW b \in Ring PROVE C!Clear(b) \in Ring /\ C!Clear(b).dataLength = 0
  <2> DEFINE k == b.cells
             w == b.writePos
             r == b.readPos
             d == b.dataLength
  <2>1. /\ k \in [C!Position -> (1..MaxBytes) \cup {0}]
        /\ b = [cells |-> k, writePos |-> w, readPos |-> r, dataLength |-> d]
    BY Ringed
  <2> HIDE DEF k, w, r, d
  <2> DEFINE c == C!Clear(b)
  <2>2. c = [b EXCEPT !.writePos = 0, !.readPos = 0, !.dataLength = 0]
    BY Zenon DEF C!Clear
  <2> HIDE DEF c
  <2>3. /\ c = [cells |-> k, writePos |-> 0, readPos |-> 0, dataLength |-> 0]
        /\ c.writePos = 0 /\ c.readPos = 0 /\ c.dataLength = 0
    BY <2>1, <2>2
  <2>4. c \in Ring
    BY <1>1, <2>1, <2>3 DEF Ring, C!Buffer, C!Position
  <2> QED BY <2>3, <2>4 DEF c
<1> QED BY <1>2, <1>3, <1>4

\* A message of m bytes that fits is taken.
LEMMA Taking ==
    ASSUME NEW b \in Ring, NEW t, NEW s, NEW d, BytesFit(b, t, s, d),
           NEW m \in Nat \ {0}, t + m <= MaxBytes,
           NEW bytes \in Seq(1..MaxBytes), Len(bytes) = m,
           \A i \in 1..m : bytes[i] = t + i, C!Fits(b, bytes)
    PROVE  /\ C!Add(b, bytes) \in Ring /\ BytesFit(C!Add(b, bytes), t + m, s, d)
           /\ Len(C!Contents(b)) + m <= Size
           /\ C!Contents(C!Add(b, bytes)) = C!Contents(b) \o bytes
<1> DEFINE c == C!Add(b, bytes)
           B == (1..MaxBytes) \cup {0}
<1>1. /\ t \in 0..MaxBytes /\ s \in 0..MaxBytes /\ s <= t /\ d \in Nat
      /\ MaxBytes \in Nat
      /\ d + b.dataLength <= t /\ b.dataLength \in Nat
      /\ \A i \in 1..b.dataLength : s < C!Contents(b)[i] /\ C!Contents(b)[i] <= t
      /\ \A i, j \in 1..b.dataLength :
            i < j => C!Contents(b)[i] < C!Contents(b)[j]
  BY Ringed, WebSerialAssumption DEF BytesFit
<1>2. \A i \in 1..m : bytes[i] \in B
  <2>1. \A i \in 1..Len(bytes) : bytes[i] \in 1..MaxBytes
    BY Elements
  <2> QED BY <2>1
<1>3. /\ C!Contents(b) \in Seq(B) /\ Len(C!Contents(b)) = b.dataLength
      /\ \A i \in 1..b.dataLength : C!Contents(b)[i] \in B
  <2>1. C!Contents(b) \in Seq(B) /\ Len(C!Contents(b)) = b.dataLength
    BY ContentsOf
  <2> HIDE DEF B
  <2> QED BY <2>1, Elements
<1>4. /\ c \in Ring /\ c.dataLength = b.dataLength + m
      /\ \A i \in 1..b.dataLength : C!Contents(c)[i] = C!Contents(b)[i]
      /\ \A i \in 1..m : C!Contents(c)[b.dataLength + i] = bytes[i]
  BY Adding
<1> HIDE DEF c
<1>5. C!Contents(c) \in Seq(B) /\ Len(C!Contents(c)) = b.dataLength + m
  BY <1>4, ContentsOf
<1> DEFINE old == C!Contents(b)
           new == C!Contents(c)
           n == b.dataLength
<1>6. b.dataLength + m <= Size
  BY <1>1, <1>2, Ringed DEF C!Fits, C!AvailableSpace
<1> HIDE DEF old, new, n
<1>7. /\ n \in Nat /\ d + n <= t
      /\ \A i \in 1..n : s < old[i] /\ old[i] <= t /\ old[i] \in B /\ new[i] = old[i]
      /\ \A i, j \in 1..n : i < j => old[i] < old[j]
      /\ \A i \in 1..m : new[n + i] = t + i
      /\ old \in Seq(B) /\ new \in Seq(B) /\ Len(old) = n /\ Len(new) = n + m
  BY <1>1, <1>2, <1>3, <1>4, <1>5 DEF old, new, n
<1>8. ASSUME NEW i \in 1..(n + m)
      PROVE  \/ i \in 1..n /\ new[i] = old[i]
             \/ i \notin 1..n /\ i - n \in 1..m /\ new[i] = t + (i - n)
  <2>1. CASE i <= n
    BY <1>7, <2>1
  <2>2. CASE i > n
    <3> DEFINE j == i - n
    <3>1. j \in 1..m /\ n + j = i /\ i \notin 1..n
      BY <1>7, <2>2
    <3> HIDE DEF j
    <3>2. new[n + j] = t + j
      BY <1>7, <3>1
    <3> QED BY <3>1, <3>2 DEF j
  <2> QED BY <1>7, <2>1, <2>2
<1>9. new = old \o bytes
  <2>1. /\ old \o bytes \in Seq(B) /\ Len(old \o bytes) = n + m
        /\ \A i \in 1..(n + m) :
              (old \o bytes)[i] = IF i <= n THEN old[i] ELSE bytes[i - n]
    <3>1. bytes \in Seq(B)
      BY <1>2
    <3> HIDE DEF B
    <3> QED BY <1>7, <3>1, Appended
  <2>2. ASSUME NEW i \in 1..(n + m) PROVE new[i] = (old \o bytes)[i]
    <3>1. CASE i \in 1..n /\ new[i] = old[i]
      <4>1. i <= n
        BY <3>1
      <4> QED BY <2>1, <3>1, <4>1, Zenon
    <3>2. CASE i \notin 1..n /\ i - n \in 1..m /\ new[i] = t + (i - n)
      <4>1. ~(i <= n) /\ bytes[i - n] = t + (i - n)
        BY <1>7, <3>2
      <4> QED BY <2>1, <3>2, <4>1, Zenon
    <3> QED BY <1>8, <3>1, <3>2
  <2> QED BY <1>7, <2>1, <2>2, Same
<1>10. \A i \in 1..(n + m) : s < new[i] /\ new[i] <= t + m
  <2> SUFFICES ASSUME NEW i \in 1..(n + m) PROVE s < new[i] /\ new[i] <= t + m
    OBVIOUS
  <2>1. CASE i \in 1..n /\ new[i] = old[i]
    <3>1. s < old[i] /\ old[i] <= t /\ old[i] \in Nat
      BY <1>1, <1>7, <2>1
    <3> QED BY <1>1, <2>1, <3>1
  <2>2. CASE i \notin 1..n /\ i - n \in 1..m /\ new[i] = t + (i - n)
    <3> DEFINE j == i - n
    <3>1. j \in 1..m /\ new[i] = t + j
      BY <2>2
    <3>2. s <= t
      BY <1>1
    <3> HIDE DEF j
    <3> QED BY <1>1, <3>1, <3>2
  <2> QED BY <1>8, <2>1, <2>2
<1>11. \A i, j \in 1..(n + m) : i < j => new[i] < new[j]
  <2> SUFFICES ASSUME NEW i \in 1..(n + m), NEW j \in 1..(n + m), i < j
               PROVE  new[i] < new[j]
    OBVIOUS
  <2>1. CASE j \in 1..n /\ new[j] = old[j]
    <3>1. i \in 1..n
      BY <1>7, <2>1
    <3> QED BY <1>7, <2>1, <3>1
  <2>2. CASE j \notin 1..n /\ j - n \in 1..m /\ new[j] = t + (j - n)
    <3>1. CASE i \in 1..n /\ new[i] = old[i]
      <4>1. old[i] <= t /\ old[i] \in Nat
        BY <1>7, <3>1
      <4> QED BY <1>1, <1>7, <2>2, <3>1, <4>1
    <3>2. CASE i \notin 1..n /\ i - n \in 1..m /\ new[i] = t + (i - n)
      BY <1>1, <1>7, <2>2, <3>2
    <3> QED BY <1>8, <3>1, <3>2
  <2> QED BY <1>8, <2>1, <2>2
<1>12. d + (n + m) <= t + m /\ t + m \in 0..MaxBytes
  BY <1>1, <1>7
<1>13. BytesFit(c, t + m, s, d)
  BY <1>1, <1>4, <1>10, <1>11, <1>12 DEF BytesFit, new, n
<1> QED BY <1>4, <1>6, <1>9, <1>13, <1>3 DEF c, old, new, n

\* The first n bytes go: they have been sent, or they are dropped.
LEMMA Leaving ==
    ASSUME NEW b \in Ring, NEW t, NEW s, NEW d, BytesFit(b, t, s, d),
           NEW c \in Ring, NEW n \in 1..b.dataLength,
           c.dataLength = b.dataLength - n,
           \A i \in 1..(b.dataLength - n) : C!Contents(c)[i] = C!Contents(b)[n + i]
    PROVE  /\ BytesFit(c, t, s, d + n) /\ BytesFit(c, t, C!Contents(b)[n], d)
           /\ s < C!Contents(b)[1] /\ Len(C!Contents(b)) = b.dataLength
           /\ C!Contents(c) = SubSeq(C!Contents(b), n + 1, Len(C!Contents(b)))
<1> DEFINE B == (1..MaxBytes) \cup {0}
           old == C!Contents(b)
           new == C!Contents(c)
           l == b.dataLength
<1>1. /\ t \in 0..MaxBytes /\ s \in 0..MaxBytes /\ s <= t /\ d \in Nat
      /\ MaxBytes \in Nat
      /\ d + l <= t /\ l \in Nat /\ n \in 1..l
      /\ \A i \in 1..l : s < old[i] /\ old[i] <= t
      /\ \A i, j \in 1..l : i < j => old[i] < old[j]
      /\ \A i \in 1..(l - n) : new[i] = old[n + i]
  BY Ringed, WebSerialAssumption DEF BytesFit
<1>2. old \in Seq(B) /\ Len(old) = l /\ new \in Seq(B) /\ Len(new) = l - n
  BY ContentsOf
<1>3. \A i \in 1..l : old[i] \in B
  <2> HIDE DEF old, B
  <2> QED BY <1>2, Elements
<1> HIDE DEF old, new, l
<1>4. new = SubSeq(old, n + 1, Len(old))
  <2> DEFINE rest == SubSeq(old, n + 1, Len(old))
  <2>1. /\ rest \in Seq(B) /\ Len(rest) = l - n
        /\ \A i \in 1..(l - n) : rest[i] = old[n + i]
    <3>1. n \in 0..Len(old)
      BY <1>1, <1>2
    <3> HIDE DEF B
    <3> QED BY <1>2, <3>1, Rests
  <2> HIDE DEF rest, B
  <2>2. \A i \in 1..Len(new) : new[i] = rest[i]
    BY <1>1, <1>2, <2>1
  <2>3. Len(new) = Len(rest)
    BY <1>2, <2>1
  <2>4. new = rest
    BY <1>2, <2>1, <2>2, <2>3, Same
  <2> QED BY <2>4 DEF rest
<1>5. c.dataLength = l - n /\ l - n \in Nat
  BY <1>1 DEF l
<1>6. old[n] \in 0..MaxBytes /\ old[n] <= t /\ s < old[1]
  BY <1>1, <1>3
<1>7. \A i \in 1..(l - n) : /\ n + i \in 1..l /\ new[i] = old[n + i]
                            /\ s < new[i] /\ new[i] <= t /\ old[n] < new[i]
  BY <1>1
<1>8. \A i, j \in 1..(l - n) : i < j => new[i] < new[j]
  BY <1>1, <1>7
<1>9. d + n \in Nat /\ (d + n) + (l - n) <= t /\ d + (l - n) <= t
  BY <1>1
<1>10. BytesFit(c, t, s, d + n)
  BY <1>1, <1>5, <1>7, <1>8, <1>9 DEF BytesFit, new
<1>11. BytesFit(c, t, old[n], d)
  BY <1>1, <1>5, <1>6, <1>7, <1>8, <1>9 DEF BytesFit, new
<1> QED BY <1>2, <1>4, <1>6, <1>10, <1>11 DEF old, new, l
\* The task has a message in hand only with a buffer for it, and it is at work
\* only while WebSerial is enabled; without WebSerial there is no buffer.
InHand == at \in {"add", "forced", "retry"}

PipeFits ==
    /\ enabled \in BOOLEAN /\ lastFlush \in {"recent", "elapsed", "future"}
    /\ at \in {"idle", "add", "forced", "retry", "check", "eager", "periodic",
               "cleanup", "last", "end"}
    /\ message \in Lengths \cup {0}
    /\ BytesFit(buffer, taken, sent, dropped)
    /\ InHand => buffer \in Ring /\ message \in Lengths /\ taken + message <= MaxBytes
    /\ at # "idle" => enabled
    /\ ~enabled => buffer = Unallocated

\* What a step of the task has to do to the pipe.
PipeMoves == PipeFits' /\ (Pipe!Next \/ UNCHANGED Pipe!vars)

\* What waits stays as it is: no step of the pipe.
LEMMA PipeRests ==
    ASSUME PipeFits, UNCHANGED <<enabled, taken, sent, dropped>>,
           \/ UNCHANGED buffer
           \/ /\ buffer' \in Ring \cup {Unallocated} /\ DataLength = 0
              /\ buffer'.dataLength = 0
    PROVE  /\ BytesFit(buffer, taken, sent, dropped)' /\ UNCHANGED Pipe!vars
           /\ taken' = taken
<1>1. BytesFit(buffer, taken, sent, dropped)
  BY DEF PipeFits
<1>2. CASE UNCHANGED buffer
  BY <1>1, <1>2 DEF Pipe!vars, BytesFit
<1>3. CASE /\ buffer' \in Ring \cup {Unallocated} /\ DataLength = 0
           /\ buffer'.dataLength = 0
  <2>1. C!Contents(buffer) = <<>> /\ C!Contents(buffer') = <<>>
    BY <1>3, NothingWaits DEF DataLength
  <2>2. BytesFit(buffer, taken, sent, dropped)'
    BY <1>1, <1>3 DEF BytesFit, DataLength
  <2> QED BY <2>1, <2>2 DEF Pipe!vars
<1> QED BY <1>2, <1>3

\* addToBuffer: the message is taken, refused, or waits for a flush.
LEMMA AddMoves == ASSUME PipeFits, AddToBuffer PROVE PipeMoves
<1> DEFINE bytes == [i \in 1..message |-> taken + i]
<1>1. /\ buffer \in Ring /\ message \in Nat \ {0} /\ message \in Lengths
      /\ taken + message <= MaxBytes /\ enabled /\ taken \in 0..MaxBytes
      /\ sent \in 0..MaxBytes /\ MaxBytes \in Nat /\ dropped \in Nat
      /\ message \in 1..MaxBytes
      /\ BytesFit(buffer, taken, sent, dropped)
  BY WebSerialAssumption DEF PipeFits, AddToBuffer, InHand, BytesFit
<1>2. UNCHANGED <<enabled, lastFlush>>
  BY DEF AddToBuffer
<1>3. /\ bytes \in Seq(1..MaxBytes) /\ Len(bytes) = message
      /\ \A i \in 1..message : bytes[i] = taken + i
  BY <1>1
<1>4. bytes = Pipe!Following(message)
  BY DEF Pipe!Following
<1>5. CASE C!Fits(buffer, bytes)
  <2>1. /\ buffer' = C!Add(buffer, bytes) /\ taken' = taken + message
        /\ at' = "check" /\ message' = 0 /\ dropped' = dropped /\ sent' = sent
    BY <1>5 DEF AddToBuffer
  <2> HIDE DEF bytes
  <2>2. /\ buffer' \in Ring /\ BytesFit(buffer', taken', sent', dropped')
        /\ Len(C!Contents(buffer)) + message <= Size
        /\ C!Contents(buffer') = C!Contents(buffer) \o bytes
    <3>1. /\ C!Add(buffer, bytes) \in Ring
          /\ BytesFit(C!Add(buffer, bytes), taken + message, sent, dropped)
          /\ Len(C!Contents(buffer)) + message <= Size
          /\ C!Contents(C!Add(buffer, bytes)) = C!Contents(buffer) \o bytes
      BY <1>1, <1>3, <1>5, Taking
    <3> QED BY <2>1, <3>1
  <2>3. Pipe!Put(message)
    BY <1>2, <1>4, <2>1, <2>2 DEF Pipe!Put
  <2>4. Pipe!Next
    BY <1>1, <2>3 DEF Pipe!Next
  <2>5. PipeFits'
    BY <1>1, <1>2, <2>1, <2>2 DEF PipeFits, InHand, BytesFit
  <2> QED BY <2>4, <2>5 DEF PipeMoves
<1>6. CASE ~C!Fits(buffer, bytes) /\ at = "add"
  <2>1. at' = "forced" /\ UNCHANGED <<buffer, taken, sent, dropped, message>>
    BY <1>6 DEF AddToBuffer, pipe
  <2>2. UNCHANGED <<enabled, taken, sent, dropped>> /\ UNCHANGED buffer
    BY <1>2, <2>1
  <2>3. BytesFit(buffer, taken, sent, dropped)' /\ UNCHANGED Pipe!vars
    BY <2>2, PipeRests
  <2> QED BY <1>1, <1>2, <2>1, <2>3 DEF PipeMoves, PipeFits, InHand
<1>7. CASE ~C!Fits(buffer, bytes) /\ at # "add"
  <2>1. /\ dropped' = dropped + message /\ taken' = taken + message
        /\ at' = "check" /\ message' = 0 /\ buffer' = buffer /\ sent' = sent
    BY <1>7 DEF AddToBuffer
  <2>2. BytesFit(buffer, taken, sent, dropped)'
    <3> DEFINE t == taken + message
               d == dropped + message
    <3>1. /\ t \in 0..MaxBytes /\ d \in Nat /\ d + buffer.dataLength <= t
          /\ taken <= t /\ sent <= t
      BY <1>1, Ringed DEF BytesFit
    <3> HIDE DEF t, d
    <3>2. \A i \in 1..buffer.dataLength : C!Contents(buffer)[i] <= t
      <4>1. \A i \in 1..buffer.dataLength :
               C!Contents(buffer)[i] <= taken /\ C!Contents(buffer)[i] \in Nat
        <5>1. C!Contents(buffer) \in Seq((1..MaxBytes) \cup {0})
              /\ Len(C!Contents(buffer)) = buffer.dataLength
          BY <1>1, ContentsOf
        <5>2. \A i \in 1..buffer.dataLength :
                 C!Contents(buffer)[i] \in (1..MaxBytes) \cup {0}
          BY <5>1, Elements
        <5> QED BY <1>1, <5>2 DEF BytesFit
      <4> QED BY <1>1, <3>1, <4>1
    <3>3. BytesFit(buffer, t, sent, d)
      BY <1>1, <3>1, <3>2 DEF BytesFit
    <3> QED BY <2>1, <3>3 DEF t, d
  <2>3. Pipe!Refuse(message)
    BY <1>2, <2>1 DEF Pipe!Refuse
  <2>4. Pipe!Next
    BY <1>1, <2>3 DEF Pipe!Next
  <2> QED BY <1>1, <1>2, <2>1, <2>2, <2>4 DEF PipeMoves, PipeFits, InHand
<1> QED BY <1>5, <1>6, <1>7

\* flushBuffer: the oldest bytes are sent or dropped, or all of them dropped.
LEMMA FlushMoves ==
    ASSUME PipeFits, NEW critical \in BOOLEAN, NEW discarded \in BOOLEAN,
           Flush(critical, discarded)
    PROVE  PipeMoves
<1>1. /\ BytesFit(buffer, taken, sent, dropped) /\ enabled
      /\ lastFlush \in {"recent", "elapsed", "future"}
      /\ message \in Lengths \cup {0} /\ DataLength \in 0..Size /\ Size \in Nat
      /\ dropped + DataLength <= taken /\ taken \in 0..MaxBytes /\ dropped \in Nat
      /\ MaxBytes \in Nat /\ DataLength <= MaxBytes
  <2>1. buffer.dataLength \in 0..Size /\ Size \in Nat
    BY Ringed, Emptied, WebSerialAssumption DEF PipeFits, BytesFit
  <2> QED BY <2>1, WebSerialAssumption DEF PipeFits, BytesFit, Flush, DataLength
<1>2. /\ FlushBuffer(critical, discarded) /\ enabled' = enabled
      /\ message' = message
      /\ at' \in {"retry", "cleanup", "end", "idle"}
      /\ at' = "retry" => at = "forced"
  BY DEF Flush, AfterFlush
<1>3. lastFlush' \in {"recent", "elapsed", "future"}
  BY <1>1, <1>2 DEF FlushBuffer
<1>4. ASSUME BytesFit(buffer, taken, sent, dropped)', taken' = taken,
             buffer \in Ring => buffer' \in Ring
      PROVE  PipeFits'
  <2>1. at' = "retry" => /\ buffer' \in Ring /\ message' \in Lengths
                         /\ taken' + message' <= MaxBytes
    BY <1>2, <1>4 DEF PipeFits, InHand
  <2> QED BY <1>1, <1>2, <1>3, <1>4, <2>1 DEF PipeFits, InHand
<1>5. CASE UNCHANGED pipe
  <2>1. UNCHANGED <<enabled, taken, sent, dropped>> /\ UNCHANGED buffer
    BY <1>2, <1>5 DEF pipe
  <2>2. BytesFit(buffer, taken, sent, dropped)' /\ UNCHANGED Pipe!vars
    BY <2>1, PipeRests
  <2> QED BY <1>4, <2>1, <2>2 DEF PipeMoves
<1>6. ASSUME DataLength > 0, NEW n \in 1..DataLength, buffer' \in Ring,
             buffer'.dataLength = DataLength - n,
             \A i \in 1..(DataLength - n) :
                C!Contents(buffer')[i] = C!Contents(buffer)[n + i],
             taken' = taken,
             \/ dropped' = dropped + n /\ sent' = sent
             \/ dropped' = dropped /\ sent' = C!Contents(buffer)[n]
      PROVE  PipeMoves
  <2>1. buffer \in Ring
    BY <1>1, <1>6, Emptied DEF BytesFit, DataLength
  <2>2. /\ BytesFit(buffer', taken, sent, dropped + n)
        /\ BytesFit(buffer', taken, C!Contents(buffer)[n], dropped)
        /\ sent < C!Contents(buffer)[1]
        /\ Len(C!Contents(buffer)) = DataLength
        /\ C!Contents(buffer') =
               SubSeq(C!Contents(buffer), n + 1, Len(C!Contents(buffer)))
    BY <1>1, <1>6, <2>1, Leaving DEF DataLength
  <2>3. BytesFit(buffer, taken, sent, dropped)'
    BY <1>6, <2>2
  <2>4. n \in 1..MaxBytes /\ n \in 1..Len(C!Contents(buffer))
    BY <1>1, <2>2
  <2>5. Pipe!Drop(n) \/ Pipe!Send(n)
    BY <1>2, <1>6, <2>2, <2>4 DEF Pipe!Drop, Pipe!Send
  <2>6. Pipe!Next
    BY <1>1, <2>4, <2>5 DEF Pipe!Next
  <2> QED BY <1>4, <1>6, <2>1, <2>3, <2>6 DEF PipeMoves
<1>7. CASE DataLength > 0 /\ DropAll
  <2>1. buffer \in Ring
    BY <1>1, <1>7, Emptied DEF BytesFit, DataLength
  <2>2. buffer' \in Ring /\ buffer'.dataLength = 0
    BY <1>7, <2>1, Emptied DEF DropAll
  <2> DEFINE n == DataLength
  <2>3. n \in 1..DataLength /\ DataLength - n = 0 /\ 1..(DataLength - n) = {}
    BY <1>1, <1>7
  <2>4. dropped' = dropped + n /\ sent' = sent /\ taken' = taken
    BY <1>7 DEF DropAll
  <2> HIDE DEF n
  <2> QED BY <1>6, <1>7, <2>2, <2>3, <2>4
<1>8. CASE DataLength > 0 /\ SendSlice(discarded)
  <2> DEFINE slice == C!ContiguousData(buffer)
             n == Len(slice)
  <2>1. buffer \in Ring
    BY <1>1, <1>8, Emptied DEF BytesFit, DataLength
  <2>2. n \in 1..DataLength /\ slice[n] = C!Contents(buffer)[n]
    BY <1>8, <2>1, Slicing DEF DataLength
  <2>3. /\ buffer' = C!Consume(buffer, n) /\ taken' = taken
        /\ \/ dropped' = dropped + n /\ sent' = sent
           \/ dropped' = dropped /\ sent' = slice[n]
    BY <1>8 DEF SendSlice
  <2> HIDE DEF slice, n
  <2>4. /\ C!Consume(buffer, n) \in Ring
        /\ C!Consume(buffer, n).dataLength = DataLength - n
        /\ \A i \in 1..(DataLength - n) :
              C!Contents(C!Consume(buffer, n))[i] = C!Contents(buffer)[n + i]
    BY <2>1, <2>2, Consuming DEF DataLength
  <2> QED BY <1>6, <1>8, <2>2, <2>3, <2>4
<1>9. \/ UNCHANGED pipe
      \/ DataLength > 0 /\ DropAll
      \/ DataLength > 0 /\ SendSlice(discarded)
  BY <1>1, <1>2 DEF FlushBuffer, pipe
<1> QED BY <1>5, <1>7, <1>8, <1>9
\* The steps of the task that leave what waits alone.
LEMMA QuietMoves ==
    ASSUME PipeFits,
           \/ \E n \in Lengths : Send(n)
           \/ \E due \in BOOLEAN, load \in [Active -> Load] :
                 LoopStart(due, load) \/ Check(due, load)
           \/ \E due, critical \in BOOLEAN, load \in [Active -> Load] :
                 LoopEnd(due, load, critical)
           \/ EndStart \/ Tick
    PROVE  PipeMoves
<1>1. /\ BytesFit(buffer, taken, sent, dropped)
      /\ enabled \in BOOLEAN /\ message \in Lengths \cup {0}
      /\ lastFlush \in {"recent", "elapsed", "future"}
      /\ ~enabled => buffer = Unallocated /\ at = "idle"
  BY DEF PipeFits
<1>2. ASSUME UNCHANGED <<enabled, taken, sent, dropped>>,
             \/ UNCHANGED buffer
             \/ /\ buffer' \in Ring \cup {Unallocated} /\ DataLength = 0
                /\ buffer'.dataLength = 0,
             enabled \/ UNCHANGED <<buffer, at>>,
             \/ at' \in {"idle", "check", "eager", "periodic", "cleanup", "last",
                        "end"}
             \/ /\ at' = "add" /\ buffer' \in Ring /\ message' \in Lengths
                /\ taken + message' <= MaxBytes,
             message' \in Lengths \cup {0},
             lastFlush' \in {"recent", "elapsed", "future"}
      PROVE  PipeMoves
  <2>1. /\ BytesFit(buffer, taken, sent, dropped)' /\ UNCHANGED Pipe!vars
        /\ taken' = taken
    BY <1>2, PipeRests
  <2>2. PipeFits'
    BY <1>1, <1>2, <2>1 DEF PipeFits, InHand
  <2> QED BY <2>1, <2>2 DEF PipeMoves
<1>3. ASSUME NEW n \in Lengths, Send(n) PROVE PipeMoves
  <2>1. /\ UNCHANGED <<enabled, taken, sent, dropped>> /\ enabled
        /\ lastFlush' = lastFlush /\ message' = n /\ at' = "add"
        /\ taken + n <= MaxBytes
    BY <1>3 DEF Send, HasConnections
  <2>2. /\ buffer' \in Ring
        /\ \/ UNCHANGED buffer
           \/ DataLength = 0 /\ buffer'.dataLength = 0
    <3>1. CASE Allocated
      BY <1>1, <1>3, <3>1 DEF Send, Allocated, BytesFit
    <3>2. CASE ~Allocated
      BY <1>3, <3>2, Emptied DEF Send, Allocated, DataLength
    <3> QED BY <3>1, <3>2
  <2> QED BY <1>1, <1>2, <2>1, <2>2
<1>4. ASSUME NEW due \in BOOLEAN, NEW load \in [Active -> Load],
             LoopStart(due, load) \/ Check(due, load)
      PROVE  PipeMoves
  <2>1. /\ UNCHANGED <<enabled, taken, sent, dropped>> /\ UNCHANGED buffer
        /\ message' = message /\ lastFlush' = lastFlush /\ enabled
        /\ at' \in {"periodic", "cleanup", "eager", "idle"}
    BY <1>1, <1>4 DEF LoopStart, Check, pipe
  <2> QED BY <1>1, <1>2, <2>1
<1>5. ASSUME NEW due \in BOOLEAN, NEW critical \in BOOLEAN,
             NEW load \in [Active -> Load], LoopEnd(due, load, critical)
      PROVE  PipeMoves
  <2>1. /\ UNCHANGED <<enabled, taken, sent, dropped>>
        /\ message' = message /\ lastFlush' = lastFlush /\ enabled /\ at' = "idle"
    BY <1>1, <1>5 DEF LoopEnd
  <2>2. \/ UNCHANGED buffer
        \/ DataLength = 0 /\ buffer' = Unallocated
    BY <1>5 DEF LoopEnd, Housekeep
  <2>3. \/ UNCHANGED buffer
        \/ /\ buffer' \in Ring \cup {Unallocated} /\ DataLength = 0
           /\ buffer'.dataLength = 0
    BY <2>2, Emptied
  <2> QED BY <1>1, <1>2, <2>1, <2>3
<1>6. CASE EndStart
  <2>1. /\ UNCHANGED <<enabled, taken, sent, dropped>> /\ UNCHANGED buffer
        /\ message' = message /\ lastFlush' = lastFlush /\ enabled
        /\ at' \in {"last", "end"}
    BY <1>6 DEF EndStart, pipe
  <2> QED BY <1>1, <1>2, <2>1
<1>7. CASE Tick
  <2>1. /\ UNCHANGED <<enabled, taken, sent, dropped>> /\ UNCHANGED <<buffer, at>>
        /\ message' = message /\ lastFlush' \in {"recent", "elapsed"}
        /\ at' = "idle"
    BY <1>7 DEF Tick, pipe
  <2> QED BY <1>1, <1>2, <2>1
<1> QED BY <1>3, <1>4, <1>5, <1>6, <1>7

\* The pipe is closed with what waits in it, and opened again empty.
LEMMA CloseAndOpen ==
    ASSUME PipeFits, End \/ \E allocated \in BOOLEAN : Begin(allocated)
    PROVE  PipeMoves
<1>1. /\ BytesFit(buffer, taken, sent, dropped)
      /\ message \in Lengths \cup {0}
      /\ lastFlush \in {"recent", "elapsed", "future"}
      /\ ~enabled => buffer = Unallocated /\ at = "idle"
      /\ MaxBytes \in Nat /\ 0 \in 0..MaxBytes
  BY WebSerialAssumption DEF PipeFits
<1>2. Unallocated.dataLength = 0 /\ C!Contents(Unallocated) = <<>>
  BY Emptied, NothingWaits
<1>3. CASE End
  <2>1. /\ enabled /\ enabled' = FALSE /\ buffer' = Unallocated /\ at' = "idle"
        /\ UNCHANGED <<lastFlush, message, taken, sent, dropped>>
    BY <1>3 DEF End, PipeFits
  <2>2. BytesFit(Unallocated, taken, sent, dropped)
    <3>1. dropped + 0 <= taken
      <4>1. buffer.dataLength \in Nat /\ Size \in Nat
        BY <1>1, Ringed, Emptied, WebSerialAssumption DEF BytesFit
      <4> QED BY <1>1, <4>1 DEF BytesFit
    <3> QED BY <1>1, <1>2, <3>1 DEF BytesFit
  <2>3. PipeFits'
    BY <1>1, <2>1, <2>2 DEF PipeFits, InHand
  <2>4. Pipe!Close
    BY <1>2, <2>1 DEF Pipe!Close
  <2> QED BY <2>3, <2>4 DEF PipeMoves, Pipe!Next
<1>4. ASSUME NEW allocated \in BOOLEAN, Begin(allocated) PROVE PipeMoves
  <2>1. /\ ~enabled /\ enabled' \in BOOLEAN /\ buffer = Unallocated
        /\ buffer' = Unallocated /\ at' = "idle" /\ message' = message
        /\ lastFlush' = "recent" /\ taken' = 0 /\ sent' = 0 /\ dropped' = 0
    BY <1>1, <1>4 DEF Begin
  <2>2. BytesFit(Unallocated, 0, 0, 0)
    BY <1>1, <1>2 DEF BytesFit
  <2>3. PipeFits'
    BY <1>1, <2>1, <2>2 DEF PipeFits, InHand
  <2>4. Pipe!Open
    BY <2>1 DEF Pipe!Open
  <2> QED BY <2>3, <2>4 DEF PipeMoves, Pipe!Next
<1> QED BY <1>3, <1>4

\* Every step of WebSerial is one of the pipe or none.
LEMMA PipeStep == PipeFits /\ [Next]_vars => PipeMoves
<1> SUFFICES ASSUME PipeFits, [Next]_vars PROVE PipeMoves
  OBVIOUS
<1>1. ASSUME UNCHANGED <<enabled, pipe, lastFlush, at, message>> PROVE PipeMoves
  <2>1. UNCHANGED <<enabled, taken, sent, dropped>> /\ UNCHANGED buffer
    BY <1>1 DEF pipe
  <2>2. BytesFit(buffer, taken, sent, dropped)' /\ UNCHANGED Pipe!vars
    BY <2>1, PipeRests
  <2> QED BY <1>1, <2>1, <2>2 DEF PipeMoves, PipeFits, InHand
<1>2. CASE UNCHANGED vars
  BY <1>1, <1>2 DEF vars, pipe
<1>3. ASSUME NEW c \in Client, NEW takeover \in BOOLEAN, NEW critical \in BOOLEAN,
             Connect(c, takeover, critical)
      PROVE  PipeMoves
  BY <1>1, <1>3 DEF Connect
<1>4. ASSUME NEW c \in Client, Break(c) \/ Disconnect(c) PROVE PipeMoves
  BY <1>1, <1>4 DEF Break, Disconnect
<1>5. CASE \/ \E n \in Lengths : Send(n)
           \/ \E due \in BOOLEAN, load \in [Active -> Load] :
                 LoopStart(due, load) \/ Check(due, load)
           \/ \E due, critical \in BOOLEAN, load \in [Active -> Load] :
                 LoopEnd(due, load, critical)
           \/ EndStart \/ Tick
  BY <1>5, QuietMoves
<1>6. CASE End \/ \E allocated \in BOOLEAN : Begin(allocated)
  BY <1>6, CloseAndOpen
<1>7. CASE AddToBuffer
  BY <1>7, AddMoves
<1>8. ASSUME NEW critical \in BOOLEAN, NEW discarded \in BOOLEAN,
             Flush(critical, discarded)
      PROVE  PipeMoves
  BY <1>8, FlushMoves
<1> QED BY <1>2, <1>3, <1>4, <1>5, <1>6, <1>7, <1>8, Zenon DEF Next, Continue

\* WebSerial begins as the pipe does.
LEMMA PipeInitially == Init => PipeFits /\ Pipe!Init
<1> SUFFICES ASSUME Init PROVE PipeFits /\ Pipe!Init
  OBVIOUS
<1>1. Unallocated.dataLength = 0 /\ C!Contents(Unallocated) = <<>>
  BY Emptied, NothingWaits
<1>2. BytesFit(Unallocated, 0, 0, 0)
  BY <1>1, WebSerialAssumption DEF BytesFit
<1> QED BY <1>1, <1>2 DEF Init, PipeFits, InHand, Pipe!Init

\* PipeSpec: for any size of the buffer and any lengths of messages, what comes
\* out of it, over wrapped slices, forced flushes, discarded sends, sheddings
\* and restarts, is a lossy pipe: in order, nothing twice, and every loss is
\* counted but those of end().
THEOREM LogIsAPipe == Spec => PipeSpec
<1>1. PipeMoves => PipeFits' /\ [Pipe!Next]_Pipe!vars
  BY DEF PipeMoves
<1>2. Init /\ [][Next]_vars => Pipe!Init /\ [][Pipe!Next]_Pipe!vars
  BY <1>1, PipeInitially, PipeStep, PTL
<1> QED BY <1>2, PTL DEF Spec, PipeSpec, Pipe!Spec

\* Whether some client can take more is known to be true or false.
LEMMA AcceptsStep == accepts \in BOOLEAN /\ [Next]_vars => accepts' \in BOOLEAN
<1> SUFFICES ASSUME accepts \in BOOLEAN, [Next]_vars PROVE accepts' \in BOOLEAN
  OBVIOUS
<1>1. ASSUME NEW load, UpdateClientStates(load) PROVE accepts' \in BOOLEAN
  BY <1>1, Zenon DEF UpdateClientStates
<1>2. ASSUME NEW load, NEW critical, Housekeep(load, critical)
      PROVE  accepts' \in BOOLEAN
  BY <1>2, Zenon DEF Housekeep
<1>3. ASSUME NEW due \in BOOLEAN, NEW load \in [Active -> Load],
             LoopStart(due, load) \/ Check(due, load)
      PROVE  accepts' \in BOOLEAN
  <2>1. UpdateClientStates(load) \/ UNCHANGED accepts
    BY <1>3, Zenon DEF LoopStart, Check
  <2> QED BY <1>1, <2>1
<1>4. ASSUME NEW due \in BOOLEAN, NEW critical \in BOOLEAN,
             NEW load \in [Active -> Load], LoopEnd(due, load, critical)
      PROVE  accepts' \in BOOLEAN
  <2>1. Housekeep(load, critical) \/ UNCHANGED accepts
    BY <1>4, Zenon DEF LoopEnd
  <2> QED BY <1>2, <2>1
<1>5. CASE End
  BY <1>5 DEF End
<1>6. ASSUME UNCHANGED accepts PROVE accepts' \in BOOLEAN
  BY <1>6
<1>7. CASE UNCHANGED vars
  BY <1>6, <1>7 DEF vars
<1>8. ASSUME NEW c \in Client, NEW takeover \in BOOLEAN, NEW critical \in BOOLEAN,
             Connect(c, takeover, critical)
      PROVE  accepts' \in BOOLEAN
  BY <1>6, <1>8 DEF Connect
<1>9. ASSUME NEW c \in Client, Break(c) \/ Disconnect(c) PROVE accepts' \in BOOLEAN
  BY <1>6, <1>9 DEF Break, Disconnect
<1>10. ASSUME NEW n \in Lengths, Send(n) PROVE accepts' \in BOOLEAN
  BY <1>6, <1>10 DEF Send
<1>11. CASE EndStart \/ AddToBuffer \/ Tick
  BY <1>6, <1>11 DEF EndStart, AddToBuffer, Tick
<1>12. ASSUME NEW critical \in BOOLEAN, NEW discarded \in BOOLEAN,
              Flush(critical, discarded)
       PROVE  accepts' \in BOOLEAN
  BY <1>6, <1>12 DEF Flush
<1>13. ASSUME NEW allocated \in BOOLEAN, Begin(allocated)
       PROVE  accepts' \in BOOLEAN
  BY <1>6, <1>13 DEF Begin
<1> QED BY <1>3, <1>4, <1>5, <1>7, <1>8, <1>9, <1>10, <1>11, <1>12, <1>13, Zenon
        DEF Next, Continue

\* The types of WebSerial: for any number of clients, any size of the buffer and
\* any lengths of messages, the record of the buffer is well formed, the task
\* is where it can be, and no more bytes are counted than have been taken.
THEOREM SerialTypes == Spec => []TypeOK
<1>1. ClientsFit /\ PipeFits /\ accepts \in BOOLEAN => TypeOK
  <2> SUFFICES ASSUME ClientsFit, PipeFits, accepts \in BOOLEAN PROVE TypeOK
    OBVIOUS
  <2>1. /\ AdmissionTypeOK
        /\ status \in [Client -> {"new", "connected", "closing", "gone"}]
    BY DEF ClientsFit
  <2>2. buffer \in C!Buffer \cup {Unallocated}
    BY DEF PipeFits, BytesFit, Ring
  <2>3. buffer.dataLength \in Nat
    BY Ringed, Emptied DEF PipeFits, BytesFit
  <2>4. taken \in 0..MaxBytes /\ sent \in 0..MaxBytes /\ dropped \in 0..MaxBytes
    BY <2>3, WebSerialAssumption DEF PipeFits, BytesFit
  <2> QED BY <2>1, <2>2, <2>4 DEF PipeFits, TypeOK
<1>2. Init => accepts \in BOOLEAN
  BY DEF Init
<1>3. PipeFits /\ [Next]_vars => PipeFits'
  BY PipeStep DEF PipeMoves
<1>4. Init => PipeFits
  BY PipeInitially
<1>5. accepts \in BOOLEAN /\ [Next]_vars => (accepts \in BOOLEAN)'
  BY AcceptsStep
<1> QED BY <1>1, <1>2, <1>3, <1>4, <1>5, ClientsInitially, ClientsStep, PTL
       DEF Spec
=============================================================================
