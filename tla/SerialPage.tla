----------------------------- MODULE SerialPage -----------------------------
(***************************************************************************)
(* The script of the /serial page: from the load of the page over the      *)
(* check of whether WebSerial is available to the WebSocket, its           *)
(* reconnections, and the navigation that closes it.  Each tab shows this  *)
(* page or another one; the tabs share the device's slots for WebSerial.   *)
(*                                                                         *)
(* The socket is the browser's: its events arrive when they like, and so   *)
(* do the timers.  How long the page waits before it reconnects is left    *)
(* out, and so is what it shows (SerialView).  The server sends no-store   *)
(* with the page, so it is never restored after pagehide.                  *)
(***************************************************************************)
EXTENDS Integers, FiniteSets

CONSTANTS
    Tab,
    Limit,      \* WebSerial clients the device admits
    Sockets,    \* bound on the sockets a tab has at a time
    MaxDrops    \* bound on connections the device or the network drops

ASSUME SerialPageAssumption ==
    Limit \in Nat \ {0} /\ Sockets \in Nat \ {0} /\ MaxDrops \in Nat

VARIABLES
    available,  \* serial_enabled and web_serial_enabled of the device
    page,       \* by tab, the variables of the script
    sockets,    \* by tab, the browser's and the device's view of each socket
    drops       \* connections dropped so far

pageVars == <<available, page, sockets, drops>>

Socket == 1..Sockets

NoSocket == 0

\* A timer: how many are pending, and whether the variable of the script
\* names one of them.
NoTimer == [pending |-> 0, known |-> FALSE]

SetTimeout(timer) == [pending |-> timer.pending + 1, known |-> TRUE]

ClearTimeout(timer) ==
    IF timer.known
    THEN [pending |-> timer.pending - 1, known |-> FALSE] ELSE timer

Fired(timer) ==
    [pending |-> timer.pending - 1, known |-> timer.known /\ timer.pending > 1]

Elsewhere ==
    [shown |-> FALSE, started |-> FALSE, leaving |-> FALSE,
     desired |-> FALSE, connected |-> FALSE, socket |-> NoSocket,
     fetching |-> FALSE, retry |-> NoTimer, reconnect |-> NoTimer]

NoConnection == [state |-> "none", server |-> "gone", own |-> FALSE]

Timer == [pending: 0..2, known: BOOLEAN]

PageTypeOK ==
    /\ available \in BOOLEAN /\ drops \in 0..MaxDrops
    /\ page \in [Tab ->
          [shown: BOOLEAN, started: BOOLEAN, leaving: BOOLEAN,
           desired: BOOLEAN, connected: BOOLEAN, socket: Socket \cup {NoSocket},
           fetching: BOOLEAN, retry: Timer, reconnect: Timer]]
    /\ sockets \in [Tab -> [Socket ->
          [state: {"none", "connecting", "open", "closing"},
           server: {"new", "serving", "busy", "gone"}, own: BOOLEAN]]]

PageInit ==
    /\ available \in BOOLEAN
    /\ page = [t \in Tab |-> Elsewhere]
    /\ sockets = [t \in Tab |-> [s \in Socket |-> NoConnection]]
    /\ drops = 0

Live(t, s) == sockets[t][s].state \in {"connecting", "open"}

HasLiveSocket(t) == page[t].socket # NoSocket /\ Live(t, page[t].socket)

Served == {ts \in Tab \X Socket : sockets[ts[1]][ts[2]].server = "serving"}

NextSocket(t) ==
    IF \E s \in Socket : sockets[t][s] = NoConnection
    THEN CHOOSE s \in Socket :
            /\ sockets[t][s] = NoConnection
            /\ \A r \in 1..(s - 1) : sockets[t][r] # NoConnection
    ELSE NoSocket

Update(t, p) == page' = [page EXCEPT ![t] = p]

-----------------------------------------------------------------------------
(* Loading the page and asking whether WebSerial is available. *)

\* Setting the logo's src, or starting without one, is left to LogoSettles.
OpenPage(t) ==
    /\ ~page[t].shown
    /\ Update(t, [Elsewhere EXCEPT !.shown = TRUE])
    /\ UNCHANGED <<available, sockets, drops>>

\* startCurrentPage, once the logo has loaded, failed or taken too long.
LogoSettles(t) ==
    /\ page[t].shown /\ ~page[t].started
    /\ Update(t, [page[t] EXCEPT !.started = TRUE, !.fetching = TRUE])
    /\ UNCHANGED <<available, sockets, drops>>

\* initializeWebSerial, for a page whose script has come to be in state p.
InitializeWebSerial(t, p) ==
    IF ~p.desired \/ HasLiveSocket(t)
    THEN Update(t, p) /\ UNCHANGED sockets
    ELSE \E s \in Socket :
            /\ s = NextSocket(t)
            /\ Update(t, [p EXCEPT !.socket = s])
            /\ sockets' = [sockets EXCEPT ![t][s] =
                  [state |-> "connecting", server |-> "new", own |-> TRUE]]

\* updateWebSocketConnection.
Available(t) ==
    /\ page[t].fetching
    /\ LET p == [page[t] EXCEPT !.fetching = FALSE, !.desired = available]
       IN  IF page[t].desired = available
           THEN Update(t, p) /\ UNCHANGED sockets
           ELSE InitializeWebSerial(t, p)
    /\ UNCHANGED <<available, drops>>

\* A variation of Deferred that leaves the page alone.
GivesUp(t) ==
    /\ page[t].fetching
    /\ Update(t, [page[t] EXCEPT !.fetching = FALSE])
    /\ UNCHANGED <<available, sockets, drops>>

\* "A bounded ESP8266 can briefly return 503 ...: retry".
Deferred(t) ==
    /\ page[t].fetching
    /\ Update(t, [page[t] EXCEPT !.fetching = FALSE,
                                 !.retry = SetTimeout(@)])
    /\ UNCHANGED <<available, sockets, drops>>

\* The retry timer: initializeSerialPage.
Retry(t) ==
    /\ page[t].retry.pending > 0
    /\ Update(t, [page[t] EXCEPT !.retry = Fired(@), !.fetching = TRUE])
    /\ UNCHANGED <<available, sockets, drops>>

-----------------------------------------------------------------------------
(* The WebSocket, as the device and as the script see it. *)

\* The device answers the handshake; beyond its limit it closes with 1013.
Answer(t, s) ==
    /\ sockets[t][s].server = "new"
    /\ sockets' = [sockets EXCEPT ![t][s].server =
          IF Cardinality(Served) < Limit THEN "serving" ELSE "busy"]
    /\ UNCHANGED <<available, page, drops>>

\* The device sheds a client, or the connection breaks.
Drop(t, s) ==
    /\ drops < MaxDrops /\ drops' = drops + 1
    /\ sockets[t][s].server = "serving"
    /\ \E end \in {"busy", "gone"} :
          sockets' = [sockets EXCEPT ![t][s].server = end]
    /\ UNCHANGED <<available, page>>

\* The device notices that the browser closes.
Notice(t, s) ==
    /\ sockets[t][s].state = "closing"
    /\ sockets[t][s].server \in {"new", "serving"}
    /\ sockets' = [sockets EXCEPT ![t][s].server = "gone"]
    /\ UNCHANGED <<available, page, drops>>

\* onopen; it may come although the device has already closed.
Opened(t, s) ==
    /\ sockets[t][s].state = "connecting" /\ sockets[t][s].server # "new"
    /\ IF page[t].desired /\ page[t].socket = s
       THEN /\ sockets' = [sockets EXCEPT ![t][s].state = "open"]
            /\ Update(t, [page[t] EXCEPT !.connected = TRUE])
       ELSE /\ sockets' = [sockets EXCEPT ![t][s].state = "closing"]
            /\ UNCHANGED page
    /\ UNCHANGED <<available, drops>>

\* A variation of Disconnected that forgets to reset webserialConnected.
StillConnected(p) ==
    [p EXCEPT !.socket = NoSocket,
              !.reconnect = IF p.desired THEN SetTimeout(@) ELSE @]

\* A variation of Disconnected that lacks the return after the calm retry.
DisconnectedTwice(p) ==
    [p EXCEPT !.socket = NoSocket, !.connected = FALSE,
              !.reconnect = IF p.desired THEN SetTimeout(SetTimeout(@)) ELSE @]

\* onclose of the current socket: the calm retry and the back-off differ in
\* their delays only.
Disconnected(p) ==
    [p EXCEPT !.socket = NoSocket, !.connected = FALSE,
              !.reconnect = IF p.desired THEN SetTimeout(@) ELSE @]

Closed(t, s) ==
    /\ sockets[t][s].state # "none" /\ sockets[t][s].server \in {"busy", "gone"}
    /\ sockets' = [sockets EXCEPT ![t][s] = NoConnection]
    /\ IF sockets[t][s].own /\ page[t].socket = s
       THEN Update(t, Disconnected(page[t])) ELSE UNCHANGED page
    /\ UNCHANGED <<available, drops>>

Reconnect(t) ==
    /\ page[t].reconnect.pending > 0
    /\ LET p == [page[t] EXCEPT !.reconnect = Fired(@)]
       IN  IF p.connected THEN Update(t, p) /\ UNCHANGED sockets
           ELSE InitializeWebSerial(t, p)
    /\ UNCHANGED <<available, drops>>

-----------------------------------------------------------------------------
(* Leaving the page. *)

\* pagehide: stopWebSerial; with the page go its timers and its request.
PageHide(t) ==
    /\ page[t].shown
    /\ Update(t, Elsewhere)
    /\ sockets' = [sockets EXCEPT ![t] = [s \in Socket |->
          IF @[s].state = "none" THEN @[s]
          ELSE [@[s] EXCEPT !.state = "closing", !.own = FALSE]]]
    /\ UNCHANGED <<available, drops>>

\* navigateAfterWebSerialClose: the socket is closed first.
Navigate(t) ==
    /\ page[t].shown /\ ~page[t].leaving
    /\ LET s == page[t].socket
       IN  /\ Update(t, [page[t] EXCEPT !.leaving = TRUE, !.desired = FALSE,
                                        !.reconnect = ClearTimeout(@),
                                        !.retry = ClearTimeout(@)])
           /\ sockets' = IF s = NoSocket THEN sockets
                         ELSE [sockets EXCEPT ![t][s].state = "closing"]
    /\ UNCHANGED <<available, drops>>

\* continueNavigation, after the close event or half a second.
ContinueNavigation(t) == page[t].leaving /\ PageHide(t)

Timers(t) == Retry(t) \/ Reconnect(t) \/ ContinueNavigation(t)

PageNext ==
    \E t \in Tab :
        \/ OpenPage(t) \/ LogoSettles(t) \/ Available(t) \/ Deferred(t)
        \/ Timers(t) \/ PageHide(t) \/ Navigate(t)
        \/ \E s \in Socket :
              Answer(t, s) \/ Drop(t, s) \/ Notice(t, s)
              \/ Opened(t, s) \/ Closed(t, s)

\* Timers fire, the browser and the device go on, and a device that is asked
\* again and again is not always busy.  Nobody has to open or leave a page.
PageSpec ==
    /\ PageInit /\ [][PageNext]_pageVars
    /\ \A t \in Tab :
          /\ WF_pageVars(LogoSettles(t)) /\ SF_pageVars(Available(t))
          /\ WF_pageVars(Retry(t)) /\ WF_pageVars(Reconnect(t))
          /\ WF_pageVars(ContinueNavigation(t))
          /\ \A s \in Socket :
                /\ WF_pageVars(Answer(t, s)) /\ WF_pageVars(Notice(t, s))
                /\ WF_pageVars(Opened(t, s)) /\ WF_pageVars(Closed(t, s))

-----------------------------------------------------------------------------
(* Properties. *)

\* However a page comes to connect again, it uses one connection: a socket
\* that is not being closed is the current one of its page, no timer is
\* pending beside it, and there is never a second timer that can no longer
\* be cleared.
OneConnection ==
    \A t \in Tab :
        /\ \A s \in Socket : Live(t, s) =>
              page[t].socket = s /\ sockets[t][s].own
        /\ HasLiveSocket(t) => page[t].reconnect.pending = 0
        /\ \A timer \in {page[t].reconnect, page[t].retry} :
              timer.pending <= 1 /\ (timer.pending = 1 => timer.known)

\* "Retry ... rather than leaving the serial page inert": a page that stays
\* has a connection, or something pending that will bring it one.
NeverInert ==
    \A t \in Tab :
        page[t].started /\ ~page[t].leaving =>
            IF page[t].desired
            THEN HasLiveSocket(t) \/ page[t].reconnect.pending > 0
            ELSE \/ page[t].fetching \/ page[t].retry.pending > 0
                 \/ ~available

\* A page that was turned away is served once the other tabs have gone.
TurnIsTaken ==
    \A t \in Tab :
        <>[](/\ available /\ page[t].shown /\ ~page[t].leaving
             /\ \A u \in Tab \ {t} : ~page[u].shown)
            => <>[](/\ page[t].connected /\ HasLiveSocket(t)
                    /\ sockets[t][page[t].socket].server = "serving")
=============================================================================
