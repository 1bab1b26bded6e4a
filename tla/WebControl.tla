----------------------------- MODULE WebControl -----------------------------
(***************************************************************************)
(* The delayed restart of DeviceFrameworkWebHandlers.  The control API and *)
(* the password form answer a request, then schedule a restart 500 ms      *)
(* later, perhaps after a reset; DeviceFrameworkWebHandlers::loop carries  *)
(* it out.  On ESP8266 a handler runs between two rounds of the loop; on   *)
(* ESP32 it runs in the task of the TCP library, next to the loop task.    *)
(***************************************************************************)
EXTENDS Integers

CONSTANTS
    Clock,        \* millis() wraps to 0 after Clock - 1
    Delay,        \* the response delay, 500 ms
    MaxWait,      \* bound: how long after a request the loop may take to look
    MaxRequests,  \* bound on requests per boot
    Cooperative   \* TRUE: a handler runs to its end while the loop is idle

ASSUME WebControlAssumption ==
    /\ Clock \in Nat /\ Delay \in Nat /\ MaxWait \in Nat /\ MaxRequests \in Nat
    /\ Delay <= MaxWait
    /\ 2 * MaxWait < Clock
    /\ Cooperative \in BOOLEAN

Scopes == {"ParametersOnly", "Factory"}

RestartReasons == {"WebRequest", "PasswordChanged", "WebReset"}

\* What a client can ask for: a plain restart, a password change, a reset.
Requests == Scopes \cup {"WebRequest", "PasswordChanged"}

VARIABLES
    now,                  \* millis()
    restartPending, resetPending, pendingResetScope,
    pendingRestartReason, restartAt,
    http,                 \* where the handler is, and what it was asked
    loop,                 \* where DeviceFrameworkWebHandlers::loop is
    wait,                 \* ticks since the last request, up to MaxWait
    promised,             \* the last reset answered with success, or "none"
    ran,                  \* the reset carried out in this boot, or "none"
    requests              \* requests answered in this boot

pending == <<restartPending, resetPending, pendingResetScope,
             pendingRestartReason, restartAt>>

ghosts == <<wait, promised, ran, requests>>

controlVars == <<now, pending, http, loop, ghosts>>

Idle == [at |-> "idle", for |-> "none", reason |-> "none"]

ControlTypeOK ==
    /\ now \in 0..(Clock - 1) /\ restartAt \in 0..(Clock - 1)
    /\ restartPending \in BOOLEAN /\ resetPending \in BOOLEAN
    /\ pendingResetScope \in Scopes
    /\ pendingRestartReason \in RestartReasons
    /\ http \in [at: {"idle", "scope", "flag", "reason", "pending", "time"},
                 for: Requests \cup {"none"},
                 reason: RestartReasons \cup {"none"}]
    /\ loop \in {"idle", "due", "reset", "runReset", "restart"}
    /\ wait \in 0..MaxWait /\ requests \in 0..MaxRequests
    /\ promised \in Scopes \cup {"none"} /\ ran \in Scopes \cup {"none"}

Boot ==
    /\ now' = 0 /\ restartPending' = FALSE /\ resetPending' = FALSE
    /\ pendingResetScope' = "Factory" /\ pendingRestartReason' = "WebRequest"
    /\ restartAt' = 0
    /\ http' = Idle /\ loop' = "idle"
    /\ wait' = MaxWait /\ promised' = "none" /\ ran' = "none" /\ requests' = 0

ControlInit ==
    /\ now = 0 /\ restartPending = FALSE /\ resetPending = FALSE
    /\ pendingResetScope = "Factory" /\ pendingRestartReason = "WebRequest"
    /\ restartAt = 0
    /\ http = Idle /\ loop = "idle"
    /\ wait = MaxWait /\ promised = "none" /\ ran = "none" /\ requests = 0

-----------------------------------------------------------------------------
(* The handlers, one step per access to the pending request. *)

Resets(r) == r \in Scopes

\* A handler answers the client, then schedules.
Answer(r) ==
    /\ http.at = "idle"
    /\ Cooperative => loop = "idle"
    /\ requests < MaxRequests
    /\ requests' = requests + 1
    /\ wait' = 0
    /\ promised' = IF Resets(r) THEN r ELSE promised
    /\ http' = [at |-> IF Resets(r) THEN "scope" ELSE "reason", for |-> r,
                reason |-> IF Resets(r) THEN "WebReset" ELSE r]
    /\ UNCHANGED <<now, pending, loop, ran>>

HttpGoto(where) == http' = [http EXCEPT !.at = where]

SetScope ==
    /\ http.at = "scope"
    /\ pendingResetScope' = http.for
    /\ HttpGoto("flag")
    /\ UNCHANGED <<now, restartPending, resetPending, pendingRestartReason,
                   restartAt, loop, ghosts>>

SetReset ==
    /\ http.at = "flag"
    /\ resetPending' = TRUE
    /\ HttpGoto("reason")
    /\ UNCHANGED <<now, restartPending, pendingResetScope,
                   pendingRestartReason, restartAt, loop, ghosts>>

\* A variation of SetReason in which the latest request wins.
SetLatestReason ==
    /\ http.at = "reason"
    /\ pendingRestartReason' = http.reason
    /\ HttpGoto("pending")
    /\ UNCHANGED <<now, restartPending, resetPending, pendingResetScope,
                   restartAt, loop, ghosts>>

\* A queued reset is stronger than a later plain restart request.
SetReason ==
    /\ http.at = "reason"
    /\ pendingRestartReason' = IF resetPending THEN "WebReset" ELSE http.reason
    /\ HttpGoto("pending")
    /\ UNCHANGED <<now, restartPending, resetPending, pendingResetScope,
                   restartAt, loop, ghosts>>

SetPending ==
    /\ http.at = "pending"
    /\ restartPending' = TRUE
    /\ HttpGoto("time")
    /\ UNCHANGED <<now, resetPending, pendingResetScope, pendingRestartReason,
                   restartAt, loop, ghosts>>

SetTime ==
    /\ http.at = "time"
    /\ restartAt' = (now + Delay) % Clock
    /\ http' = Idle
    /\ UNCHANGED <<now, restartPending, resetPending, pendingResetScope,
                   pendingRestartReason, loop, ghosts>>

-----------------------------------------------------------------------------
(* DeviceFrameworkWebHandlers::loop, one step per access. *)

Yielded == Cooperative => http.at = "idle"

\* A variation of Reached that compares the clock readings directly.
ReachedUnsigned == now >= restartAt

\* A variation of Reached that waits for one reading of the clock.
ReachedExactly == now = restartAt

\* static_cast<long>(now - restartAt) >= 0.
Reached == (now - restartAt) % Clock < Clock \div 2

LoopGoto(where) == loop' = where

\* restartDue, and the flag is taken down.
RestartDue ==
    /\ loop = "idle" /\ Yielded
    /\ restartPending /\ Reached
    /\ LoopGoto("due")
    /\ UNCHANGED <<now, pending, http, ghosts>>

TakeRestart ==
    /\ loop = "due"
    /\ restartPending' = FALSE
    /\ LoopGoto("reset")
    /\ UNCHANGED <<now, resetPending, pendingResetScope, pendingRestartReason,
                   restartAt, http, ghosts>>

TakeReset ==
    /\ loop = "reset"
    /\ resetPending' = FALSE
    /\ LoopGoto(IF resetPending THEN "runReset" ELSE "restart")
    /\ UNCHANGED <<now, restartPending, pendingResetScope,
                   pendingRestartReason, restartAt, http, ghosts>>

RunReset ==
    /\ loop = "runReset"
    /\ ran' = pendingResetScope
    /\ LoopGoto("restart")
    /\ UNCHANGED <<now, pending, http, wait, promised, requests>>

RunRestart == loop = "restart" /\ Boot

-----------------------------------------------------------------------------

\* Time passes; the loop looks at a due request within MaxWait ticks.
Tick ==
    /\ loop = "idle"
    /\ restartPending => wait < MaxWait
    /\ http.at = "idle"
    /\ now' = (now + 1) % Clock
    /\ wait' = IF wait < MaxWait THEN wait + 1 ELSE wait
    /\ UNCHANGED <<pending, http, loop, promised, ran, requests>>

HttpStep == SetScope \/ SetReset \/ SetReason \/ SetPending \/ SetTime

LoopStep == RestartDue \/ TakeRestart \/ TakeReset \/ RunReset \/ RunRestart

ControlNext == (\E r \in Requests : Answer(r)) \/ HttpStep \/ LoopStep \/ Tick

\* Both tasks are scheduled and time passes; requests need not come.
ControlSpec == ControlInit /\ [][ControlNext]_controlVars
        /\ WF_controlVars(HttpStep) /\ WF_controlVars(LoopStep)
        /\ WF_controlVars(Tick)

-----------------------------------------------------------------------------
(* Properties. *)

\* "Preserve both the reset operation and its restart provenance when requests
\* arrive within the response-delay window": the device does not restart
\* without having run the reset it promised last, and says it was one.
ResetIsPreserved ==
    loop = "restart" /\ promised # "none" =>
        ran = promised /\ pendingRestartReason = "WebReset"

\* The client has Delay to receive the answer to the last request.
AnswerIsDelivered == loop = "due" => wait >= Delay

\* An answered request is followed by a restart, also when millis() wraps.
RestartHappens == requests > 0 ~> loop = "restart"

-----------------------------------------------------------------------------
(* Why the first two hold for one task at a time.                          *)

\* A handler and the loop are never both under way, and what a handler has
\* been asked is what it writes.
OneTask ==
    /\ http.at = "idle" \/ loop = "idle"
    /\ http.at # "idle" => http.reason \in RestartReasons
    /\ http.at = "scope" => http.for \in Scopes

\* The reset promised last is what is scheduled, written or carried out, also
\* by a handler that was asked for a plain restart.
PromiseKept ==
    promised # "none" =>
        /\ http.at \in {"scope", "flag"} => http.for = promised
        /\ http.at # "scope" => pendingResetScope = promised
        /\ http.at \notin {"scope", "flag"} /\ loop \in {"idle", "due", "reset"}
              => resetPending
        /\ http.at \notin {"scope", "flag", "reason"}
              => pendingRestartReason = "WebReset"
        /\ loop = "restart" => ran = promised

\* restartAt is Delay after the last request, up to a turn of the clock.
DueInTime ==
    /\ http.at # "idle" => wait = 0
    /\ restartPending /\ http.at = "idle" /\ loop = "idle"
          => restartAt + wait - Delay - now \in {-Clock, 0, Clock}
    /\ loop = "due" => wait >= Delay

ControlInvariant == ControlTypeOK /\ OneTask /\ PromiseKept /\ DueInTime
=============================================================================
