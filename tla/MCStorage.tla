---------------------------- MODULE MCStorage ----------------------------
(* Small instances of Storage for TLC. *)
EXTENDS Storage

CONSTANTS loop, http, factoryPw, newPw, otherPw, noWifi, lan, defaults, edited, huge

AllOperations == [t \in Tasks |-> OpNames]

\* The loop task serves Home Assistant, the portal and the profile store;
\* the HTTP task of the web interface only rotates the password.
TaskOperations ==
    [t \in Tasks |-> IF t = loop THEN {"params", "profiles"} ELSE {"password"}]
============================================================================
