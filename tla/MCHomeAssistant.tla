-------------------------- MODULE MCHomeAssistant --------------------------
(* A small instance of HomeAssistant for TLC. *)
EXTENDS HomeAssistant

TestValues == [p \in Entity |-> {"low", "high"}]
=============================================================================
