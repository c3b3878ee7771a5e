---- MODULE MCCanBus ----
(* CanBus for TLC. *)
EXTENDS CanBus
====
