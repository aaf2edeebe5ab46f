---- MODULE MCReconnect ----
(* Reconnect for TLC: calls are model values. *)
EXTENDS Reconnect
====
