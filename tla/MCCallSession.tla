---- MODULE MCCallSession ----
(* Two verb tasks against the transport's reader: tasks are model values. *)
EXTENDS CallSession
====
