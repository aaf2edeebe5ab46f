---- MODULE MCRegistration ----
(* Registration for TLC: extensions are model values. *)
EXTENDS Registration
====
