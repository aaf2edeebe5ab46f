---- MODULE MCTransfers ----
(* Three tool tasks: two for one keypad and one for the consultation. *)
EXTENDS Transfers
====
