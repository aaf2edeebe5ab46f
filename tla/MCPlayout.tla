---- MODULE MCPlayout ----
(* One reply of the agent against every voice that the loop has of its own. *)
EXTENDS Playout
====
