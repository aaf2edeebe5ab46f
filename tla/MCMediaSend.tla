---- MODULE MCMediaSend ----
(* Small instances of MediaSend for TLC. *)
EXTENDS MediaSend
====
