---- MODULE MCHandshake ----
(***************************************************************************)
(* Seven rounds exhaust the pump of a disturbed handshake and let a plain  *)
(* one through; a queue of two overflows; a loss, two stray datagrams and  *)
(* a move of the peer fall anywhere in it.                                 *)
(***************************************************************************)
EXTENDS Handshake
====
