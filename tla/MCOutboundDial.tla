---- MODULE MCOutboundDial ----
(* One dial through either kind of gateway. *)
EXTENDS OutboundDial

AllGateways == {"sip", "wss"}
====
