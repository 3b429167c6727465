--------------------------- MODULE MCOutboundSend ---------------------------
(* Two requests and two connections: a request is answered, times out or   *)
(* has its stream closed while the other is being handled, and a request   *)
(* refused by one connection finds the other one ready.                    *)
EXTENDS OutboundSend
=============================================================================
