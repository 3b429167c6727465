-------------------------- MODULE MCInboundForward --------------------------
(* Two requests and two legs: enough for two handlers of one request and   *)
(* the handler of another one to compete for the workers.                  *)
EXTENDS InboundForward
=============================================================================
