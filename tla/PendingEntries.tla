--------------------------- MODULE PendingEntries ---------------------------
(***************************************************************************)
(* What the gateway asks of the pending entries of its Diameter client     *)
(* connections (diametercomm), as it uses them in sendOutbound: a request  *)
(* is kept by one connection at most, once, until it is told of its own    *)
(* answer or of a timeout, and then never again. AnswerCorrelation shows   *)
(* that looking an answer up on one leg after the other gives this, and    *)
(* OutboundSend that the gateway hands over and is told no more than this. *)
(***************************************************************************)
CONSTANTS Requests, Connections,
          NoConnection,    \* not a connection
          NoWord,          \* what a request is told before it is told anything
          Timeout

VARIABLES entry,     \* the connection that keeps a request
          told       \* whose answer it was told of, or that there was none

pevars == <<entry, told>>

PEInit ==
    /\ entry = [r \in Requests |-> NoConnection]
    /\ told = [r \in Requests |-> NoWord]

Keep(r, c) ==
    /\ entry[r] = NoConnection
    /\ told[r] = NoWord
    /\ entry' = [entry EXCEPT ![r] = c]
    /\ UNCHANGED told

Tell(r, what) ==
    /\ entry[r] # NoConnection
    /\ told[r] = NoWord
    /\ entry' = [entry EXCEPT ![r] = NoConnection]
    /\ told' = [told EXCEPT ![r] = what]

Told(r) == Tell(r, r) \/ Tell(r, Timeout)

PENext == \E r \in Requests : Told(r) \/ \E c \in Connections : Keep(r, c)

PESafety == PEInit /\ [][PENext]_pevars

PESpec ==
    /\ PESafety
    /\ \A r \in Requests : WF_pevars(Told(r))
=============================================================================
