---------------------------- MODULE RequestReply ----------------------------
(***************************************************************************)
(* What each direction of the gateway owes: whoever asks is answered, on   *)
(* the channel the question came by, never before asking, and no more than *)
(* MaxReplies times, unless the request has been abandoned unanswered;     *)
(* then it stays so. README.md promises the first part without exception   *)
(* in "Every outbound request gets an HTTP/2 answer" and "Inbound requests *)
(* ... are always answered too": whoever implements this module says which *)
(* requests are abandoned.                                                 *)
(***************************************************************************)
EXTENDS Naturals, Sequences

CONSTANTS Requests, Channels,
          NoChannel,     \* not a channel
          MaxReplies     \* at least one

VARIABLES asked,     \* the channel a request came by
          replies,   \* the channels its replies went to, in order
          abandoned  \* the requests nobody will answer

rrvars == <<asked, replies, abandoned>>

RRInit ==
    /\ asked = [r \in Requests |-> NoChannel]
    /\ replies = [r \in Requests |-> <<>>]
    /\ abandoned = {}

Ask(r) ==
    /\ asked[r] = NoChannel
    /\ \E c \in Channels : asked' = [asked EXCEPT ![r] = c]
    /\ UNCHANGED <<replies, abandoned>>

Reply(r) ==
    /\ asked[r] # NoChannel
    /\ r \notin abandoned
    /\ Len(replies[r]) < MaxReplies
    /\ replies' = [replies EXCEPT ![r] = Append(@, asked[r])]
    /\ UNCHANGED <<asked, abandoned>>

\* A request that is answered by the very step that receives it.
AskAndReply(r) ==
    /\ asked[r] = NoChannel
    /\ \E c \in Channels :
        /\ asked' = [asked EXCEPT ![r] = c]
        /\ replies' = [replies EXCEPT ![r] = <<c>>]
    /\ UNCHANGED abandoned

Abandon(r) ==
    /\ asked[r] # NoChannel
    /\ replies[r] = <<>>
    /\ abandoned' = abandoned \cup {r}
    /\ UNCHANGED <<asked, replies>>

RRNext == \E r \in Requests : Ask(r) \/ Reply(r) \/ AskAndReply(r) \/ Abandon(r)

FirstReply(r) == replies[r] = <<>> /\ Reply(r)

RRSafety == RRInit /\ [][RRNext]_rrvars

RRSpec ==
    /\ RRSafety
    /\ \A r \in Requests : WF_rrvars(FirstReply(r))
=============================================================================
