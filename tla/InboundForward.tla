--------------------------- MODULE InboundForward ---------------------------
(***************************************************************************)
(* Inbound requests: Diameter peer -> gateway -> h2agent -> gateway ->     *)
(* peer (Gateway::onDiameterRequest), on top of the HTTP/2 client.         *)
(*                                                                         *)
(* A request crosses three groups of threads. Workers threads run the      *)
(* Diameter io_context: they receive requests and run the handlers of the  *)
(* answer timer and of the response, which can therefore interleave. The   *)
(* h2clientIo_ thread submits requests and gets the responses. The two     *)
(* handlers that race for the answer are split at their accesses to the    *)
(* shared timer and flag; everything else is one action. The end of the    *)
(* process is left to H2Client's stop(): here nobody stops the gateway.    *)
(***************************************************************************)
EXTENDS H2Client, Sequences, FiniteSets

CONSTANTS
    Requests,     \* messages the Diameter legs deliver
    Legs,         \* the server leg and the connections of the client pool
    NoLeg,
    Workers,      \* threads of the Diameter io_context
    Encodable     \* the dictionaries can encode a 5012 answer

ASSUME InboundAssumption ==
    /\ IsFiniteSet(Requests)
    /\ NoLeg \notin Legs
    /\ Workers \in Nat \ {0}
    /\ Encodable \in BOOLEAN

VARIABLES
    leg,         \* the leg a request came by
    stage,       \* its way to h2agent
    timeout,     \* its steady_timer and the handler of its wait
    timedOut,    \* its timedOut flag
    response,    \* the handler posted when its response is complete
    body,        \* what h2agent answered: an answer can be built from it or not
    streams,     \* requests with a stream on the current session
    sent         \* the answers handed to Diameter

reqvars == <<leg, stage, timeout, timedOut, response, body, streams, sent>>
invars == <<h2vars, reqvars>>

Answers == [by : {"gateway", "timeout", "response"},
            code : {"5012", "built"},
            to : Legs]

InboundTypeOK ==
    /\ TypeOK
    /\ leg \in [Requests -> Legs \cup {NoLeg}]
    /\ stage \in [Requests -> {"new", "dropped", "posted", "refused",
                               "submitted", "unable"}]
    /\ timeout \in [Requests -> {"off", "armed", "cancelled", "expired",
                                 "claimed", "done"}]
    /\ timedOut \in [Requests -> BOOLEAN]
    /\ response \in [Requests -> {"none", "queued", "cancelled", "cleared",
                                  "done"}]
    /\ body \in [Requests -> {"none", "good", "bad"}]
    /\ streams \in SUBSET Requests
    /\ sent \in [Requests -> Seq(Answers)]

InboundInit ==
    /\ H2Init
    /\ leg = [r \in Requests |-> NoLeg]
    /\ stage = [r \in Requests |-> "new"]
    /\ timeout = [r \in Requests |-> "off"]
    /\ timedOut = [r \in Requests |-> FALSE]
    /\ response = [r \in Requests |-> "none"]
    /\ body = [r \in Requests |-> "none"]
    /\ streams = {}
    /\ sent = [r \in Requests |-> <<>>]

-----------------------------------------------------------------------------
(* Answering *)

\* Mutated, for ImplementsReplies: the originating client is not passed on.
SendToOneLeg(r, by, code, from) ==
    sent' = [sent EXCEPT ![r] = Append(@, [by |-> by, code |-> code,
                                           to |-> CHOOSE l \in Legs : TRUE])]

\* sendDiameterAnswer: back on the leg the request came by.
SendDiameterAnswer(r, by, code, from) ==
    sent' = [sent EXCEPT ![r] = Append(@, [by |-> by, code |-> code, to |-> from])]

\* sendUnableToComply: an answer that cannot be encoded is only logged.
SendUnableToComply(r, by, from) ==
    IF Encodable THEN SendDiameterAnswer(r, by, "5012", from) ELSE UNCHANGED sent

\* Handlers of the Diameter io_context that are between two of their steps.
Running == {<<"response", r>> : r \in {q \in Requests :
                                       response[q] \in {"cancelled", "cleared"}}}
           \cup {<<"timeout", r>> : r \in {q \in Requests :
                                           timeout[q] = "claimed"}}

WorkerFree == Cardinality(Running) < Workers

-----------------------------------------------------------------------------
(* onDiameterRequest, on a Diameter thread *)

\* Less than a header, or not a request.
Drop(r) ==
    /\ stage[r] = "new"
    /\ WorkerFree
    /\ stage' = [stage EXCEPT ![r] = "dropped"]
    /\ UNCHANGED <<h2vars, leg, timeout, timedOut, response, body, streams, sent>>

\* A request, decodable or not, is posted to the h2clientIo_ thread, or
\* answered at once when the HTTP/2 client is not connected.
Receive(r, from) ==
    /\ stage[r] = "new"
    /\ WorkerFree
    /\ leg' = [leg EXCEPT ![r] = from]
    /\ IF connected
       THEN stage' = [stage EXCEPT ![r] = "posted"] /\ UNCHANGED sent
       ELSE /\ stage' = [stage EXCEPT ![r] = "unable"]
            /\ SendUnableToComply(r, "gateway", from)
    /\ UNCHANGED <<h2vars, timeout, timedOut, response, body, streams>>

-----------------------------------------------------------------------------
(* The h2clientIo_ thread *)

\* Mutated, for NobodyForgotten: the failure is only logged.
SubmitRefusedSilently(r) ==
    /\ IoIdle
    /\ stage[r] = "posted"
    /\ stage' = [stage EXCEPT ![r] = "dropped"]
    /\ UNCHANGED <<h2vars, leg, timeout, timedOut, response, body, streams, sent>>

\* Mutated, for TwoAnswersAreARace: the timer is armed before submit().
SubmitRefusedTimerArmed(r) ==
    /\ IoIdle
    /\ stage[r] = "posted"
    /\ stage' = [stage EXCEPT ![r] = "refused"]
    /\ timeout' = [timeout EXCEPT ![r] = "armed"]
    /\ UNCHANGED <<h2vars, leg, timedOut, response, body, streams, sent>>

\* No session any more, or submit() fails: a handler that answers 5012 is
\* posted to the Diameter io_context.
SubmitRefused(r) ==
    /\ IoIdle
    /\ stage[r] = "posted"
    /\ stage' = [stage EXCEPT ![r] = "refused"]
    /\ UNCHANGED <<h2vars, leg, timeout, timedOut, response, body, streams, sent>>

\* submit() needs a session that has not ended; the timer starts with it.
Submitted(r) ==
    /\ IoIdle
    /\ stage[r] = "posted"
    /\ session \in LiveSessions
    /\ stage' = [stage EXCEPT ![r] = "submitted"]
    /\ timeout' = [timeout EXCEPT ![r] = "armed"]
    /\ streams' = streams \cup {r}
    /\ UNCHANGED <<h2vars, leg, timedOut, response, body, sent>>

\* on_response and the end of its body. h2agent need not ever answer.
ResponseArrives(r, b) ==
    /\ IoIdle
    /\ session = "open"
    /\ r \in streams
    /\ streams' = streams \ {r}
    /\ response' = [response EXCEPT ![r] = "queued"]
    /\ body' = [body EXCEPT ![r] = b]
    /\ UNCHANGED <<h2vars, leg, stage, timeout, timedOut, sent>>

\* A step of the HTTP/2 client; the streams of a session end with it.
SessionStep ==
    /\ RunNext
    /\ streams' = IF session' \in LiveSessions THEN streams ELSE {}
    /\ UNCHANGED <<leg, stage, timeout, timedOut, response, body, sent>>

-----------------------------------------------------------------------------
(* Handlers of the Diameter io_context *)

\* The 5012 of a request that could not be submitted.
AnswerRefused(r) ==
    /\ WorkerFree
    /\ stage[r] = "refused"
    /\ stage' = [stage EXCEPT ![r] = "unable"]
    /\ SendUnableToComply(r, "gateway", leg[r])
    /\ UNCHANGED <<h2vars, leg, timeout, timedOut, response, body, streams>>

\* timer->cancel(): a wait that has completed keeps its success.
ResponseCancel(r) ==
    /\ WorkerFree
    /\ response[r] = "queued"
    /\ response' = [response EXCEPT ![r] = "cancelled"]
    /\ timeout' = [timeout EXCEPT ![r] = IF @ = "armed" THEN "cancelled" ELSE @]
    /\ UNCHANGED <<h2vars, leg, stage, timedOut, body, streams, sent>>

\* Mutated, for NoAnswerAfterTimeout: the flag is not looked at.
ResponseUnchecked(r) ==
    /\ response[r] = "cancelled"
    /\ response' = [response EXCEPT ![r] = "cleared"]
    /\ UNCHANGED <<h2vars, leg, stage, timeout, timedOut, body, streams, sent>>

\* timedOut->load()
ResponseCheck(r) ==
    /\ response[r] = "cancelled"
    /\ response' = [response EXCEPT ![r] = IF timedOut[r] THEN "done" ELSE "cleared"]
    /\ UNCHANGED <<h2vars, leg, stage, timeout, timedOut, body, streams, sent>>

\* The answer built from the response; 5012 if the status is not 200, the
\* body is empty, or no answer can be made of it.
ResponseSend(r) ==
    /\ response[r] = "cleared"
    /\ response' = [response EXCEPT ![r] = "done"]
    /\ IF body[r] = "good"
       THEN SendDiameterAnswer(r, "response", "built", leg[r])
       ELSE SendUnableToComply(r, "response", leg[r])
    /\ UNCHANGED <<h2vars, leg, stage, timeout, timedOut, body, streams>>

TimeoutExpires(r) ==
    /\ timeout[r] = "armed"
    /\ timeout' = [timeout EXCEPT ![r] = "expired"]
    /\ UNCHANGED <<h2vars, leg, stage, timedOut, response, body, streams, sent>>

\* timedOut->exchange(true)
TimeoutClaim(r) ==
    /\ WorkerFree
    /\ timeout[r] = "expired"
    /\ timeout' = [timeout EXCEPT ![r] = IF timedOut[r] THEN "done" ELSE "claimed"]
    /\ timedOut' = [timedOut EXCEPT ![r] = TRUE]
    /\ UNCHANGED <<h2vars, leg, stage, response, body, streams, sent>>

TimeoutSend(r) ==
    /\ timeout[r] = "claimed"
    /\ timeout' = [timeout EXCEPT ![r] = "done"]
    /\ SendUnableToComply(r, "timeout", leg[r])
    /\ UNCHANGED <<h2vars, leg, stage, timedOut, response, body, streams>>

-----------------------------------------------------------------------------

Submit(r) == SubmitRefused(r) \/ Submitted(r)

DiameterHandler(r) ==
    \/ AnswerRefused(r)
    \/ ResponseCancel(r) \/ ResponseCheck(r) \/ ResponseSend(r)
    \/ TimeoutExpires(r) \/ TimeoutClaim(r) \/ TimeoutSend(r)

InboundNext ==
    \/ SessionStep
    \/ \E r \in Requests :
        \/ Drop(r)
        \/ \E from \in Legs : Receive(r, from)
        \/ Submit(r)
        \/ \E b \in {"good", "bad"} : ResponseArrives(r, b)
        \/ DiameterHandler(r)

\* Handlers that are queued are run and waits complete. The h2clientIo_ thread
\* serves its queue in order, so a posted request gets its turn however often
\* the thread is found connecting: hence SF. Nothing makes h2agent answer.
InboundFairness ==
    /\ WF_invars(SessionStep /\ (CreateSession \/ CreateThrows))
    /\ \A r \in Requests : SF_invars(Submit(r)) /\ WF_invars(DiameterHandler(r))

InboundSpec == InboundInit /\ [][InboundNext]_invars /\ InboundFairness

-----------------------------------------------------------------------------
(* Properties *)

Replies == INSTANCE RequestReply WITH
    Channels <- Legs,
    NoChannel <- NoLeg,
    MaxReplies <- 2,
    asked <- leg,
    replies <- [r \in Requests |-> [i \in 1..Len(sent[r]) |-> sent[r][i].to]],
    abandoned <- {}

\* Every inbound request is answered in the end, whatever h2agent, its
\* connection and the timer do, on the leg it came by and never more than
\* twice: the gateway implements the abstract request/reply service, and
\* abandons nobody.
ImplementsReplies == Replies!RRSpec

\* Something will answer the request: a handler queued or running, or a timer.
InCharge(r) ==
    \/ stage[r] \in {"posted", "refused"}
    \/ timeout[r] \in {"armed", "expired", "claimed"}
    \/ response[r] \in {"queued", "cancelled", "cleared"}

\* No request is forgotten: one that has arrived and has no answer yet has
\* somebody in charge of it. Cancelling the timer, finding the flag set or
\* losing the session with its streams never takes away the last one.
NobodyForgotten ==
    Encodable => \A r \in Requests :
        leg[r] # NoLeg /\ sent[r] = <<>> => InCharge(r)

By(r) == [i \in 1..Len(sent[r]) |-> sent[r][i].by]

\* A request is answered twice in one situation only: the timer and the
\* response both answer. A request refused on the way is answered once.
TwoAnswersAreARace ==
    \A r \in Requests :
        Len(sent[r]) > 1 => By(r) \in {<<"timeout", "response">>,
                                       <<"response", "timeout">>}

\* With a single worker thread the flag does its work one way: once the
\* timeout has answered 5012, the late response is not answered. What remains
\* is the timeout that was queued before the response was handled.
NoAnswerAfterTimeout ==
    Workers = 1 => \A r \in Requests : By(r) # <<"timeout", "response">>

\* Gateway.cpp, 738-739 and 764-765: the timer's handler and the response's
\* see that the other has already answered.
AtMostOneAnswer == \A r \in Requests : Len(sent[r]) <= 1

-----------------------------------------------------------------------------
=============================================================================
