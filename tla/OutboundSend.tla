---------------------------- MODULE OutboundSend ----------------------------
(***************************************************************************)
(* Outbound requests: h2agent -> gateway -> Diameter peer -> gateway ->    *)
(* h2agent (onH2agentOutboundRequest, sendOutbound and the HTTP/2 server's *)
(* handler in start()), on top of the client pool.                         *)
(*                                                                         *)
(* The HTTP/2 server has one thread: it handles one request at a time,     *)
(* and runs the handlers that write responses and the close callbacks of   *)
(* the streams. Answers, timeouts and the readiness of the connections     *)
(* come on Diameter threads, between any two steps of it. The requests are *)
(* the callers of the pool. diametercomm is known by how it is used here:  *)
(* send() refuses the message and returns 0, or keeps a pending entry that *)
(* either the answer or the timeout removes. What an exception does that   *)
(* leaves a handler is nghttp2-asio's to say: its thread may go on or not. *)
(***************************************************************************)
EXTENDS ClientPool, Sequences

CONSTANT NoRequest

ASSUME OutboundAssumption == NoRequest \notin Callers

VARIABLES
    serving,    \* the request the HTTP/2 thread is handling
    phase,      \* how far its handler is
    client,     \* the connection the handler has picked
    pending,    \* the connection that waits for the answer of a request
    outcome,    \* what respond() was called with, in order
    posted,     \* the responses posted to the HTTP/2 thread
    stream,     \* the HTTP/2 stream of a request
    written     \* the responses written to the stream

sendvars == <<serving, phase, client, pending, outcome, posted, stream, written>>
outvars == <<poolvars, sendvars>>

Statuses == {"200", "400", "502 not connected", "502 send failed, closed",
             "502 send failed", "502 undecodable", "504"}

\* Types, and that a handler which is about to send has a connection to send on:
\* pickReady() may return null, and it is dereferenced later.
OutboundTypeOK ==
    /\ PoolTypeOK
    /\ serving \in Callers \cup {NoRequest}
    /\ phase \in [Callers -> {"new", "entry", "pick", "send", "refused", "thrown",
                           "done"}]
    /\ client \in [Callers -> Conns \cup {NoClient}]
    /\ pending \in [Callers -> Conns \cup {NoClient}]
    /\ outcome \in [Callers -> Seq(Statuses)]
    /\ posted \in [Callers -> Seq(Statuses)]
    /\ stream \in [Callers -> {"none", "open", "closed"}]
    /\ written \in [Callers -> Seq(Statuses)]
    /\ \A r \in Callers : phase[r] \in {"send", "refused"} => client[r] \in Conns

OutboundInit ==
    /\ PoolInit
    /\ serving = NoRequest
    /\ phase = [r \in Callers |-> "new"]
    /\ client = [r \in Callers |-> NoClient]
    /\ pending = [r \in Callers |-> NoClient]
    /\ outcome = [r \in Callers |-> <<>>]
    /\ posted = [r \in Callers |-> <<>>]
    /\ stream = [r \in Callers |-> "none"]
    /\ written = [r \in Callers |-> <<>>]

-----------------------------------------------------------------------------

\* The respond callback: the write is posted to the thread of the stream.
Respond(r, status) ==
    /\ outcome' = [outcome EXCEPT ![r] = Append(@, status)]
    /\ posted' = [posted EXCEPT ![r] = Append(@, status)]

\* The handler of a request returns, having responded or sent.
Return(r) ==
    /\ serving' = NoRequest
    /\ phase' = [phase EXCEPT ![r] = "done"]

-----------------------------------------------------------------------------
(* The HTTP/2 thread: handling a request *)

\* End of the request body: anyReady() is asked first.
Arrive(r) ==
    /\ serving = NoRequest
    /\ phase[r] = "new"
    /\ serving' = r
    /\ phase' = [phase EXCEPT ![r] = "entry"]
    /\ stream' = [stream EXCEPT ![r] = "open"]
    /\ BeginAnyReady(r)
    /\ UNCHANGED <<client, pending, outcome, posted, written>>

Scan(r) == Probe(r) /\ UNCHANGED sendvars

\* The connection a scan of the handler has returned.
Returned(r, where) == phase[r] = where /\ op[r] = "none"

NotConnected(r) ==
    /\ Returned(r, "entry") \/ Returned(r, "pick")
    /\ result[r] = NoClient
    /\ Respond(r, "502 not connected")
    /\ Return(r)
    /\ UNCHANGED <<poolvars, client, pending, stream, written>>

\* Mutated, for ImplementsReplies: no return after the invalid _raw.
BadRequestGoesOn(r) ==
    /\ Returned(r, "entry")
    /\ result[r] # NoClient
    /\ Respond(r, "400")
    /\ phase' = [phase EXCEPT ![r] = "pick"]
    /\ BeginPickReady(r)
    /\ UNCHANGED <<serving, client, pending, stream, written>>

\* An empty body, an invalid _raw, or JSON that cannot be parsed or encoded and
\* whose error can be told in JSON.
BadRequest(r) ==
    /\ Returned(r, "entry")
    /\ result[r] # NoClient
    /\ Respond(r, "400")
    /\ Return(r)
    /\ UNCHANGED <<poolvars, client, pending, stream, written>>

\* A body with ill-formed UTF-8: what() of the parse error repeats its bytes,
\* and errorBody(), called in the catch block to build the 400, dumps them
\* strictly. Its exception leaves the handler before respond() is called.
LeftByException(r) ==
    /\ Returned(r, "entry")
    /\ result[r] # NoClient
    /\ phase' = [phase EXCEPT ![r] = "thrown"]
    /\ serving' \in {NoRequest, r}
    /\ UNCHANGED <<poolvars, client, pending, outcome, posted, stream, written>>

\* Raw or encoded, the message goes to sendOutbound, which picks a connection.
Pick(r) ==
    /\ Returned(r, "entry")
    /\ result[r] # NoClient
    /\ phase' = [phase EXCEPT ![r] = "pick"]
    /\ BeginPickReady(r)
    /\ UNCHANGED <<serving, client, pending, outcome, posted, stream, written>>

\* Mutated, for OutboundTypeOK: the null that pickReady() may return is not
\* looked at, since anyReady() has said there is a connection.
PickedUnchecked(r) ==
    /\ Returned(r, "pick")
    /\ phase' = [phase EXCEPT ![r] = "send"]
    /\ client' = [client EXCEPT ![r] = result[r]]
    /\ UNCHANGED <<poolvars, serving, pending, outcome, posted, stream, written>>

Picked(r) ==
    /\ Returned(r, "pick")
    /\ result[r] # NoClient
    /\ phase' = [phase EXCEPT ![r] = "send"]
    /\ client' = [client EXCEPT ![r] = result[r]]
    /\ UNCHANGED <<poolvars, serving, pending, outcome, posted, stream, written>>

\* send() accepts the message only on an open connection.
SendAccepted(r) ==
    /\ phase[r] = "send"
    /\ client[r] \in ready
    /\ pending' = [pending EXCEPT ![r] = client[r]]
    /\ Return(r)
    /\ UNCHANGED <<poolvars, client, outcome, posted, stream, written>>

\* The connection is lost, or refuses the write: send() returns 0.
SendRefused(r) ==
    /\ phase[r] = "send"
    /\ phase' = [phase EXCEPT ![r] = "refused"]
    /\ UNCHANGED <<poolvars, serving, client, pending, outcome, posted, stream,
                   written>>

\* Mutated, for PendingOrResponded: the 0 that send() returns is not looked at.
RefusedUnnoticed(r) ==
    /\ phase[r] = "refused"
    /\ Return(r)
    /\ UNCHANGED <<poolvars, client, pending, outcome, posted, stream, written>>

\* Mutated, for ImplementsEntries: a lost connection is taken for no answer.
RefusedTimesOut(r) ==
    /\ phase[r] = "refused"
    /\ Respond(r, IF client[r] \in ready THEN "502 send failed" ELSE "504")
    /\ Return(r)
    /\ UNCHANGED <<poolvars, client, pending, stream, written>>

\* isReady() of that connection is read again for the header.
RespondRefused(r) ==
    /\ phase[r] = "refused"
    /\ Respond(r, IF client[r] \in ready THEN "502 send failed"
                                         ELSE "502 send failed, closed")
    /\ Return(r)
    /\ UNCHANGED <<poolvars, client, pending, stream, written>>

-----------------------------------------------------------------------------
(* The Diameter threads *)

\* The callbacks send() was given; diametercomm removes the entry under its
\* lock and calls one of them.
Answered(r, status) ==
    /\ pending[r] # NoClient
    /\ pending' = [pending EXCEPT ![r] = NoClient]
    /\ Respond(r, status)
    /\ UNCHANGED <<poolvars, serving, phase, client, stream, written>>

AnswerArrives(r) == \E status \in {"200", "502 undecodable"} : Answered(r, status)

\* Mutated, for StreamCompleted: the timeout is only logged.
TimesOutLogged(r) ==
    /\ pending[r] # NoClient
    /\ pending' = [pending EXCEPT ![r] = NoClient]
    /\ UNCHANGED <<poolvars, serving, phase, client, outcome, posted, stream,
                   written>>

TimesOut(r) == Answered(r, "504")

ConnectionChanges(c) == ReadyChanges(c) /\ UNCHANGED sendvars

-----------------------------------------------------------------------------
(* The HTTP/2 thread: streams *)

\* Mutated, for WrittenOnceWhileOpen: the closed flag is not checked again.
WriteUnchecked(r) ==
    /\ serving = NoRequest
    /\ posted[r] # <<>>
    /\ posted' = [posted EXCEPT ![r] = Tail(@)]
    /\ written' = [written EXCEPT ![r] = Append(@, Head(posted[r]))]
    /\ UNCHANGED <<poolvars, serving, phase, client, pending, outcome, stream>>

\* The posted handler of respond(): nothing is written to a closed stream.
WriteResponse(r) ==
    /\ serving = NoRequest
    /\ posted[r] # <<>>
    /\ posted' = [posted EXCEPT ![r] = Tail(@)]
    /\ written' = IF stream[r] = "open"
                  THEN [written EXCEPT ![r] = Append(@, Head(posted[r]))]
                  ELSE written
    /\ UNCHANGED <<poolvars, serving, phase, client, pending, outcome, stream>>

\* on_close: h2agent resets the stream or its connection goes away, or the
\* response has been written to its end.
StreamCloses(r) ==
    /\ serving = NoRequest
    /\ stream[r] = "open"
    /\ stream' = [stream EXCEPT ![r] = "closed"]
    /\ UNCHANGED <<poolvars, serving, phase, client, pending, outcome, posted,
                   written>>

-----------------------------------------------------------------------------

Handler(r) ==
    \/ Scan(r)
    \/ NotConnected(r)
    \/ BadRequest(r)
    \/ LeftByException(r)
    \/ Pick(r)
    \/ Picked(r)
    \/ SendAccepted(r)
    \/ SendRefused(r)
    \/ RespondRefused(r)

OutboundNext ==
    \/ \E r \in Callers :
        \/ Arrive(r)
        \/ Handler(r)
        \/ AnswerArrives(r)
        \/ TimesOut(r)
        \/ WriteResponse(r)
        \/ StreamCloses(r)
    \/ \E c \in Conns : ConnectionChanges(c)

\* The handler goes on, the answer timer of a pending request expires, and
\* what is posted is run. No peer has to answer, no stream to close.
OutboundFairness ==
    \A r \in Callers :
        /\ WF_outvars(Handler(r))
        /\ WF_outvars(TimesOut(r))
        /\ WF_outvars(WriteResponse(r))

OutboundSpec == OutboundInit /\ [][OutboundNext]_outvars /\ OutboundFairness

-----------------------------------------------------------------------------
(* Properties *)

Replies == INSTANCE RequestReply WITH
    Requests <- Callers,
    Channels <- Callers,
    NoChannel <- NoRequest,
    MaxReplies <- 1,
    asked <- [r \in Callers |-> IF phase[r] = "new" THEN NoRequest ELSE r],
    replies <- [r \in Callers |-> [i \in 1..Len(outcome[r]) |-> r]],
    abandoned <- {r \in Callers : phase[r] = "thrown"}

\* respond() is called exactly once for every request, whichever of the early
\* returns, the refusal, the answer and the timeout gets there (a second call
\* would start a second response on the stream), and never for a request whose
\* handler an exception has left.
ImplementsReplies == Replies!RRSpec

\* A request whose handler has returned is either pending on one connection
\* or responded to; never both (it would be responded to again), never
\* neither (its stream would stay open for ever). One whose handler is not
\* through, or was left by an exception, is neither.
PendingOrResponded ==
    \A r \in Callers :
        /\ phase[r] = "done" => (pending[r] # NoClient <=> outcome[r] = <<>>)
        /\ phase[r] # "done" => pending[r] = NoClient /\ outcome[r] = <<>>

\* A stream gets one response, and only while it is open: response objects of
\* a closed stream no longer exist.
WrittenOnceWhileOpen ==
    [][\A r \in Callers :
        written'[r] # written[r] => stream[r] = "open" /\ written[r] = <<>>]_outvars

Completed(r) == written[r] # <<>> \/ stream[r] = "closed"

\* The exception has ended the HTTP/2 thread as well: it serves nobody any more.
ThreadIsLost == \E r \in Callers : serving = r /\ phase[r] = "thrown"

\* The stream of a request is completed, unless h2agent has closed it, whatever
\* the connections, the peer and the other requests do. Only an exception that
\* leaves a handler stands in the way: of its own request, and of the others as
\* far as it takes the thread with it.
StreamCompleted ==
    \A r \in Callers :
        phase[r] # "new" ~> (Completed(r) \/ phase[r] = "thrown" \/ ThreadIsLost)

\* README.md, 123: "The gateway always completes the HTTP/2 stream of an
\* outbound request". A body that is not UTF-8 is left without an answer (974).
EveryRequestCompleted ==
    \A r \in Callers : phase[r] # "new" ~> Completed(r)

\* "Diameter peer not connected" is said only when no connection stayed ready
\* during the scan that found none.
NotConnectedIsTrue ==
    \A r \in Callers :
        (phase[r] = "done" /\ outcome[r] = <<"502 not connected">>) => steady[r] = {}

Entries == INSTANCE PendingEntries WITH
    Requests <- Callers,
    Connections <- Conns,
    NoConnection <- NoClient,
    NoWord <- NoRequest,
    Timeout <- "timeout",
    entry <- pending,
    told <- [r \in Callers |->
                IF outcome[r] = <<"504">> THEN "timeout"
                ELSE IF outcome[r] \in {<<"200">>, <<"502 undecodable">>} THEN r
                ELSE NoRequest]

\* The gateway hands a request over to one connection, once, and what is told of
\* it there reaches h2agent as that: 504 is said after a timeout and then only,
\* and nothing the gateway says by itself is taken for an answer of the peer.
ImplementsEntries == Entries!PESpec
=============================================================================
