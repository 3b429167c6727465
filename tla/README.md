# A TLA+ model of h2diagent

h2diagent is a gateway between HTTP/2 and Diameter. Diameter peers send it
requests, which it turns into JSON and posts to **h2agent** (inbound), and
h2agent posts JSON to it, which it turns into Diameter requests to a peer
(outbound). This directory holds a TLA+ specification of what runs at run time,
configurations that model-check it with TLC, and proofs checked by TLAPS.

Paths below are relative to the root of the repository.

## The system

| Component | Source | State | Operations |
|---|---|---|---|
| HTTP/2 client | `src/Gateway.cpp` 339-351, 442-502, 507-548 | session pointer, connected flag, pending flag, timer, backoff, stopping flag | connect, on_connect, on_error, schedule, timer, stop |
| Inbound path | `src/Gateway.cpp` 553-854 | per request: timer, timedOut flag, response body; queue of h2clientIo_ and of io_ | onDiameterRequest, submit handler, response handler, timer handler, 5012 |
| Client pool | `include/ert/h2diagent/DiameterClientPool.hpp`, `helpers.hpp` 234 | connections and their readiness, round-robin cursor | pick, pickReady, anyReady, tryResolve |
| Outbound path | `src/Gateway.cpp` 354-432, 859-1048 | per request: closed flag, pending entry in diametercomm | onH2agentOutboundRequest, sendOutbound, answer and timeout callbacks, posted write |
| Answer correlation | `src/Gateway.cpp` 254-309, `DiameterClientPool.hpp` 101-126 | pending entries of every leg | tryResolve, unmatched-answer callbacks |
| Start and stop | `src/Gateway.cpp` 155-548, `src/main.cpp` 324-353 | which parts exist, threads | start, stop, destructor |
| Message translation | `helpers.hpp` 23-187, 240-332, `src/Gateway.cpp` 54-142, 601-664, 767-850, 886-1030 | the loaded dictionaries; per message its header and what it is decoded or encoded with | Session-Id scan, names and URIs, headers, choice of the dictionary, 5012, raw messages |
| Command line | `src/main.cpp` 121-292, `helpers.hpp` 193-228 | GatewayConfig | parse, normalize, validate |
| Metrics snapshots | `tools/helpers.bash` 77-474 | snapshot files | metrics_summary and its options |

Threads: `workers` threads run the Diameter io_context `io_`; one thread runs
`h2clientIo_` (the HTTP/2 client); the HTTP/2 server has one of its own; the
main thread runs `io_` too and, after it, `stop()`. They share atomics
(`h2clientConnected_`, `h2clientStopping_`, `timedOut`, `closed`, the cursor),
and otherwise post handlers to each other's io_context.

What is hard in it: two handlers that race for one answer; state that is read on
one thread and used later on another; connections that come and go while a loop
looks at them; a session that must always have somebody to recreate it; the
teardown by a thread that owns nothing of what it destroys; a scan steered by
lengths that the sender wrote. The list, each item
at its line, is in `PROJECT.json` under `hazards`.

What makes each part correct:

- HTTP/2 client: never without a way back to h2agent and never with two; the
  backoff law; reconnection once h2agent stays up; the teardown completes.
- Inbound: every request is answered, on its leg; the only way to two answers is
  known exactly.
- Pool: a connection that stays ready is never missed; requests are striped.
- Outbound: every request is responded to exactly once, unless an exception leaves
  its handler, written at most once and only to an open stream; the errors reported
  are true.
- Start and stop: no handler meets a part that is not made yet, what it may meet
  destroyed is known exactly, and a signal brings `main()` to its end.
- Translation: nothing is read beyond a message, its Session-Id is the right one,
  what one direction names the other reads back, every message has its own
  dictionary, every answer the ids of its request.
- Command line: what start() gets was validated, in whatever order it was told.

## The modules

| Module | What it is | Extends |
|---|---|---|
| `H2Client` | the HTTP/2 client and its teardown | |
| `H2Client_proofs` | its proofs | `H2Client` |
| `InboundForward` | inbound requests over the HTTP/2 client | `H2Client` |
| `InboundForward_proofs` | its proofs | `InboundForward`, `H2Client_proofs` |
| `ClientPool` | the pool and its scans | |
| `ClientPool_proofs` | its proofs | `ClientPool` |
| `PoolHistory` | `ClientPool` with a record of its picks | `ClientPool` |
| `PoolHistory_proofs` | its proofs | `PoolHistory`, `ClientPool_proofs` |
| `OutboundSend` | outbound requests over the pool | `ClientPool` |
| `OutboundSend_proofs` | its proofs | `OutboundSend`, `ClientPool_proofs` |
| `AnswerCorrelation` | which request an answer resolves, across the legs | |
| `AnswerCorrelation_proofs` | its proofs | `AnswerCorrelation` |
| `SessionIdScan` | the scan of a message for its Session-Id | |
| `Translation` | what becomes of a message in either direction, and of its answer | `SessionIdScan` |
| `Translation_proofs` | the proofs of both | `Translation` |
| `CommandLine` | the configuration that options make | |
| `Lifecycle` | start, signal, stop, and the threads in between | `CommandLine` |
| `Lifecycle_proofs` | its proofs | `Lifecycle` |
| `RequestReply` | abstract: whoever asks is answered, at most so many times, or is abandoned | |
| `PendingEntries` | abstract: one connection at most keeps a request, once, until it is told of its own answer or of a timeout | |
| `MC*` | what TLC runs | one of the above |

`RequestReply` is implemented by `InboundForward` (at most two replies) and by
`OutboundSend` (at most one), each with a refinement mapping at its end. It has a set
of those that are abandoned, who never get a reply: none for the inbound path, and
for the outbound path exactly the requests whose handler an exception has left.
`PendingEntries` is where the two modules about pending requests meet.
`AnswerCorrelation` implements its safety part from the side of the legs: the
lookup over several legs behaves as one table would. `OutboundSend` implements all
of it from the side of the gateway: a request is handed over once, and what is
responded is what it was told.

### H2Client

Every handler of the `h2clientIo_` thread is one action, since that thread runs
them one after the other. `connectH2Client` is two: `BeginConnect` reads
`h2clientStopping_`, `CreateSession` (or `CreateThrows`) does the rest, because
`stop()` on the main thread may come in between. `stop()` is the four steps
`StopFlag`, `StopSession`, `StopIo`, `StopJoin`; between the first two it tears
down the Diameter legs and the HTTP/2 server, which does not touch this state.
`Destroy` is the second `stop()`, from the destructor.

| Variable | Code |
|---|---|
| `stopping`, `pending`, `connected`, `backoff` | `h2clientStopping_`, `h2clientReconnectPending_`, `h2clientConnected_`, `h2clientReconnectBackoff_` |
| `timer` | `h2clientReconnectTimer_`: idle, armed, or expired with its handler queued |
| `session` | `h2clientSession_`: none, or what the session is up to; `failing` is a session whose transport is gone and that has not called `on_error` yet |
| `firstPost` | the handler posted by `start()` (350) |
| `ioPc`, `ioContext`, `mainPc` | where the threads are |
| `delay` | the delay last handed to the timer since the last connection (a record of what happened) |
| `agentUp` | whether h2agent can be reached: the environment, free to change |

The null check of the timer (483) is left out: the timer exists from before the
thread starts until after it is joined.

### InboundForward

`Receive` is `onDiameterRequest` up to the post (its only read of shared state is
`h2clientConnected_`); `Submitted` / `SubmitRefused` the posted handler;
`ResponseArrives` the end of the response body on the HTTP/2 thread. The handler
of the response is split at its accesses to what it shares with the timer's:
`ResponseCancel` (764), `ResponseCheck` (765), `ResponseSend`; and so is the
timer's: `TimeoutClaim` (739), `TimeoutSend`. `TimeoutExpires` makes the wait
complete: from then on `cancel()` does nothing. `Workers` bounds the handlers
that are between two of their steps. What can be built of a response is its
`body`, good or bad; whether a 5012 can be encoded is the constant `Encodable`.
`SessionStep` is any step of `H2Client`; streams end with their session.

The gateway is not stopped in this module: `io_` no longer runs when `stop()` is
called.

### ClientPool, PoolHistory

`pickReady` is `BeginPickReady` (the `fetch_add` of the cursor) and one `Probe`
for each `isReady()`; `anyReady` the same from index 0; `pick`, which only tests
call, is `PickAny`, on the same cursor. `ReadyChanges` is a
connection opening or being lost on a Diameter thread. `steady` is, for each
scan, the set of connections that have been ready all along. `PoolHistory` adds
how often each connection was the first choice.

### OutboundSend

The HTTP/2 thread handles one request at a time (`serving`): `Arrive`, the scan
of `anyReady`, then `NotConnected`, `BadRequest` or `Pick`, the scan of
`pickReady`, `NotConnected` or `Picked`, and `SendAccepted` or `SendRefused` and
`RespondRefused`. `AnswerArrives` and `TimesOut` are the callbacks given to
`send()`. `Respond` posts the write; `WriteResponse` is the posted handler,
`StreamCloses` the `on_close` callback. A request that is answered
or refused has left its entry behind: for `PendingEntries` a refused `send()` is
no entry at all. The kinds of bad body (empty, invalid
`_raw`, invalid JSON, a `_header` that is not an object, not encodable) are one: they
differ in wording.

All but one: for a body that is not well-formed UTF-8 the text of the parse error has
the bytes themselves in it, and `errorBody()`, which the catch block calls to build
the 400 (974), dumps strictly and throws. `LeftByException` is that: the handler ends
(`thrown`) and nothing was responded. What becomes of the HTTP/2 thread is
nghttp2-asio's to say, so both are allowed: it serves the next request, or nobody any
more (`ThreadIsLost`). `Lifecycle` does not follow the second. The error bodies
of the answer callback (1024) are built in the same way, from the text of a decoding
error; that text is taken to be dumpable, as what the codec decodes is.

`OutboundTypeOK` has, besides the types, what `sendOutbound` must see to: whoever is
about to send has a connection. `pickReady()` may return null although `anyReady()`
had found one, and the pointer is dereferenced at 1002.

### AnswerCorrelation

`Send` gives a request its hop-by-hop id and a pending entry at the connection
that sends it, `TimesOut` removes the entry. `PeerAnswers` is an answer on any
leg, at any time, as often as there are `Answers`; the peer may have lost the
hop-by-hop id, the end-to-end id or the command on the way, but does not put the
hop-by-hop id of another pending request in its place. `TryResolve` is one
`tryResolve()` on one leg, which diametercomm does under the lock of that leg's
entries: between two of them anything may happen. `Ahead` and `NextLeg` are the
order of the legs in `setUnmatchedAnswerCallback`, `DiameterClientPool::tryResolve`
and the two callbacks of `start()`: the leg the answer came by, the connections
in the order of the pool, then the server leg. The gateway sends no requests by
the server leg, so nothing is pending there.

`RightAnswer` is claimed for hop-by-hop ids that are unique in the node
(`NodeWideHops`): an answer is looked up by its hop-by-hop id on connections that
never carried its request, and if these number their requests on their own, the
id may belong to another request. The numbering is diametercomm's; README.md says
"node-wide unique" of the end-to-end id only. Without it this much is left, and
proved: an answer that keeps its hop-by-hop id and comes in time, by the connection
that sent its request, resolves that request and no other
(`OwnLegAnswersAreRight`); the leg the answer came by is looked at first, and a
connection gives an id once.

### SessionIdScan

`extractSessionId`, one action per AVP header it reads: `Hop` over it, `Found`,
`GiveUp`. A message is the words (four bytes) at the offsets a scan can be at,
which are multiples of four from 20 on, because the padding of a length is. Every
word may be read as a code or as flags and a length, as in the code, where a wrong
length leads into the data of another AVP. `size` is how much was received,
`msgLen` what the header says: `Take` gives them independently of each other.

`ScanIsRight` is the reference the scan is held to, and says it without a scan:
there is a set of AVPs that follow each other from the first one on, well framed,
none the Session-Id, and behind them is the Session-Id that was returned, or the
point where the framing breaks or the message ends.

### Translation

One message at a time: it shares nothing with others but the dictionaries, which
are fixed once `start()` has loaded them. An inbound request is taken (`Receive`)
and scanned (`Scan`, the actions of `SessionIdScan`), and forwarded (`Forward`) or
refused (`RefuseAtOnce`); its answer is made of nothing (`AnswerNothing`, a 5012),
of a response with `_raw` (`AnswerRaw`), or of one with or without a `_header`
(`AnswerBuilt`). An outbound request is posted with `_raw` (`PostRaw`), with a
`_header` (`PostWithHeader`), or with neither (`PostPlain`), and sent or refused
(`PostRefused`).

A dictionary is the application id it was loaded for. What the codec does with the
AVPs is not modelled: encoding and decoding succeed or fail, except that a 5012
can be encoded exactly with the dictionaries in `Complete` and never with the empty
`defaultDictionary_`. A name is a text; a segment like `app-9` is the text and the
number. The tables of names are those of `helpers.hpp` and their copies in
`Gateway.cpp` 54-126, which are the same text; the unit tests exercise the former,
the inbound path calls the latter.

An answer that h2agent gives a `_header` of another application is encoded with
the dictionary of the request (827), although README.md 753 has the dictionary
chosen by the application in the header; `OwnDictionary` is claimed for the
application of the request.

### CommandLine

An option is a name and a value; `Apply` is what the loop of `main()` does with
one, `Parsed` with all of them, `Accepted` whether the gateway is made.
Options that are only copied into `GatewayConfig` (identities, files, hosts,
timers) are left out, and getopt's own rules with them: what it rejects is the
option `unknown`. Ports are 16 bits wide: 65536 is port 0, which disables the part.

### Lifecycle

The configuration is any that `CommandLine` accepts; `Wants` are the parts it asks
for.

`Make` is one part of `start()`, `Halt` and `Release` what `stop()` does to one
part: telling it to stop (`shutdown`, `disconnectAll`, `stop`), then joining its
thread and resetting it. Between the steps every other thread goes on. `Signal`
comes at any moment, during `start()` too. A handler of `io_` or `h2clientIo_` is
`BeginHandler` and `EndHandler`; that of the HTTP/2 server is split at its two
looks at `diameterClientPool_` (867, 987) and its uses of it.

The HTTP/2 client is two parts, since `stop()` treats it so: it shuts down and resets
`h2clientSession_` (530-533), and only then stops and joins the thread whose handlers
use it (534-540). So for the part `session` nothing is joined. It is made by that
thread: `BeginConnect` is the look at `h2clientStopping_` (443), `CreateSession` the
rest of `connectH2Client()`, or `EndHandler` if it throws. `BeginInSession` is a
handler that has found the session there, the posted `submit()` (705) or one of the
session's own. `H2Client` has what the session does in the meantime; here it matters
only who uses it when.

`Crash` is undefined behaviour, of whatever thread and part: a running handler uses
(`InUse`) a part that is gone, or the client's thread is creating or using the
session while `stop()` resets the same pointer (`StopAtSession`). The process then
crashes or goes on as if nothing had been. A session made by an attempt that had
passed its look at the flag stays behind `stop()`; `Return` includes the destructor,
whose `stop()` takes it.

## What is outside

diametercomm, diametercodec, nghttp2-asio, the metrics library and h2agent are
not in this repository. They are modelled from how they are used: `send()`
refuses a message (and calls nothing) or keeps an entry which either the answer
or the timeout removes (comment at `src/Gateway.cpp` 1000); an answer is looked
up as README.md 144-162 says; a session calls
`on_connect` once, or `on_error`, possibly more than once; `submit()` may fail;
h2agent and peers answer or not; a stream may be closed at any moment.

## The runs

| Run | Bounds | What it shows |
|---|---|---|
| `h2client` | backoff 1000 to 10000 ms, as in the code | one way back to h2agent, the backoff, reconnection, completion of the teardown; a session created during `stop()` is the last one |
| `inbound` | 2 requests, 2 legs, 2 workers, backoff 1000 to 2000 | no request forgotten, refinement of `RequestReply`, two answers only by the race |
| `inbound_one_worker` | the same, 1 worker | after the 5012 of the timeout no built answer is sent |
| `client_pool` | 3 connections, 2 callers, cursor modulo 4, 9 picks | no steady connection missed; even striping across wraps |
| `outbound` | 2 requests, 2 connections | exactly one response, or none after an exception; pending or responded, writes, truth of "not connected"; refinement of `RequestReply` and `PendingEntries` |
| `answer_correlation` | 2 requests, 2 connections and the server leg, 2 answers | the right request, no answer lost, late answers harmless; refinement of `PendingEntries` |
| `translation` | 3 applications, 3 commands, 4 sets of dictionaries, 4 URIs, ids 0 and 5, messages of up to 36 bytes in 6 words | the scan is right, stays inside and ends; names read back; own dictionary; ids of answers; who stays silent |
| `lifecycle` | 16 sets of disabled parts, up to 3 client options in any order, 2 `io_` threads, 2 entries | nothing used before it is made, and but for two parts nothing after it is gone; every crash is one of these two races; a pool is what was validated, `main()` returns and leaves nothing behind |

The type invariants of `H2Client` and of `ClientPool` are conjuncts of
`InboundTypeOK` and `OutboundTypeOK`, and checked with these; all are proved.

Bounds. The protocol of a request involves the request, its timer and its
session, and other requests only through the threads they occupy: a second one
is enough to occupy them. Two legs tell an answer on the right leg from one on
the wrong one. Three connections and a cursor modulo 4 make the wrap visible,
because 3 does not divide 4; `MaxPicks` lets it wrap twice. With two connections
one may be lost while the other stays, and an answer may arrive by the one that
did not send its request. Two answers are a copy or a late one and the other
request's. Two `io_` threads are the main one and a worker. A message of 36 bytes has two
AVPs of a header each, or one whose wrong length leads into its data; at 20, 27
and 28 bytes the next header does not fit by all of it, by one byte, or just fits.
Each of the applications has a dictionary of its own in some sets and none in
others, and one of them has no name. Three options are as many as it takes to set
the host, the transport and the connections in every order. The backoff of
`inbound` is cut to two values: only its existence matters there, and `h2client`
has the real ones.

Fairness. An io_context with a running thread runs every queued handler and
completes every wait, hence weak fairness of the handlers. `Submit` has strong
fairness: its thread is a queue, and a posted handler gets its turn even though
the thread is time and again found in a connection attempt. `stop()` goes on
once begun, and so does the main thread in `Lifecycle`. Nothing is assumed of
h2agent, of peers, or of streams: reconnection is claimed only if h2agent stays
reachable, and answers never rely on h2agent.

### Disagreements with the code's own statements

Each is a run that expects a violation of one property.

| Run | What TLC shows |
|---|---|
| `inbound_twice` | one request, one worker: the timer completes, the response handler cancels it too late, reads `timedOut` as false and answers; then the timer's handler answers 5012. `timedOut` is only ever set by the timer's handler, so its own check (739) can never hold |
| `h2client_stays_down` | a connection attempt that has checked the flag creates the session after `stop()` has taken it away |
| `outbound_ill_formed` | a request whose body is not well-formed UTF-8 leaves its handler by an exception of `errorBody()` in the catch block (974): no response, an open stream |
| `lifecycle_pool_busy` | `stop()` disconnects the pool, and destroys it next, while a handler of the HTTP/2 server is using it |

A fifth has no run of its own. The comments at `src/Gateway.cpp` 346-348 and 440 say
that the session is only ever created and destroyed on the `h2clientIo_` thread;
`stop()` destroys it on the main thread (530-533) while that one still runs. This
race is a disjunct of `CrashIsARace` and one of the exceptions of
`OutliveTheirUsers`: `Lifecycle` reaches both.

What does hold in their place:

- the session that an attempt puts back after `stop()` has taken it away is the last
  one, and the destructor finds the thread joined and takes it (`LateSessionIsLast`,
  and `NothingLeftBehind` for the whole gateway);
- two parts, and no others, may be gone while a handler uses them: the pool under the
  HTTP/2 server, the session under the HTTP/2 client (`OutliveTheirUsers`); every
  crash of a teardown is one of these two races (`CrashIsARace`). It is safe if
  neither a request of h2agent is under way nor a handler of the HTTP/2 client that
  creates or uses the session;
- a stream is completed unless an exception has left the handler of its request or
  has taken the HTTP/2 thread with it (`StreamCompleted`), and whoever is left so is
  never responded to later (`ImplementsReplies`).

The first two are checked and proved; of the third the safety part is.

README.md 137 says that inbound requests are always answered. A gateway that has
loaded no dictionary, which `start()` only warns of, answers none
(`sendUnableToComply` logs the failure and returns, 591). This is not a run of its
own: `SilentOnlyWithoutDictionary` states that it is the only way.

## The proofs

TLC checks the sizes above; TLAPS proves the following for every value of the
constants that satisfies the modules' assumptions.

| Module | Theorems | Assumptions used |
|---|---|---|
| `H2Client_proofs` | `TypeCorrect`, `AlwaysOneRecovery`, `ConnectedMeansSession`, `BackoffLaw`, `NoSessionOutlivesStop` | `BackoffAssumption`: 0 < initial <= maximum |
| `InboundForward_proofs` | `InboundTypeCorrect`, `NobodyIsForgotten`, `OnlyTheRaceAnswersTwice`, `OneWorkerNoLateAnswer`, `InboundRefines`, `SessionIsH2Client`, `InboundSessionIsSafe`, `RequestsGoForward` | and `InboundAssumption`: finitely many requests, at least one worker, `NoLeg` is not a leg |
| `ClientPool_proofs` | `PoolTypeCorrect`, `SteadyIsFound` | `PoolAssumption`: at least one connection, a cursor of at least two values |
| `PoolHistory_proofs` | `RequestsAreStriped`, `HistoryRefinesPool`, `HistoryTypeCorrect`, `HistoryScansMissNothing` | the same |
| `OutboundSend_proofs` | `OutboundTypeCorrect`, `NeverBothNeverNeither`, `NotConnectedToldTruly`, `WritesAreSafe`, `OutboundRefines`, `EntriesAreUsedOnce`, `PoolIsImplemented`, `OutboundScansMissNothing`, `RequestsGoForward` | and `OutboundAssumption` |
| `AnswerCorrelation_proofs` | `CorrelationTypeCorrect`, `AnswersAreRight`, `NothingRecognisableIsLost`, `ToldIsFinal`, `LookupIsATable`, `OwnLegAnswersAreRight` | `CorrelationAssumption`: at least one connection, `Nothing` is none of the requests, answers, messages and legs |
| `Translation_proofs` | `ScanIsSafe`, `TranslationTypeCorrect`, `ScanStaysInside`, `ScanFindsSessionId`, `UrisReadBack`, `DictionaryIsOwn`, `AnswerIdsAreRequests`, `SilenceMeansNoDictionary`, `ScanIsReused`, `ScanGoesForward` | `ScanAssumption`: words are a byte and a number, sizes are numbers; `TranslationAssumption`: ids and applications are numbers, 0 is an id |
| `Lifecycle_proofs` | `LifecycleTypeCorrect`, `HandlersFindThingsMade`, `PartsOutliveHandlers`, `PoolIsAsValidated`, `OnlyTwoRaces`, `EverythingIsReleased`, `OptionOrder` | `LifecycleAssumption`: the threads are different ones, at least one runs `io_` |

*H2Client.* `OneRecovery` counts what leads back to h2agent and is not inductive
by itself: a step that takes one way and leaves another needs to know that the
way it takes was there. The invariant `IInv` adds that the ways exclude each
other, that the pending flag is set exactly while the timer is armed or its
handler queued, that the handler posted by `start()` comes first, and how far
`stop()` is for each of its steps. `NoSessionOutlivesStop` rests on its last
parts, `StopOrder` and `JoinedIsIdle`: the flag is set before anything is taken
away, so an attempt that begins afterwards creates nothing, and a thread that is
joined has returned from the attempt that had already begun.

*InboundForward.* `InboundInv` says of each request: which of its parts exist at
each stage (`StageInv`), that the flag tells how far the timer's handler is and
that only the response handler cancels (`HandlerInv`), that each of the three
that answer has done so only at its end and at most once (`SentInv`), and that
whoever is through has answered or has left it to the other (`AnsweredInv`).
`NobodyForgotten` follows from the first, second and fourth,
`TwoAnswersAreARace` from the first and third by counting. `OneWorkerInv`
carries the single-worker result: while the response handler is between its look
at the flag and its answer, no other handler runs, because the set of running
handlers has fewer members than there are workers, that is none. The steps of the
HTTP/2 client are taken over from `H2Client_proofs`: to it, an
inbound specification is an HTTP/2 client that nobody stops (`SessionIsH2Client`),
and what was proved of the one is true of the other (`InboundSessionIsSafe`).
`RequestsGoForward` gives a request a rank, the sum of how far its handler, its
timer and its response are, and shows that it never falls and that each step made
for the request raises it, to eleven at most.

*ClientPool.* What a scan has looked at contains no steady connection, and what
is steady is ready now. When the scan ends after `Size` looks it has reached
every connection (`ScanReachesAll`, modular arithmetic), so nothing is steady.

*PoolHistory.* `Striped` does not tell whose turn it is, and a pick could take
the connection that is ahead still further. `Balance` takes off the turn of those
that the cursor has passed since it last pointed at the first connection; what is
left differs by the wraps at most. A pick gives the next remainder of the cursor
the turn (`ModNext`, from the uniqueness of the remainder of a division), and a
wrap starts a round anew wherever the last one was, which is the one request that
it may cost. `HistoryRefinesPool` says that the record only watches, so that
what is proved of `ClientPool` is a corollary here.

*OutboundSend.* A step of the gateway is a step of the pool or leaves it alone
(`PoolSimulated`), so the pool's invariant is reused. Added to it: a scan runs
only while its handler waits for it, so what it saw is not overwritten later
(`ScanPhase`, needed for `NotConnectedIsTrue`), and what is posted or written
was responded, in one place only (`PostedInv`, needed for
`WrittenOnceWhileOpen`). `PoolIsImplemented` turns the simulation
round: an outbound specification implements the pool's, and `SteadyIsFound` is
about its scans (`OutboundScansMissNothing`). `RequestsGoForward` is the variant of
a request: its two scans, its handler, its reply and its stream, none of which is
taken back by what the connections or the other requests do; a scan that has begun
has at most `Size` looks to go.

*AnswerCorrelation.* `CorrInv` says where the ids of what is pending and of what
is on its way come from: a request that was sent has an id that its connection
has already given out, and an answer has the ids of its request or has lost
them. With that, an entry that an answer finds is its request's
(`RightAnswer`). For `NoAnswerIsLost` it adds that an answer has not been tried in
vain on the connection that still keeps its request. `LookupIsATable`
needs in addition that whoever is recorded as answered has an answer recorded
(`FateInv`), and `OwnLegAnswersAreRight`, which does without `NodeWideHops`, that
no two requests of one connection have the same id (`OwnHopInv`).

*Lifecycle.* A handler that uses a part must not run while the part is still to
be made or is gone. `LifeInv` says when handlers run: those of `io_` only between
the end of `start()` and the beginning of `stop()`, those of the HTTP/2 threads
only between the making of their part and its removal; and that what is gone is
among the first parts in the order of `stop()`. The two orders do the rest:
`GoneInUse` goes through the parts and leaves the pool and the session, whose places
in the order are before those of the threads that use them. `PoolRace` and
`SessionRace` say where everybody is when these are met: the pool's race needs the
HTTP/2 server to be there still, the session's needs it to have ended.
`PoolIsAsValidated` holds for whatever set of command lines: it needs of `Parsed`
only that what is accepted is valid, and of `start()` that it makes the pool only
for a configuration that wants it.
For `OnlyTwoRaces` and `EverythingIsReleased` the invariant adds `TidyInv`: a
part `stop()` has been through is gone or was never made, but for a session that
an attempt has put back, which `Return` takes; and a request in flight
still has a pool. `OptionOrder` is about `Apply` alone: two different options that
follow each other may be exchanged, and of two equal ones the second wins. That a
whole command line may be permuted follows by induction over its length, which is
beyond the provers; TLC checks lines of three options.

*SessionIdScan.* The invariant carries the set that `ScanIsRight` asks for: while
the scan reads, the AVPs it has hopped over are such a set and the position
follows them. Positions are multiples of four, since the padding of a length is;
so a header that fits before the end is two whole words that were received.
`ScanGoesForward` is why the scan ends whatever lengths it is told: a length of
less than a header gives up, and any other takes the position forward by a header
at least and never beyond the padding of the last AVP.

*Translation.* The scan's invariant is taken over, each step of `Translation` being
one of the scan or leaving its variables alone (`ScanIsReused`). `UrisReadBack` is about the tables:
no name is given to two numbers and no number two names (`CHOOSE` then finds
the pair it came from), and no name is that of a number that has none.
`DictionaryIsOwn` and `SilenceMeansNoDictionary` rest on what `Dictionary` returns:
the one asked for if it is loaded, a loaded one if there is any, for which the
least element of a set of numbers must exist.

*Refinement.* `InboundRefines` and `OutboundRefines` show that initial states map to
initial states of `RequestReply` and that every step maps to one of its steps or to
a stutter (an exception that leaves a handler to `Abandon`: `ExceptionAbandons`);
`EntriesAreUsedOnce` and `LookupIsATable` the same for `PendingEntries`. The bound
on the replies comes from the invariants above. Three theorems compose modules:
`SessionIsH2Client`, `PoolIsImplemented` and `HistoryRefinesPool`, each with what it
brings from the module below.

Left to TLC: everything under fairness (`Recovers`, `StopCompletes`, the liveness
parts of `ImplementsReplies` and of `OutboundSend`'s `ImplementsEntries`,
`StreamCompleted`, `MainReturns`, `ScanEnds`), since TLAPS does not reason about
`ENABLED`. For requests and for the scan the variant is proved: how many steps there
can be and that none is taken back. That the next one is taken is what TLC checks.

## Not modelled

- `metrics_summary` and the other functions of `tools/helpers.bash`: an operator
  runs them by hand beside the gateway, and nothing of the gateway reads or writes
  their files.
- The codec, diametercomm, nghttp2-asio and the metrics library: not in the
  repository. What is taken of them is said above. So the numbering of requests
  (`NodeWideHops`), ids that a `_raw` or a `_header` brings with it, and an
  `on_error` that never comes are assumptions or listed hazards, not properties.
- An exception of `jsonBody.dump()` outside the try block (664), for a decoded text
  that is not UTF-8: what the decoder lets through is diametercodec's. A listed hazard.
- `start()` throwing, for a dictionary that is no JSON: the process ends before
  anything runs.
- What completes requests that wait when a signal stops `io_`: nothing does, and no
  document says otherwise.
- Logging, metrics labels, formatting of bodies and hex, the files of TLS: no state
  that a property is about. Tests, benchmark and deployment are not the gateway.
