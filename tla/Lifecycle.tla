------------------------------ MODULE Lifecycle ------------------------------
(***************************************************************************)
(* The life of the gateway: main() starts it, runs the Diameter io_context *)
(* on its own thread and on the workers until a signal stops that, joins   *)
(* them and calls stop(), which takes the parts away one by one while the  *)
(* threads of the HTTP/2 client and of the HTTP/2 server still run. The    *)
(* module is about which thread uses which part when. A use of a part that *)
(* is gone, or that another thread is taking away, is undefined behaviour: *)
(* the process crashes or goes on.                                         *)
(*                                                                         *)
(* The HTTP/2 client is two parts: the session, which its thread makes and *)
(* stop() destroys before it stops that thread, and the rest.              *)
(***************************************************************************)
EXTENDS CommandLine

CONSTANTS
    IoThreads,       \* the threads that run io_, the main one included
    ClientThread,    \* h2clientThread_
    ServerThread,    \* the thread of the HTTP/2 server
    MaxInFlight      \* bound: outbound requests waiting for their answer

Threads == IoThreads \cup {ClientThread, ServerThread}

ASSUME LifecycleAssumption ==
    /\ IoThreads # {}
    /\ {ClientThread, ServerThread} \cap IoThreads = {}
    /\ ClientThread # ServerThread
    /\ MaxInFlight \in Nat

Parts == {"metrics", "serverLeg", "pool", "session", "h2client", "h2server"}

VARIABLES
    config,      \* config_
    part,        \* whether a part is absent, here or gone
    mainPc,      \* where the main thread is
    made,        \* how many parts start() is through with
    removed,     \* how many parts stop() is through with
    halted,      \* stop() has told the part it is at to stop
    ioStopped,   \* io_.stop() has been called
    thread,      \* what each thread does
    inFlight,    \* pending entries of the pool
    crashed

lcvars == <<config, part, mainPc, made, removed, halted, ioStopped, thread,
            inFlight, crashed>>

\* The steps of the HTTP/2 handler between which stop() may come: before it
\* looks at the pool, within anyReady(), before it looks again, within
\* pickReady() and send().
InPool == {"scanning", "sending"}

\* The handlers of the HTTP/2 client that create the session or use it.
AtSession == {"connecting", "inSession"}

Busy == {"handler", "received", "built"} \cup InPool \cup AtSession

LifecycleTypeOK ==
    /\ Valid(config)
    /\ part \in [Parts -> {"absent", "here", "gone"}]
    /\ mainPc \in {"starting", "running", "stopping", "returned"}
    /\ made \in 0..5
    /\ removed \in 0..6
    /\ halted \in BOOLEAN
    /\ ioStopped \in BOOLEAN
    /\ thread \in [Threads -> {"none", "idle", "ended"} \cup Busy]
    /\ inFlight \in 0..MaxInFlight
    /\ crashed \in BOOLEAN

LifecycleInit ==
    /\ config \in Configurations
    /\ part = [p \in Parts |-> "absent"]
    /\ mainPc = "starting"
    /\ made = 0
    /\ removed = 0
    /\ halted = FALSE
    /\ ioStopped = FALSE
    /\ thread = [t \in Threads |-> "none"]
    /\ inFlight = 0
    /\ crashed = FALSE

-----------------------------------------------------------------------------
(* The main thread *)

\* SIGTERM or SIGINT, at any moment after the handlers are installed.
Signal ==
    /\ ~ioStopped
    /\ ioStopped' = TRUE
    /\ UNCHANGED <<config, part, mainPc, made, removed, halted, thread,
                   inFlight, crashed>>

\* Mutated, for NothingHalfMade: requests are accepted before the pool is there.
StartOrderServerFirst == <<"metrics", "h2server", "serverLeg", "pool", "h2client">>

StartOrder == <<"metrics", "serverLeg", "pool", "h2client", "h2server">>

\* The HTTP/2 client is made only for a gateway that may receive requests.
Needed(p) ==
    /\ Wants(config)[p]
    /\ p = "h2client" => part["serverLeg"] = "here" \/ part["pool"] = "here"

\* One part of start(). The endpoint of the metrics and the HTTP/2 server may
\* fail to listen: then the first is deleted again, the second gets no thread.
Make ==
    /\ mainPc = "starting"
    /\ made < Len(StartOrder)
    /\ LET p == StartOrder[made + 1]
       IN  \E listens \in BOOLEAN :
            /\ part' = IF Needed(p) /\ (p = "metrics" => listens)
                       THEN [part EXCEPT ![p] = "here"] ELSE part
            /\ thread' = [t \in Threads |->
                   IF Needed(p) /\ \/ p = "h2client" /\ t = ClientThread
                                   \/ p = "h2server" /\ t = ServerThread /\ listens
                   THEN "idle" ELSE thread[t]]
    /\ made' = made + 1
    /\ UNCHANGED <<config, mainPc, removed, halted, ioStopped, inFlight, crashed>>

\* start() has returned: the workers and the main thread run io_.
Run ==
    /\ mainPc = "starting"
    /\ made = Len(StartOrder)
    /\ mainPc' = "running"
    /\ thread' = [t \in Threads |-> IF t \in IoThreads THEN "idle" ELSE thread[t]]
    /\ UNCHANGED <<config, part, made, removed, halted, ioStopped, inFlight, crashed>>

\* The workers are joined and stop() is called.
Joined ==
    /\ mainPc = "running"
    /\ \A t \in IoThreads : thread[t] = "ended"
    /\ mainPc' = "stopping"
    /\ UNCHANGED <<config, part, made, removed, halted, ioStopped, thread,
                   inFlight, crashed>>

\* Mutated, for OutliveTheirUsers: the metrics go first, as they came.
StopOrderMetricsFirst ==
    <<"metrics", "serverLeg", "pool", "h2server", "session", "h2client">>

StopOrder == <<"serverLeg", "pool", "h2server", "session", "h2client", "metrics">>

\* shutdown(), disconnectAll(), stop(): the part is told to stop.
Halt ==
    /\ mainPc = "stopping"
    /\ removed < Len(StopOrder)
    /\ ~halted
    /\ halted' = TRUE
    /\ UNCHANGED <<config, part, mainPc, made, removed, ioStopped, thread,
                   inFlight, crashed>>

ThreadOf(p) ==
    {t \in Threads : \/ p = "h2client" /\ t = ClientThread
                     \/ p = "h2server" /\ t = ServerThread}

\* Mutated, for MainReturns: h2clientThread_ is joined, h2clientIo_ not stopped.
MayEndJoinOnly(t) ==
    IF t \in IoThreads THEN ioStopped
    ELSE halted /\ t \in ThreadOf(StopOrder[removed + 1]) \ {ClientThread}

\* A thread leaves its io_context once that has been stopped.
MayEnd(t) ==
    IF t \in IoThreads THEN ioStopped
    ELSE halted /\ t \in ThreadOf(StopOrder[removed + 1])

\* Mutated, for CrashIsARace: the part goes without its thread being joined.
ReleaseUnjoined ==
    /\ mainPc = "stopping"
    /\ halted
    /\ LET p == StopOrder[removed + 1]
       IN  /\ part' = [part EXCEPT ![p] = IF @ = "here" THEN "gone" ELSE @]
           /\ inFlight' = IF p = "pool" THEN 0 ELSE inFlight
    /\ removed' = removed + 1
    /\ halted' = FALSE
    /\ UNCHANGED <<config, mainPc, made, ioStopped, thread, crashed>>

\* join() and reset(): the entries of the pool go with it. Nothing is joined for
\* the session, whose thread is stopped and joined with the next part.
Release ==
    /\ mainPc = "stopping"
    /\ halted
    /\ LET p == StopOrder[removed + 1]
       IN  /\ \A t \in ThreadOf(p) : thread[t] \in {"none", "ended"}
           /\ part' = [part EXCEPT ![p] = IF @ = "here" THEN "gone" ELSE @]
           /\ inFlight' = IF p = "pool" THEN 0 ELSE inFlight
    /\ removed' = removed + 1
    /\ halted' = FALSE
    /\ UNCHANGED <<config, mainPc, made, ioStopped, thread, crashed>>

\* Mutated, for NothingLeftBehind: no stop() in the destructor, main() has called
\* it before.
ReturnAtOnce ==
    /\ mainPc = "stopping"
    /\ removed = Len(StopOrder)
    /\ mainPc' = "returned"
    /\ UNCHANGED <<config, part, made, removed, halted, ioStopped, thread,
                   inFlight, crashed>>

\* main() returns: the stop() of the destructor finds nothing left to do, but
\* for a session that was made after the first one had looked for it.
Return ==
    /\ mainPc = "stopping"
    /\ removed = Len(StopOrder)
    /\ mainPc' = "returned"
    /\ part' = [part EXCEPT !["session"] = IF @ = "here" THEN "gone" ELSE @]
    /\ UNCHANGED <<config, made, removed, halted, ioStopped, thread, inFlight, crashed>>

-----------------------------------------------------------------------------
(* The other threads *)

Becomes(t, state) == thread' = [thread EXCEPT ![t] = state]

LeaveLoop(t) ==
    /\ thread[t] = "idle"
    /\ MayEnd(t)
    /\ Becomes(t, "ended")
    /\ UNCHANGED <<config, part, mainPc, made, removed, halted, ioStopped,
                   inFlight, crashed>>

\* A handler of io_ or of h2clientIo_. An io_context that has been stopped
\* starts no other one.
BeginHandler(t) ==
    /\ t # ServerThread
    /\ thread[t] = "idle"
    /\ ~MayEnd(t)
    /\ Becomes(t, "handler")
    /\ UNCHANGED <<config, part, mainPc, made, removed, halted, ioStopped,
                   inFlight, crashed>>

\* connectH2Client() looks at the flag that stop() sets before all else, ...
BeginConnect ==
    /\ thread[ClientThread] = "idle"
    /\ ~MayEnd(ClientThread)
    /\ mainPc \notin {"stopping", "returned"}
    /\ Becomes(ClientThread, "connecting")
    /\ UNCHANGED <<config, part, mainPc, made, removed, halted, ioStopped,
                   inFlight, crashed>>

\* ... and makes the session, whatever has become of the flag by then. It may
\* also fail to: then the handler just ends.
CreateSession ==
    /\ thread[ClientThread] = "connecting"
    /\ part' = [part EXCEPT !["session"] = "here"]
    /\ Becomes(ClientThread, "idle")
    /\ UNCHANGED <<config, mainPc, made, removed, halted, ioStopped, inFlight, crashed>>

\* A handler finds the session there ("if (!h2clientSession_)") and submits a
\* request to it, or it is one of the session's own.
BeginInSession ==
    /\ thread[ClientThread] = "idle"
    /\ ~MayEnd(ClientThread)
    /\ part["session"] = "here"
    /\ Becomes(ClientThread, "inSession")
    /\ UNCHANGED <<config, part, mainPc, made, removed, halted, ioStopped,
                   inFlight, crashed>>

\* Mutated, for LifecycleTypeOK: the answer and the timeout of a request both come.
EndHandlerTwice(t) ==
    /\ thread[t] \in {"handler"} \cup AtSession
    /\ Becomes(t, "idle")
    /\ \/ UNCHANGED inFlight
       \/ t \in IoThreads /\ inFlight > 0 /\ inFlight' \in {inFlight - 1, inFlight - 2}
    /\ UNCHANGED <<config, part, mainPc, made, removed, halted, ioStopped, crashed>>

\* A handler of io_ may be the answer or the timeout of an outbound request.
EndHandler(t) ==
    /\ thread[t] \in {"handler"} \cup AtSession
    /\ Becomes(t, "idle")
    /\ \/ UNCHANGED inFlight
       \/ t \in IoThreads /\ inFlight > 0 /\ inFlight' = inFlight - 1
    /\ UNCHANGED <<config, part, mainPc, made, removed, halted, ioStopped, crashed>>

RequestArrives ==
    /\ thread[ServerThread] = "idle"
    /\ ~MayEnd(ServerThread)
    /\ Becomes(ServerThread, "received")
    /\ UNCHANGED <<config, part, mainPc, made, removed, halted, ioStopped,
                   inFlight, crashed>>

\* "if (!diameterClientPool_ ...)", and the same look in sendOutbound: without
\* a pool the request is answered at once.
LookAtPool ==
    /\ \/ thread[ServerThread] = "received" /\ part["pool"] = "here"
          /\ Becomes(ServerThread, "scanning")
       \/ thread[ServerThread] = "built" /\ part["pool"] = "here"
          /\ Becomes(ServerThread, "sending")
       \/ thread[ServerThread] \in {"received", "built"} /\ part["pool"] # "here"
          /\ Becomes(ServerThread, "idle")
    /\ UNCHANGED <<config, part, mainPc, made, removed, halted, ioStopped,
                   inFlight, crashed>>

\* anyReady() returns: no connection, a bad body, or on to sendOutbound.
Scanned ==
    /\ thread[ServerThread] = "scanning"
    /\ \/ Becomes(ServerThread, "idle")
       \/ Becomes(ServerThread, "built")
    /\ UNCHANGED <<config, part, mainPc, made, removed, halted, ioStopped,
                   inFlight, crashed>>

\* pickReady() and send() return: an entry is kept, or there is nothing to wait for.
Sent ==
    /\ thread[ServerThread] = "sending"
    /\ Becomes(ServerThread, "idle")
    /\ \/ UNCHANGED inFlight
       \/ part["pool"] = "here" /\ inFlight < MaxInFlight /\ inFlight' = inFlight + 1
    /\ UNCHANGED <<config, part, mainPc, made, removed, halted, ioStopped, crashed>>

-----------------------------------------------------------------------------
(* What may go wrong *)

\* What the handlers of a thread may touch.
Uses(t) ==
    IF t \in IoThreads THEN {"metrics", "serverLeg", "pool"}
    ELSE IF t = ClientThread THEN {"metrics", "h2client", "session"}
    ELSE {"metrics", "pool", "h2server"}

Running(t) == thread[t] \in Busy

\* What the running one is touching: the server's handler looks whether there is
\* a pool, and the client's whether there is a session, before it does.
InUse(t) ==
    {p \in Uses(t) :
        /\ Running(t)
        /\ t = ServerThread /\ p = "pool" => thread[t] \in InPool
        /\ p = "session" => thread[t] = "inSession"}

\* stop() reads, shuts down and resets the pointer of the session without a lock.
StopAtSession == halted /\ StopOrder[removed + 1] = "session"

\* A handler, of whatever thread, uses a part that is gone, or the session while
\* stop() is taking it away.
Crash ==
    /\ \/ \E t \in Threads : \E p \in InUse(t) : part[p] = "gone"
       \/ StopAtSession /\ thread[ClientThread] \in AtSession
    /\ crashed' = TRUE
    /\ UNCHANGED <<config, part, mainPc, made, removed, halted, ioStopped, thread,
                   inFlight>>

-----------------------------------------------------------------------------
Main == Make \/ Run \/ Joined \/ Halt \/ Release \/ Return

HttpHandler == LookAtPool \/ Scanned \/ Sent

ClientHandler == BeginConnect \/ CreateSession \/ BeginInSession

LifecycleNext ==
    /\ ~crashed
    /\ \/ Signal
       \/ Main
       \/ \E t \in Threads : LeaveLoop(t) \/ BeginHandler(t) \/ EndHandler(t)
       \/ ClientHandler
       \/ RequestArrives
       \/ HttpHandler
       \/ Crash

LifecycleSpec ==
    /\ LifecycleInit
    /\ [][LifecycleNext]_lcvars
    /\ WF_lcvars(~crashed /\ Main)
    /\ WF_lcvars(~crashed /\ HttpHandler)
    /\ \A t \in Threads : WF_lcvars(~crashed /\ (LeaveLoop(t) \/ EndHandler(t)))

-----------------------------------------------------------------------------
(* Properties *)

StillToMake == {StartOrder[i] : i \in (made + 1)..Len(StartOrder)}

\* No handler runs before everything it may use is made, although the threads
\* of the HTTP/2 sides run while start() is still going on ("The pool is
\* created later in start(), before the io_context runs", Gateway.cpp 253).
NothingHalfMade ==
    \A t \in Threads : Running(t) =>
        \A p \in Uses(t) : p \in StillToMake => ~Needed(p)

\* Whatever the moment of the signal, stop() takes nothing away that a running
\* handler is using, but for two parts that it destroys before it stops the
\* thread whose handlers use them: the pool under the HTTP/2 server's, and the
\* session under the HTTP/2 client's.
OutliveTheirUsers ==
    \A t \in Threads : \A p \in InUse(t) :
        part[p] = "gone" => \/ t = ServerThread /\ p = "pool"
                            \/ t = ClientThread /\ p = "session"

\* README.md, 590-596: in whatever order the options came, a pool has the connections
\* it was asked for, and one over SCTP has a single one. Nothing in Gateway.cpp
\* looks at the two together again.
SctpPoolIsSingle ==
    part["pool"] = "here" =>
        LET size == IF config.diameterConnections < 1 THEN 1 ELSE config.diameterConnections
        IN  /\ size = config.diameterConnections
            /\ config.diameterClientTransport = "sctp" => size = 1

\* DiameterClientPool.hpp, 24: disconnectAll() is called "not concurrently with
\* traffic". stop() disconnects and destroys the pool (520) while the HTTP/2
\* server, which is stopped after it (525), hands requests to it.
PoolQuietAtTeardown ==
    mainPc = "stopping" /\ halted /\ StopOrder[removed + 1] = "pool" =>
        thread[ServerThread] \notin InPool

\* When a process crashes for using what is gone, main() is in stop(), no thread
\* of io_ is left, and it is one of two races: the HTTP/2 server, not stopped
\* yet, has a handler in the pool that is gone; or, the HTTP/2 server's thread
\* having ended, the HTTP/2 client, not stopped yet, has one that creates or uses
\* the session. A gateway without a pool to send by and without an HTTP/2 client
\* never crashes so.
CrashIsARace ==
    crashed =>
        /\ mainPc = "stopping"
        /\ \A t \in IoThreads : thread[t] = "ended"
        /\ \/ /\ thread[ServerThread] \in InPool
              /\ part["pool"] = "gone" /\ part["h2server"] = "here"
           \/ /\ thread[ClientThread] \in AtSession
              /\ thread[ServerThread] \in {"none", "ended"}
              /\ part["h2client"] = "here"

\* When main() returns, whenever the signal came and whatever start() could not
\* make, every thread has ended and every part that was made is gone, a session
\* that stop() came too early for included; and no request is left waiting for
\* its answer.
NothingLeftBehind ==
    mainPc = "returned" =>
        /\ \A t \in Threads : thread[t] \in {"none", "ended"}
        /\ \A p \in Parts : part[p] # "here"
        /\ inFlight = 0

\* A signal at any moment, during start() too, makes main() return, unless the
\* process crashes.
MainReturns == ioStopped ~> (mainPc = "returned" \/ crashed)
=============================================================================
