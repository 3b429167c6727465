------------------------------ MODULE H2Client ------------------------------
(***************************************************************************)
(* The HTTP/2 client of the gateway towards h2agent: how its session is    *)
(* created, lost, recreated with exponential backoff, and torn down.       *)
(*                                                                         *)
(* connectH2Client, scheduleH2ClientReconnect and the session's callbacks  *)
(* run as handlers of one single-threaded io_context (h2clientIo_), so     *)
(* each of them is one action; connectH2Client is split where it has read  *)
(* h2clientStopping_, because stop() runs on the main thread and may set   *)
(* the flag, and destroy the session, right after that read.               *)
(***************************************************************************)
EXTENDS Naturals

CONSTANTS InitialBackoff,   \* h2clientReconnectInitial_, in milliseconds
          MaxBackoff        \* h2clientReconnectMax_

ASSUME BackoffAssumption ==
    /\ InitialBackoff \in Nat \ {0}
    /\ MaxBackoff \in Nat
    /\ InitialBackoff <= MaxBackoff

VARIABLES
    stopping,      \* h2clientStopping_
    pending,       \* h2clientReconnectPending_
    connected,     \* h2clientConnected_, read by the Diameter threads
    backoff,       \* h2clientReconnectBackoff_
    delay,         \* the delay the timer was last armed with since the last
                   \*   successful connection, 0 if it was not
    timer,         \* h2clientReconnectTimer_
    session,       \* what h2clientSession_ points to
    firstPost,     \* the handler start() posts is still queued
    ioPc,          \* where the h2clientIo_ thread is
    ioContext,     \* the h2clientIo_ context and its thread
    mainPc,        \* where the main thread is in stop() and ~Gateway()
    agentUp        \* h2agent can be reached

h2vars == <<stopping, pending, connected, backoff, delay, timer, session,
            firstPost, ioPc, ioContext, mainPc, agentUp>>

\* "failing": the transport is refused or lost and the session has not said so
\* yet; "dead": it has called on_error. "none": the pointer is null.
SessionStates == {"none", "connecting", "open", "failing", "dead"}
LiveSessions == {"connecting", "open", "failing"}

\* "expired": the wait has completed and its handler is queued with no error.
TimerStates == {"idle", "armed", "expired"}
MainSteps == {"running", "flagged", "reset", "ioStopped", "joined", "destroyed"}

TypeOK ==
    /\ stopping \in BOOLEAN
    /\ pending \in BOOLEAN
    /\ connected \in BOOLEAN
    /\ backoff \in InitialBackoff..MaxBackoff
    /\ delay \in {0} \cup InitialBackoff..MaxBackoff
    /\ timer \in TimerStates
    /\ session \in SessionStates
    /\ firstPost \in BOOLEAN
    /\ ioPc \in {"idle", "connect"}
    /\ ioContext \in {"running", "stopped", "joined"}
    /\ mainPc \in MainSteps
    /\ agentUp \in BOOLEAN

\* The state start() leaves: the thread runs and connectH2Client is posted.
H2Init ==
    /\ stopping = FALSE
    /\ pending = FALSE
    /\ connected = FALSE
    /\ backoff = InitialBackoff
    /\ delay = 0
    /\ timer = "idle"
    /\ session = "none"
    /\ firstPost = TRUE
    /\ ioPc = "idle"
    /\ ioContext = "running"
    /\ mainPc = "running"
    /\ agentUp \in BOOLEAN

\* A mutated form, for the check of InboundTypeOK: the maximum forgotten.
DoubledUncapped(b) == 2 * b

Doubled(b) == IF 2 * b < MaxBackoff THEN 2 * b ELSE MaxBackoff

-----------------------------------------------------------------------------
(* Handlers of the h2clientIo_ thread *)

IoIdle == ioContext = "running" /\ ioPc = "idle"

\* Mutated, for Recovers: an error reported twice arms the timer again.
ScheduleReconnectAgain(armed) ==
    IF stopping
    THEN pending' = armed /\ UNCHANGED <<timer, backoff, delay>>
    ELSE /\ pending' = TRUE
         /\ timer' = "armed"
         /\ delay' = backoff
         /\ backoff' = Doubled(backoff)

\* scheduleH2ClientReconnect(), called with h2clientReconnectPending_ = armed.
ScheduleReconnect(armed) ==
    IF stopping \/ armed
    THEN pending' = armed /\ UNCHANGED <<timer, backoff, delay>>
    ELSE /\ pending' = TRUE
         /\ timer' = "armed"
         /\ delay' = backoff
         /\ backoff' = Doubled(backoff)

\* Entry of connectH2Client(), from the handler start() posted or from the
\* timer's: both give up once the gateway is stopping.
BeginConnect ==
    /\ IoIdle
    /\ \/ firstPost /\ firstPost' = FALSE /\ UNCHANGED timer
       \/ timer = "expired" /\ timer' = "idle" /\ UNCHANGED firstPost
    /\ ioPc' = IF stopping THEN "idle" ELSE "connect"
    /\ UNCHANGED <<stopping, pending, connected, backoff, delay, session,
                   ioContext, mainPc, agentUp>>

\* Mutated, for OneRecovery: the flag of the armed timer is not cleared.
CreateSessionKeepsPending ==
    /\ ioPc = "connect"
    /\ ioPc' = "idle"
    /\ connected' = FALSE
    /\ session' = IF agentUp THEN "connecting" ELSE "failing"
    /\ UNCHANGED <<stopping, pending, backoff, delay, timer, firstPost,
                   ioContext, mainPc, agentUp>>

\* Rest of connectH2Client(): the previous session, if any, is replaced.
CreateSession ==
    /\ ioPc = "connect"
    /\ ioPc' = "idle"
    /\ pending' = FALSE
    /\ connected' = FALSE
    /\ session' = IF agentUp THEN "connecting" ELSE "failing"
    /\ UNCHANGED <<stopping, backoff, delay, timer, firstPost, ioContext,
                   mainPc, agentUp>>

\* The constructor of the session throws: the previous one stays, and another
\* attempt is scheduled.
CreateThrows ==
    /\ ioPc = "connect"
    /\ ~agentUp
    /\ ioPc' = "idle"
    /\ connected' = FALSE
    /\ ScheduleReconnect(FALSE)
    /\ UNCHANGED <<stopping, session, firstPost, ioContext, mainPc, agentUp>>

\* Mutated, for BackoffFollowsDelay: success does not reset the backoff.
OnConnectKeepsBackoff ==
    /\ IoIdle
    /\ session = "connecting"
    /\ session' = "open"
    /\ connected' = TRUE
    /\ delay' = 0
    /\ UNCHANGED <<stopping, pending, backoff, timer, firstPost, ioPc,
                   ioContext, mainPc, agentUp>>

OnConnect ==
    /\ IoIdle
    /\ session = "connecting"
    /\ session' = "open"
    /\ connected' = TRUE
    /\ backoff' = InitialBackoff
    /\ delay' = 0
    /\ UNCHANGED <<stopping, pending, timer, firstPost, ioPc, ioContext,
                   mainPc, agentUp>>

\* Mutated, for ConnectedIsLive: the flag survives the loss of the session.
OnErrorStaysConnected ==
    /\ IoIdle
    /\ session \in {"failing", "dead"}
    /\ session' = "dead"
    /\ ScheduleReconnect(pending)
    /\ UNCHANGED <<stopping, connected, firstPost, ioPc, ioContext, mainPc,
                   agentUp>>

\* A session that failed may report it more than once (a read and a write).
OnError ==
    /\ IoIdle
    /\ session \in {"failing", "dead"}
    /\ session' = "dead"
    /\ connected' = FALSE
    /\ ScheduleReconnect(pending)
    /\ UNCHANGED <<stopping, firstPost, ioPc, ioContext, mainPc, agentUp>>

TimerExpires ==
    /\ ioContext = "running"
    /\ timer = "armed"
    /\ timer' = "expired"
    /\ UNCHANGED <<stopping, pending, connected, backoff, delay, session,
                   firstPost, ioPc, ioContext, mainPc, agentUp>>

-----------------------------------------------------------------------------
(* stop() on the main thread, and the second stop() of ~Gateway() *)

StopFlag ==
    /\ mainPc = "running"
    /\ mainPc' = "flagged"
    /\ stopping' = TRUE
    /\ UNCHANGED <<pending, connected, backoff, delay, timer, session,
                   firstPost, ioPc, ioContext, agentUp>>

\* shutdown() and reset() of the session, if there is one.
StopSession ==
    /\ mainPc = "flagged"
    /\ mainPc' = "reset"
    /\ session' = "none"
    /\ UNCHANGED <<stopping, pending, connected, backoff, delay, timer,
                   firstPost, ioPc, ioContext, agentUp>>

\* The io_context takes no handler any more; the one it is in goes on.
StopIo ==
    /\ mainPc = "reset"
    /\ mainPc' = "ioStopped"
    /\ ioContext' = "stopped"
    /\ UNCHANGED <<stopping, pending, connected, backoff, delay, timer,
                   session, firstPost, ioPc, agentUp>>

\* Mutated, for LateSessionIsLast: the thread is detached, not joined.
StopDetach ==
    /\ mainPc = "ioStopped"
    /\ mainPc' = "joined"
    /\ ioContext' = "joined"
    /\ timer' = "idle"
    /\ UNCHANGED <<stopping, pending, connected, backoff, delay, session,
                   firstPost, ioPc, agentUp>>

\* The thread is joined, then the timer destroyed.
StopJoin ==
    /\ mainPc = "ioStopped"
    /\ ioPc = "idle"
    /\ mainPc' = "joined"
    /\ ioContext' = "joined"
    /\ timer' = "idle"
    /\ UNCHANGED <<stopping, pending, connected, backoff, delay, session,
                   firstPost, ioPc, agentUp>>

\* Mutated, for StopCompletes: a destructor that does not call stop() again.
DestroyOnly ==
    /\ mainPc = "joined"
    /\ mainPc' = "destroyed"
    /\ UNCHANGED <<stopping, pending, connected, backoff, delay, timer,
                   session, firstPost, ioPc, ioContext, agentUp>>

\* ~Gateway() calls stop() again: all that is left to do is a session that was
\* created in between.
Destroy ==
    /\ mainPc = "joined"
    /\ mainPc' = "destroyed"
    /\ session' = "none"
    /\ UNCHANGED <<stopping, pending, connected, backoff, delay, timer,
                   firstPost, ioPc, ioContext, agentUp>>

-----------------------------------------------------------------------------
(* h2agent and the network *)

AgentDown ==
    /\ agentUp
    /\ agentUp' = FALSE
    /\ session' = IF session \in {"connecting", "open"} THEN "failing"
                                                        ELSE session
    /\ UNCHANGED <<stopping, pending, connected, backoff, delay, timer,
                   firstPost, ioPc, ioContext, mainPc>>

AgentUp ==
    /\ ~agentUp
    /\ agentUp' = TRUE
    /\ UNCHANGED <<stopping, pending, connected, backoff, delay, timer,
                   session, firstPost, ioPc, ioContext, mainPc>>

-----------------------------------------------------------------------------

IoThread == BeginConnect \/ CreateSession \/ CreateThrows \/ OnConnect
                \/ OnError \/ TimerExpires
MainThread == StopSession \/ StopIo \/ StopJoin \/ Destroy
Environment == AgentDown \/ AgentUp

\* A gateway nobody stops.
RunNext == IoThread \/ Environment

Next == RunNext \/ StopFlag \/ MainThread

\* An io_context runs every handler that is ready and completes every wait; a
\* session tells of its success or failure; the main thread goes on. Nothing
\* makes h2agent come back or the process stop. The handler in connectH2Client
\* ends, by whichever of its two ways out.
IoFairness ==
    /\ WF_h2vars(BeginConnect)
    /\ WF_h2vars(CreateSession \/ CreateThrows)
    /\ WF_h2vars(OnConnect)
    /\ WF_h2vars(OnError)
    /\ WF_h2vars(TimerExpires)

Spec == H2Init /\ [][Next]_h2vars /\ IoFairness /\ WF_h2vars(MainThread)

-----------------------------------------------------------------------------
(* Properties *)

\* What the reconnection has in hand: the first attempt still queued, an
\* attempt being made, a session that will report back, a timer that will try
\* again.
Recoveries ==
    {r \in {"post", "attempt", "session", "timer"} :
        \/ r = "post" /\ firstPost
        \/ r = "attempt" /\ ioPc = "connect"
        \/ r = "session" /\ session \in LiveSessions
        \/ r = "timer" /\ timer # "idle"}

\* The gateway always has exactly one way back to h2agent: never none (it
\* would stay disconnected for ever, answering 5012 to everything), and never
\* two (a timer that fires under an open session makes connectH2Client destroy
\* it with its requests in flight). Once it is stopping it has at most one.
OneRecovery ==
    /\ \A x, y \in Recoveries : x = y
    /\ ~stopping => Recoveries # {}

\* The flag the Diameter threads trust is never left set on a session that has
\* reported its loss, until stop() takes the session away.
ConnectedIsLive ==
    connected /\ mainPc \in {"running", "flagged"}
        => session \in {"open", "failing"}

\* The backoff doubles with every consecutive attempt, up to its maximum, and
\* starts again from the initial delay after a successful connection.
BackoffFollowsDelay ==
    backoff = IF delay = 0 THEN InitialBackoff ELSE Doubled(delay)

\* If h2agent stays reachable and nobody stops the gateway, the HTTP/2 client
\* ends up connected for good, whatever was lost before.
Recovers == ([]~stopping /\ <>[]agentUp) => <>[]connected

\* stop() never waits for ever in join(), and no session outlives the gateway.
StopCompletes ==
    mainPc = "flagged" ~> (mainPc = "destroyed" /\ [](session = "none"))

\* Gateway.cpp, 510-511: a reconnection in flight cannot recreate the session
\* while stop() tears it down.
SessionStaysDown ==
    mainPc \in {"reset", "ioStopped", "joined"} => session = "none"

\* What does hold of that: a session which an attempt under way puts back after
\* stop() has taken one away is the last one, no attempt follows it, and the
\* second stop(), in the destructor, leaves neither a session nor an attempt.
LateSessionIsLast ==
    /\ mainPc \notin {"running", "flagged"} /\ session # "none" => ioPc = "idle"
    /\ mainPc = "destroyed" => session = "none" /\ ioPc = "idle"
=============================================================================
