--------------------------- MODULE H2Client_proofs ---------------------------
(***************************************************************************)
(* Proofs of the safety properties of H2Client, for every pair of backoff  *)
(* bounds. OneRecovery is not inductive: what makes it so is the meaning   *)
(* of h2clientReconnectPending_ (PendingIsArmed), that the first attempt   *)
(* finds no session (FirstPostIsFirst), and that stop() sets the flag      *)
(* before it touches anything else (StopOrder). LateSessionIsLast needs    *)
(* StopOrder too, and that no handler is left once the thread is joined    *)
(* (JoinedIsIdle).                                                         *)
(***************************************************************************)
EXTENDS H2Client, TLAPS

\* OneRecovery, said of the variables.
Exclusive ==
    /\ firstPost => ioPc # "connect" /\ session \notin LiveSessions /\ timer = "idle"
    /\ ioPc = "connect" => session \notin LiveSessions /\ timer = "idle"
    /\ session \in LiveSessions => timer = "idle"

InHand ==
    ~stopping => \/ firstPost
                 \/ ioPc = "connect"
                 \/ session \in LiveSessions
                 \/ timer # "idle"

PendingIsArmed ==
    /\ timer # "idle" => pending
    /\ pending => timer # "idle" \/ ioPc = "connect" \/ stopping

FirstPostIsFirst == firstPost => session = "none" /\ ~pending

StopOrder == stopping <=> mainPc # "running"

\* The thread is joined when its last handler has returned.
JoinedIsIdle ==
    /\ ioContext = "running" <=> mainPc \in {"running", "flagged", "reset"}
    /\ ioContext = "joined" <=> mainPc \in {"joined", "destroyed"}
    /\ ioContext = "joined" => ioPc = "idle"

IInv ==
    /\ TypeOK
    /\ Exclusive
    /\ InHand
    /\ PendingIsArmed
    /\ FirstPostIsFirst
    /\ StopOrder
    /\ ConnectedIsLive
    /\ BackoffFollowsDelay
    /\ JoinedIsIdle
    /\ LateSessionIsLast

\* The set of the definition and the variables say the same.
LEMMA RecoveriesSplit ==
    ASSUME TypeOK
    PROVE  OneRecovery <=> Exclusive /\ InHand
  BY DEF OneRecovery, Recoveries, Exclusive, InHand, TypeOK

\* Doubling keeps a backoff between the bounds.
LEMMA DoubledInRange ==
    ASSUME NEW b \in InitialBackoff..MaxBackoff
    PROVE  Doubled(b) \in InitialBackoff..MaxBackoff
  BY BackoffAssumption DEF Doubled

LEMMA InitEstablishes == H2Init => IInv
  <1> SUFFICES ASSUME H2Init
               PROVE  IInv
    OBVIOUS
  <1>1. TypeOK
    <2>1. InitialBackoff \in InitialBackoff..MaxBackoff
      BY BackoffAssumption
    <2> QED
      BY <2>1 DEF H2Init, TypeOK, SessionStates, TimerStates, MainSteps
  <1>2. BackoffFollowsDelay
    BY DEF H2Init, BackoffFollowsDelay
  <1> QED
    BY <1>1, <1>2
    DEF H2Init, IInv, Exclusive, InHand, PendingIsArmed, FirstPostIsFirst,
        StopOrder, ConnectedIsLive, LiveSessions, JoinedIsIdle, LateSessionIsLast

\* What scheduleH2ClientReconnect does to the timer's state, when the flag it
\* is called with tells whether the timer is armed.
LEMMA ScheduleArms ==
    ASSUME IInv, NEW armed \in BOOLEAN, ScheduleReconnect(armed)
    PROVE  /\ pending' \in BOOLEAN
           /\ backoff' \in InitialBackoff..MaxBackoff
           /\ delay' \in {0} \cup InitialBackoff..MaxBackoff
           /\ timer' \in TimerStates
           /\ backoff' = IF delay' = 0 THEN InitialBackoff ELSE Doubled(delay')
           /\ stopping \/ armed => pending' = armed /\ timer' = timer
           /\ ~stopping /\ ~armed => pending' = TRUE /\ timer' = "armed"
  <1>1. CASE stopping \/ armed
    BY <1>1 DEF IInv, TypeOK, BackoffFollowsDelay, ScheduleReconnect
  <1>2. CASE ~(stopping \/ armed)
    <2>1. Doubled(backoff) \in InitialBackoff..MaxBackoff
      BY DoubledInRange DEF IInv, TypeOK
    <2>2. backoff # 0
      BY BackoffAssumption DEF IInv, TypeOK
    <2> QED
      BY <1>2, <2>1, <2>2 DEF IInv, TypeOK, ScheduleReconnect, TimerStates
  <1> QED
    BY <1>1, <1>2

LEMMA StepPreserves == IInv /\ [Next]_h2vars => IInv'
  <1> SUFFICES ASSUME IInv, [Next]_h2vars
               PROVE  IInv'
    OBVIOUS
  <1> USE DEF IInv, TypeOK, Exclusive, InHand, PendingIsArmed,
              FirstPostIsFirst, StopOrder, ConnectedIsLive, JoinedIsIdle,
              LateSessionIsLast,
              SessionStates, LiveSessions, TimerStates, MainSteps
  <1>0. UNCHANGED <<backoff, delay>> => BackoffFollowsDelay'
    BY DEF BackoffFollowsDelay, Doubled
  <1>1. CASE BeginConnect
    <2>1. CASE firstPost /\ firstPost' = FALSE /\ UNCHANGED timer
      BY <1>0, <1>1, <2>1 DEF BeginConnect, IoIdle
    <2>2. CASE timer = "expired" /\ timer' = "idle" /\ UNCHANGED firstPost
      BY <1>0, <1>1, <2>2 DEF BeginConnect, IoIdle
    <2> QED
      BY <1>1, <2>1, <2>2 DEF BeginConnect
  <1>2. CASE CreateSession
    BY <1>0, <1>2 DEF CreateSession
  <1>3. CASE CreateThrows
    <2>1. ScheduleReconnect(FALSE)
      BY <1>3 DEF CreateThrows
    <2>2. BackoffFollowsDelay'
      BY <2>1, ScheduleArms DEF BackoffFollowsDelay, Doubled
    <2> QED
      BY <1>3, <2>1, <2>2, ScheduleArms DEF CreateThrows
  <1>4. CASE OnConnect
    BY <1>4, BackoffAssumption DEF OnConnect, IoIdle, BackoffFollowsDelay
  <1>5. CASE OnError
    <2>1. ScheduleReconnect(pending)
      BY <1>5 DEF OnError
    <2>2. BackoffFollowsDelay'
      BY <2>1, ScheduleArms DEF BackoffFollowsDelay, Doubled
    <2> QED
      BY <1>5, <2>1, <2>2, ScheduleArms DEF OnError, IoIdle
  <1>6. CASE TimerExpires
    BY <1>0, <1>6 DEF TimerExpires
  <1>7. CASE StopFlag
    BY <1>0, <1>7 DEF StopFlag
  <1>8. CASE StopSession
    BY <1>0, <1>8 DEF StopSession
  <1>9. CASE StopIo
    BY <1>0, <1>9 DEF StopIo
  <1>10. CASE StopJoin
    BY <1>0, <1>10 DEF StopJoin
  <1>11. CASE Destroy
    BY <1>0, <1>11 DEF Destroy
  <1>12. CASE AgentDown
    <2>1. /\ session' \in SessionStates
          /\ session' = "none" <=> session = "none"
          /\ session' \in LiveSessions <=> session \in LiveSessions
          /\ session' \in {"open", "failing"} <=> session \in LiveSessions
      BY <1>12 DEF AgentDown
    <2> QED
      BY <1>0, <1>12, <2>1 DEF AgentDown
  <1>13. CASE AgentUp
    BY <1>0, <1>13 DEF AgentUp
  <1>14. CASE UNCHANGED h2vars
    BY <1>0, <1>14 DEF h2vars
  <1> QED
    BY <1>1, <1>2, <1>3, <1>4, <1>5, <1>6, <1>7, <1>8, <1>9, <1>10, <1>11,
       <1>12, <1>13, <1>14
    DEF Next, RunNext, IoThread, MainThread, Environment

THEOREM Invariance == Spec => []IInv
  BY InitEstablishes, StepPreserves, PTL DEF Spec

\* Every variable of the HTTP/2 client keeps its type; the backoff, for
\* whatever bounds, stays between them however often the session is lost.
THEOREM TypeCorrect == Spec => []TypeOK
  BY Invariance, PTL DEF IInv

\* Whatever the order of errors, timers, connections and stop(), the gateway
\* always has exactly one way back to h2agent, and at most one once stopping.
THEOREM AlwaysOneRecovery == Spec => []OneRecovery
  <1>1. IInv => OneRecovery
    BY RecoveriesSplit DEF IInv
  <1> QED
    BY <1>1, Invariance, PTL

\* h2clientConnected_ is never set without a session that is open, or whose
\* loss has not been reported yet.
THEOREM ConnectedMeansSession == Spec => []ConnectedIsLive
  BY Invariance, PTL DEF IInv

\* However stop() meets the attempts of the other thread, a session it has to
\* take away twice is the last, and the gateway leaves none.
THEOREM NoSessionOutlivesStop == Spec => []LateSessionIsLast
  BY Invariance, PTL DEF IInv

\* The backoff of the next attempt follows from the delay of the last one.
THEOREM BackoffLaw == Spec => []BackoffFollowsDelay
  BY Invariance, PTL DEF IInv
=============================================================================
