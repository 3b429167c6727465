-------------------------- MODULE Lifecycle_proofs --------------------------
(***************************************************************************)
(* Proofs about Lifecycle, for every number of io_ threads.                *)
(***************************************************************************)
EXTENDS Lifecycle, TLAPS

-----------------------------------------------------------------------------
(* The orders, and the invariant *)

LEMMA Orders ==
    /\ Len(StartOrder) = 5 /\ Len(StopOrder) = 6
    /\ StartOrder[4] = "h2client" /\ StartOrder[5] = "h2server"
    /\ \A i \in 1..5 : StartOrder[i] \in Parts
    /\ \A i \in 1..6 : StopOrder[i] \in Parts
    /\ \A i \in 1..5 : i # 4 => StartOrder[i] # "h2client"
    /\ \A i \in 1..5 : i # 5 => StartOrder[i] # "h2server"
    /\ \A i \in 1..6 : (i = 3) <=> (StopOrder[i] = "h2server")
    /\ \A i \in 1..6 : (i = 4) <=> (StopOrder[i] = "session")
    /\ \A i \in 1..6 : (i = 5) <=> (StopOrder[i] = "h2client")
    /\ \A i \in 1..6 : (i = 6) <=> (StopOrder[i] = "metrics")
  BY DEF StartOrder, StopOrder, Parts

Removed == {StopOrder[i] : i \in 1..removed}

\* io_ runs neither before start() has returned nor once stop() is called.
IoInv ==
    /\ mainPc = "starting" => \A t \in IoThreads : thread[t] = "none"
    /\ mainPc # "starting" => made = 5
    /\ mainPc \in {"stopping", "returned"} =>
           \A t \in IoThreads : thread[t] = "ended"
    /\ mainPc \in {"starting", "running"} => removed = 0 /\ ~halted
    /\ halted => removed < 6

\* The threads of the HTTP/2 sides live from their part's making to its removal.
HttpInv ==
    /\ thread[ClientThread] # "none" => made >= 4
    /\ thread[ServerThread] # "none" => made = 5
    /\ removed >= 5 => thread[ClientThread] \in {"none", "ended"}
    /\ removed >= 3 => thread[ServerThread] \in {"none", "ended"}

GoneInv == \A p \in Parts : part[p] = "gone" => p \in Removed

\* Only what the configuration asks for is made.
WantedInv == part["pool"] = "here" => Wants(config)["pool"]

\* What stop() has been through is not there any more, but for a late session,
\* which goes in the end; the entries belong to a pool that is there, and the
\* threads of the HTTP/2 sides to parts that were made.
TidyInv ==
    /\ \A p \in Removed : p # "session" => part[p] # "here"
    /\ inFlight > 0 => part["pool"] = "here"
    /\ thread[ServerThread] # "none" => part["h2server"] # "absent"
    /\ thread[ClientThread] # "none" => part["h2client"] # "absent"
    /\ mainPc = "returned" => removed = 6 /\ part["session"] # "here"

LifeInv ==
    /\ LifecycleTypeOK
    /\ IoInv
    /\ HttpInv
    /\ GoneInv
    /\ WantedInv
    /\ TidyInv

-----------------------------------------------------------------------------
(* The steps *)

LEMMA LifeInvInit == LifecycleInit => LifeInv
  <1> SUFFICES ASSUME LifecycleInit PROVE LifeInv
    OBVIOUS
  <1>1. ClientThread \in Threads /\ ServerThread \in Threads
    BY DEF Threads
  <1>2. LifecycleTypeOK
    <2>1. inFlight \in 0..MaxInFlight
      BY LifecycleAssumption DEF LifecycleInit
    <2>2. made \in 0..5 /\ removed \in 0..6
      BY DEF LifecycleInit
    <2>3. Valid(config)
      BY DEF LifecycleInit, Configurations, Accepted
    <2> QED
      BY <2>1, <2>2, <2>3 DEF LifecycleInit, LifecycleTypeOK
  <1>3. IoInv
    BY DEF LifecycleInit, IoInv, Threads
  <1>4. HttpInv
    BY <1>1 DEF LifecycleInit, HttpInv
  <1>5. GoneInv
    BY DEF LifecycleInit, GoneInv
  <1>6. WantedInv
    BY DEF LifecycleInit, WantedInv, Parts
  <1>7. TidyInv
    BY <1>1 DEF LifecycleInit, TidyInv, Removed
  <1> QED
    BY <1>2, <1>3, <1>4, <1>5, <1>6, <1>7 DEF LifeInv

LEMMA MakeKeeps == ASSUME LifeInv, Make PROVE LifeInv'
  <1> DEFINE p == StartOrder[made + 1]
  <1>1. made \in 0..4 /\ p \in Parts
    BY Orders DEF LifeInv, LifecycleTypeOK, Make
  <1>2. PICK listens \in BOOLEAN :
            /\ part' = IF Needed(p) /\ (p = "metrics" => listens)
                       THEN [part EXCEPT ![p] = "here"] ELSE part
            /\ thread' = [t \in Threads |->
                   IF Needed(p) /\ \/ p = "h2client" /\ t = ClientThread
                                   \/ p = "h2server" /\ t = ServerThread /\ listens
                   THEN "idle" ELSE thread[t]]
    BY DEF Make
  <1>3. /\ p = "h2client" => made = 3
        /\ p = "h2server" => made = 4
    BY <1>1, Orders
  <1>4. /\ mainPc = "starting" /\ made' = made + 1
        /\ UNCHANGED <<config, mainPc, removed, halted, ioStopped, inFlight, crashed>>
    BY DEF Make
  <1> HIDE DEF p
  <1>5. LifecycleTypeOK'
    BY <1>1, <1>2, <1>4 DEF LifeInv, LifecycleTypeOK
  <1>6. IoInv'
    BY <1>2, <1>4, LifecycleAssumption DEF LifeInv, IoInv, Threads
  <1>7. HttpInv'
    <2>1. /\ thread'[ClientThread] # thread[ClientThread] => made = 3
          /\ thread'[ServerThread] # thread[ServerThread] => made = 4
      BY <1>2, <1>3, LifecycleAssumption DEF Threads, LifeInv, LifecycleTypeOK
    <2>2. removed = 0
      BY <1>4 DEF LifeInv, IoInv
    <2> QED
      BY <1>1, <1>4, <2>1, <2>2 DEF LifeInv, HttpInv
  <1>8. GoneInv'
    BY <1>1, <1>2, <1>4 DEF LifeInv, LifecycleTypeOK, GoneInv, Removed
  <1>9. WantedInv'
    <2>1. "pool" \in Parts
      BY DEF Parts
    <2>2. CASE p = "pool"
      BY <1>1, <1>2, <1>4, <2>1, <2>2
      DEF LifeInv, LifecycleTypeOK, WantedInv, Needed
    <2>3. CASE p # "pool"
      BY <1>1, <1>2, <1>4, <2>1, <2>3 DEF LifeInv, LifecycleTypeOK, WantedInv
    <2> QED
      BY <2>2, <2>3
  <1>10. TidyInv'
    <2>1. removed' = 0 /\ mainPc' = "starting"
      BY <1>4 DEF LifeInv, IoInv
    <2>2. \A q \in Parts : part[q] = "here" => part'[q] = "here"
      BY <1>1, <1>2 DEF LifeInv, LifecycleTypeOK
    <2>3. thread'[ServerThread] # "none" => part'["h2server"] # "absent"
      <3>1. CASE thread[ServerThread] # "none"
        <4>1. part["h2server"] # "absent"
          BY <3>1 DEF LifeInv, TidyInv
        <4> QED
          BY <1>1, <1>2, <4>1 DEF LifeInv, LifecycleTypeOK, Parts
      <3>2. CASE thread[ServerThread] = "none"
        BY <1>1, <1>2, <3>2, LifecycleAssumption
        DEF LifeInv, LifecycleTypeOK, Parts, Threads
      <3> QED
        BY <3>1, <3>2
    <2>4. thread'[ClientThread] # "none" => part'["h2client"] # "absent"
      <3>1. CASE thread[ClientThread] # "none"
        <4>1. part["h2client"] # "absent"
          BY <3>1 DEF LifeInv, TidyInv
        <4> QED
          BY <1>1, <1>2, <4>1 DEF LifeInv, LifecycleTypeOK, Parts
      <3>2. CASE thread[ClientThread] = "none"
        BY <1>1, <1>2, <3>2, LifecycleAssumption
        DEF LifeInv, LifecycleTypeOK, Parts, Threads
      <3> QED
        BY <3>1, <3>2
    <2>5. inFlight' > 0 => part'["pool"] = "here"
      BY <1>4, <2>2 DEF LifeInv, TidyInv, Parts
    <2>6. Removed' = {}
      BY <2>1 DEF Removed
    <2> QED
      BY <2>1, <2>3, <2>4, <2>5, <2>6 DEF TidyInv
  <1> QED
    BY <1>5, <1>6, <1>7, <1>8, <1>9, <1>10 DEF LifeInv

LEMMA ReleaseKeeps == ASSUME LifeInv, Release PROVE LifeInv'
  <1> DEFINE p == StopOrder[removed + 1]
  <1>1. removed \in 0..5 /\ p \in Parts
    BY Orders DEF LifeInv, LifecycleTypeOK, IoInv, Release
  <1>2. /\ \A t \in ThreadOf(p) : thread[t] \in {"none", "ended"}
        /\ part' = [part EXCEPT ![p] = IF @ = "here" THEN "gone" ELSE @]
        /\ inFlight' = IF p = "pool" THEN 0 ELSE inFlight
        /\ mainPc = "stopping" /\ removed' = removed + 1 /\ halted' = FALSE
        /\ UNCHANGED <<config, mainPc, made, ioStopped, thread, crashed>>
    BY DEF Release
  <1>3. /\ removed = 2 => ServerThread \in ThreadOf(p)
        /\ removed = 4 => ClientThread \in ThreadOf(p)
    BY Orders DEF ThreadOf, Threads
  <1>4. Removed' = Removed \cup {p}
    BY <1>1, <1>2 DEF Removed
  <1> HIDE DEF p
  <1>5. LifecycleTypeOK'
    <2>1. part' \in [Parts -> {"absent", "here", "gone"}]
      BY <1>1, <1>2 DEF LifeInv, LifecycleTypeOK
    <2>2. inFlight' \in 0..MaxInFlight
      BY <1>2, LifecycleAssumption DEF LifeInv, LifecycleTypeOK
    <2>3. removed' \in 0..6
      BY <1>1, <1>2
    <2> QED
      BY <1>2, <2>1, <2>2, <2>3 DEF LifeInv, LifecycleTypeOK
  <1>6. IoInv'
    BY <1>1, <1>2 DEF LifeInv, IoInv
  <1>7. HttpInv'
    BY <1>1, <1>2, <1>3 DEF LifeInv, HttpInv
  <1>8. GoneInv'
    BY <1>1, <1>2, <1>4 DEF LifeInv, LifecycleTypeOK, GoneInv
  <1>9. WantedInv'
    BY <1>1, <1>2 DEF LifeInv, LifecycleTypeOK, WantedInv, Parts
  <1>10. TidyInv'
    <2>1. \A q \in Removed' : q # "session" => part'[q] # "here"
      BY <1>1, <1>2, <1>4 DEF LifeInv, LifecycleTypeOK, TidyInv
    <2>2. inFlight' > 0 => part'["pool"] = "here"
      BY <1>1, <1>2 DEF LifeInv, LifecycleTypeOK, TidyInv, Parts
    <2>3. thread'[ServerThread] # "none" => part'["h2server"] # "absent"
      BY <1>1, <1>2 DEF LifeInv, LifecycleTypeOK, TidyInv, Parts
    <2>4. thread'[ClientThread] # "none" => part'["h2client"] # "absent"
      BY <1>1, <1>2 DEF LifeInv, LifecycleTypeOK, TidyInv, Parts
    <2> QED
      BY <1>2, <2>1, <2>2, <2>3, <2>4 DEF TidyInv
  <1> QED
    BY <1>5, <1>6, <1>7, <1>8, <1>9, <1>10 DEF LifeInv

\* The other steps of the main thread.
LEMMA MainKeeps ==
    ASSUME LifeInv, Signal \/ Run \/ Joined \/ Halt \/ Return
    PROVE  LifeInv'
  <1>1. CASE Signal
    BY <1>1 DEF LifeInv, LifecycleTypeOK, IoInv, HttpInv, GoneInv, WantedInv,
       TidyInv, Removed, Signal
  <1>2. CASE Run
    <2>1. LifecycleTypeOK'
      BY <1>2 DEF LifeInv, LifecycleTypeOK, Run
    <2>2. IoInv'
      BY <1>2, Orders DEF LifeInv, LifecycleTypeOK, IoInv, Run
    <2>3. /\ thread'[ClientThread] = thread[ClientThread]
          /\ thread'[ServerThread] = thread[ServerThread]
      BY <1>2, LifecycleAssumption DEF Run, Threads
    <2>4. HttpInv' /\ GoneInv' /\ WantedInv'
      BY <1>2, <2>3 DEF LifeInv, HttpInv, GoneInv, WantedInv, Removed, Run
    <2>5. TidyInv'
      BY <1>2, <2>3 DEF LifeInv, TidyInv, Removed, Run
    <2> QED
      BY <2>1, <2>2, <2>4, <2>5 DEF LifeInv
  <1>3. CASE Joined \/ Halt
    <2>1. /\ UNCHANGED <<config, part, made, removed, ioStopped, thread, inFlight,
                         crashed>>
          /\ mainPc' # "returned"
      BY <1>3 DEF Joined, Halt
    <2>2. LifecycleTypeOK'
      BY <1>3, <2>1 DEF LifeInv, LifecycleTypeOK, Joined, Halt
    <2>3. IoInv'
      <3>1. CASE Joined
        BY <2>1, <3>1 DEF LifeInv, IoInv, Joined
      <3>2. CASE Halt
        BY <2>1, <3>2, Orders DEF LifeInv, LifecycleTypeOK, IoInv, Halt
      <3> QED
        BY <1>3, <3>1, <3>2
    <2>4. HttpInv' /\ GoneInv' /\ WantedInv' /\ TidyInv'
      BY <2>1 DEF LifeInv, HttpInv, GoneInv, WantedInv, TidyInv, Removed
    <2> QED
      BY <2>2, <2>3, <2>4 DEF LifeInv
  <1>4. CASE Return
    <2>1. /\ mainPc = "stopping" /\ mainPc' = "returned" /\ removed = 6
          /\ part' = [part EXCEPT !["session"] = IF @ = "here" THEN "gone" ELSE @]
          /\ UNCHANGED <<config, made, removed, halted, ioStopped, thread, inFlight,
                         crashed>>
      BY <1>4, Orders DEF Return
    <2>2. /\ "session" \in Parts /\ "session" \in Removed /\ Removed' = Removed
          /\ part'["session"] # "here"
          /\ \A q \in Parts : q # "session" => part'[q] = part[q]
      BY <2>1, Orders DEF LifeInv, LifecycleTypeOK, Removed, Parts
    <2>3. LifecycleTypeOK'
      BY <2>1, <2>2 DEF LifeInv, LifecycleTypeOK
    <2>4. IoInv' /\ HttpInv'
      BY <2>1 DEF LifeInv, IoInv, HttpInv
    <2>5. GoneInv'
      BY <2>2 DEF LifeInv, GoneInv
    <2>6. WantedInv'
      BY <2>1, <2>2 DEF LifeInv, WantedInv, Parts
    <2>7. TidyInv'
      <3>1. Removed \subseteq Parts
        BY Orders DEF LifeInv, LifecycleTypeOK, Removed
      <3> QED
        BY <2>1, <2>2, <3>1 DEF LifeInv, TidyInv, Parts
    <2> QED
      BY <2>3, <2>4, <2>5, <2>6, <2>7 DEF LifeInv
  <1> QED
    BY <1>1, <1>2, <1>3, <1>4

\* A thread whose part has been removed, or which io_ has left, stays ended;
\* the others may change state as they like.
LEMMA ThreadMoves ==
    ASSUME LifeInv, NEW t \in Threads, NEW s \in {"idle", "ended"} \cup Busy,
           Becomes(t, s), thread[t] \notin {"none", "ended"},
           inFlight' \in 0..MaxInFlight,
           inFlight' > 0 => inFlight > 0 \/ part["pool"] = "here",
           UNCHANGED <<config, part, mainPc, made, removed, halted, ioStopped>>,
           crashed' = crashed
    PROVE  LifeInv'
  <1>1. /\ thread'[t] = s
        /\ \A u \in Threads : u # t => thread'[u] = thread[u]
    BY DEF LifeInv, LifecycleTypeOK, Becomes
  <1>2. LifecycleTypeOK'
    BY DEF LifeInv, LifecycleTypeOK, Becomes
  <1>3. IoInv'
    BY <1>1 DEF LifeInv, IoInv, Threads
  <1>4. HttpInv'
    BY <1>1 DEF LifeInv, HttpInv, Threads
  <1>5. GoneInv'
    BY DEF LifeInv, GoneInv, Removed
  <1>6. WantedInv'
    BY DEF LifeInv, WantedInv
  <1>7. TidyInv'
    BY <1>1 DEF LifeInv, TidyInv, Removed, Threads
  <1> QED
    BY <1>2, <1>3, <1>4, <1>5, <1>6, <1>7 DEF LifeInv

\* A session may come at any time before the client's thread has ended.
LEMMA SessionKeeps == ASSUME LifeInv, CreateSession PROVE LifeInv'
  <1>1. /\ thread[ClientThread] \notin {"none", "ended"}
        /\ thread' = [thread EXCEPT ![ClientThread] = "idle"]
        /\ part' = [part EXCEPT !["session"] = "here"]
        /\ UNCHANGED <<config, mainPc, made, removed, halted, ioStopped, inFlight>>
        /\ crashed' = crashed
    BY DEF CreateSession, Becomes
  <1>2. /\ "session" \in Parts /\ part'["session"] = "here"
        /\ \A q \in Parts : q # "session" => part'[q] = part[q]
    BY <1>1 DEF LifeInv, LifecycleTypeOK, Parts
  <1>3. /\ thread'[ClientThread] = "idle"
        /\ \A u \in Threads : u # ClientThread => thread'[u] = thread[u]
        /\ ClientThread \in Threads /\ ServerThread \in Threads
        /\ ClientThread # ServerThread /\ ClientThread \notin IoThreads
    BY <1>1, LifecycleAssumption DEF LifeInv, LifecycleTypeOK, Threads
  <1>4. LifecycleTypeOK'
    <2>1. part' \in [Parts -> {"absent", "here", "gone"}]
      BY <1>1 DEF LifeInv, LifecycleTypeOK
    <2>2. thread' \in [Threads -> {"none", "idle", "ended"} \cup Busy]
      BY <1>1 DEF LifeInv, LifecycleTypeOK
    <2> QED
      BY <1>1, <2>1, <2>2 DEF LifeInv, LifecycleTypeOK
  <1>5. IoInv'
    BY <1>1, <1>3 DEF LifeInv, IoInv, Threads
  <1>6. HttpInv'
    BY <1>1, <1>3 DEF LifeInv, HttpInv
  <1>7. GoneInv'
    BY <1>1, <1>2 DEF LifeInv, GoneInv, Removed
  <1>8. WantedInv'
    BY <1>1, <1>2 DEF LifeInv, WantedInv, Parts
  <1>9. TidyInv'
    <2>1. Removed' = Removed /\ Removed \subseteq Parts
      BY <1>1, Orders DEF LifeInv, LifecycleTypeOK, Removed
    <2>2. mainPc' # "returned"
      BY <1>1 DEF LifeInv, LifecycleTypeOK, HttpInv, TidyInv
    <2> QED
      BY <1>1, <1>2, <1>3, <2>1, <2>2 DEF LifeInv, TidyInv, Parts
  <1> QED
    BY <1>4, <1>5, <1>6, <1>7, <1>8, <1>9 DEF LifeInv

LEMMA ThreadsKeep ==
    ASSUME LifeInv,
           \/ \E t \in Threads : LeaveLoop(t) \/ BeginHandler(t) \/ EndHandler(t)
           \/ ClientHandler \/ RequestArrives \/ HttpHandler
    PROVE  LifeInv'
  <1>1. inFlight \in 0..MaxInFlight /\ MaxInFlight \in Nat
    BY LifecycleAssumption DEF LifeInv, LifecycleTypeOK
  <1>2. ASSUME NEW t \in Threads, LeaveLoop(t) \/ BeginHandler(t) \/ EndHandler(t)
        PROVE  LifeInv'
    <2>1. CASE LeaveLoop(t)
      BY <1>1, <2>1, ThreadMoves DEF LeaveLoop
    <2>2. CASE BeginHandler(t)
      BY <1>1, <2>2, ThreadMoves DEF BeginHandler, Busy
    <2>3. CASE EndHandler(t)
      <3>1. inFlight' \in 0..MaxInFlight /\ (inFlight' > 0 => inFlight > 0)
        BY <1>1, <2>3 DEF EndHandler
      <3>2. thread[t] \notin {"none", "ended"}
        BY <2>3 DEF EndHandler, AtSession
      <3> QED
        BY <2>3, <3>1, <3>2, ThreadMoves DEF EndHandler
    <2> QED
      BY <1>2, <2>1, <2>2, <2>3
  <1>3. ServerThread \in Threads /\ ClientThread \in Threads
    BY DEF Threads
  <1>4. CASE RequestArrives \/ LookAtPool \/ Scanned
    <2>1. PICK s \in {"idle", "received", "scanning", "built", "sending"} :
              Becomes(ServerThread, s)
      BY <1>4 DEF RequestArrives, LookAtPool, Scanned
    <2>2. /\ thread[ServerThread] \notin {"none", "ended"}
          /\ UNCHANGED <<config, part, mainPc, made, removed, halted, ioStopped,
                         inFlight>>
          /\ crashed' = crashed
      BY <1>4 DEF RequestArrives, LookAtPool, Scanned
    <2>3. s \in {"idle", "ended"} \cup Busy
      BY DEF Busy, InPool
    <2> QED
      BY <1>1, <1>3, <2>1, <2>2, <2>3, ThreadMoves
  <1>5. CASE Sent
    <2>1. /\ inFlight' \in 0..MaxInFlight
          /\ inFlight' > 0 => inFlight > 0 \/ part["pool"] = "here"
      BY <1>1, <1>5 DEF Sent
    <2> QED
      BY <1>3, <1>5, <2>1, ThreadMoves DEF Sent
  <1>6. CASE BeginConnect \/ BeginInSession
    <2>1. PICK s \in AtSession : Becomes(ClientThread, s)
      BY <1>6 DEF BeginConnect, BeginInSession, AtSession
    <2>2. /\ thread[ClientThread] \notin {"none", "ended"}
          /\ UNCHANGED <<config, part, mainPc, made, removed, halted, ioStopped,
                         inFlight>>
          /\ crashed' = crashed
      BY <1>6 DEF BeginConnect, BeginInSession
    <2>3. s \in {"idle", "ended"} \cup Busy
      BY DEF Busy
    <2> QED
      BY <1>1, <1>3, <2>1, <2>2, <2>3, ThreadMoves
  <1>7. CASE CreateSession
    BY <1>7, SessionKeeps
  <1> QED
    BY <1>2, <1>4, <1>5, <1>6, <1>7 DEF HttpHandler, ClientHandler

LEMMA LifeInvSteps == LifeInv /\ [LifecycleNext]_lcvars => LifeInv'
  <1> SUFFICES ASSUME LifeInv, [LifecycleNext]_lcvars PROVE LifeInv'
    OBVIOUS
  <1>1. CASE Crash \/ UNCHANGED lcvars
    <2>1. /\ UNCHANGED <<config, part, mainPc, made, removed, halted, ioStopped,
                         thread, inFlight>>
          /\ crashed' \in {TRUE, crashed}
      BY <1>1 DEF Crash, lcvars
    <2>2. LifecycleTypeOK'
      BY <2>1 DEF LifeInv, LifecycleTypeOK
    <2>3. IoInv' /\ HttpInv' /\ GoneInv' /\ WantedInv' /\ TidyInv'
      BY <2>1 DEF LifeInv, IoInv, HttpInv, GoneInv, WantedInv, TidyInv, Removed
    <2> QED
      BY <2>2, <2>3 DEF LifeInv
  <1> QED
    BY <1>1, MakeKeeps, ReleaseKeeps, MainKeeps, ThreadsKeep
    DEF LifecycleNext, Main

LEMMA LifeInvHolds == LifecycleSpec => []LifeInv
  BY LifeInvInit, LifeInvSteps, PTL DEF LifecycleSpec

-----------------------------------------------------------------------------
(* The theorems *)

\* The parts, the threads and what is in flight keep their types, and the
\* configuration is one that was validated.
THEOREM LifecycleTypeCorrect == LifecycleSpec => []LifecycleTypeOK
  <1>1. LifeInv => LifecycleTypeOK
    BY DEF LifeInv
  <1> QED
    BY <1>1, LifeInvHolds, PTL

\* Whatever command lines there are, a pool that runs has the connections that
\* were asked for, and a single one over SCTP.
THEOREM PoolIsAsValidated == LifecycleSpec => []SctpPoolIsSingle
  <1>1. ASSUME LifeInv, part["pool"] = "here"
        PROVE  Valid(config) /\ config.diameterPeerHost
    BY <1>1 DEF LifeInv, LifecycleTypeOK, WantedInv, Wants
  <1>2. LifeInv => SctpPoolIsSingle
    BY <1>1 DEF Valid, SctpPoolIsSingle
  <1> QED
    BY <1>2, LifeInvHolds, PTL

\* No handler, on whatever thread, runs before the parts it may use are made.
THEOREM HandlersFindThingsMade == LifecycleSpec => []NothingHalfMade
  <1>1. LifeInv => NothingHalfMade
    <2> SUFFICES ASSUME LifeInv, NEW t \in Threads, Running(t),
                        NEW p \in Uses(t), p \in StillToMake
                 PROVE  FALSE
      BY DEF NothingHalfMade
    <2>1. thread[t] # "none"
      BY DEF Running, Busy, InPool, AtSession
    <2>2. PICK i \in (made + 1)..5 : p = StartOrder[i]
      BY Orders DEF StillToMake
    <2>3. made \in 0..5
      BY DEF LifeInv, LifecycleTypeOK
    <2>4. CASE t = ClientThread
      <3>1. made >= 4
        BY <2>1, <2>4 DEF LifeInv, HttpInv
      <3>2. p = "h2server"
        BY <2>2, <2>3, <3>1, Orders
      <3> QED
        BY <2>4, <3>2, LifecycleAssumption DEF Uses
    <2>5. CASE t # ClientThread
      <3>1. made = 5
        BY <2>1, <2>5 DEF LifeInv, IoInv, HttpInv, Threads
      <3> QED
        BY <2>2, <3>1
    <2> QED
      BY <2>4, <2>5
  <1> QED
    BY <1>1, LifeInvHolds, PTL

\* What a running handler is using and stop() has taken away can only be the
\* pool under the HTTP/2 server or the session under the HTTP/2 client.
LEMMA GoneInUse ==
    ASSUME LifeInv, NEW t \in Threads, NEW p \in InUse(t), part[p] = "gone"
    PROVE  \/ t = ServerThread /\ p = "pool"
           \/ t = ClientThread /\ p = "session"
  <1>1. thread[t] \notin {"none", "ended"} /\ p \in Uses(t)
    BY DEF InUse, Running, Busy, InPool, AtSession
  <1>2. p \in Parts
    BY <1>1 DEF Uses, Parts
  <1>3. PICK i \in 1..removed : p = StopOrder[i]
    BY <1>2 DEF LifeInv, GoneInv, Removed
  <1>4. removed \in 0..6
    BY DEF LifeInv, LifecycleTypeOK
  <1>5. CASE t \in IoThreads
    <2>1. removed = 0
      <3>1. mainPc \notin {"stopping", "returned"}
        BY <1>1, <1>5 DEF LifeInv, IoInv
      <3> QED
        BY <3>1 DEF LifeInv, LifecycleTypeOK, IoInv
    <2> QED
      BY <1>3, <2>1
  <1>6. CASE t = ClientThread
    <2>1. i \in 1..4
      BY <1>1, <1>3, <1>4, <1>6 DEF LifeInv, HttpInv
    <2>2. p \notin {"metrics", "h2client"}
      BY <1>3, <2>1, Orders
    <2> QED
      BY <1>1, <1>6, <2>2, LifecycleAssumption DEF Uses
  <1>7. CASE t = ServerThread
    <2>1. i \in 1..2
      BY <1>1, <1>3, <1>4, <1>7 DEF LifeInv, HttpInv
    <2>2. p \notin {"metrics", "h2server"}
      BY <1>3, <2>1, Orders
    <2> QED
      BY <1>1, <1>7, <2>2, LifecycleAssumption DEF Uses
  <1> QED
    BY <1>5, <1>6, <1>7 DEF Threads

\* stop() takes nothing away that a running handler is using, but for the pool
\* under the HTTP/2 server's handlers and the session under the HTTP/2 client's.
THEOREM PartsOutliveHandlers == LifecycleSpec => []OutliveTheirUsers
  <1>1. LifeInv => OutliveTheirUsers
    BY GoneInUse DEF OutliveTheirUsers
  <1> QED
    BY <1>1, LifeInvHolds, PTL

\* The HTTP/2 server's handler in a pool that is gone.
LEMMA PoolRace ==
    ASSUME LifeInv, thread[ServerThread] \in InPool, part["pool"] = "gone"
    PROVE  mainPc = "stopping" /\ part["h2server"] = "here"
  <1>1. thread[ServerThread] \notin {"none", "ended"}
    BY DEF InPool
  <1>2. removed \in 0..6 /\ removed < 3
    BY <1>1 DEF LifeInv, LifecycleTypeOK, HttpInv
  <1>3. PICK i \in 1..removed : StopOrder[i] = "pool"
    BY DEF LifeInv, GoneInv, Removed, Parts
  <1>4. mainPc = "stopping"
    BY <1>2, <1>3 DEF LifeInv, LifecycleTypeOK, IoInv, TidyInv
  <1>5. "h2server" \in Parts /\ "h2server" \notin Removed
    BY <1>2, Orders DEF Removed, Parts
  <1>6. part["h2server"] = "here"
    BY <1>1, <1>5 DEF LifeInv, LifecycleTypeOK, GoneInv, TidyInv
  <1> QED
    BY <1>4, <1>6

\* The HTTP/2 client's handler at a session that stop() is at, or has destroyed.
LEMMA SessionRace ==
    ASSUME LifeInv, thread[ClientThread] \in AtSession,
           StopAtSession \/ part["session"] = "gone"
    PROVE  /\ mainPc = "stopping" /\ part["h2client"] = "here"
           /\ thread[ServerThread] \in {"none", "ended"}
  <1>1. thread[ClientThread] \notin {"none", "ended"}
    BY DEF AtSession
  <1>2. removed \in 0..6 /\ removed < 5
    BY <1>1 DEF LifeInv, LifecycleTypeOK, HttpInv
  <1>3. removed >= 3
    <2>1. CASE StopAtSession
      <3>1. removed + 1 \in 1..6 /\ StopOrder[removed + 1] = "session"
        BY <1>2, <2>1 DEF StopAtSession
      <3> QED
        BY <1>2, <3>1, Orders
    <2>2. CASE part["session"] = "gone"
      <3>1. PICK i \in 1..removed : StopOrder[i] = "session"
        BY <2>2 DEF LifeInv, GoneInv, Removed, Parts
      <3> QED
        BY <1>2, <3>1, Orders
    <2> QED
      BY <2>1, <2>2
  <1>4. mainPc = "stopping"
    BY <1>2, <1>3 DEF LifeInv, LifecycleTypeOK, IoInv, TidyInv
  <1>5. "h2client" \in Parts /\ "h2client" \notin Removed
    BY <1>2, Orders DEF Removed, Parts
  <1>6. part["h2client"] = "here"
    BY <1>1, <1>5 DEF LifeInv, LifecycleTypeOK, GoneInv, TidyInv
  <1> QED
    BY <1>2, <1>3, <1>4, <1>6 DEF LifeInv, HttpInv

\* A handler that meets a part gone, on whatever thread and whatever part, or
\* the session going, is in one of two races; there is no third one, whatever
\* threads io_ runs on and whenever the signal comes.
THEOREM OnlyTwoRaces == LifecycleSpec => []CrashIsARace
  <1>1. LifecycleInit => CrashIsARace
    BY DEF LifecycleInit, CrashIsARace
  <1>2. ASSUME LifeInv, Crash
        PROVE  CrashIsARace'
    <2>1. UNCHANGED <<part, mainPc, thread>>
      BY <1>2 DEF Crash
    <2>2. \/ thread[ServerThread] \in InPool /\ part["pool"] = "gone"
          \/ /\ thread[ClientThread] \in AtSession
             /\ StopAtSession \/ part["session"] = "gone"
      <3>1. CASE StopAtSession /\ thread[ClientThread] \in AtSession
        BY <3>1
      <3>2. CASE \E t \in Threads : \E p \in InUse(t) : part[p] = "gone"
        <4>1. PICK t \in Threads : \E p \in InUse(t) : part[p] = "gone"
          BY <3>2
        <4>2. PICK p \in InUse(t) : part[p] = "gone"
          BY <4>1
        <4>3. \/ t = ServerThread /\ p = "pool"
              \/ t = ClientThread /\ p = "session"
          BY <1>2, <4>1, <4>2, GoneInUse
        <4> QED
          BY <4>2, <4>3 DEF InUse, AtSession
      <3> QED
        BY <1>2, <3>1, <3>2 DEF Crash
    <2>3. CASE thread[ServerThread] \in InPool /\ part["pool"] = "gone"
      <3>1. mainPc = "stopping" /\ part["h2server"] = "here"
        BY <1>2, <2>3, PoolRace
      <3> QED
        BY <1>2, <2>1, <2>3, <3>1 DEF CrashIsARace, LifeInv, IoInv
    <2>4. CASE /\ thread[ClientThread] \in AtSession
               /\ StopAtSession \/ part["session"] = "gone"
      <3>1. /\ mainPc = "stopping" /\ part["h2client"] = "here"
            /\ thread[ServerThread] \in {"none", "ended"}
        BY <1>2, <2>4, SessionRace
      <3> QED
        BY <1>2, <2>1, <2>4, <3>1 DEF CrashIsARace, LifeInv, IoInv
    <2> QED
      BY <2>2, <2>3, <2>4
  <1>3. ASSUME CrashIsARace, [LifecycleNext]_lcvars, ~Crash
        PROVE  CrashIsARace'
    <2>1. CASE UNCHANGED lcvars
      BY <1>3, <2>1 DEF CrashIsARace, lcvars
    <2>2. CASE LifecycleNext
      <3>1. ~crashed /\ crashed' = crashed
        BY <1>3, <2>2 DEF LifecycleNext, Signal, Main, Make, Run, Joined, Halt,
           Release, Return, LeaveLoop, BeginHandler, EndHandler, ClientHandler,
           BeginConnect, CreateSession, BeginInSession, RequestArrives,
           HttpHandler, LookAtPool, Scanned, Sent
      <3> QED
        BY <3>1 DEF CrashIsARace
    <2> QED
      BY <1>3, <2>1, <2>2
  <1> QED
    BY <1>1, <1>2, <1>3, LifeInvHolds, PTL DEF LifecycleSpec

\* main() returns with every thread ended, every part gone, nothing in flight.
THEOREM EverythingIsReleased == LifecycleSpec => []NothingLeftBehind
  <1>1. LifeInv => NothingLeftBehind
    <2> SUFFICES ASSUME LifeInv, mainPc = "returned" PROVE NothingLeftBehind
      BY DEF NothingLeftBehind
    <2>1. removed = 6 /\ part["session"] # "here"
      BY DEF LifeInv, TidyInv
    <2>2. \A t \in Threads : thread[t] \in {"none", "ended"}
      BY <2>1 DEF LifeInv, IoInv, HttpInv, Threads
    <2>3. Removed = Parts
      BY <2>1 DEF Removed, StopOrder, Parts
    <2>4. inFlight = 0
      BY <2>3 DEF LifeInv, LifecycleTypeOK, TidyInv, Parts
    <2> QED
      BY <2>1, <2>2, <2>3, <2>4 DEF LifeInv, TidyInv, NothingLeftBehind
  <1> QED
    BY <1>1, LifeInvHolds, PTL

-----------------------------------------------------------------------------
(* The options *)

\* The field that an option sets, and what it sets it to.
Known == Ports \cup Transports
            \cup {"diameterPeerHost", "diameterConnections", "disable-metrics"}

Field(name) == IF name = "disable-metrics" THEN "metricsEnabled" ELSE name

Setting(name, value) ==
    CASE name \in Ports -> Port(value)
      [] name \in Transports -> NormalizeTransport(value)
      [] name = "diameterPeerHost" -> value # ""
      [] name = "diameterConnections" -> value
      [] name = "disable-metrics" -> FALSE

LEMMA AppliedField ==
    ASSUME NEW c, NEW option
    PROVE  Apply(c, option) =
               IF option[1] \in Known
               THEN [c EXCEPT ![Field(option[1])] = Setting(option[1], option[2])]
               ELSE c
  <1> DEFINE name == option[1]
  <1>1. CASE name \in Ports
    BY <1>1 DEF Apply, Known, Field, Setting, Ports, Transports
  <1>2. CASE name \in Transports
    BY <1>2 DEF Apply, Known, Field, Setting, Ports, Transports
  <1>3. CASE name = "diameterPeerHost"
    BY <1>3 DEF Apply, Known, Field, Setting, Ports, Transports
  <1>4. CASE name = "diameterConnections"
    BY <1>4 DEF Apply, Known, Field, Setting, Ports, Transports
  <1>5. CASE name = "disable-metrics"
    BY <1>5 DEF Apply, Known, Field, Setting, Ports, Transports
  <1>6. CASE name \notin Known
    BY <1>6 DEF Apply, Known
  <1> QED
    BY <1>1, <1>2, <1>3, <1>4, <1>5, <1>6 DEF Known

\* Of two options that follow each other the order does not matter if they are
\* different ones, and the first does not if they are the same: nothing an
\* option sets depends on what another has set.
THEOREM OptionOrder ==
    ASSUME NEW c, NEW a, NEW b
    PROVE  /\ a[1] # b[1] => Apply(Apply(c, a), b) = Apply(Apply(c, b), a)
           /\ a[1] = b[1] => Apply(Apply(c, a), b) = Apply(c, b)
  <1> DEFINE f == Field(a[1])
             g == Field(b[1])
             x == Setting(a[1], a[2])
             y == Setting(b[1], b[2])
  <1>1. /\ a[1] \in Known /\ b[1] \in Known => (f = g <=> a[1] = b[1])
    BY DEF Known, Field, Ports, Transports
  <1> HIDE DEF f, g, x, y
  <1>2. \A d : Apply(d, a) = IF a[1] \in Known THEN [d EXCEPT ![f] = x] ELSE d
    BY AppliedField DEF f, x
  <1>3. \A d : Apply(d, b) = IF b[1] \in Known THEN [d EXCEPT ![g] = y] ELSE d
    BY AppliedField DEF g, y
  <1>4. f # g => [[c EXCEPT ![f] = x] EXCEPT ![g] = y]
                     = [[c EXCEPT ![g] = y] EXCEPT ![f] = x]
    OBVIOUS
  <1>5. [[c EXCEPT ![g] = x] EXCEPT ![g] = y] = [c EXCEPT ![g] = y]
    OBVIOUS
  <1>6. CASE a[1] # b[1]
    BY <1>1, <1>2, <1>3, <1>4, <1>6
  <1>7. CASE a[1] = b[1]
    BY <1>1, <1>2, <1>3, <1>5, <1>7
  <1> QED
    BY <1>6, <1>7
=============================================================================
