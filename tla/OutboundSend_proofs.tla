------------------------- MODULE OutboundSend_proofs -------------------------
(***************************************************************************)
(* Every outbound request is responded to at most once and, unless its     *)
(* handler was left by an exception, is either pending or responded to,    *)
(* what it is told of the pool is true, and the steps of the gateway are   *)
(* steps of the abstract request/reply service, for every number of        *)
(* requests and connections.                                               *)
(***************************************************************************)
EXTENDS OutboundSend, ClientPool_proofs, SequenceTheorems

-----------------------------------------------------------------------------
(* The inductive invariant *)

\* Only a handler that waits for a scan is in one: once the request is done its
\* steady set no longer changes.
ScanPhase(r) == op[r] # "none" => phase[r] \in {"entry", "pick"}

PendingInv(r) ==
    /\ phase[r] = "done" => (pending[r] # NoClient <=> outcome[r] = <<>>)
    /\ phase[r] # "done" => pending[r] = NoClient /\ outcome[r] = <<>>

\* What has been written or is posted was responded, and one of the two only.
PostedInv(r) ==
    /\ outcome[r] = <<>> => posted[r] = <<>> /\ written[r] = <<>>
    /\ posted[r] # <<>> => written[r] = <<>> /\ Len(posted[r]) = 1

ToldInv(r) ==
    (phase[r] = "done" /\ outcome[r] = <<"502 not connected">>) => steady[r] = {}

RequestInv(r) ==
    /\ ScanPhase(r)
    /\ PendingInv(r)
    /\ PostedInv(r)
    /\ ToldInv(r)

OutboundInv ==
    /\ OutboundTypeOK
    /\ PoolInv
    /\ \A r \in Callers : RequestInv(r)

Same(r) ==
    /\ op'[r] = op[r] /\ phase'[r] = phase[r] /\ pending'[r] = pending[r]
    /\ outcome'[r] = outcome[r] /\ posted'[r] = posted[r]
    /\ written'[r] = written[r]
    /\ op[r] = "none" => steady'[r] = steady[r]

LEMMA SameKeeps ==
    ASSUME NEW r \in Callers, RequestInv(r), Same(r)
    PROVE  RequestInv(r)'
  BY DEF RequestInv, ScanPhase, PendingInv, PostedInv, ToldInv, Same

\* Sequences of one element.
LEMMA OneElement ==
    ASSUME NEW x, NEW y, <<x>> = <<y>>
    PROVE  x = y
  <1>1. <<x>>[1] = x /\ <<y>>[1] = y
    OBVIOUS
  <1> QED
    BY <1>1

LEMMA AppendToNone ==
    ASSUME NEW S, NEW s \in Seq(S), s = <<>>, NEW x \in S
    PROVE  /\ Append(s, x) = <<x>>
           /\ Append(s, x) # <<>>
           /\ Len(Append(s, x)) = 1
  OBVIOUS

LEMMA TailOfOne ==
    ASSUME NEW S, NEW s \in Seq(S), Len(s) = 1
    PROVE  Tail(s) = <<>>
  <1>1. Tail(s) \in Seq(S) /\ Len(Tail(s)) = 0
    OBVIOUS
  <1> QED
    BY <1>1, EmptySeq

-----------------------------------------------------------------------------
(* The pool *)

\* A step of the gateway is a step of the pool, or leaves it alone.
LEMMA PoolSimulated == [OutboundNext]_outvars => [PoolNext]_poolvars
  BY DEF OutboundNext, outvars, Handler, Arrive, Scan, NotConnected, BadRequest,
         LeftByException, Pick, Picked, SendAccepted, SendRefused, RespondRefused, AnswerArrives,
         Answered, TimesOut, WriteResponse, StreamCloses, ConnectionChanges,
         PoolNext

\* The gateway uses the pool as ClientPool says it may be used: what is proved
\* of the pool under any callers holds under these.
THEOREM PoolIsImplemented == OutboundSpec => PoolSpec
  <1>1. OutboundInit => PoolInit
    BY DEF OutboundInit
  <1> QED
    BY <1>1, PoolSimulated, PTL DEF OutboundSpec, PoolSpec

\* So no scan for an outbound request misses a connection that stayed ready.
COROLLARY OutboundScansMissNothing == OutboundSpec => []NothingSteadyIsMissed
  BY PoolIsImplemented, SteadyIsFound, PTL

-----------------------------------------------------------------------------
(* The types *)

LEMMA RespondTypes ==
    ASSUME OutboundTypeOK, NEW r \in Callers, NEW status \in Statuses,
           Respond(r, status)
    PROVE  /\ outcome' \in [Callers -> Seq(Statuses)]
           /\ posted' \in [Callers -> Seq(Statuses)]
  <1>1. outcome[r] \in Seq(Statuses) /\ posted[r] \in Seq(Statuses)
    BY DEF OutboundTypeOK
  <1>2. /\ Append(outcome[r], status) \in Seq(Statuses)
        /\ Append(posted[r], status) \in Seq(Statuses)
    BY <1>1
  <1> QED
    BY <1>2 DEF OutboundTypeOK, Respond

LEMMA OutboundTypeInit == OutboundInit => OutboundTypeOK
  BY PoolTypeInit DEF OutboundInit, OutboundTypeOK

LEMMA OutboundTypeSteps ==
    ASSUME OutboundTypeOK, [OutboundNext]_outvars
    PROVE  OutboundTypeOK'
  <1>0. PoolTypeOK'
    BY PoolSimulated, PoolTypeSteps DEF OutboundTypeOK
  <1>1. ASSUME NEW r \in Callers,
               \/ Arrive(r) \/ Scan(r) \/ Pick(r) \/ Picked(r)
               \/ SendAccepted(r) \/ SendRefused(r) \/ StreamCloses(r)
               \/ LeftByException(r)
        PROVE  OutboundTypeOK'
    <2>1. ready \subseteq Conns /\ result[r] \in Conns \cup {NoClient}
      BY DEF OutboundTypeOK, PoolTypeOK
    <2>2. CASE Arrive(r)
      BY <1>0, <2>2 DEF OutboundTypeOK, Arrive
    <2>3. CASE Scan(r) \/ Pick(r) \/ Picked(r)
      BY <1>0, <2>1, <2>3 DEF OutboundTypeOK, Scan, sendvars, Pick, Picked
    <2>4. CASE SendAccepted(r) \/ SendRefused(r) \/ StreamCloses(r)
      BY <1>0, <2>1, <2>4 DEF OutboundTypeOK, SendAccepted, SendRefused,
                              StreamCloses, Return
    <2>5. CASE LeftByException(r)
      BY <1>0, <2>5 DEF OutboundTypeOK, LeftByException
    <2> QED
      BY <1>1, <2>2, <2>3, <2>4, <2>5
  <1>2. ASSUME NEW r \in Callers, NEW status \in Statuses, Respond(r, status),
               Return(r) \/ UNCHANGED <<serving, phase>>,
               pending' = pending \/ pending' = [pending EXCEPT ![r] = NoClient],
               UNCHANGED <<client, stream, written>>
        PROVE  OutboundTypeOK'
    BY <1>0, <1>2, RespondTypes DEF OutboundTypeOK, Return
  <1>3. ASSUME NEW r \in Callers, NotConnected(r) \/ BadRequest(r)
        PROVE  OutboundTypeOK'
    BY <1>2, <1>3 DEF NotConnected, BadRequest, Statuses
  <1>4. ASSUME NEW r \in Callers, RespondRefused(r)
        PROVE  OutboundTypeOK'
    BY <1>2, <1>4 DEF RespondRefused, Statuses
  <1>5. ASSUME NEW r \in Callers, AnswerArrives(r) \/ TimesOut(r)
        PROVE  OutboundTypeOK'
    BY <1>2, <1>5 DEF AnswerArrives, TimesOut, Answered, Statuses
  <1>6. ASSUME NEW r \in Callers, WriteResponse(r)
        PROVE  OutboundTypeOK'
    <2>1. posted[r] \in Seq(Statuses) /\ written[r] \in Seq(Statuses)
      BY DEF OutboundTypeOK
    <2>2. Tail(posted[r]) \in Seq(Statuses)
          /\ Append(written[r], Head(posted[r])) \in Seq(Statuses)
      BY <1>6, <2>1 DEF WriteResponse
    <2> QED
      BY <1>0, <1>6, <2>2 DEF OutboundTypeOK, WriteResponse
  <1>7. ASSUME UNCHANGED sendvars
        PROVE  OutboundTypeOK'
    BY <1>0, <1>7 DEF OutboundTypeOK, sendvars
  <1> QED
    BY <1>1, <1>3, <1>4, <1>5, <1>6, <1>7
    DEF OutboundNext, Handler, ConnectionChanges, outvars

-----------------------------------------------------------------------------
(* The steps *)

LEMMA OutboundInvInit == OutboundInit => OutboundInv
  BY OutboundTypeInit, PoolInvInit
  DEF OutboundInit, PoolInit, OutboundInv, RequestInv, ScanPhase, PendingInv,
      PostedInv, ToldInv

\* A handler that responds does so for the first time.
LEMMA HandlerResponds ==
    ASSUME OutboundInv, NEW r \in Callers, NEW status \in Statuses,
           Respond(r, status), Return(r), phase[r] # "done",
           UNCHANGED <<pending, written>>,
           op'[r] = "none", op[r] = "none",
           status = "502 not connected" => steady'[r] = {}
    PROVE  RequestInv(r)'
  <1>1. /\ outcome[r] \in Seq(Statuses) /\ posted[r] \in Seq(Statuses)
        /\ outcome[r] = <<>> /\ posted[r] = <<>> /\ written[r] = <<>>
        /\ pending[r] = NoClient
    BY DEF OutboundInv, OutboundTypeOK, RequestInv, PendingInv, PostedInv
  <1>2. /\ outcome'[r] = <<status>> /\ outcome'[r] # <<>>
        /\ Len(posted'[r]) = 1
    <2>1. /\ outcome'[r] = Append(outcome[r], status)
          /\ posted'[r] = Append(posted[r], status)
      BY DEF OutboundInv, OutboundTypeOK, Respond
    <2>2. \A s \in Seq(Statuses) : s = <<>> =>
              /\ Append(s, status) = <<status>> /\ Append(s, status) # <<>>
              /\ Len(Append(s, status)) = 1
      BY AppendToNone
    <2> QED
      BY <1>1, <2>1, <2>2
  <1>3. /\ phase'[r] = "done" /\ pending'[r] = NoClient /\ written'[r] = <<>>
    BY <1>1 DEF OutboundInv, OutboundTypeOK, Return
  <1>4. outcome'[r] = <<"502 not connected">> => status = "502 not connected"
    BY <1>2, OneElement
  <1> QED
    BY <1>2, <1>3, <1>4
    DEF RequestInv, ScanPhase, PendingInv, PostedInv, ToldInv

LEMMA AnswerResponds ==
    ASSUME OutboundInv, NEW r \in Callers, NEW status \in Statuses,
           Answered(r, status), status # "502 not connected"
    PROVE  RequestInv(r)'
  <1>1. /\ outcome[r] \in Seq(Statuses) /\ posted[r] \in Seq(Statuses)
        /\ phase[r] = "done"
        /\ outcome[r] = <<>> /\ posted[r] = <<>> /\ written[r] = <<>>
    BY DEF OutboundInv, OutboundTypeOK, RequestInv, PendingInv, PostedInv,
           Answered
  <1>2. /\ outcome'[r] = <<status>> /\ outcome'[r] # <<>>
        /\ Len(posted'[r]) = 1
    <2>1. /\ outcome'[r] = Append(outcome[r], status)
          /\ posted'[r] = Append(posted[r], status)
      BY DEF OutboundInv, OutboundTypeOK, Respond, Answered
    <2> QED
      BY <1>1, <2>1, AppendToNone
  <1>3. /\ phase' = phase /\ op' = op /\ written' = written
        /\ pending'[r] = NoClient
    BY DEF OutboundInv, OutboundTypeOK, Answered, poolvars
  <1>4. outcome'[r] # <<"502 not connected">>
    BY <1>2, OneElement
  <1>5. ScanPhase(r)
    BY DEF OutboundInv, RequestInv
  <1> QED
    BY <1>1, <1>2, <1>3, <1>4, <1>5
    DEF RequestInv, ScanPhase, PendingInv, PostedInv, ToldInv

LEMMA ScanSteps ==
    ASSUME OutboundInv, NEW r \in Callers, Arrive(r) \/ Scan(r) \/ Pick(r)
    PROVE  RequestInv(r)' /\ \A q \in Callers : q # r => Same(q)
  <1>1. RequestInv(r)
    BY DEF OutboundInv
  <1>2. UNCHANGED <<pending, outcome, posted, written>>
    BY DEF Arrive, Scan, Pick, sendvars
  <1>3. phase'[r] \in {"entry", "pick"}
    <2>1. CASE Arrive(r) \/ Pick(r)
      BY <2>1 DEF OutboundInv, OutboundTypeOK, Arrive, Pick
    <2>2. CASE Scan(r)
      BY <1>1, <2>2 DEF RequestInv, ScanPhase, Scan, Probe, sendvars
    <2> QED
      BY <2>1, <2>2
  <1>4. phase[r] # "done"
    BY <1>1 DEF RequestInv, ScanPhase, Arrive, Pick, Returned, Scan, Probe
  <1>5. \A q \in Callers : q # r =>
            /\ op'[q] = op[q] /\ phase'[q] = phase[q]
            /\ op[q] = "none" => steady'[q] = steady[q]
    <2>1. CASE Arrive(r)
      BY <2>1 DEF OutboundInv, OutboundTypeOK, PoolTypeOK, Arrive,
                  BeginAnyReady, Begin
    <2>2. CASE Scan(r)
      BY <2>2 DEF OutboundInv, OutboundTypeOK, PoolTypeOK, Scan, Probe, sendvars
    <2>3. CASE Pick(r)
      BY <2>3 DEF OutboundInv, OutboundTypeOK, PoolTypeOK, Pick,
                  BeginPickReady, Begin
    <2> QED
      BY <2>1, <2>2, <2>3
  <1>6. \A q \in Callers : q # r => Same(q)
    BY <1>2, <1>5 DEF Same
  <1>7. RequestInv(r)'
    BY <1>1, <1>2, <1>3, <1>4
    DEF RequestInv, ScanPhase, PendingInv, PostedInv, ToldInv
  <1> QED
    BY <1>6, <1>7

LEMMA SendSteps ==
    ASSUME OutboundInv, NEW r \in Callers,
           \/ Picked(r) \/ SendAccepted(r) \/ SendRefused(r)
           \/ LeftByException(r)
    PROVE  RequestInv(r)' /\ \A q \in Callers : q # r => Same(q)
  <1>1. SendAccepted(r) => client[r] \in Conns
    BY DEF OutboundInv, OutboundTypeOK, PoolTypeOK, SendAccepted
  <1>2. NoClient \notin Conns
    BY PoolAssumption DEF Conns
  <1>3. RequestInv(r)
    BY DEF OutboundInv
  <1>4. UNCHANGED <<op, steady, outcome, posted, written>>
    BY DEF Picked, SendAccepted, SendRefused, LeftByException, poolvars
  <1>5. \A q \in Callers : q # r => Same(q)
    BY <1>4 DEF OutboundInv, OutboundTypeOK, Same, Picked, SendAccepted,
                SendRefused, LeftByException, Return
  <1>6. CASE Picked(r) \/ SendRefused(r) \/ LeftByException(r)
    <2>1. /\ phase'[r] \in {"send", "refused", "thrown"}
          /\ op[r] = "none" /\ pending' = pending
      BY <1>3, <1>6 DEF OutboundInv, OutboundTypeOK, RequestInv, ScanPhase,
                        Picked, Returned, SendRefused, LeftByException
    <2>2. pending[r] = NoClient /\ outcome[r] = <<>>
      BY <1>3, <1>6 DEF RequestInv, PendingInv, Picked, Returned, SendRefused,
                        LeftByException
    <2> QED
      BY <1>3, <1>4, <1>5, <2>1, <2>2
      DEF RequestInv, ScanPhase, PendingInv, PostedInv, ToldInv
  <1>7. CASE SendAccepted(r)
    <2>1. /\ phase'[r] = "done" /\ op[r] = "none" /\ outcome[r] = <<>>
          /\ pending'[r] # NoClient
      BY <1>1, <1>2, <1>3, <1>7
      DEF OutboundInv, OutboundTypeOK, RequestInv, ScanPhase, PendingInv,
          SendAccepted, Return
    <2>2. outcome[r] # <<"502 not connected">>
      BY <2>1
    <2> QED
      BY <1>3, <1>4, <1>5, <2>1, <2>2
      DEF RequestInv, ScanPhase, PendingInv, PostedInv, ToldInv
  <1> QED
    BY <1>6, <1>7

LEMMA RespondingSteps ==
    ASSUME OutboundInv, NEW r \in Callers,
           NotConnected(r) \/ BadRequest(r) \/ RespondRefused(r)
    PROVE  RequestInv(r)' /\ \A q \in Callers : q # r => Same(q)
  <1>1. \A q \in Callers : q # r => Same(q)
    BY DEF OutboundInv, OutboundTypeOK, Same, NotConnected, BadRequest,
           RespondRefused, Respond, Return, poolvars
  <1>2. op[r] = "none" /\ op'[r] = "none" /\ steady' = steady
    BY DEF OutboundInv, RequestInv, ScanPhase, NotConnected, BadRequest,
           Returned, RespondRefused, poolvars
  <1>3. CASE NotConnected(r)
    <2>1. steady[r] = {}
      BY <1>2, <1>3 DEF OutboundInv, PoolInv, ScanInv, NotConnected
    <2> QED
      BY <1>1, <1>2, <1>3, <2>1, HandlerResponds
      DEF NotConnected, Returned, Statuses
  <1>4. CASE BadRequest(r)
    BY <1>1, <1>2, <1>4, HandlerResponds DEF BadRequest, Returned, Statuses
  <1>5. CASE RespondRefused(r)
    BY <1>1, <1>2, <1>5, HandlerResponds DEF RespondRefused, Statuses
  <1> QED
    BY <1>3, <1>4, <1>5

LEMMA CallbackSteps ==
    ASSUME OutboundInv, NEW r \in Callers, AnswerArrives(r) \/ TimesOut(r)
    PROVE  RequestInv(r)' /\ \A q \in Callers : q # r => Same(q)
  <1>1. PICK status \in {"200", "502 undecodable", "504"} : Answered(r, status)
    BY DEF AnswerArrives, TimesOut
  <1>2. RequestInv(r)'
    BY <1>1, AnswerResponds DEF Statuses
  <1>3. \A q \in Callers : q # r => Same(q)
    BY <1>1 DEF OutboundInv, OutboundTypeOK, Same, Answered, Respond, poolvars
  <1> QED
    BY <1>2, <1>3

LEMMA WriteSteps ==
    ASSUME OutboundInv, NEW r \in Callers, WriteResponse(r)
    PROVE  RequestInv(r)' /\ \A q \in Callers : q # r => Same(q)
  <1>1. /\ posted[r] \in Seq(Statuses) /\ Len(posted[r]) = 1
        /\ outcome[r] # <<>> /\ RequestInv(r)
    BY DEF OutboundInv, OutboundTypeOK, RequestInv, PostedInv, WriteResponse
  <1>2. posted'[r] = <<>>
    BY <1>1, TailOfOne DEF OutboundInv, OutboundTypeOK, WriteResponse
  <1>3. \A q \in Callers : q # r => Same(q)
    BY DEF OutboundInv, OutboundTypeOK, Same, WriteResponse, poolvars
  <1>4. UNCHANGED <<op, phase, pending, outcome, steady>>
    BY DEF WriteResponse, poolvars
  <1> QED
    BY <1>1, <1>2, <1>3, <1>4
    DEF RequestInv, ScanPhase, PendingInv, PostedInv, ToldInv

LEMMA OtherSteps ==
    ASSUME OutboundInv,
           \/ \E r \in Callers : StreamCloses(r)
           \/ \E c \in Conns : ConnectionChanges(c)
           \/ UNCHANGED outvars
    PROVE  \A q \in Callers : Same(q)
  BY DEF OutboundInv, OutboundTypeOK, PoolTypeOK, Same, StreamCloses,
         ConnectionChanges, ReadyChanges, sendvars, outvars, poolvars

LEMMA OutboundInvSteps == OutboundInv /\ [OutboundNext]_outvars => OutboundInv'
  <1> SUFFICES ASSUME OutboundInv, [OutboundNext]_outvars
               PROVE  OutboundInv'
    OBVIOUS
  <1>1. OutboundTypeOK' /\ PoolInv'
    BY OutboundTypeSteps, PoolSimulated, PoolInvSteps DEF OutboundInv
  <1>2. ASSUME NEW r \in Callers,
               RequestInv(r)', \A q \in Callers : q # r => Same(q)
        PROVE  OutboundInv'
    BY <1>1, <1>2, SameKeeps DEF OutboundInv
  <1>3. ASSUME \A q \in Callers : Same(q)
        PROVE  OutboundInv'
    BY <1>1, <1>3, SameKeeps DEF OutboundInv
  <1> QED
    BY <1>2, <1>3, ScanSteps, SendSteps, RespondingSteps, CallbackSteps,
       WriteSteps, OtherSteps
    DEF OutboundNext, Handler

THEOREM OutboundInvariance == OutboundSpec => []OutboundInv
  BY OutboundInvInit, OutboundInvSteps, PTL DEF OutboundSpec

-----------------------------------------------------------------------------
(* The properties *)

\* The requests, their pending entries, responses and streams keep their types.
THEOREM OutboundTypeCorrect == OutboundSpec => []OutboundTypeOK
  BY OutboundInvariance, PTL DEF OutboundInv

\* A request whose handler has returned is either pending or responded to, one
\* whose handler an exception has left is neither, however its scans, its send,
\* its answer and its timeout interleave with the other requests.
THEOREM NeverBothNeverNeither == OutboundSpec => []PendingOrResponded
  <1>1. OutboundInv => PendingOrResponded
    BY DEF OutboundInv, RequestInv, PendingInv, PendingOrResponded
  <1> QED
    BY <1>1, OutboundInvariance, PTL

\* h2agent is told that the peer is not connected only if no connection stayed
\* ready during the scan.
THEOREM NotConnectedToldTruly == OutboundSpec => []NotConnectedIsTrue
  <1>1. OutboundInv => NotConnectedIsTrue
    BY DEF OutboundInv, RequestInv, ToldInv, NotConnectedIsTrue
  <1> QED
    BY <1>1, OutboundInvariance, PTL

\* A stream is written to once at most, and only while it is open.
THEOREM WritesAreSafe == OutboundSpec => WrittenOnceWhileOpen
  <1>1. ASSUME OutboundInv, [OutboundNext]_outvars, NEW r \in Callers,
               written'[r] # written[r]
        PROVE  stream[r] = "open" /\ written[r] = <<>>
    <2>1. \/ written' = written
          \/ \E q \in Callers : WriteResponse(q)
      BY <1>1 DEF OutboundNext, outvars, Handler, Arrive, Scan, sendvars,
           NotConnected, BadRequest, LeftByException, Pick, Picked, SendAccepted,
           SendRefused, RespondRefused, AnswerArrives, Answered, TimesOut, StreamCloses,
           ConnectionChanges
    <2>2. WriteResponse(r)
      BY <1>1, <2>1 DEF OutboundInv, OutboundTypeOK, WriteResponse
    <2> QED
      BY <1>1, <2>2 DEF OutboundInv, OutboundTypeOK, RequestInv, PostedInv,
                        WriteResponse
  <1>2. OutboundInv /\ [OutboundNext]_outvars
        => [\A r \in Callers : written'[r] # written[r] =>
                stream[r] = "open" /\ written[r] = <<>>]_outvars
    BY <1>1
  <1> QED
    BY <1>2, OutboundInvariance, PTL DEF OutboundSpec, WrittenOnceWhileOpen

-----------------------------------------------------------------------------
(* The way of a request *)

\* How far a scan has come: the one under way, or the one that has returned.
ScanRank(r) == IF op[r] = "none" THEN Size ELSE step[r]

\* How far the handler has come, its two scans included.
HandlerRank(r) ==
    IF phase[r] = "new" THEN 0
    ELSE IF phase[r] = "entry" THEN 1 + ScanRank(r)
    ELSE IF phase[r] = "pick" THEN Size + 2 + ScanRank(r)
    ELSE IF phase[r] = "send" THEN 2 * Size + 3
    ELSE IF phase[r] = "refused" THEN 2 * Size + 4
    ELSE 2 * Size + 5

ReplyRank(r) ==
    IF outcome[r] = <<>> THEN 0 ELSE IF posted[r] # <<>> THEN 1 ELSE 2

StreamRank(r) ==
    IF stream[r] = "none" THEN 0 ELSE IF stream[r] = "open" THEN 1 ELSE 2

Rank(r) == HandlerRank(r) + ReplyRank(r) + StreamRank(r)

Ranks == 0..(2 * Size + 9)

StepOf(r) ==
    Arrive(r) \/ Handler(r) \/ AnswerArrives(r) \/ TimesOut(r) \/ WriteResponse(r)
        \/ StreamCloses(r)

\* A step of a request takes it forward; those of other requests and of the
\* connections leave it where it is.
GoesForward ==
    \A r \in Callers :
        /\ Rank(r) \in Ranks /\ Rank(r)' \in Ranks /\ Rank(r)' >= Rank(r)
        /\ StepOf(r) => Rank(r)' > Rank(r)

LEMMA RankIsBounded ==
    ASSUME OutboundTypeOK
    PROVE  \A r \in Callers : Rank(r) \in Ranks
  <1> SUFFICES ASSUME NEW r \in Callers PROVE Rank(r) \in Ranks
    OBVIOUS
  <1>1. Size \in Nat \ {0} /\ step[r] \in 0..(Size - 1)
    BY PoolAssumption DEF OutboundTypeOK, PoolTypeOK, Conns
  <1>2. ScanRank(r) \in 0..Size
    BY <1>1 DEF ScanRank
  <1>3. HandlerRank(r) \in 0..(2 * Size + 5)
    BY <1>1, <1>2 DEF HandlerRank
  <1>4. ReplyRank(r) \in 0..2 /\ StreamRank(r) \in 0..2
    BY DEF ReplyRank, StreamRank
  <1> QED
    BY <1>1, <1>3, <1>4 DEF Rank, Ranks

\* A stream is opened by the arrival of its request.
NewInv == \A r \in Callers : phase[r] = "new" => stream[r] = "none"

LEMMA NewInvSteps ==
    ASSUME OutboundTypeOK, NewInv, [OutboundNext]_outvars
    PROVE  NewInv'
  <1> SUFFICES ASSUME NEW r \in Callers, phase'[r] = "new"
               PROVE  stream'[r] = "none"
    BY DEF NewInv
  <1> USE DEF OutboundTypeOK, NewInv
  <1>1. ASSUME NEW q \in Callers, Arrive(q)
        PROVE  stream'[r] = "none"
    BY <1>1 DEF Arrive
  <1>2. ASSUME NEW q \in Callers, Handler(q)
        PROVE  stream'[r] = "none"
    BY <1>2 DEF Handler, Scan, sendvars, NotConnected, BadRequest, LeftByException,
                Pick, Picked, SendAccepted, SendRefused, RespondRefused, Return
  <1>3. ASSUME NEW q \in Callers,
               AnswerArrives(q) \/ TimesOut(q) \/ WriteResponse(q) \/ StreamCloses(q)
        PROVE  stream'[r] = "none"
    BY <1>3 DEF AnswerArrives, TimesOut, Answered, WriteResponse, StreamCloses
  <1>4. ASSUME UNCHANGED sendvars
        PROVE  stream'[r] = "none"
    BY <1>4 DEF sendvars
  <1> QED
    BY <1>1, <1>2, <1>3, <1>4 DEF OutboundNext, outvars, ConnectionChanges

\* Each of the steps moves one of the three on.
LEMMA HandlerGoesForward ==
    ASSUME OutboundInv, NewInv, NEW r \in Callers,
           \/ Arrive(r) \/ Scan(r) \/ Pick(r) \/ Picked(r)
           \/ SendAccepted(r) \/ SendRefused(r) \/ LeftByException(r)
    PROVE  /\ HandlerRank(r)' > HandlerRank(r)
           /\ UNCHANGED <<outcome, posted>>
           /\ StreamRank(r)' >= StreamRank(r)
  <1>1. /\ Size \in Nat \ {0}
        /\ step[r] \in 0..(Size - 1)
        /\ OutboundTypeOK /\ PoolTypeOK /\ ScanPhase(r)
    BY PoolAssumption
    DEF OutboundInv, OutboundTypeOK, PoolTypeOK, Conns, RequestInv
  <1> USE <1>1 DEF OutboundTypeOK, PoolTypeOK, HandlerRank, ScanRank, StreamRank
  <1>2. CASE Arrive(r)
    <2>1. stream[r] = "none" /\ HandlerRank(r) = 0
      BY <1>2 DEF Arrive, NewInv
    <2>2. /\ phase'[r] = "entry" /\ op'[r] = "anyReady" /\ step'[r] = 0
          /\ UNCHANGED <<outcome, posted>>
      BY <1>2 DEF Arrive, BeginAnyReady, Begin
    <2>3. HandlerRank(r)' = 1
      BY <2>2
    <2> QED
      BY <2>1, <2>2, <2>3
  <1>3. CASE Scan(r)
    BY <1>3 DEF Scan, Probe, sendvars, ScanPhase
  <1>4. CASE Pick(r)
    BY <1>4 DEF Pick, Returned, BeginPickReady, Begin
  <1>5. CASE Picked(r)
    BY <1>5 DEF Picked, Returned, poolvars
  <1>6. CASE SendAccepted(r) \/ SendRefused(r)
    BY <1>6 DEF SendAccepted, SendRefused, Return, poolvars
  <1>7. CASE LeftByException(r)
    BY <1>7 DEF LeftByException, Returned, poolvars
  <1> QED
    BY <1>2, <1>3, <1>4, <1>5, <1>6, <1>7

LEMMA ResponseGoesForward ==
    ASSUME OutboundInv, NEW r \in Callers,
           \/ NotConnected(r) \/ BadRequest(r) \/ RespondRefused(r)
           \/ AnswerArrives(r) \/ TimesOut(r)
    PROVE  /\ HandlerRank(r)' >= HandlerRank(r)
           /\ ReplyRank(r)' > ReplyRank(r)
           /\ stream' = stream
  <1>1. /\ Size \in Nat \ {0}
        /\ step[r] \in 0..(Size - 1)
        /\ OutboundTypeOK /\ PoolTypeOK /\ PendingInv(r)
    BY PoolAssumption
    DEF OutboundInv, OutboundTypeOK, PoolTypeOK, Conns, RequestInv
  <1>2. PICK status \in Statuses : Respond(r, status)
    BY DEF NotConnected, BadRequest, RespondRefused, AnswerArrives, TimesOut,
           Answered, Statuses
  <1>3. /\ Return(r) \/ UNCHANGED <<serving, phase>>
        /\ UNCHANGED <<poolvars, stream>>
    BY DEF NotConnected, BadRequest, RespondRefused, AnswerArrives, TimesOut,
           Answered
  <1>4. outcome[r] = <<>>
    BY <1>1 DEF NotConnected, BadRequest, RespondRefused, AnswerArrives, TimesOut,
           Answered, Returned, PendingInv
  <1>5. outcome'[r] # <<>> /\ posted'[r] # <<>>
    <2>1. outcome[r] \in Seq(Statuses) /\ posted[r] \in Seq(Statuses)
      BY <1>1 DEF OutboundTypeOK
    <2>2. /\ outcome'[r] = Append(outcome[r], status)
          /\ posted'[r] = Append(posted[r], status)
      BY <1>1, <1>2 DEF OutboundTypeOK, Respond
    <2>3. ASSUME NEW s \in Seq(Statuses)
          PROVE  Append(s, status) # <<>>
      <3>1. Len(Append(s, status)) = Len(s) + 1 /\ Len(s) \in Nat
        OBVIOUS
      <3>2. Append(s, status) = <<>> => Len(Append(s, status)) = 0
        OBVIOUS
      <3> QED
        BY <3>1, <3>2
    <2> QED
      BY <2>1, <2>2, <2>3
  <1>6. HandlerRank(r)' >= HandlerRank(r)
    BY <1>1, <1>3
    DEF OutboundTypeOK, PoolTypeOK, HandlerRank, ScanRank, Return, poolvars
  <1> QED
    BY <1>3, <1>4, <1>5, <1>6 DEF ReplyRank

LEMMA StreamGoesForward ==
    ASSUME OutboundInv, NEW r \in Callers, WriteResponse(r) \/ StreamCloses(r)
    PROVE  /\ HandlerRank(r)' = HandlerRank(r)
           /\ ReplyRank(r)' + StreamRank(r)' > ReplyRank(r) + StreamRank(r)
  <1>1. HandlerRank(r)' = HandlerRank(r)
    BY DEF WriteResponse, StreamCloses, HandlerRank, ScanRank, poolvars
  <1>2. CASE WriteResponse(r)
    <2>1. posted[r] \in Seq(Statuses) /\ Len(posted[r]) = 1 /\ outcome[r] # <<>>
      BY <1>2 DEF OutboundInv, OutboundTypeOK, RequestInv, PostedInv, WriteResponse
    <2>2. posted'[r] = <<>>
      <3>1. posted'[r] = Tail(posted[r])
        BY <1>2 DEF OutboundInv, OutboundTypeOK, WriteResponse
      <3> QED
        BY <2>1, <3>1, TailOfOne
    <2> QED
      BY <1>1, <1>2, <2>1, <2>2 DEF WriteResponse, ReplyRank, StreamRank
  <1>3. CASE StreamCloses(r)
    BY <1>1, <1>3
    DEF OutboundInv, OutboundTypeOK, StreamCloses, ReplyRank, StreamRank
  <1> QED
    BY <1>2, <1>3

LEMMA StepGoesForward ==
    ASSUME OutboundInv, NewInv, NEW r \in Callers, StepOf(r)
    PROVE  Rank(r)' > Rank(r)
  <1>1. /\ Rank(r) \in Nat /\ HandlerRank(r) \in Nat /\ HandlerRank(r)' \in Nat
        /\ ReplyRank(r) \in Nat /\ ReplyRank(r)' \in Nat
        /\ StreamRank(r) \in Nat /\ StreamRank(r)' \in Nat
    <2>1. OutboundTypeOK /\ OutboundTypeOK'
      <3>1. [OutboundNext]_outvars
        BY DEF StepOf, OutboundNext
      <3> QED
        BY <3>1, OutboundTypeSteps DEF OutboundInv
    <2>2. /\ Size \in Nat
          /\ step[r] \in Nat /\ step'[r] \in Nat
      BY <2>1, PoolAssumption DEF OutboundTypeOK, PoolTypeOK, Conns
    <2>3. HandlerRank(r) \in Nat /\ HandlerRank(r)' \in Nat
      BY <2>2 DEF HandlerRank, ScanRank
    <2> QED
      BY <2>3 DEF Rank, ReplyRank, StreamRank
  <1>2. CASE \/ Arrive(r) \/ Scan(r) \/ Pick(r) \/ Picked(r)
             \/ SendAccepted(r) \/ SendRefused(r) \/ LeftByException(r)
    <2>1. /\ HandlerRank(r)' > HandlerRank(r)
          /\ UNCHANGED <<outcome, posted>>
          /\ StreamRank(r)' >= StreamRank(r)
      BY <1>2, HandlerGoesForward
    <2>2. ReplyRank(r)' = ReplyRank(r)
      BY <2>1 DEF ReplyRank
    <2> QED
      BY <1>1, <2>1, <2>2 DEF Rank
  <1>3. CASE \/ NotConnected(r) \/ BadRequest(r) \/ RespondRefused(r)
             \/ AnswerArrives(r) \/ TimesOut(r)
    <2>1. /\ HandlerRank(r)' >= HandlerRank(r)
          /\ ReplyRank(r)' > ReplyRank(r)
          /\ stream' = stream
      BY <1>3, ResponseGoesForward
    <2>2. StreamRank(r)' = StreamRank(r)
      BY <2>1 DEF StreamRank
    <2> QED
      BY <1>1, <2>1, <2>2 DEF Rank
  <1>4. CASE WriteResponse(r) \/ StreamCloses(r)
    BY <1>1, <1>4, StreamGoesForward DEF Rank
  <1> QED
    BY <1>2, <1>3, <1>4 DEF StepOf, Handler

\* What another request does, or a connection, leaves a request where it is.
LEMMA OthersStay ==
    ASSUME OutboundInv, NEW r \in Callers,
           \/ \E q \in Callers : q # r /\ StepOf(q)
           \/ \E c \in Conns : ConnectionChanges(c)
           \/ UNCHANGED outvars
    PROVE  Rank(r)' = Rank(r)
  <1>1. OutboundTypeOK /\ PoolTypeOK
    BY DEF OutboundInv, OutboundTypeOK
  <1>2. CASE \E q \in Callers : q # r /\ StepOf(q)
    <2>1. PICK q \in Callers : q # r /\ StepOf(q)
      BY <1>2
    <2>2. /\ op'[r] = op[r] /\ step'[r] = step[r] /\ phase'[r] = phase[r]
          /\ outcome'[r] = outcome[r] /\ posted'[r] = posted[r]
          /\ stream'[r] = stream[r]
      <3> USE <1>1, <2>1 DEF OutboundTypeOK, PoolTypeOK
      <3>1. CASE Arrive(q) \/ Scan(q) \/ Pick(q)
        BY <3>1 DEF Arrive, Scan, Pick, BeginAnyReady, BeginPickReady, Begin,
                    Probe, sendvars
      <3>2. CASE Picked(q) \/ SendAccepted(q) \/ SendRefused(q) \/ WriteResponse(q)
                 \/ StreamCloses(q) \/ LeftByException(q)
        BY <3>2 DEF Picked, SendAccepted, SendRefused, WriteResponse, StreamCloses,
                    LeftByException, Return, poolvars
      <3>3. CASE NotConnected(q) \/ BadRequest(q) \/ RespondRefused(q)
        <4>1. /\ \E status : Respond(q, status)
              /\ Return(q)
              /\ UNCHANGED <<poolvars, stream>>
          BY <3>3 DEF NotConnected, BadRequest, RespondRefused
        <4> QED
          BY <4>1 DEF Respond, Return, poolvars
      <3>4. CASE AnswerArrives(q) \/ TimesOut(q)
        <4>1. PICK status : Answered(q, status)
          BY <3>4 DEF AnswerArrives, TimesOut
        <4> QED
          BY <4>1 DEF Answered, Respond, poolvars
      <3> QED
        BY <3>1, <3>2, <3>3, <3>4 DEF StepOf, Handler
    <2> QED
      BY <2>2 DEF Rank, HandlerRank, ScanRank, ReplyRank, StreamRank
  <1>3. CASE (\E c \in Conns : ConnectionChanges(c)) \/ UNCHANGED outvars
    <2>1. UNCHANGED <<op, step, phase, outcome, posted, stream>>
      BY <1>3 DEF ConnectionChanges, ReadyChanges, sendvars, outvars, poolvars
    <2> QED
      BY <2>1 DEF Rank, HandlerRank, ScanRank, ReplyRank, StreamRank
  <1> QED
    BY <1>2, <1>3

\* However many requests there are and whatever the connections do, a request
\* is taken forward by each of its own steps and back by none: the handler on
\* the only HTTP/2 thread is through after two scans of the pool, and the
\* request after 2 * Size + 9 steps at the most. That they are taken is
\* StreamCompleted.
THEOREM RequestsGoForward == OutboundSpec => [][GoesForward]_outvars
  <1>1. ASSUME OutboundInv, NewInv, [OutboundNext]_outvars
        PROVE  GoesForward
    <2>1. \A r \in Callers : Rank(r) \in Ranks
      BY <1>1, RankIsBounded DEF OutboundInv
    <2>2. OutboundTypeOK'
      BY <1>1, OutboundTypeSteps DEF OutboundInv
    <2>3. \A r \in Callers : Rank(r)' \in Ranks
      <3>1. ASSUME NEW r \in Callers PROVE Rank(r)' \in Ranks
        <4>1. Size \in Nat \ {0} /\ step'[r] \in 0..(Size - 1)
          BY <2>2, PoolAssumption DEF OutboundTypeOK, PoolTypeOK, Conns
        <4>2. ScanRank(r)' \in 0..Size
          BY <4>1 DEF ScanRank
        <4>3. HandlerRank(r)' \in 0..(2 * Size + 5)
          BY <4>1, <4>2 DEF HandlerRank
        <4>4. ReplyRank(r)' \in 0..2 /\ StreamRank(r)' \in 0..2
          BY DEF ReplyRank, StreamRank
        <4> QED
          BY <4>1, <4>3, <4>4 DEF Rank, Ranks
      <3> QED
        BY <3>1
    <2>4. ASSUME NEW r \in Callers, ~StepOf(r)
          PROVE  Rank(r)' = Rank(r)
      BY <1>1, <2>4, OthersStay DEF OutboundNext, StepOf
    <2>5. ASSUME NEW r \in Callers, StepOf(r)
          PROVE  Rank(r)' > Rank(r)
      BY <1>1, <2>5, StepGoesForward
    <2>6. Ranks \subseteq Int
      BY PoolAssumption DEF Ranks
    <2>7. ASSUME NEW r \in Callers
          PROVE  /\ Rank(r)' >= Rank(r)
                 /\ StepOf(r) => Rank(r)' > Rank(r)
      <3>1. Rank(r) \in Int /\ Rank(r)' \in Int
        BY <2>1, <2>3, <2>6
      <3>2. CASE StepOf(r)
        <4>1. Rank(r)' > Rank(r)
          BY <2>5, <3>2
        <4> QED
          BY <3>1, <4>1
      <3>3. CASE ~StepOf(r)
        <4>1. Rank(r)' = Rank(r)
          BY <2>4, <3>3
        <4> QED
          BY <3>1, <3>3, <4>1
      <3> QED
        BY <3>2, <3>3
    <2> QED
      BY <2>1, <2>3, <2>7 DEF GoesForward
  <1>2. OutboundInit => NewInv
    BY DEF OutboundInit, NewInv
  <1>3. OutboundInv /\ NewInv /\ [OutboundNext]_outvars => NewInv'
    BY NewInvSteps DEF OutboundInv
  <1> QED
    BY <1>1, <1>2, <1>3, OutboundInvariance, PTL DEF OutboundSpec

-----------------------------------------------------------------------------
(* The refinement of RequestReply *)

Asked == [r \in Callers |-> IF phase[r] = "new" THEN NoRequest ELSE r]
Replied == [r \in Callers |-> [i \in 1..Len(outcome[r]) |-> r]]
Abandoned == {r \in Callers : phase[r] = "thrown"}

LEMMA NoReply ==
    ASSUME NEW r, NEW s, s = <<>>
    PROVE  [i \in 1..Len(s) |-> r] = <<>>
  OBVIOUS

LEMMA OneReply ==
    ASSUME NEW r, NEW x, NEW s, s = <<x>>
    PROVE  [i \in 1..Len(s) |-> r] = <<r>>
  OBVIOUS

LEMMA AppendReply ==
    ASSUME NEW r
    PROVE  Append(<<>>, r) = <<r>>
  OBVIOUS

\* A step of Respond is the reply of the abstract service.
LEMMA RespondReplies ==
    ASSUME OutboundInv, NEW r \in Callers, NEW status \in Statuses,
           Respond(r, status), phase[r] \notin {"new", "thrown"}, outcome[r] = <<>>,
           \A q \in Callers : phase'[q] = "new" <=> phase[q] = "new",
           \A q \in Callers : phase'[q] = "thrown" <=> phase[q] = "thrown"
    PROVE  Replies!Reply(r)
  <1>1. outcome'[r] = <<status>> /\ \A q \in Callers : q # r => outcome'[q] = outcome[q]
    <2>1. outcome[r] \in Seq(Statuses)
      BY DEF OutboundInv, OutboundTypeOK
    <2> QED
      BY <2>1, AppendToNone DEF OutboundInv, OutboundTypeOK, Respond
  <1>2. Asked' = Asked
    BY DEF Asked
  <1>3. Replied[r] = <<>> /\ Replied'[r] = <<r>>
    BY <1>1, NoReply, OneReply DEF Replied
  <1>4. Replied' = [Replied EXCEPT ![r] = Append(@, Asked[r])]
    <2>1. Append(Replied[r], Asked[r]) = <<r>>
      BY <1>3, AppendReply DEF Asked
    <2> QED
      BY <1>1, <1>3, <2>1 DEF Replied
  <1>5. Asked[r] # NoRequest /\ Len(Replied[r]) < 1
    BY <1>3, OutboundAssumption DEF Asked
  <1>6. r \notin Abandoned /\ Abandoned' = Abandoned
    BY DEF Abandoned
  <1> QED
    BY <1>2, <1>4, <1>5, <1>6 DEF Replies!Reply, Asked, Replied, Abandoned

LEMMA ArriveAsks ==
    ASSUME OutboundInv, NEW r \in Callers, Arrive(r)
    PROVE  Replies!Ask(r)
  <1>1. /\ phase[r] = "new" /\ phase'[r] = "entry" /\ outcome' = outcome
        /\ \A q \in Callers : q # r => phase'[q] = phase[q]
    BY DEF OutboundInv, OutboundTypeOK, Arrive
  <1>2. Asked[r] = NoRequest /\ Asked' = [Asked EXCEPT ![r] = r]
    BY <1>1 DEF Asked
  <1>3. Replied' = Replied
    BY <1>1 DEF Replied
  <1>4. Abandoned' = Abandoned
    BY <1>1 DEF Abandoned
  <1> QED
    BY <1>2, <1>3, <1>4 DEF Replies!Ask, Asked, Replied, Abandoned

\* The exception abandons its request, which nobody has answered.
LEMMA ExceptionAbandons ==
    ASSUME OutboundInv, NEW r \in Callers, LeftByException(r)
    PROVE  Replies!Abandon(r)
  <1>1. /\ phase[r] = "entry" /\ phase'[r] = "thrown" /\ outcome' = outcome
        /\ \A q \in Callers : q # r => phase'[q] = phase[q]
    BY DEF OutboundInv, OutboundTypeOK, LeftByException, Returned
  <1>2. Asked[r] # NoRequest /\ Asked' = Asked
    BY <1>1, OutboundAssumption DEF Asked
  <1>3. Replied[r] = <<>> /\ Replied' = Replied
    <2>1. outcome[r] = <<>>
      BY <1>1 DEF OutboundInv, RequestInv, PendingInv
    <2> QED
      BY <1>1, <2>1, NoReply DEF Replied
  <1>4. Abandoned' = Abandoned \cup {r}
    BY <1>1 DEF Abandoned
  <1> QED
    BY <1>2, <1>3, <1>4 DEF Replies!Abandon, Asked, Replied, Abandoned

\* The other steps neither ask, reply nor abandon.
LEMMA QuietSteps ==
    ASSUME OutboundInv, outcome' = outcome,
           \A q \in Callers : phase'[q] = "new" <=> phase[q] = "new",
           \A q \in Callers : phase'[q] = "thrown" <=> phase[q] = "thrown"
    PROVE  UNCHANGED Replies!rrvars
  BY DEF Replies!rrvars

LEMMA StepsRefine ==
    OutboundInv /\ [OutboundNext]_outvars => [Replies!RRNext]_(Replies!rrvars)
  <1> SUFFICES ASSUME OutboundInv, [OutboundNext]_outvars
               PROVE  [Replies!RRNext]_(Replies!rrvars)
    OBVIOUS
  <1>1. ASSUME NEW r \in Callers, Arrive(r)
        PROVE  Replies!RRNext
    BY <1>1, ArriveAsks DEF Replies!RRNext
  <1>2. ASSUME NEW r \in Callers, NEW status \in Statuses, Respond(r, status),
               Return(r), phase[r] \notin {"new", "thrown", "done"}
        PROVE  Replies!RRNext
    <2>1. outcome[r] = <<>>
      BY <1>2 DEF OutboundInv, RequestInv, PendingInv
    <2>2. \A q \in Callers : /\ phase'[q] = "new" <=> phase[q] = "new"
                             /\ phase'[q] = "thrown" <=> phase[q] = "thrown"
      BY <1>2 DEF OutboundInv, OutboundTypeOK, Return
    <2> QED
      BY <1>2, <2>1, <2>2, RespondReplies DEF Replies!RRNext
  <1>3. ASSUME NEW r \in Callers,
               NotConnected(r) \/ BadRequest(r) \/ RespondRefused(r)
        PROVE  Replies!RRNext
    BY <1>2, <1>3 DEF NotConnected, BadRequest, RespondRefused, Returned, Statuses
  <1>4. ASSUME NEW r \in Callers, AnswerArrives(r) \/ TimesOut(r)
        PROVE  Replies!RRNext
    <2>1. PICK status \in Statuses : Answered(r, status)
      BY <1>4 DEF AnswerArrives, TimesOut, Statuses
    <2>2. phase' = phase /\ phase[r] = "done" /\ outcome[r] = <<>>
      BY <2>1 DEF OutboundInv, RequestInv, PendingInv, Answered
    <2> QED
      BY <2>1, <2>2, RespondReplies DEF Answered, Replies!RRNext
  <1>5. ASSUME NEW r \in Callers,
               \/ Scan(r) \/ Pick(r) \/ Picked(r) \/ SendAccepted(r)
               \/ SendRefused(r) \/ WriteResponse(r) \/ StreamCloses(r)
        PROVE  UNCHANGED Replies!rrvars
    <2>1. outcome' = outcome
      BY <1>5 DEF Scan, Pick, Picked, SendAccepted, SendRefused, WriteResponse,
                  StreamCloses, sendvars
    <2>2. \A q \in Callers : /\ phase'[q] = "new" <=> phase[q] = "new"
                             /\ phase'[q] = "thrown" <=> phase[q] = "thrown"
      BY <1>5 DEF OutboundInv, OutboundTypeOK, Scan, Pick, Picked, SendAccepted,
                  SendRefused, WriteResponse, StreamCloses, sendvars, Returned,
                  Return
    <2> QED
      BY <2>1, <2>2, QuietSteps
  <1>6. ASSUME UNCHANGED sendvars
        PROVE  UNCHANGED Replies!rrvars
    BY <1>6, QuietSteps DEF sendvars
  <1>7. ASSUME NEW r \in Callers, LeftByException(r)
        PROVE  Replies!RRNext
    BY <1>7, ExceptionAbandons DEF Replies!RRNext
  <1> QED
    BY <1>1, <1>3, <1>4, <1>5, <1>6, <1>7
    DEF OutboundNext, Handler, ConnectionChanges, outvars

LEMMA InitRefines == OutboundInit => Replies!RRInit
  BY NoReply DEF OutboundInit, Replies!RRInit

\* The safety part of ImplementsReplies: every step of the gateway asks,
\* replies once to a request that has asked and was not abandoned, abandons one
\* that has had no reply (by the exception, and then only), or does nothing of it.
THEOREM OutboundRefines == OutboundSpec => Replies!RRSafety
  BY InitRefines, StepsRefine, OutboundInvariance, PTL
  DEF OutboundSpec, Replies!RRSafety

-----------------------------------------------------------------------------
(* The refinement of PendingEntries *)

AnswerStatuses == {"200", "502 undecodable"}

ToldOf == [r \in Callers |->
              IF outcome[r] = <<"504">> THEN "timeout"
              ELSE IF outcome[r] \in {<<"200">>, <<"502 undecodable">>} THEN r
              ELSE NoRequest]

LEMMA ToldNothing ==
    ASSUME NEW r \in Callers, outcome[r] = <<>>
    PROVE  ToldOf[r] = NoRequest
  <1>1. \A x : outcome[r] # <<x>>
    OBVIOUS
  <1> QED
    BY <1>1 DEF ToldOf

\* A response for a request that has none yet.
LEMMA RespondTellsOne ==
    ASSUME OutboundInv, NEW r \in Callers, NEW status \in Statuses,
           Respond(r, status), outcome[r] = <<>>
    PROVE  /\ outcome'[r] = <<status>>
           /\ \A q \in Callers : q # r => outcome'[q] = outcome[q]
  <1>1. outcome[r] \in Seq(Statuses)
    BY DEF OutboundInv, OutboundTypeOK
  <1> QED
    BY <1>1, AppendToNone DEF OutboundInv, OutboundTypeOK, Respond

LEMMA AcceptedIsKept ==
    ASSUME OutboundInv, NEW r \in Callers, SendAccepted(r)
    PROVE  Entries!Keep(r, client[r])
  <1>1. pending[r] = NoClient /\ outcome[r] = <<>> /\ outcome' = outcome
    BY DEF OutboundInv, RequestInv, PendingInv, SendAccepted
  <1>2. ToldOf[r] = NoRequest /\ ToldOf' = ToldOf
    BY <1>1, ToldNothing DEF ToldOf
  <1> QED
    BY <1>1, <1>2 DEF SendAccepted, Entries!Keep, ToldOf

\* The callbacks tell of the timeout or of the request's own answer.
LEMMA CallbackTells ==
    ASSUME OutboundInv, NEW r \in Callers, AnswerArrives(r) \/ TimesOut(r)
    PROVE  Entries!Told(r)
  <1>1. PICK status \in AnswerStatuses \cup {"504"} : Answered(r, status)
    BY DEF AnswerArrives, TimesOut, AnswerStatuses
  <1>2. status \in Statuses
    BY DEF AnswerStatuses, Statuses
  <1>3. pending[r] # NoClient /\ outcome[r] = <<>>
    BY <1>1 DEF OutboundInv, RequestInv, PendingInv, Answered
  <1>4. /\ outcome'[r] = <<status>>
        /\ \A q \in Callers : q # r => outcome'[q] = outcome[q]
    BY <1>1, <1>2, <1>3, RespondTellsOne DEF Answered
  <1> DEFINE what == IF status = "504" THEN "timeout" ELSE r
  <1>5. ToldOf'[r] = what
    <2>1. ASSUME NEW x, outcome'[r] = <<x>> PROVE x = status
      BY <1>4, <2>1, OneElement
    <2> QED
      BY <1>4, <2>1 DEF ToldOf, AnswerStatuses
  <1>6. ToldOf[r] = NoRequest
    BY <1>3, ToldNothing
  <1>7. ToldOf' = [ToldOf EXCEPT ![r] = what]
    BY <1>4, <1>5 DEF ToldOf
  <1>8. Entries!Tell(r, what)
    BY <1>1, <1>3, <1>6, <1>7 DEF Answered, Entries!Tell, ToldOf
  <1> QED
    BY <1>8 DEF Entries!Told

\* What the gateway says by itself tells of no entry.
LEMMA OwnWordsTellNothing ==
    ASSUME OutboundInv, NEW r \in Callers,
           NotConnected(r) \/ BadRequest(r) \/ RespondRefused(r)
    PROVE  UNCHANGED Entries!pevars
  <1>1. PICK status \in Statuses \ (AnswerStatuses \cup {"504"}) : Respond(r, status)
    BY DEF NotConnected, BadRequest, RespondRefused, Statuses, AnswerStatuses
  <1>2. outcome[r] = <<>> /\ pending' = pending
    BY DEF OutboundInv, RequestInv, PendingInv, NotConnected, BadRequest,
           RespondRefused, Returned
  <1>3. /\ outcome'[r] = <<status>>
        /\ \A q \in Callers : q # r => outcome'[q] = outcome[q]
    BY <1>1, <1>2, RespondTellsOne
  <1>4. ToldOf[r] = NoRequest
    BY <1>2, ToldNothing
  <1>5. ToldOf'[r] = NoRequest
    <2>1. ASSUME NEW x, outcome'[r] = <<x>> PROVE x = status
      BY <1>3, <2>1, OneElement
    <2> QED
      BY <1>3, <2>1 DEF ToldOf, AnswerStatuses
  <1>6. ToldOf' = ToldOf
    BY <1>3, <1>4, <1>5 DEF ToldOf
  <1> QED
    BY <1>2, <1>6 DEF Entries!pevars, ToldOf

LEMMA EntryStepsRefine ==
    OutboundInv /\ [OutboundNext]_outvars => [Entries!PENext]_(Entries!pevars)
  <1> SUFFICES ASSUME OutboundInv, [OutboundNext]_outvars
               PROVE  [Entries!PENext]_(Entries!pevars)
    OBVIOUS
  <1>1. ASSUME NEW r \in Callers, SendAccepted(r)
        PROVE  Entries!PENext
    <2>1. client[r] \in Conns
      BY <1>1 DEF OutboundInv, OutboundTypeOK, PoolTypeOK, SendAccepted
    <2> QED
      BY <1>1, <2>1, AcceptedIsKept DEF Entries!PENext
  <1>2. ASSUME NEW r \in Callers, AnswerArrives(r) \/ TimesOut(r)
        PROVE  Entries!PENext
    BY <1>2, CallbackTells DEF Entries!PENext
  <1>3. ASSUME UNCHANGED <<outcome, pending>>
        PROVE  UNCHANGED Entries!pevars
    BY <1>3 DEF Entries!pevars
  <1>4. ASSUME NEW r \in Callers,
               \/ Arrive(r) \/ Scan(r) \/ Pick(r) \/ Picked(r)
               \/ SendRefused(r) \/ WriteResponse(r) \/ StreamCloses(r)
               \/ LeftByException(r)
        PROVE  UNCHANGED Entries!pevars
    BY <1>3, <1>4 DEF Arrive, Scan, Pick, Picked, SendRefused, WriteResponse,
                      StreamCloses, LeftByException, sendvars
  <1>5. ASSUME UNCHANGED sendvars
        PROVE  UNCHANGED Entries!pevars
    BY <1>3, <1>5 DEF sendvars
  <1> QED
    BY <1>1, <1>2, <1>4, <1>5, OwnWordsTellNothing
    DEF OutboundNext, Handler, ConnectionChanges, outvars

LEMMA EntryInitRefines == OutboundInit => Entries!PEInit
  <1> SUFFICES ASSUME OutboundInit PROVE Entries!PEInit
    OBVIOUS
  <1>1. \A r \in Callers : outcome[r] = <<>>
    BY DEF OutboundInit
  <1>2. ToldOf = [r \in Callers |-> NoRequest]
    BY <1>1, ToldNothing DEF ToldOf
  <1> QED
    BY <1>2 DEF OutboundInit, Entries!PEInit, ToldOf

\* The safety part of ImplementsEntries: every request is handed over once at
\* most, and 504 or the peer's answer is said when the entry tells so only.
THEOREM EntriesAreUsedOnce == OutboundSpec => Entries!PESafety
  BY EntryInitRefines, EntryStepsRefine, OutboundInvariance, PTL
  DEF OutboundSpec, Entries!PESafety
=============================================================================
