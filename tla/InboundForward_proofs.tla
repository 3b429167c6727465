------------------------ MODULE InboundForward_proofs ------------------------
(***************************************************************************)
(* Proofs of the safety properties of InboundForward, for any requests,    *)
(* legs and number of workers. The type invariant of the HTTP/2 client     *)
(* comes from H2Client_proofs, whose every step is a step of H2Client.     *)
(***************************************************************************)
EXTENDS InboundForward, H2Client_proofs, FiniteSetTheorems, SequenceTheorems

\* Timer, response and stream exist for submitted requests only.
StageInv(r) ==
    /\ stage[r] \in {"new", "dropped"} <=> leg[r] = NoLeg
    /\ stage[r] # "submitted" =>
            timeout[r] = "off" /\ response[r] = "none" /\ r \notin streams
    /\ stage[r] \in {"new", "dropped", "posted", "refused"} => sent[r] = <<>>
    /\ stage[r] = "submitted" => timeout[r] # "off"

\* The flag tells how far the timer's handler is; the timer is cancelled by
\* the response handler only; a stream has had no response yet.
HandlerInv(r) ==
    /\ r \in streams => response[r] = "none"
    /\ timedOut[r] <=> timeout[r] \in {"claimed", "done"}
    /\ timeout[r] = "cancelled" => response[r] \in {"cancelled", "cleared", "done"}

\* Each of the three that answer does it once, at the end of what it does.
SentInv(r) ==
    \A i \in 1..Len(sent[r]) :
        /\ sent[r][i].by = "gateway" => stage[r] = "unable"
        /\ sent[r][i].by = "timeout" => timeout[r] = "done"
        /\ sent[r][i].by = "response" => response[r] = "done"
        /\ \A j \in 1..Len(sent[r]) : i # j => sent[r][i].by # sent[r][j].by

\* Whoever is through has answered, or has left it to the other.
AnsweredInv(r) ==
    Encodable =>
        /\ stage[r] = "unable" => sent[r] # <<>>
        /\ timeout[r] = "done" => sent[r] # <<>>
        /\ response[r] = "done" /\ ~timedOut[r] => sent[r] # <<>>

\* With one worker, nothing comes between the response handler's look at the
\* flag and its answer.
OneWorkerInv(r) ==
    Workers = 1 =>
        /\ response[r] = "cleared" => ~timedOut[r]
        /\ \A i, j \in 1..Len(sent[r]) :
                sent[r][i].by = "timeout" /\ sent[r][j].by = "response" => j < i

RequestInv(r) ==
    StageInv(r) /\ HandlerInv(r) /\ SentInv(r) /\ AnsweredInv(r) /\ OneWorkerInv(r)

InboundInv ==
    /\ IInv
    /\ InboundTypeOK
    /\ \A r \in Requests : RequestInv(r)

-----------------------------------------------------------------------------
(* Sequences of answers *)

LEMMA AppendFacts ==
    ASSUME NEW S, NEW s \in Seq(S), NEW a \in S
    PROVE  /\ Append(s, a) \in Seq(S)
           /\ Append(s, a) # <<>>
           /\ Len(s) \in Nat
           /\ Len(Append(s, a)) = Len(s) + 1
           /\ \A i \in 1..Len(s) : Append(s, a)[i] = s[i]
           /\ Append(s, a)[Len(s) + 1] = a
  OBVIOUS

\* What handing an answer to Diameter changes: one more answer for r, on the
\* leg it came by.
Sends(r, who) ==
    /\ sent' \in [Requests -> Seq(Answers)]
    /\ \A q \in Requests : q # r => sent'[q] = sent[q]
    /\ \E a \in Answers :
        a.by = who /\ a.to = leg'[r] /\ sent'[r] = Append(sent[r], a)

LEMMA AnswerSent ==
    ASSUME InboundTypeOK, NEW r \in Requests, NEW from \in Legs,
           NEW who \in {"gateway", "timeout", "response"},
           NEW code \in {"5012", "built"},
           SendDiameterAnswer(r, who, code, from), leg'[r] = from
    PROVE  Sends(r, who)
  <1> DEFINE a == [by |-> who, code |-> code, to |-> from]
  <1>1. a \in Answers /\ a.by = who /\ a.to = leg'[r]
    BY DEF Answers
  <1>2. sent' = [sent EXCEPT ![r] = Append(sent[r], a)]
    BY DEF SendDiameterAnswer
  <1>3. sent \in [Requests -> Seq(Answers)]
    BY DEF InboundTypeOK
  <1> HIDE DEF a
  <1>4. Append(sent[r], a) \in Seq(Answers)
    BY <1>1, <1>3, AppendFacts
  <1> QED
    BY <1>1, <1>2, <1>3, <1>4 DEF Sends

LEMMA UnableSent ==
    ASSUME InboundTypeOK, NEW r \in Requests, NEW from \in Legs,
           NEW who \in {"gateway", "timeout", "response"},
           SendUnableToComply(r, who, from), leg'[r] = from
    PROVE  (Encodable /\ Sends(r, who)) \/ (~Encodable /\ sent' = sent)
  <1>1. CASE Encodable
    <2>1. SendDiameterAnswer(r, who, "5012", from)
      BY <1>1 DEF SendUnableToComply
    <2> QED
      BY <1>1, <2>1, AnswerSent
  <1>2. CASE ~Encodable
    BY <1>2 DEF SendUnableToComply
  <1> QED
    BY <1>1, <1>2

-----------------------------------------------------------------------------
(* Requests a step does not touch *)

Same(q) ==
    /\ leg'[q] = leg[q]
    /\ stage'[q] = stage[q]
    /\ timeout'[q] = timeout[q]
    /\ timedOut'[q] = timedOut[q]
    /\ response'[q] = response[q]
    /\ sent'[q] = sent[q]
    /\ q \in streams' => q \in streams

LEMMA SameKeeps ==
    ASSUME NEW q \in Requests, RequestInv(q), Same(q)
    PROVE  RequestInv(q)'
  BY DEF RequestInv, StageInv, HandlerInv, SentInv, AnsweredInv, OneWorkerInv, Same

\* The invariant about the answers of r, when r gets one more by somebody who
\* is through with it only now.
LEMMA SentGrows ==
    ASSUME InboundTypeOK, NEW r \in Requests, RequestInv(r),
           NEW who \in {"gateway", "timeout", "response"},
           Sends(r, who),
           who = "gateway" => stage[r] # "unable" /\ stage'[r] = "unable",
           who = "timeout" => timeout[r] # "done" /\ timeout'[r] = "done",
           who = "response" => response[r] # "done" /\ response'[r] = "done",
           who # "gateway" => stage'[r] = stage[r],
           who # "timeout" => timeout'[r] = timeout[r],
           who # "response" => response'[r] = response[r]
    PROVE  SentInv(r)' /\ sent'[r] # <<>>
  <1>1. PICK a \in Answers : a.by = who /\ sent'[r] = Append(sent[r], a)
    BY DEF Sends
  <1>2. sent[r] \in Seq(Answers)
    BY DEF InboundTypeOK
  <1>3. /\ Len(sent[r]) \in Nat
        /\ Len(sent'[r]) = Len(sent[r]) + 1
        /\ \A i \in 1..Len(sent[r]) : sent'[r][i] = sent[r][i]
        /\ sent'[r][Len(sent[r]) + 1] = a
        /\ sent'[r] # <<>>
    BY <1>1, <1>2, AppendFacts
  <1>4. \A i \in 1..Len(sent[r]) : sent[r][i].by # who
    BY DEF RequestInv, SentInv
  <1>5. \A i \in 1..Len(sent'[r]) : i \in 1..Len(sent[r]) \/ i = Len(sent[r]) + 1
    BY <1>3
  <1>6. \A i \in 1..Len(sent'[r]) :
            /\ sent'[r][i].by = "gateway" => stage'[r] = "unable"
            /\ sent'[r][i].by = "timeout" => timeout'[r] = "done"
            /\ sent'[r][i].by = "response" => response'[r] = "done"
    BY <1>1, <1>3, <1>5 DEF RequestInv, SentInv
  <1>7. \A i, j \in 1..Len(sent'[r]) : i # j => sent'[r][i].by # sent'[r][j].by
    BY <1>1, <1>3, <1>4, <1>5 DEF RequestInv, SentInv
  <1> QED
    BY <1>3, <1>6, <1>7 DEF SentInv

-----------------------------------------------------------------------------
(* Workers *)

\* A single worker that is free runs no handler.
LEMMA OneWorkerFree ==
    ASSUME Workers = 1, WorkerFree
    PROVE  Running = {}
  <1>1. IsFiniteSet({"response", "timeout"})
    <2>1. IsFiniteSet({} \cup {"response"})
      BY FS_EmptySet, FS_AddElement
    <2>2. IsFiniteSet(({} \cup {"response"}) \cup {"timeout"})
      BY <2>1, FS_AddElement
    <2>3. ({} \cup {"response"}) \cup {"timeout"} = {"response", "timeout"}
      OBVIOUS
    <2> QED
      BY <2>2, <2>3
  <1>2. IsFiniteSet({"response", "timeout"} \X Requests)
    BY <1>1, FS_Product, InboundAssumption
  <1>3. Running \in SUBSET ({"response", "timeout"} \X Requests)
    BY DEF Running
  <1>4. IsFiniteSet(Running)
    BY <1>2, <1>3, FS_Subset
  <1>5. Cardinality(Running) \in Nat /\ Cardinality(Running) < 1
    BY <1>4, FS_CardinalityType DEF WorkerFree
  <1>6. Cardinality(Running) = 0
    BY <1>5
  <1> QED
    BY <1>4, <1>6, FS_EmptySet

LEMMA OneWorkerNotCleared ==
    ASSUME Workers = 1, WorkerFree, NEW r \in Requests
    PROVE  response[r] \notin {"cancelled", "cleared"} /\ timeout[r] # "claimed"
  <1>1. Running = {}
    BY OneWorkerFree
  <1> QED
    BY <1>1 DEF Running

-----------------------------------------------------------------------------
(* The initial states *)

LEMMA InboundInitially == InboundInit => InboundInv
  <1> SUFFICES ASSUME InboundInit
               PROVE  InboundInv
    OBVIOUS
  <1>1. IInv
    BY InitEstablishes DEF InboundInit
  <1>2. InboundTypeOK
    BY <1>1 DEF InboundInit, InboundTypeOK, IInv
  <1>3. ASSUME NEW r \in Requests
        PROVE  RequestInv(r)
    BY InboundAssumption
    DEF InboundInit, RequestInv, StageInv, HandlerInv, SentInv, AnsweredInv, OneWorkerInv
  <1> QED
    BY <1>1, <1>2, <1>3 DEF InboundInv

-----------------------------------------------------------------------------
(* The steps *)

LEMMA SessionStepKeeps ==
    ASSUME InboundInv, SessionStep
    PROVE  InboundInv'
  <1>1. IInv'
    BY StepPreserves DEF InboundInv, SessionStep, Next
  <1>2. streams' \in SUBSET streams
    BY DEF SessionStep
  <1>3. InboundTypeOK'
    BY <1>1, <1>2 DEF InboundInv, InboundTypeOK, IInv, SessionStep
  <1>4. ASSUME NEW r \in Requests
        PROVE  RequestInv(r)'
    <2>1. Same(r)
      BY <1>2 DEF SessionStep, Same
    <2> QED
      BY <2>1, SameKeeps DEF InboundInv
  <1> QED
    BY <1>1, <1>3, <1>4 DEF InboundInv

\* For a step of one request r: the HTTP/2 client and the other requests are
\* as they were, so the rest is about r.
LEMMA RequestStep ==
    ASSUME InboundInv, NEW r \in Requests, UNCHANGED h2vars,
           \A q \in Requests : q # r => Same(q),
           InboundTypeOK',
           RequestInv(r)'
    PROVE  InboundInv'
  <1>1. IInv'
    BY StepPreserves DEF InboundInv
  <1>2. ASSUME NEW q \in Requests
        PROVE  RequestInv(q)'
    BY <1>2, SameKeeps DEF InboundInv
  <1> QED
    BY <1>1, <1>2 DEF InboundInv

LEMMA TypeCarried ==
    ASSUME InboundTypeOK, UNCHANGED h2vars
    PROVE  TypeOK'
  BY DEF InboundTypeOK, TypeOK, h2vars

\* What the invariants say of r when the step sends nothing.
LEMMA QuietKeeps ==
    ASSUME InboundInv, NEW r \in Requests, sent' = sent,
           stage[r] = "unable" <=> stage'[r] = "unable",
           timeout[r] = "done" <=> timeout'[r] = "done",
           response[r] = "done" => response'[r] = "done",
           StageInv(r)', HandlerInv(r)',
           Encodable /\ response'[r] = "done" /\ ~timedOut'[r] => sent[r] # <<>>,
           Workers = 1 /\ response'[r] = "cleared" => ~timedOut'[r]
    PROVE  RequestInv(r)'
  BY DEF InboundInv, RequestInv, SentInv, AnsweredInv, OneWorkerInv

LEMMA QuietSteps ==
    ASSUME InboundInv, NEW r \in Requests,
           \/ Drop(r)
           \/ Submit(r)
           \/ \E b \in {"good", "bad"} : ResponseArrives(r, b)
           \/ ResponseCancel(r) \/ ResponseCheck(r)
           \/ TimeoutExpires(r) \/ TimeoutClaim(r)
    PROVE  InboundInv'
  <1>0. InboundTypeOK /\ RequestInv(r) /\ StageInv(r) /\ HandlerInv(r) /\ AnsweredInv(r)
        /\ OneWorkerInv(r)
    BY DEF InboundInv, RequestInv
  <1> USE <1>0 DEF InboundTypeOK
  <1>1. CASE Drop(r)
    <2>1. InboundTypeOK' /\ \A q \in Requests : q # r => Same(q)
      BY <1>1, TypeCarried DEF Drop, Same
    <2>2. RequestInv(r)'
      BY <1>1, QuietKeeps DEF Drop, StageInv, HandlerInv, AnsweredInv, OneWorkerInv
    <2> QED
      BY <1>1, <2>1, <2>2, RequestStep DEF Drop
  <1>2. CASE SubmitRefused(r)
    <2>1. InboundTypeOK' /\ \A q \in Requests : q # r => Same(q)
      BY <1>2, TypeCarried DEF SubmitRefused, Same
    <2>2. RequestInv(r)'
      BY <1>2, QuietKeeps
      DEF SubmitRefused, StageInv, HandlerInv, AnsweredInv, OneWorkerInv
    <2> QED
      BY <1>2, <2>1, <2>2, RequestStep DEF SubmitRefused
  <1>3. CASE Submitted(r)
    <2>1. InboundTypeOK' /\ \A q \in Requests : q # r => Same(q)
      BY <1>3, TypeCarried DEF Submitted, Same
    <2>2. RequestInv(r)'
      BY <1>3, QuietKeeps
      DEF Submitted, StageInv, HandlerInv, AnsweredInv, OneWorkerInv
    <2> QED
      BY <1>3, <2>1, <2>2, RequestStep DEF Submitted
  <1>4. ASSUME NEW b \in {"good", "bad"}, ResponseArrives(r, b)
        PROVE  InboundInv'
    <2>1. InboundTypeOK' /\ \A q \in Requests : q # r => Same(q)
      BY <1>4, TypeCarried DEF ResponseArrives, Same
    <2>2. RequestInv(r)'
      BY <1>4, QuietKeeps
      DEF ResponseArrives, StageInv, HandlerInv, AnsweredInv, OneWorkerInv
    <2> QED
      BY <1>4, <2>1, <2>2, RequestStep DEF ResponseArrives
  <1>5. CASE ResponseCancel(r)
    <2>1. InboundTypeOK' /\ \A q \in Requests : q # r => Same(q)
      BY <1>5, TypeCarried DEF ResponseCancel, Same
    <2>2. RequestInv(r)'
      BY <1>5, QuietKeeps
      DEF ResponseCancel, StageInv, HandlerInv, AnsweredInv, OneWorkerInv
    <2> QED
      BY <1>5, <2>1, <2>2, RequestStep DEF ResponseCancel
  <1>6. CASE ResponseCheck(r)
    <2>1. InboundTypeOK' /\ \A q \in Requests : q # r => Same(q)
      BY <1>6, TypeCarried DEF ResponseCheck, Same
    <2>2. RequestInv(r)'
      BY <1>6, QuietKeeps
      DEF ResponseCheck, StageInv, HandlerInv, AnsweredInv, OneWorkerInv
    <2> QED
      BY <1>6, <2>1, <2>2, RequestStep DEF ResponseCheck
  <1>7. CASE TimeoutExpires(r)
    <2>1. InboundTypeOK' /\ \A q \in Requests : q # r => Same(q)
      BY <1>7, TypeCarried DEF TimeoutExpires, Same
    <2>2. RequestInv(r)'
      BY <1>7, QuietKeeps
      DEF TimeoutExpires, StageInv, HandlerInv, AnsweredInv, OneWorkerInv
    <2> QED
      BY <1>7, <2>1, <2>2, RequestStep DEF TimeoutExpires
  <1>8. CASE TimeoutClaim(r)
    <2>1. InboundTypeOK' /\ \A q \in Requests : q # r => Same(q)
      BY <1>8, TypeCarried DEF TimeoutClaim, Same
    <2>2. Workers = 1 => response[r] # "cleared"
      BY <1>8, OneWorkerNotCleared DEF TimeoutClaim
    <2>3. RequestInv(r)'
      BY <1>8, <2>2, QuietKeeps
      DEF TimeoutClaim, StageInv, HandlerInv, AnsweredInv, OneWorkerInv
    <2> QED
      BY <1>8, <2>1, <2>3, RequestStep DEF TimeoutClaim
  <1> QED
    BY <1>1, <1>2, <1>3, <1>4, <1>5, <1>6, <1>7, <1>8 DEF Submit

\* What the invariants say of r when the step hands an answer to Diameter.
LEMMA SendKeeps ==
    ASSUME InboundInv, NEW r \in Requests,
           NEW who \in {"gateway", "timeout", "response"},
           (Encodable /\ Sends(r, who)) \/ (~Encodable /\ sent' = sent) \/ Sends(r, who),
           who = "gateway" => stage[r] # "unable" /\ stage'[r] = "unable",
           who = "timeout" => timeout[r] # "done" /\ timeout'[r] = "done",
           who = "response" => response[r] = "cleared" /\ response'[r] = "done",
           who # "gateway" => stage'[r] = stage[r],
           who # "timeout" => timeout'[r] = timeout[r],
           who # "response" => response'[r] = response[r],
           timedOut' = timedOut,
           StageInv(r)', HandlerInv(r)'
    PROVE  RequestInv(r)'
  <1>0. /\ InboundTypeOK /\ RequestInv(r) /\ StageInv(r) /\ HandlerInv(r)
        /\ SentInv(r) /\ AnsweredInv(r) /\ OneWorkerInv(r)
    BY DEF InboundInv, RequestInv
  <1>1. CASE Sends(r, who)
    <2>1. SentInv(r)' /\ sent'[r] # <<>>
      BY <1>0, <1>1, SentGrows
    <2>2. AnsweredInv(r)'
      BY <2>1 DEF AnsweredInv
    <2>3. OneWorkerInv(r)'
      <3> SUFFICES ASSUME Workers = 1
                   PROVE  OneWorkerInv(r)'
        BY DEF OneWorkerInv
      <3>1. PICK a \in Answers : a.by = who /\ sent'[r] = Append(sent[r], a)
        BY <1>1 DEF Sends
      <3>2. sent[r] \in Seq(Answers)
        BY <1>0 DEF InboundTypeOK
      <3>3. /\ Len(sent[r]) \in Nat
            /\ Len(sent'[r]) = Len(sent[r]) + 1
            /\ \A i \in 1..Len(sent[r]) : sent'[r][i] = sent[r][i]
            /\ sent'[r][Len(sent[r]) + 1] = a
        BY <3>1, <3>2, AppendFacts
      <3>4. response'[r] = "cleared" => ~timedOut'[r]
        BY <1>0 DEF OneWorkerInv
      <3>5. ASSUME NEW i \in 1..Len(sent'[r]), NEW j \in 1..Len(sent'[r]),
                   sent'[r][i].by = "timeout", sent'[r][j].by = "response"
            PROVE  j < i
        <4>1. CASE i \in 1..Len(sent[r]) /\ j \in 1..Len(sent[r])
          BY <1>0, <3>3, <3>5, <4>1 DEF OneWorkerInv
        <4>2. CASE i = Len(sent[r]) + 1
          BY <3>1, <3>3, <3>5, <4>2
        <4>3. CASE j = Len(sent[r]) + 1
          <5>1. who = "response"
            BY <3>1, <3>3, <3>5, <4>3
          <5>2. timeout[r] # "done"
            BY <1>0, <5>1 DEF OneWorkerInv, HandlerInv
          <5>3. i \notin 1..Len(sent[r])
            BY <1>0, <3>3, <3>5, <5>2 DEF SentInv
          <5> QED
            BY <3>1, <3>3, <3>5, <5>1, <5>3
        <4> QED
          BY <3>3, <4>1, <4>2, <4>3
      <3> QED
        BY <3>4, <3>5 DEF OneWorkerInv
    <2> QED
      BY <2>1, <2>2, <2>3 DEF RequestInv
  <1>2. CASE ~Encodable /\ sent' = sent
    <2>1. SentInv(r)'
      BY <1>0, <1>2 DEF SentInv
    <2>2. AnsweredInv(r)' /\ OneWorkerInv(r)'
      BY <1>0, <1>2 DEF AnsweredInv, OneWorkerInv
    <2> QED
      BY <2>1, <2>2 DEF RequestInv
  <1> QED
    BY <1>1, <1>2

LEMMA SendSteps ==
    ASSUME InboundInv, NEW r \in Requests,
           \/ \E from \in Legs : Receive(r, from)
           \/ AnswerRefused(r) \/ ResponseSend(r) \/ TimeoutSend(r)
    PROVE  InboundInv'
  <1>0. InboundTypeOK /\ RequestInv(r) /\ StageInv(r) /\ HandlerInv(r) /\ AnsweredInv(r)
        /\ OneWorkerInv(r)
    BY DEF InboundInv, RequestInv
  <1>T. \A from \in Legs : from # NoLeg
    BY InboundAssumption
  <1> USE <1>0 DEF InboundTypeOK
  <1>1. ASSUME NEW from \in Legs, Receive(r, from)
        PROVE  InboundInv'
    <2>1. CASE connected
      <3>1. InboundTypeOK' /\ \A q \in Requests : q # r => Same(q)
        BY <1>1, <2>1, TypeCarried DEF Receive, Same
      <3>2. RequestInv(r)'
        BY <1>1, <2>1, <1>T, QuietKeeps
        DEF Receive, StageInv, HandlerInv, AnsweredInv, OneWorkerInv
      <3> QED
        BY <1>1, <3>1, <3>2, RequestStep DEF Receive
    <2>2. CASE ~connected
      <3>1. (Encodable /\ Sends(r, "gateway")) \/ (~Encodable /\ sent' = sent)
        BY <1>1, <2>2, UnableSent DEF Receive
      <3>2. InboundTypeOK' /\ \A q \in Requests : q # r => Same(q)
        BY <1>1, <2>2, <3>1, TypeCarried DEF Receive, Same, Sends
      <3>3. StageInv(r)' /\ HandlerInv(r)'
        BY <1>1, <2>2, <1>T DEF Receive, StageInv, HandlerInv
      <3>4. RequestInv(r)'
        BY <1>1, <2>2, <3>1, <3>3, SendKeeps DEF Receive
      <3> QED
        BY <1>1, <3>2, <3>4, RequestStep DEF Receive
    <2> QED
      BY <2>1, <2>2
  <1>2. CASE AnswerRefused(r)
    <2>1. leg[r] \in Legs
      BY <1>2 DEF AnswerRefused, StageInv
    <2>2. (Encodable /\ Sends(r, "gateway")) \/ (~Encodable /\ sent' = sent)
      BY <1>2, <2>1, UnableSent DEF AnswerRefused
    <2>3. InboundTypeOK' /\ \A q \in Requests : q # r => Same(q)
      BY <1>2, <2>2, TypeCarried DEF AnswerRefused, Same, Sends
    <2>4. StageInv(r)' /\ HandlerInv(r)'
      BY <1>2 DEF AnswerRefused, StageInv, HandlerInv
    <2>5. RequestInv(r)'
      BY <1>2, <2>2, <2>4, SendKeeps DEF AnswerRefused
    <2> QED
      BY <1>2, <2>3, <2>5, RequestStep DEF AnswerRefused
  <1>3. CASE ResponseSend(r)
    <2>1. leg[r] \in Legs
      BY <1>3 DEF ResponseSend, StageInv
    <2>2. Sends(r, "response") \/ (~Encodable /\ sent' = sent)
      <3>1. CASE body[r] = "good"
        BY <1>3, <2>1, <3>1, AnswerSent DEF ResponseSend
      <3>2. CASE body[r] # "good"
        BY <1>3, <2>1, <3>2, UnableSent DEF ResponseSend
      <3> QED
        BY <3>1, <3>2
    <2>3. InboundTypeOK' /\ \A q \in Requests : q # r => Same(q)
      BY <1>3, <2>2, TypeCarried DEF ResponseSend, Same, Sends
    <2>4. StageInv(r)' /\ HandlerInv(r)'
      BY <1>3, <2>2 DEF ResponseSend, StageInv, HandlerInv, Sends
    <2>5. RequestInv(r)'
      BY <1>3, <2>2, <2>4, SendKeeps DEF ResponseSend
    <2> QED
      BY <1>3, <2>3, <2>5, RequestStep DEF ResponseSend
  <1>4. CASE TimeoutSend(r)
    <2>1. leg[r] \in Legs
      BY <1>4 DEF TimeoutSend, StageInv
    <2>2. (Encodable /\ Sends(r, "timeout")) \/ (~Encodable /\ sent' = sent)
      BY <1>4, <2>1, UnableSent DEF TimeoutSend
    <2>3. InboundTypeOK' /\ \A q \in Requests : q # r => Same(q)
      BY <1>4, <2>2, TypeCarried DEF TimeoutSend, Same, Sends
    <2>4. StageInv(r)' /\ HandlerInv(r)'
      BY <1>4, <2>2 DEF TimeoutSend, StageInv, HandlerInv, Sends
    <2>5. RequestInv(r)'
      BY <1>4, <2>2, <2>4, SendKeeps DEF TimeoutSend
    <2> QED
      BY <1>4, <2>3, <2>5, RequestStep DEF TimeoutSend
  <1> QED
    BY <1>1, <1>2, <1>3, <1>4

LEMMA InboundSteps == InboundInv /\ [InboundNext]_invars => InboundInv'
  <1> SUFFICES ASSUME InboundInv, [InboundNext]_invars
               PROVE  InboundInv'
    OBVIOUS
  <1>1. CASE SessionStep
    BY <1>1, SessionStepKeeps
  <1>2. ASSUME NEW r \in Requests,
               \/ Drop(r)
               \/ \E from \in Legs : Receive(r, from)
               \/ Submit(r)
               \/ \E b \in {"good", "bad"} : ResponseArrives(r, b)
               \/ DiameterHandler(r)
        PROVE  InboundInv'
    BY <1>2, QuietSteps, SendSteps DEF DiameterHandler
  <1>3. CASE UNCHANGED invars
    <2>1. UNCHANGED h2vars /\ UNCHANGED reqvars
      BY <1>3 DEF invars
    <2>2. IInv'
      BY <2>1, StepPreserves DEF InboundInv
    <2>3. InboundTypeOK'
      BY <2>1, TypeCarried DEF InboundInv, InboundTypeOK, reqvars
    <2>4. ASSUME NEW q \in Requests
          PROVE  RequestInv(q)'
      BY <2>1, SameKeeps DEF InboundInv, reqvars, Same
    <2> QED
      BY <2>2, <2>3, <2>4 DEF InboundInv
  <1> QED
    BY <1>1, <1>2, <1>3 DEF InboundNext

THEOREM InboundInvariance == InboundSpec => []InboundInv
  BY InboundInitially, InboundSteps, PTL DEF InboundSpec

\* The requests, their timers, responses and answers keep their types.
THEOREM InboundTypeCorrect == InboundSpec => []InboundTypeOK
  BY InboundInvariance, PTL DEF InboundInv

\* The session of the inbound path is an HTTP/2 client that nobody stops: every
\* step of the one is a step of the other.
THEOREM SessionIsH2Client == InboundSpec => H2Init /\ [][RunNext]_h2vars
  <1>1. InboundInit => H2Init
    BY DEF InboundInit
  <1>2. [InboundNext]_invars => [RunNext]_h2vars
    BY DEF InboundNext, invars, SessionStep, Drop, Receive, Submit, SubmitRefused,
           Submitted, ResponseArrives, DiameterHandler, AnswerRefused,
           ResponseCancel, ResponseCheck, ResponseSend, TimeoutExpires,
           TimeoutClaim, TimeoutSend
  <1> QED
    BY <1>1, <1>2, PTL DEF InboundSpec

\* So with any number of requests in flight the gateway has exactly one way back
\* to h2agent, trusts no dead session, and backs off as it should.
THEOREM InboundSessionIsSafe ==
    InboundSpec => [](OneRecovery /\ ConnectedIsLive /\ BackoffFollowsDelay)
  <1>1. InboundInv => OneRecovery /\ ConnectedIsLive /\ BackoffFollowsDelay
    BY RecoveriesSplit DEF InboundInv, IInv
  <1> QED
    BY <1>1, InboundInvariance, PTL

\* A request that has arrived and is not answered yet has a handler queued or
\* running, or its timer, to answer it, however many requests and workers
\* there are and whatever happens to the session.
THEOREM NobodyIsForgotten == InboundSpec => []NobodyForgotten
  <1>1. ASSUME InboundInv
        PROVE  NobodyForgotten
    <2> SUFFICES ASSUME Encodable, NEW r \in Requests, leg[r] # NoLeg, sent[r] = <<>>
                 PROVE  InCharge(r)
      BY DEF NobodyForgotten
    <2>1. InboundTypeOK /\ StageInv(r) /\ HandlerInv(r) /\ AnsweredInv(r)
      BY <1>1 DEF InboundInv, RequestInv
    <2> QED
      BY <2>1 DEF InboundTypeOK, StageInv, HandlerInv, AnsweredInv, InCharge
  <1> QED
    BY <1>1, InboundInvariance, PTL

\* Of the three that answer, the gateway excludes the other two, and each
\* answers once.
LEMMA WhoAnswers ==
    ASSUME InboundInv, NEW r \in Requests, Len(sent[r]) > 1
    PROVE  /\ Len(sent[r]) = 2
           /\ sent[r][1].by \in {"timeout", "response"}
           /\ sent[r][2].by \in {"timeout", "response"}
           /\ sent[r][1].by # sent[r][2].by
  <1>1. sent[r] \in Seq(Answers) /\ StageInv(r) /\ SentInv(r)
    BY DEF InboundInv, InboundTypeOK, RequestInv
  <1>2. /\ Len(sent[r]) \in Nat
        /\ \A i \in 1..Len(sent[r]) : sent[r][i] \in Answers
    BY <1>1
  <1>3. \A i \in 1..Len(sent[r]) :
            sent[r][i].by \in {"gateway", "timeout", "response"}
    BY <1>2 DEF Answers
  <1>4. \A i, j \in 1..Len(sent[r]) : i # j => sent[r][i].by # sent[r][j].by
    BY <1>1 DEF SentInv
  <1>5. 1 \in 1..Len(sent[r]) /\ 2 \in 1..Len(sent[r])
    BY <1>2
  <1>6. \A i \in 1..Len(sent[r]) : sent[r][i].by # "gateway"
    <2> SUFFICES ASSUME NEW i \in 1..Len(sent[r]), sent[r][i].by = "gateway"
                 PROVE  FALSE
      OBVIOUS
    <2>1. stage[r] = "unable" /\ timeout[r] = "off" /\ response[r] = "none"
      BY <1>1 DEF SentInv, StageInv
    <2>2. PICK j \in {1, 2} : j # i
      OBVIOUS
    <2>3. sent[r][j].by \in {"timeout", "response"}
      BY <1>3, <1>4, <1>5, <2>2
    <2> QED
      BY <1>1, <1>5, <2>1, <2>3 DEF SentInv
  <1>7. ~(3 \in 1..Len(sent[r]))
    <2> SUFFICES ASSUME 3 \in 1..Len(sent[r])
                 PROVE  FALSE
      OBVIOUS
    <2>1. \A i \in {1, 2, 3} : sent[r][i].by \in {"timeout", "response"}
      BY <1>3, <1>5, <1>6
    <2>2. /\ sent[r][1].by # sent[r][2].by
          /\ sent[r][1].by # sent[r][3].by
          /\ sent[r][2].by # sent[r][3].by
      BY <1>4, <1>5
    <2> QED
      BY <2>1, <2>2
  <1>8. Len(sent[r]) = 2
    <2>1. \A n \in Nat : n > 1 /\ ~(3 \in 1..n) => n = 2
      OBVIOUS
    <2>2. Len(sent[r]) \in Nat
      BY <1>2
    <2> QED
      BY <1>7, <2>1, <2>2
  <1>9. sent[r][1].by # sent[r][2].by
    BY <1>4, <1>5
  <1>10. \A i \in {1, 2} : sent[r][i].by \in {"timeout", "response"}
    BY <1>3, <1>5, <1>6
  <1> QED
    BY <1>8, <1>9, <1>10

\* The timer and the response are the only ones to answer the same request
\* twice, whatever the number of workers.
THEOREM OnlyTheRaceAnswersTwice == InboundSpec => []TwoAnswersAreARace
  <1>1. ASSUME InboundInv
        PROVE  TwoAnswersAreARace
    <2> SUFFICES ASSUME NEW r \in Requests, Len(sent[r]) > 1
                 PROVE  By(r) \in {<<"timeout", "response">>,
                                   <<"response", "timeout">>}
      BY DEF TwoAnswersAreARace
    <2>1. By(r) = [i \in 1..2 |-> sent[r][i].by]
      BY <1>1, WhoAnswers DEF By
    <2>2. By(r) = <<sent[r][1].by, sent[r][2].by>>
      BY <2>1
    <2> QED
      BY <1>1, <2>2, WhoAnswers
  <1> QED
    BY <1>1, InboundInvariance, PTL

\* One worker thread is enough for the flag to keep a late response from
\* being answered.
THEOREM OneWorkerNoLateAnswer == InboundSpec => []NoAnswerAfterTimeout
  <1>1. ASSUME InboundInv
        PROVE  NoAnswerAfterTimeout
    <2> SUFFICES ASSUME Workers = 1, NEW r \in Requests,
                        By(r) = <<"timeout", "response">>
                 PROVE  FALSE
      BY DEF NoAnswerAfterTimeout
    <2>1. sent[r] \in Seq(Answers) /\ OneWorkerInv(r)
      BY <1>1 DEF InboundInv, InboundTypeOK, RequestInv
    <2>2. DOMAIN By(r) = 1..Len(sent[r])
      BY DEF By
    <2>3. DOMAIN <<"timeout", "response">> = 1..2
      OBVIOUS
    <2>4. 1 \in 1..Len(sent[r]) /\ 2 \in 1..Len(sent[r])
      BY <2>2, <2>3
    <2>5. sent[r][1].by = "timeout" /\ sent[r][2].by = "response"
      BY <2>4 DEF By
    <2> QED
      BY <2>1, <2>4, <2>5 DEF OneWorkerInv
  <1> QED
    BY <1>1, InboundInvariance, PTL

-----------------------------------------------------------------------------
(* The way of a request *)

StageRank(s) == IF s = "new" THEN 0 ELSE IF s = "posted" THEN 1
                ELSE IF s = "refused" THEN 2 ELSE 3

TimerRank(t) == IF t = "off" THEN 0 ELSE IF t = "armed" THEN 1
                ELSE IF t = "expired" THEN 2 ELSE IF t = "claimed" THEN 3 ELSE 4

ResponseRank(s) == IF s = "none" THEN 0 ELSE IF s = "queued" THEN 1
                   ELSE IF s = "cancelled" THEN 2 ELSE IF s = "cleared" THEN 3 ELSE 4

\* How far a request, its timer and its response have come.
Rank(r) == StageRank(stage[r]) + TimerRank(timeout[r]) + ResponseRank(response[r])

StepOf(r) ==
    \/ Drop(r)
    \/ \E from \in Legs : Receive(r, from)
    \/ Submit(r)
    \/ \E b \in {"good", "bad"} : ResponseArrives(r, b)
    \/ DiameterHandler(r)

\* A step of a request takes it forward; those of other requests and of the
\* session leave it where it is.
GoesForward ==
    \A r \in Requests :
        /\ Rank(r) \in 0..11 /\ Rank(r)' \in Rank(r)..11
        /\ StepOf(r) => Rank(r)' > Rank(r)

LEMMA RankIsBounded == \A r \in Requests : Rank(r) \in 0..11
  BY DEF Rank, StageRank, TimerRank, ResponseRank

LEMMA StepGoesForward ==
    ASSUME InboundInv, NEW r \in Requests, StepOf(r)
    PROVE  /\ Rank(r)' > Rank(r)
           /\ \A q \in Requests : q # r => Rank(q)' = Rank(q)
  <1>1. InboundTypeOK /\ HandlerInv(r) /\ StageInv(r)
    BY DEF InboundInv, RequestInv
  <1> USE <1>1 DEF InboundTypeOK, Rank, StageRank, TimerRank, ResponseRank
  <1>2. CASE Drop(r) \/ \E from \in Legs : Receive(r, from)
    BY <1>2 DEF Drop, Receive
  <1>3. CASE Submit(r)
    BY <1>3 DEF Submit, SubmitRefused, Submitted, StageInv
  <1>4. CASE \E b \in {"good", "bad"} : ResponseArrives(r, b)
    BY <1>4 DEF ResponseArrives, HandlerInv
  <1>5. CASE AnswerRefused(r)
    BY <1>5 DEF AnswerRefused
  <1>6. CASE ResponseCancel(r) \/ ResponseCheck(r) \/ ResponseSend(r)
    BY <1>6 DEF ResponseCancel, ResponseCheck, ResponseSend
  <1>7. CASE TimeoutExpires(r) \/ TimeoutClaim(r) \/ TimeoutSend(r)
    BY <1>7 DEF TimeoutExpires, TimeoutClaim, TimeoutSend
  <1> QED
    BY <1>2, <1>3, <1>4, <1>5, <1>6, <1>7 DEF StepOf, DiameterHandler

\* However handlers, timers and the session interleave, none takes a request
\* back, and none is run for it without taking it forward: each request is
\* through after eleven steps at the most, on whatever way. That they are
\* taken is the rest of ImplementsReplies.
THEOREM RequestsGoForward == InboundSpec => [][GoesForward]_invars
  <1>1. ASSUME InboundInv, [InboundNext]_invars
        PROVE  [GoesForward]_invars
    <2>1. \A r \in Requests : Rank(r) \in 0..11 /\ Rank(r)' \in 0..11
      BY RankIsBounded DEF Rank, StageRank, TimerRank, ResponseRank
    <2>2. ASSUME NEW r \in Requests, StepOf(r)
          PROVE  GoesForward
      <3>1. ASSUME NEW q \in Requests
            PROVE  Rank(q)' >= Rank(q) /\ (StepOf(q) => Rank(q)' > Rank(q))
        <4>1. CASE q = r
          BY <1>1, <2>1, <2>2, <4>1, StepGoesForward
        <4>2. CASE q # r
          BY <1>1, <2>1, <2>2, <4>2, StepGoesForward
        <4> QED
          BY <4>1, <4>2
      <3> QED
        BY <2>1, <3>1 DEF GoesForward
    <2>3. CASE SessionStep
      <3>1. UNCHANGED <<stage, timeout, response>>
        BY <2>3 DEF SessionStep
      <3>2. ASSUME NEW r \in Requests
            PROVE  Rank(r)' = Rank(r)
        BY <3>1 DEF Rank
      <3>3. ASSUME NEW r \in Requests, StepOf(r)
            PROVE  FALSE
        BY <1>1, <2>1, <3>2, <3>3, StepGoesForward
      <3> QED
        BY <2>1, <3>2, <3>3 DEF GoesForward
    <2> QED
      BY <1>1, <2>2, <2>3 DEF InboundNext, StepOf
  <1> QED
    BY <1>1, InboundInvariance, PTL DEF InboundSpec

-----------------------------------------------------------------------------
(* The refinement of RequestReply *)

Replied == [r \in Requests |-> [i \in 1..Len(sent[r]) |-> sent[r][i].to]]

LEMMA RepliedGrows ==
    ASSUME NEW s \in Seq(Answers), NEW a \in Answers
    PROVE  [i \in 1..Len(Append(s, a)) |-> Append(s, a)[i].to]
           = Append([i \in 1..Len(s) |-> s[i].to], a.to)
  <1> DEFINE to == [i \in 1..Len(s) |-> s[i].to]
             more == [i \in 1..Len(Append(s, a)) |-> Append(s, a)[i].to]
  <1>1. Len(s) \in Nat
    OBVIOUS
  <1>2. \A i \in 1..Len(s) : s[i].to \in Legs
    <2>1. \A i \in 1..Len(s) : s[i] \in Answers
      OBVIOUS
    <2> QED
      BY <2>1 DEF Answers
  <1>3. to \in Seq(Legs) /\ Len(to) = Len(s) /\ a.to \in Legs
    BY <1>1, <1>2 DEF Answers
  <1>4. \A i \in 1..Len(s) : to[i] = s[i].to
    OBVIOUS
  <1> HIDE DEF to
  <1>5. /\ Append(to, a.to) \in Seq(Legs)
        /\ Len(Append(to, a.to)) = Len(s) + 1
        /\ \A i \in 1..Len(s) : Append(to, a.to)[i] = s[i].to
        /\ Append(to, a.to)[Len(s) + 1] = a.to
    BY <1>3, <1>4
  <1>6. /\ Len(Append(s, a)) = Len(s) + 1
        /\ \A i \in 1..Len(s) : Append(s, a)[i] = s[i]
        /\ Append(s, a)[Len(s) + 1] = a
    BY AppendFacts
  <1>7. \A i \in 1..(Len(s) + 1) : i \in 1..Len(s) \/ i = Len(s) + 1
    BY <1>1
  <1>8. /\ more \in Seq(Legs) /\ Len(more) = Len(s) + 1
        /\ \A i \in 1..(Len(s) + 1) : more[i] = Append(to, a.to)[i]
    <2>1. \A i \in 1..(Len(s) + 1) : more[i] = Append(to, a.to)[i]
      BY <1>1, <1>5, <1>6, <1>7
    <2>2. \A i \in 1..(Len(s) + 1) : Append(s, a)[i].to \in Legs
      BY <1>2, <1>3, <1>6, <1>7
    <2>3. more = [i \in 1..(Len(s) + 1) |-> Append(s, a)[i].to]
      BY <1>6
    <2> HIDE DEF more
    <2>4. more \in Seq(Legs) /\ Len(more) = Len(s) + 1
      BY <1>1, <2>2, <2>3
    <2> QED
      BY <2>1, <2>4
  <1> HIDE DEF more
  <1>9. more = Append(to, a.to)
    BY <1>5, <1>8, SeqEqual
  <1> QED
    BY <1>9 DEF more, to

LEMMA SendsGrows ==
    ASSUME InboundTypeOK, NEW r \in Requests, NEW who, Sends(r, who)
    PROVE  /\ Replied' = [Replied EXCEPT ![r] = Append(@, leg'[r])]
           /\ Len(Replied[r]) = Len(sent[r])
  <1>1. PICK a \in Answers : a.to = leg'[r] /\ sent'[r] = Append(sent[r], a)
    BY DEF Sends
  <1>2. sent[r] \in Seq(Answers)
    BY DEF InboundTypeOK
  <1>3. Replied'[r] = Append(Replied[r], leg'[r])
    BY <1>1, <1>2, RepliedGrows DEF Replied
  <1>4. \A q \in Requests : q # r => Replied'[q] = Replied[q]
    BY DEF Sends, Replied
  <1>5. Replied' = [Replied EXCEPT ![r] = Append(@, leg'[r])]
    BY <1>3, <1>4 DEF Replied
  <1>6. Len(Replied[r]) = Len(sent[r])
    <2>1. Replied[r] = [i \in 1..Len(sent[r]) |-> sent[r][i].to] /\ Len(sent[r]) \in Nat
      BY <1>2 DEF Replied
    <2> QED
      BY <2>1
  <1> QED
    BY <1>5, <1>6

NoThirdAnswer == \A r \in Requests : Len(sent[r]) <= 2

LEMMA NeverAThird == InboundInv => NoThirdAnswer
  <1> SUFFICES ASSUME InboundInv, NEW r \in Requests
               PROVE  Len(sent[r]) <= 2
    BY DEF NoThirdAnswer
  <1>1. Len(sent[r]) \in Nat
    BY DEF InboundInv, InboundTypeOK
  <1>2. Len(sent[r]) > 1 => Len(sent[r]) = 2
    BY WhoAnswers
  <1>3. \A n \in Nat : (n > 1 => n = 2) => n <= 2
    OBVIOUS
  <1> QED
    BY <1>1, <1>2, <1>3

\* An answer of a request that has arrived is a reply of the abstract service.
LEMMA AnswerReplies ==
    ASSUME InboundInv, NoThirdAnswer', NEW r \in Requests, NEW who,
           Sends(r, who), leg' = leg, leg[r] # NoLeg
    PROVE  Replies!Reply(r)
  <1>1. sent[r] \in Seq(Answers) /\ Len(sent'[r]) = Len(sent[r]) + 1
    <2>1. PICK a \in Answers : sent'[r] = Append(sent[r], a)
      BY DEF Sends
    <2> QED
      BY <2>1, AppendFacts DEF InboundInv, InboundTypeOK
  <1>2. Len(sent[r]) \in Nat /\ Len(sent'[r]) <= 2
    BY <1>1 DEF NoThirdAnswer
  <1>3. Len(sent[r]) < 2
    BY <1>1, <1>2
  <1> QED
    BY <1>3, SendsGrows DEF InboundInv, Replies!Reply, Replied

LEMMA ReceiveAsks ==
    ASSUME InboundInv, NEW r \in Requests, NEW from \in Legs, Receive(r, from)
    PROVE  Replies!Ask(r) \/ Replies!AskAndReply(r)
  <1>1. leg[r] = NoLeg /\ sent[r] = <<>> /\ leg' = [leg EXCEPT ![r] = from] /\ leg'[r] = from
    BY DEF InboundInv, InboundTypeOK, RequestInv, StageInv, Receive
  <1>2. CASE sent' = sent
    BY <1>1, <1>2 DEF Replies!Ask
  <1>3. CASE sent' # sent
    <2>1. Sends(r, "gateway")
      BY <1>1, <1>3, UnableSent DEF InboundInv, Receive
    <2>2. Replied[r] = <<>>
      BY <1>1 DEF Replied
    <2>3. Append(Replied[r], from) = <<from>>
      BY <2>2
    <2>4. Replied' = [Replied EXCEPT ![r] = <<from>>]
      BY <1>1, <2>1, <2>3, SendsGrows DEF InboundInv
    <2> QED
      BY <1>1, <2>4 DEF Replies!AskAndReply, Replied
  <1> QED
    BY <1>2, <1>3

LEMMA InboundStepsRefine ==
    InboundInv /\ NoThirdAnswer' /\ [InboundNext]_invars
        => [Replies!RRNext]_(Replies!rrvars)
  <1> SUFFICES ASSUME InboundInv, NoThirdAnswer', [InboundNext]_invars
               PROVE  [Replies!RRNext]_(Replies!rrvars)
    OBVIOUS
  <1>1. ASSUME leg' = leg, sent' = sent
        PROVE  UNCHANGED Replies!rrvars
    BY <1>1 DEF Replies!rrvars
  <1>2. CASE SessionStep \/ UNCHANGED invars
    BY <1>1, <1>2 DEF SessionStep, invars, reqvars
  <1>3. ASSUME NEW r \in Requests, NEW from \in Legs, Receive(r, from)
        PROVE  Replies!RRNext
    BY <1>3, ReceiveAsks DEF Replies!RRNext
  <1>4. ASSUME NEW r \in Requests,
               \/ Drop(r) \/ Submit(r) \/ \E b \in {"good", "bad"} : ResponseArrives(r, b)
               \/ ResponseCancel(r) \/ ResponseCheck(r)
               \/ TimeoutExpires(r) \/ TimeoutClaim(r)
        PROVE  leg' = leg /\ sent' = sent
    BY <1>4 DEF Drop, Submit, SubmitRefused, Submitted, ResponseArrives,
                ResponseCancel, ResponseCheck, TimeoutExpires, TimeoutClaim
  <1>5. ASSUME NEW r \in Requests,
               AnswerRefused(r) \/ ResponseSend(r) \/ TimeoutSend(r)
        PROVE  [Replies!RRNext]_(Replies!rrvars)
    <2>1. leg' = leg /\ leg[r] \in Legs /\ leg[r] # NoLeg
      <3>1. /\ leg[r] \in Legs \cup {NoLeg}
            /\ stage[r] = "submitted" => leg[r] # NoLeg
            /\ stage[r] = "refused" => leg[r] # NoLeg
            /\ timeout[r] = "claimed" => stage[r] = "submitted"
            /\ response[r] = "cleared" => stage[r] = "submitted"
        BY DEF InboundInv, InboundTypeOK, RequestInv, StageInv
      <3> QED
        BY <1>5, <3>1 DEF AnswerRefused, ResponseSend, TimeoutSend
    <2>2. sent' = sent \/ \E who \in {"gateway", "timeout", "response"} : Sends(r, who)
      <3>1. CASE AnswerRefused(r)
        BY <2>1, <3>1, UnableSent DEF InboundInv, AnswerRefused
      <3>2. CASE TimeoutSend(r)
        BY <2>1, <3>2, UnableSent DEF InboundInv, TimeoutSend
      <3>3. CASE ResponseSend(r) /\ body[r] = "good"
        BY <2>1, <3>3, AnswerSent DEF InboundInv, ResponseSend
      <3>4. CASE ResponseSend(r) /\ body[r] # "good"
        BY <2>1, <3>4, UnableSent DEF InboundInv, ResponseSend
      <3> QED
        BY <1>5, <3>1, <3>2, <3>3, <3>4
    <2> QED
      BY <1>1, <2>1, <2>2, AnswerReplies DEF Replies!RRNext
  <1> QED
    BY <1>1, <1>2, <1>3, <1>4, <1>5 DEF InboundNext, DiameterHandler

LEMMA InboundInitRefines == InboundInit => Replies!RRInit
  BY DEF InboundInit, Replies!RRInit

\* The safety part of ImplementsReplies: no answer before the request, none on
\* another leg than the one it came by, never a third one.
THEOREM InboundRefines == InboundSpec => Replies!RRSafety
  BY InboundInitRefines, InboundStepsRefine, NeverAThird, InboundInvariance, PTL
  DEF InboundSpec, Replies!RRSafety
=============================================================================
