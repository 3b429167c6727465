---------------------- MODULE AnswerCorrelation_proofs ----------------------
(***************************************************************************)
(* Proofs about AnswerCorrelation, for every number of connections,        *)
(* requests and answers.                                                   *)
(***************************************************************************)
EXTENDS AnswerCorrelation, WellFoundedInduction, TLAPS

-----------------------------------------------------------------------------
(* The invariant *)

Sent(r) == fate[r] # "new"

\* A request that was sent has a connection, and an id it has given.
SentInv ==
    \A r \in Requests : Sent(r) =>
        via[r] \in Conns /\ hop[r] > UnknownHop /\ hop[r] <= lastHop[via[r]]

\* What "unique in the node" means for the counters of the connections.
HopsInv ==
    NodeWideHops =>
        /\ \A c, d \in Conns : lastHop[c] = lastHop[d]
        /\ \A q, r \in Requests : Sent(q) /\ Sent(r) /\ hop[q] = hop[r] => q = r

\* An answer is about a request that was sent, as far as it can be recognised.
AnswerInv ==
    \A a \in Answers :
        /\ answer[a] # Nothing =>
               /\ Sent(answer[a].to)
               /\ answer[a].hop \in {hop[answer[a].to], UnknownHop}
               /\ answer[a].endToEnd \in {answer[a].to, Nothing}
        /\ answer[a] = Nothing => tried[a] = {}

ByInv == \A r \in Requests : by[r] # Nothing => answer[by[r]] # Nothing

\* Where its request is pending, an answer has not been tried in vain.
TriedInv ==
    \A a \in Answers :
        answer[a] # Nothing /\ Recognisable(a) /\ fate[answer[a].to] = "pending"
            => via[answer[a].to] \notin tried[a]

CorrInv ==
    /\ CorrelationTypeOK
    /\ SentInv
    /\ HopsInv
    /\ AnswerInv
    /\ ByInv
    /\ TriedInv
    /\ RightAnswer

-----------------------------------------------------------------------------
(* The order of the legs *)

LEMMA FirstConnIn ==
    ASSUME NEW cs \in SUBSET Conns, cs # {}
    PROVE  FirstConn(cs) \in cs
  <1> DEFINE Less == {ss \in Nat \X Nat : ss[1] < ss[2]}
  <1>1. cs \subseteq Nat
    BY CorrelationAssumption DEF Conns
  <1>2. IsWellFoundedOn(Less, Nat)
    BY NatLessThanWellFounded DEF OpToRel
  <1>3. \A c, d \in Nat : ~(<<d, c>> \in Less) => c <= d
    OBVIOUS
  <1> HIDE DEF Less
  <1>4. PICK c \in cs : \A d \in cs : ~(<<d, c>> \in Less)
    BY <1>1, <1>2, WFMin
  <1>5. \A d \in cs : c <= d
    BY <1>1, <1>3, <1>4
  <1> QED
    BY <1>5 DEF FirstConn

LEMMA NextLegAhead ==
    ASSUME CorrelationTypeOK, NEW a \in Answers, UnderWay(a)
    PROVE  NextLeg(a) \in Ahead(a)
  <1>1. CASE answer[a].leg \in Ahead(a) \/ Ahead(a) = {ServerLeg}
    BY <1>1 DEF NextLeg
  <1>2. CASE answer[a].leg \notin Ahead(a) /\ Ahead(a) # {ServerLeg}
    <2>1. Ahead(a) \cap Conns # {}
      BY <1>2 DEF UnderWay, Ahead, Legs
    <2>2. FirstConn(Ahead(a) \cap Conns) \in Ahead(a) \cap Conns
      BY <2>1, FirstConnIn
    <2> QED
      BY <1>2, <2>2 DEF NextLeg
  <1> QED
    BY <1>1, <1>2

\* What is found is pending on that leg.
LEMMA FoundIsPending ==
    ASSUME NEW m, NEW leg, NEW r \in Match(m, leg)
    PROVE  /\ r \in Requests /\ fate[r] = "pending" /\ via[r] = leg
           /\ hop[r] = m.hop \/ r = m.endToEnd
  BY DEF Match, PendingOn

\* An answer that can be recognised is found where its request is pending.
LEMMA RecognisedIsFound ==
    ASSUME CorrInv, NEW a \in Answers, answer[a] # Nothing, Recognisable(a),
           fate[answer[a].to] = "pending"
    PROVE  Match(answer[a], via[answer[a].to]) # {}
  <1> DEFINE to == answer[a].to
  <1>1. /\ answer[a] \in Messages /\ to \in Requests
        /\ to \in PendingOn(via[to])
    BY DEF CorrInv, CorrelationTypeOK, Messages, PendingOn
  <1>2. answer[a].hop \in {hop[to], UnknownHop} /\ answer[a].endToEnd \in {to, Nothing}
    BY DEF CorrInv, AnswerInv
  <1>3. answer[a].hop # UnknownHop => answer[a].hop = hop[to]
    BY <1>2
  <1>4. answer[a].endToEnd # Nothing => answer[a].endToEnd = to
    BY <1>2
  <1>5. answer[a].command # "other"
    BY DEF Recognisable
  <1> QED
    BY <1>1, <1>3, <1>4, <1>5 DEF Match, Recognisable

-----------------------------------------------------------------------------
(* The steps *)

LEMMA CorrInvInit == CorrelationInit => CorrInv
  BY CorrelationAssumption
  DEF CorrelationInit, CorrInv, CorrelationTypeOK, SentInv, HopsInv, AnswerInv,
      ByInv, TriedInv, RightAnswer, Sent, UnknownHop

LEMMA SendKeeps ==
    ASSUME CorrInv, NEW r \in Requests, NEW c \in Conns, Send(r, c)
    PROVE  CorrInv'
  <1>1. /\ lastHop[c] \in Nat /\ lastHop' \in [Conns -> Nat]
        /\ lastHop'[c] = lastHop[c] + 1
        /\ \A d \in Conns : lastHop'[d] >= lastHop[d]
        /\ NodeWideHops => \A d \in Conns : lastHop'[d] = lastHop[c] + 1
    <2>1. /\ lastHop \in [Conns -> Nat]
          /\ lastHop' = [d \in Conns |-> IF d = c \/ NodeWideHops THEN lastHop[c] + 1
                                                               ELSE lastHop[d]]
          /\ NodeWideHops => \A d \in Conns : lastHop[d] = lastHop[c]
      BY DEF CorrInv, CorrelationTypeOK, HopsInv, Send
    <2>2. \A d \in Conns :
              lastHop'[d] = IF d = c \/ NodeWideHops THEN lastHop[c] + 1
                                                     ELSE lastHop[d]
      BY <2>1
    <2> QED
      BY <2>1, <2>2
  <1>2. /\ fate'[r] = "pending" /\ via'[r] = c /\ hop'[r] = lastHop[c] + 1
        /\ \A q \in Requests : q # r =>
               fate'[q] = fate[q] /\ via'[q] = via[q] /\ hop'[q] = hop[q]
        /\ UNCHANGED <<by, answer, tried>>
    BY DEF CorrInv, CorrelationTypeOK, Send
  <1>3. CorrelationTypeOK'
    BY <1>1 DEF CorrInv, CorrelationTypeOK, Send
  <1>4. SentInv'
    <2>1. \A q \in Requests : Sent(q) =>
              /\ via[q] \in Conns /\ hop[q] > UnknownHop
              /\ hop[q] \in Nat /\ lastHop[via[q]] \in Nat /\ lastHop'[via[q]] \in Nat
              /\ hop[q] <= lastHop[via[q]]
      BY <1>1 DEF CorrInv, CorrelationTypeOK, SentInv
    <2> QED
      BY <1>1, <1>2, <2>1 DEF SentInv, Sent, UnknownHop
  <1>5. HopsInv'
    <2> SUFFICES ASSUME NodeWideHops PROVE HopsInv'
      BY DEF HopsInv
    <2>1. \A q \in Requests : Sent(q) => hop[q] \in Nat /\ hop[q] <= lastHop[c]
      BY DEF CorrInv, CorrelationTypeOK, SentInv, HopsInv
    <2>2. \A q \in Requests : q # r /\ Sent(q) => hop'[q] # hop'[r]
      BY <1>1, <1>2, <2>1
    <2>3. \A p, q \in Requests : Sent(p) /\ Sent(q) /\ hop[p] = hop[q] => p = q
      BY DEF CorrInv, HopsInv
    <2> QED
      BY <1>1, <1>2, <2>2, <2>3 DEF HopsInv, Sent
  <1>6. \A a \in Answers : answer[a] # Nothing =>
            answer[a].to \in Requests /\ answer[a].to # r
    BY DEF CorrInv, CorrelationTypeOK, Messages, AnswerInv, Sent, Send
  <1>7. AnswerInv'
    BY <1>2, <1>6 DEF CorrInv, AnswerInv, Sent
  <1>8. TriedInv'
    BY <1>2, <1>6 DEF CorrInv, TriedInv, Recognisable
  <1>9. ByInv' /\ RightAnswer'
    BY <1>2 DEF CorrInv, ByInv, RightAnswer
  <1> QED
    BY <1>3, <1>4, <1>5, <1>7, <1>8, <1>9 DEF CorrInv

LEMMA PeerAnswersKeeps ==
    ASSUME CorrInv, NEW a \in Answers, NEW r \in Requests, NEW leg \in Legs,
           PeerAnswers(a, r, leg)
    PROVE  CorrInv'
  <1>1. PICK h \in {hop[r], UnknownHop}, e \in {r, Nothing}, cmd \in {"same", "other"} :
            answer' = [answer EXCEPT ![a] = [to |-> r, hop |-> h, endToEnd |-> e,
                                             command |-> cmd, leg |-> leg]]
    BY DEF PeerAnswers
  <1>2. /\ answer[a] = Nothing /\ fate[r] # "new"
        /\ UNCHANGED <<fate, via, hop, lastHop, by, tried>>
    BY DEF PeerAnswers
  <1>3. /\ answer'[a].to = r /\ answer'[a].hop = h /\ answer'[a].endToEnd = e
        /\ answer'[a] \in Messages
        /\ \A b \in Answers : b # a => answer'[b] = answer[b]
    <2>1. [to |-> r, hop |-> h, endToEnd |-> e, command |-> cmd, leg |-> leg]
              \in Messages
      <3>1. h \in Nat
        <4>1. hop[r] \in Nat /\ UnknownHop \in Nat
          BY DEF CorrInv, CorrelationTypeOK, UnknownHop
        <4>2. h = hop[r] \/ h = UnknownHop
          OBVIOUS
        <4> QED
          BY <4>1, <4>2
      <3> QED
        BY <3>1 DEF Messages
    <2>2. answer \in [Answers -> Messages \cup {Nothing}]
      BY DEF CorrInv, CorrelationTypeOK
    <2>3. /\ answer'[a] = [to |-> r, hop |-> h, endToEnd |-> e,
                           command |-> cmd, leg |-> leg]
          /\ \A b \in Answers : b # a => answer'[b] = answer[b]
      BY <1>1, <2>2
    <2> QED
      BY <2>1, <2>3
  <1>4. CorrelationTypeOK'
    BY <1>1, <1>2, <1>3 DEF CorrInv, CorrelationTypeOK
  <1>5. SentInv' /\ HopsInv'
    BY <1>2 DEF CorrInv, SentInv, HopsInv, Sent
  <1>6. answer'[a] # Nothing
    BY <1>3, CorrelationAssumption
  <1>7. tried[a] = {}
    BY <1>2 DEF CorrInv, AnswerInv
  <1>8. AnswerInv'
    BY <1>2, <1>3, <1>6 DEF CorrInv, AnswerInv, Sent
  <1>9. TriedInv'
    BY <1>2, <1>3, <1>7 DEF CorrInv, TriedInv, Recognisable
  <1>10. \A q \in Requests : by[q] # Nothing => by[q] # a /\ by[q] \in Answers
    BY <1>2 DEF CorrInv, CorrelationTypeOK, ByInv
  <1>11. ByInv' /\ RightAnswer'
    BY <1>2, <1>3, <1>10 DEF CorrInv, ByInv, RightAnswer
  <1> QED
    BY <1>4, <1>5, <1>8, <1>9, <1>11 DEF CorrInv

LEMMA TimesOutKeeps ==
    ASSUME CorrInv, NEW r \in Requests, TimesOut(r)
    PROVE  CorrInv'
  <1>1. /\ fate[r] = "pending" /\ fate'[r] = "timed out"
        /\ \A q \in Requests : q # r => fate'[q] = fate[q]
        /\ UNCHANGED <<via, hop, lastHop, by, answer, tried>>
    BY DEF CorrInv, CorrelationTypeOK, TimesOut
  <1>2. \A q \in Requests : Sent(q)' <=> Sent(q)
    BY <1>1 DEF Sent
  <1>3. \A b \in Answers : answer[b] # Nothing => answer[b].to \in Requests
    BY DEF CorrInv, CorrelationTypeOK, Messages
  <1>4. CorrelationTypeOK'
    BY DEF CorrInv, CorrelationTypeOK, TimesOut
  <1>5. SentInv' /\ HopsInv' /\ ByInv' /\ RightAnswer'
    BY <1>1, <1>2 DEF CorrInv, SentInv, HopsInv, ByInv, RightAnswer
  <1>6. AnswerInv'
    BY <1>1, <1>2, <1>3 DEF CorrInv, AnswerInv
  <1>7. TriedInv'
    BY <1>1, <1>3 DEF CorrInv, TriedInv, Recognisable
  <1> QED
    BY <1>4, <1>5, <1>6, <1>7 DEF CorrInv

\* The lookup finds a request: the one the answer is for, if ids are unique.
LEMMA ResolveKeeps ==
    ASSUME CorrInv, NEW a \in Answers, answer[a] # Nothing,
           NEW leg, NEW r \in Match(answer[a], leg),
           fate' = [fate EXCEPT ![r] = "answered"],
           by' = [by EXCEPT ![r] = a],
           UNCHANGED <<tried, via, hop, lastHop, answer>>
    PROVE  CorrInv'
  <1>1. /\ r \in Requests /\ fate[r] = "pending"
        /\ hop[r] = answer[a].hop \/ r = answer[a].endToEnd
    BY FoundIsPending
  <1>2. /\ fate'[r] = "answered" /\ by'[r] = a
        /\ \A q \in Requests : q # r => fate'[q] = fate[q] /\ by'[q] = by[q]
    BY <1>1 DEF CorrInv, CorrelationTypeOK
  <1>3. \A q \in Requests : Sent(q)' <=> Sent(q)
    BY <1>1, <1>2 DEF Sent
  <1>4. \A b \in Answers : answer[b] # Nothing => answer[b].to \in Requests
    BY DEF CorrInv, CorrelationTypeOK, Messages
  <1>5. CorrelationTypeOK'
    BY <1>1 DEF CorrInv, CorrelationTypeOK
  <1>6. SentInv' /\ HopsInv'
    BY <1>3 DEF CorrInv, SentInv, HopsInv
  <1>7. AnswerInv'
    BY <1>3, <1>4 DEF CorrInv, AnswerInv
  <1>8. TriedInv'
    BY <1>2, <1>4 DEF CorrInv, TriedInv, Recognisable
  <1>9. ByInv'
    BY <1>2 DEF CorrInv, ByInv
  <1>10. NodeWideHops => answer[a].to = r
    <2>1. /\ Sent(answer[a].to)
          /\ answer[a].hop \in {hop[answer[a].to], UnknownHop}
          /\ answer[a].endToEnd \in {answer[a].to, Nothing}
      BY DEF CorrInv, AnswerInv
    <2>2. Sent(r) /\ hop[r] # UnknownHop
      <3>1. Sent(r)
        BY <1>1 DEF Sent
      <3>2. hop[r] \in Nat /\ hop[r] > UnknownHop
        BY <1>1, <3>1 DEF CorrInv, CorrelationTypeOK, SentInv
      <3> QED
        BY <3>1, <3>2 DEF UnknownHop
    <2>3. r # Nothing
      BY <1>1, CorrelationAssumption
    <2> QED
      BY <1>1, <1>4, <2>1, <2>2, <2>3 DEF CorrInv, HopsInv
  <1>11. RightAnswer'
    BY <1>2, <1>10 DEF CorrInv, RightAnswer
  <1> QED
    BY <1>5, <1>6, <1>7, <1>8, <1>9, <1>11 DEF CorrInv

\* The lookup finds nothing: the request is not pending on that leg.
LEMMA MissKeeps ==
    ASSUME CorrInv, NEW a \in Answers, UnderWay(a),
           Match(answer[a], NextLeg(a)) = {},
           tried' = [tried EXCEPT ![a] = @ \cup {NextLeg(a)}],
           UNCHANGED <<fate, via, hop, lastHop, by, answer>>
    PROVE  CorrInv'
  <1>1. NextLeg(a) \in Legs
    BY NextLegAhead DEF CorrInv, Ahead
  <1>2. answer[a] # Nothing
    BY DEF UnderWay
  <1>3. /\ tried'[a] = tried[a] \cup {NextLeg(a)}
        /\ \A b \in Answers : b # a => tried'[b] = tried[b]
    BY DEF CorrInv, CorrelationTypeOK
  <1>4. CorrelationTypeOK'
    BY <1>1 DEF CorrInv, CorrelationTypeOK
  <1>5. SentInv' /\ HopsInv' /\ ByInv' /\ RightAnswer'
    BY DEF CorrInv, SentInv, HopsInv, ByInv, RightAnswer, Sent
  <1>6. AnswerInv'
    BY <1>2, <1>3 DEF CorrInv, AnswerInv, Sent
  <1>7. Recognisable(a) /\ fate[answer[a].to] = "pending" =>
            via[answer[a].to] # NextLeg(a)
    BY <1>2, RecognisedIsFound
  <1>8. TriedInv'
    BY <1>3, <1>7 DEF CorrInv, TriedInv, Recognisable
  <1> QED
    BY <1>4, <1>5, <1>6, <1>8 DEF CorrInv

LEMMA CorrInvSteps ==
    ASSUME CorrInv, [CorrelationNext]_corrvars
    PROVE  CorrInv'
  <1>1. ASSUME NEW a \in Answers, TryResolve(a)
        PROVE  CorrInv'
    <2>1. UnderWay(a) /\ answer[a] # Nothing
      BY <1>1 DEF TryResolve, UnderWay
    <2>2. CASE Match(answer[a], NextLeg(a)) = {}
      BY <1>1, <2>1, <2>2, MissKeeps DEF TryResolve
    <2>3. CASE Match(answer[a], NextLeg(a)) # {}
      <3>1. PICK r \in Match(answer[a], NextLeg(a)) :
                /\ fate' = [fate EXCEPT ![r] = "answered"]
                /\ by' = [by EXCEPT ![r] = a]
                /\ UNCHANGED tried
        BY <1>1, <2>3 DEF TryResolve
      <3> QED
        BY <1>1, <2>1, <3>1, ResolveKeeps DEF TryResolve
    <2> QED
      BY <2>2, <2>3
  <1>2. CASE UNCHANGED corrvars
    BY <1>2
    DEF CorrInv, corrvars, CorrelationTypeOK, SentInv, HopsInv, AnswerInv,
        ByInv, TriedInv, RightAnswer, Sent, Recognisable
  <1> QED
    BY <1>1, <1>2, SendKeeps, PeerAnswersKeeps, TimesOutKeeps
    DEF CorrelationNext

LEMMA CorrInvHolds == CorrelationSpec => []CorrInv
  <1>1. CorrInv /\ [CorrelationNext]_corrvars => CorrInv'
    BY CorrInvSteps
  <1> QED
    BY <1>1, CorrInvInit, PTL DEF CorrelationSpec

-----------------------------------------------------------------------------
(* The theorems *)

\* Requests, pending entries and answers keep their types, however many
\* connections there are: the lookup never leaves the legs.
THEOREM CorrelationTypeCorrect == CorrelationSpec => []CorrelationTypeOK
  <1>1. CorrInv => CorrelationTypeOK
    BY DEF CorrInv
  <1> QED
    BY <1>1, CorrInvHolds, PTL

\* If hop-by-hop ids are unique in the node, an answer resolves the request it
\* is for and no other, although it is looked up on every connection.
THEOREM AnswersAreRight == CorrelationSpec => []RightAnswer
  <1>1. CorrInv => RightAnswer
    BY DEF CorrInv
  <1> QED
    BY <1>1, CorrInvHolds, PTL

\* An answer that can be recognised is dropped only if nobody waits for it.
THEOREM NothingRecognisableIsLost == CorrelationSpec => []NoAnswerIsLost
  <1>1. CorrInv => NoAnswerIsLost
    <2> SUFFICES ASSUME CorrInv, NEW a \in Answers, Dropped(a), Recognisable(a),
                        fate[answer[a].to] = "pending"
                 PROVE  FALSE
      BY DEF NoAnswerIsLost
    <2>1. answer[a] # Nothing /\ Legs \ tried[a] = {}
      BY DEF Dropped, UnderWay, Ahead
    <2>2. via[answer[a].to] \in Legs
      BY <2>1 DEF CorrInv, CorrelationTypeOK, Messages, SentInv, Sent, Legs
    <2>3. via[answer[a].to] \notin tried[a]
      BY <2>1 DEF CorrInv, TriedInv
    <2> QED
      BY <2>1, <2>2, <2>3
  <1> QED
    BY <1>1, CorrInvHolds, PTL

\* What a request was told is final: a late or duplicated answer and a late
\* timeout change nothing of it.
THEOREM ToldIsFinal == CorrelationSpec => LateAnswersChangeNothing
  <1> DEFINE Final(r) == fate[r] \in {"answered", "timed out"} =>
                             fate'[r] = fate[r] /\ by'[r] = by[r]
  <1>1. CorrInv /\ [CorrelationNext]_corrvars => [\A r \in Requests : Final(r)]_corrvars
    <2> SUFFICES ASSUME CorrInv, CorrelationNext, NEW q \in Requests
                 PROVE  Final(q)
      OBVIOUS
    <2>1. ASSUME NEW a \in Answers, TryResolve(a)
          PROVE  Final(q)
      <3>1. CASE UNCHANGED <<fate, by>>
        BY <3>1
      <3>2. CASE \E r \in Match(answer[a], NextLeg(a)) :
                     /\ fate' = [fate EXCEPT ![r] = "answered"]
                     /\ by' = [by EXCEPT ![r] = a]
        <4>1. PICK r \in Match(answer[a], NextLeg(a)) :
                  /\ fate' = [fate EXCEPT ![r] = "answered"]
                  /\ by' = [by EXCEPT ![r] = a]
          BY <3>2
        <4>2. r \in Requests /\ fate[r] = "pending"
          BY FoundIsPending
        <4> QED
          BY <4>1, <4>2 DEF CorrInv, CorrelationTypeOK
      <3> QED
        BY <2>1, <3>1, <3>2 DEF TryResolve
    <2>2. ASSUME NEW r \in Requests, TimesOut(r) \/ \E c \in Conns : Send(r, c)
          PROVE  Final(q)
      BY <2>2 DEF CorrInv, CorrelationTypeOK, TimesOut, Send
    <2>3. ASSUME NEW a \in Answers, NEW r \in Requests, NEW leg \in Legs,
                 PeerAnswers(a, r, leg)
          PROVE  Final(q)
      BY <2>3 DEF PeerAnswers
    <2> QED
      BY <2>1, <2>2, <2>3 DEF CorrelationNext
  <1> QED
    BY <1>1, CorrInvHolds, PTL DEF CorrelationSpec, LateAnswersChangeNothing

-----------------------------------------------------------------------------
(* The refinement of PendingEntries *)

\* Who was resolved, was so by an answer.
FateInv == \A r \in Requests : fate[r] = "answered" <=> by[r] # Nothing

LEMMA FateInvInit == CorrelationInit => FateInv
  BY DEF CorrelationInit, FateInv

\* What a lookup that finds something does to one request.
LEMMA FoundStep ==
    ASSUME CorrelationTypeOK, NEW a \in Answers, TryResolve(a),
           Match(answer[a], NextLeg(a)) # {}
    PROVE  \E r \in Match(answer[a], NextLeg(a)) :
               /\ r \in Requests /\ fate[r] = "pending"
               /\ fate' = [fate EXCEPT ![r] = "answered"]
               /\ by' = [by EXCEPT ![r] = a]
               /\ fate'[r] = "answered" /\ by'[r] = a
               /\ \A q \in Requests : q # r => fate'[q] = fate[q] /\ by'[q] = by[q]
               /\ UNCHANGED <<via, hop, lastHop, answer, tried>>
  <1>1. PICK r \in Match(answer[a], NextLeg(a)) :
            /\ fate' = [fate EXCEPT ![r] = "answered"]
            /\ by' = [by EXCEPT ![r] = a]
            /\ UNCHANGED tried
    BY DEF TryResolve
  <1>2. r \in Requests /\ fate[r] = "pending"
    BY FoundIsPending
  <1> QED
    BY <1>1, <1>2 DEF CorrelationTypeOK, TryResolve

LEMMA FateInvSteps ==
    ASSUME CorrelationTypeOK, FateInv, [CorrelationNext]_corrvars
    PROVE  FateInv'
  <1>1. ASSUME NEW a \in Answers, TryResolve(a)
        PROVE  FateInv'
    <2>1. CASE Match(answer[a], NextLeg(a)) = {}
      BY <1>1, <2>1 DEF TryResolve, FateInv
    <2>2. CASE Match(answer[a], NextLeg(a)) # {}
      <3>1. a # Nothing
        BY CorrelationAssumption
      <3> QED
        BY <1>1, <2>2, <3>1, FoundStep DEF FateInv
    <2> QED
      BY <2>1, <2>2
  <1>2. ASSUME NEW r \in Requests, TimesOut(r) \/ \E c \in Conns : Send(r, c)
        PROVE  FateInv'
    BY <1>2 DEF CorrelationTypeOK, TimesOut, Send, FateInv
  <1>3. ASSUME NEW a \in Answers, NEW r \in Requests, NEW leg \in Legs,
               PeerAnswers(a, r, leg)
        PROVE  FateInv'
    BY <1>3 DEF PeerAnswers, FateInv
  <1>4. CASE UNCHANGED corrvars
    BY <1>4 DEF corrvars, FateInv
  <1> QED
    BY <1>1, <1>2, <1>3, <1>4 DEF CorrelationNext

\* The mapping.
EntryOf == [r \in Requests |-> IF fate[r] = "pending" THEN via[r] ELSE Nothing]
ToldOf == [r \in Requests |-> IF fate[r] = "timed out" THEN "timeout"
                              ELSE IF by[r] = Nothing THEN Nothing
                              ELSE answer[by[r]].to]

\* A request that is pending is kept by a connection and was told nothing.
LEMMA PendingIsKept ==
    ASSUME CorrInv, FateInv, NEW r \in Requests, fate[r] = "pending"
    PROVE  EntryOf[r] # Nothing /\ ToldOf[r] = Nothing
  <1>1. via[r] \in Conns /\ Nothing \notin Conns
    BY CorrelationAssumption DEF CorrInv, SentInv, Sent, Legs
  <1>2. by[r] = Nothing
    BY DEF FateInv
  <1> QED
    BY <1>1, <1>2 DEF EntryOf, ToldOf

LEMMA SendKeepsEntry ==
    ASSUME CorrInv, FateInv, NEW r \in Requests, NEW c \in Conns, Send(r, c)
    PROVE  Entries!Keep(r, c)
  <1>1. /\ fate[r] = "new" /\ fate'[r] = "pending" /\ via'[r] = c
        /\ \A q \in Requests : q # r => fate'[q] = fate[q] /\ via'[q] = via[q]
        /\ UNCHANGED <<by, answer>>
    BY DEF CorrInv, CorrelationTypeOK, Send
  <1>2. by[r] = Nothing
    BY <1>1 DEF FateInv
  <1>3. EntryOf[r] = Nothing /\ ToldOf[r] = Nothing
    BY <1>1, <1>2 DEF EntryOf, ToldOf
  <1>4. EntryOf' = [EntryOf EXCEPT ![r] = c]
    BY <1>1 DEF EntryOf
  <1>5. ToldOf' = ToldOf
    BY <1>1, <1>2 DEF ToldOf
  <1> QED
    BY <1>3, <1>4, <1>5 DEF Entries!Keep, EntryOf, ToldOf

\* Whatever ends the waiting of a request, what it is told is what ToldOf says.
LEMMA EndTells ==
    ASSUME CorrInv, FateInv, NEW r \in Requests, NEW what, fate[r] = "pending",
           fate'[r] # "pending", ToldOf'[r] = what, via' = via,
           \A q \in Requests : q # r => fate'[q] = fate[q] /\ ToldOf'[q] = ToldOf[q]
    PROVE  Entries!Tell(r, what)
  <1>1. EntryOf[r] # Nothing /\ ToldOf[r] = Nothing
    BY PendingIsKept
  <1>2. EntryOf' = [EntryOf EXCEPT ![r] = Nothing]
    BY DEF EntryOf
  <1>3. ToldOf' = [ToldOf EXCEPT ![r] = what]
    BY DEF ToldOf
  <1> QED
    BY <1>1, <1>2, <1>3 DEF Entries!Tell, EntryOf, ToldOf

LEMMA TimesOutTells ==
    ASSUME CorrInv, FateInv, NEW r \in Requests, TimesOut(r)
    PROVE  Entries!Tell(r, "timeout")
  <1>1. /\ fate[r] = "pending" /\ fate'[r] = "timed out"
        /\ \A q \in Requests : q # r => fate'[q] = fate[q]
        /\ UNCHANGED <<via, by, answer>>
    BY DEF CorrInv, CorrelationTypeOK, TimesOut
  <1>2. ToldOf'[r] = "timeout" /\ \A q \in Requests : q # r => ToldOf'[q] = ToldOf[q]
    BY <1>1 DEF ToldOf
  <1> QED
    BY <1>1, <1>2, EndTells

\* The request that a lookup finds is told of its own answer.
LEMMA ResolveTells ==
    ASSUME CorrInv, FateInv, RightAnswer', NodeWideHops,
           NEW a \in Answers, TryResolve(a), Match(answer[a], NextLeg(a)) # {}
    PROVE  \E r \in Requests : Entries!Tell(r, r)
  <1>1. PICK r \in Requests :
            /\ fate[r] = "pending" /\ fate'[r] = "answered" /\ by'[r] = a
            /\ \A q \in Requests : q # r => fate'[q] = fate[q] /\ by'[q] = by[q]
            /\ UNCHANGED <<via, answer>>
    BY FoundStep DEF CorrInv
  <1>2. a # Nothing
    BY CorrelationAssumption
  <1>3. ToldOf'[r] = r
    BY <1>1, <1>2 DEF ToldOf, RightAnswer
  <1>4. \A q \in Requests : q # r => ToldOf'[q] = ToldOf[q]
    BY <1>1 DEF ToldOf
  <1>5. Entries!Tell(r, r)
    BY <1>1, <1>3, <1>4, EndTells
  <1> QED
    BY <1>5

\* An answer that arrives is nobody's yet.
LEMMA ArrivalTellsNobody ==
    ASSUME CorrInv, NEW a \in Answers, NEW r \in Requests, NEW leg \in Legs,
           PeerAnswers(a, r, leg)
    PROVE  UNCHANGED Entries!pevars
  <1>1. /\ answer[a] = Nothing /\ UNCHANGED <<fate, via, by>>
        /\ \A b \in Answers : b # a => answer'[b] = answer[b]
    BY DEF CorrInv, CorrelationTypeOK, PeerAnswers
  <1>2. \A q \in Requests : by[q] # Nothing => by[q] \in Answers /\ by[q] # a
    BY <1>1 DEF CorrInv, CorrelationTypeOK, ByInv
  <1>3. EntryOf' = EntryOf
    BY <1>1 DEF EntryOf
  <1>4. ToldOf' = ToldOf
    BY <1>1, <1>2 DEF ToldOf
  <1> QED
    BY <1>3, <1>4 DEF Entries!pevars, EntryOf, ToldOf

LEMMA CorrelationStepsRefine ==
    ASSUME CorrInv, FateInv, RightAnswer', NodeWideHops, [CorrelationNext]_corrvars
    PROVE  [Entries!PENext]_(Entries!pevars)
  <1>1. ASSUME NEW r \in Requests, NEW c \in Conns, Send(r, c)
        PROVE  Entries!PENext
    BY <1>1, SendKeepsEntry DEF Entries!PENext
  <1>2. ASSUME NEW r \in Requests, TimesOut(r)
        PROVE  Entries!PENext
    BY <1>2, TimesOutTells DEF Entries!PENext, Entries!Told
  <1>3. ASSUME NEW a \in Answers, TryResolve(a)
        PROVE  [Entries!PENext]_(Entries!pevars)
    <2>1. CASE Match(answer[a], NextLeg(a)) = {}
      BY <1>3, <2>1 DEF TryResolve, Entries!pevars
    <2>2. CASE Match(answer[a], NextLeg(a)) # {}
      <3>1. PICK r \in Requests : Entries!Tell(r, r)
        BY <1>3, <2>2, ResolveTells
      <3> QED
        BY <3>1 DEF Entries!PENext, Entries!Told
    <2> QED
      BY <2>1, <2>2
  <1>4. CASE UNCHANGED corrvars
    BY <1>4 DEF corrvars, Entries!pevars
  <1> QED
    BY <1>1, <1>2, <1>3, <1>4, ArrivalTellsNobody DEF CorrelationNext

LEMMA CorrelationInitRefines == CorrelationInit => Entries!PEInit
  BY DEF CorrelationInit, Entries!PEInit

\* If hop-by-hop ids are unique in the node, looking an answer up on one leg
\* after the other, while requests are sent, answered and timed out on other
\* threads, is as good as a table that keeps each request until it is told,
\* once, of its own answer or of the timeout.
THEOREM LookupIsATable == NodeWideHops => (CorrelationSpec => ImplementsEntries)
  <1> SUFFICES ASSUME NodeWideHops PROVE CorrelationSpec => ImplementsEntries
    OBVIOUS
  <1>1. FateInv /\ CorrInv /\ [CorrelationNext]_corrvars => FateInv'
    BY FateInvSteps DEF CorrInv
  <1>2. CorrInv => RightAnswer
    BY DEF CorrInv
  <1>3. CorrInv /\ FateInv /\ RightAnswer' /\ [CorrelationNext]_corrvars
        => [Entries!PENext]_(Entries!pevars)
    BY CorrelationStepsRefine
  <1> QED
    BY <1>1, <1>2, <1>3, FateInvInit, CorrelationInitRefines, CorrInvHolds, PTL
    DEF CorrelationSpec, ImplementsEntries, Entries!PESafety

-----------------------------------------------------------------------------
(* Without ids that are unique in the node *)

\* A connection gives an id once, whatever the others do.
OwnHopInv ==
    \A q, r \in Requests :
        Sent(q) /\ Sent(r) /\ via[q] = via[r] /\ hop[q] = hop[r] => q = r

\* An answer that keeps its hop-by-hop id and comes while the connection that
\* sent its request keeps it still, by that connection: nothing else is like it.
OnItsOwnLeg(m) ==
    /\ m.leg = via[m.to]
    /\ m.hop # UnknownHop
    /\ fate[m.to] = "pending"

OwnLegIsRight ==
    \A r \in Requests :
        by'[r] # by[r] /\ OnItsOwnLeg(answer[by'[r]]) => answer[by'[r]].to = r

LEMMA OwnHopInit == CorrelationInit => OwnHopInv
  BY DEF CorrelationInit, OwnHopInv, Sent

LEMMA OwnHopSteps ==
    ASSUME CorrInv, OwnHopInv, [CorrelationNext]_corrvars
    PROVE  OwnHopInv'
  <1>1. ASSUME NEW r \in Requests, NEW c \in Conns, Send(r, c)
        PROVE  OwnHopInv'
    <2>1. /\ via'[r] = c /\ hop'[r] = lastHop[c] + 1
          /\ \A q \in Requests : q # r =>
                 fate'[q] = fate[q] /\ via'[q] = via[q] /\ hop'[q] = hop[q]
      BY <1>1 DEF CorrInv, CorrelationTypeOK, Send
    <2>2. \A q \in Requests : Sent(q) /\ via[q] = c => hop[q] # lastHop[c] + 1
      <3>1. \A q \in Requests : Sent(q) /\ via[q] = c =>
                hop[q] \in Nat /\ lastHop[c] \in Nat /\ hop[q] <= lastHop[c]
        BY DEF CorrInv, CorrelationTypeOK, SentInv
      <3> QED
        BY <3>1
    <2> QED
      BY <2>1, <2>2 DEF OwnHopInv, Sent
  <1>2. ASSUME UNCHANGED <<via, hop>>, \A q \in Requests : Sent(q)' <=> Sent(q)
        PROVE  OwnHopInv'
    BY <1>2 DEF OwnHopInv
  <1>3. ASSUME NEW a \in Answers, TryResolve(a)
        PROVE  \A q \in Requests : Sent(q)' <=> Sent(q)
    <2>1. CASE Match(answer[a], NextLeg(a)) = {}
      BY <1>3, <2>1 DEF TryResolve, Sent
    <2>2. CASE Match(answer[a], NextLeg(a)) # {}
      BY <1>3, <2>2, FoundStep DEF CorrInv, Sent
    <2> QED
      BY <2>1, <2>2
  <1>4. ASSUME NEW r \in Requests, TimesOut(r)
        PROVE  \A q \in Requests : Sent(q)' <=> Sent(q)
    BY <1>4 DEF CorrInv, CorrelationTypeOK, TimesOut, Sent
  <1>5. CASE UNCHANGED corrvars
    BY <1>2, <1>5 DEF corrvars, Sent
  <1>6. ASSUME NEW a \in Answers, NEW r \in Requests, NEW leg \in Legs,
               PeerAnswers(a, r, leg)
        PROVE  OwnHopInv'
    BY <1>2, <1>6 DEF PeerAnswers, Sent
  <1>7. ASSUME NEW a \in Answers, TryResolve(a) PROVE OwnHopInv'
    BY <1>2, <1>3, <1>7 DEF TryResolve
  <1>8. ASSUME NEW r \in Requests, TimesOut(r) PROVE OwnHopInv'
    BY <1>2, <1>4, <1>8 DEF TimesOut
  <1> QED
    BY <1>1, <1>5, <1>6, <1>7, <1>8 DEF CorrelationNext

\* On its own leg an answer is tried first, and there only its request has its id.
LEMMA OwnLegFound ==
    ASSUME CorrInv, OwnHopInv, NEW a \in Answers, UnderWay(a),
           OnItsOwnLeg(answer[a]), NEW r \in Match(answer[a], NextLeg(a))
    PROVE  answer[a].to = r
  <1> DEFINE to == answer[a].to
  <1>1. /\ answer[a] # Nothing /\ to \in Requests /\ answer[a].leg \in Legs
        /\ answer[a].command # "other"
    BY DEF UnderWay, CorrInv, CorrelationTypeOK, Messages, Match
  <1>2. answer[a].hop = hop[to]
    BY <1>1 DEF CorrInv, AnswerInv, OnItsOwnLeg
  <1>3. Recognisable(a)
    <2>1. answer[a].command = "same"
      BY <1>1 DEF CorrInv, CorrelationTypeOK, Messages
    <2> QED
      BY <2>1 DEF Recognisable, OnItsOwnLeg
  <1>4. NextLeg(a) = via[to]
    BY <1>1, <1>3 DEF CorrInv, TriedInv, OnItsOwnLeg, NextLeg, Ahead
  <1>5. to \in PendingOn(via[to])
    BY <1>1 DEF PendingOn, OnItsOwnLeg
  <1>6. r \in Requests /\ fate[r] = "pending" /\ via[r] = via[to] /\ hop[r] = hop[to]
    <2>1. r \in PendingOn(via[to]) /\ hop[r] = answer[a].hop
      BY <1>1, <1>2, <1>4, <1>5 DEF Match
    <2> QED
      BY <1>2, <2>1 DEF PendingOn
  <1> QED
    BY <1>1, <1>6 DEF OwnHopInv, Sent, OnItsOwnLeg

\* Even if two connections may give the same id: an answer that comes in time,
\* by the connection that sent its request and with its id, resolves no other
\* request. What unique ids are needed for are other legs and late answers.
THEOREM OwnLegAnswersAreRight == CorrelationSpec => [][OwnLegIsRight]_corrvars
  <1>1. CorrInv /\ OwnHopInv /\ [CorrelationNext]_corrvars => OwnHopInv'
    BY OwnHopSteps
  <1>2. CorrInv /\ OwnHopInv /\ [CorrelationNext]_corrvars => [OwnLegIsRight]_corrvars
    <2> SUFFICES ASSUME CorrInv, OwnHopInv, CorrelationNext, NEW r \in Requests,
                        by'[r] # by[r], OnItsOwnLeg(answer[by'[r]])
                 PROVE  answer[by'[r]].to = r
      BY DEF OwnLegIsRight
    <2>1. PICK a \in Answers : TryResolve(a)
      BY DEF CorrelationNext, Send, PeerAnswers, TimesOut
    <2>2. Match(answer[a], NextLeg(a)) # {}
      BY <2>1 DEF TryResolve
    <2>3. PICK q \in Match(answer[a], NextLeg(a)) :
              by'[q] = a /\ \A p \in Requests : p # q => by'[p] = by[p]
      BY <2>1, <2>2, FoundStep DEF CorrInv
    <2>4. q = r
      BY <2>3
    <2> QED
      BY <2>1, <2>3, <2>4, OwnLegFound DEF TryResolve
  <1> QED
    BY <1>1, <1>2, OwnHopInit, CorrInvHolds, PTL DEF CorrelationSpec
=============================================================================
