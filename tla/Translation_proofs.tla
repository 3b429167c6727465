-------------------------- MODULE Translation_proofs --------------------------
(***************************************************************************)
(* Proofs about the translation of messages, for all sets of dictionaries, *)
(* ids, applications, commands and URIs.                                   *)
(***************************************************************************)
EXTENDS Translation, TLAPS, WellFoundedInduction

-----------------------------------------------------------------------------
(* The scan for the Session-Id *)

\* The scan hops by multiples of four, and its value lies in the buffer.
PlaceInv ==
    /\ pos >= MessageHeader
    /\ pos % 4 = 0
    /\ value[1] <= value[2] /\ value[2] <= size

\* It has come here over AVPs that follow each other.
PathInv ==
    scan # "none" => \E s \in SUBSET Readables : Skipped(s) /\ Follows(s, pos)

\* What it ends with, seen from where it ended.
EndInv ==
    /\ scan = "reading" => value = NoValue
    /\ scan = "done" =>
        \/ /\ pos \in Readables /\ Framed(pos) /\ IsSessionId(pos)
           /\ value = <<pos + AvpHeader, pos + Length(pos)>>
        \/ /\ pos \in Readables => ~Framed(pos)
           /\ value = NoValue

ScanInv == ScanTypeOK /\ PlaceInv /\ PathInv /\ EndInv

-----------------------------------------------------------------------------
(* Arithmetic of offsets *)

\* What Padded returns is the next multiple of four.
LEMMA PaddedIsMultiple ==
    \A n \in Nat : Padded(n) \in Nat /\ Padded(n) % 4 = 0 /\ Padded(n) >= n
  BY DEF Padded

\* Multiples of four add up to one.
LEMMA SumOfMultiples ==
    \A m, n \in Nat : m % 4 = 0 /\ n % 4 = 0 => (m + n) % 4 = 0
  OBVIOUS

\* The first two words of an AVP that is readable are words of the message.
LEMMA ReadableWords ==
    ASSUME ScanTypeOK, NEW p \in Nat, p >= MessageHeader, p % 4 = 0, Readable(p)
    PROVE  p \in Offsets /\ p + 4 \in Offsets
  <1>1. size \in Nat /\ msgLen \in Nat
    BY ScanAssumption DEF ScanTypeOK
  <1>2. End \in Nat /\ End <= size
    BY <1>1 DEF End
  <1>3. p + 8 <= size
    BY <1>1, <1>2 DEF Readable, AvpHeader
  <1>4. (p + 4) % 4 = 0
    BY SumOfMultiples
  <1> QED
    BY <1>1, <1>3, <1>4 DEF Offsets, MessageHeader

\* The length that it tells is a number.
LEMMA LengthIsNat ==
    ASSUME ScanTypeOK, NEW p \in Nat, p + 4 \in Offsets
    PROVE  Length(p) \in Nat
  <1>1. word[p + 4] \in Word
    BY ScanAssumption DEF ScanTypeOK
  <1> QED
    BY <1>1 DEF Length, Word

\* A well framed AVP ends inside the buffer, after its header.
LEMMA FramedInside ==
    ASSUME ScanTypeOK, NEW p \in Nat, Length(p) \in Nat, Framed(p)
    PROVE  /\ p + HeaderLength(p) <= p + Length(p)
           /\ p + Length(p) <= size
           /\ p + HeaderLength(p) \in Nat
  <1>1. size \in Nat /\ msgLen \in Nat
    BY ScanAssumption DEF ScanTypeOK
  <1>2. End \in Nat /\ End <= size
    BY <1>1 DEF End
  <1>3. HeaderLength(p) \in Nat
    BY DEF HeaderLength, AvpHeader, VendorAvpHeader
  <1> QED
    BY <1>1, <1>2, <1>3 DEF Framed

-----------------------------------------------------------------------------
(* One step *)

\* An AVP that is skipped makes the path longer by one.
LEMMA PathGoesOn ==
    ASSUME NEW s \in SUBSET Readables, Skipped(s), NEW p \in Readables,
           Follows(s, p), Framed(p), ~IsSessionId(p)
    PROVE  /\ s \cup {p} \in SUBSET Readables
           /\ Skipped(s \cup {p})
           /\ Follows(s \cup {p}, p + Padded(Length(p)))
  <1>1. \A q : Follows(s, q) => Follows(s \cup {p}, q)
    BY DEF Follows
  <1>2. Skipped(s \cup {p})
    BY <1>1 DEF Skipped
  <1>3. Follows(s \cup {p}, p + Padded(Length(p)))
    BY DEF Follows
  <1> QED
    BY <1>2, <1>3

\* What the path is made of does not change while the message does not.
LEMMA SameMessageSamePath ==
    ASSUME UNCHANGED <<size, msgLen, word>>
    PROVE  /\ Readables' = Readables
           /\ \A s \in SUBSET Readables : Skipped(s) => Skipped(s)'
           /\ \A s \in SUBSET Readables, p \in Nat : Follows(s, p) => Follows(s, p)'
  BY DEF Readables, Offsets, Readable, End, Skipped, Follows, Framed, Length,
         HeaderLength, IsVendor, IsSessionId

LEMMA ScanInitInv == ASSUME ScanInit PROVE ScanInv
  <1>1. word \in [Offsets -> Words]
    BY DEF ScanInit, Offsets, MessageHeader
  <1>2. MessageHeader % 4 = 0
    BY DEF MessageHeader
  <1> QED
    BY <1>1, <1>2 DEF ScanInit, ScanInv, ScanTypeOK, PlaceInv, PathInv, EndInv,
                      NoValue, MessageHeader

LEMMA TakeKeeps == ASSUME ScanInv, Take PROVE ScanInv'
  <1>1. ScanTypeOK'
    BY DEF ScanInv, ScanTypeOK, Take, NoValue, MessageHeader
  <1>2. PlaceInv'
    <2>1. MessageHeader % 4 = 0
      BY DEF MessageHeader
    <2>2. size' \in Nat
      BY <1>1, ScanAssumption DEF ScanTypeOK
    <2> QED
      BY <2>1, <2>2 DEF Take, PlaceInv, NoValue, MessageHeader
  <1>3. PathInv'
    <2>1. Skipped({})' /\ Follows({}, pos)'
      BY DEF Take, Skipped, Follows
    <2>2. {} \in SUBSET Readables'
      OBVIOUS
    <2> QED
      BY <2>1, <2>2 DEF PathInv
  <1>4. EndInv'
    BY DEF Take, EndInv
  <1> QED
    BY <1>1, <1>2, <1>3, <1>4 DEF ScanInv

LEMMA FoundKeeps == ASSUME ScanInv, Found PROVE ScanInv'
  <1>1. pos \in Nat /\ pos \in Offsets /\ pos + 4 \in Offsets
    BY ReadableWords DEF ScanInv, ScanTypeOK, PlaceInv, Found
  <1>2. Length(pos) \in Nat
    BY <1>1, LengthIsNat DEF ScanInv
  <1>3. HeaderLength(pos) = AvpHeader
    BY DEF Found, IsSessionId, HeaderLength
  <1>4. /\ pos + AvpHeader <= pos + Length(pos)
        /\ pos + Length(pos) <= size
        /\ pos + AvpHeader \in Nat
    BY <1>1, <1>2, <1>3, FramedInside DEF ScanInv, Found
  <1>5. value' = <<pos + AvpHeader, pos + Length(pos)>>
    BY <1>3 DEF Found
  <1>6. ScanTypeOK'
    <2>1. value' \in Nat \X Nat
      BY <1>1, <1>2, <1>4, <1>5
    <2>2. Offsets' = Offsets
      BY DEF Found, Offsets
    <2> QED
      BY <2>1, <2>2 DEF ScanInv, ScanTypeOK, Found
  <1>7. PlaceInv'
    BY <1>4, <1>5 DEF ScanInv, PlaceInv, Found
  <1>8. PathInv'
    BY <1>1, SameMessageSamePath DEF ScanInv, PathInv, Found
  <1>9. EndInv'
    <2>1. pos \in Readables
      BY <1>1 DEF Readables, Found
    <2> QED
      BY <1>5, <2>1 DEF EndInv, Found, Readables, Offsets, Readable, End, Framed,
                        IsSessionId, Length, HeaderLength, IsVendor
  <1> QED
    BY <1>6, <1>7, <1>8, <1>9 DEF ScanInv

LEMMA HopKeeps == ASSUME ScanInv, Hop PROVE ScanInv'
  <1>1. pos \in Nat /\ pos \in Offsets /\ pos + 4 \in Offsets
    BY ReadableWords DEF ScanInv, ScanTypeOK, PlaceInv, Hop
  <1>2. Length(pos) \in Nat
    BY <1>1, LengthIsNat DEF ScanInv
  <1> DEFINE n == Padded(Length(pos))
  <1>3. n \in Nat /\ n % 4 = 0
    BY <1>2, PaddedIsMultiple
  <1>4. pos' = pos + n
    BY DEF Hop
  <1> HIDE DEF n
  <1>5. ScanTypeOK'
    <2>1. pos' \in Nat
      BY <1>1, <1>3, <1>4
    <2>2. Offsets' = Offsets
      BY DEF Hop, Offsets
    <2> QED
      BY <2>1, <2>2 DEF ScanInv, ScanTypeOK, Hop
  <1>6. PlaceInv'
    <2>1. pos' % 4 = 0
      BY <1>1, <1>3, <1>4, SumOfMultiples DEF ScanInv, PlaceInv
    <2>2. pos' >= MessageHeader
      BY <1>1, <1>3, <1>4 DEF ScanInv, PlaceInv, MessageHeader
    <2> QED
      BY <2>1, <2>2 DEF ScanInv, PlaceInv, Hop
  <1>7. PathInv'
    <2>1. PICK s \in SUBSET Readables : Skipped(s) /\ Follows(s, pos)
      BY DEF ScanInv, PathInv, Hop
    <2>2. pos \in Readables /\ Framed(pos) /\ ~IsSessionId(pos)
      BY <1>1 DEF Readables, Hop
    <2>3. PICK t \in SUBSET Readables : Skipped(t) /\ Follows(t, pos + n)
      BY <2>1, <2>2, PathGoesOn DEF n
    <2>4. PICK q \in Nat : q = pos + n
      BY <1>1, <1>3
    <2>5. UNCHANGED <<size, msgLen, word>>
      BY DEF Hop
    <2>6. t \in SUBSET Readables' /\ Skipped(t)'
      BY <2>3, <2>5, SameMessageSamePath
    <2>7. Follows(t, q)'
      BY <2>3, <2>4, <2>5, SameMessageSamePath
    <2>8. Follows(t, pos)'
      BY <1>4, <2>4, <2>7 DEF Follows
    <2> QED
      BY <2>6, <2>8 DEF PathInv
  <1>8. EndInv'
    BY DEF ScanInv, EndInv, Hop
  <1> QED
    BY <1>5, <1>6, <1>7, <1>8 DEF ScanInv

LEMMA GiveUpKeeps == ASSUME ScanInv, GiveUp PROVE ScanInv'
  <1>1. ScanTypeOK'
    <2>1. Offsets' = Offsets
      BY DEF GiveUp, Offsets
    <2> QED
      BY <2>1 DEF ScanInv, ScanTypeOK, GiveUp
  <1>2. PlaceInv'
    BY DEF ScanInv, PlaceInv, GiveUp
  <1>3. PathInv'
    BY SameMessageSamePath DEF ScanInv, ScanTypeOK, PathInv, GiveUp
  <1>4. EndInv'
    BY DEF ScanInv, EndInv, GiveUp, Readables, Offsets, Readable, End, Framed,
           Length, HeaderLength, IsVendor
  <1> QED
    BY <1>1, <1>2, <1>3, <1>4 DEF ScanInv

LEMMA ReleaseKeeps == ASSUME ScanInv, Release PROVE ScanInv'
  <1>1. word' \in [Offsets' -> Words]
    BY DEF Release, Offsets, MessageHeader
  <1>2. MessageHeader % 4 = 0
    BY DEF MessageHeader
  <1> QED
    BY <1>1, <1>2 DEF Release, ScanInv, ScanTypeOK, PlaceInv, PathInv, EndInv,
                      NoValue, MessageHeader

LEMMA ScanUnchangedKeeps == ASSUME ScanInv, UNCHANGED scanvars PROVE ScanInv'
  <1> USE DEF scanvars
  <1>1. ScanTypeOK' /\ PlaceInv'
    BY DEF ScanInv, ScanTypeOK, PlaceInv, Offsets
  <1>2. PathInv'
    BY SameMessageSamePath DEF ScanInv, ScanTypeOK, PathInv
  <1>3. EndInv'
    BY DEF ScanInv, EndInv, Readables, Offsets, Readable, End, Framed,
           IsSessionId, Length, HeaderLength, IsVendor
  <1> QED
    BY <1>1, <1>2, <1>3 DEF ScanInv

\* Every step of the scan keeps its invariant.
LEMMA ScanStepKeeps == ASSUME ScanInv, [ScanNext]_scanvars PROVE ScanInv'
  BY TakeKeeps, FoundKeeps, HopKeeps, GiveUpKeeps, ReleaseKeeps,
     ScanUnchangedKeeps DEF ScanNext, ScanStep

\* What the invariant says of the bytes that are read, and of the value.
LEMMA ScanInvImplies == ASSUME ScanInv PROVE ReadsInside /\ ScanIsRight
  <1>1. ReadsInside
    BY ReadableWords DEF ScanInv, ScanTypeOK, PlaceInv, ReadsInside
  <1>2. ScanIsRight
    BY DEF ScanInv, PathInv, EndInv, ScanIsRight
  <1> QED
    BY <1>1, <1>2

\* Of the scan alone: it reads no byte beyond the buffer, and what it returns
\* is the first Session-Id that can be reached.
THEOREM ScanIsSafe == ScanSpec => [](ScanTypeOK /\ ReadsInside /\ ScanIsRight)
  <1>1. ScanInit => ScanInv
    BY ScanInitInv
  <1>2. ScanInv /\ [ScanNext]_scanvars => ScanInv'
    BY ScanStepKeeps
  <1>3. ScanInv => ScanTypeOK /\ ReadsInside /\ ScanIsRight
    BY ScanInvImplies DEF ScanInv
  <1> QED
    BY <1>1, <1>2, <1>3, PTL DEF ScanSpec

\* What a scan that goes on does to the distance it has still to go, in a
\* message that stays as it is.
GoesOn ==
    /\ UNCHANGED <<size, msgLen, word>>
    /\ \/ scan' = "done" /\ pos' = pos
       \/ scan' = "reading" /\ pos' >= pos + AvpHeader /\ pos' <= size + 3

LEMMA StepGoesOn ==
    ASSUME ScanInv, [ScanNext]_scanvars, scan = "reading"
    PROVE  GoesOn \/ UNCHANGED scanvars
  <1>1. CASE Hop
    <2>1. /\ pos \in Nat /\ pos + 4 \in Offsets /\ size \in Nat
          /\ Readable(pos) /\ Framed(pos)
      BY <1>1, ReadableWords, ScanAssumption DEF ScanInv, ScanTypeOK, PlaceInv, Hop
    <2>2. Length(pos) \in Nat
      BY <2>1, LengthIsNat DEF ScanInv
    <2>3. Length(pos) >= AvpHeader /\ pos + Length(pos) <= size
      <3>1. HeaderLength(pos) \in {AvpHeader, VendorAvpHeader}
        BY DEF HeaderLength
      <3> QED
        BY <2>1, <2>2, <3>1, FramedInside
        DEF ScanInv, Framed, AvpHeader, VendorAvpHeader
    <2> DEFINE n == Length(pos)
    <2>4. /\ pos' = pos + Padded(n)
          /\ UNCHANGED <<size, msgLen, word, scan>>
      BY <1>1 DEF Hop
    <2> HIDE DEF n
    <2>5. n \in Nat => Padded(n) \in Nat /\ Padded(n) >= n /\ Padded(n) <= n + 3
      BY DEF Padded
    <2>6. n \in Nat /\ n >= 8 /\ pos + n <= size
      BY <2>2, <2>3 DEF n, AvpHeader
    <2>7. pos' >= pos + 8 /\ pos' <= size + 3
      BY <2>1, <2>4, <2>5, <2>6
    <2> QED
      BY <2>4, <2>7 DEF GoesOn, AvpHeader
  <1>2. CASE Found \/ GiveUp
    BY <1>2 DEF Found, GiveUp, GoesOn
  <1>3. CASE UNCHANGED scanvars
    BY <1>3
  <1> QED
    BY <1>1, <1>2, <1>3 DEF ScanNext, ScanStep, Take, Release

\* So it is with every step of the scan.
LEMMA ScanGoesOn ==
    ScanInit /\ [][ScanNext]_scanvars => [][scan = "reading" => GoesOn]_scanvars
  <1>1. ScanInit => ScanInv
    BY ScanInitInv
  <1>2. ScanInv /\ [ScanNext]_scanvars => ScanInv'
    BY ScanStepKeeps
  <1>3. ScanInv /\ [ScanNext]_scanvars => [scan = "reading" => GoesOn]_scanvars
    BY StepGoesOn
  <1> QED
    BY <1>1, <1>2, <1>3, PTL

-----------------------------------------------------------------------------
(* Dictionaries *)

\* A set of application ids has a first one.
LEMMA LeastApp ==
    ASSUME NEW S \in SUBSET Nat, S # {}
    PROVE  \E n \in S : \A m \in S : n <= m
  <1> DEFINE R == OpToRel(<, Nat)
  <1>1. IsWellFoundedOn(R, Nat)
    BY NatLessThanWellFounded
  <1>2. \A x, y \in Nat : x < y => <<x, y>> \in R
    BY DEF OpToRel
  <1> HIDE DEF R
  <1>3. PICK x \in S : \A y \in S : <<y, x>> \notin R
    BY <1>1, WFMin
  <1>4. ASSUME NEW m \in S PROVE x <= m
    <2>1. x \in Nat /\ m \in Nat
      OBVIOUS
    <2>2. ~ m < x
      BY <1>2, <1>3, <2>1
    <2> QED
      BY <2>1, <2>2
  <1> QED
    BY <1>4

\* getDictionary returns a dictionary that was loaded, if there is any, and
\* that of the application if there is one.
LEMMA DictionaryIsLoaded ==
    ASSUME dictionaries \in DictionarySets, NEW app
    PROVE  /\ dictionaries # {} => Dictionary(app) \in dictionaries
           /\ dictionaries = {} => Dictionary(app) = NoDictionary
           /\ app \in dictionaries => Dictionary(app) = app
  <1>1. dictionaries \in SUBSET Nat
    BY TranslationAssumption
  <1>2. dictionaries # {} => \E n \in dictionaries : \A m \in dictionaries : n <= m
    BY <1>1, LeastApp
  <1> QED
    BY <1>2 DEF Dictionary

-----------------------------------------------------------------------------
(* Names *)

\* A number gets its name from the table all, and the name is read back from
\* the table back. Numbers in named, a part of both, come back as they were;
\* others have names that are not read back, and give 0.
LEMMA NameReadBack ==
    ASSUME NEW all, NEW back, NEW named, NEW n, NEW other,
           named \subseteq back, named \subseteq all,
           \A t, u \in back : t[1] = u[1] => t[2] = u[2],
           \A t \in back : t[1] # other,
           \A t \in all : t \in named \/ \A u \in back : u[1] # t[1],
           \A t \in named, u \in all : t[2] = u[2] => u \in named
    PROVE  NumberIn(back, NameIn(all, n, other)) =
               IF \E t \in named : t[2] = n THEN n ELSE 0
  <1> DEFINE s == NameIn(all, n, other)
  <1>1. CASE \E t \in named : t[2] = n
    <2>1. PICK t \in named : t[2] = n /\ s = <<t[1], 0>>
      BY <1>1 DEF NameIn
    <2>2. \A u \in back : <<u[1], 0>> = s => u[2] = n
      BY <2>1
    <2>3. <<t[1], 0>> = s /\ t \in back
      BY <2>1
    <2> HIDE DEF s
    <2>4. NumberIn(back, s) = n
      BY <2>1, <2>2, <2>3 DEF NumberIn
    <2> QED
      BY <1>1, <2>4 DEF s
  <1>2. CASE ~ \E t \in named : t[2] = n
    <2>1. \/ s = <<other, n>>
          \/ \E u \in all \ named : s = <<u[1], 0>>
      BY <1>2 DEF NameIn
    <2>2. \A t \in back : <<t[1], 0>> # s
      BY <2>1
    <2> HIDE DEF s
    <2>3. NumberIn(back, s) = 0
      BY <2>2 DEF NumberIn
    <2> QED
      BY <1>2, <2>3 DEF s
  <1> QED
    BY <1>1, <1>2

\* The URI of an inbound request reads back as UriNamesRequest says.
LEMMA PathReadBack ==
    ASSUME NEW app, NEW code, NEW session
    PROVE  LET p == ParseUri(InboundRequestPath(app, code, session))
               oneOf(table, n) == \E t \in table : t[2] = n
           IN  /\ p.app = IF oneOf(Interfaces, app) THEN app ELSE 0
               /\ p.command = IF oneOf(Requests, code) THEN code ELSE 0
  <1> DEFINE u == InboundRequestPath(app, code, session)
  <1>1. NumberIn(Interfaces, AppIdToInterface(app)) =
            IF \E t \in Interfaces : t[2] = app THEN app ELSE 0
    <2>1. /\ \A t, v \in Interfaces : t[1] = v[1] => t[2] = v[2]
          /\ \A t \in Interfaces : t[1] # "app-"
      BY DEF Interfaces
    <2>2. NumberIn(Interfaces, NameIn(Interfaces, app, "app-")) =
              IF \E t \in Interfaces : t[2] = app THEN app ELSE 0
      BY <2>1, NameReadBack
    <2> QED
      BY <2>2 DEF AppIdToInterface
  <1>2. NumberIn(Requests \cup Answers, CommandCodeToName(code)) =
            IF \E t \in Requests : t[2] = code THEN code ELSE 0
    <2> DEFINE back == Requests \cup Answers
               all == Requests \cup BaseRequests
    <2>1. \A t, v \in back : t[1] = v[1] => t[2] = v[2]
      BY DEF Requests, Answers
    <2>2. \A t \in back : t[1] # "CMD-"
      BY DEF Requests, Answers
    <2>3. \A t \in all : t \in Requests \/ \A v \in back : v[1] # t[1]
      BY DEF Requests, Answers, BaseRequests
    <2>4. \A t \in Requests, v \in all : t[2] = v[2] => v \in Requests
      BY DEF Requests, BaseRequests
    <2>5. Requests \subseteq back /\ Requests \subseteq all
      OBVIOUS
    <2> HIDE DEF back, all
    <2>6. NumberIn(back, NameIn(all, code, "CMD-")) =
              IF \E t \in Requests : t[2] = code THEN code ELSE 0
      BY <2>1, <2>2, <2>3, <2>4, <2>5, NameReadBack
    <2> QED
      BY <2>6 DEF CommandCodeToName, back, all
  <1>3. Len(u) >= 3 /\ u[2] = AppIdToInterface(app) /\ u[3] = CommandCodeToName(code)
    <2> DEFINE base == <<<<"diameter", 0>>, AppIdToInterface(app),
                         CommandCodeToName(code)>>
               rest == IF session THEN <<<<"Session-Id", 0>>>> ELSE <<>>
    <2>1. u = base \o rest
      BY DEF InboundRequestPath
    <2>2. CASE session
      BY <2>1, <2>2
    <2>3. CASE ~session
      BY <2>1, <2>3
    <2> QED
      BY <2>2, <2>3
  <1> QED
    BY <1>1, <1>2, <1>3 DEF ParseUri

-----------------------------------------------------------------------------
(* The invariant *)

\* A message that is being scanned has not been translated, and a translation
\* begins with nothing kept.
IdleInv ==
    /\ scan # "none" => stage = "idle"
    /\ stage = "idle" => coded = NoDictionary /\ answerCoded = NoDictionary
    /\ stage = "forwarded" => answerCoded = NoDictionary

TranslationInv ==
    /\ dictionaries \in DictionarySets
    /\ IdleInv
    /\ UriNamesRequest
    /\ OwnDictionary
    /\ AnswersCorrelate
    /\ SilentOnlyWithoutDictionary

LEMMA TranslationInitInv == ASSUME TranslationInit PROVE TranslationInv
  BY DEF TranslationInit, ScanInit, TranslationInv, IdleInv, UriNamesRequest,
         OwnDictionary, AnswersCorrelate, SilentOnlyWithoutDictionary

\* Steps of the translation leave the scan alone or are its steps.
LEMMA ScanSimulated ==
    ASSUME [TranslationNext]_tvars PROVE [ScanNext]_scanvars
  BY DEF TranslationNext, tvars, Receive, Scan, Forward, RefuseAtOnce,
         AnswerNothing, AnswerRaw, AnswerBuilt, PostRaw, PostWithHeader, PostPlain,
         SendOutbound, PostRefused, Done, ScanNext

\* What Answer makes of a message that is answered with one of its own
\* dictionaries, or with none.
LEMMA AnswerKeeps ==
    ASSUME TranslationInv, UNCHANGED dictionaries, answerCoded = NoDictionary,
           NEW h, NEW d \in {Dictionary(message'.app), NoDictionary}, NEW g,
           Answer(h, d, g),
           scan' = "none",
           message'.app \in dictionaries =>
               coded' \in {message'.app, NoDictionary},
           g \in {"nothing", "plain"} => h = message',
           g = "nothing" => d = Dictionary(message'.app),
           g = "raw" => /\ h.hop = 0 => message'.hop = 0
                        /\ h.e2e = 0 => message'.e2e = 0
    PROVE  TranslationInv'
  <1> USE DEF TranslationInv
  <1>1. /\ dictionaries # {} => Dictionary(message'.app) \in dictionaries
        /\ message'.app \in dictionaries => Dictionary(message'.app) = message'.app
    BY DictionaryIsLoaded
  <1>2. stage' \in {"silent", "answered"}
    BY DEF Answer
  <1>3. IdleInv' /\ UriNamesRequest'
    BY <1>2 DEF IdleInv, UriNamesRequest
  <1>4. OwnDictionary'
    <2>1. answerCoded' \in {d, NoDictionary}
      BY DEF Answer
    <2> QED
      BY <1>1, <2>1 DEF OwnDictionary
  <1>5. AnswersCorrelate'
    BY DEF Answer, AnswersCorrelate
  <1>6. SilentOnlyWithoutDictionary'
    BY <1>1 DEF Answer, SilentOnlyWithoutDictionary
  <1> QED
    BY <1>3, <1>4, <1>5, <1>6

LEMMA InboundKeeps ==
    ASSUME TranslationInv,
           \/ Receive \/ Scan \/ AnswerNothing
           \/ \E h \in Headers :
               \/ Forward(h) \/ RefuseAtOnce(h) \/ AnswerRaw(h)
               \/ \E g \in {"plain", "header"} : AnswerBuilt(h, g)
    PROVE  TranslationInv'
  <1>1. CASE Receive \/ Scan
    BY <1>1 DEF TranslationInv, Receive, Take, Scan, ScanStep, Found, Hop, GiveUp,
                msgvars, IdleInv, UriNamesRequest, OwnDictionary,
                AnswersCorrelate, SilentOnlyWithoutDictionary
  <1>2. ASSUME NEW h \in Headers, Forward(h) PROVE TranslationInv'
    <2>1. h.app \in dictionaries => Dictionary(h.app) = h.app
      BY DictionaryIsLoaded DEF TranslationInv
    <2>2. stage = "idle" /\ scan' = "none"
      BY <1>2 DEF TranslationInv, IdleInv, Forward, Release
    <2>3. UriNamesRequest'
      <3>1. /\ uri' = InboundRequestPath(h.app, h.command, SessionIdFound)
            /\ message' = h
        BY <1>2 DEF Forward
      <3> QED
        BY <3>1, PathReadBack DEF UriNamesRequest
    <2>4. OwnDictionary'
      BY <1>2, <2>1, <2>2 DEF TranslationInv, IdleInv, Forward, OwnDictionary
    <2> QED
      BY <1>2, <2>2, <2>3, <2>4 DEF TranslationInv, IdleInv, Forward,
         AnswersCorrelate, SilentOnlyWithoutDictionary
  <1>3. ASSUME NEW h \in Headers, RefuseAtOnce(h) PROVE TranslationInv'
    <2>1. stage = "idle" /\ scan' = "none"
      BY <1>3 DEF TranslationInv, IdleInv, RefuseAtOnce, Release
    <2>2. message' = h /\ coded' = NoDictionary /\ answerCoded = NoDictionary
      BY <1>3, <2>1 DEF TranslationInv, IdleInv, RefuseAtOnce
    <2> QED
      BY <1>3, <2>1, <2>2, AnswerKeeps DEF RefuseAtOnce
  <1>4. CASE stage = "forwarded" /\ UNCHANGED <<scanvars, dictionaries, message, coded>>
    <2>1. scan' = "none" /\ answerCoded = NoDictionary
      BY <1>4 DEF TranslationInv, IdleInv, scanvars
    <2>2. message'.app \in dictionaries => coded' \in {message'.app, NoDictionary}
      BY <1>4 DEF TranslationInv, OwnDictionary
    <2>3. ASSUME AnswerNothing PROVE TranslationInv'
      BY <1>4, <2>1, <2>2, <2>3, AnswerKeeps DEF AnswerNothing
    <2>4. ASSUME NEW h \in Headers, AnswerRaw(h) PROVE TranslationInv'
      <3>1. /\ Filled(h).hop = 0 => message.hop = 0
            /\ Filled(h).e2e = 0 => message.e2e = 0
        BY DEF Filled, Headers
      <3> QED
        BY <1>4, <2>1, <2>2, <2>4, <3>1, AnswerKeeps DEF AnswerRaw
    <2>5. ASSUME NEW h \in Headers, NEW g \in {"plain", "header"}, AnswerBuilt(h, g)
          PROVE  TranslationInv'
      BY <1>4, <2>1, <2>2, <2>5, AnswerKeeps DEF AnswerBuilt
    <2> QED
      BY <1>1, <1>2, <1>3, <2>3, <2>4, <2>5
  <1> QED
    BY <1>1, <1>2, <1>3, <1>4 DEF AnswerNothing, AnswerRaw, AnswerBuilt

LEMMA OutboundKeeps ==
    ASSUME TranslationInv,
           \/ PostRefused \/ Done
           \/ \E u \in Uris :
               \/ PostPlain(u)
               \/ \E h \in Headers : PostRaw(u, h) \/ PostWithHeader(u, h)
    PROVE  TranslationInv'
  <1>1. CASE PostRefused \/ Done
    BY <1>1 DEF TranslationInv, PostRefused, Done, scanvars, NoHeader, IdleInv,
                UriNamesRequest, OwnDictionary, AnswersCorrelate,
                SilentOnlyWithoutDictionary
  <1>2. ASSUME NEW u, NEW h, NEW d \in {Dictionary(h.app), NoDictionary},
               stage = "idle", scan = "none", SendOutbound(u, h, d, h.app)
        PROVE  TranslationInv'
    <2>1. h.app \in dictionaries => Dictionary(h.app) = h.app
      BY DictionaryIsLoaded DEF TranslationInv
    <2>2. OwnDictionary'
      BY <1>2, <2>1 DEF SendOutbound, OwnDictionary
    <2> QED
      BY <1>2, <2>2 DEF TranslationInv, SendOutbound, scanvars, IdleInv,
         UriNamesRequest, AnswersCorrelate, SilentOnlyWithoutDictionary
  <1>3. ASSUME NEW u \in Uris, PostPlain(u) PROVE TranslationInv'
    BY <1>2, <1>3 DEF PostPlain
  <1>4. ASSUME NEW u \in Uris, NEW h \in Headers,
               PostRaw(u, h) \/ PostWithHeader(u, h)
        PROVE  TranslationInv'
    BY <1>2, <1>4 DEF PostRaw, PostWithHeader
  <1> QED
    BY <1>1, <1>3, <1>4

LEMMA TranslationUnchangedKeeps ==
    ASSUME TranslationInv, UNCHANGED tvars PROVE TranslationInv'
  BY DEF TranslationInv, tvars, scanvars, msgvars, IdleInv, UriNamesRequest,
         OwnDictionary, AnswersCorrelate, SilentOnlyWithoutDictionary

LEMMA TranslationStepKeeps ==
    ASSUME TranslationInv, [TranslationNext]_tvars PROVE TranslationInv'
  BY InboundKeeps, OutboundKeeps, TranslationUnchangedKeeps DEF TranslationNext

-----------------------------------------------------------------------------
(* Types *)

\* The tables hold names and numbers, and every name has its segments.
LEMMA TablesAreTyped ==
    \A t \in Interfaces \cup Requests \cup BaseRequests \cup Answers :
        /\ t[2] \in Nat
        /\ \A n \in Nat : <<t[1], n>> \in Segment
  <1>1. Gx \in Nat /\ Rx \in Nat /\ Sy \in Nat /\ Cc \in Nat
    BY SMT DEF Gx, Rx, Sy, Cc
  <1>2. \A t \in Interfaces : t[2] \in Nat
    BY <1>1 DEF Interfaces
  <1>3. \A t \in Requests \cup BaseRequests \cup Answers : t[2] \in Nat
    BY SMT DEF Requests, BaseRequests, Answers
  <1>4. \A t \in Interfaces \cup Requests \cup BaseRequests \cup Answers :
            t[1] \in Names
    BY DEF Names
  <1> QED
    BY <1>2, <1>3, <1>4 DEF Segment

\* A name is a segment, and a number read from a segment is one.
LEMMA NamesAreTyped ==
    ASSUME NEW table,
           table \subseteq Interfaces \cup Requests \cup BaseRequests \cup Answers
    PROVE  /\ \A n \in Nat, o \in {"app-", "CMD-"} : NameIn(table, n, o) \in Segment
           /\ \A segment : NumberIn(table, segment) \in Nat
  <1>1. ASSUME NEW n \in Nat, NEW o \in {"app-", "CMD-"}
        PROVE  NameIn(table, n, o) \in Segment
    <2>1. <<o, n>> \in Segment
      BY DEF Segment
    <2>2. CASE \E t \in table : t[2] = n
      <3>1. PICK t \in table : NameIn(table, n, o) = <<t[1], 0>>
        BY <2>2 DEF NameIn
      <3> QED
        BY <3>1, TablesAreTyped
    <2>3. CASE ~ \E t \in table : t[2] = n
      BY <2>1, <2>3 DEF NameIn
    <2> QED
      BY <2>2, <2>3
  <1>2. ASSUME NEW segment PROVE NumberIn(table, segment) \in Nat
    BY TablesAreTyped DEF NumberIn
  <1> QED
    BY <1>1, <1>2

LEMMA PathIsTyped ==
    ASSUME NEW h \in Headers, NEW session
    PROVE  InboundRequestPath(h.app, h.command, session) \in Seq(Segment)
  <1> DEFINE first == <<"diameter", 0>>
             interface == AppIdToInterface(h.app)
             command == CommandCodeToName(h.command)
             last == <<"Session-Id", 0>>
  <1>1. h.app \in Nat /\ h.command \in Nat
    BY TranslationAssumption DEF Headers
  <1>2. interface \in Segment
    BY <1>1, NamesAreTyped DEF AppIdToInterface
  <1>3. command \in Segment
    BY <1>1, NamesAreTyped DEF CommandCodeToName
  <1>4. first \in Segment /\ last \in Segment
    BY DEF Segment
  <1> HIDE DEF first, interface, command, last
  <1>5. <<first, interface, command>> \in Seq(Segment)
    BY <1>2, <1>3, <1>4
  <1>6. (IF session THEN <<last>> ELSE <<>>) \in Seq(Segment)
    BY <1>4
  <1> QED
    BY <1>5, <1>6 DEF InboundRequestPath, first, interface, command, last

LEMMA TranslationTypeInit ==
    ASSUME TranslationInit, ScanInv PROVE TranslationTypeOK
  <1>1. NoHeader \in Header
    BY TranslationAssumption DEF NoHeader, Header
  <1> QED
    BY <1>1 DEF TranslationInit, TranslationTypeOK, ScanInv

\* Answers are typed, whatever they are made of.
LEMMA AnswerTyped ==
    ASSUME TranslationTypeOK, NEW h \in Header,
           NEW d \in dictionaries \cup {NoDictionary},
           NEW g \in {"nothing", "plain", "header", "raw"}, Answer(h, d, g)
    PROVE  /\ stage' \in {"silent", "answered"}
           /\ answer' \in Header
           /\ given' \in {"nothing", "plain", "header", "raw"}
           /\ answerCoded' \in dictionaries \cup {NoDictionary}
  BY DEF TranslationTypeOK, Answer

LEMMA TranslationTypeKeeps ==
    ASSUME TranslationTypeOK, ScanInv', [TranslationNext]_tvars
    PROVE  TranslationTypeOK'
  <1> USE DEF TranslationTypeOK
  <1>1. ScanTypeOK'
    BY DEF ScanInv
  <1>2. Headers \subseteq Header
    BY TranslationAssumption DEF Headers, Header
  <1>3. \A app : Dictionary(app) \in dictionaries \cup {NoDictionary}
    BY DictionaryIsLoaded
  <1>4. CASE Receive \/ Scan \/ PostRefused
    BY <1>1, <1>4 DEF Receive, Scan, PostRefused, msgvars
  <1>5. CASE Done
    <2>1. NoHeader \in Header
      BY TranslationAssumption DEF NoHeader, Header
    <2> QED
      BY <1>1, <1>5, <2>1 DEF Done
  <1>6. ASSUME NEW h \in Headers, Forward(h) PROVE TranslationTypeOK'
    BY <1>1, <1>2, <1>3, <1>6, PathIsTyped DEF Forward
  <1>7. ASSUME NEW h \in Headers, RefuseAtOnce(h) PROVE TranslationTypeOK'
    BY <1>1, <1>2, <1>3, <1>7, AnswerTyped DEF RefuseAtOnce
  <1>8. CASE AnswerNothing
    BY <1>1, <1>3, <1>8, AnswerTyped DEF AnswerNothing
  <1>9. ASSUME NEW h \in Headers, AnswerRaw(h) PROVE TranslationTypeOK'
    <2>1. Filled(h) \in Header
      BY <1>2 DEF Filled, Header
    <2> QED
      BY <1>1, <1>9, <2>1, AnswerTyped DEF AnswerRaw
  <1>10. ASSUME NEW h \in Headers, NEW g \in {"plain", "header"}, AnswerBuilt(h, g)
         PROVE  TranslationTypeOK'
    BY <1>1, <1>2, <1>3, <1>10, AnswerTyped DEF AnswerBuilt
  <1>11. ASSUME NEW u \in Uris, NEW h \in Header,
                NEW d \in dictionaries \cup {NoDictionary}, NEW app,
                given' \in {"plain", "header", "raw"}, SendOutbound(u, h, d, app)
         PROVE  TranslationTypeOK'
    BY <1>1, <1>3, <1>11, TranslationAssumption DEF SendOutbound
  <1>12. ASSUME NEW u \in Uris, PostPlain(u) PROVE TranslationTypeOK'
    <2> DEFINE p == ParseUri(u)
               h == [app |-> p.app, command |-> p.command, hop |-> 0, e2e |-> 0]
    <2>1. p.app \in Nat /\ p.command \in Nat
      <3>1. /\ NumberIn(Interfaces, u[2]) \in Nat
            /\ NumberIn(Requests \cup Answers, u[3]) \in Nat
        BY NamesAreTyped
      <3> QED
        BY <3>1 DEF ParseUri
    <2>2. h \in Header
      BY <2>1, TranslationAssumption DEF Header
    <2>3. SendOutbound(u, h, Dictionary(p.app), p.app) /\ given' = "plain"
      BY <1>12 DEF PostPlain
    <2> HIDE DEF h, p
    <2> QED
      BY <1>3, <1>11, <2>2, <2>3
  <1>13. ASSUME NEW u \in Uris, NEW h \in Headers,
                PostRaw(u, h) \/ PostWithHeader(u, h)
         PROVE  TranslationTypeOK'
    <2>1. PICK d \in dictionaries \cup {NoDictionary} : SendOutbound(u, h, d, h.app)
      BY <1>3, <1>13 DEF PostRaw, PostWithHeader
    <2>2. given' \in {"plain", "header", "raw"} /\ h \in Header
      BY <1>2, <1>13 DEF PostRaw, PostWithHeader
    <2> QED
      BY <1>11, <2>1, <2>2
  <1>14. CASE UNCHANGED tvars
    BY <1>1, <1>14 DEF tvars, msgvars
  <1> QED
    BY <1>4, <1>5, <1>6, <1>7, <1>8, <1>9, <1>10, <1>12, <1>13, <1>14
       DEF TranslationNext

-----------------------------------------------------------------------------
(* Theorems *)

LEMMA TranslationHolds ==
    TranslationSpec => [](ScanInv /\ TranslationInv)
  <1>1. TranslationInit => ScanInv /\ TranslationInv
    BY ScanInitInv, TranslationInitInv DEF TranslationInit
  <1>2. ScanInv /\ TranslationInv /\ [TranslationNext]_tvars
            => (ScanInv /\ TranslationInv)'
    BY ScanSimulated, ScanStepKeeps, TranslationStepKeeps
  <1> QED
    BY <1>1, <1>2, PTL DEF TranslationSpec

\* The variables of the scan and of the translation have their types.
THEOREM TranslationTypeCorrect == TranslationSpec => []TranslationTypeOK
  <1>1. TranslationInit => ScanInv /\ TranslationTypeOK
    BY ScanInitInv, TranslationTypeInit DEF TranslationInit
  <1>2. ScanInv /\ TranslationTypeOK /\ [TranslationNext]_tvars
            => (ScanInv /\ TranslationTypeOK)'
    BY ScanSimulated, ScanStepKeeps, TranslationTypeKeeps
  <1> QED
    BY <1>1, <1>2, PTL DEF TranslationSpec

\* Whatever lengths the AVPs of a message tell, the scan for its Session-Id
\* reads no byte beyond what was received.
THEOREM ScanStaysInside == TranslationSpec => []ReadsInside
  <1>1. ScanInv => ReadsInside
    BY ScanInvImplies
  <1> QED
    BY <1>1, TranslationHolds, PTL

\* The scan returns the first Session-Id that can be reached over well framed
\* AVPs, and nothing otherwise.
THEOREM ScanFindsSessionId == TranslationSpec => []ScanIsRight
  <1>1. ScanInv => ScanIsRight
    BY ScanInvImplies
  <1> QED
    BY <1>1, TranslationHolds, PTL

\* The URI of an inbound request, posted back, never names another message.
THEOREM UrisReadBack == TranslationSpec => []UriNamesRequest
  <1>1. TranslationInv => UriNamesRequest
    BY DEF TranslationInv
  <1> QED
    BY <1>1, TranslationHolds, PTL

\* No message of an application that has a dictionary is translated by
\* another one.
THEOREM DictionaryIsOwn == TranslationSpec => []OwnDictionary
  <1>1. TranslationInv => OwnDictionary
    BY DEF TranslationInv
  <1> QED
    BY <1>1, TranslationHolds, PTL

\* The ids of an answer are those of its request, unless h2agent decides.
THEOREM AnswerIdsAreRequests == TranslationSpec => []AnswersCorrelate
  <1>1. TranslationInv => AnswersCorrelate
    BY DEF TranslationInv
  <1> QED
    BY <1>1, TranslationHolds, PTL

\* Only a gateway without any dictionary leaves a request without an answer.
THEOREM SilenceMeansNoDictionary ==
    TranslationSpec => []SilentOnlyWithoutDictionary
  <1>1. TranslationInv => SilentOnlyWithoutDictionary
    BY DEF TranslationInv
  <1> QED
    BY <1>1, TranslationHolds, PTL

\* What the translation makes of the scan's result leaves the scan alone: its
\* scan is SessionIdScan's.
THEOREM ScanIsReused == TranslationSpec => ScanInit /\ [][ScanNext]_scanvars
  <1>1. TranslationInit => ScanInit
    BY DEF TranslationInit
  <1> QED
    BY <1>1, ScanSimulated, PTL DEF TranslationSpec

\* Whatever lengths it hops by, a scan that goes on leaves at least a header
\* behind with every hop, and never gets further than the padding of the last
\* AVP: it is through after (size - 20) / 8 + 2 steps at the most. That these
\* steps are taken is ScanEnds.
THEOREM ScanGoesForward ==
    TranslationSpec => [][scan = "reading" => GoesOn]_scanvars
  BY ScanIsReused, ScanGoesOn, PTL
=============================================================================
