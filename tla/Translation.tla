----------------------------- MODULE Translation -----------------------------
(***************************************************************************)
(* What the gateway makes of a message: the URI it posts an inbound request*)
(* to, the header and the dictionary of the answer built of h2agent's      *)
(* response, the header and the dictionary of an outbound request.         *)
(*                                                                         *)
(* Messages do not share any state, so there is one at a time. That they   *)
(* wait for each other's threads, timers and connections is the subject of *)
(* InboundForward and OutboundSend.                                        *)
(***************************************************************************)
EXTENDS SessionIdScan, Integers, Sequences

CONSTANTS
    Apps,             \* application ids of messages
    Codes,            \* command codes
    Ids,              \* hop-by-hop and end-to-end ids
    DictionarySets,   \* application ids of the dictionaries that were loaded
    Complete,         \* dictionaries that know the AVPs of a 5012 answer
    Uris              \* URIs h2agent posts to, without a query, split at "/"

-----------------------------------------------------------------------------
(* Names *)

Gx == 16777238
Rx == 16777236
Sy == 16777302
Cc == 4

\* Names that are the same in both directions.
Interfaces == {<<"gx", Gx>>, <<"rx", Rx>>, <<"sy", Sy>>, <<"cc", Cc>>}
Requests == {<<"RAR", 258>>, <<"AAR", 265>>, <<"ACR", 271>>, <<"CCR", 272>>,
             <<"ASR", 274>>, <<"STR", 275>>, <<"SNR", 300>>}

\* Names of what is received only, and of what is posted only.
BaseRequests == {<<"CER", 257>>, <<"DWR", 280>>, <<"DPR", 282>>}
Answers == {<<"RAA", 258>>, <<"AAA", 265>>, <<"ACA", 271>>, <<"CCA", 272>>,
            <<"ASA", 274>>, <<"STA", 275>>, <<"SNA", 300>>}

Names == {t[1] : t \in Interfaces \cup Requests \cup BaseRequests \cup Answers}

\* A segment of a URI is a text, and a number if it goes on with one.
Segment == (Names \cup {"diameter", "app-", "CMD-", "Session-Id", "another"}) \X Nat

ASSUME TranslationAssumption ==
    /\ Apps \subseteq Nat
    /\ Codes \subseteq Nat
    /\ 0 \in Ids /\ Ids \subseteq Nat
    /\ DictionarySets \subseteq SUBSET Nat
    /\ Complete \subseteq Nat
    /\ Uris \subseteq Seq(Segment)

Header == [app : Nat, command : Nat, hop : Ids, e2e : Ids]

NoHeader == [app |-> 0, command |-> 0, hop |-> 0, e2e |-> 0]

\* None at all, or the empty one of a gateway that has loaded none.
NoDictionary == -1

VARIABLES
    dictionaries,  \* application ids with a dictionary
    stage,         \* how far the message is
    uri,           \* where it is posted to
    message,       \* the header of the request
    coded,         \* the dictionary it was decoded or encoded with
    answer,        \* the header of its answer
    given,         \* what the answer is made of
    answerCoded    \* the dictionary its answer is encoded or decoded with

msgvars == <<stage, uri, message, coded, answer, given, answerCoded>>
tvars == <<scanvars, dictionaries, msgvars>>

TranslationTypeOK ==
    /\ ScanTypeOK
    /\ dictionaries \in DictionarySets
    /\ stage \in {"idle", "forwarded", "answered", "silent", "refused", "sent"}
    /\ uri \in Seq(Segment)
    /\ message \in Header
    /\ coded \in dictionaries \cup {NoDictionary}
    /\ answer \in Header
    /\ given \in {"nothing", "plain", "header", "raw"}
    /\ answerCoded \in dictionaries \cup {NoDictionary}

\* start() loads what can be opened before it makes a leg. A dictionary that
\* does not tell its application-id has 0.
TranslationInit ==
    /\ ScanInit
    /\ dictionaries \in DictionarySets
    /\ stage = "idle"
    /\ uri = <<>>
    /\ message = NoHeader
    /\ coded = NoDictionary
    /\ answer = NoHeader
    /\ given = "nothing"
    /\ answerCoded = NoDictionary

-----------------------------------------------------------------------------
(* Dictionaries, and the way from numbers to names and back *)

NameIn(table, number, otherwise) ==
    IF \E t \in table : t[2] = number
    THEN <<(CHOOSE t \in table : t[2] = number)[1], 0>>
    ELSE <<otherwise, number>>

NumberIn(table, segment) ==
    IF \E t \in table : <<t[1], 0>> = segment
    THEN (CHOOSE t \in table : <<t[1], 0>> = segment)[2]
    ELSE 0

AppIdToInterface(app) == NameIn(Interfaces, app, "app-")
CommandCodeToName(code) == NameIn(Requests \cup BaseRequests, code, "CMD-")

\* inboundRequestPath: the encoded Session-Id has no "/", so it is one segment.
InboundRequestPath(app, code, session) ==
    <<<<"diameter", 0>>, AppIdToInterface(app), CommandCodeToName(code)>>
    \o (IF session THEN <<<<"Session-Id", 0>>>> ELSE <<>>)

\* Mutated, for UriNamesRequest: the command is the last segment.
ParseUriFromEnd(u) ==
    IF Len(u) < 3 THEN [app |-> 0, command |-> 0]
    ELSE [app |-> NumberIn(Interfaces, u[2]),
          command |-> NumberIn(Requests \cup Answers, u[Len(u)])]

\* parseUri: what follows the command is ignored, and what is unknown is 0.
ParseUri(u) ==
    IF Len(u) < 3 THEN [app |-> 0, command |-> 0]
    ELSE [app |-> NumberIn(Interfaces, u[2]),
          command |-> NumberIn(Requests \cup Answers, u[3])]

\* Mutated, for TranslationTypeOK: the one of 0 is taken to be there.
DictionaryOrBase(app) ==
    IF app \in dictionaries THEN app ELSE 0

\* getDictionary: that of the application, or else that of 0, or else the
\* first one in the map, which is sorted: that of 0 is the first one anyway.
Dictionary(app) ==
    IF dictionaries = {} THEN NoDictionary
    ELSE IF app \in dictionaries THEN app
    ELSE CHOOSE d \in dictionaries : \A e \in dictionaries : d <= e

-----------------------------------------------------------------------------
(* Inbound *)

\* onDiameterRequest gets a request of at least a header.
Receive ==
    /\ stage = "idle"
    /\ Take
    /\ UNCHANGED <<dictionaries, msgvars>>

Scan ==
    /\ ScanStep
    /\ UNCHANGED <<dictionaries, msgvars>>

\* An empty Session-Id is as good as none.
SessionIdFound == value[1] < value[2]

\* A message that its dictionary cannot decode is forwarded as it is.
Forward(h) ==
    /\ Release
    /\ stage' = "forwarded"
    /\ uri' = InboundRequestPath(h.app, h.command, SessionIdFound)
    /\ message' = h
    /\ coded' \in {Dictionary(h.app), NoDictionary}
    /\ UNCHANGED <<dictionaries, answer, given, answerCoded>>

\* Mutated, for SilentOnlyWithoutDictionary: the 5012 has the dictionary 0.
AnswerWithBase(h, d, g) ==
    IF g = "nothing" /\ 0 \notin Complete \cap dictionaries
    THEN /\ stage' = "silent"
         /\ UNCHANGED <<answer, given, answerCoded>>
    ELSE /\ stage' = "answered"
         /\ answer' = h
         /\ given' = g
         /\ answerCoded' = d

\* sendUnableToComply if nothing else is given: only logged if it cannot be
\* encoded.
Answer(h, d, g) ==
    IF g = "nothing" /\ d \notin Complete
    THEN /\ stage' = "silent"
         /\ UNCHANGED <<answer, given, answerCoded>>
    ELSE /\ stage' = "answered"
         /\ answer' = h
         /\ given' = g
         /\ answerCoded' = d

\* h2agent is not connected; the request is not kept.
RefuseAtOnce(h) ==
    /\ Release
    /\ message' = h
    /\ Answer(h, Dictionary(h.app), "nothing")
    /\ UNCHANGED <<dictionaries, uri, coded>>

\* Mutated, for AnswersCorrelate: ids are filled only if none is given.
FilledTogether(h) ==
    IF h.hop = 0 /\ h.e2e = 0
    THEN [h EXCEPT !.hop = message.hop, !.e2e = message.e2e] ELSE h

\* rawMessageFromHex: each id is kept unless it is 0.
Filled(h) ==
    [h EXCEPT !.hop = IF @ = 0 THEN message.hop ELSE @,
              !.e2e = IF @ = 0 THEN message.e2e ELSE @]

\* No usable response in time: refused, late, not 200, empty, or no answer
\* can be built of it.
AnswerNothing ==
    /\ stage = "forwarded"
    /\ Answer(message, Dictionary(message.app), "nothing")
    /\ UNCHANGED <<scanvars, dictionaries, uri, message, coded>>

\* _raw: sent as it is, without any dictionary.
AnswerRaw(h) ==
    /\ stage = "forwarded"
    /\ Answer(Filled(h), NoDictionary, "raw")
    /\ UNCHANGED <<scanvars, dictionaries, uri, message, coded>>

\* The header of the response, used as it is, or that of the request.
AnswerBuilt(h, g) ==
    /\ stage = "forwarded"
    /\ g = "plain" => h = message
    /\ Answer(h, Dictionary(message.app), g)
    /\ UNCHANGED <<scanvars, dictionaries, uri, message, coded>>

-----------------------------------------------------------------------------
(* Outbound *)

\* sendOutbound, with the application whose dictionary will decode the answer.
SendOutbound(u, h, d, app) ==
    /\ stage' = "sent"
    /\ uri' = u
    /\ message' = h
    /\ coded' = d
    /\ answerCoded' = Dictionary(app)
    /\ UNCHANGED <<scanvars, dictionaries, answer>>

PostRaw(u, h) ==
    /\ stage = "idle" /\ scan = "none"
    /\ given' = "raw"
    /\ SendOutbound(u, h, NoDictionary, h.app)

\* Mutated, for OwnDictionary: only a URI tells the application.
PostDefaultDictionary(u, h) ==
    /\ stage = "idle" /\ scan = "none"
    /\ given' = "header"
    /\ SendOutbound(u, h, Dictionary(0), 0)

PostWithHeader(u, h) ==
    /\ stage = "idle" /\ scan = "none"
    /\ given' = "header"
    /\ SendOutbound(u, h, Dictionary(h.app), h.app)

\* The ids are 0: the Diameter client assigns them.
PostPlain(u) ==
    /\ stage = "idle" /\ scan = "none"
    /\ given' = "plain"
    /\ LET p == ParseUri(u)
       IN  SendOutbound(u, [app |-> p.app, command |-> p.command, hop |-> 0,
                            e2e |-> 0], Dictionary(p.app), p.app)

\* 400: what is posted cannot be parsed or encoded.
PostRefused ==
    /\ stage = "idle" /\ scan = "none"
    /\ stage' = "refused"
    /\ UNCHANGED <<scanvars, dictionaries, uri, message, coded, answer, given,
                   answerCoded>>

\* The handler is through and what it kept is freed.
Done ==
    /\ stage \in {"answered", "silent", "refused", "sent"}
    /\ stage' = "idle"
    /\ uri' = <<>>
    /\ message' = NoHeader
    /\ coded' = NoDictionary
    /\ answer' = NoHeader
    /\ given' = "nothing"
    /\ answerCoded' = NoDictionary
    /\ UNCHANGED <<scanvars, dictionaries>>

Headers == [app : Apps, command : Codes, hop : Ids, e2e : Ids]

TranslationNext ==
    \/ Receive \/ Scan \/ AnswerNothing \/ PostRefused \/ Done
    \/ \E h \in Headers :
        \/ Forward(h) \/ RefuseAtOnce(h) \/ AnswerRaw(h)
        \/ \E g \in {"plain", "header"} : AnswerBuilt(h, g)
    \/ \E u \in Uris :
        \/ PostPlain(u)
        \/ \E h \in Headers : PostRaw(u, h) \/ PostWithHeader(u, h)

TranslationSpec ==
    TranslationInit /\ [][TranslationNext]_tvars /\ WF_tvars(Scan)

-----------------------------------------------------------------------------
(* Properties *)

\* Posted back to the gateway, the URI of an inbound request names the same
\* application and command, with and without a Session-Id behind them; or
\* nothing, where only one direction has a name: never another message.
UriNamesRequest ==
    stage = "forwarded" =>
        LET p == ParseUri(uri)
            oneOf(table, n) == \E t \in table : t[2] = n
        IN  /\ p.app = IF oneOf(Interfaces, message.app) THEN message.app ELSE 0
            /\ p.command = IF oneOf(Requests, message.command)
                           THEN message.command ELSE 0

\* README.md, 753, of a request: it is decoded or encoded with the dictionary of
\* the application in its header, if there is one. Its answer goes by the
\* application of the request too, whether that came from a header, from raw
\* bytes or from a URI, and whatever header the answer has of its own.
OwnDictionary ==
    message.app \in dictionaries =>
        {coded, answerCoded} \subseteq {message.app, NoDictionary}

\* README.md, 237-251: an answer has the ids of its request, unless h2agent
\* gives it a header; a raw one at least where it tells none of its own.
AnswersCorrelate ==
    stage = "answered" =>
        /\ given \in {"nothing", "plain"} => answer = message
        /\ given = "raw" => /\ answer.hop = 0 => message.hop = 0
                            /\ answer.e2e = 0 => message.e2e = 0

\* Provided that every dictionary knows the AVPs of a 5012, a request remains
\* without any answer only if no dictionary was loaded; one of an application
\* that has no dictionary is answered with that of another.
SilentOnlyWithoutDictionary ==
    stage = "silent" /\ dictionaries \subseteq Complete => dictionaries = {}
=============================================================================
