-------------------------- MODULE AnswerCorrelation --------------------------
(***************************************************************************)
(* Which request an answer resolves. The gateway has a pool of connections *)
(* it opened and a leg the peer opened (README.md, "Answer correlation"):  *)
(* for the peer they are one, and it may answer on any of them. An answer  *)
(* that matches nothing on its own leg is tried on the others, leg by leg, *)
(* while requests are sent, answered and timed out on other threads. The   *)
(* pending entries and their lookup under a lock are diametercomm's, known *)
(* from how the gateway uses them and from README.md, 144-162; the order   *)
(* of the legs is the gateway's.                                           *)
(***************************************************************************)
EXTENDS Integers

CONSTANTS
    Size,            \* connections of the pool
    ServerLeg,       \* the leg the peer opened
    Requests,
    Answers,         \* messages of the peer: copies and late ones are apart
    Nothing,
    NodeWideHops     \* hop-by-hop ids are unique in the node, not per connection

Conns == 0..(Size - 1)
Legs == Conns \cup {ServerLeg}

Messages == [to : Requests, hop : Nat, endToEnd : Requests \cup {Nothing},
             command : {"same", "other"}, leg : Legs]

ASSUME CorrelationAssumption ==
    /\ Size \in Nat \ {0}
    /\ ServerLeg \notin Conns
    /\ Nothing \notin Requests \cup Answers \cup Messages \cup Legs
    /\ NodeWideHops \in BOOLEAN

UnknownHop == 0

VARIABLES
    fate,      \* what became of a request
    via,       \* the connection that sent it and holds its pending entry
    hop,       \* its hop-by-hop id
    lastHop,   \* the last hop-by-hop id each connection has given
    by,        \* the answer that resolved it
    answer,    \* the answers that have arrived
    tried      \* the legs on which an answer has been looked up in vain

corrvars == <<fate, via, hop, lastHop, by, answer, tried>>

CorrelationTypeOK ==
    /\ fate \in [Requests -> {"new", "pending", "answered", "timed out"}]
    /\ via \in [Requests -> Conns \cup {Nothing}]
    /\ hop \in [Requests -> Nat]
    /\ lastHop \in [Conns -> Nat]
    /\ by \in [Requests -> Answers \cup {Nothing}]
    /\ answer \in [Answers -> Messages \cup {Nothing}]
    /\ tried \in [Answers -> SUBSET Legs]

CorrelationInit ==
    /\ fate = [r \in Requests |-> "new"]
    /\ via = [r \in Requests |-> Nothing]
    /\ hop = [r \in Requests |-> UnknownHop]
    /\ lastHop = [c \in Conns |-> UnknownHop]
    /\ by = [r \in Requests |-> Nothing]
    /\ answer = [a \in Answers |-> Nothing]
    /\ tried = [a \in Answers |-> {}]

-----------------------------------------------------------------------------

\* sendOutbound through one connection; identifiers of zero are assigned there.
Send(r, c) ==
    /\ fate[r] = "new"
    /\ fate' = [fate EXCEPT ![r] = "pending"]
    /\ via' = [via EXCEPT ![r] = c]
    /\ hop' = [hop EXCEPT ![r] = lastHop[c] + 1]
    /\ lastHop' = [d \in Conns |-> IF d = c \/ NodeWideHops THEN lastHop[c] + 1
                                                            ELSE lastHop[d]]
    /\ UNCHANGED <<by, answer, tried>>

\* The peer answers, on whatever leg, once or more, in time or late. A relay
\* may fail to restore the hop-by-hop id, a peer change the end-to-end id or
\* the command. An id that is lost is one no request has: it never happens to
\* be that of another pending request.
PeerAnswers(a, r, leg) ==
    /\ fate[r] # "new"
    /\ answer[a] = Nothing
    /\ \E h \in {hop[r], UnknownHop}, e \in {r, Nothing}, cmd \in {"same", "other"} :
        answer' = [answer EXCEPT ![a] = [to |-> r, hop |-> h, endToEnd |-> e,
                                         command |-> cmd, leg |-> leg]]
    /\ UNCHANGED <<fate, via, hop, lastHop, by, tried>>

\* Mutated, for ImplementsEntries: the timer is not cancelled by the answer.
TimesOutAnyway(r) ==
    /\ fate[r] # "new"
    /\ fate' = [fate EXCEPT ![r] = "timed out"]
    /\ UNCHANGED <<via, hop, lastHop, by, answer, tried>>

TimesOut(r) ==
    /\ fate[r] = "pending"
    /\ fate' = [fate EXCEPT ![r] = "timed out"]
    /\ UNCHANGED <<via, hop, lastHop, by, answer, tried>>

-----------------------------------------------------------------------------
(* Looking up an answer *)

\* Mutated, for LateAnswersChangeNothing: an entry stays after its timeout.
PendingOnForever(leg) == {r \in Requests : fate[r] # "new" /\ via[r] = leg}

PendingOn(leg) == {r \in Requests : fate[r] = "pending" /\ via[r] = leg}

\* Mutated, for RightAnswer: the command alone, when there is only one entry.
MatchLoosely(m, leg) ==
    IF m.command = "same" /\ \A q, r \in PendingOn(leg) : q = r
    THEN PendingOn(leg) ELSE {}

\* tryResolve: by the hop-by-hop id, or else by the end-to-end id; the command
\* must be the one of the request.
Match(m, leg) ==
    LET byHop == {r \in PendingOn(leg) : hop[r] = m.hop}
        byEnd == {r \in PendingOn(leg) : r = m.endToEnd}
    IN  IF m.command = "other" THEN {} ELSE IF byHop # {} THEN byHop ELSE byEnd

\* Mutated, for NoAnswerIsLost: an answer that comes by a connection of the
\* pool is offered to the server leg at once.
AheadForgetsPool(a) ==
    IF answer[a].leg = ServerLeg THEN Legs \ tried[a]
                                 ELSE {answer[a].leg, ServerLeg} \ tried[a]

\* The legs an answer is still to be tried on: its own, the connections of the
\* pool, and the server leg if it came by one of them.
Ahead(a) == Legs \ tried[a]

FirstConn(cs) == CHOOSE c \in cs : \A d \in cs : c <= d

\* Mutated, for CorrelationTypeOK: the loop over the pool is off by one.
NextLegPastEnd(a) ==
    IF answer[a].leg \in Ahead(a) THEN answer[a].leg
    ELSE IF Ahead(a) = {ServerLeg} THEN ServerLeg
    ELSE FirstConn(Ahead(a) \cap Conns) + 1

\* Its own leg first, then the connections in the order of the pool.
NextLeg(a) ==
    IF answer[a].leg \in Ahead(a) THEN answer[a].leg
    ELSE IF Ahead(a) = {ServerLeg} THEN ServerLeg
    ELSE FirstConn(Ahead(a) \cap Conns)

UnderWay(a) ==
    /\ answer[a] # Nothing
    /\ Ahead(a) # {}
    /\ \A r \in Requests : by[r] # a

\* tryResolve() on one leg, under the lock of its pending entries.
TryResolve(a) ==
    /\ UnderWay(a)
    /\ LET leg == NextLeg(a)
           found == Match(answer[a], leg)
       IN  \/ \E r \in found :
               /\ fate' = [fate EXCEPT ![r] = "answered"]
               /\ by' = [by EXCEPT ![r] = a]
               /\ UNCHANGED tried
           \/ /\ found = {}
              /\ tried' = [tried EXCEPT ![a] = @ \cup {leg}]
              /\ UNCHANGED <<fate, by>>
    /\ UNCHANGED <<via, hop, lastHop, answer>>

CorrelationNext ==
    \/ \E r \in Requests, c \in Conns : Send(r, c)
    \/ \E a \in Answers, r \in Requests, leg \in Legs : PeerAnswers(a, r, leg)
    \/ \E r \in Requests : TimesOut(r)
    \/ \E a \in Answers : TryResolve(a)

CorrelationSpec == CorrelationInit /\ [][CorrelationNext]_corrvars

-----------------------------------------------------------------------------
(* Properties *)

\* A request is resolved by an answer to it, never by one to another request,
\* although an answer is looked up on connections that its request never used.
\* This is so if no two connections give the same hop-by-hop id, and no relay
\* returns an id that another pending request has.
RightAnswer ==
    NodeWideHops =>
        \A r \in Requests : by[r] # Nothing => answer[by[r]].to = r

Dropped(a) ==
    answer[a] # Nothing /\ ~UnderWay(a) /\ \A r \in Requests : by[r] # a

Recognisable(a) ==
    /\ answer[a].command = "same"
    /\ answer[a].hop # UnknownHop \/ answer[a].endToEnd # Nothing

\* An answer is dropped only when nobody waits for it any more, whichever leg
\* it came by and whatever was sent, answered or timed out while it was looked
\* up on one leg after the other.
NoAnswerIsLost ==
    \A a \in Answers :
        Dropped(a) /\ Recognisable(a) => fate[answer[a].to] # "pending"

\* README.md, 160: late and duplicated answers are dropped. What a request was
\* told, an answer or a timeout, is final.
LateAnswersChangeNothing ==
    [][\A r \in Requests :
        fate[r] \in {"answered", "timed out"} =>
            fate'[r] = fate[r] /\ by'[r] = by[r]]_corrvars

Entries == INSTANCE PendingEntries WITH
    Connections <- Conns,
    NoConnection <- Nothing,
    NoWord <- Nothing,
    Timeout <- "timeout",
    entry <- [r \in Requests |-> IF fate[r] = "pending" THEN via[r] ELSE Nothing],
    told <- [r \in Requests |-> IF fate[r] = "timed out" THEN "timeout"
                                ELSE IF by[r] = Nothing THEN Nothing
                                ELSE answer[by[r]].to]

\* Seen by the gateway, a lookup that goes from leg to leg is as good as one in
\* a single table: a request is told once, of its own answer or of the timeout,
\* and no answer to another request ends its waiting.
ImplementsEntries == Entries!PESafety
=============================================================================
