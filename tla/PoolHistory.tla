---------------------------- MODULE PoolHistory ----------------------------
(***************************************************************************)
(* ClientPool with a record of how pick and pickReady spread requests over *)
(* the connections.                                                        *)
(***************************************************************************)
EXTENDS ClientPool

CONSTANT MaxPicks    \* bound of a run on the number of picks

ASSUME MaxPicksAssumption == MaxPicks \in Nat

VARIABLES
    taken,       \* picks that started at each connection
    wraps        \* times the cursor went back to zero

historyvars == <<poolvars, taken, wraps>>

HistoryInit ==
    /\ PoolInit
    /\ taken = [c \in Conns |-> 0]
    /\ wraps = 0

Picks == LET total[n \in 0..Size] == IF n = 0 THEN 0
                                     ELSE total[n - 1] + taken[n - 1]
         IN  total[Size]

CountedPick(k) ==
    /\ Picks < MaxPicks
    /\ BeginPickReady(k) \/ PickAny(k)
    /\ taken' = [taken EXCEPT ![start'[k]] = @ + 1]
    /\ wraps' = IF cursor' < cursor THEN wraps + 1 ELSE wraps

HistoryNext ==
    \/ \E k \in Callers : CountedPick(k)
    \/ \E k \in Callers : BeginAnyReady(k) /\ UNCHANGED <<taken, wraps>>
    \/ \E k \in Callers : Probe(k) /\ UNCHANGED <<taken, wraps>>
    \/ \E c \in Conns : ReadyChanges(c) /\ UNCHANGED <<taken, wraps>>

HistorySpec == HistoryInit /\ [][HistoryNext]_historyvars

-----------------------------------------------------------------------------
(* Properties *)

\* Requests are striped evenly, by concurrent callers too: no connection is
\* ahead of another by more than one request, plus one for each time the
\* cursor has wrapped (the pool size need not divide 2 ^ width).
Striped == \A a, b \in Conns : taken[a] <= taken[b] + 1 + wraps
=============================================================================
