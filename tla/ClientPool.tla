----------------------------- MODULE ClientPool -----------------------------
(***************************************************************************)
(* The pool of Diameter client connections to one peer                     *)
(* (DiameterClientPool.hpp): round-robin choice of a connection, preferring*)
(* one that is ready.                                                      *)
(*                                                                         *)
(* pickReady() and anyReady() read the readiness of the connections one by *)
(* one and hold no lock, while the Diameter threads open and lose them:    *)
(* each read is an action. The cursor is one atomic fetch_add.             *)
(***************************************************************************)
EXTENDS Naturals, FiniteSets

CONSTANTS
    Size,        \* connections of the pool
    CursorMod,   \* 2 ^ width of the cursor (std::size_t)
    Callers,     \* threads, or the requests they serve, that use the pool
    NoClient     \* the null pointer

ASSUME PoolAssumption ==
    /\ Size \in Nat \ {0}
    /\ CursorMod \in Nat \ {0, 1}
    /\ NoClient \notin Nat

VARIABLES
    ready,       \* connections whose isReady() is true
    cursor,      \* cursor_
    op,          \* the operation a caller is in
    start,       \* where its scan starts
    step,        \* how many connections it has looked at
    result,      \* what its last operation returned
    steady       \* connections ready at every moment of it

poolvars == <<ready, cursor, op, start, step, result, steady>>

Conns == 0..(Size - 1)

PoolTypeOK ==
    /\ ready \in SUBSET Conns
    /\ cursor \in 0..(CursorMod - 1)
    /\ op \in [Callers -> {"none", "pickReady", "anyReady"}]
    /\ start \in [Callers -> Conns]
    /\ step \in [Callers -> Conns]
    /\ result \in [Callers -> Conns \cup {NoClient}]
    /\ steady \in [Callers -> SUBSET Conns]

\* No connection is ready before the first CER/CEA.
PoolInit ==
    /\ ready = {}
    /\ cursor = 0
    /\ op = [k \in Callers |-> "none"]
    /\ start = [k \in Callers |-> 0]
    /\ step = [k \in Callers |-> 0]
    /\ result = [k \in Callers |-> NoClient]
    /\ steady = [k \in Callers |-> {}]

-----------------------------------------------------------------------------

\* roundRobinIndex: the index for this request; the cursor of a pool of one
\* is left alone.
RoundRobinIndex == IF Size <= 1 THEN 0 ELSE cursor % Size

\* Mutated, for Striped: the cursor is loaded, not advanced.
NextCursorStuck == cursor

NextCursor == IF Size <= 1 THEN cursor ELSE (cursor + 1) % CursorMod

Begin(k, what, from) ==
    /\ op[k] = "none"
    /\ op' = [op EXCEPT ![k] = what]
    /\ start' = [start EXCEPT ![k] = from]
    /\ step' = [step EXCEPT ![k] = 0]
    /\ steady' = [steady EXCEPT ![k] = ready]
    /\ UNCHANGED <<ready, result>>

BeginPickReady(k) ==
    /\ Begin(k, "pickReady", RoundRobinIndex)
    /\ cursor' = NextCursor

\* pick(): the next connection, ready or not, off the same cursor.
PickAny(k) ==
    /\ op[k] = "none"
    /\ cursor' = NextCursor
    /\ start' = [start EXCEPT ![k] = RoundRobinIndex]
    /\ result' = [result EXCEPT ![k] = RoundRobinIndex]
    /\ UNCHANGED <<ready, op, step, steady>>

BeginAnyReady(k) ==
    /\ Begin(k, "anyReady", 0)
    /\ UNCHANGED cursor

\* Mutated, for NothingSteadyIsMissed: the scan does not wrap around, it
\* stays at the last connection.
LookedClamped(k) ==
    IF start[k] + step[k] < Size THEN start[k] + step[k] ELSE Size - 1

Looked(k) == (start[k] + step[k]) % Size

\* Both scans look at each connection once, and return at the first ready one.
Probe(k) ==
    /\ op[k] # "none"
    /\ \/ /\ Looked(k) \in ready
          /\ op' = [op EXCEPT ![k] = "none"]
          /\ result' = [result EXCEPT ![k] = Looked(k)]
          /\ UNCHANGED step
       \/ /\ Looked(k) \notin ready
          /\ step[k] + 1 < Size
          /\ step' = [step EXCEPT ![k] = @ + 1]
          /\ UNCHANGED <<op, result>>
       \/ /\ Looked(k) \notin ready
          /\ step[k] + 1 = Size
          /\ op' = [op EXCEPT ![k] = "none"]
          /\ result' = [result EXCEPT ![k] = NoClient]
          /\ UNCHANGED step
    /\ UNCHANGED <<ready, cursor, start, steady>>

\* A connection completes its CER/CEA, or is lost, on a Diameter thread.
ReadyChanges(c) ==
    /\ ready' = IF c \in ready THEN ready \ {c} ELSE ready \cup {c}
    /\ steady' = [k \in Callers |-> IF op[k] = "none" THEN steady[k]
                                                      ELSE steady[k] \cap ready']
    /\ UNCHANGED <<cursor, op, start, step, result>>

PoolNext ==
    \/ \E k \in Callers :
        BeginPickReady(k) \/ BeginAnyReady(k) \/ PickAny(k) \/ Probe(k)
    \/ \E c \in Conns : ReadyChanges(c)

PoolSpec == PoolInit /\ [][PoolNext]_poolvars

-----------------------------------------------------------------------------
(* Properties *)

Scanned(k) == {(start[k] + i) % Size : i \in 0..(step[k] - 1)}

\* A scan that starts anywhere misses no connection that stays ready: when it
\* comes back with nothing, no connection was ready all along. A request is
\* refused with "peer not connected" only if every connection was down at some
\* moment of the scan, whatever the others did meanwhile.
NothingSteadyIsMissed ==
    \A k \in Callers :
        /\ op[k] = "none" /\ result[k] = NoClient => steady[k] = {}
        /\ op[k] # "none" => steady[k] \cap Scanned(k) = {}
=============================================================================
