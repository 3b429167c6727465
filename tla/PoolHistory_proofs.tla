-------------------------- MODULE PoolHistory_proofs --------------------------
(***************************************************************************)
(* Requests are striped evenly over the pool, for every size of the pool,  *)
(* width of the cursor, number of callers and number of picks.             *)
(***************************************************************************)
EXTENDS PoolHistory, ClientPool_proofs, Integers

\* Whether a connection has had its turn since the last one at which the
\* cursor pointed at the first connection.
Over(c) == IF c < cursor % Size THEN 1 ELSE 0

\* But for the current turn, each connection is ahead of another by the wraps
\* of the cursor at most. Striped itself is not inductive: it does not tell
\* whose turn it is.
Balance ==
    \A a, b \in Conns : taken[a] - Over(a) <= taken[b] - Over(b) + wraps

HistoryInv ==
    /\ PoolTypeOK
    /\ taken \in [Conns -> Nat]
    /\ wraps \in Nat
    /\ Balance

-----------------------------------------------------------------------------

(* Remainders *)

LEMMA Division ==
    ASSUME NEW n \in Nat \ {0}, NEW c \in Nat
    PROVE  /\ c = n * (c \div n) + (c % n)
           /\ c \div n \in Nat
           /\ c % n \in 0..(n - 1)
  BY SMTT(20)

\* No multiple of n lies between -n and n, but 0.
LEMMA SmallMultiple ==
    ASSUME NEW n \in Nat \ {0}, NEW z \in Int, -n < n * z, n * z < n
    PROVE  z = 0
  <1>1. CASE z >= 1
    <2>1. n * z >= n
      BY <1>1, SMTT(20)
    <2> QED
      BY <2>1
  <1>2. CASE z <= -1
    <2>1. n * z <= -n
      BY <1>2, SMTT(20)
    <2> QED
      BY <2>1
  <1> QED
    BY <1>1, <1>2

\* A division has one remainder only.
LEMMA Remainder ==
    ASSUME NEW n \in Nat \ {0}, NEW q \in Nat, NEW x \in 0..(n - 1)
    PROVE  (n * q + x) % n = x
  <1> DEFINE y == n * q + x
  <1>1. y \in Nat
    BY SMTT(20)
  <1> HIDE DEF y
  <1>2. /\ y = n * (y \div n) + (y % n)
        /\ y \div n \in Nat
        /\ y % n \in 0..(n - 1)
    BY <1>1, Division
  <1>3. n * (y \div n) + (y % n) = n * q + x
    BY <1>2 DEF y
  <1>4. n * ((y \div n) - q) = x - (y % n)
    BY <1>2, <1>3, SMTT(20)
  <1>5. (y \div n) - q = 0
    <2>1. -n < x - (y % n) /\ x - (y % n) < n
      BY <1>2
    <2> QED
      BY <1>2, <1>4, <2>1, SmallMultiple
  <1>6. n * 0 = 0
    OBVIOUS
  <1> QED
    BY <1>2, <1>4, <1>5, <1>6 DEF y

\* The next number has the next remainder.
LEMMA ModNext ==
    ASSUME NEW n \in Nat \ {0}, NEW c \in Nat
    PROVE  (c + 1) % n = IF (c % n) + 1 = n THEN 0 ELSE (c % n) + 1
  <1> DEFINE q == c \div n
             r == c % n
  <1>1. q \in Nat /\ r \in 0..(n - 1) /\ c = n * q + r
    BY Division
  <1> HIDE DEF q, r
  <1>2. CASE r + 1 = n
    <2>1. c + 1 = n * (q + 1) + 0
      BY <1>1, <1>2, SMTT(20)
    <2>2. (n * (q + 1) + 0) % n = 0
      BY <1>1, Remainder
    <2> QED
      BY <1>2, <2>1, <2>2 DEF r
  <1>3. CASE r + 1 # n
    <2>1. c + 1 = n * q + (r + 1) /\ r + 1 \in 0..(n - 1)
      BY <1>1, <1>3, SMTT(20)
    <2>2. (n * q + (r + 1)) % n = r + 1
      BY <1>1, <2>1, Remainder
    <2> QED
      BY <1>3, <2>1, <2>2 DEF r
  <1> QED
    BY <1>2, <1>3

-----------------------------------------------------------------------------
(* The steps *)

LEMMA HistoryInvInit == HistoryInit => HistoryInv
  <1> SUFFICES ASSUME HistoryInit PROVE HistoryInv
    OBVIOUS
  <1>1. cursor % Size = 0
    BY PoolAssumption, ModSmall DEF HistoryInit, PoolInit
  <1>2. Balance
    BY <1>1 DEF HistoryInit, Balance, Over, Conns
  <1> QED
    BY <1>2, PoolTypeInit DEF HistoryInit, HistoryInv

\* A pick takes the turn of the connection the cursor points at. The cursor of
\* a pool of one does not move, and there is no other connection to be ahead of.
LEMMA PickBalances ==
    ASSUME HistoryInv, NEW k \in Callers, CountedPick(k)
    PROVE  /\ taken' \in [Conns -> Nat]
           /\ wraps' \in Nat
           /\ Balance'
  <1>1. /\ Size \in Nat \ {0} /\ CursorMod \in Nat \ {0, 1}
        /\ cursor \in 0..(CursorMod - 1)
    BY PoolAssumption DEF HistoryInv, PoolTypeOK
  <1>2. /\ start'[k] = RoundRobinIndex /\ RoundRobinIndex \in Conns
        /\ cursor' = NextCursor
    BY <1>1, IndexIsConn
    DEF HistoryInv, PoolTypeOK, CountedPick, BeginPickReady, Begin, PickAny
  <1>3. /\ taken' = [taken EXCEPT ![RoundRobinIndex] = @ + 1]
        /\ wraps' = IF cursor' < cursor THEN wraps + 1 ELSE wraps
    BY <1>2 DEF CountedPick
  <1>4. taken' \in [Conns -> Nat] /\ wraps' \in Nat
    BY <1>2, <1>3 DEF HistoryInv
  <1>5. CASE Size = 1
    BY <1>4, <1>5 DEF Balance, Over, Conns
  <1>6. CASE Size # 1
    <2> DEFINE s == cursor % Size
               turn(c) == IF s + 1 = Size THEN 0 ELSE IF c < s + 1 THEN 1 ELSE 0
    <2>1. /\ RoundRobinIndex = s /\ s \in 0..(Size - 1)
          /\ cursor' = (cursor + 1) % CursorMod
      BY <1>1, <1>2, <1>6, ModRange DEF RoundRobinIndex, NextCursor
    <2>2. ASSUME NEW a \in Conns, NEW b \in Conns
          PROVE  taken'[a] - turn(a) <= taken'[b] - turn(b) + wraps
      <3>1. taken[a] - Over(a) <= taken[b] - Over(b) + wraps
        BY DEF HistoryInv, Balance
      <3>2. /\ taken'[a] = IF a = s THEN taken[a] + 1 ELSE taken[a]
            /\ taken'[b] = IF b = s THEN taken[b] + 1 ELSE taken[b]
        BY <1>3, <2>1 DEF HistoryInv
      <3>3. /\ taken[a] \in Nat /\ taken[b] \in Nat /\ wraps \in Nat
            /\ a \in 0..(Size - 1) /\ b \in 0..(Size - 1)
        BY DEF HistoryInv, Conns
      <3>4. /\ Over(a) = IF a < s THEN 1 ELSE 0
            /\ Over(b) = IF b < s THEN 1 ELSE 0
        BY DEF Over
      <3> HIDE DEF s
      <3> QED
        BY <1>1, <2>1, <3>1, <3>2, <3>3, <3>4
    <2>3. CASE cursor + 1 < CursorMod
      <3>1. cursor' = cursor + 1 /\ wraps' = wraps
        BY <1>1, <1>3, <2>1, <2>3, ModSmall
      <3>2. cursor' % Size = IF s + 1 = Size THEN 0 ELSE s + 1
        <4> HIDE DEF s
        <4>1. cursor \in Nat
          BY <1>1
        <4>2. (cursor + 1) % Size =
                  IF (cursor % Size) + 1 = Size THEN 0 ELSE (cursor % Size) + 1
          BY <1>1, <4>1, ModNext
        <4> QED
          BY <3>1, <4>2 DEF s
      <3>3. \A c \in Conns : Over(c)' = turn(c)
        BY <2>1, <3>2, <1>1 DEF Over, Conns
      <3> QED
        BY <1>4, <2>2, <3>1, <3>3 DEF Balance
    <2>4. CASE cursor + 1 = CursorMod
      <3>1. cursor' = 0 /\ wraps' = wraps + 1
        BY <1>1, <1>3, <2>1, <2>4
      <3>2. cursor' % Size = 0
        BY <1>1, <3>1, ModSmall
      <3>3. \A c \in Conns : Over(c)' = 0 /\ turn(c) \in {0, 1}
        BY <3>2 DEF Over, Conns
      <3>4. \A c \in Conns : taken'[c] \in Nat
        BY <1>4
      <3>5. wraps \in Nat
        BY DEF HistoryInv
      <3>6. ASSUME NEW a \in Conns, NEW b \in Conns
            PROVE  taken'[a] - Over(a)' <= taken'[b] - Over(b)' + wraps'
        <4>1. taken'[a] - turn(a) <= taken'[b] - turn(b) + wraps
          BY <2>2
        <4>2. /\ turn(a) \in {0, 1} /\ turn(b) \in {0, 1}
              /\ Over(a)' = 0 /\ Over(b)' = 0
          BY <3>3
        <4> HIDE DEF turn
        <4> QED
          BY <3>1, <3>4, <3>5, <4>1, <4>2
      <3> QED
        BY <1>4, <3>6 DEF Balance
    <2>5. cursor + 1 < CursorMod \/ cursor + 1 = CursorMod
      BY <1>1
    <2> QED
      BY <1>4, <2>3, <2>4, <2>5
  <1> QED
    BY <1>1, <1>4, <1>5, <1>6

\* The record of the picks only watches the pool.
LEMMA PoolRecorded == [HistoryNext]_historyvars => [PoolNext]_poolvars
  BY DEF HistoryNext, CountedPick, PoolNext, historyvars

LEMMA HistoryInvSteps == HistoryInv /\ [HistoryNext]_historyvars => HistoryInv'
  <1> SUFFICES ASSUME HistoryInv, [HistoryNext]_historyvars
               PROVE  HistoryInv'
    OBVIOUS
  <1>1. PoolTypeOK'
    BY PoolRecorded, PoolTypeSteps DEF HistoryInv
  <1>2. CASE \E k \in Callers : CountedPick(k)
    BY <1>1, <1>2, PickBalances DEF HistoryInv
  <1>3. CASE ~\E k \in Callers : CountedPick(k)
    <2>1. UNCHANGED <<taken, wraps, cursor>>
      BY <1>3 DEF HistoryNext, historyvars, poolvars, BeginAnyReady, Probe,
                  ReadyChanges
    <2> QED
      BY <1>1, <2>1 DEF HistoryInv, Balance, Over, Conns
  <1> QED
    BY <1>2, <1>3

\* For every pool and every width of the cursor, no connection is ahead of
\* another by more than one request and one for each wrap of the cursor.
THEOREM RequestsAreStriped == HistorySpec => []Striped
  <1>1. HistoryInv => Striped
    BY PoolAssumption DEF HistoryInv, Balance, Over, Striped
  <1> QED
    BY <1>1, HistoryInvInit, HistoryInvSteps, PTL DEF HistorySpec

\* A pool whose picks are recorded is still the pool.
THEOREM HistoryRefinesPool == HistorySpec => PoolSpec
  <1>1. HistoryInit => PoolInit
    BY DEF HistoryInit
  <1> QED
    BY <1>1, PoolRecorded, PTL DEF HistorySpec, PoolSpec

\* The run's two other properties, as it checks them: with the record.
COROLLARY HistoryTypeCorrect == HistorySpec => []PoolTypeOK
  BY HistoryRefinesPool, PoolTypeCorrect, PTL

COROLLARY HistoryScansMissNothing == HistorySpec => []NothingSteadyIsMissed
  BY HistoryRefinesPool, SteadyIsFound, PTL
=============================================================================
