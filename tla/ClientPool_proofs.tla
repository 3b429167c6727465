-------------------------- MODULE ClientPool_proofs --------------------------
(***************************************************************************)
(* A scan of the pool misses no connection that stays ready, for every     *)
(* size of the pool, width of the cursor and number of callers.            *)
(***************************************************************************)
EXTENDS ClientPool, TLAPS

LEMMA ModRange ==
    ASSUME NEW n \in Nat \ {0}, NEW c \in Nat
    PROVE  c % n \in 0..(n - 1)
  BY SMT

LEMMA ModSmall ==
    ASSUME NEW n \in Nat \ {0}, NEW c \in 0..(n - 1)
    PROVE  c % n = c
  BY SMT

LEMMA ModWrap ==
    ASSUME NEW n \in Nat \ {0}, NEW c \in 0..(n - 1)
    PROVE  (c + n) % n = c
  BY SMT

\* Size steps around the pool from any connection reach every connection.
LEMMA ScanReachesAll ==
    ASSUME NEW s \in Conns, NEW c \in Conns
    PROVE  \E i \in 0..(Size - 1) : (s + i) % Size = c
  <1>1. Size \in Nat \ {0} /\ s \in 0..(Size - 1) /\ c \in 0..(Size - 1)
    BY PoolAssumption DEF Conns
  <1>2. CASE s <= c
    <2>1. c - s \in 0..(Size - 1) /\ s + (c - s) = c
      BY <1>1, <1>2
    <2>2. (s + (c - s)) % Size = c
      BY <1>1, <2>1, ModSmall
    <2> QED
      BY <2>1, <2>2
  <1>3. CASE c < s
    <2>1. (c - s) + Size \in 0..(Size - 1) /\ s + ((c - s) + Size) = c + Size
      BY <1>1, <1>3
    <2>2. (s + ((c - s) + Size)) % Size = c
      BY <1>1, <2>1, ModWrap
    <2> QED
      BY <2>1, <2>2
  <1> QED
    BY <1>1, <1>2, <1>3

LEMMA IndexIsConn == cursor \in Nat => RoundRobinIndex \in Conns
  BY PoolAssumption, ModRange DEF RoundRobinIndex, Conns

LEMMA NextCursorInRange ==
    cursor \in 0..(CursorMod - 1) => NextCursor \in 0..(CursorMod - 1)
  BY PoolAssumption, ModRange DEF NextCursor

LEMMA LookedIsConn ==
    ASSUME PoolTypeOK, NEW k \in Callers
    PROVE  Looked(k) \in Conns
  <1>1. start[k] + step[k] \in Nat
    BY PoolAssumption DEF PoolTypeOK, Conns
  <1>2. (start[k] + step[k]) % Size \in 0..(Size - 1)
    BY <1>1, PoolAssumption, ModRange
  <1> QED
    BY <1>2 DEF Looked, Conns

-----------------------------------------------------------------------------
(* The types *)

LEMMA PoolTypeInit == PoolInit => PoolTypeOK
  BY PoolAssumption DEF PoolInit, PoolTypeOK, Conns

LEMMA ZeroIsConn == 0 \in Conns
  BY PoolAssumption DEF Conns

LEMMA BeginTypes ==
    ASSUME PoolTypeOK, NEW k \in Callers,
           NEW what \in {"pickReady", "anyReady"}, NEW from \in Conns,
           Begin(k, what, from), cursor' \in 0..(CursorMod - 1)
    PROVE  PoolTypeOK'
  BY ZeroIsConn DEF PoolTypeOK, Begin, Conns

LEMMA ProbeTypes ==
    ASSUME PoolTypeOK, NEW k \in Callers, Probe(k)
    PROVE  PoolTypeOK'
  <1>1. Looked(k) \in Conns
    BY LookedIsConn
  <1>2. step[k] + 1 < Size => step[k] + 1 \in Conns
    BY PoolAssumption DEF PoolTypeOK, Conns
  <1> QED
    BY <1>1, <1>2 DEF PoolTypeOK, Probe, Conns

LEMMA ReadyTypes ==
    ASSUME PoolTypeOK, NEW c \in Conns, ReadyChanges(c)
    PROVE  PoolTypeOK'
  BY DEF PoolTypeOK, ReadyChanges, Conns

LEMMA PoolTypeSteps == PoolTypeOK /\ [PoolNext]_poolvars => PoolTypeOK'
  <1> SUFFICES ASSUME PoolTypeOK, [PoolNext]_poolvars
               PROVE  PoolTypeOK'
    OBVIOUS
  <1>0. cursor \in 0..(CursorMod - 1) /\ cursor \in Nat
    BY PoolAssumption DEF PoolTypeOK
  <1>1. ASSUME NEW k \in Callers, BeginPickReady(k)
        PROVE  PoolTypeOK'
    BY <1>0, <1>1, IndexIsConn, NextCursorInRange, BeginTypes DEF BeginPickReady
  <1>2. ASSUME NEW k \in Callers, BeginAnyReady(k)
        PROVE  PoolTypeOK'
    BY <1>0, <1>2, ZeroIsConn, BeginTypes DEF BeginAnyReady
  <1>3. ASSUME NEW k \in Callers, PickAny(k)
        PROVE  PoolTypeOK'
    <2>1. RoundRobinIndex \in Conns /\ NextCursor \in 0..(CursorMod - 1)
      BY <1>0, IndexIsConn, NextCursorInRange
    <2> QED
      BY <1>3, <2>1 DEF PoolTypeOK, PickAny, Conns
  <1>4. CASE UNCHANGED poolvars
    BY <1>4 DEF poolvars, PoolTypeOK, Conns
  <1> QED
    BY <1>1, <1>2, <1>3, <1>4, ProbeTypes, ReadyTypes DEF PoolNext

\* The cursor stays within its width, and every scan starts at a connection of
\* the pool and returns one of them or the null pointer.
THEOREM PoolTypeCorrect == PoolSpec => []PoolTypeOK
  BY PoolTypeInit, PoolTypeSteps, PTL DEF PoolSpec

-----------------------------------------------------------------------------
(* The scans *)

\* Of a scan under way: what has been ready all along is ready now, and is none
\* of the connections it has already looked at. This is what makes
\* NothingSteadyIsMissed inductive: the last connection a scan finds not
\* ready is not steady either.
ScanInv(k) ==
    /\ op[k] # "none" => steady[k] \subseteq ready
    /\ op[k] # "none" => steady[k] \cap Scanned(k) = {}
    /\ op[k] = "none" /\ result[k] = NoClient => steady[k] = {}

PoolInv == PoolTypeOK /\ \A k \in Callers : ScanInv(k)

LEMMA PoolInvInit == PoolInit => PoolInv
  BY PoolTypeInit DEF PoolInit, PoolInv, ScanInv

LEMMA BeginScans ==
    ASSUME PoolInv, NEW k \in Callers,
           NEW what \in {"pickReady", "anyReady"}, NEW from \in Conns,
           Begin(k, what, from), NEW q \in Callers
    PROVE  ScanInv(q)'
  <1>1. CASE q = k
    <2>1. op'[q] # "none" /\ steady'[q] = ready' /\ step'[q] = 0
      BY <1>1 DEF PoolInv, PoolTypeOK, Begin
    <2>2. Scanned(q)' = {}
      BY <2>1 DEF Scanned
    <2> QED
      BY <2>1, <2>2 DEF ScanInv
  <1>2. CASE q # k
    BY <1>2 DEF PoolInv, PoolTypeOK, ScanInv, Scanned, Begin
  <1> QED
    BY <1>1, <1>2

LEMMA ProbeScans ==
    ASSUME PoolInv, NEW k \in Callers, Probe(k), NEW q \in Callers
    PROVE  ScanInv(q)'
  <1>T. /\ Size \in Nat \ {0}
        /\ start[k] \in 0..(Size - 1)
        /\ step[k] \in 0..(Size - 1)
        /\ steady[k] \subseteq Conns
        /\ steady[k] \subseteq ready
        /\ steady[k] \cap Scanned(k) = {}
    BY PoolAssumption DEF PoolInv, PoolTypeOK, ScanInv, Probe, Conns
  <1>K. ScanInv(q) /\ q \in Callers
    BY DEF PoolInv
  <1>1. CASE q # k
    BY <1>1, <1>K DEF PoolInv, PoolTypeOK, ScanInv, Scanned, Probe
  <1>2. CASE q = k /\ Looked(k) \in ready
    <2>1. op'[k] = "none" /\ result'[k] = Looked(k)
      BY <1>2 DEF PoolInv, PoolTypeOK, Probe
    <2>2. Looked(k) # NoClient
      BY LookedIsConn, PoolAssumption DEF PoolInv, Conns
    <2> QED
      BY <1>2, <2>1, <2>2 DEF ScanInv
  <1>3. CASE q = k /\ Looked(k) \notin ready /\ step[k] + 1 < Size
    <2>1. /\ op'[k] # "none" /\ ready' = ready /\ steady' = steady
          /\ start' = start /\ step'[k] = step[k] + 1
      BY <1>T, <1>3 DEF PoolInv, PoolTypeOK, Probe
    <2>2. steady[k] \cap Scanned(k)' = {}
      <3> SUFFICES ASSUME NEW i \in 0..((step[k] + 1) - 1),
                          (start[k] + i) % Size \in steady[k]
                   PROVE  FALSE
        BY <2>1 DEF Scanned
      <3>1. CASE i = step[k]
        BY <1>T, <1>3, <3>1 DEF Looked
      <3>2. CASE i # step[k]
        <4>1. i \in 0..(step[k] - 1)
          BY <1>T, <3>2
        <4> QED
          BY <1>T, <4>1 DEF Scanned
      <3> QED
        BY <3>1, <3>2
    <2> QED
      BY <1>T, <1>3, <2>1, <2>2 DEF ScanInv
  <1>4. CASE q = k /\ Looked(k) \notin ready /\ step[k] + 1 = Size
    <2>1. op'[k] = "none" /\ steady' = steady
      BY <1>T, <1>4 DEF PoolInv, PoolTypeOK, Probe
    <2>2. ASSUME NEW c \in steady[k]
          PROVE  FALSE
      <3>1. PICK i \in 0..(Size - 1) : (start[k] + i) % Size = c
        BY <1>T, ScanReachesAll DEF Conns
      <3>2. CASE i = step[k]
        BY <1>T, <1>4, <3>1, <3>2 DEF Looked
      <3>3. CASE i # step[k]
        <4>1. i \in 0..(step[k] - 1)
          BY <1>T, <1>4, <3>3
        <4> QED
          BY <1>T, <3>1, <4>1 DEF Scanned
      <3> QED
        BY <3>2, <3>3
    <2> QED
      BY <1>4, <2>1, <2>2 DEF ScanInv
  <1> QED
    BY <1>1, <1>2, <1>3, <1>4 DEF Probe

LEMMA ReadyScans ==
    ASSUME PoolInv, NEW c \in Conns, ReadyChanges(c), NEW q \in Callers
    PROVE  ScanInv(q)'
  BY DEF PoolInv, PoolTypeOK, ScanInv, Scanned, ReadyChanges

LEMMA PoolInvSteps == PoolInv /\ [PoolNext]_poolvars => PoolInv'
  <1> SUFFICES ASSUME PoolInv, [PoolNext]_poolvars
               PROVE  PoolInv'
    OBVIOUS
  <1>1. PoolTypeOK'
    BY PoolTypeSteps DEF PoolInv
  <1>2. ASSUME NEW q \in Callers
        PROVE  ScanInv(q)'
    <2>0. cursor \in Nat
      BY PoolAssumption DEF PoolInv, PoolTypeOK
    <2>1. ASSUME NEW k \in Callers, BeginPickReady(k)
          PROVE  ScanInv(q)'
      BY <2>0, <2>1, IndexIsConn, BeginScans DEF BeginPickReady
    <2>2. ASSUME NEW k \in Callers, BeginAnyReady(k)
          PROVE  ScanInv(q)'
      BY <2>2, ZeroIsConn, BeginScans DEF BeginAnyReady
    <2>3. ASSUME NEW k \in Callers, PickAny(k)
          PROVE  ScanInv(q)'
      <3>1. RoundRobinIndex \in Conns /\ NoClient \notin Conns
        BY <2>0, IndexIsConn, PoolAssumption DEF Conns
      <3>2. CASE q = k
        BY <2>3, <3>1, <3>2 DEF PoolInv, PoolTypeOK, ScanInv, PickAny
      <3>3. CASE q # k
        BY <2>3, <3>3 DEF PoolInv, PoolTypeOK, ScanInv, Scanned, PickAny
      <3> QED
        BY <3>2, <3>3
    <2>4. CASE UNCHANGED poolvars
      BY <2>4 DEF poolvars, PoolInv, ScanInv, Scanned
    <2> QED
      BY <2>1, <2>2, <2>3, <2>4, ProbeScans, ReadyScans DEF PoolNext
  <1> QED
    BY <1>1, <1>2 DEF PoolInv

LEMMA PoolInvImplies == PoolInv => NothingSteadyIsMissed
  BY DEF PoolInv, ScanInv, NothingSteadyIsMissed

\* A scan that comes back with the null pointer has met no connection that was
\* ready all along, however many connections and concurrent callers there are.
THEOREM SteadyIsFound == PoolSpec => []NothingSteadyIsMissed
  <1>1. PoolSpec => []PoolInv
    BY PoolInvInit, PoolInvSteps, PTL DEF PoolSpec
  <1> QED
    BY <1>1, PoolInvImplies, PTL
=============================================================================
