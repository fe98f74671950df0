-------------------------- MODULE PersistenceProofs --------------------------
(***************************************************************************)
(* Proofs about the persistence layer: the connection pool, for any number *)
(* of threads and connections; the write-behind queue, for any capacity    *)
(* and any entities; the reference outbox, for any set of events; the      *)
(* account store, for any limits; and one ODBC connection, for cells and   *)
(* chunks of any size.  (Warm restart and the keys of the economy's        *)
(* events: module RestartProofs.)                                          *)
(***************************************************************************)
EXTENDS MCPersistence, FiniteSetTheorems, SequenceTheorems, WellFoundedInduction, TLAPS

(***************************************************************************)
(* The connection pool                                                     *)
(***************************************************************************)
(* The connections held are finitely many. *)
LEMMA HeldFinite ==
    ASSUME TypeOK
    PROVE  /\ Held \subseteq Conns /\ IsFiniteSet(Held) /\ IsFiniteSet(m_idle)
           /\ Cardinality(Held) \in Nat /\ Cardinality(m_idle) \in Nat
<1>1. Held \subseteq Conns /\ m_idle \subseteq Conns
  BY DEF Held, TypeOK
<1>2. IsFiniteSet(Held) /\ IsFiniteSet(m_idle)
  BY <1>1, PoolAssumption, FS_Subset
<1> QED
  BY <1>1, <1>2, FS_CardinalityType

(* A thread that held none takes a connection that no thread held. *)
LEMMA TakeAddsOne ==
    ASSUME TypeOK, LeasesExclusive, NEW t \in Threads, NEW c \in Conns \ Held, Takes(t, c)
    PROVE  /\ Held' = Held \cup {c}
           /\ Cardinality(Held') = Cardinality(Held) + 1
           /\ held' \in [Threads -> Conns \cup {None}]
           /\ pc' \in [Threads -> {"out", "check", "leased"}]
           /\ \A u, v \in Threads : (held'[u] # None /\ held'[u] = held'[v]) => u = v
           /\ \A u \in Threads : held'[u] = None <=> pc'[u] = "out"
<1>1. /\ held \in [Threads -> Conns \cup {None}] /\ held' = [held EXCEPT ![t] = c]
      /\ pc \in [Threads -> {"out", "check", "leased"}] /\ pc' = [pc EXCEPT ![t] = "check"]
      /\ pc[t] = "out"
  BY DEF TypeOK, Takes
<1>2. held[t] = None /\ c # None
  BY <1>1, PoolAssumption DEF LeasesExclusive
<1>3. \A u \in Threads : held'[u] = IF u = t THEN c ELSE held[u]
  BY <1>1
<1>4. Held' = Held \cup {c}
  <2>1. ASSUME NEW x \in Held' PROVE x \in Held \cup {c}
    BY <1>3, <2>1 DEF Held
  <2>2. ASSUME NEW x \in Held PROVE x \in Held'
    <3>1. PICK u \in Threads : x = held[u] /\ x # None
      BY <2>2 DEF Held
    <3>2. u # t /\ held'[u] = x
      BY <1>2, <1>3, <3>1
    <3> QED
      BY <3>1, <3>2 DEF Held
  <2>3. c \in Held'
    BY <1>2, <1>3 DEF Held
  <2> QED
    BY <2>1, <2>2, <2>3
<1>5. Cardinality(Held') = Cardinality(Held) + 1
  BY <1>4, HeldFinite, FS_AddElement
<1>6. \A u \in Threads : held[u] # c
  BY <1>2 DEF Held
<1>7. \A u, v \in Threads : (held'[u] # None /\ held'[u] = held'[v]) => u = v
  BY <1>3, <1>6 DEF LeasesExclusive
<1>8. \A u \in Threads : held'[u] = None <=> pc'[u] = "out"
  BY <1>1, <1>2, <1>3 DEF LeasesExclusive
<1> QED
  BY <1>1, <1>4, <1>5, <1>7, <1>8

(* A thread gives up the connection it holds. *)
LEMMA ReleaseRemovesOne ==
    ASSUME TypeOK, LeasesExclusive, NEW t \in Threads, pc[t] # "out",
           held' = [held EXCEPT ![t] = None], pc' = [pc EXCEPT ![t] = "out"]
    PROVE  /\ held[t] \in Held
           /\ Held' = Held \ {held[t]}
           /\ Cardinality(Held') = Cardinality(Held) - 1
           /\ held' \in [Threads -> Conns \cup {None}]
           /\ pc' \in [Threads -> {"out", "check", "leased"}]
           /\ \A u, v \in Threads : (held'[u] # None /\ held'[u] = held'[v]) => u = v
           /\ \A u \in Threads : held'[u] = None <=> pc'[u] = "out"
<1>1. /\ held \in [Threads -> Conns \cup {None}]
      /\ pc \in [Threads -> {"out", "check", "leased"}]
  BY DEF TypeOK
<1>2. held[t] # None /\ held[t] \in Held
  BY DEF LeasesExclusive, Held
<1>3. \A u \in Threads : held'[u] = IF u = t THEN None ELSE held[u]
  BY <1>1
<1>4. Held' = Held \ {held[t]}
  <2>1. ASSUME NEW x \in Held' PROVE x \in Held \ {held[t]}
    <3>1. PICK u \in Threads : x = held'[u] /\ x # None
      BY <2>1 DEF Held
    <3>2. u # t /\ x = held[u]
      BY <1>3, <3>1
    <3> QED
      BY <3>1, <3>2 DEF Held, LeasesExclusive
  <2>2. ASSUME NEW x \in Held, x # held[t] PROVE x \in Held'
    <3>1. PICK u \in Threads : x = held[u] /\ x # None
      BY <2>2 DEF Held
    <3> QED
      BY <1>3, <2>2, <3>1 DEF Held
  <2> QED
    BY <2>1, <2>2
<1>5. Cardinality(Held') = Cardinality(Held) - 1
  BY <1>2, <1>4, HeldFinite, FS_RemoveElement
<1>6. \A u, v \in Threads : (held'[u] # None /\ held'[u] = held'[v]) => u = v
  BY <1>3 DEF LeasesExclusive
<1>7. \A u \in Threads : held'[u] = None <=> pc'[u] = "out"
  BY <1>1, <1>3 DEF LeasesExclusive
<1> QED
  BY <1>1, <1>2, <1>4, <1>5, <1>6, <1>7

(* A thread takes a connection out of the idle ones, or a new one. *)
LEMMA AcquireKeepsInv ==
    ASSUME PoolInv, NEW t \in Threads, NEW c \in Conns, AcquireIdle(t, c) \/ AcquireNew(t, c)
    PROVE  PoolInv'
<1>1. TypeOK /\ LiveCounted /\ LeasesExclusive /\ NoPoisonedIdle
  BY DEF PoolInv
<1>2. Takes(t, c)
  BY DEF AcquireIdle, AcquireNew
<1>3. c \notin Held /\ c \notin retired
  BY <1>1 DEF AcquireIdle, AcquireNew, Unused, LeasesExclusive
<1>4. /\ Held' = Held \cup {c}
      /\ Cardinality(Held') = Cardinality(Held) + 1
      /\ held' \in [Threads -> Conns \cup {None}]
      /\ pc' \in [Threads -> {"out", "check", "leased"}]
      /\ \A u, v \in Threads : (held'[u] # None /\ held'[u] = held'[v]) => u = v
      /\ \A u \in Threads : held'[u] = None <=> pc'[u] = "out"
  BY <1>1, <1>2, <1>3, TakeAddsOne
<1>5. /\ c \notin m_idle' /\ m_idle' \subseteq m_idle
      /\ retired' = retired /\ inTxn' = inTxn
  BY DEF AcquireIdle, AcquireNew
<1>6. TypeOK'
  BY <1>1, <1>4 DEF TypeOK, AcquireIdle, AcquireNew
<1>7. LeasesExclusive' /\ NoPoisonedIdle'
  BY <1>1, <1>3, <1>4, <1>5 DEF LeasesExclusive, NoPoisonedIdle
<1>8. LiveCounted'
  <2>1. /\ Cardinality(Held) \in Nat /\ Cardinality(m_idle) \in Nat /\ IsFiniteSet(m_idle)
        /\ m_live = Cardinality(m_idle) + Cardinality(Held)
        /\ m_live <= (IF Warm > POOL_MAX THEN Warm ELSE POOL_MAX)
        /\ Warm \in Nat /\ POOL_MAX \in Nat
    BY <1>1, HeldFinite, PoolAssumption DEF LiveCounted, Warm
  <2>2. CASE AcquireIdle(t, c)
    <3>1. m_live' = m_live /\ Cardinality(m_idle') = Cardinality(m_idle) - 1
      BY <2>1, <2>2, FS_RemoveElement DEF AcquireIdle
    <3> QED
      BY <1>4, <2>1, <3>1 DEF LiveCounted, Warm
  <2>3. CASE AcquireNew(t, c)
    <3>1. m_live' = m_live + 1 /\ m_live < POOL_MAX /\ m_idle' = m_idle
      BY <2>3 DEF AcquireNew
    <3> QED
      BY <1>4, <2>1, <3>1 DEF LiveCounted, Warm
  <2> QED
    BY <2>2, <2>3
<1> QED
  BY <1>6, <1>7, <1>8 DEF PoolInv

(* A thread destroys the connection it holds. *)
LEMMA DiscardKeepsInv ==
    ASSUME PoolInv, NEW t \in Threads, pc[t] # "out", Discard(t),
           UNCHANGED << m_idle, m_initialized, connected, inTxn, alive, breaks, seenDead >>
    PROVE  PoolInv'
<1>1. TypeOK /\ LiveCounted /\ LeasesExclusive /\ NoPoisonedIdle
  BY DEF PoolInv
<1>2. /\ held[t] \in Held
      /\ Held' = Held \ {held[t]}
      /\ Cardinality(Held') = Cardinality(Held) - 1
      /\ held' \in [Threads -> Conns \cup {None}]
      /\ pc' \in [Threads -> {"out", "check", "leased"}]
      /\ \A u, v \in Threads : (held'[u] # None /\ held'[u] = held'[v]) => u = v
      /\ \A u \in Threads : held'[u] = None <=> pc'[u] = "out"
  BY <1>1, ReleaseRemovesOne DEF Discard
<1>3. m_live' = m_live - 1 /\ retired' = retired \cup {held[t]}
  BY DEF Discard
<1>4. TypeOK'
  BY <1>1, <1>2, <1>3, HeldFinite DEF TypeOK
<1>5. LeasesExclusive' /\ NoPoisonedIdle'
  BY <1>1, <1>2, <1>3 DEF LeasesExclusive, NoPoisonedIdle
<1>6. LiveCounted'
  <2>1. /\ Cardinality(Held) \in Nat /\ Cardinality(m_idle) \in Nat
        /\ Warm \in Nat /\ POOL_MAX \in Nat
    BY <1>1, HeldFinite, PoolAssumption DEF Warm
  <2> QED
    BY <1>1, <1>2, <1>3, <2>1 DEF LiveCounted, Warm
<1> QED
  BY <1>4, <1>5, <1>6 DEF PoolInv

(* A thread returns the connection it holds, which is not in a transaction. *)
LEMMA PoolsKeepsInv ==
    ASSUME PoolInv, NEW t \in Threads, pc[t] # "out", held[t] \notin inTxn, Pools(t),
           UNCHANGED << m_initialized, connected, inTxn, alive, breaks, seenDead >>
    PROVE  PoolInv'
<1>1. TypeOK /\ LiveCounted /\ LeasesExclusive /\ NoPoisonedIdle
  BY DEF PoolInv
<1>2. /\ held[t] \in Held
      /\ Held' = Held \ {held[t]}
      /\ Cardinality(Held') = Cardinality(Held) - 1
      /\ held' \in [Threads -> Conns \cup {None}]
      /\ pc' \in [Threads -> {"out", "check", "leased"}]
      /\ \A u, v \in Threads : (held'[u] # None /\ held'[u] = held'[v]) => u = v
      /\ \A u \in Threads : held'[u] = None <=> pc'[u] = "out"
  BY <1>1, ReleaseRemovesOne DEF Pools
<1>3. m_live' = m_live /\ retired' = retired /\ m_idle' = m_idle \cup {held[t]}
  BY DEF Pools
<1>4. held[t] \notin m_idle /\ held[t] \notin retired
  BY <1>1, <1>2 DEF LeasesExclusive
<1>5. TypeOK'
  BY <1>1, <1>2, <1>3, HeldFinite DEF TypeOK
<1>6. LeasesExclusive' /\ NoPoisonedIdle'
  BY <1>1, <1>2, <1>3, <1>4 DEF LeasesExclusive, NoPoisonedIdle
<1>7. LiveCounted'
  <2>1. /\ Cardinality(Held) \in Nat /\ Cardinality(m_idle) \in Nat /\ IsFiniteSet(m_idle)
        /\ Warm \in Nat /\ POOL_MAX \in Nat
    BY <1>1, HeldFinite, PoolAssumption DEF Warm
  <2>2. Cardinality(m_idle') = Cardinality(m_idle) + 1
    BY <1>3, <1>4, <2>1, FS_AddElement
  <2> QED
    BY <1>1, <1>2, <1>3, <2>1, <2>2 DEF LiveCounted, Warm
<1> QED
  BY <1>5, <1>6, <1>7 DEF PoolInv

(* In every reachable state of the pool, however the host thread and the   *)
(* persistence thread interleave Acquire, revival and Return and whatever  *)
(* connections break: m_live counts the open connections and stays within  *)
(* the limit, a connection is leased to one thread at a time, and no idle  *)
(* connection is in a transaction.                                         *)
THEOREM PoolCorrect == Spec => []PoolInv
<1>1. Init => PoolInv
  <2> SUFFICES ASSUME Init PROVE PoolInv
    OBVIOUS
  <2>1. TypeOK
    <3>1. m_idle \subseteq Conns
      BY DEF Init
    <3>2. IsFiniteSet(m_idle) /\ Cardinality(m_idle) \in Nat
      BY <3>1, PoolAssumption, FS_Subset, FS_CardinalityType
    <3> QED
      BY <3>1, <3>2, PoolAssumption DEF Init, TypeOK
  <2>2. Held = {}
    BY DEF Init, Held
  <2>3. LiveCounted
    <3>1. /\ Cardinality(Held) = 0 /\ m_live = Cardinality(m_idle) /\ Cardinality(m_idle) <= Warm
          /\ Cardinality(m_idle) \in Nat /\ POOL_MAX \in Nat /\ Warm \in Nat
      BY <2>1, <2>2, HeldFinite, FS_EmptySet, PoolAssumption DEF Init, Warm
    <3> QED
      BY <3>1 DEF LiveCounted, Warm
  <2>4. LeasesExclusive /\ NoPoisonedIdle
    BY <2>2 DEF Init, LeasesExclusive, NoPoisonedIdle
  <2> QED
    BY <2>1, <2>3, <2>4 DEF PoolInv
<1>2. PoolInv /\ [Next]_vars => PoolInv'
  <2> SUFFICES ASSUME PoolInv, [Next]_vars PROVE PoolInv'
    OBVIOUS
  <2>1. TypeOK /\ LiveCounted /\ LeasesExclusive /\ NoPoisonedIdle
    BY DEF PoolInv
  <2>2. ASSUME NEW t \in Threads, Acquire(t) PROVE PoolInv'
    BY <2>2, AcquireKeepsInv DEF Acquire
  <2>3. ASSUME NEW t \in Threads, NEW revived \in BOOLEAN, CheckConnected(t, revived) PROVE PoolInv'
    <3>1. CASE held[t] \in connected \/ revived
      <4>1. /\ pc[t] = "check" /\ pc' = [pc EXCEPT ![t] = "leased"]
            /\ connected' = connected \cup {held[t]}
            /\ alive' = IF held[t] \in connected THEN alive ELSE alive \cup {held[t]}
            /\ UNCHANGED << m_idle, m_initialized, inTxn, breaks, seenDead, m_live, retired, held >>
        BY <2>3, <3>1 DEF CheckConnected
      <4>2. held[t] \in Conns /\ Held' = Held
        BY <2>1, <4>1 DEF TypeOK, LeasesExclusive, Held
      <4>3. TypeOK'
        BY <2>1, <4>1, <4>2 DEF TypeOK
      <4>4. LeasesExclusive'
        BY <2>1, <4>1, <4>2 DEF TypeOK, LeasesExclusive
      <4> QED
        BY <2>1, <4>1, <4>2, <4>3, <4>4 DEF PoolInv, LiveCounted, NoPoisonedIdle
    <3>2. CASE ~(held[t] \in connected \/ revived)
      <4>1. /\ pc[t] # "out" /\ Discard(t)
            /\ UNCHANGED << m_idle, m_initialized, connected, inTxn, alive, breaks, seenDead >>
        BY <2>3, <3>2 DEF CheckConnected
      <4> QED
        BY <4>1, DiscardKeepsInv
    <3> QED
      BY <3>1, <3>2
  <2>4. ASSUME NEW t \in Threads, StatementFails(t) PROVE PoolInv'
    <3>1. held[t] \in Conns
      BY <2>1, <2>4 DEF StatementFails, TypeOK, LeasesExclusive
    <3> QED
      BY <2>1, <2>4, <3>1
         DEF StatementFails, PoolInv, TypeOK, LiveCounted, LeasesExclusive, NoPoisonedIdle, Held
  <2>5. ASSUME NEW t \in Threads, BeginTransaction(t) PROVE PoolInv'
    <3>1. held[t] \in Held /\ held[t] \in Conns
      BY <2>1, <2>5 DEF BeginTransaction, TypeOK, LeasesExclusive, Held
    <3>2. held[t] \notin m_idle
      BY <2>1, <3>1 DEF LeasesExclusive
    <3> QED
      BY <2>1, <2>5, <3>1, <3>2
         DEF BeginTransaction, PoolInv, TypeOK, LiveCounted, LeasesExclusive, NoPoisonedIdle, Held
  <2>6. ASSUME NEW t \in Threads, EndTransaction(t) PROVE PoolInv'
    BY <2>1, <2>6
       DEF EndTransaction, PoolInv, TypeOK, LiveCounted, LeasesExclusive, NoPoisonedIdle, Held
  <2>7. ASSUME NEW t \in Threads, Return(t) PROVE PoolInv'
    <3>1. /\ pc[t] # "out"
          /\ UNCHANGED << m_initialized, connected, inTxn, alive, breaks, seenDead >>
          /\ (Discard(t) /\ UNCHANGED m_idle) \/ (held[t] \notin inTxn /\ Pools(t))
      BY <2>7 DEF Return
    <3> QED
      BY <3>1, DiscardKeepsInv, PoolsKeepsInv
  <2>8. ASSUME NEW c \in Conns, Break(c) PROVE PoolInv'
    <3>1. breaks' \in 0 .. MAX_BREAKS
      BY <2>1, <2>8, PoolAssumption DEF Break, TypeOK
    <3> QED
      BY <2>1, <2>8, <3>1
         DEF Break, PoolInv, TypeOK, LiveCounted, LeasesExclusive, NoPoisonedIdle, Held
  <2>9. CASE Shutdown
    <3>1. /\ Held = {} /\ Held' = {} /\ m_idle' = {} /\ m_live' = 0
          /\ retired' = retired \cup m_idle /\ m_initialized' = FALSE
          /\ UNCHANGED << connected, inTxn, pc, held, alive, breaks, seenDead >>
      BY <2>9 DEF Shutdown, Held
    <3>2. LiveCounted'
      BY <3>1, FS_EmptySet, PoolAssumption DEF LiveCounted, Warm
    <3>3. TypeOK' /\ NoPoisonedIdle'
      <4>1. m_initialized' \in BOOLEAN
        BY <3>1
      <4>2. m_idle' \subseteq Conns /\ retired' \subseteq Conns /\ m_live' \in Int
        BY <2>1, <3>1 DEF TypeOK
      <4>3. TypeOK'
        BY <2>1, <3>1, <4>1, <4>2 DEF TypeOK
      <4> QED
        BY <3>1, <4>3 DEF NoPoisonedIdle
    <3>4. LeasesExclusive'
      BY <2>1, <3>1 DEF LeasesExclusive
    <3> QED
      BY <3>2, <3>3, <3>4 DEF PoolInv
  <2>10. CASE UNCHANGED vars
    BY <2>1, <2>10 DEF vars, PoolInv, TypeOK, LiveCounted, LeasesExclusive, NoPoisonedIdle, Held
  <2> QED
    BY <2>2, <2>3, <2>4, <2>5, <2>6, <2>7, <2>8, <2>9, <2>10 DEF Next
<1> QED
  BY <1>1, <1>2, PTL DEF Spec

(***************************************************************************)
(* The write-behind queue                                                  *)
(***************************************************************************)
(* What BehindInv needs to be inductive: the times of the watermark, the   *)
(* flush and the present are in order; the queued rows are newer than the  *)
(* flush, in the order of their times; the batch has one row of an entity, *)
(* newer than what the database has of it.                                 *)
TimesOrdered ==
    /\ rpoWatermark <= flushTime /\ flushTime <= now
    /\ \A e \in Entities : pushed[e] <= now /\ durable[e] <= flushTime

QueueOrdered ==
    \A i \in 1 .. Len(m_wbQueue) :
        /\ flushTime < m_wbQueue[i].time
        /\ m_wbQueue[i].time <= pushed[m_wbQueue[i].entity]
        /\ \A j \in 1 .. Len(m_wbQueue) : i < j => m_wbQueue[i].time < m_wbQueue[j].time

BatchNewer ==
    /\ ~flushing => batch = {}
    /\ \A r \in batch :
          /\ durable[r.entity] < r.time /\ r.time <= flushTime /\ r.time <= pushed[r.entity]
          /\ \A s \in batch : s.entity = r.entity => s = r

BehindIInv == Behind!BehindInv /\ TimesOrdered /\ QueueOrdered /\ BatchNewer

(* A push: the queue ends with the row, and before it has what it had,     *)
(* without the oldest row if it was full.                                  *)
LEMMA PushKeepsTheRest ==
    ASSUME NEW S, NEW s \in Seq(S), NEW row \in S, CAPACITY \in Nat \ {0}, Len(s) <= CAPACITY
    PROVE  \E d \in {0, 1}, n \in Nat :
              /\ d = IF Len(s) >= CAPACITY THEN 1 ELSE 0
              /\ n = Len(s) - d
              /\ Behind!Push(s, row) \in Seq(S)
              /\ Len(Behind!Push(s, row)) = n + 1
              /\ n + 1 <= CAPACITY
              /\ \A i \in 1 .. n : Behind!Push(s, row)[i] = s[i + d]
              /\ Behind!Push(s, row)[n + 1] = row
<1>1. CASE Len(s) >= CAPACITY
  <2>1. PICK n \in Nat : n = Len(s) - 1
    BY <1>1
  <2>2. s # << >>
    BY <1>1
  <2>3. /\ Tail(s) \in Seq(S) /\ Len(Tail(s)) = n
        /\ \A i \in 1 .. n : Tail(s)[i] = s[i + 1]
    BY <2>1, <2>2, HeadTailProperties
  <2>4. PICK q : q = Append(Tail(s), row)
    OBVIOUS
  <2>5. /\ q \in Seq(S) /\ Len(q) = n + 1
        /\ \A i \in 1 .. n : q[i] = Tail(s)[i]
        /\ q[n + 1] = row
    BY <2>3, <2>4, AppendProperties
  <2>6. Behind!Push(s, row) = q
    BY <1>1, <2>4 DEF Behind!Push
  <2> QED
    BY <1>1, <2>1, <2>3, <2>5, <2>6
<1>2. CASE ~(Len(s) >= CAPACITY)
  <2>1. PICK n \in Nat : n = Len(s)
    OBVIOUS
  <2>2. PICK q : q = Append(s, row)
    OBVIOUS
  <2>3. /\ q \in Seq(S) /\ Len(q) = n + 1
        /\ \A i \in 1 .. n : q[i] = s[i]
        /\ q[n + 1] = row
    BY <2>1, <2>2, AppendProperties
  <2>4. Behind!Push(s, row) = q
    BY <1>2, <2>2 DEF Behind!Push
  <2> QED
    BY <1>2, <2>1, <2>3, <2>4
<1> QED
  BY <1>1, <1>2

(* The rows of a sequence are its elements. *)
LEMMA RowsAreElements ==
    ASSUME NEW S, NEW s \in Seq(S), NEW x
    PROVE  x \in Behind!ToSet(s) <=> \E i \in 1 .. Len(s) : s[i] = x
<1>1. DOMAIN s = 1 .. Len(s)
  OBVIOUS
<1> QED
  BY <1>1 DEF Behind!ToSet

(* A row is pushed while the worker does what it does. *)
LEMMA EnqueueKeepsInv ==
    ASSUME CAPACITY \in Nat \ {0}, BehindIInv, NEW e \in Entities, Behind!EnqueueWriteBehind(e)
    PROVE  BehindIInv'
<1>1. /\ Behind!TypeOK /\ Behind!NewestSurvives /\ Behind!WatermarkHonest
      /\ TimesOrdered /\ QueueOrdered /\ BatchNewer
  BY DEF BehindIInv, Behind!BehindInv
<1>2. /\ m_wbQueue \in Seq(Behind!Row) /\ Len(m_wbQueue) <= CAPACITY
      /\ now \in Nat /\ flushTime \in Nat /\ rpoWatermark \in Nat
      /\ pushed \in [Entities -> Nat] /\ durable \in [Entities -> Nat]
  BY <1>1 DEF Behind!TypeOK
<1>3. PICK row : row = [entity |-> e, time |-> now + 1]
  OBVIOUS
<1>4. row \in Behind!Row /\ row.entity = e /\ row.time = now + 1
  BY <1>2, <1>3 DEF Behind!Row
<1>5. /\ now' = now + 1
      /\ m_wbQueue' = Behind!Push(m_wbQueue, row)
      /\ droppedRows' = IF Len(m_wbQueue) >= CAPACITY
                        THEN droppedRows \cup {Head(m_wbQueue)} ELSE droppedRows
      /\ pushed' = [pushed EXCEPT ![e] = now + 1]
      /\ UNCHANGED << batch, flushing, flushTime, rpoWatermark, durable, failedRows >>
  BY <1>3 DEF Behind!EnqueueWriteBehind
<1>6. PICK d \in {0, 1}, n \in Nat :
              /\ d = IF Len(m_wbQueue) >= CAPACITY THEN 1 ELSE 0
              /\ n = Len(m_wbQueue) - d
              /\ m_wbQueue' \in Seq(Behind!Row)
              /\ Len(m_wbQueue') = n + 1
              /\ n + 1 <= CAPACITY
              /\ \A i \in 1 .. n : m_wbQueue'[i] = m_wbQueue[i + d]
              /\ m_wbQueue'[n + 1] = row
  <2>1. PICK s \in Seq(Behind!Row) : s = m_wbQueue
    BY <1>2
  <2>2. PICK q : q = Behind!Push(s, row)
    OBVIOUS
  <2>3. \E d \in {0, 1}, n \in Nat :
              /\ d = IF Len(s) >= CAPACITY THEN 1 ELSE 0
              /\ n = Len(s) - d
              /\ q \in Seq(Behind!Row)
              /\ Len(q) = n + 1
              /\ n + 1 <= CAPACITY
              /\ \A i \in 1 .. n : q[i] = s[i + d]
              /\ q[n + 1] = row
    BY <1>2, <1>4, <2>1, <2>2, PushKeepsTheRest DEF Behind!Push
  <2>4. m_wbQueue' = q
    BY <1>5, <2>1, <2>2 DEF Behind!Push
  <2> QED
    BY <2>1, <2>3, <2>4
<1>7. d = 1 => /\ Head(m_wbQueue) = m_wbQueue[1] /\ Head(m_wbQueue) \in Behind!Row
               /\ droppedRows' = droppedRows \cup {Head(m_wbQueue)}
  <2>1. d = 1 => m_wbQueue # << >>
    BY <1>2, <1>6
  <2> QED
    BY <1>2, <1>5, <1>6, <2>1
<1>8. droppedRows \subseteq droppedRows' /\ droppedRows' \subseteq Behind!Row
  BY <1>1, <1>5, <1>6, <1>7 DEF Behind!TypeOK
<1>9. \A i \in 1 .. n : i + d \in 1 .. Len(m_wbQueue)
  BY <1>2, <1>6
<1>10. \A i \in 1 .. Len(m_wbQueue) : m_wbQueue[i].time \in Nat /\ m_wbQueue[i].entity \in Entities
  <2>1. \A i \in 1 .. Len(m_wbQueue) : m_wbQueue[i] \in Behind!Row
    BY <1>2
  <2> QED
    BY <2>1 DEF Behind!Row
<1>11. /\ pushed' \in [Entities -> Nat] /\ pushed'[e] = now + 1
       /\ \A f \in Entities : pushed[f] <= pushed'[f] /\ (f # e => pushed'[f] = pushed[f])
  <2>1. \A f \in Entities : pushed[f] \in Nat /\ pushed[f] <= now
    BY <1>1, <1>2 DEF TimesOrdered
  <2> QED
    BY <1>2, <1>5, <2>1
<1>12. Behind!TypeOK'
  BY <1>1, <1>5, <1>6, <1>8, <1>11 DEF Behind!TypeOK
<1>13. TimesOrdered'
  BY <1>1, <1>2, <1>5, <1>11 DEF TimesOrdered
<1>14. QueueOrdered'
  <2> SUFFICES ASSUME NEW i \in 1 .. (n + 1)
               PROVE  /\ flushTime < m_wbQueue'[i].time
                      /\ m_wbQueue'[i].time <= pushed'[m_wbQueue'[i].entity]
                      /\ \A j \in 1 .. (n + 1) : i < j => m_wbQueue'[i].time < m_wbQueue'[j].time
    BY <1>5, <1>6 DEF QueueOrdered
  <2>1. CASE i = n + 1
    BY <1>1, <1>2, <1>4, <1>6, <1>11, <2>1 DEF TimesOrdered
  <2>2. CASE i \in 1 .. n
    <3>1. PICK k \in 1 .. Len(m_wbQueue) : k = i + d /\ m_wbQueue'[i] = m_wbQueue[k]
      BY <1>6, <1>9, <2>2
    <3>2. /\ m_wbQueue[k].time \in Nat /\ m_wbQueue[k].entity \in Entities
          /\ flushTime < m_wbQueue[k].time
          /\ m_wbQueue[k].time <= pushed[m_wbQueue[k].entity]
          /\ \A j \in 1 .. Len(m_wbQueue) : k < j => m_wbQueue[k].time < m_wbQueue[j].time
      BY <1>1, <1>10 DEF QueueOrdered
    <3>3. m_wbQueue[k].time <= pushed'[m_wbQueue[k].entity]
      BY <1>2, <1>11, <3>2
    <3>4. ASSUME NEW j \in 1 .. (n + 1), i < j PROVE m_wbQueue'[i].time < m_wbQueue'[j].time
      <4>1. CASE j = n + 1
        <5>1. m_wbQueue[k].time <= now
          BY <1>1, <1>2, <3>2 DEF TimesOrdered
        <5>2. m_wbQueue'[j].time = now + 1
          BY <1>4, <1>6, <4>1
        <5> QED
          BY <1>2, <3>1, <3>2, <5>1, <5>2
      <4>2. CASE j \in 1 .. n
        <5>1. j + d \in 1 .. Len(m_wbQueue) /\ m_wbQueue'[j] = m_wbQueue[j + d] /\ k < j + d
          BY <1>6, <1>9, <3>1, <3>4, <4>2
        <5> QED
          BY <3>1, <3>2, <5>1
      <4> QED
        BY <4>1, <4>2
    <3> QED
      BY <3>1, <3>2, <3>3, <3>4
  <2> QED
    BY <2>1, <2>2
<1>15. BatchNewer'
  <2>1. \A r \in batch : r.time \in Nat /\ r.entity \in Entities
    BY <1>1 DEF Behind!TypeOK, Behind!Row
  <2>2. \A r \in batch : r.time <= pushed'[r.entity]
    BY <1>1, <1>2, <1>11, <2>1 DEF BatchNewer
  <2> QED
    BY <1>1, <1>5, <2>2 DEF BatchNewer
<1>16. Behind!NewestSurvives'
  <2> SUFFICES ASSUME NEW f \in Entities, pushed'[f] # 0
               PROVE  \/ durable[f] = pushed'[f]
                      \/ [entity |-> f, time |-> pushed'[f]]
                            \in Behind!ToSet(m_wbQueue') \cup batch \cup droppedRows' \cup failedRows
    BY <1>5 DEF Behind!NewestSurvives
  <2>1. CASE f = e
    <3>1. [entity |-> f, time |-> pushed'[f]] = row
      BY <1>3, <1>11, <2>1
    <3>2. row \in Behind!ToSet(m_wbQueue')
      BY <1>6, RowsAreElements
    <3> QED
      BY <3>1, <3>2
  <2>2. CASE f # e
    <3>1. PICK old : old = [entity |-> f, time |-> pushed[f]]
      OBVIOUS
    <3>2. pushed'[f] = pushed[f] /\ old = [entity |-> f, time |-> pushed'[f]]
      BY <1>11, <2>2, <3>1
    <3>3. \/ durable[f] = pushed[f]
          \/ old \in Behind!ToSet(m_wbQueue) \cup batch \cup droppedRows \cup failedRows
      BY <1>1, <3>1, <3>2 DEF Behind!NewestSurvives
    <3>4. ASSUME old \in Behind!ToSet(m_wbQueue)
          PROVE  old \in Behind!ToSet(m_wbQueue') \cup droppedRows'
      <4>1. PICK i \in 1 .. Len(m_wbQueue) : m_wbQueue[i] = old
        BY <1>2, <3>4, RowsAreElements
      <4>2. CASE d = 1 /\ i = 1
        BY <1>7, <4>1, <4>2
      <4>3. CASE ~(d = 1 /\ i = 1)
        <5>3. /\ i \in Nat /\ 1 <= i /\ i <= n + d /\ n \in Nat
              /\ d = 0 \/ (d = 1 /\ i # 1)
          <6>1. PICK k \in Nat : k = Len(m_wbQueue)
            BY <1>2
          <6>2. i \in Nat /\ 1 <= i /\ i <= k
            BY <6>1
          <6>3. n = k - d /\ d \in {0, 1}
            BY <1>6, <6>1
          <6> QED
            BY <4>3, <6>2, <6>3
        <5>1. i - d \in 1 .. n /\ (i - d) + d = i /\ i - d \in 1 .. (n + 1)
          BY <5>3
        <5>2. m_wbQueue'[i - d] = old
          BY <1>6, <4>1, <5>1
        <5> QED
          BY <1>6, <5>1, <5>2, RowsAreElements
      <4> QED
        BY <4>2, <4>3
    <3> QED
      BY <1>8, <3>2, <3>3, <3>4
  <2> QED
    BY <2>1, <2>2
<1>17. Behind!WatermarkHonest'
  <2> SUFFICES ASSUME NEW f \in Entities, 0 < pushed'[f], pushed'[f] <= rpoWatermark
               PROVE  \/ durable[f] = pushed'[f]
                      \/ [entity |-> f, time |-> pushed'[f]] \in droppedRows' \cup failedRows
    BY <1>5 DEF Behind!WatermarkHonest
  <2>1. f # e
    BY <1>1, <1>2, <1>11 DEF TimesOrdered
  <2>2. pushed'[f] = pushed[f]
    BY <1>11, <2>1
  <2> QED
    BY <1>1, <1>8, <2>2 DEF Behind!WatermarkHonest
<1> QED
  BY <1>12, <1>13, <1>14, <1>15, <1>16, <1>17 DEF BehindIInv, Behind!BehindInv

(* The worker drains the queue: the newest row of an entity is the last of *)
(* its rows, and coalescing keeps it.                                      *)
LEMMA FlushKeepsInv ==
    ASSUME CAPACITY \in Nat \ {0}, BehindIInv, Behind!FlushWriteBehindIfDue
    PROVE  BehindIInv'
<1>1. /\ Behind!TypeOK /\ Behind!NewestSurvives /\ Behind!WatermarkHonest
      /\ TimesOrdered /\ QueueOrdered /\ BatchNewer
  BY DEF BehindIInv, Behind!BehindInv
<1>2. /\ m_wbQueue \in Seq(Behind!Row)
      /\ now \in Nat /\ flushTime \in Nat /\ rpoWatermark \in Nat
      /\ pushed \in [Entities -> Nat] /\ durable \in [Entities -> Nat]
  BY <1>1 DEF Behind!TypeOK
<1>3. /\ ~flushing /\ m_wbQueue' = << >> /\ flushTime' = now
      /\ UNCHANGED << durable, now, pushed, droppedRows, failedRows >>
  BY DEF Behind!FlushWriteBehindIfDue
<1>4. batch = {}
  BY <1>1, <1>3 DEF BatchNewer
<1>5. \A i \in 1 .. Len(m_wbQueue) :
         /\ m_wbQueue[i] \in Behind!Row
         /\ m_wbQueue[i].time \in Nat /\ m_wbQueue[i].entity \in Entities
  <2>1. \A i \in 1 .. Len(m_wbQueue) : m_wbQueue[i] \in Behind!Row
    BY <1>2
  <2> QED
    BY <2>1 DEF Behind!Row
<1>6. Len(m_wbQueue') = 0 /\ m_wbQueue' \in Seq(Behind!Row) /\ Len(m_wbQueue) \in Nat
  BY <1>2, <1>3
<1>7. TimesOrdered' /\ QueueOrdered'
  <2>1. rpoWatermark' \in Nat /\ rpoWatermark' <= now
    BY <1>1, <1>2 DEF Behind!FlushWriteBehindIfDue, TimesOrdered
  <2>2. \A e \in Entities : pushed[e] <= now /\ durable[e] <= now
    BY <1>1, <1>2 DEF TimesOrdered
  <2> QED
    BY <1>2, <1>3, <1>6, <2>1, <2>2 DEF TimesOrdered, QueueOrdered
<1>8. CASE m_wbQueue = << >>
  <2>1. rpoWatermark' = now /\ UNCHANGED << flushing, batch >>
    BY <1>8 DEF Behind!FlushWriteBehindIfDue
  <2>2. Behind!TypeOK'
    BY <1>1, <1>2, <1>3, <1>6, <2>1 DEF Behind!TypeOK
  <2>3. BatchNewer'
    BY <1>4, <2>1 DEF BatchNewer
  <2>4. m_wbQueue' = m_wbQueue
    BY <1>3, <1>8
  <2>5. Behind!NewestSurvives'
    BY <1>1, <1>3, <2>1, <2>4 DEF Behind!NewestSurvives
  <2>6. Behind!WatermarkHonest'
    <3> SUFFICES ASSUME NEW e \in Entities, 0 < pushed[e], pushed[e] <= now
                 PROVE  \/ durable[e] = pushed[e]
                        \/ [entity |-> e, time |-> pushed[e]] \in droppedRows \cup failedRows
      BY <1>3, <2>1 DEF Behind!WatermarkHonest
    <3>1. \A x : x \notin Behind!ToSet(m_wbQueue)
      BY <1>2, <1>3, <1>6, <2>4, RowsAreElements DEF Behind!ToSet
    <3>2. pushed[e] # 0
      BY <1>2
    <3> QED
      BY <1>1, <1>4, <3>1, <3>2 DEF Behind!NewestSurvives
  <2> QED
    BY <1>7, <2>2, <2>3, <2>5, <2>6 DEF BehindIInv, Behind!BehindInv
<1>9. CASE m_wbQueue # << >>
  <2>1. flushing' = TRUE /\ batch' = Behind!Coalesce(m_wbQueue) /\ rpoWatermark' = rpoWatermark
    BY <1>9 DEF Behind!FlushWriteBehindIfDue
  <2>2. DOMAIN m_wbQueue = 1 .. Len(m_wbQueue)
    BY <1>2
  <2>3. batch' = { m_wbQueue[i] : i \in { j \in 1 .. Len(m_wbQueue) :
                        \A k \in j + 1 .. Len(m_wbQueue) : m_wbQueue[k].entity # m_wbQueue[j].entity } }
    BY <2>1, <2>2 DEF Behind!Coalesce
  <2>4. ASSUME NEW r \in batch'
        PROVE  \E i \in 1 .. Len(m_wbQueue) :
                  /\ r = m_wbQueue[i]
                  /\ \A k \in 1 .. Len(m_wbQueue) : k > i => m_wbQueue[k].entity # r.entity
    <3>1. PICK i \in 1 .. Len(m_wbQueue) :
             /\ r = m_wbQueue[i]
             /\ \A k \in i + 1 .. Len(m_wbQueue) : m_wbQueue[k].entity # m_wbQueue[i].entity
      BY <2>3, <2>4
    <3>2. \A k \in 1 .. Len(m_wbQueue) : k > i => k \in i + 1 .. Len(m_wbQueue)
      BY <1>6
    <3> QED
      BY <3>1, <3>2
  <2>5. Behind!TypeOK'
    <3>1. batch' \subseteq Behind!Row
      BY <1>5, <2>4
    <3>2. flushing' \in BOOLEAN
      BY <2>1
    <3> QED
      BY <1>1, <1>2, <1>3, <1>6, <2>1, <3>1, <3>2 DEF Behind!TypeOK
  <2>6. BatchNewer'
    <3>1. ASSUME NEW r \in batch'
          PROVE  durable[r.entity] < r.time /\ r.time <= now /\ r.time <= pushed[r.entity]
      <4>1. PICK i \in 1 .. Len(m_wbQueue) : r = m_wbQueue[i]
        BY <2>4
      <4>2. /\ r.time \in Nat /\ r.entity \in Entities
            /\ flushTime < r.time /\ r.time <= pushed[r.entity]
        BY <1>1, <1>5, <4>1 DEF QueueOrdered
      <4>3. /\ pushed[r.entity] \in Nat /\ durable[r.entity] \in Nat
            /\ pushed[r.entity] <= now /\ durable[r.entity] <= flushTime
        BY <1>1, <1>2, <4>2 DEF TimesOrdered
      <4> QED
        BY <1>2, <4>2, <4>3
    <3>2. ASSUME NEW r \in batch', NEW s \in batch', s.entity = r.entity PROVE s = r
      <4>1. PICK i \in 1 .. Len(m_wbQueue) :
               /\ r = m_wbQueue[i]
               /\ \A k \in 1 .. Len(m_wbQueue) : k > i => m_wbQueue[k].entity # r.entity
        BY <2>4
      <4>2. PICK j \in 1 .. Len(m_wbQueue) :
               /\ s = m_wbQueue[j]
               /\ \A k \in 1 .. Len(m_wbQueue) : k > j => m_wbQueue[k].entity # s.entity
        BY <2>4
      <4>3. ~(i > j) /\ ~(j > i)
        BY <3>2, <4>1, <4>2
      <4>4. i = j
        BY <1>6, <4>3
      <4> QED
        BY <4>1, <4>2, <4>4
    <3> QED
      BY <1>3, <2>1, <3>1, <3>2 DEF BatchNewer
  <2>7. Behind!NewestSurvives'
    <3> SUFFICES ASSUME NEW e \in Entities, pushed[e] # 0
                 PROVE  \/ durable[e] = pushed[e]
                        \/ [entity |-> e, time |-> pushed[e]] \in batch' \cup droppedRows \cup failedRows
      BY <1>3 DEF Behind!NewestSurvives
    <3>1. PICK row : row = [entity |-> e, time |-> pushed[e]]
      OBVIOUS
    <3>2. \/ durable[e] = pushed[e]
          \/ row \in Behind!ToSet(m_wbQueue) \cup droppedRows \cup failedRows
      BY <1>1, <1>4, <3>1 DEF Behind!NewestSurvives
    <3>3. ASSUME row \in Behind!ToSet(m_wbQueue) PROVE row \in batch'
      <4>1. PICK i \in 1 .. Len(m_wbQueue) : m_wbQueue[i] = row
        BY <2>2, <3>3 DEF Behind!ToSet
      <4>2. ASSUME NEW k \in i + 1 .. Len(m_wbQueue), m_wbQueue[k].entity = row.entity
            PROVE  FALSE
        <5>1. k \in 1 .. Len(m_wbQueue) /\ i < k
          BY <1>6, <4>2
        <5>2. /\ m_wbQueue[i].time < m_wbQueue[k].time
              /\ m_wbQueue[k].time <= pushed[m_wbQueue[k].entity]
          BY <1>1, <5>1 DEF QueueOrdered
        <5>3. /\ m_wbQueue[i].time = pushed[e] /\ m_wbQueue[k].entity = e
              /\ m_wbQueue[k].time \in Nat /\ pushed[e] \in Nat
          BY <1>2, <1>5, <3>1, <4>1, <4>2, <5>1
        <5> QED
          BY <5>2, <5>3
      <4> QED
        BY <2>3, <4>1, <4>2
    <3> QED
      BY <3>1, <3>2, <3>3
  <2>8. Behind!WatermarkHonest'
    BY <1>1, <1>3, <2>1 DEF Behind!WatermarkHonest
  <2> QED
    BY <1>7, <2>5, <2>6, <2>7, <2>8 DEF BehindIInv, Behind!BehindInv
<1> QED
  BY <1>8, <1>9

(* What WriteBatch leaves in the database: the newest row of every entity  *)
(* that was there, or was in the batch.                                    *)
LEMMA WriteBatchKeepsNewest ==
    ASSUME BehindIInv, Behind!WriteBatch
    PROVE  /\ durable' \in [Entities -> Nat]
           /\ \A e \in Entities :
                 /\ durable'[e] <= flushTime
                 /\ durable[e] = pushed[e] => durable'[e] = pushed[e]
                 /\ [entity |-> e, time |-> pushed[e]] \in batch => durable'[e] = pushed[e]
<1>1. Behind!TypeOK /\ TimesOrdered /\ BatchNewer
  BY DEF BehindIInv, Behind!BehindInv
<1>2. /\ durable \in [Entities -> Nat] /\ pushed \in [Entities -> Nat] /\ flushTime \in Nat
      /\ \A r \in batch : r.time \in Nat /\ r.entity \in Entities
  BY <1>1 DEF Behind!TypeOK, Behind!Row
<1>3. durable' = [e \in Entities |->
                 IF \E r \in batch : r.entity = e
                 THEN (CHOOSE r \in batch : r.entity = e).time ELSE durable[e]]
  BY DEF Behind!WriteBatch
<1>4. ASSUME NEW e \in Entities, NEW r \in batch, r.entity = e
      PROVE  durable'[e] = r.time
  <2>1. \A s \in batch : s.entity = e => s = r
    BY <1>1, <1>4 DEF BatchNewer
  <2>2. (CHOOSE s \in batch : s.entity = e) = r
    BY <1>4, <2>1
  <2> QED
    BY <1>3, <1>4, <2>2
<1>5. ASSUME NEW e \in Entities, ~ \E r \in batch : r.entity = e
      PROVE  durable'[e] = durable[e]
  BY <1>3, <1>5
<1>6. ASSUME NEW e \in Entities
      PROVE  /\ durable'[e] \in Nat /\ durable'[e] <= flushTime
             /\ durable[e] = pushed[e] => durable'[e] = pushed[e]
             /\ [entity |-> e, time |-> pushed[e]] \in batch => durable'[e] = pushed[e]
  <2>1. CASE \E r \in batch : r.entity = e
    <3>1. PICK r \in batch : r.entity = e
      BY <2>1
    <3>2. durable'[e] = r.time /\ r.time \in Nat
      BY <1>2, <1>4, <3>1
    <3>3. durable[e] < r.time /\ r.time <= flushTime /\ r.time <= pushed[e]
      BY <1>1, <3>1 DEF BatchNewer
    <3>4. durable[e] # pushed[e]
      BY <1>2, <3>2, <3>3
    <3>5. [entity |-> e, time |-> pushed[e]] \in batch => durable'[e] = pushed[e]
      <4>1. PICK row : row = [entity |-> e, time |-> pushed[e]]
        OBVIOUS
      <4>2. row.entity = e /\ row.time = pushed[e]
        BY <4>1
      <4>3. row \in batch => durable'[e] = row.time
        BY <1>4, <4>2
      <4> QED
        BY <4>1, <4>2, <4>3
    <3> QED
      BY <3>2, <3>3, <3>4, <3>5
  <2>2. CASE ~ \E r \in batch : r.entity = e
    <3>1. durable'[e] = durable[e] /\ durable[e] \in Nat /\ durable[e] <= flushTime
      BY <1>1, <1>2, <1>5, <2>2 DEF TimesOrdered
    <3>2. [entity |-> e, time |-> pushed[e]] \notin batch
      BY <2>2
    <3> QED
      BY <3>1, <3>2
  <2> QED
    BY <2>1, <2>2
<1>7. durable' \in [Entities -> Nat]
  BY <1>3, <1>6
<1> QED
  BY <1>6, <1>7

(* The end of a flush: every row of the batch is in the database or among  *)
(* the failed ones, and nothing queued is as old as the flush, so the      *)
(* watermark may be the time of the flush or stay.                         *)
LEMMA FlushEndKeepsInv ==
    ASSUME CAPACITY \in Nat \ {0}, BehindIInv,
           \/ Behind!WriteBatch
           \/ durable' = durable /\ batch \subseteq failedRows',
           failedRows \subseteq failedRows', failedRows' \subseteq failedRows \cup batch,
           rpoWatermark' \in {rpoWatermark, flushTime},
           flushing' = FALSE, batch' = {},
           UNCHANGED << m_wbQueue, flushTime, now, pushed, droppedRows >>
    PROVE  BehindIInv'
<1>1. /\ Behind!TypeOK /\ Behind!NewestSurvives /\ Behind!WatermarkHonest
      /\ TimesOrdered /\ QueueOrdered /\ BatchNewer
  BY DEF BehindIInv, Behind!BehindInv
<1>2. /\ m_wbQueue \in Seq(Behind!Row)
      /\ now \in Nat /\ flushTime \in Nat /\ rpoWatermark \in Nat
      /\ pushed \in [Entities -> Nat] /\ durable \in [Entities -> Nat]
  BY <1>1 DEF Behind!TypeOK
<1>3. /\ durable' \in [Entities -> Nat]
      /\ \A e \in Entities :
            /\ durable'[e] <= flushTime
            /\ durable[e] = pushed[e] => durable'[e] = pushed[e]
            /\ [entity |-> e, time |-> pushed[e]] \in batch =>
                  durable'[e] = pushed[e] \/ [entity |-> e, time |-> pushed[e]] \in failedRows'
  <2>1. CASE Behind!WriteBatch
    BY <2>1, WriteBatchKeepsNewest
  <2>2. CASE durable' = durable /\ batch \subseteq failedRows'
    BY <1>1, <1>2, <2>2 DEF TimesOrdered
  <2> QED
    BY <2>1, <2>2
<1>4. Behind!TypeOK'
  <2>1. failedRows' \subseteq Behind!Row /\ flushing' \in BOOLEAN /\ rpoWatermark' \in Nat
    BY <1>1, <1>2 DEF Behind!TypeOK
  <2> QED
    BY <1>1, <1>3, <2>1 DEF Behind!TypeOK
<1>5. TimesOrdered' /\ QueueOrdered' /\ BatchNewer'
  <2>1. rpoWatermark' <= flushTime
    BY <1>1, <1>2 DEF TimesOrdered
  <2>2. TimesOrdered'
    BY <1>1, <1>3, <2>1 DEF TimesOrdered
  <2>3. QueueOrdered'
    BY <1>1 DEF QueueOrdered
  <2>4. BatchNewer'
    BY DEF BatchNewer
  <2> QED
    BY <2>2, <2>3, <2>4
<1>6. Behind!NewestSurvives'
  <2>1. m_wbQueue' = m_wbQueue
    OBVIOUS
  <2> SUFFICES ASSUME NEW e \in Entities, pushed[e] # 0
               PROVE  \/ durable'[e] = pushed[e]
                      \/ [entity |-> e, time |-> pushed[e]]
                            \in Behind!ToSet(m_wbQueue) \cup droppedRows \cup failedRows'
    BY <2>1 DEF Behind!NewestSurvives, Behind!ToSet
  <2> QED
    BY <1>1, <1>3 DEF Behind!NewestSurvives
<1>7. Behind!WatermarkHonest'
  <2> SUFFICES ASSUME NEW e \in Entities, 0 < pushed[e], pushed[e] <= flushTime
               PROVE  \/ durable'[e] = pushed[e]
                      \/ [entity |-> e, time |-> pushed[e]] \in droppedRows \cup failedRows'
    <3>1. \A e \in Entities : pushed[e] \in Nat /\ (pushed[e] <= rpoWatermark' => pushed[e] <= flushTime)
      BY <1>1, <1>2 DEF TimesOrdered
    <3> QED
      BY <3>1 DEF Behind!WatermarkHonest
  <2>1. PICK row : row = [entity |-> e, time |-> pushed[e]]
    OBVIOUS
  <2>2. row \notin Behind!ToSet(m_wbQueue)
    <3> SUFFICES ASSUME row \in Behind!ToSet(m_wbQueue) PROVE FALSE
      OBVIOUS
    <3>1. DOMAIN m_wbQueue = 1 .. Len(m_wbQueue)
      BY <1>2
    <3>2. PICK i \in 1 .. Len(m_wbQueue) : m_wbQueue[i] = row
      BY <3>1 DEF Behind!ToSet
    <3>3. flushTime < pushed[e]
      BY <1>1, <2>1, <3>2 DEF QueueOrdered
    <3> QED
      BY <1>2, <3>3
  <2>3. durable[e] = pushed[e] \/ row \in batch \cup droppedRows \cup failedRows
    <3>1. pushed[e] # 0
      BY <1>2
    <3> QED
      BY <1>1, <2>1, <2>2, <3>1 DEF Behind!NewestSurvives
  <2> QED
    BY <1>3, <2>1, <2>3
<1> QED
  BY <1>4, <1>5, <1>6, <1>7 DEF BehindIInv, Behind!BehindInv

LEMMA BehindInitHasInv ==
    ASSUME Behind!Init
    PROVE  BehindIInv
<1>0. CAPACITY \in Nat \ {0}
  BY BehindAssumption
<1>1. /\ m_wbQueue = << >> /\ batch = {} /\ flushing = FALSE
      /\ flushTime = 0 /\ rpoWatermark = 0 /\ now = 0
      /\ durable = [e \in Entities |-> 0] /\ pushed = [e \in Entities |-> 0]
      /\ droppedRows = {} /\ failedRows = {}
  BY DEF Behind!Init
<1>2. m_wbQueue \in Seq(Behind!Row) /\ Len(m_wbQueue) = 0 /\ flushing \in BOOLEAN
  <2>1. flushing \in BOOLEAN
    BY <1>1
  <2>2. << >> \in Seq(Behind!Row) /\ Len(<< >>) = 0
    OBVIOUS
  <2> QED
    BY <1>1, <2>1, <2>2
<1>3. Behind!TypeOK
  BY <1>0, <1>1, <1>2 DEF Behind!TypeOK
<1>4. Behind!NewestSurvives /\ Behind!WatermarkHonest
  BY <1>1 DEF Behind!NewestSurvives, Behind!WatermarkHonest
<1>5. TimesOrdered /\ QueueOrdered /\ BatchNewer
  BY <1>1, <1>2 DEF TimesOrdered, QueueOrdered, BatchNewer
<1> QED
  BY <1>3, <1>4, <1>5 DEF BehindIInv, Behind!BehindInv

LEMMA BehindNextKeepsInv ==
    ASSUME BehindIInv, [Behind!Next]_(Behind!vars)
    PROVE  BehindIInv'
<1>0. CAPACITY \in Nat \ {0}
  BY BehindAssumption
<1>1. ASSUME NEW e \in Entities, Behind!EnqueueWriteBehind(e) PROVE BehindIInv'
  BY <1>0, <1>1, EnqueueKeepsInv
<1>2. CASE Behind!FlushWriteBehindIfDue
  BY <1>0, <1>2, FlushKeepsInv
<1>3. CASE Behind!FlushBatchCommits
  <2>1. /\ Behind!WriteBatch /\ rpoWatermark' = flushTime /\ flushing' = FALSE /\ batch' = {}
        /\ UNCHANGED << m_wbQueue, flushTime, now, pushed, droppedRows >>
        /\ failedRows \subseteq failedRows' /\ failedRows' \subseteq failedRows \cup batch
    BY <1>3 DEF Behind!FlushBatchCommits
  <2> QED
    BY <1>0, <2>1, FlushEndKeepsInv
<1>4. CASE Behind!FlushBatchFails
  <2>1. /\ durable' = durable \/ Behind!WriteBatch
        /\ rpoWatermark' = rpoWatermark /\ flushing' = FALSE /\ batch' = {}
        /\ UNCHANGED << m_wbQueue, flushTime, now, pushed, droppedRows >>
        /\ failedRows \subseteq failedRows' /\ failedRows' \subseteq failedRows \cup batch
        /\ batch \subseteq failedRows'
    BY <1>4 DEF Behind!FlushBatchFails
  <2> QED
    BY <1>0, <2>1, FlushEndKeepsInv
<1>5. CASE UNCHANGED Behind!vars
  <2>1. UNCHANGED << m_wbQueue, batch, flushing, flushTime, rpoWatermark, durable, now, pushed,
                     droppedRows, failedRows >>
    BY <1>5 DEF Behind!vars
  <2>2. Behind!TypeOK' /\ TimesOrdered' /\ QueueOrdered' /\ BatchNewer'
    BY <2>1 DEF BehindIInv, Behind!BehindInv, Behind!TypeOK, TimesOrdered, QueueOrdered, BatchNewer
  <2>3. Behind!NewestSurvives' /\ Behind!WatermarkHonest'
    BY <2>1 DEF BehindIInv, Behind!BehindInv, Behind!NewestSurvives, Behind!WatermarkHonest,
                Behind!ToSet
  <2> QED
    BY <2>2, <2>3 DEF BehindIInv, Behind!BehindInv
<1> QED
  BY <1>1, <1>2, <1>3, <1>4, <1>5 DEF Behind!Next

(* In every reachable state of the write-behind path, for any capacity of  *)
(* MpscBoundedQueue (its constructor makes it at least one) and however    *)
(* pushes interleave with drains, commits and failures: the newest row of  *)
(* an entity is queued, being flushed, durable, dropped by the full queue  *)
(* or of a failed batch, and the rows up to the watermark are durable,     *)
(* dropped or failed.                                                      *)
THEOREM WriteBehindCorrect == MCSpec => []BehindInv
<1>1. MCInit => BehindIInv
  BY BehindInitHasInv DEF MCInit
<1>2. BehindIInv /\ [MCNext]_allVars => BehindIInv'
  <2> SUFFICES ASSUME BehindIInv, [MCNext]_allVars PROVE BehindIInv'
    OBVIOUS
  <2>1. behindVars' = behindVars => UNCHANGED Behind!vars
    BY DEF behindVars, Behind!vars
  <2>2. [Behind!Next]_(Behind!vars)
    BY <2>1 DEF MCNext, AccountsNext, RestartNext, OutboxNext, OdbcNext, BehindNext, EventsNext,
                PoolNext, LayoutNext, CatalogNext, allVars
  <2> QED
    BY <2>2, BehindNextKeepsInv
<1>3. BehindIInv => BehindInv
  BY DEF BehindIInv, BehindInv
<1> QED
  BY <1>1, <1>2, <1>3, PTL DEF MCSpec

(***************************************************************************)
(* The in-memory outbox                                                    *)
(***************************************************************************)
LedgerEntry == [seq : Nat, idemKey : Nat, accountId : OutboxAccounts, delta : Int, balanceAfter : Int]

OutboxTypes ==
    /\ m_log \in Seq(Events)
    /\ m_drainWatermark \in Nat /\ m_drainWatermark <= Len(m_log)
    /\ m_wallet \in [OutboxAccounts -> Int] /\ m_ledger \in Seq(LedgerEntry)
    /\ m_lastAppliedSeq \in Nat /\ m_lastAppliedSeq <= Len(m_log)
    /\ \/ drain = Log!Idle
       \/ /\ drain \in [at : Nat \ {0}, upto : Nat]
          /\ drain.at <= drain.upto + 1 /\ drain.upto <= Len(m_log)

(* The keys of the first n events of the log have been applied. *)
Covers(n) == \A i \in 1 .. n : m_log[i].idemKey \in m_appliedKeys

(* What OutboxInv needs to be inductive: a key that is not among the       *)
(* applied ones is not in the ledger, and both watermarks and the drain    *)
(* under way leave no event behind them unapplied.                         *)
OutboxIInv ==
    /\ OutboxTypes
    /\ Log!LedgerExact
    /\ \A i \in 1 .. Len(m_ledger) : m_ledger[i].idemKey \in m_appliedKeys
    /\ Covers(m_drainWatermark) /\ Covers(m_lastAppliedSeq)
    /\ drain # Log!Idle => Covers(drain.at - 1)

LEMMA OutboxInitHasInv ==
    ASSUME Log!Init
    PROVE  OutboxIInv
<1>1. /\ m_log = << >> /\ m_drainWatermark = 0 /\ m_wallet = [a \in OutboxAccounts |-> 0]
      /\ m_ledger = << >> /\ m_lastAppliedSeq = 0 /\ drain = Log!Idle
  BY DEF Log!Init
<1>2. /\ << >> \in Seq(Events) /\ << >> \in Seq(LedgerEntry) /\ Len(<< >>) = 0
      /\ DOMAIN << >> = {} /\ 1 .. 0 = {}
  OBVIOUS
<1>3. OutboxTypes
  BY <1>1, <1>2 DEF OutboxTypes
<1>4. \A a \in OutboxAccounts : m_wallet[a] = 0
  BY <1>1
<1>5. DOMAIN m_ledger = {} /\ 1 .. Len(m_ledger) = {}
  BY <1>1, <1>2
<1>6. Log!LedgerExact
  BY <1>4, <1>5 DEF Log!LedgerExact, Log!BalanceAt
<1>7. Covers(m_drainWatermark) /\ Covers(m_lastAppliedSeq)
  BY <1>1, <1>2 DEF Covers
<1> QED
  BY <1>1, <1>3, <1>5, <1>6, <1>7 DEF OutboxIInv

(* A new entry at the end of the ledger: balances of the entries before it *)
(* stay what they were, its account's balance is its own, and the other    *)
(* accounts keep theirs.                                                   *)
LEMMA EntryKeepsBalances ==
    ASSUME m_ledger \in Seq(LedgerEntry), NEW new \in LedgerEntry, m_ledger' = Append(m_ledger, new),
           NEW n \in Nat, Len(m_ledger) = n
    PROVE  /\ m_ledger' \in Seq(LedgerEntry) /\ Len(m_ledger') = n + 1
           /\ m_ledger'[n + 1] = new /\ \A i \in 1 .. n : m_ledger'[i] = m_ledger[i]
           /\ \A a, b : \A k \in 0 .. n : Log!BalanceAt(a, k, b) => Log!BalanceAt(a, k, b)'
           /\ \A a, b : (a # new.accountId /\ Log!BalanceAt(a, n, b)) => Log!BalanceAt(a, n + 1, b)'
           /\ Log!BalanceAt(new.accountId, n + 1, new.balanceAfter)'
<1>1. /\ m_ledger' \in Seq(LedgerEntry) /\ Len(m_ledger') = n + 1 /\ m_ledger'[n + 1] = new
      /\ \A i \in 1 .. n : m_ledger'[i] = m_ledger[i]
  OBVIOUS
<1>2. ASSUME NEW a, NEW b, NEW k \in 0 .. n, Log!BalanceAt(a, k, b)
      PROVE  Log!BalanceAt(a, k, b)'
  <2>1. \A i \in 1 .. k : m_ledger'[i] = m_ledger[i]
    BY <1>1
  <2>2. CASE b = 0 /\ \A i \in 1 .. k : m_ledger[i].accountId # a
    BY <2>1, <2>2 DEF Log!BalanceAt
  <2>3. CASE \E i \in 1 .. k :
               /\ m_ledger[i].accountId = a /\ m_ledger[i].balanceAfter = b
               /\ \A j \in i + 1 .. k : m_ledger[j].accountId # a
    <3>1. PICK i \in 1 .. k :
            /\ m_ledger[i].accountId = a /\ m_ledger[i].balanceAfter = b
            /\ \A j \in i + 1 .. k : m_ledger[j].accountId # a
      BY <2>3
    <3>2. /\ m_ledger'[i].accountId = a /\ m_ledger'[i].balanceAfter = b
          /\ \A j \in i + 1 .. k : m_ledger'[j].accountId # a
      BY <1>2, <2>1, <3>1
    <3> QED
      BY <3>2 DEF Log!BalanceAt
  <2> QED
    BY <1>2, <2>2, <2>3 DEF Log!BalanceAt
<1>3. ASSUME NEW a, NEW b, a # new.accountId, Log!BalanceAt(a, n, b)
      PROVE  Log!BalanceAt(a, n + 1, b)'
  <2>1. CASE b = 0 /\ \A i \in 1 .. n : m_ledger[i].accountId # a
    <3>1. \A i \in 1 .. (n + 1) : m_ledger'[i].accountId # a
      BY <1>1, <1>3, <2>1
    <3> QED
      BY <2>1, <3>1 DEF Log!BalanceAt
  <2>2. CASE \E i \in 1 .. n :
               /\ m_ledger[i].accountId = a /\ m_ledger[i].balanceAfter = b
               /\ \A j \in i + 1 .. n : m_ledger[j].accountId # a
    <3>1. PICK i \in 1 .. n :
            /\ m_ledger[i].accountId = a /\ m_ledger[i].balanceAfter = b
            /\ \A j \in i + 1 .. n : m_ledger[j].accountId # a
      BY <2>2
    <3>2. /\ i \in 1 .. (n + 1) /\ m_ledger'[i].accountId = a /\ m_ledger'[i].balanceAfter = b
          /\ \A j \in i + 1 .. (n + 1) : m_ledger'[j].accountId # a
      BY <1>1, <1>3, <3>1
    <3> QED
      BY <3>2 DEF Log!BalanceAt
  <2> QED
    BY <1>3, <2>1, <2>2 DEF Log!BalanceAt
<1>4. Log!BalanceAt(new.accountId, n + 1, new.balanceAfter)'
  <2>1. n + 1 \in 1 .. (n + 1) /\ (n + 1) + 1 .. (n + 1) = {}
    OBVIOUS
  <2> QED
    BY <1>1, <2>1 DEF Log!BalanceAt
<1>5. \A a, b : \A k \in 0 .. n : Log!BalanceAt(a, k, b) => Log!BalanceAt(a, k, b)'
  BY <1>2
<1>6. \A a, b : (a # new.accountId /\ Log!BalanceAt(a, n, b)) => Log!BalanceAt(a, n + 1, b)'
  BY <1>3
<1> QED
  BY <1>1, <1>4, <1>5, <1>6

LEMMA AppendKeepsInv ==
    ASSUME OutboxIInv, NEW m \in Events, Log!AppendEvent(m)
    PROVE  OutboxIInv'
<1>1. PICK n \in Nat : n = Len(m_log)
  BY DEF OutboxIInv, OutboxTypes
<1>2. /\ m_log' = Append(m_log, m) /\ drain = Log!Idle
      /\ UNCHANGED << m_drainWatermark, m_wallet, m_ledger, m_appliedKeys, m_lastAppliedSeq, drain >>
  BY DEF Log!AppendEvent
<1>3. m_log' \in Seq(Events) /\ Len(m_log') = n + 1 /\ \A i \in 1 .. n : m_log'[i] = m_log[i]
  BY <1>1, <1>2 DEF OutboxIInv, OutboxTypes
<1>4. OutboxTypes'
  BY <1>1, <1>2, <1>3 DEF OutboxIInv, OutboxTypes
<1>5. Log!LedgerExact' /\ \A i \in 1 .. Len(m_ledger') : m_ledger'[i].idemKey \in m_appliedKeys'
  BY <1>2 DEF OutboxIInv, Log!LedgerExact, Log!BalanceAt
<1>6. Covers(m_drainWatermark)' /\ Covers(m_lastAppliedSeq)'
  <2>1. /\ m_drainWatermark \in Nat /\ m_drainWatermark <= n
        /\ m_lastAppliedSeq \in Nat /\ m_lastAppliedSeq <= n
    BY <1>1 DEF OutboxIInv, OutboxTypes
  <2> QED
    BY <1>2, <1>3, <2>1 DEF OutboxIInv, Covers
<1> QED
  BY <1>2, <1>4, <1>5, <1>6 DEF OutboxIInv

(* One event of a drain: applied, or its key already was. *)
LEMMA DrainKeepsInv ==
    ASSUME OutboxIInv, Log!DrainNext
    PROVE  OutboxIInv'
<1>1. PICK seq \in Nat \ {0}, e \in Events : seq = drain.at /\ e = m_log[seq] /\ seq <= Len(m_log)
  BY DEF OutboxIInv, OutboxTypes, Log!DrainNext
<1>2. /\ OutboxTypes /\ Log!LedgerExact /\ drain # Log!Idle /\ seq <= drain.upto
      /\ drain \in [at : Nat \ {0}, upto : Nat] /\ drain.upto <= Len(m_log)
      /\ Covers(m_drainWatermark) /\ Covers(m_lastAppliedSeq) /\ Covers(seq - 1)
      /\ \A i \in 1 .. Len(m_ledger) : m_ledger[i].idemKey \in m_appliedKeys
  BY <1>1 DEF OutboxIInv, OutboxTypes, Log!DrainNext
<1>3. /\ Log!ApplyEvent(seq) /\ drain' = [drain EXCEPT !.at = seq + 1]
      /\ UNCHANGED << m_log, m_drainWatermark >>
  BY <1>1 DEF Log!DrainNext
<1>4. /\ drain' \in [at : Nat \ {0}, upto : Nat] /\ drain'.at = seq + 1
      /\ drain'.at <= drain'.upto + 1 /\ drain'.upto <= Len(m_log')
  BY <1>1, <1>2, <1>3
<1>5. e.idemKey \in Nat /\ e.accountId \in OutboxAccounts /\ e.amount \in Int
  BY <1>1, OutboxAssumption
<1>6. CASE Log!Applies(seq)
  <2>1. PICK n \in Nat : Len(m_ledger) = n
    BY <1>2 DEF OutboxTypes
  <2>2. PICK a \in OutboxAccounts, key \in Nat, amount \in Int :
          a = e.accountId /\ key = e.idemKey /\ amount = e.amount
    BY <1>5
  <2>3. PICK before \in Int, after \in Int : before = m_wallet[a] /\ after = before + amount
    BY <1>2, <2>2 DEF OutboxTypes
  <2>4. PICK new \in LedgerEntry :
          new = [seq |-> seq, idemKey |-> key, accountId |-> a, delta |-> amount, balanceAfter |-> after]
    BY <1>1, <2>2, <2>3 DEF LedgerEntry
  <2>5. m_wallet' = [m_wallet EXCEPT ![a] = after]
    BY <1>1, <1>3, <1>6, <2>2, <2>3 DEF Log!ApplyEvent
  <2>6. m_wallet' \in [OutboxAccounts -> Int] /\ m_wallet'[a] = after
        /\ \A b \in OutboxAccounts : b # a => m_wallet'[b] = m_wallet[b]
    BY <1>2, <2>5 DEF OutboxTypes
  <2>7. m_ledger' = Append(m_ledger, new) /\ m_appliedKeys' = m_appliedKeys \cup {key}
        /\ m_lastAppliedSeq' = seq
    BY <1>1, <1>3, <1>6, <2>2, <2>4, <2>6 DEF Log!ApplyEvent
  <2>8. key \notin m_appliedKeys
    BY <1>1, <1>6, <2>2 DEF Log!Applies
  <2>9. m_ledger \in Seq(LedgerEntry)
    BY <1>2 DEF OutboxTypes
  <2>10. /\ m_ledger' \in Seq(LedgerEntry) /\ Len(m_ledger') = n + 1
         /\ m_ledger'[n + 1] = new /\ \A i \in 1 .. n : m_ledger'[i] = m_ledger[i]
    BY <2>1, <2>4, <2>7, <2>9, EntryKeepsBalances
  <2>11. \A b, c : \A k \in 0 .. n : Log!BalanceAt(b, k, c) => Log!BalanceAt(b, k, c)'
    BY <2>1, <2>4, <2>7, <2>9, EntryKeepsBalances
  <2>12. \A b, c : (b # new.accountId /\ Log!BalanceAt(b, n, c)) => Log!BalanceAt(b, n + 1, c)'
    BY <2>1, <2>4, <2>7, <2>9, EntryKeepsBalances
  <2>13. Log!BalanceAt(new.accountId, n + 1, new.balanceAfter)'
    BY <2>1, <2>4, <2>7, <2>9, EntryKeepsBalances
  <2>14. /\ new.accountId = a /\ new.balanceAfter = after /\ new.idemKey = key
         /\ new.balanceAfter - new.delta = before
    BY <2>3, <2>4
  <2>15. OutboxTypes'
    BY <1>1, <1>2, <1>3, <1>4, <2>6, <2>7, <2>10 DEF OutboxTypes
  <2>16. \A i \in 1 .. (n + 1) : m_ledger'[i].idemKey \in m_appliedKeys'
    BY <1>2, <2>1, <2>7, <2>10, <2>14
  <2>17. DOMAIN m_ledger = 1 .. n /\ DOMAIN m_ledger' = 1 .. (n + 1)
    BY <2>1, <2>9, <2>10
  <2>18. \A i, j \in 1 .. (n + 1) : m_ledger'[i].idemKey = m_ledger'[j].idemKey => i = j
    <3>1. \A i \in 1 .. n : m_ledger'[i].idemKey # key
      BY <1>2, <2>1, <2>8, <2>10
    <3>2. \A i, j \in 1 .. n : m_ledger[i].idemKey = m_ledger[j].idemKey => i = j
      BY <1>2, <2>17 DEF Log!LedgerExact
    <3> QED
      BY <2>1, <2>10, <2>14, <3>1, <3>2
  <2>19. ASSUME NEW i \in 1 .. (n + 1), NEW b, NEW c,
                b = m_ledger'[i].accountId, c = m_ledger'[i].balanceAfter - m_ledger'[i].delta
         PROVE  Log!BalanceAt(b, i - 1, c)'
    <3>1. CASE i \in 1 .. n
      <4>1. b = m_ledger[i].accountId /\ c = m_ledger[i].balanceAfter - m_ledger[i].delta
        BY <2>10, <2>19, <3>1
      <4>2. Log!BalanceAt(b, i - 1, c)
        BY <1>2, <2>17, <3>1, <4>1 DEF Log!LedgerExact
      <4>3. i - 1 \in 0 .. n
        BY <3>1
      <4> QED
        BY <2>11, <4>2, <4>3
    <3>2. CASE i = n + 1
      <4>1. b = a /\ c = before /\ i - 1 = n
        BY <2>10, <2>14, <2>19, <3>2
      <4>2. Log!BalanceAt(b, n, c)
        BY <1>2, <2>1, <2>3, <4>1 DEF Log!LedgerExact
      <4>3. n \in 0 .. n
        OBVIOUS
      <4> QED
        BY <2>11, <4>1, <4>2, <4>3
    <3> QED
      BY <3>1, <3>2
  <2>20. ASSUME NEW b \in OutboxAccounts, NEW c, c = m_wallet'[b] PROVE Log!BalanceAt(b, n + 1, c)'
    <3>1. CASE b = a
      BY <2>6, <2>13, <2>14, <2>20, <3>1
    <3>2. CASE b # a
      <4>1. Log!BalanceAt(b, n, c)
        BY <1>2, <2>1, <2>6, <2>20, <3>2 DEF Log!LedgerExact
      <4> QED
        BY <2>12, <2>14, <3>2, <4>1
    <3> QED
      BY <3>1, <3>2
  <2>21. Log!LedgerExact'
    BY <2>10, <2>17, <2>18, <2>19, <2>20 DEF Log!LedgerExact
  <2>22. Covers(m_drainWatermark)' /\ Covers(seq)'
    <3>1. \A i \in 1 .. seq : m_log[i].idemKey \in m_appliedKeys \cup {key}
      BY <1>1, <1>2, <2>2 DEF Covers
    <3> QED
      BY <1>2, <1>3, <2>7, <3>1 DEF Covers
  <2>23. Covers(m_lastAppliedSeq)' /\ Covers(drain.at - 1)'
    BY <1>1, <1>4, <2>7, <2>22 DEF Covers
  <2> QED
    BY <2>10, <2>15, <2>16, <2>21, <2>22, <2>23 DEF OutboxIInv
<1>7. CASE ~Log!Applies(seq)
  <2>1. UNCHANGED << m_wallet, m_ledger, m_appliedKeys, m_lastAppliedSeq >>
    BY <1>3, <1>7 DEF Log!ApplyEvent
  <2>2. m_log[seq].idemKey \in m_appliedKeys
    BY <1>2, <1>7 DEF Log!Applies, Covers, OutboxTypes
  <2>3. OutboxTypes'
    BY <1>2, <1>3, <1>4, <2>1 DEF OutboxTypes
  <2>4. Log!LedgerExact' /\ \A i \in 1 .. Len(m_ledger') : m_ledger'[i].idemKey \in m_appliedKeys'
    BY <1>2, <2>1 DEF Log!LedgerExact, Log!BalanceAt
  <2>5. Covers(m_drainWatermark)' /\ Covers(m_lastAppliedSeq)'
    BY <1>2, <1>3, <2>1 DEF Covers
  <2>6. Covers(drain.at - 1)'
    BY <1>1, <1>2, <1>3, <1>4, <2>1, <2>2 DEF Covers
  <2> QED
    BY <2>3, <2>4, <2>5, <2>6 DEF OutboxIInv
<1> QED
  BY <1>6, <1>7

LEMMA OutboxRestKeepsInv ==
    ASSUME OutboxIInv,
           \/ \E all \in BOOLEAN : Log!StartDrain(all)
           \/ Log!ConfirmDrained
           \/ \E lose \in BOOLEAN : Log!CrashInDrain(lose)
           \/ UNCHANGED Log!outboxVars
    PROVE  OutboxIInv'
<1>1. UNCHANGED << m_log, m_wallet, m_ledger, m_appliedKeys >>
  BY DEF Log!StartDrain, Log!ConfirmDrained, Log!CrashInDrain, Log!outboxVars
<1>2. Log!LedgerExact' /\ \A i \in 1 .. Len(m_ledger') : m_ledger'[i].idemKey \in m_appliedKeys'
  BY <1>1 DEF OutboxIInv, Log!LedgerExact, Log!BalanceAt
<1>3. \A n \in Nat : Covers(n) => Covers(n)'
  BY <1>1 DEF Covers
<1>4. PICK n \in Nat : n = Len(m_log)
  BY DEF OutboxIInv, OutboxTypes
<1>5. /\ m_drainWatermark \in Nat /\ m_lastAppliedSeq \in Nat
      /\ m_drainWatermark <= n /\ m_lastAppliedSeq <= n
  BY <1>4 DEF OutboxIInv, OutboxTypes
<1>6. ASSUME NEW all \in BOOLEAN, Log!StartDrain(all) PROVE OutboxIInv'
  <2>1. PICK at \in Nat \ {0} : /\ drain' = [at |-> at, upto |-> n] /\ at - 1 \in {0, m_drainWatermark}
    <3>1. CASE all = TRUE
      <4>1. drain' = [at |-> 1, upto |-> n]
        BY <1>4, <1>6, <3>1 DEF Log!StartDrain
      <4> QED
        BY <4>1
    <3>2. CASE all = FALSE
      <4>1. drain' = [at |-> m_drainWatermark + 1, upto |-> n]
        BY <1>4, <1>6, <3>2 DEF Log!StartDrain
      <4>2. m_drainWatermark + 1 \in Nat \ {0} /\ (m_drainWatermark + 1) - 1 = m_drainWatermark
        BY <1>5
      <4> QED
        BY <4>1, <4>2
    <3> QED
      BY <3>1, <3>2
  <2>2. UNCHANGED << m_drainWatermark, m_lastAppliedSeq >>
    BY <1>6 DEF Log!StartDrain
  <2>3. /\ drain' \in [at : Nat \ {0}, upto : Nat] /\ drain'.at = at /\ drain'.upto = n
    BY <2>1
  <2>4. OutboxTypes'
    BY <1>1, <1>4, <1>5, <2>1, <2>2, <2>3 DEF OutboxIInv, OutboxTypes
  <2>5. Covers(m_drainWatermark)' /\ Covers(m_lastAppliedSeq)'
    BY <1>1, <2>2 DEF OutboxIInv, Covers
  <2>6. Covers(drain.at - 1)'
    BY <1>1, <2>1, <2>3 DEF OutboxIInv, Covers
  <2> QED
    BY <1>2, <2>4, <2>5, <2>6 DEF OutboxIInv
<1>7. CASE Log!ConfirmDrained
  <2>1. PICK upto \in Nat : /\ upto = drain.upto /\ upto <= n /\ Covers(upto)
    <3>1. drain # Log!Idle /\ drain.at > drain.upto
      BY <1>7 DEF Log!ConfirmDrained
    <3>2. drain \in [at : Nat \ {0}, upto : Nat] /\ drain.at - 1 = drain.upto /\ drain.upto <= n
      BY <1>4, <3>1 DEF OutboxIInv, OutboxTypes
    <3> QED
      BY <3>1, <3>2 DEF OutboxIInv
  <2>2. m_drainWatermark' \in {m_drainWatermark, upto}
    <3>1. PICK mark \in Nat : mark = m_drainWatermark
      BY <1>5
    <3>2. m_drainWatermark' = Log!Max({mark, upto})
      BY <1>7, <2>1, <3>1 DEF Log!ConfirmDrained
    <3>3. \E x \in {mark, upto} : \A y \in {mark, upto} : x >= y
      BY <2>1, <3>1
    <3>4. Log!Max({mark, upto}) \in {mark, upto}
      BY <3>3 DEF Log!Max
    <3> QED
      BY <3>1, <3>2, <3>4
  <2>3. drain' = Log!Idle /\ m_lastAppliedSeq' = m_lastAppliedSeq
    BY <1>7 DEF Log!ConfirmDrained
  <2>4. OutboxTypes'
    BY <1>1, <1>4, <1>5, <2>1, <2>2, <2>3 DEF OutboxIInv, OutboxTypes
  <2>5. Covers(m_drainWatermark)' /\ Covers(m_lastAppliedSeq)'
    BY <1>1, <2>1, <2>2, <2>3 DEF OutboxIInv, Covers
  <2> QED
    BY <1>2, <2>3, <2>4, <2>5 DEF OutboxIInv
<1>8. ASSUME NEW lose \in BOOLEAN, Log!CrashInDrain(lose) PROVE OutboxIInv'
  <2>1. /\ drain' = Log!Idle /\ m_drainWatermark' = m_drainWatermark
        /\ m_lastAppliedSeq' \in {0, m_lastAppliedSeq}
    BY <1>8 DEF Log!CrashInDrain
  <2>2. OutboxTypes'
    BY <1>1, <1>4, <1>5, <2>1 DEF OutboxIInv, OutboxTypes
  <2>3. Covers(m_drainWatermark)' /\ Covers(m_lastAppliedSeq)'
    BY <1>1, <2>1 DEF OutboxIInv, Covers
  <2> QED
    BY <1>2, <2>1, <2>2, <2>3 DEF OutboxIInv
<1>9. CASE UNCHANGED Log!outboxVars
  <2>1. UNCHANGED << m_log, m_drainWatermark, m_wallet, m_ledger, m_appliedKeys, m_lastAppliedSeq, drain >>
    BY <1>9 DEF Log!outboxVars
  <2>2. OutboxTypes'
    BY <2>1 DEF OutboxIInv, OutboxTypes
  <2>3. Covers(m_drainWatermark)' /\ Covers(m_lastAppliedSeq)' /\ (drain' # Log!Idle => Covers(drain.at - 1)')
    BY <2>1 DEF OutboxIInv, Covers
  <2> QED
    BY <1>2, <2>2, <2>3 DEF OutboxIInv
<1> QED
  BY <1>6, <1>7, <1>8, <1>9

(* Outbox.h's promise: a key is credited once and nothing confirmed is     *)
(* lost, for any events and accounts, however appends, drains, replays and *)
(* crashes that lose EconomyState's watermark follow one another.          *)
THEOREM OutboxCorrect == MCSpec => []OutboxInv
<1>1. MCInit => OutboxIInv
  BY OutboxInitHasInv DEF MCInit
<1>2. OutboxIInv /\ [MCNext]_allVars => OutboxIInv'
  <2> SUFFICES ASSUME OutboxIInv, [MCNext]_allVars PROVE OutboxIInv'
    OBVIOUS
  <2>1. outboxVars' = outboxVars => UNCHANGED Log!outboxVars
    BY DEF outboxVars, Log!outboxVars
  <2>2. [Log!Next]_(Log!outboxVars)
    BY <2>1 DEF MCNext, AccountsNext, RestartNext, OutboxNext, OdbcNext, BehindNext, EventsNext,
                PoolNext, LayoutNext, CatalogNext, allVars
  <2> QED
    BY <2>2, AppendKeepsInv, DrainKeepsInv, OutboxRestKeepsInv DEF Log!Next
<1>3. OutboxIInv => OutboxInv
  BY DEF OutboxIInv, OutboxInv, Log!OutboxInv, Log!ConfirmedIsApplied, Covers
<1> QED
  BY <1>1, <1>2, <1>3, PTL DEF MCSpec

(***************************************************************************)
(* The account store                                                       *)
(***************************************************************************)
(* Sessions: tokens are numbered as they are made, one session has each,   *)
(* and a session that is not revoked is the newest of its account.         *)
SessionRow == [account : Usernames, token : Nat, revoked : BOOLEAN, expiresAt : Nat]
SessionsOrdered ==
    /\ tokensMade \in Nat /\ Sessions \subseteq SessionRow
    /\ \A s \in Sessions : s.token <= tokensMade
    /\ \A s, t \in Sessions : s.token = t.token => s.account = t.account /\ (s.revoked <=> t.revoked)
    /\ \A s, t \in Sessions : (~s.revoked /\ t.account = s.account) => t.token <= s.token

AccountRow == [failures : Nat, lockedUntil : Nat, status : Nat, hash : Costs, Pbkdf2Iterations : Costs]

(* The wrong passwords of a username are among its row's failures; from    *)
(* the threshold on the row was locked at the last of them, and its locks  *)
(* make room for the guesses over the threshold.                           *)
GuessesPaid(u) ==
    LET g == guesses[u]
        row == Accounts[u]
        locked == row.lockedUntil - lockoutSeconds
    IN  /\ u \in DOMAIN Accounts /\ g.made <= row.failures
        /\ row.failures >= maxLoginFailures =>
              /\ g.since <= locked /\ locked <= nowUnix
              /\ g.made <= maxLoginFailures + ((locked - g.since) \div lockoutSeconds)

AccountsCounted ==
    /\ DOMAIN Accounts = Wallets /\ nowUnix \in Nat /\ pbkdf2Iterations \in Costs
    /\ \A u \in DOMAIN Accounts :
          Accounts[u] \in AccountRow /\ Accounts[u].hash = Accounts[u].Pbkdf2Iterations
    /\ guesses \in [Usernames -> [made : Nat, since : Nat]]
    /\ \A u \in Usernames :
          guesses[u].since <= nowUnix /\ (guesses[u].made > 0 => GuessesPaid(u))

(* The window of an address: what it let through is counted, the window    *)
(* before it is over and was within the limit, too.                        *)
Within(P, lo, hi) == { p \in P : lo <= p[1] /\ p[1] < hi }
WindowCounts(P, start, count) ==
    /\ start \in Nat /\ count \in Nat /\ start <= nowUnix
    /\ IsFiniteSet(P) /\ \A p \in P : p[1] \in Nat /\ p[1] <= nowUnix /\ p[1] < start + IP_WINDOW_SECONDS
    /\ count = 0 => P = {} /\ start = 0
    /\ Cardinality(Within(P, start, start + IP_WINDOW_SECONDS)) <= count
    /\ Cardinality(Within(P, start, start + IP_WINDOW_SECONDS)) <= IP_WINDOW_MAX_ATTEMPTS
    /\ Cardinality(Within(P, start - IP_WINDOW_SECONDS, start)) <= IP_WINDOW_MAX_ATTEMPTS
    /\ \A t \in Nat : Cardinality(Within(P, t, t + IP_WINDOW_SECONDS)) <= 2 * IP_WINDOW_MAX_ATTEMPTS

AttemptsCounted ==
    /\ nowUnix \in Nat /\ nowUnix >= IP_WINDOW_SECONDS
    /\ DOMAIN m_ipWindows = Ips /\ DOMAIN passed = Ips
    /\ \A ip \in Ips : WindowCounts(passed[ip], m_ipWindows[ip].start, m_ipWindows[ip].count)

AccountsIInv == SessionsOrdered /\ AccountsCounted /\ AttemptsCounted

(* Sessions: only a login and a revocation touch them. *)
LEMMA SessionsStayOrdered ==
    ASSUME SessionsOrdered, nowUnix \in Nat, [Store!Next]_(Store!accountVars)
    PROVE  SessionsOrdered'
<1>1. CASE UNCHANGED << Sessions, tokensMade >>
  BY <1>1 DEF SessionsOrdered
<1>2. ASSUME NEW u \in Usernames, Sessions' = Store!RevokePrior(u) \cup
                 {[account |-> u, token |-> tokensMade', revoked |-> FALSE,
                   expiresAt |-> nowUnix + sessionTtlSeconds]},
             tokensMade' = tokensMade + 1
      PROVE  SessionsOrdered'
  <2>1. ASSUME NEW r \in Store!RevokePrior(u)
        PROVE  /\ r \in SessionRow
               /\ \E s \in Sessions : /\ r.token = s.token /\ r.account = s.account
                                      /\ r.revoked <=> (s.account = u \/ s.revoked)
    <3>1. PICK s \in Sessions : r = IF s.account = u THEN [s EXCEPT !.revoked = TRUE] ELSE s
      BY <2>1 DEF Store!RevokePrior
    <3>2. s \in SessionRow
      BY DEF SessionsOrdered
    <3>3. CASE s.account = u
      BY <3>1, <3>2, <3>3 DEF SessionRow
    <3>4. CASE s.account # u
      BY <3>1, <3>2, <3>4
    <3> QED
      BY <3>3, <3>4
  <2>2. PICK new \in SessionRow : /\ Sessions' = Store!RevokePrior(u) \cup {new}
                                 /\ new.account = u /\ new.token = tokensMade + 1 /\ new.revoked = FALSE
    <3>1. nowUnix + sessionTtlSeconds \in Nat /\ tokensMade + 1 \in Nat
      BY AccountAssumption DEF SessionsOrdered
    <3>2. PICK new : new = [account |-> u, token |-> tokensMade + 1, revoked |-> FALSE,
                            expiresAt |-> nowUnix + sessionTtlSeconds]
      OBVIOUS
    <3>3. new \in SessionRow /\ new.account = u /\ new.token = tokensMade + 1 /\ new.revoked = FALSE
      BY <3>1, <3>2 DEF SessionRow
    <3> QED
      BY <1>2, <3>2, <3>3
  <2>3. \A r \in Store!RevokePrior(u) :
          /\ r.token \in Nat /\ r.token <= tokensMade
          /\ r.account = u => r.revoked
    BY <2>1 DEF SessionsOrdered, SessionRow
  <2>4. \A r, q \in Store!RevokePrior(u) :
          /\ r.token = q.token => r.account = q.account /\ (r.revoked <=> q.revoked)
          /\ (~r.revoked /\ q.account = r.account) => q.token <= r.token
    BY <2>1 DEF SessionsOrdered
  <2>5. tokensMade' \in Nat /\ Sessions' \subseteq SessionRow /\ \A s \in Sessions' : s.token <= tokensMade'
    BY <1>2, <2>1, <2>2, <2>3 DEF SessionsOrdered
  <2>6. \A s, t \in Sessions' : s.token = t.token => s.account = t.account /\ (s.revoked <=> t.revoked)
    BY <1>2, <2>2, <2>3, <2>4 DEF SessionsOrdered
  <2>7. \A s, t \in Sessions' : (~s.revoked /\ t.account = s.account) => t.token <= s.token
    BY <1>2, <2>2, <2>3, <2>4 DEF SessionsOrdered
  <2> QED
    BY <2>5, <2>6, <2>7 DEF SessionsOrdered
<1>3. ASSUME NEW token \in 1 .. tokensMade, Store!RevokeToken(token)
      PROVE  SessionsOrdered'
  <2>1. ASSUME NEW r \in Sessions'
        PROVE  /\ r \in SessionRow
               /\ \E s \in Sessions : /\ r.token = s.token /\ r.account = s.account
                                      /\ r.revoked <=> (s.token = token \/ s.revoked)
    <3>1. PICK s \in Sessions : r = IF s.token = token THEN [s EXCEPT !.revoked = TRUE] ELSE s
      BY <1>3, <2>1 DEF Store!RevokeToken
    <3>2. s \in SessionRow
      BY DEF SessionsOrdered
    <3>3. CASE s.token = token
      BY <3>1, <3>2, <3>3 DEF SessionRow
    <3>4. CASE s.token # token
      BY <3>1, <3>2, <3>4
    <3> QED
      BY <3>3, <3>4
  <2>2. tokensMade' = tokensMade
    BY <1>3 DEF Store!RevokeToken
  <2> QED
    BY <2>1, <2>2 DEF SessionsOrdered
<1>4. ASSUME NEW u \in Usernames, NEW ip \in Ips, NEW right \in BOOLEAN, NEW fault \in Store!Faults,
             Store!Login(u, ip, right, fault)
      PROVE  SessionsOrdered'
  <2>1. CASE Store!LoginRefused(u, ip, fault) \/ Store!LoginWrong(u, ip, right, fault)
    BY <1>1, <2>1 DEF Store!LoginRefused, Store!LoginWrong
  <2>2. CASE Store!LoginRight(u, ip, right, fault)
    BY <1>1, <1>2, <2>2 DEF Store!LoginRight
  <2> QED
    BY <1>4, <2>1, <2>2 DEF Store!Login
<1> QED
  BY <1>1, <1>3, <1>4 DEF Store!Next, Store!accountVars, Store!Register, Store!Suspend, Store!Restart,
                          Store!ClockTicks
(* Division grows with the dividend. *)
LEMMA DivGrows ==
    ASSUME NEW k \in Nat \ {0}, NEW a \in Nat, NEW b \in Nat
    PROVE  /\ a \div k \in Nat
           /\ a <= b => a \div k <= b \div k
           /\ a + k <= b => (a \div k) + 1 <= b \div k
<1>1. PICK c \in Int, d \in Int : c = a \div k /\ d = b \div k
  OBVIOUS
<1>2. k * c <= a /\ a < k * (c + 1) /\ k * d <= b /\ b < k * (d + 1)
  BY <1>1
<1>3. c \in Nat
  <2>1. CASE c <= 0 - 1
    <3>1. k * (c + 1) <= 0
      BY <2>1
    <3> QED
      BY <1>2, <3>1
  <2> QED
    BY <2>1
<1>4. ASSUME a <= b PROVE c <= d
  <2>1. CASE d + 1 <= c
    <3>1. k * (d + 1) <= k * c
      BY <2>1
    <3> QED
      BY <1>2, <1>4, <3>1
  <2> QED
    BY <2>1
<1>5. ASSUME a + k <= b PROVE c + 1 <= d
  <2>1. CASE d + 1 <= c + 1
    <3>1. k * (d + 1) <= k * (c + 1)
      BY <2>1
    <3>2. k * (c + 1) = k * c + k
      OBVIOUS
    <3> QED
      BY <1>2, <1>5, <3>1, <3>2
  <2> QED
    BY <2>1
<1> QED
  BY <1>1, <1>3, <1>4, <1>5

(* The UPDATE of a wrong password counts it, and locks the row from the    *)
(* threshold on.                                                           *)
LEMMA FailureCounted ==
    ASSUME NEW row \in AccountRow, nowUnix \in Nat
    PROVE  \E new \in AccountRow :
              /\ new = Store!CountFailure(row)
              /\ new.failures = row.failures + 1 /\ new.hash = row.hash
              /\ new.Pbkdf2Iterations = row.Pbkdf2Iterations
              /\ row.failures + 1 >= maxLoginFailures => new.lockedUntil = nowUnix + lockoutSeconds
<1>1. maxLoginFailures \in Nat \ {0} /\ lockoutSeconds \in Nat \ {0}
  BY AccountAssumption
<1>2. row.failures \in Nat /\ row.lockedUntil \in Nat
  BY DEF AccountRow
<1>3. PICK g \in Nat : g = row.failures + 1
  BY <1>2
<1>4. PICK l \in Nat : l = IF g >= maxLoginFailures THEN nowUnix + lockoutSeconds ELSE row.lockedUntil
  <2>1. nowUnix + lockoutSeconds \in Nat
    BY <1>1
  <2> QED
    BY <1>2, <2>1
<1>5. Store!CountFailure(row) = [row EXCEPT !.failures = g, !.lockedUntil = l]
  BY <1>3, <1>4 DEF Store!CountFailure, AccountRow
<1>6. PICK new \in AccountRow :
         /\ new = [row EXCEPT !.failures = g, !.lockedUntil = l]
         /\ new.failures = g /\ new.lockedUntil = l /\ new.hash = row.hash
         /\ new.Pbkdf2Iterations = row.Pbkdf2Iterations
  <2>1. PICK new : new = [row EXCEPT !.failures = g, !.lockedUntil = l]
    OBVIOUS
  <2>2. /\ new \in AccountRow /\ new.failures = g /\ new.lockedUntil = l /\ new.hash = row.hash
        /\ new.Pbkdf2Iterations = row.Pbkdf2Iterations
    BY <2>1 DEF AccountRow
  <2> QED
    BY <2>1, <2>2
<1>7. new = Store!CountFailure(row)
  BY <1>5, <1>6
<1>8. /\ new.failures = row.failures + 1 /\ new.hash = row.hash
      /\ new.Pbkdf2Iterations = row.Pbkdf2Iterations
      /\ row.failures + 1 >= maxLoginFailures => new.lockedUntil = nowUnix + lockoutSeconds
  BY <1>3, <1>4, <1>6
<1> WITNESS new \in AccountRow
<1> QED
  BY <1>7, <1>8

(* One wrong password more: below the threshold it is a failure more, over *)
(* it the lock it waited for has made room for it.                         *)
LEMMA WrongPaid ==
    ASSUME AccountsCounted, NEW u \in Usernames, NEW row \in AccountRow, u \in DOMAIN Accounts,
           row = Accounts[u], row.lockedUntil = 0 \/ row.lockedUntil <= nowUnix,
           Accounts' = [Accounts EXCEPT ![u] = Store!CountFailure(row)],
           guesses' = [guesses EXCEPT ![u] = [made |-> guesses[u].made + 1,
                                              since |-> IF guesses[u].made = 0 THEN nowUnix
                                                        ELSE guesses[u].since]],
           UNCHANGED << Wallets, pbkdf2Iterations, nowUnix >>
    PROVE  AccountsCounted'
<1>0. maxLoginFailures \in Nat \ {0} /\ lockoutSeconds \in Nat \ {0}
  BY AccountAssumption
<1>1. PICK now0 \in Nat, made \in Nat, since \in Nat :
         now0 = nowUnix /\ made = guesses[u].made /\ since = guesses[u].since /\ since <= now0
  BY DEF AccountsCounted
<1>2. PICK f \in Nat, l \in Nat : f = row.failures /\ l = row.lockedUntil
  BY DEF AccountRow
<1>3. PICK since2 \in Nat : /\ guesses' = [guesses EXCEPT ![u] = [made |-> made + 1, since |-> since2]]
                            /\ since2 = IF made = 0 THEN now0 ELSE since
  BY <1>1
<1>4. PICK new \in AccountRow :
         /\ new = Store!CountFailure(row) /\ new.failures = f + 1 /\ new.hash = row.hash
         /\ new.Pbkdf2Iterations = row.Pbkdf2Iterations
         /\ f + 1 >= maxLoginFailures => new.lockedUntil = now0 + lockoutSeconds
  BY <1>1, <1>2, FailureCounted
<1>5. new \in AccountRow
  OBVIOUS
<1>6. Accounts' = [Accounts EXCEPT ![u] = new]
  BY <1>4
<1>7. /\ DOMAIN Accounts' = DOMAIN Accounts /\ Accounts'[u] = new
      /\ \A v \in DOMAIN Accounts : v # u => Accounts'[v] = Accounts[v]
  BY <1>6
<1>8. /\ guesses' \in [Usernames -> [made : Nat, since : Nat]]
      /\ guesses'[u].made = made + 1 /\ guesses'[u].since = since2
      /\ \A v \in Usernames : v # u => guesses'[v] = guesses[v]
  BY <1>3 DEF AccountsCounted
<1>9. ASSUME f + 1 >= maxLoginFailures
      PROVE  made + 1 <= maxLoginFailures + ((now0 - since2) \div lockoutSeconds)
  <2>1. (now0 - since2) \in Nat /\ (now0 - since2) \div lockoutSeconds \in Nat
    <3>1. now0 - since2 \in Nat
      BY <1>1, <1>3
    <3> QED
      BY <1>0, <3>1, DivGrows
  <2>2. CASE made = 0
    BY <1>0, <2>1, <2>2
  <2>3. CASE made > 0
    <3>1. GuessesPaid(u) /\ since2 = since
      BY <1>1, <1>3, <2>3 DEF AccountsCounted
    <3>2. made <= f
      BY <1>1, <1>2, <3>1 DEF GuessesPaid
    <3>3. CASE f < maxLoginFailures
      BY <1>0, <1>9, <2>1, <3>2, <3>3
    <3>4. CASE f >= maxLoginFailures
      <4>1. /\ since <= l - lockoutSeconds
            /\ made <= maxLoginFailures + (((l - lockoutSeconds) - since) \div lockoutSeconds)
        BY <1>1, <1>2, <3>1, <3>4 DEF GuessesPaid
      <4>2. l <= now0
        BY <1>0, <1>1, <1>2, <4>1
      <4>3. PICK a \in Nat, b \in Nat : /\ a = (l - lockoutSeconds) - since /\ b = now0 - since
                                        /\ a + lockoutSeconds <= b
        BY <1>0, <1>1, <4>1, <4>2
      <4>4. (a \div lockoutSeconds) + 1 <= b \div lockoutSeconds /\ a \div lockoutSeconds \in Nat
            /\ b \div lockoutSeconds \in Nat
        BY <1>0, <4>3, DivGrows
      <4>5. made <= maxLoginFailures + (a \div lockoutSeconds)
        BY <4>1, <4>3
      <4>6. made + 1 <= maxLoginFailures + (b \div lockoutSeconds)
        BY <1>0, <4>4, <4>5
      <4> QED
        BY <3>1, <4>3, <4>6
    <3> QED
      BY <1>0, <3>3, <3>4
  <2> QED
    BY <2>2, <2>3
<1>10. GuessesPaid(u)'
  <2>1. made + 1 <= f + 1
    <3>1. made > 0 => made <= f
      BY <1>1, <1>2 DEF AccountsCounted, GuessesPaid
    <3> QED
      BY <3>1
  <2>2. f + 1 >= maxLoginFailures =>
          /\ since2 <= new.lockedUntil - lockoutSeconds /\ new.lockedUntil - lockoutSeconds <= now0
          /\ made + 1 <= maxLoginFailures + (((new.lockedUntil - lockoutSeconds) - since2) \div lockoutSeconds)
    <3> SUFFICES ASSUME f + 1 >= maxLoginFailures
                 PROVE  /\ since2 <= new.lockedUntil - lockoutSeconds
                        /\ new.lockedUntil - lockoutSeconds <= now0
                        /\ made + 1 <= maxLoginFailures
                                         + (((new.lockedUntil - lockoutSeconds) - since2) \div lockoutSeconds)
      OBVIOUS
    <3>1. new.lockedUntil - lockoutSeconds = now0
      BY <1>0, <1>4
    <3>2. since2 <= now0
      BY <1>1, <1>3
    <3> QED
      BY <1>9, <3>1, <3>2
  <2> QED
    BY <1>1, <1>4, <1>7, <1>8, <2>1, <2>2 DEF GuessesPaid
<1>11. ASSUME NEW v \in Usernames, v # u PROVE guesses'[v].made > 0 => GuessesPaid(v)'
  BY <1>7, <1>8, <1>11 DEF AccountsCounted, GuessesPaid
<1>12. \A v \in Usernames : guesses'[v].since <= nowUnix'
  BY <1>1, <1>3, <1>8 DEF AccountsCounted
<1>13. \A v \in DOMAIN Accounts' :
         Accounts'[v] \in AccountRow /\ Accounts'[v].hash = Accounts'[v].Pbkdf2Iterations
  BY <1>4, <1>5, <1>7 DEF AccountsCounted
<1> QED
  BY <1>7, <1>8, <1>10, <1>11, <1>12, <1>13 DEF AccountsCounted

(* The row of one username changes, and its guesses are forgotten or the   *)
(* row has as many failures and locks as before.                           *)
LEMMA RowKeepsCounts ==
    ASSUME AccountsCounted, nowUnix' \in Nat, nowUnix <= nowUnix', pbkdf2Iterations' \in Costs,
           DOMAIN Accounts' = Wallets',
           \A u \in DOMAIN Accounts' :
              Accounts'[u] \in AccountRow /\ Accounts'[u].hash = Accounts'[u].Pbkdf2Iterations,
           guesses' \in [Usernames -> [made : Nat, since : Nat]],
           \A u \in Usernames :
              \/ guesses'[u] = Store!NoGuess
              \/ /\ guesses'[u] = guesses[u]
                 /\ u \in DOMAIN Accounts =>
                       /\ u \in DOMAIN Accounts' /\ Accounts'[u].failures = Accounts[u].failures
                       /\ Accounts'[u].lockedUntil = Accounts[u].lockedUntil
    PROVE  AccountsCounted'
<1>1. ASSUME NEW u \in Usernames
      PROVE  guesses'[u].since <= nowUnix' /\ (guesses'[u].made > 0 => GuessesPaid(u)')
  <2>1. CASE guesses'[u] = Store!NoGuess
    BY <2>1 DEF Store!NoGuess
  <2>2. CASE guesses'[u] # Store!NoGuess
    <3>1. /\ guesses'[u] = guesses[u]
          /\ u \in DOMAIN Accounts =>
                /\ u \in DOMAIN Accounts' /\ Accounts'[u].failures = Accounts[u].failures
                /\ Accounts'[u].lockedUntil = Accounts[u].lockedUntil
      BY <2>2
    <3>2. guesses[u].since <= nowUnix /\ (guesses[u].made > 0 => GuessesPaid(u))
          /\ guesses[u].since \in Nat /\ nowUnix \in Nat
      BY DEF AccountsCounted
    <3>3. ASSUME GuessesPaid(u) PROVE GuessesPaid(u)'
      <4>1. /\ u \in DOMAIN Accounts' /\ Accounts'[u].failures = Accounts[u].failures
            /\ Accounts'[u].lockedUntil = Accounts[u].lockedUntil /\ Accounts[u] \in AccountRow
        BY <3>1, <3>3 DEF GuessesPaid, AccountsCounted
      <4>2. Accounts[u].lockedUntil \in Nat /\ lockoutSeconds \in Nat
        BY <4>1, AccountAssumption DEF AccountRow
      <4>3. Accounts[u].lockedUntil - lockoutSeconds <= nowUnix
              => Accounts[u].lockedUntil - lockoutSeconds <= nowUnix'
        BY <3>2, <4>2
      <4> QED
        BY <3>1, <3>3, <4>1, <4>3 DEF GuessesPaid
    <3> QED
      BY <3>1, <3>2, <3>3
  <2> QED
    BY <2>1, <2>2
<1> QED
  BY <1>1 DEF AccountsCounted

LEMMA AccountsStayCounted ==
    ASSUME AccountsCounted, [Store!Next]_(Store!accountVars)
    PROVE  AccountsCounted'
<1>1. /\ nowUnix \in Nat /\ pbkdf2Iterations \in Costs /\ DOMAIN Accounts = Wallets
      /\ guesses \in [Usernames -> [made : Nat, since : Nat]]
      /\ \A u \in DOMAIN Accounts :
            Accounts[u] \in AccountRow /\ Accounts[u].hash = Accounts[u].Pbkdf2Iterations
  BY DEF AccountsCounted
<1>2. nowUnix <= nowUnix
  BY <1>1
<1>3. CASE UNCHANGED << Accounts, Wallets, guesses >>
           /\ nowUnix' \in Nat /\ nowUnix <= nowUnix' /\ pbkdf2Iterations' \in Costs
  BY <1>1, <1>3, RowKeepsCounts
<1>4. ASSUME NEW u \in Usernames, NEW fault \in Store!Faults, Store!Register(u, fault)
      PROVE  AccountsCounted'
  <2>1. /\ DOMAIN Accounts' = DOMAIN Accounts \cup {u} /\ Wallets' = Wallets \cup {u}
        /\ \A v \in DOMAIN Accounts : Accounts'[v] = Accounts[v]
        /\ Accounts'[u] = [failures |-> 0, lockedUntil |-> 0, status |-> 0,
                           hash |-> pbkdf2Iterations, Pbkdf2Iterations |-> pbkdf2Iterations]
        /\ UNCHANGED << guesses, nowUnix, pbkdf2Iterations >>
    BY <1>4 DEF Store!Register, Store!HashPassword
  <2>2. Accounts'[u] \in AccountRow /\ Accounts'[u].hash = Accounts'[u].Pbkdf2Iterations
    BY <1>1, <2>1 DEF AccountRow
  <2> QED
    BY <1>1, <1>2, <2>1, <2>2, RowKeepsCounts
<1>5. ASSUME NEW u \in Usernames, Store!Suspend(u) PROVE AccountsCounted'
  <2>1. /\ u \in DOMAIN Accounts /\ Accounts' = [Accounts EXCEPT ![u].status = 2]
        /\ UNCHANGED << Wallets, guesses, nowUnix, pbkdf2Iterations >>
    BY <1>5 DEF Store!Suspend
  <2>2. PICK row \in AccountRow : row = Accounts[u] /\ row.hash = row.Pbkdf2Iterations
    BY <1>1, <2>1
  <2>3. PICK new : new = [row EXCEPT !.status = 2]
    OBVIOUS
  <2>4. new \in AccountRow /\ new.hash = new.Pbkdf2Iterations
        /\ new.failures = row.failures /\ new.lockedUntil = row.lockedUntil
    BY <2>2, <2>3 DEF AccountRow
  <2>5. /\ DOMAIN Accounts' = DOMAIN Accounts /\ Accounts'[u] = new
        /\ \A v \in DOMAIN Accounts : v # u => Accounts'[v] = Accounts[v]
    BY <2>1, <2>2, <2>3
  <2>6. \A v \in DOMAIN Accounts :
          /\ Accounts'[v].failures = Accounts[v].failures
          /\ Accounts'[v].lockedUntil = Accounts[v].lockedUntil
          /\ Accounts'[v] \in AccountRow /\ Accounts'[v].hash = Accounts'[v].Pbkdf2Iterations
    BY <1>1, <2>2, <2>4, <2>5
  <2> QED
    BY <1>1, <1>2, <2>1, <2>5, <2>6, RowKeepsCounts
<1>6. ASSUME NEW u \in Usernames, NEW ip \in Ips, NEW right \in BOOLEAN, NEW fault \in Store!Faults,
             Store!Login(u, ip, right, fault)
      PROVE  AccountsCounted'
  <2>1. UNCHANGED << Wallets, pbkdf2Iterations, nowUnix >>
    BY <1>6 DEF Store!Login, Store!LoginRefused, Store!LoginWrong, Store!LoginRight
  <2>2. CASE Store!LoginRefused(u, ip, fault)
    BY <1>1, <1>2, <1>3, <2>1, <2>2 DEF Store!LoginRefused
  <2>3. CASE Store!LoginWrong(u, ip, right, fault)
    <3>1. CASE fault = "update"
      BY <1>1, <1>2, <1>3, <2>1, <2>3, <3>1 DEF Store!LoginWrong
    <3>2. CASE fault # "update"
      <4>1. PICK row \in AccountRow : row = Accounts[u] /\ u \in DOMAIN Accounts
        BY <1>1, <2>3 DEF Store!LoginWrong, Store!Compares
      <4>2. row.lockedUntil = 0 \/ row.lockedUntil <= nowUnix
        <5>1. ~(row.lockedUntil # 0 /\ row.lockedUntil > nowUnix)
          BY <2>3, <4>1 DEF Store!LoginWrong, Store!Compares, Store!Locked
        <5>2. row.lockedUntil \in Nat
          BY DEF AccountRow
        <5> QED
          BY <1>1, <5>1, <5>2
      <4>3. Accounts' = [Accounts EXCEPT ![u] = Store!CountFailure(row)]
        BY <2>3, <3>2, <4>1 DEF Store!LoginWrong
      <4>4. guesses' = [guesses EXCEPT ![u] = [made |-> guesses[u].made + 1,
                                               since |-> IF guesses[u].made = 0 THEN nowUnix
                                                         ELSE guesses[u].since]]
        BY <1>1, <2>3, <3>2 DEF Store!LoginWrong
      <4> QED
        BY <2>1, <4>1, <4>2, <4>3, <4>4, WrongPaid
    <3> QED
      BY <3>1, <3>2
  <2>4. CASE Store!LoginRight(u, ip, right, fault)
    <3>1. PICK row \in AccountRow : /\ row = Accounts[u] /\ u \in DOMAIN Accounts
                                    /\ row.hash = row.Pbkdf2Iterations
      BY <1>1, <2>4 DEF Store!LoginRight, Store!Compares
    <3>2. guesses' = [guesses EXCEPT ![u] = Store!NoGuess]
      BY <2>4 DEF Store!LoginRight
    <3>3. /\ guesses' \in [Usernames -> [made : Nat, since : Nat]] /\ guesses'[u] = Store!NoGuess
          /\ \A v \in Usernames : v # u => guesses'[v] = guesses[v]
      BY <1>1, <3>2 DEF Store!NoGuess
    <3>4. CASE fault = "update"
      <4>1. Accounts' = Accounts
        BY <2>4, <3>4 DEF Store!LoginRight
      <4> QED
        BY <1>1, <1>2, <2>1, <3>3, <4>1, RowKeepsCounts
    <3>5. CASE fault # "update"
      <4>1. PICK new : new = [row EXCEPT !.failures = 0, !.lockedUntil = 0]
        OBVIOUS
      <4>2. Accounts' = [Accounts EXCEPT ![u] = new]
        BY <2>4, <3>1, <3>5, <4>1 DEF Store!LoginRight
      <4>3. new \in AccountRow /\ new.hash = new.Pbkdf2Iterations
        BY <3>1, <4>1 DEF AccountRow
      <4>4. /\ DOMAIN Accounts' = DOMAIN Accounts /\ Accounts'[u] = new
            /\ \A v \in DOMAIN Accounts : v # u => Accounts'[v] = Accounts[v]
        BY <3>1, <4>2
      <4> QED
        BY <1>1, <1>2, <2>1, <3>3, <4>3, <4>4, RowKeepsCounts
    <3> QED
      BY <3>4, <3>5
  <2> QED
    BY <1>6, <2>2, <2>3, <2>4 DEF Store!Login
<1>7. ASSUME NEW token \in 1 .. tokensMade, Store!RevokeToken(token) PROVE AccountsCounted'
  BY <1>1, <1>2, <1>3, <1>7 DEF Store!RevokeToken
<1>8. ASSUME NEW cost \in Costs, Store!Restart(cost) PROVE AccountsCounted'
  BY <1>1, <1>2, <1>3, <1>8 DEF Store!Restart
<1>9. CASE Store!ClockTicks
  <2>1. nowUnix' = nowUnix + 1 /\ nowUnix + 1 \in Nat /\ nowUnix <= nowUnix + 1
    BY <1>1, <1>9 DEF Store!ClockTicks
  <2> QED
    BY <1>1, <1>3, <1>9, <2>1 DEF Store!ClockTicks
<1>10. CASE UNCHANGED Store!accountVars
  BY <1>1, <1>2, <1>3, <1>10 DEF Store!accountVars
<1> QED
  BY <1>4, <1>5, <1>6, <1>7, <1>8, <1>9, <1>10 DEF Store!Next

(* What lies within an interval of times, and one attempt more. *)
LEMMA WithinCounts ==
    ASSUME NEW P, IsFiniteSet(P), NEW lo, NEW hi
    PROVE  IsFiniteSet(Within(P, lo, hi)) /\ Cardinality(Within(P, lo, hi)) \in Nat
<1>1. Within(P, lo, hi) \subseteq P
  BY DEF Within
<1> QED
  BY <1>1, FS_Subset, FS_CardinalityType

LEMMA OneAttemptMore ==
    ASSUME NEW P, IsFiniteSet(P), NEW at, NEW k, NEW lo, NEW hi
    PROVE  /\ IsFiniteSet(P \cup {<< at, k >>})
           /\ Cardinality(Within(P \cup {<< at, k >>}, lo, hi)) <= Cardinality(Within(P, lo, hi)) + 1
           /\ ~(lo <= at /\ at < hi) => Within(P \cup {<< at, k >>}, lo, hi) = Within(P, lo, hi)
<1>1. IsFiniteSet(P \cup {<< at, k >>})
  BY FS_AddElement
<1>2. PICK S : S = Within(P, lo, hi)
  OBVIOUS
<1>3. IsFiniteSet(S) /\ Cardinality(S) \in Nat
  BY <1>2, WithinCounts
<1>4. CASE lo <= at /\ at < hi
  <2>1. Within(P \cup {<< at, k >>}, lo, hi) = S \cup {<< at, k >>}
    BY <1>2, <1>4 DEF Within
  <2>2. Cardinality(S \cup {<< at, k >>}) = IF << at, k >> \in S THEN Cardinality(S) ELSE Cardinality(S) + 1
    BY <1>3, FS_AddElement
  <2>3. Cardinality(S \cup {<< at, k >>}) <= Cardinality(S) + 1
    <3>1. PICK c \in Nat : c = Cardinality(S)
      BY <1>3
    <3> QED
      BY <2>2, <3>1
  <2> QED
    BY <1>1, <1>2, <1>4, <2>1, <2>3
<1>5. CASE ~(lo <= at /\ at < hi)
  <2>1. Within(P \cup {<< at, k >>}, lo, hi) = S
    BY <1>2, <1>5 DEF Within
  <2>2. Cardinality(S) <= Cardinality(S) + 1
    BY <1>3
  <2> QED
    BY <1>1, <1>2, <2>1, <2>2
<1> QED
  BY <1>4, <1>5

(* An interval as long as a window has at most what a window and the one   *)
(* before it have, when it lies in the two.                                *)
LEMMA TwoWindows ==
    ASSUME NEW P, IsFiniteSet(P), NEW s \in Nat, NEW w \in Nat, NEW m \in Nat, NEW t \in Nat,
           \A p \in P : p[1] \in Nat /\ p[1] < s + w,
           Cardinality(Within(P, s, s + w)) <= m, Cardinality(Within(P, s - w, s)) <= m,
           s <= t + w
    PROVE  Cardinality(Within(P, t, t + w)) <= 2 * m
<1>1. PICK A, B : A = Within(P, s, s + w) /\ B = Within(P, s - w, s)
  OBVIOUS
<1>2. /\ IsFiniteSet(A) /\ IsFiniteSet(B) /\ Cardinality(A) \in Nat /\ Cardinality(B) \in Nat
      /\ Cardinality(A) <= m /\ Cardinality(B) <= m
  BY <1>1, WithinCounts
<1>3. Within(P, t, t + w) \subseteq A \cup B
  BY <1>1 DEF Within
<1>4. /\ IsFiniteSet(A \cup B) /\ Cardinality(A \cup B) \in Nat
      /\ Cardinality(A \cup B) <= Cardinality(A) + Cardinality(B)
  <2>1. IsFiniteSet(A \cup B) /\ IsFiniteSet(A \cap B)
    BY <1>2, FS_Union, FS_Intersection
  <2>2. Cardinality(A \cup B) \in Nat /\ Cardinality(A \cap B) \in Nat
    BY <2>1, FS_CardinalityType
  <2>3. Cardinality(A \cup B) = Cardinality(A) + Cardinality(B) - Cardinality(A \cap B)
    BY <1>2, FS_Union
  <2> QED
    BY <1>2, <2>1, <2>2, <2>3
<1>5. Cardinality(Within(P, t, t + w)) <= Cardinality(A \cup B)
  BY <1>3, <1>4, FS_Subset
<1>6. Cardinality(Within(P, t, t + w)) \in Nat
  BY WithinCounts
<1> QED
  BY <1>2, <1>4, <1>5, <1>6

(* An attempt opens a window when the old one is over, and is let through  *)
(* when the count allows it.                                               *)
LEMMA AttemptKeepsWindow ==
    ASSUME nowUnix \in Nat, NEW P, NEW start, NEW count, WindowCounts(P, start, count),
           nowUnix >= IP_WINDOW_SECONDS,
           NEW start2, NEW count2, NEW P2,
           \/ /\ nowUnix - start >= IP_WINDOW_SECONDS
              /\ start2 = nowUnix /\ count2 = 1
           \/ /\ ~(nowUnix - start >= IP_WINDOW_SECONDS)
              /\ start2 = start
              /\ count2 = IF count > IP_WINDOW_MAX_ATTEMPTS THEN count ELSE count + 1,
           \/ P2 = P /\ count2 > IP_WINDOW_MAX_ATTEMPTS
           \/ (\E k : P2 = P \cup {<< nowUnix, k >>}) /\ count2 <= IP_WINDOW_MAX_ATTEMPTS
    PROVE  WindowCounts(P2, start2, count2)
<1>1. PICK w \in Nat \ {0}, m \in Nat, n \in Nat :
         w = IP_WINDOW_SECONDS /\ m = IP_WINDOW_MAX_ATTEMPTS /\ n = nowUnix
  BY AccountAssumption
<1>2. /\ start \in Nat /\ count \in Nat /\ start <= n /\ IsFiniteSet(P)
      /\ \A p \in P : p[1] \in Nat /\ p[1] <= n /\ p[1] < start + w
      /\ count = 0 => P = {} /\ start = 0
      /\ Cardinality(Within(P, start, start + w)) <= count
      /\ Cardinality(Within(P, start, start + w)) <= m
      /\ Cardinality(Within(P, start - w, start)) <= m
      /\ \A t \in Nat : Cardinality(Within(P, t, t + w)) <= 2 * m
  BY <1>1 DEF WindowCounts
<1>3. \A lo, hi : IsFiniteSet(Within(P, lo, hi)) /\ Cardinality(Within(P, lo, hi)) \in Nat
  BY <1>2, WithinCounts
<1>4. PICK k : P2 = P \/ P2 = P \cup {<< n, k >>}
  BY <1>1
<1>5. start2 \in Nat /\ count2 \in Nat \ {0} /\ start2 <= n /\ start <= start2 /\ n < start2 + w
  BY <1>1, <1>2
<1>6. PICK a \in Nat, b \in Nat : /\ a = Cardinality(Within(P, start2, start2 + w))
                                 /\ b = Cardinality(Within(P, start2 - w, start2))
  BY <1>3
<1>7. a <= m /\ b <= m /\ a <= count2 /\ (count2 <= m => a + 1 <= count2)
  <2>1. CASE ~(n - start >= w)
    <3>1. start2 = start /\ count2 = IF count > m THEN count ELSE count + 1
      BY <1>1, <1>2, <2>1
    <3>2. a <= m /\ b <= m /\ a <= count
      BY <1>2, <1>6, <3>1
    <3> QED
      BY <1>2, <3>1, <3>2
  <2>2. CASE n - start >= w
    <3>1. start2 = n /\ count2 = 1
      BY <1>1, <2>2
    <3>2. Within(P, start2, start2 + w) = {}
      BY <1>2, <2>2, <3>1 DEF Within
    <3>3. a = 0
      BY <1>6, <3>2, FS_EmptySet
    <3>4. PICK A : A = Within(P, start, start + w) /\ IsFiniteSet(A) /\ Cardinality(A) \in Nat /\ Cardinality(A) <= m
      BY <1>2, <1>3
    <3>5. Within(P, start2 - w, start2) \subseteq A
      BY <1>2, <2>2, <3>1, <3>4 DEF Within
    <3>6. b <= Cardinality(A)
      BY <1>6, <3>4, <3>5, FS_Subset
    <3> QED
      BY <3>1, <3>3, <3>4, <3>6
  <2> QED
    BY <2>1, <2>2
<1>8. IsFiniteSet(P2) /\ \A p \in P2 : p[1] \in Nat /\ p[1] <= n /\ p[1] < start2 + w
  <2>1. IsFiniteSet(P \cup {<< n, k >>})
    BY <1>2, OneAttemptMore
  <2>2. \A p \in P : p[1] < start2 + w
    BY <1>2, <1>5
  <2>3. CASE P2 = P
    BY <1>2, <2>2, <2>3
  <2>4. CASE P2 = P \cup {<< n, k >>}
    BY <1>2, <1>5, <2>1, <2>2, <2>4
  <2> QED
    BY <1>4, <2>3, <2>4
<1>9. \A lo, hi : IsFiniteSet(Within(P2, lo, hi)) /\ Cardinality(Within(P2, lo, hi)) \in Nat
  BY <1>8, WithinCounts
<1>10. ASSUME NEW lo, NEW hi
      PROVE  /\ P2 # P => Cardinality(Within(P2, lo, hi)) <= Cardinality(Within(P, lo, hi)) + 1
             /\ ~(lo <= n /\ n < hi) => Within(P2, lo, hi) = Within(P, lo, hi)
  <2>1. CASE P2 = P
    BY <2>1
  <2>2. CASE P2 = P \cup {<< n, k >>}
    <3>1. IsFiniteSet(P)
      BY <1>2
    <3>2. Cardinality(Within(P \cup {<< n, k >>}, lo, hi)) <= Cardinality(Within(P, lo, hi)) + 1
      BY <3>1, OneAttemptMore
    <3>3. ~(lo <= n /\ n < hi) => Within(P \cup {<< n, k >>}, lo, hi) = Within(P, lo, hi)
      <4>1. PICK at : at = << n, k >>
        OBVIOUS
      <4>2. at[1] = n
        BY <4>1
      <4>3. ~(lo <= at[1] /\ at[1] < hi) => Within(P \cup {at}, lo, hi) = Within(P, lo, hi)
        BY DEF Within
      <4> QED
        BY <4>1, <4>2, <4>3
    <3> QED
      BY <2>2, <3>2, <3>3
  <2> QED
    BY <1>4, <2>1, <2>2
<1>11. PICK a2 \in Nat, b2 \in Nat : /\ a2 = Cardinality(Within(P2, start2, start2 + w))
                                    /\ b2 = Cardinality(Within(P2, start2 - w, start2))
  BY <1>9
<1>12. b2 = b
  <2>1. ~(start2 - w <= n /\ n < start2)
    BY <1>5
  <2> QED
    BY <1>6, <1>10, <1>11, <2>1
<1>13. a2 <= m /\ a2 <= count2
  <2>1. CASE P2 = P
    BY <1>6, <1>7, <1>11, <2>1
  <2>2. CASE P2 # P
    <3>1. count2 <= m
      BY <1>1, <1>5, <2>2
    <3>2. a2 <= a + 1
      BY <1>6, <1>10, <1>11, <2>2
    <3> QED
      BY <1>5, <1>7, <3>1, <3>2
  <2> QED
    BY <2>1, <2>2
<1>14. ASSUME NEW t \in Nat PROVE Cardinality(Within(P2, t, t + w)) <= 2 * m
  <2>1. CASE ~(t <= n /\ n < t + w)
    BY <1>2, <1>10, <2>1
  <2>2. CASE t <= n /\ n < t + w
    <3>1. start2 <= t + w
      BY <1>5, <2>2
    <3>2. \A p \in P2 : p[1] \in Nat /\ p[1] < start2 + w
      BY <1>8
    <3>3. Cardinality(Within(P2, start2, start2 + w)) <= m /\ Cardinality(Within(P2, start2 - w, start2)) <= m
      BY <1>7, <1>11, <1>12, <1>13
    <3> QED
      BY <1>5, <1>8, <3>1, <3>2, <3>3, TwoWindows
  <2> QED
    BY <2>1, <2>2
<1>15. count2 # 0
  BY <1>5
<1>16. Cardinality(Within(P2, start2 - w, start2)) <= m
  BY <1>7, <1>11, <1>12
<1> QED
  BY <1>1, <1>5, <1>8, <1>11, <1>13, <1>14, <1>15, <1>16 DEF WindowCounts

LEMMA EmptyWindow ==
    ASSUME nowUnix \in Nat
    PROVE  WindowCounts({}, 0, 0)
<1>1. \A lo, hi : Within({}, lo, hi) = {}
  BY DEF Within
<1>2. IsFiniteSet({}) /\ Cardinality({}) = 0
  BY FS_EmptySet
<1>3. \A lo, hi : Cardinality(Within({}, lo, hi)) = 0
  BY <1>1, <1>2
<1> QED
  BY <1>2, <1>3, AccountAssumption DEF WindowCounts

(* The module's own copy of Cardinality is the library's.                  *)
LEMMA SameCardinality == \A S : Store!Cardinality(S) = Cardinality(S)
BY DEF Store!Cardinality, Cardinality

(* An attempt that is let through is one more of those let through now.    *)
LEMMA AttemptLetThrough ==
    ASSUME NEW ip \in Ips, Store!CountAttempt(ip)
    PROVE  /\ Store!RateLimited(ip) => passed' = passed
           /\ ~Store!RateLimited(ip) =>
                passed' = [passed EXCEPT ![ip] = passed[ip] \cup {<< nowUnix, Cardinality(passed[ip]) >>}]
BY SameCardinality DEF Store!CountAttempt

LEMMA AttemptsStayCounted ==
    ASSUME AttemptsCounted, [Store!Next]_(Store!accountVars)
    PROVE  AttemptsCounted'
<1>1. /\ nowUnix \in Nat /\ nowUnix >= IP_WINDOW_SECONDS
      /\ DOMAIN m_ipWindows = Ips /\ DOMAIN passed = Ips
      /\ IP_WINDOW_SECONDS \in Nat \ {0} /\ IP_WINDOW_MAX_ATTEMPTS \in Nat
  BY AccountAssumption DEF AttemptsCounted
<1>2. CASE UNCHANGED << m_ipWindows, passed >> /\ nowUnix' \in Nat /\ nowUnix <= nowUnix'
  <2>1. nowUnix' >= IP_WINDOW_SECONDS
    BY <1>1, <1>2
  <2>2. ASSUME NEW P, NEW s, NEW c, WindowCounts(P, s, c) PROVE WindowCounts(P, s, c)'
    <3>1. s <= nowUnix' /\ \A p \in P : p[1] <= nowUnix'
      BY <1>1, <1>2, <2>2 DEF WindowCounts
    <3> QED
      BY <2>2, <3>1 DEF WindowCounts, Within
  <2>3. ASSUME NEW ip \in Ips
        PROVE  WindowCounts(passed[ip], m_ipWindows[ip].start, m_ipWindows[ip].count)'
    <3>1. PICK P, s, c : P = passed[ip] /\ s = m_ipWindows[ip].start /\ c = m_ipWindows[ip].count
      OBVIOUS
    <3>2. WindowCounts(P, s, c)'
      BY <2>2, <3>1 DEF AttemptsCounted
    <3> QED
      BY <1>2, <3>1, <3>2
  <2> QED
    BY <1>1, <1>2, <2>1, <2>3 DEF AttemptsCounted
<1>3. ASSUME NEW ip \in Ips, Store!CountAttempt(ip), nowUnix' = nowUnix PROVE AttemptsCounted'
  <2>1. PICK P, s, c : /\ P = passed[ip] /\ s = m_ipWindows[ip].start /\ c = m_ipWindows[ip].count
                       /\ WindowCounts(P, s, c)
    BY DEF AttemptsCounted
  <2>2. PICK new : /\ new = Store!CheckIpRateLimit(ip) /\ m_ipWindows' = [m_ipWindows EXCEPT ![ip] = new]
    BY <1>3 DEF Store!CountAttempt
  <2>3. \/ nowUnix - s >= IP_WINDOW_SECONDS /\ new.start = nowUnix /\ new.count = 1
        \/ /\ ~(nowUnix - s >= IP_WINDOW_SECONDS) /\ new.start = s
           /\ new.count = IF c > IP_WINDOW_MAX_ATTEMPTS THEN c ELSE c + 1
    BY <2>1, <2>2 DEF Store!CheckIpRateLimit
  <2>4. PICK k, P2 : /\ DOMAIN passed' = Ips /\ passed'[ip] = P2
                     /\ \A v \in Ips : v # ip => passed'[v] = passed[v]
                     /\ \/ P2 = P /\ new.count > IP_WINDOW_MAX_ATTEMPTS
                        \/ P2 = P \cup {<< nowUnix, k >>} /\ new.count <= IP_WINDOW_MAX_ATTEMPTS
    <3>1. new.count \in Nat
      BY <1>1, <2>1, <2>3 DEF WindowCounts
    <3>2. CASE new.count > IP_WINDOW_MAX_ATTEMPTS
      <4>1. passed' = passed
        BY <1>3, <2>2, <3>2, AttemptLetThrough DEF Store!RateLimited
      <4> QED
        BY <1>1, <2>1, <3>2, <4>1
    <3>3. CASE ~(new.count > IP_WINDOW_MAX_ATTEMPTS)
      <4>1. ~Store!RateLimited(ip)
        BY <2>2, <3>3 DEF Store!RateLimited
      <4>2. passed' = [passed EXCEPT ![ip] = passed[ip] \cup {<< nowUnix, Cardinality(passed[ip]) >>}]
        BY <1>3, <4>1, AttemptLetThrough
      <4>3. PICK k : k = Cardinality(passed[ip])
        OBVIOUS
      <4>4. passed'[ip] = P \cup {<< nowUnix, k >>}
        BY <1>1, <2>1, <4>2, <4>3
      <4>5. new.count <= IP_WINDOW_MAX_ATTEMPTS
        BY <1>1, <3>1, <3>3
      <4> QED
        BY <1>1, <4>2, <4>4, <4>5
    <3> QED
      BY <3>2, <3>3
  <2>5. WindowCounts(P2, new.start, new.count)
    <3>1. PICK s2, c2 : s2 = new.start /\ c2 = new.count
      OBVIOUS
    <3>2. \/ P2 = P /\ c2 > IP_WINDOW_MAX_ATTEMPTS
          \/ (\E q : P2 = P \cup {<< nowUnix, q >>}) /\ c2 <= IP_WINDOW_MAX_ATTEMPTS
      BY <2>4, <3>1
    <3>3. \/ nowUnix - s >= IP_WINDOW_SECONDS /\ s2 = nowUnix /\ c2 = 1
          \/ /\ ~(nowUnix - s >= IP_WINDOW_SECONDS) /\ s2 = s
             /\ c2 = IF c > IP_WINDOW_MAX_ATTEMPTS THEN c ELSE c + 1
      BY <2>3, <3>1
    <3>4. WindowCounts(P2, s2, c2)
      BY <1>1, <2>1, <3>2, <3>3, AttemptKeepsWindow
    <3> QED
      BY <3>1, <3>4
  <2>6. ASSUME NEW v \in Ips
        PROVE  WindowCounts(passed[v], m_ipWindows[v].start, m_ipWindows[v].count)'
    <3>1. PICK Q, s2, c2 : /\ Q = passed'[v] /\ s2 = m_ipWindows'[v].start /\ c2 = m_ipWindows'[v].count
      OBVIOUS
    <3>2. WindowCounts(Q, s2, c2)
      <4>1. CASE v = ip
        <5>1. Q = P2 /\ s2 = new.start /\ c2 = new.count
          BY <1>1, <2>2, <2>4, <3>1, <4>1
        <5> QED
          BY <2>5, <5>1
      <4>2. CASE v # ip
        <5>1. Q = passed[v] /\ s2 = m_ipWindows[v].start /\ c2 = m_ipWindows[v].count
          BY <1>1, <2>2, <2>4, <3>1, <4>2
        <5> QED
          BY <5>1 DEF AttemptsCounted
      <4> QED
        BY <4>1, <4>2
    <3> QED
      BY <1>3, <3>1, <3>2 DEF WindowCounts, Within
  <2> QED
    BY <1>1, <1>3, <2>2, <2>4, <2>6 DEF AttemptsCounted
<1>4. CASE \E cost \in Costs : Store!Restart(cost)
  <2>1. /\ m_ipWindows' = [ip \in Ips |-> [start |-> 0, count |-> 0]] /\ passed' = [ip \in Ips |-> {}]
        /\ nowUnix' = nowUnix
    BY <1>4 DEF Store!Restart
  <2>2. WindowCounts({}, 0, 0)'
    <3>1. WindowCounts({}, 0, 0)
      BY <1>1, EmptyWindow
    <3> QED
      BY <2>1, <3>1 DEF WindowCounts, Within
  <2>3. ASSUME NEW ip \in Ips
        PROVE  WindowCounts(passed[ip], m_ipWindows[ip].start, m_ipWindows[ip].count)'
    <3>1. passed'[ip] = {} /\ m_ipWindows'[ip].start = 0 /\ m_ipWindows'[ip].count = 0
      BY <2>1
    <3> QED
      BY <2>2, <3>1 DEF WindowCounts, Within
  <2> QED
    BY <1>1, <2>1, <2>3 DEF AttemptsCounted
<1>5. ASSUME NEW u \in Usernames, NEW ip \in Ips, NEW right \in BOOLEAN, NEW fault \in Store!Faults,
             Store!Login(u, ip, right, fault)
      PROVE  AttemptsCounted'
  BY <1>3, <1>5 DEF Store!Login, Store!LoginRefused, Store!LoginWrong, Store!LoginRight
<1>6. CASE Store!ClockTicks
  <2>1. nowUnix' = nowUnix + 1 /\ nowUnix' \in Nat /\ nowUnix <= nowUnix'
    BY <1>1, <1>6 DEF Store!ClockTicks
  <2> QED
    BY <1>2, <1>6, <2>1 DEF Store!ClockTicks
<1>7. nowUnix <= nowUnix
  BY <1>1
<1> QED
  BY <1>1, <1>2, <1>4, <1>5, <1>6, <1>7 DEF Store!Next, Store!accountVars, Store!Register, Store!RevokeToken,
                                        Store!Suspend

LEMMA AccountsInitHasInv ==
    ASSUME Store!Init
    PROVE  AccountsIInv
<1>1. /\ Accounts = << >> /\ Wallets = {} /\ Sessions = {} /\ tokensMade = 0
      /\ m_ipWindows = [ip \in Ips |-> [start |-> 0, count |-> 0]]
      /\ passed = [ip \in Ips |-> {}] /\ guesses = [u \in Usernames |-> Store!NoGuess]
      /\ nowUnix = IP_WINDOW_SECONDS /\ pbkdf2Iterations = CHOOSE c \in Costs : TRUE
  BY DEF Store!Init
<1>2. nowUnix \in Nat /\ nowUnix >= IP_WINDOW_SECONDS /\ pbkdf2Iterations \in Costs
  BY <1>1, AccountAssumption
<1>3. SessionsOrdered
  BY <1>1 DEF SessionsOrdered
<1>4. AccountsCounted
  BY <1>1, <1>2 DEF AccountsCounted, Store!NoGuess
<1>5. AttemptsCounted
  BY <1>1, <1>2, EmptyWindow DEF AttemptsCounted
<1> QED
  BY <1>3, <1>4, <1>5 DEF AccountsIInv

LEMMA AccountsNextKeepsInv ==
    ASSUME AccountsIInv, [Store!Next]_(Store!accountVars)
    PROVE  AccountsIInv'
<1>1. nowUnix \in Nat
  BY DEF AccountsIInv, AccountsCounted
<1> QED
  BY <1>1, SessionsStayOrdered, AccountsStayCounted, AttemptsStayCounted DEF AccountsIInv

LEMMA AccountsInvFollows ==
    ASSUME AccountsIInv
    PROVE  Store!AccountsInv
<1>1. Store!OnlyNewestValidates
  BY DEF AccountsIInv, SessionsOrdered, Store!OnlyNewestValidates, Store!ValidateToken
<1>2. Store!AccountHasWallet
  BY DEF AccountsIInv, AccountsCounted, Store!AccountHasWallet
<1>3. Store!PasswordKeepsWorking
  BY DEF AccountsIInv, AccountsCounted, Store!PasswordKeepsWorking, Store!Verify, Store!HashPassword
<1>4. ASSUME NEW u \in Usernames
      PROVE  guesses[u].made <= maxLoginFailures + ((nowUnix - guesses[u].since) \div lockoutSeconds)
  <2>1. PICK m \in Nat \ {0}, k \in Nat \ {0}, n \in Nat, made \in Nat, since \in Nat :
           /\ m = maxLoginFailures /\ k = lockoutSeconds /\ n = nowUnix
           /\ made = guesses[u].made /\ since = guesses[u].since /\ since <= n
    BY AccountAssumption DEF AccountsIInv, AccountsCounted
  <2>2. PICK b \in Nat : b = n - since /\ b \div k \in Nat
    <3>1. n - since \in Nat
      BY <2>1
    <3> QED
      BY <3>1, DivGrows
  <2>3. CASE made = 0
    BY <2>1, <2>2, <2>3
  <2>4. CASE made > 0
    <3>1. GuessesPaid(u)
      BY <2>1, <2>4 DEF AccountsIInv, AccountsCounted
    <3>2. PICK f \in Nat, l \in Nat : f = Accounts[u].failures /\ l = Accounts[u].lockedUntil
      BY <3>1 DEF GuessesPaid, AccountsIInv, AccountsCounted, AccountRow
    <3>3. made <= f
      BY <2>1, <3>1, <3>2 DEF GuessesPaid
    <3>4. CASE f < m
      BY <2>1, <2>2, <3>3, <3>4
    <3>5. CASE f >= m
      <4>1. /\ since <= l - k /\ l - k <= n
            /\ made <= m + (((l - k) - since) \div k)
        BY <2>1, <3>1, <3>2, <3>5 DEF GuessesPaid
      <4>2. PICK a \in Nat : a = (l - k) - since /\ a <= b
        BY <2>1, <2>2, <3>2, <4>1
      <4>3. a \div k \in Nat /\ a \div k <= b \div k
        BY <2>1, <2>2, <4>2, DivGrows
      <4>4. made <= m + (a \div k)
        BY <4>1, <4>2
      <4>5. made <= m + (b \div k)
        BY <2>1, <2>2, <4>3, <4>4
      <4> QED
        BY <2>1, <2>2, <4>5
    <3> QED
      BY <2>1, <3>2, <3>4, <3>5
  <2> QED
    BY <2>1, <2>3, <2>4
<1>5. Store!GuessesBounded
  BY <1>4 DEF Store!GuessesBounded
<1>6. ASSUME NEW ip \in Ips, NEW t \in 0 .. nowUnix
      PROVE  Cardinality({ p \in passed[ip] : p[1] \in t .. t + IP_WINDOW_SECONDS - 1 })
                 <= 2 * IP_WINDOW_MAX_ATTEMPTS
  <2>1. WindowCounts(passed[ip], m_ipWindows[ip].start, m_ipWindows[ip].count)
    BY DEF AccountsIInv, AttemptsCounted
  <2>2. PICK w \in Nat : w = IP_WINDOW_SECONDS /\ t \in Nat
    BY AccountAssumption DEF AccountsIInv, AttemptsCounted
  <2>3. \A p \in passed[ip] : p[1] \in Nat
    BY <2>1 DEF WindowCounts
  <2>4. { p \in passed[ip] : p[1] \in t .. t + w - 1 } = Within(passed[ip], t, t + w)
    BY <2>2, <2>3 DEF Within
  <2>5. Cardinality(Within(passed[ip], t, t + w)) <= 2 * IP_WINDOW_MAX_ATTEMPTS
    BY <2>1, <2>2 DEF WindowCounts
  <2> QED
    BY <2>2, <2>4, <2>5
<1>7. \A ip \in Ips : \A t \in 0 .. nowUnix :
         Cardinality({ p \in passed[ip] : p[1] \in t .. t + IP_WINDOW_SECONDS - 1 })
             <= 2 * IP_WINDOW_MAX_ATTEMPTS
  BY <1>6
<1>8. Store!RateBounded
  BY <1>7, SameCardinality DEF Store!RateBounded
<1> QED
  BY <1>1, <1>2, <1>3, <1>5, <1>8 DEF Store!AccountsInv

(* What AccountStore promises, for any usernames, addresses, limits and    *)
(* costs, whichever statements fail and whenever the server restarts: one  *)
(* live session per account and it is the newest, a wallet for every       *)
(* account, a bound on the guesses at a password that no number of         *)
(* addresses gets around, a bound on the attempts of an address in any     *)
(* window's length of time, and passwords that keep working.               *)
THEOREM AccountsCorrect == MCSpec => []AccountsInv
<1>1. MCInit => AccountsIInv
  BY AccountsInitHasInv DEF MCInit
<1>2. AccountsIInv /\ [MCNext]_allVars => AccountsIInv'
  <2> SUFFICES ASSUME AccountsIInv, [MCNext]_allVars PROVE AccountsIInv'
    OBVIOUS
  <2>1. accountVars' = accountVars => UNCHANGED Store!accountVars
    BY DEF accountVars, Store!accountVars
  <2>2. [Store!Next]_(Store!accountVars)
    BY <2>1 DEF MCNext, AccountsNext, RestartNext, OutboxNext, OdbcNext, BehindNext, EventsNext,
                PoolNext, LayoutNext, CatalogNext, allVars
  <2> QED
    BY <2>2, AccountsNextKeepsInv
<1>3. AccountsIInv => AccountsInv
  BY AccountsInvFollows DEF AccountsInv
<1> QED
  BY <1>1, <1>2, <1>3, PTL DEF MCSpec

(***************************************************************************)
(* The ODBC connection                                                     *)
(***************************************************************************)
(* A set of natural numbers that is not empty has a least element: this is *)
(* how the recursive definitions below are reasoned about.                 *)
LEMMA LeastNumber ==
    ASSUME NEW T, T \subseteq Nat, T # {}
    PROVE  \E m \in T : \A k \in T : m <= k
<1>1. PICK U : U = { 0 .. t : t \in T }
  OBVIOUS
<1>2. U \subseteq FiniteSubsetsOf(Nat) /\ U # {}
  <2>1. \A t \in T : IsFiniteSet(0 .. t) /\ 0 .. t \in SUBSET Nat
    BY FS_Interval
  <2> QED
    BY <1>1, <2>1 DEF FiniteSubsetsOf
<1>3. PICK x \in U : \A y \in U : ~(<< y, x >> \in StrictSubsetOrdering(Nat))
  BY <1>2, FS_StrictSubsetOrderingWellFounded, WFMin
<1>4. PICK m \in T : x = 0 .. m
  BY <1>1, <1>3
<1>5. ASSUME NEW k \in T, k < m PROVE FALSE
  <2>1. 0 .. k \in U /\ 0 .. k \subseteq x /\ 0 .. k # x
    BY <1>1, <1>4, <1>5
  <2>2. << 0 .. k, x >> \in StrictSubsetOrdering(Nat)
    BY <2>1, <1>2 DEF StrictSubsetOrdering, FiniteSubsetsOf
  <2> QED
    BY <1>3, <2>1, <2>2
<1> QED
  BY <1>5

(* GetString's loop reads every cell whole, whatever its size: the chunks  *)
(* read from some point on are as long as what is left there, since the    *)
(* least remainder for which they are not would be one chunk more than     *)
(* another for which they are.                                             *)
LEMMA CellReadWhole ==
    ASSUME NEW size \in Nat
    PROVE  Odbc!ReadCell(size) = size
<1> DEFINE Reads(f) == f = [left \in 0 .. size |-> IF left > CHUNK THEN CHUNK + f[left - CHUNK] ELSE left]
<1>1. Reads([left \in 0 .. size |-> left])
  BY OdbcAssumption
<1>2. PICK acc : Reads(acc) /\ Odbc!ReadCell(size) = acc[size]
  <2>1. Reads(CHOOSE f : Reads(f))
    BY <1>1
  <2> QED
    BY <2>1 DEF Odbc!ReadCell
<1>3. SUFFICES ASSUME acc[size] # size PROVE FALSE
  BY <1>2
<1>4. PICK m \in 0 .. size : acc[m] # m /\ \A k \in 0 .. size : acc[k] # k => m <= k
  <2>1. PICK T : T = { k \in 0 .. size : acc[k] # k }
    OBVIOUS
  <2>2. T \subseteq Nat /\ T # {}
    BY <1>3, <2>1
  <2> QED
    BY <2>1, <2>2, LeastNumber
<1>5. acc[m] = IF m > CHUNK THEN CHUNK + acc[m - CHUNK] ELSE m
  BY <1>2
<1>6. CASE m > CHUNK
  <2>1. m - CHUNK \in 0 .. size /\ m - CHUNK < m
    BY <1>6, OdbcAssumption
  <2>2. acc[m - CHUNK] = m - CHUNK
    BY <1>4, <2>1
  <2> QED
    BY <1>4, <1>5, <1>6, <2>2, OdbcAssumption
<1> QED
  BY <1>4, <1>5, <1>6

-----------------------------------------------------------------------------
(* Rows are numbered as they are written, so a new one is in none of the   *)
(* sets; what is open was neither committed nor reported undone.           *)
RowsNumbered ==
    /\ written \in Nat
    /\ dbRows \cup dbOpenRows \cup promised \cup disowned \subseteq 1 .. written

OpenIsUndecided == dbOpenRows \cap (dbRows \cup disowned) = {}

OdbcIInv == Odbc!OdbcInv /\ RowsNumbered /\ OpenIsUndecided

LEMMA OdbcInitHasInv ==
    ASSUME Odbc!Init
    PROVE  OdbcIInv
BY DEF Odbc!Init, OdbcIInv, RowsNumbered, OpenIsUndecided, Odbc!OdbcInv, Odbc!FlagIsMode,
       Odbc!ReportsAreTrue, Odbc!CellsWhole

LEMMA OdbcNextKeepsInv ==
    ASSUME OdbcIInv, [Odbc!Next]_(Odbc!odbcVars)
    PROVE  OdbcIInv'
<1> USE DEF OdbcIInv, RowsNumbered, OpenIsUndecided, Odbc!OdbcInv, Odbc!FlagIsMode,
            Odbc!ReportsAreTrue, Odbc!CellsWhole
<1>1. CASE Odbc!Connect
  BY <1>1 DEF Odbc!Connect
<1>2. CASE Odbc!Destroy
  BY <1>2 DEF Odbc!Destroy
<1>3. CASE Odbc!LinkBreaks
  BY <1>3 DEF Odbc!LinkBreaks
<1>4. CASE Odbc!ExecNonQuery
  <2>1. PICK r : r = written + 1 /\ r \in Nat /\ written' = r
    BY <1>4 DEF Odbc!ExecNonQuery
  <2>2. r \notin 1 .. written /\ 1 .. written \subseteq 1 .. r /\ r \in 1 .. r
    BY <2>1
  <2>3. m_connected /\ link /\ UNCHANGED << m_connected, m_inTxn, link, dbAutocommit, disowned, lastRead >>
    BY <1>4 DEF Odbc!ExecNonQuery
  <2>4. CASE dbAutocommit
    <3>1. dbRows' = dbRows \cup {r} /\ dbOpenRows' = dbOpenRows /\ promised' = promised \cup {r}
      BY <1>4, <2>1, <2>3, <2>4 DEF Odbc!ExecNonQuery
    <3> QED
      BY <2>1, <2>2, <2>3, <3>1
  <2>5. CASE ~dbAutocommit
    <3>1. dbRows' = dbRows /\ dbOpenRows' = dbOpenRows \cup {r} /\ promised' = promised
      BY <1>4, <2>1, <2>3, <2>5 DEF Odbc!ExecNonQuery
    <3> QED
      BY <2>1, <2>2, <2>3, <3>1
  <2> QED
    BY <2>4, <2>5
<1>5. ASSUME NEW size \in 0 .. MAX_CELL, Odbc!ExecQuery(size) PROVE OdbcIInv'
  <2>1. size \in Nat
    BY OdbcAssumption
  <2>2. lastRead'.got = lastRead'.size
    BY <1>5, <2>1, CellReadWhole DEF Odbc!ExecQuery
  <2> QED
    BY <1>5, <2>2 DEF Odbc!ExecQuery, Odbc!driverVars
<1>6. CASE Odbc!BeginTransaction
  BY <1>6 DEF Odbc!BeginTransaction
<1>7. ASSUME NEW outcome \in {"ok", "unknown", "lost"}, Odbc!Commit(outcome) PROVE OdbcIInv'
  <2>1. /\ dbRows' = dbRows \cup dbOpenRows /\ dbOpenRows' = {} /\ m_inTxn' = FALSE
        /\ UNCHANGED << m_connected, written, disowned, lastRead >>
        /\ promised' = promised \cup dbOpenRows \/ promised' = promised
    BY <1>7 DEF Odbc!Commit
  <2>2. (m_connected /\ link)' => dbAutocommit'
    BY <1>7 DEF Odbc!Commit
  <2> QED
    BY <2>1, <2>2
<1>8. CASE Odbc!Rollback
  BY <1>8 DEF Odbc!Rollback
<1>9. CASE UNCHANGED Odbc!odbcVars
  BY <1>9 DEF Odbc!odbcVars
<1> QED
  BY <1>1, <1>2, <1>3, <1>4, <1>5, <1>6, <1>7, <1>8, <1>9 DEF Odbc!Next

(* What one ODBC connection promises, for cells and chunks of any size and *)
(* however often the link breaks: the transaction flag is the driver's     *)
(* mode, a row reported durable stays and one reported undone never comes  *)
(* back, and a cell is read whole.                                         *)
THEOREM OdbcCorrect == MCSpec => []OdbcInv
<1>1. MCInit => OdbcIInv
  BY OdbcInitHasInv DEF MCInit
<1>2. OdbcIInv /\ [MCNext]_allVars => OdbcIInv'
  <2> SUFFICES ASSUME OdbcIInv, [MCNext]_allVars PROVE OdbcIInv'
    OBVIOUS
  <2>1. odbcVars' = odbcVars => UNCHANGED Odbc!odbcVars
    BY DEF odbcVars, Odbc!odbcVars
  <2>2. [Odbc!Next]_(Odbc!odbcVars)
    BY <2>1 DEF MCNext, AccountsNext, RestartNext, OutboxNext, OdbcNext, BehindNext, EventsNext,
                PoolNext, LayoutNext, CatalogNext, allVars
  <2> QED
    BY <2>2, OdbcNextKeepsInv
<1>3. OdbcIInv => OdbcInv
  BY DEF OdbcInv, OdbcIInv
<1> QED
  BY <1>1, <1>2, <1>3, PTL DEF MCSpec
=============================================================================
