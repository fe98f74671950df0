------------------------- MODULE OdbcConnectionPool -------------------------
(***************************************************************************)
(* ERServer/persist/OdbcConnectionPool: the pool that the host thread (for *)
(* logins) and the persistence thread (for everything else) lease database *)
(* connections from.  Acquire takes an idle connection or opens one under  *)
(* the lock, and revives a dead one outside it; Return drops a connection  *)
(* that died or is still in a transaction.                                 *)
(*                                                                         *)
(* The network may break any connection at any time.  What the pool sees   *)
(* of that is OdbcConnection::IsConnected, a flag (connected here) that    *)
(* Connect sets and only Disconnect clears; alive is the truth.            *)
(***************************************************************************)
EXTENDS Integers, FiniteSets

CONSTANTS Threads,
          Conns,       \* connection objects the process may create
          POOL_MIN, POOL_MAX,
          MAX_BREAKS   \* bound on the connections that break

None == "none"         \* a null pointer

ASSUME PoolAssumption ==
    /\ POOL_MIN \in Nat /\ POOL_MAX \in Nat /\ MAX_BREAKS \in Nat
    /\ IsFiniteSet(Conns) /\ IsFiniteSet(Threads)
    /\ None \notin Conns

VARIABLES m_idle,      \* idle connections (the code pops the one returned last)
          m_live,
          m_initialized,
          connected,   \* connections whose m_connected flag is set
          inTxn,       \* connections whose m_inTxn flag is set
          pc,          \* [Threads -> "out", "check", "leased"]
          held,        \* [Threads -> Conns \cup {None}]
          retired,     \* connection objects destroyed
          alive,       \* connections whose link works
          breaks,
          seenDead     \* history: connections a statement failed on, the link being dead

vars == << m_idle, m_live, m_initialized, connected, inTxn, pc, held, retired, alive, breaks,
           seenDead >>

Held == { held[t] : t \in Threads } \ {None}
Unused == Conns \ (m_idle \cup Held \cup retired)

TypeOK ==
    /\ m_idle \subseteq Conns
    /\ m_live \in Int
    /\ m_initialized \in BOOLEAN
    /\ connected \subseteq Conns
    /\ inTxn \subseteq Conns
    /\ pc \in [Threads -> {"out", "check", "leased"}]
    /\ held \in [Threads -> Conns \cup {None}]
    /\ retired \subseteq Conns
    /\ alive \subseteq Conns
    /\ breaks \in 0 .. MAX_BREAKS
    /\ seenDead \subseteq Conns

\* bool Initialize(cfg): warm up to POOL_MIN connections (at least one), fewer
\* when the database stops answering.
Warm == IF POOL_MIN < 1 THEN 1 ELSE POOL_MIN

Init ==
    /\ m_idle \in { S \in SUBSET Conns : Cardinality(S) <= Warm }
    /\ m_live = Cardinality(m_idle)
    /\ m_initialized = TRUE
    /\ connected = m_idle
    /\ inTxn = {}
    /\ pc = [t \in Threads |-> "out"]
    /\ held = [t \in Threads |-> None]
    /\ retired = {}
    /\ alive = m_idle
    /\ breaks = 0
    /\ seenDead = {}

-----------------------------------------------------------------------------
Takes(t, c) ==
    /\ pc[t] = "out"
    /\ held' = [held EXCEPT ![t] = c]
    /\ pc' = [pc EXCEPT ![t] = "check"]

\* Lease Acquire(), under the lock: an idle connection is taken.
AcquireIdle(t, c) ==
    /\ c \in m_idle
    /\ Takes(t, c)
    /\ m_idle' = m_idle \ {c}
    /\ UNCHANGED << m_live, m_initialized, connected, inTxn, retired, alive, breaks, seenDead >>

\* Or a new one is opened, up to POOL_MAX.
AcquireNew(t, c) ==
    /\ m_idle = {}
    /\ m_live < POOL_MAX
    /\ c \in Unused
    /\ Takes(t, c)
    /\ m_live' = m_live + 1
    /\ connected' = connected \cup {c}
    /\ alive' = alive \cup {c}
    /\ UNCHANGED << m_idle, m_initialized, inTxn, retired, breaks, seenDead >>

\* The connection a thread holds is destroyed and uncounted.
Discard(t) ==
    /\ m_live' = m_live - 1
    /\ retired' = retired \cup {held[t]}
    /\ held' = [held EXCEPT ![t] = None]
    /\ pc' = [pc EXCEPT ![t] = "out"]

\* Outside the lock: a connection known to be dead is connected again, or
\* discarded when that fails.
CheckConnected(t, revived) ==
    /\ pc[t] = "check"
    /\ IF held[t] \in connected \/ revived
       THEN /\ pc' = [pc EXCEPT ![t] = "leased"]
            /\ connected' = connected \cup {held[t]}
            /\ alive' = IF held[t] \in connected THEN alive ELSE alive \cup {held[t]}
            /\ UNCHANGED << m_live, retired, held >>
       ELSE Discard(t) /\ UNCHANGED << connected, alive >>
    /\ UNCHANGED << m_idle, m_initialized, inTxn, breaks, seenDead >>

\* A statement on a dead link fails; m_connected is left as it is.
StatementFails(t) ==
    /\ pc[t] = "leased"
    /\ held[t] \notin alive
    /\ seenDead' = seenDead \cup {held[t]}
    /\ UNCHANGED << m_idle, m_live, m_initialized, connected, inTxn, pc, held, retired, alive, breaks >>

\* The leaseholder's transaction begins, and ends (committed or rolled back:
\* the flag is cleared even when the link is down).
BeginTransaction(t) ==
    /\ pc[t] = "leased"
    /\ held[t] \in connected
    /\ inTxn' = inTxn \cup {held[t]}
    /\ UNCHANGED << m_idle, m_live, m_initialized, connected, pc, held, retired, alive, breaks, seenDead >>

EndTransaction(t) ==
    /\ pc[t] = "leased"
    /\ held[t] \in inTxn
    /\ inTxn' = inTxn \ {held[t]}
    /\ UNCHANGED << m_idle, m_live, m_initialized, connected, pc, held, retired, alive, breaks, seenDead >>

Pools(t) ==
    /\ m_idle' = m_idle \cup {held[t]}
    /\ held' = [held EXCEPT ![t] = None]
    /\ pc' = [pc EXCEPT ![t] = "out"]
    /\ UNCHANGED << m_live, retired >>

\* Mutant: a dropped connection stays counted.
ReturnForgetsCount(t) ==
    /\ pc[t] = "leased"
    /\ IF held[t] \notin connected \/ held[t] \in inTxn
       THEN /\ retired' = retired \cup {held[t]}
            /\ held' = [held EXCEPT ![t] = None]
            /\ pc' = [pc EXCEPT ![t] = "out"]
            /\ UNCHANGED << m_idle, m_live >>
       ELSE Pools(t)
    /\ UNCHANGED << m_initialized, connected, inTxn, alive, breaks, seenDead >>

\* void Return(conn), at the end of the lease: a poisoned one is dropped.
Return(t) ==
    /\ pc[t] = "leased"
    /\ IF held[t] \notin connected \/ held[t] \in inTxn
       THEN Discard(t) /\ UNCHANGED m_idle
       ELSE Pools(t)
    /\ UNCHANGED << m_initialized, connected, inTxn, alive, breaks, seenDead >>

\* The server, or the network, breaks a connection.
Break(c) ==
    /\ breaks < MAX_BREAKS
    /\ c \in alive
    /\ c \in m_idle \cup Held
    /\ breaks' = breaks + 1
    /\ alive' = alive \ {c}
    /\ UNCHANGED << m_idle, m_live, m_initialized, connected, inTxn, pc, held, retired, seenDead >>

\* void Shutdown(): PersistenceThread::Stop calls it when no lease is out.
Shutdown ==
    /\ m_initialized
    /\ Held = {}
    /\ retired' = retired \cup m_idle
    /\ m_idle' = {}
    /\ m_live' = 0
    /\ m_initialized' = FALSE
    /\ UNCHANGED << connected, inTxn, pc, held, alive, breaks, seenDead >>

Acquire(t) == \E c \in Conns : AcquireIdle(t, c) \/ AcquireNew(t, c)

Next ==
    \/ \E t \in Threads :
          \/ Acquire(t)
          \/ \E revived \in BOOLEAN : CheckConnected(t, revived)
          \/ StatementFails(t) \/ BeginTransaction(t) \/ EndTransaction(t) \/ Return(t)
    \/ \E c \in Conns : Break(c)
    \/ Shutdown

Spec == Init /\ [][Next]_vars

-----------------------------------------------------------------------------
(* m_live counts the open connections, idle and leased, through every      *)
(* interleaving of Acquire, discarded connections and Return: the pool     *)
(* neither leaks capacity nor has more than POOL_MAX open (the warm-up     *)
(* alone may exceed it, when POOL_MIN does).                               *)
LiveCounted ==
    /\ m_live = Cardinality(m_idle) + Cardinality(Held)
    /\ m_live <= (IF Warm > POOL_MAX THEN Warm ELSE POOL_MAX)

(* A connection is leased to one thread at a time, and not idle meanwhile. *)
LeasesExclusive ==
    /\ \A t, u \in Threads : (held[t] # None /\ held[t] = held[u]) => t = u
    /\ Held \cap (m_idle \cup retired) = {}
    /\ m_idle \cap retired = {}
    /\ \A t \in Threads : held[t] = None <=> pc[t] = "out"

(* A transaction left open by one leaseholder is never seen by another:    *)
(* no idle connection is in a transaction.                                 *)
NoPoisonedIdle == m_idle \cap inTxn = {}

PoolInv == TypeOK /\ LiveCounted /\ LeasesExclusive /\ NoPoisonedIdle

(* What OdbcConnectionPool.h says of a connection the server dropped: it   *)
(* is re-established.  One that has failed a statement is not handed out   *)
(* again as it is.                                                         *)
DroppedIsReplaced == m_idle \cap seenDead = {}
=============================================================================
