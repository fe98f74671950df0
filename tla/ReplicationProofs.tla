------------------------- MODULE ReplicationProofs -------------------------
(***************************************************************************)
(* Proofs about the delta replication of the universe to a client (module  *)
(* Replication): the indexes of the interest grid agree, a client shows no *)
(* entity the server has forgotten, a client served in lockstep converges, *)
(* and the order of the records (module Scheduler) starves no entity the   *)
(* client knows.  They hold for any net ids, forms, travel destinations,   *)
(* budgets, visibility cap, depth of the pending record and losses.        *)
(***************************************************************************)
EXTENDS MCSnapshots, FiniteSetTheorems, SequenceTheorems, WellFoundedInduction, TLAPS

(***************************************************************************)
(* The inductive invariant                                                 *)
(***************************************************************************)
(* A tick of something built, sent or noted: never the current one between *)
(* a step and the broadcast that follows it.                               *)
Past(t) == t \in 1 .. m_tick /\ (stepped => t < m_tick)

(* The grid is what the code keeps of it, and consistent.                  *)
GridRecord(g) ==
    g = [ cells |-> g.cells, entitySector |-> g.entitySector, playerSubs |-> g.playerSubs,
          playerPin |-> g.playerPin ]
CellsAreRecords(g) ==
    \A s \in DOMAIN g.cells :
        g.cells[s] = [residents |-> g.cells[s].residents, subscribers |-> g.cells[s].subscribers]
GridSound(g) == GridRecord(g) /\ CellsAreRecords(g) /\ GridConsistent(g)

(* World, interest grid and stamps say the same of what lives.             *)
SimSound(tick, w, dead, stamps, g) ==
    /\ DOMAIN w \subseteq NetIds /\ \A n \in DOMAIN w : w[n] \in Forms[n]
    /\ dead \subseteq NetIds /\ dead \cap DOMAIN w = {}
    /\ DOMAIN stamps \subseteq DOMAIN w /\ (tick > 0 => DOMAIN stamps = DOMAIN w)
    /\ \A n \in DOMAIN stamps :
          /\ stamps[n] = [version |-> stamps[n].version, last |-> w[n]]
          /\ stamps[n].version \in 1 .. tick
    /\ DOMAIN g.entitySector \subseteq DOMAIN stamps
    /\ GridSound(g)

(* What the server keeps of the client: the version and the state of the   *)
(* same entities, acknowledged and pending.                                *)
KeptSound(tick, b, k) ==
    /\ b = [acked |-> b.acked, pending |-> b.pending, tombstones |-> b.tombstones]
    /\ k = [base |-> k.base, pending |-> k.pending]
    /\ DOMAIN b.acked \subseteq NetIds /\ \A n \in DOMAIN b.acked : b.acked[n] \in 1 .. tick
    /\ DOMAIN k.base = DOMAIN b.acked /\ \A n \in DOMAIN k.base : k.base[n] \in Forms[n]
    /\ DOMAIN k.pending = DOMAIN b.pending
    /\ \A t \in DOMAIN b.pending :
          /\ DOMAIN b.pending[t] \subseteq NetIds /\ DOMAIN k.pending[t] = DOMAIN b.pending[t]
          /\ \A n \in DOMAIN b.pending[t] :
                b.pending[t][n] \in 1 .. tick /\ k.pending[t][n] \in Forms[n]
    /\ DOMAIN b.tombstones \subseteq NetIds

(* Nothing is of a later tick.                                             *)
TicksSound ==
    /\ m_tick \in 0 .. MAX_TICK /\ stepped \in BOOLEAN /\ (stepped => m_tick > 0)
    /\ \A t \in DOMAIN baseline.pending : Past(t)
    /\ \A n \in DOMAIN baseline.tombstones :
          baseline.tombstones[n] = UNSENT \/ Past(baseline.tombstones[n])
    /\ \A s \in snapshots : Past(s.tick)
    /\ \A t \in acks : Past(t)
    /\ DOMAIN decode.entities \subseteq DOMAIN decode.lastTick
    /\ \A n \in DOMAIN decode.lastTick : Past(decode.lastTick[n])

(* The records of a snapshot: of live entities, and leave records.         *)
RecordSound(r) ==
    /\ r.netId \in NetIds
    /\ "tomb" \notin r.mask =>
          r = [netId |-> r.netId, mask |-> r.mask, st |-> r.st] /\ r.st \in Forms[r.netId]
RecordsSound(sent) ==
    /\ \A r \in sent : RecordSound(r)
    /\ \A r, q \in sent : r.netId = q.netId => r = q

OthersSound ==
    /\ \A s \in snapshots : RecordsSound(s.records)
    /\ \A s, u \in snapshots : s.tick = u.tick => s = u
    /\ lost \in 0 .. MAX_LOST /\ byteBudget \in BUDGETS /\ spilled \in BOOLEAN /\ overlapped \in BOOLEAN

(* With room, the server keeps every entity the client shows or is about   *)
(* to show, until a leave record newer than what it shows has arrived.     *)
Kept(b, n) ==
    \/ n \in DOMAIN b.acked
    \/ n \in DOMAIN b.tombstones
    \/ \E t \in DOMAIN b.pending : n \in DOMAIN b.pending[t]

ShownAreKept(b, snaps, dec) ==
    /\ \A n \in DOMAIN dec.entities : Kept(b, n)
    /\ \A s \in snaps : \A n \in Live(s.records) :
          Kept(b, n) \/ (n \in DOMAIN dec.lastTick /\ dec.lastTick[n] > s.tick)

LeaveIsLater(b, snaps, dec, as) ==
    \A n \in DOMAIN b.tombstones : b.tombstones[n] # UNSENT =>
        /\ n \in DOMAIN dec.entities => dec.lastTick[n] < b.tombstones[n]
        /\ \A s \in snaps : n \in Live(s.records) => s.tick < b.tombstones[n]
        /\ \A s \in snaps : s.tick >= b.tombstones[n] => n \in Tombs(s.records)
        /\ \A t \in as : t >= b.tombstones[n] => n \in DOMAIN dec.lastTick /\ dec.lastTick[n] >= t

(* In lockstep at most one snapshot is on its way, recorded under its tick *)
(* as the client will hold it.                                             *)
Mask(known_, n, cur) ==
    IF n \notin DOMAIN known_ THEN {"sec", "pos", "hp", "look"}
    ELSE UNION { IF cur.sec # known_[n].sec THEN {"sec"} ELSE {},
                 IF cur.sec # known_[n].sec \/ cur.q # known_[n].q THEN {"pos"} ELSE {},
                 IF cur.hp # known_[n].hp THEN {"hp"} ELSE {},
                 IF cur.look # known_[n].look THEN {"look"} ELSE {} }

OneOnItsWay ==
    /\ \A s \in snapshots : \A t \in acks : FALSE
    /\ \A s, u \in snapshots : s = u
    /\ \A t, u \in acks : t = u
    /\ \A t, u \in DOMAIN baseline.pending : t = u
    /\ \A s \in snapshots : \A t \in DOMAIN baseline.pending : t = s.tick
    /\ \A a \in acks : \A t \in DOMAIN baseline.pending : t = a
    /\ \A s \in snapshots : \A n \in DOMAIN decode.lastTick : decode.lastTick[n] < s.tick
    /\ \A s \in snapshots : \A r \in s.records : "tomb" \notin r.mask =>
          /\ s.tick \in DOMAIN known.pending /\ r.netId \in DOMAIN known.pending[s.tick]
          /\ r.st = known.pending[s.tick][r.netId]
          /\ r.mask = Mask(known.base, r.netId, r.st)
    /\ \A s \in snapshots : \A t \in DOMAIN baseline.pending :
          \A n \in DOMAIN baseline.pending[t] : n \in Live(s.records)
    /\ \A s \in snapshots : \A n \in Tombs(s.records) : n \notin DOMAIN known.base

Shown(n, st) == n \in DOMAIN decode.entities /\ decode.entities[n] = st

BaseIsShown ==
    /\ snapshots # {} => \A n \in DOMAIN known.base : Shown(n, known.base[n])
    /\ acks # {} =>
          /\ \A n \in DOMAIN known.base :
                Shown(n, known.base[n]) \/ \E t \in DOMAIN known.pending : n \in DOMAIN known.pending[t]
          /\ \A t \in DOMAIN known.pending : \A n \in DOMAIN known.pending[t] : Shown(n, known.pending[t][n])
    /\ (snapshots = {} /\ acks = {} /\ DOMAIN known.pending = {}) =>
          \A n \in DOMAIN known.base : Shown(n, known.base[n])

(* What is acknowledged or pending is of something that lives or has been  *)
(* destroyed, and when its version is the current one so is its state.     *)
VersionsTell ==
    /\ \A n \in DOMAIN baseline.acked :
          /\ n \in DOMAIN world \cup gone
          /\ n \in DOMAIN m_repl =>
                /\ baseline.acked[n] <= m_repl[n].version
                /\ baseline.acked[n] = m_repl[n].version => known.base[n] = m_repl[n].last
          /\ \A t \in DOMAIN baseline.pending : n \in DOMAIN baseline.pending[t] =>
                baseline.acked[n] <= baseline.pending[t][n]
    /\ \A t \in DOMAIN baseline.pending : \A n \in DOMAIN baseline.pending[t] :
          /\ n \in DOMAIN world \cup gone
          /\ n \in DOMAIN m_repl =>
                /\ baseline.pending[t][n] <= m_repl[n].version
                /\ baseline.pending[t][n] = m_repl[n].version =>
                      known.pending[t][n] = m_repl[n].last

TombsApart ==
    \A n \in DOMAIN baseline.tombstones :
        n \notin DOMAIN known.base /\ \A t \in DOMAIN known.pending : n \notin DOMAIN known.pending[t]

InLockstep == OneOnItsWay /\ BaseIsShown /\ VersionsTell /\ TombsApart

ReplicationIInv ==
    /\ SimSound(m_tick, world, gone, m_repl, m_interest)
    /\ KeptSound(m_tick, baseline, known)
    /\ TicksSound /\ OthersSound
    /\ ~spilled => ShownAreKept(baseline, snapshots, decode)
                   /\ LeaveIsLater(baseline, snapshots, decode, acks)
    /\ ~overlapped => InLockstep

-----------------------------------------------------------------------------
(* Numbers, sets and sequences.                                            *)
LEMMA LeastNumber ==
    ASSUME NEW T, T \subseteq Nat, T # {}
    PROVE  \E m \in T : \A k \in T : m <= k
<1>1. PICK U : U = { 0 .. t : t \in T }
  OBVIOUS
<1>2. U \subseteq FiniteSubsetsOf(Nat) /\ U # {}
  <2>1. \A t \in T : IsFiniteSet(0 .. t) /\ 0 .. t \in SUBSET Nat
    BY FS_Interval
  <2> QED
    BY <1>1, <2>1 DEF FiniteSubsetsOf
<1>3. PICK x \in U : \A y \in U : ~(<< y, x >> \in StrictSubsetOrdering(Nat))
  BY <1>2, FS_StrictSubsetOrderingWellFounded, WFMin
<1>4. PICK m \in T : x = 0 .. m
  BY <1>1, <1>3
<1>5. ASSUME NEW k \in T, k < m PROVE FALSE
  <2>1. 0 .. k \in U /\ 0 .. k \subseteq x /\ 0 .. k # x
    BY <1>1, <1>4, <1>5
  <2>2. << 0 .. k, x >> \in StrictSubsetOrdering(Nat)
    BY <2>1, <1>2 DEF StrictSubsetOrdering, FiniteSubsetsOf
  <2> QED
    BY <1>3, <2>1, <2>2
<1> QED
  BY <1>5

(* Max is the greatest of any bounded set of numbers that is not empty.    *)
LEMMA MaxIs ==
    ASSUME NEW S, S \subseteq Nat, S # {}, NEW b \in Nat, \A x \in S : x <= b
    PROVE  Max(S) \in S /\ \A y \in S : y <= Max(S)
<1>1. PICK T : T = { b - x : x \in S }
  OBVIOUS
<1>2. T \subseteq Nat /\ T # {}
  <2>1. \A x \in S : b - x \in Nat
    OBVIOUS
  <2> QED
    BY <1>1, <2>1
<1>3. PICK m \in T : \A k \in T : m <= k
  BY <1>2, LeastNumber
<1>4. PICK x \in S : m = b - x
  BY <1>1, <1>3
<1>5. \A y \in S : x >= y
  <2> SUFFICES ASSUME NEW y \in S PROVE x >= y
    OBVIOUS
  <2>1. b - y \in T
    BY <1>1
  <2>2. b - x <= b - y
    BY <1>3, <1>4, <2>1
  <2> QED
    BY <2>2
<1>6. Max(S) \in S /\ \A y \in S : Max(S) >= y
  BY <1>5 DEF Max
<1> QED
  BY <1>6

(* A ranking of a finite set is a sequence of its elements, each once.     *)
LEMMA RankingIs ==
    ASSUME NEW S, IsFiniteSet(S), NEW q \in SetToSeqs(S)
    PROVE  q \in Seq(S) /\ ToSet(q) = S /\ \A i, j \in DOMAIN q : q[i] = q[j] => i = j
<1>1. PICK n : n = Cardinality(S)
  OBVIOUS
<1>2. n \in Nat
  BY <1>1, FS_CardinalityType
<1>3. q \in [1 .. n -> S] /\ \A i, j \in 1 .. n : i # j => q[i] # q[j]
  BY <1>1 DEF SetToSeqs
<1>4. q \in Injection(1 .. n, S)
  BY <1>3 DEF Injection, IsInjective
<1>5. Cardinality(1 .. n) = n
  BY <1>2, FS_Interval
<1>6. q \in Surjection(1 .. n, S)
  BY <1>1, <1>4, <1>5, FS_Injection
<1>7. ToSet(q) = S
  BY <1>3, <1>6 DEF Surjection, ToSet
<1>8. q \in Seq(S)
  BY <1>2, <1>3
<1> QED
  BY <1>3, <1>7, <1>8

(* Maps.                                                                   *)
LEMMA WithIs ==
    ASSUME NEW f, NEW key, NEW v
    PROVE  /\ DOMAIN With(f, key, v) = DOMAIN f \cup {key}
           /\ With(f, key, v)[key] = v
           /\ \A k \in DOMAIN f : k # key => With(f, key, v)[k] = f[k]
  BY DEF With

LEMMA EraseIs ==
    ASSUME NEW f, NEW key
    PROVE  /\ DOMAIN Erase(f, key) = DOMAIN f \ {key}
           /\ \A k \in DOMAIN f : k # key => Erase(f, key)[k] = f[k]
  BY DEF Erase, Restrict


LEMMA ValueOrWith ==
    ASSUME NEW f, NEW key, NEW v, NEW q, NEW d
    PROVE  ValueOr(With(f, key, v), q, d) = IF q = key THEN v ELSE ValueOr(f, q, d)
  BY DEF With, ValueOr

LEMMA ValueOrErase ==
    ASSUME NEW f, NEW key, NEW q, NEW d
    PROVE  ValueOr(Erase(f, key), q, d) = IF q = key THEN d ELSE ValueOr(f, q, d)
  BY DEF Erase, Restrict, ValueOr
-----------------------------------------------------------------------------
(* The interest grid.                                                      *)
(* What the cells hold, said of every sector: a sector without a cell      *)
(* holds nobody.                                                           *)
ResidentsOf(g, s) == {n \in DOMAIN g.entitySector : g.entitySector[n] = s}
SubscribersOf(g, s) == {p \in DOMAIN g.playerSubs : s \in g.playerSubs[p]}
CellOf(g, s) == [residents |-> ResidentsOf(g, s), subscribers |-> SubscribersOf(g, s)]

Listed(g) ==
    /\ \A s \in DOMAIN g.cells : g.cells[s] = CellOf(g, s)
    /\ \A s : s \in DOMAIN g.cells <=> ResidentsOf(g, s) # {} \/ SubscribersOf(g, s) # {}

PinsCovered(g) == \A p \in DOMAIN g.playerPin : g.playerPin[p] \subseteq Subscriptions(g, p)

(* The grid is consistent iff its cells are what the two maps say of them. *)
LEMMA GridIs ==
    ASSUME NEW g
    PROVE  CellsAreRecords(g) /\ GridConsistent(g) <=> Listed(g) /\ PinsCovered(g)
<1>1. ASSUME CellsAreRecords(g), GridConsistent(g) PROVE Listed(g) /\ PinsCovered(g)
  <2>1. \A s \in DOMAIN g.cells :
          /\ g.cells[s] # EmptyCell
          /\ g.cells[s].residents = ResidentsOf(g, s)
          /\ g.cells[s].subscribers = SubscribersOf(g, s)
    BY <1>1 DEF GridConsistent, ResidentsOf, SubscribersOf
  <2>2. ASSUME NEW s \in DOMAIN g.cells
        PROVE  /\ g.cells[s] = CellOf(g, s)
               /\ ResidentsOf(g, s) # {} \/ SubscribersOf(g, s) # {}
    <3>1. g.cells[s] = CellOf(g, s)
      BY <1>1, <2>1 DEF CellsAreRecords, CellOf
    <3> QED
      BY <3>1, <2>1 DEF CellOf, EmptyCell
  <2>3. ASSUME NEW s, s \notin DOMAIN g.cells PROVE ResidentsOf(g, s) = {} /\ SubscribersOf(g, s) = {}
    BY <1>1, <2>3 DEF GridConsistent, ResidentsOf, SubscribersOf
  <2> QED
    BY <1>1, <2>2, <2>3 DEF GridConsistent, Listed, PinsCovered
<1>2. ASSUME Listed(g), PinsCovered(g) PROVE CellsAreRecords(g) /\ GridConsistent(g)
  <2>1. \A s \in DOMAIN g.cells : /\ g.cells[s].residents = ResidentsOf(g, s)
                                  /\ g.cells[s].subscribers = SubscribersOf(g, s)
                                  /\ g.cells[s] = CellOf(g, s)
    BY <1>2 DEF Listed, CellOf
  <2>2. \A s \in DOMAIN g.cells : g.cells[s] # EmptyCell
    BY <1>2, <2>1 DEF Listed, EmptyCell
  <2>3. \A n \in DOMAIN g.entitySector : g.entitySector[n] \in DOMAIN g.cells
    BY <1>2 DEF Listed, ResidentsOf
  <2>4. \A p \in DOMAIN g.playerSubs : g.playerSubs[p] \subseteq DOMAIN g.cells
    BY <1>2 DEF Listed, SubscribersOf
  <2>5. CellsAreRecords(g)
    BY <2>1 DEF CellsAreRecords, CellOf
  <2> QED
    BY <1>2, <2>1, <2>2, <2>3, <2>4, <2>5 DEF GridConsistent, PinsCovered, ResidentsOf, SubscribersOf
<1> QED
  BY <1>1, <1>2

(* The cell of a sector lists who resides in it and who subscribes to it. *)
LEMMA CellAtIs ==
    ASSUME NEW g, Listed(g), NEW s
    PROVE  /\ CellAt(g, s).residents = ResidentsOf(g, s)
           /\ CellAt(g, s).subscribers = SubscribersOf(g, s)
<1>1. PICK c : c = CellAt(g, s)
  OBVIOUS
<1>2. PICK r, u : r = ResidentsOf(g, s) /\ u = SubscribersOf(g, s)
  OBVIOUS
<1>3. c = [residents |-> r, subscribers |-> u]
  <2>1. CASE s \in DOMAIN g.cells
    BY <1>1, <1>2, <2>1 DEF CellAt, ValueOr, Listed, CellOf
  <2>2. CASE s \notin DOMAIN g.cells
    BY <1>1, <1>2, <2>2 DEF CellAt, ValueOr, EmptyCell, Listed
  <2> QED
    BY <2>1, <2>2
<1>4. c.residents = r /\ c.subscribers = u
  BY <1>3
<1> QED
  BY <1>1, <1>2, <1>4

(* Who leaves was there, and who enters is not anywhere else.              *)
Leaves(g, leaving, home) ==
    /\ leaving \subseteq DOMAIN g.entitySector
    /\ \A n \in DOMAIN home : n \in DOMAIN g.entitySector => n \in leaving

(* Residencies change and the cells follow.                                *)
LEMMA RehomeSound ==
    ASSUME NEW g, GridRecord(g), Listed(g), PinsCovered(g),
           NEW leaving, NEW home, Leaves(g, leaving, home),
           NEW h, h = Rehome(g, leaving, home)
    PROVE  /\ GridRecord(h) /\ Listed(h) /\ PinsCovered(h)
           /\ DOMAIN h.entitySector = (DOMAIN g.entitySector \ leaving) \cup DOMAIN home
           /\ h.playerSubs = g.playerSubs /\ h.playerPin = g.playerPin
<1> DEFINE es == g.entitySector
           R(s) == (CellAt(g, s).residents \ {n \in leaving : es[n] = s})
                   \cup {n \in DOMAIN home : home[n] = s}
           S(s) == CellAt(g, s).subscribers
           L == {es[n] : n \in leaving}
           E == {home[n] : n \in DOMAIN home}
           cells == Relisted(g.cells, L, E, R, S)
           sector == [n \in (DOMAIN es \ leaving) \cup DOMAIN home |->
                         IF n \in DOMAIN home THEN home[n] ELSE es[n]]
<1>1. h = [g EXCEPT !.cells = cells, !.entitySector = sector]
  BY DEF Rehome
<1>0. /\ leaving \subseteq DOMAIN g.entitySector
      /\ \A n \in DOMAIN home : n \in DOMAIN g.entitySector => n \in leaving
  BY DEF Leaves
<1>2. /\ h.cells = cells /\ h.entitySector = sector
      /\ h.playerSubs = g.playerSubs /\ h.playerPin = g.playerPin /\ GridRecord(h)
  <2>1. PICK C, es2 : C = cells /\ es2 = sector
    OBVIOUS
  <2>2. h = [g EXCEPT !.cells = C, !.entitySector = es2]
    BY <1>1, <2>1
  <2> HIDE DEF cells, sector
  <2>3. h = [ cells |-> C, entitySector |-> es2, playerSubs |-> g.playerSubs, playerPin |-> g.playerPin ]
    BY <2>2 DEF GridRecord
  <2> QED
    BY <2>1, <2>3 DEF GridRecord
<1>3. \A s : S(s) = SubscribersOf(h, s)
  <2> SUFFICES ASSUME NEW s PROVE S(s) = SubscribersOf(h, s)
    OBVIOUS
  <2>1. S(s) = SubscribersOf(g, s)
    BY CellAtIs
  <2> QED
    BY <1>2, <2>1 DEF SubscribersOf
<1>4. \A s : R(s) = ResidentsOf(h, s)
  <2> SUFFICES ASSUME NEW s PROVE R(s) = ResidentsOf(h, s)
    OBVIOUS
  <2>1. CellAt(g, s).residents = {n \in DOMAIN es : es[n] = s}
    BY CellAtIs DEF ResidentsOf
  <2> QED
    BY <1>0, <1>2, <2>1 DEF ResidentsOf
<1>5. /\ DOMAIN cells = (DOMAIN g.cells \cup E) \ {t \in L : R(t) = {} /\ S(t) = {}}
      /\ \A s \in DOMAIN cells : cells[s] = [residents |-> R(s), subscribers |-> S(s)]
  BY DEF Relisted
<1>6. \A s : R(s) # {} \/ S(s) # {} => s \in DOMAIN cells
  <2> TAKE s
  <2> SUFFICES ASSUME s \notin DOMAIN cells PROVE R(s) = {} /\ S(s) = {}
    OBVIOUS
  <2>1. CASE s \in L /\ R(s) = {} /\ S(s) = {}
    BY <2>1
  <2>2. CASE s \notin DOMAIN g.cells \cup E
    <3>1. PICK c : c = CellAt(g, s)
      OBVIOUS
    <3>2. c = EmptyCell
      BY <2>2, <3>1 DEF CellAt, ValueOr
    <3>4. c.residents = {} /\ c.subscribers = {}
      BY <3>2 DEF EmptyCell
    <3>3. {n \in DOMAIN home : home[n] = s} = {}
      BY <2>2
    <3> QED
      BY <1>0, <3>1, <3>3, <3>4
  <2> QED
    BY <1>5, <2>1, <2>2
<1>7. \A s \in DOMAIN cells : R(s) # {} \/ S(s) # {}
  <2> SUFFICES ASSUME NEW s \in DOMAIN cells PROVE R(s) # {} \/ S(s) # {}
    OBVIOUS
  <2>1. CASE s \in L
    BY <1>0, <1>5, <2>1
  <2>2. CASE s \in E
    BY <2>2
  <2>3. CASE s \in DOMAIN g.cells /\ s \notin L
    <3>1. ResidentsOf(g, s) # {} \/ SubscribersOf(g, s) # {}
      BY <2>3 DEF Listed
    <3>2. CellAt(g, s).residents = ResidentsOf(g, s) /\ CellAt(g, s).subscribers = SubscribersOf(g, s)
      BY CellAtIs
    <3>3. {n \in leaving : es[n] = s} = {}
      BY <2>3
    <3> QED
      BY <1>0, <3>1, <3>2, <3>3
  <2> QED
    BY <1>5, <2>1, <2>2, <2>3
<1> HIDE DEF cells, R, S
<1>8. \A s \in DOMAIN cells : cells[s] = CellOf(h, s)
  BY <1>3, <1>4, <1>5 DEF CellOf
<1>9. Listed(h)
  <2>1. \A s : s \in DOMAIN h.cells <=> ResidentsOf(h, s) # {} \/ SubscribersOf(h, s) # {}
    BY <1>2, <1>3, <1>4, <1>6, <1>7
  <2> QED
    BY <1>2, <1>8, <2>1 DEF Listed
<1>10. PinsCovered(h)
  BY <1>2 DEF PinsCovered, Subscriptions
<1>11. DOMAIN h.entitySector = (DOMAIN es \ leaving) \cup DOMAIN home
  BY <1>2
<1> QED
  BY <1>2, <1>9, <1>10, <1>11

(* A subscription changes and the cells follow.                            *)
LEMMA ApplyTargetSound ==
    ASSUME NEW g, GridRecord(g), Listed(g), NEW p, NEW target, NEW h, h = ApplyTarget(g, p, target)
    PROVE  /\ GridRecord(h) /\ Listed(h)
           /\ h.entitySector = g.entitySector /\ h.playerPin = g.playerPin
           /\ \A q : Subscriptions(h, q) = IF q = p THEN target ELSE Subscriptions(g, q)
<1> DEFINE cur == Subscriptions(g, p)
           R(s) == CellAt(g, s).residents
           S(s) == (CellAt(g, s).subscribers \ (IF s \in cur \ target THEN {p} ELSE {}))
                   \cup (IF s \in target \ cur THEN {p} ELSE {})
           L == cur \ target
           E == target \ cur
           cells == Relisted(g.cells, L, E, R, S)
           subs == With(g.playerSubs, p, target)
<1>1. h = [g EXCEPT !.cells = cells, !.playerSubs = subs]
  BY DEF ApplyTarget
<1>2. /\ h.cells = cells /\ h.entitySector = g.entitySector
      /\ h.playerSubs = subs /\ h.playerPin = g.playerPin /\ GridRecord(h)
  <2>1. PICK C, u : C = cells /\ u = subs
    OBVIOUS
  <2>2. h = [g EXCEPT !.cells = C, !.playerSubs = u]
    BY <1>1, <2>1
  <2> HIDE DEF cells, subs
  <2>3. h = [ cells |-> C, entitySector |-> g.entitySector, playerSubs |-> u, playerPin |-> g.playerPin ]
    BY <2>2 DEF GridRecord
  <2> QED
    BY <2>1, <2>3 DEF GridRecord
<1>3. \A q : Subscriptions(h, q) = IF q = p THEN target ELSE Subscriptions(g, q)
  <2> SUFFICES ASSUME NEW q
               PROVE  Subscriptions(h, q) = IF q = p THEN target ELSE Subscriptions(g, q)
    OBVIOUS
  <2>1. h.playerSubs = With(g.playerSubs, p, target)
    BY <1>2
  <2>2. ValueOr(With(g.playerSubs, p, target), q, {}) = IF q = p THEN target ELSE ValueOr(g.playerSubs, q, {})
    BY ValueOrWith
  <2> QED
    BY <2>1, <2>2 DEF Subscriptions
<1>4. \A s : R(s) = ResidentsOf(h, s)
  <2> SUFFICES ASSUME NEW s PROVE R(s) = ResidentsOf(h, s)
    OBVIOUS
  <2>1. R(s) = ResidentsOf(g, s)
    BY CellAtIs
  <2> QED
    BY <1>2, <2>1 DEF ResidentsOf
<1>5. \A s, q : q \in SubscribersOf(h, s) <=> s \in Subscriptions(h, q)
  BY DEF SubscribersOf, Subscriptions, ValueOr
<1>6. \A s, q : q \in SubscribersOf(g, s) <=> s \in Subscriptions(g, q)
  BY DEF SubscribersOf, Subscriptions, ValueOr
<1>7. \A s : S(s) = SubscribersOf(h, s)
  <2> SUFFICES ASSUME NEW s, NEW q PROVE q \in S(s) <=> q \in SubscribersOf(h, s)
    OBVIOUS
  <2>1. q \in CellAt(g, s).subscribers <=> s \in Subscriptions(g, q)
    BY <1>6, CellAtIs
  <2> QED
    BY <1>3, <1>5, <2>1
<1>8. /\ DOMAIN cells = (DOMAIN g.cells \cup E) \ {t \in L : R(t) = {} /\ S(t) = {}}
      /\ \A s \in DOMAIN cells : cells[s] = [residents |-> R(s), subscribers |-> S(s)]
  BY DEF Relisted
<1>9. \A s : R(s) # {} \/ S(s) # {} => s \in DOMAIN cells
  <2> TAKE s
  <2> SUFFICES ASSUME s \notin DOMAIN cells PROVE R(s) = {} /\ S(s) = {}
    OBVIOUS
  <2>1. CASE s \in L /\ R(s) = {} /\ S(s) = {}
    BY <2>1
  <2>2. CASE s \notin DOMAIN g.cells \cup E
    <3>1. PICK c : c = CellAt(g, s)
      OBVIOUS
    <3>2. c = EmptyCell
      BY <2>2, <3>1 DEF CellAt, ValueOr
    <3>3. c.residents = {} /\ c.subscribers = {}
      BY <3>2 DEF EmptyCell
    <3> QED
      BY <2>2, <3>1, <3>3
  <2> QED
    BY <1>8, <2>1, <2>2
<1>10. \A s \in DOMAIN cells : R(s) # {} \/ S(s) # {}
  <2> SUFFICES ASSUME NEW s \in DOMAIN cells PROVE R(s) # {} \/ S(s) # {}
    OBVIOUS
  <2>1. CASE s \in L
    BY <1>8, <2>1
  <2>2. CASE s \in E
    BY <2>2
  <2>3. CASE s \in DOMAIN g.cells /\ s \notin L
    <3>1. ResidentsOf(g, s) # {} \/ SubscribersOf(g, s) # {}
      BY <2>3 DEF Listed
    <3>2. CellAt(g, s).residents = ResidentsOf(g, s) /\ CellAt(g, s).subscribers = SubscribersOf(g, s)
      BY CellAtIs
    <3> QED
      BY <2>3, <3>1, <3>2
  <2> QED
    BY <1>8, <2>1, <2>2, <2>3
<1> HIDE DEF cells, R, S
<1>11. \A s \in DOMAIN cells : cells[s] = CellOf(h, s)
  BY <1>4, <1>7, <1>8 DEF CellOf
<1>12. Listed(h)
  <2>1. \A s : s \in DOMAIN h.cells <=> ResidentsOf(h, s) # {} \/ SubscribersOf(h, s) # {}
    BY <1>2, <1>4, <1>7, <1>9, <1>10
  <2> QED
    BY <1>2, <1>11, <2>1 DEF Listed
<1> QED
  BY <1>2, <1>3, <1>12

(* A change of the pins alone.                                             *)
LEMMA RepinSound ==
    ASSUME NEW g, GridRecord(g), Listed(g), NEW pins, NEW h, h = [g EXCEPT !.playerPin = pins]
    PROVE  /\ GridRecord(h) /\ Listed(h) /\ h.playerPin = pins
           /\ h.entitySector = g.entitySector /\ h.playerSubs = g.playerSubs
<1>1. h = [ cells |-> g.cells, entitySector |-> g.entitySector, playerSubs |-> g.playerSubs,
            playerPin |-> pins ]
  BY DEF GridRecord
<1>2. \A s : ResidentsOf(h, s) = ResidentsOf(g, s) /\ SubscribersOf(h, s) = SubscribersOf(g, s)
  BY <1>1 DEF ResidentsOf, SubscribersOf
<1>3. \A s : CellOf(h, s) = CellOf(g, s)
  BY <1>2 DEF CellOf
<1>4. Listed(h)
  <2>1. h.cells = g.cells
    BY <1>1
  <2> QED
    BY <1>2, <1>3, <2>1 DEF Listed
<1> QED
  BY <1>1, <1>4 DEF GridRecord

(* Pins are covered, said of every player.                                 *)
LEMMA PinsIs ==
    ASSUME NEW g
    PROVE  PinsCovered(g) <=> \A p : Pins(g, p) \subseteq Subscriptions(g, p)
  BY DEF PinsCovered, Pins, ValueOr

(* A travel prefetch pins what it subscribes.                              *)
LEMMA PreSubscribeSound ==
    ASSUME NEW g, GridRecord(g), Listed(g), PinsCovered(g), NEW p, NEW center, NEW radius,
           NEW h, h = PreSubscribe(g, p, center, radius)
    PROVE  GridRecord(h) /\ Listed(h) /\ PinsCovered(h) /\ h.entitySector = g.entitySector
<1>1. PICK cells : cells = CollectNeighbourhood(center, radius)
  OBVIOUS
<1>2. PICK g2 : g2 = ApplyTarget(g, p, Subscriptions(g, p) \cup cells)
  OBVIOUS
<1>3. /\ GridRecord(g2) /\ Listed(g2)
      /\ g2.entitySector = g.entitySector /\ g2.playerPin = g.playerPin
      /\ \A q : Subscriptions(g2, q) = IF q = p THEN Subscriptions(g, p) \cup cells ELSE Subscriptions(g, q)
  BY <1>2, ApplyTargetSound
<1>4. PICK pins : pins = With(g2.playerPin, p, Pins(g, p) \cup cells)
  OBVIOUS
<1>5. h = [g2 EXCEPT !.playerPin = pins]
  BY <1>1, <1>2, <1>4 DEF PreSubscribe
<1>6. /\ GridRecord(h) /\ Listed(h) /\ h.playerPin = pins
      /\ h.entitySector = g2.entitySector /\ h.playerSubs = g2.playerSubs
  BY <1>3, <1>5, RepinSound
<1>7. \A q : Pins(h, q) = IF q = p THEN Pins(g, p) \cup cells ELSE Pins(g, q)
  BY <1>3, <1>4, <1>6, ValueOrWith DEF Pins
<1>8. \A q : Subscriptions(h, q) = Subscriptions(g2, q)
  BY <1>6 DEF Subscriptions
<1>9. PinsCovered(h)
  <2>1. \A q : Pins(g, q) \subseteq Subscriptions(g, q)
    BY PinsIs
  <2>2. \A q : Pins(h, q) \subseteq Subscriptions(h, q)
    BY <1>3, <1>7, <1>8, <2>1
  <2> QED
    BY <2>2, PinsIs
<1> QED
  BY <1>3, <1>6, <1>9

(* A pin is kept with its subscription until the sensors cover it.         *)
LEMMA SetSubscriptionSound ==
    ASSUME NEW g, GridRecord(g), Listed(g), PinsCovered(g), NEW p, NEW cells,
           NEW h, h = SetSubscription(g, p, cells)
    PROVE  GridRecord(h) /\ Listed(h) /\ PinsCovered(h) /\ h.entitySector = g.entitySector
<1>1. PICK still : still = Pins(g, p) \ cells
  OBVIOUS
<1>2. PICK pins : pins = IF still = {} THEN Erase(g.playerPin, p) ELSE With(g.playerPin, p, still)
  OBVIOUS
<1>3. PICK unpinned : unpinned = [g EXCEPT !.playerPin = pins]
  OBVIOUS
<1>4. /\ GridRecord(unpinned) /\ Listed(unpinned) /\ unpinned.playerPin = pins
      /\ unpinned.entitySector = g.entitySector /\ unpinned.playerSubs = g.playerSubs
  BY <1>3, RepinSound
<1>5. h = ApplyTarget(unpinned, p, cells \cup still)
  BY <1>1, <1>2, <1>3 DEF SetSubscription
<1>6. /\ GridRecord(h) /\ Listed(h)
      /\ h.entitySector = unpinned.entitySector /\ h.playerPin = unpinned.playerPin
      /\ \A q : Subscriptions(h, q) = IF q = p THEN cells \cup still ELSE Subscriptions(unpinned, q)
  BY <1>4, <1>5, ApplyTargetSound
<1>7. \A q : Pins(h, q) = IF q = p THEN still ELSE Pins(g, q)
  <2>1. CASE still = {}
    BY <1>2, <1>4, <1>6, <2>1, ValueOrErase DEF Pins
  <2>2. CASE still # {}
    BY <1>2, <1>4, <1>6, <2>2, ValueOrWith DEF Pins
  <2> QED
    BY <2>1, <2>2
<1>8. \A q : Subscriptions(unpinned, q) = Subscriptions(g, q)
  BY <1>4 DEF Subscriptions
<1>9. PinsCovered(h)
  <2>1. \A q : Pins(g, q) \subseteq Subscriptions(g, q)
    BY PinsIs
  <2>2. \A q : Pins(h, q) \subseteq Subscriptions(h, q)
    BY <1>6, <1>7, <1>8, <2>1
  <2> QED
    BY <2>2, PinsIs
<1> QED
  BY <1>4, <1>6, <1>9

(* A tick re-homes what moved.                                             *)
LEMMA UpdateResidencySound ==
    ASSUME NEW g, GridRecord(g), Listed(g), PinsCovered(g), NEW w, NEW h, h = UpdateResidency(g, w)
    PROVE  /\ GridRecord(h) /\ Listed(h) /\ PinsCovered(h)
           /\ DOMAIN h.entitySector \subseteq DOMAIN g.entitySector \cup DOMAIN w
<1>1. PICK moved : moved = {n \in DOMAIN w : n \in DOMAIN g.entitySector => g.entitySector[n] # w[n].sec}
  OBVIOUS
<1>2. PICK home : home = [n \in moved |-> w[n].sec]
  OBVIOUS
<1>3. PICK leaving : leaving = moved \cap DOMAIN g.entitySector
  OBVIOUS
<1>4. h = Rehome(g, leaving, home)
  BY <1>1, <1>2, <1>3 DEF UpdateResidency
<1>5. Leaves(g, leaving, home)
  BY <1>1, <1>2, <1>3 DEF Leaves
<1>6. /\ GridRecord(h) /\ Listed(h) /\ PinsCovered(h)
      /\ DOMAIN h.entitySector = (DOMAIN g.entitySector \ leaving) \cup DOMAIN home
  BY <1>4, <1>5, RehomeSound
<1> QED
  BY <1>1, <1>2, <1>6

(* What is despawned resides nowhere.                                      *)
LEMMA RemoveEntitySound ==
    ASSUME NEW g, GridRecord(g), Listed(g), PinsCovered(g), NEW n, NEW h, h = RemoveEntity(g, n)
    PROVE  /\ GridRecord(h) /\ Listed(h) /\ PinsCovered(h)
           /\ DOMAIN h.entitySector = DOMAIN g.entitySector \ {n}
<1>1. PICK leaving, home : leaving = {n} \cap DOMAIN g.entitySector /\ home = EmptyMap
  OBVIOUS
<1>2. h = Rehome(g, leaving, home) /\ DOMAIN home = {}
  BY <1>1 DEF RemoveEntity, EmptyMap
<1>4. Leaves(g, leaving, home)
  BY <1>1, <1>2 DEF Leaves
<1>3. /\ GridRecord(h) /\ Listed(h) /\ PinsCovered(h)
      /\ DOMAIN h.entitySector = (DOMAIN g.entitySector \ leaving) \cup DOMAIN home
  BY <1>2, <1>4, RehomeSound
<1> QED
  BY <1>1, <1>2, <1>3

(* Residency and subscription of one tick.                                 *)
LEMMA UpdateInterestSound ==
    ASSUME NEW g, GridRecord(g), Listed(g), PinsCovered(g), NEW w, NEW h, h = UpdateInterest(g, w)
    PROVE  /\ GridRecord(h) /\ Listed(h) /\ PinsCovered(h)
           /\ DOMAIN h.entitySector \subseteq DOMAIN g.entitySector \cup DOMAIN w
<1>1. PICK homed : homed = UpdateResidency(g, w)
  OBVIOUS
<1>2. /\ GridRecord(homed) /\ Listed(homed) /\ PinsCovered(homed)
      /\ DOMAIN homed.entitySector \subseteq DOMAIN g.entitySector \cup DOMAIN w
  BY <1>1, UpdateResidencySound
<1>3. CASE Base \in DOMAIN w
  <2>1. PICK cells : cells = CollectNeighbourhood(w[Base].sec, SENSOR_CELLS)
    OBVIOUS
  <2>2. h = SetSubscription(homed, Client, cells)
    BY <1>1, <1>3, <2>1 DEF UpdateInterest
  <2> QED
    BY <1>2, <2>2, SetSubscriptionSound
<1>4. CASE Base \notin DOMAIN w
  BY <1>1, <1>2, <1>4 DEF UpdateInterest
<1> QED
  BY <1>3, <1>4

(* Only residents are seen.                                                *)
LEMMA SeenReside ==
    ASSUME NEW g, Listed(g), NEW p
    PROVE  VisibleTo(g, p) \subseteq DOMAIN g.entitySector
<1>1. \A s : CellAt(g, s).residents \subseteq DOMAIN g.entitySector
  BY CellAtIs DEF ResidentsOf
<1> QED
  BY <1>1 DEF VisibleTo
-----------------------------------------------------------------------------
(* A step of the simulation.                                               *)
(* What a step starts from, w, g and stamps, continues what there was: it  *)
(* keeps the stamps of what it keeps, and what has no stamp is new.        *)
Continues(w, g, stamps, dead) ==
    /\ DOMAIN w \subseteq NetIds /\ \A n \in DOMAIN w : w[n] \in Forms[n]
    /\ dead \subseteq NetIds /\ dead \cap DOMAIN w = {}
    /\ DOMAIN world \cup gone \subseteq DOMAIN w \cup dead
    /\ DOMAIN stamps \subseteq DOMAIN w \cap DOMAIN m_repl
    /\ \A n \in DOMAIN stamps : stamps[n] = m_repl[n]
    /\ \A n \in DOMAIN w : n \in DOMAIN stamps \/ m_tick = 0 \/ n \notin DOMAIN world \cup gone
    /\ DOMAIN g.entitySector \subseteq DOMAIN stamps
    /\ GridRecord(g) /\ Listed(g) /\ PinsCovered(g)

LEMMA GridSoundIs ==
    ASSUME NEW g
    PROVE  GridSound(g) <=> GridRecord(g) /\ Listed(g) /\ PinsCovered(g)
  BY GridIs DEF GridSound

(* Stamping moves a version iff the state it is of has changed.            *)
LEMMA StampsTell ==
    ASSUME NEW stamps, NEW w, NEW tick \in Nat, NEW m, m = StampReplication(stamps, w),
           DOMAIN stamps \subseteq DOMAIN w,
           \A n \in DOMAIN stamps : stamps[n] = [version |-> stamps[n].version, last |-> stamps[n].last]
                                    /\ stamps[n].version \in 1 .. tick
    PROVE  /\ DOMAIN m = DOMAIN w
           /\ \A n \in DOMAIN m : m[n] = [version |-> m[n].version, last |-> w[n]]
                                  /\ m[n].version \in 1 .. tick + 1
           /\ \A n \in DOMAIN stamps :
                 /\ stamps[n].version <= m[n].version
                 /\ stamps[n].version = m[n].version => m[n].last = stamps[n].last
<1>1. DOMAIN m = DOMAIN w /\ \A n \in DOMAIN w : m[n] = Stamp(stamps, n, w[n])
  BY DEF StampReplication
<1>2. ASSUME NEW n \in DOMAIN w
      PROVE  /\ m[n] = [version |-> m[n].version, last |-> w[n]]
             /\ m[n].version \in 1 .. tick + 1
             /\ n \in DOMAIN stamps =>
                   /\ stamps[n].version <= m[n].version
                   /\ stamps[n].version = m[n].version => m[n].last = stamps[n].last
  <2>1. CASE n \notin DOMAIN stamps
    BY <1>1, <2>1 DEF Stamp
  <2>2. CASE n \in DOMAIN stamps
    <3>1. PICK v, st : v = stamps[n].version /\ st = stamps[n].last
      OBVIOUS
    <3>2. stamps[n] = [version |-> v, last |-> st] /\ v \in 1 .. tick
      BY <2>2, <3>1
    <3>3. m[n] = IF st # w[n] THEN [version |-> v + 1, last |-> w[n]] ELSE [version |-> v, last |-> st]
      BY <1>1, <2>2, <3>2 DEF Stamp
    <3> QED
      BY <3>2, <3>3
  <2> QED
    BY <2>1, <2>2
<1> QED
  BY <1>1, <1>2

(* The end of a tick, from any world it may start from.                    *)
LEMMA StepPreserves ==
    ASSUME ReplicationIInv, NEW w, NEW g, NEW stamps, Continues(w, g, stamps, gone'), Step(w, g, stamps)
    PROVE  ReplicationIInv'
<1> USE ReplicationAssumption
<1>1. PICK m, h, dead : m = StampReplication(stamps, w) /\ h = UpdateInterest(g, w) /\ dead = gone'
  OBVIOUS
<1>2. /\ m_tick' = m_tick + 1 /\ stepped' = TRUE /\ world' = w /\ m_repl' = m /\ m_interest' = h
      /\ m_tick < MAX_TICK
  BY <1>1 DEF Step
<1>3. UNCHANGED <<baseline, known>> /\ UNCHANGED <<snapshots, acks, lost>> /\ UNCHANGED <<decode, byteBudget>>
      /\ UNCHANGED <<spilled, overlapped>>
  BY DEF Step, sentVars, netVars, history
<1>4. /\ SimSound(m_tick, world, gone, m_repl, m_interest) /\ KeptSound(m_tick, baseline, known)
      /\ TicksSound /\ OthersSound
  BY DEF ReplicationIInv
<1>5. m_tick \in 0 .. MAX_TICK /\ MAX_TICK \in Nat
  BY <1>4 DEF TicksSound
<1>6. /\ DOMAIN m = DOMAIN w
      /\ \A n \in DOMAIN m : m[n] = [version |-> m[n].version, last |-> w[n]]
                             /\ m[n].version \in 1 .. m_tick + 1
      /\ \A n \in DOMAIN stamps :
            /\ stamps[n].version <= m[n].version
            /\ stamps[n].version = m[n].version => m[n].last = stamps[n].last
  <2>1. \A n \in DOMAIN stamps : stamps[n] = [version |-> stamps[n].version, last |-> stamps[n].last]
                                 /\ stamps[n].version \in 1 .. m_tick
    <3> SUFFICES ASSUME NEW n \in DOMAIN stamps
                 PROVE  stamps[n] = [version |-> stamps[n].version, last |-> stamps[n].last]
                        /\ stamps[n].version \in 1 .. m_tick
      OBVIOUS
    <3>1. n \in DOMAIN m_repl /\ stamps[n] = m_repl[n]
      BY DEF Continues
    <3>2. PICK v, st : stamps[n] = [version |-> v, last |-> st] /\ v \in 1 .. m_tick
      BY <1>4, <3>1 DEF SimSound
    <3> QED
      BY <3>2
  <2>2. DOMAIN stamps \subseteq DOMAIN w /\ m_tick \in Nat
    BY <1>5 DEF Continues
  <2> QED
    BY <1>1, <2>1, <2>2, StampsTell
<1>7. SimSound(m_tick + 1, w, dead, m, h)
  <2>1. /\ GridRecord(h) /\ Listed(h) /\ PinsCovered(h)
        /\ DOMAIN h.entitySector \subseteq DOMAIN g.entitySector \cup DOMAIN w
    BY <1>1, UpdateInterestSound DEF Continues
  <2>2. DOMAIN h.entitySector \subseteq DOMAIN m /\ GridSound(h)
    BY <1>6, <2>1, GridSoundIs DEF Continues
  <2>3. /\ DOMAIN w \subseteq NetIds /\ \A n \in DOMAIN w : w[n] \in Forms[n]
        /\ dead \subseteq NetIds /\ dead \cap DOMAIN w = {}
    BY <1>1 DEF Continues
  <2> QED
    BY <1>6, <2>2, <2>3 DEF SimSound
<1>8. KeptSound(m_tick + 1, baseline, known)
  <2>1. \A x \in 1 .. m_tick : x \in 1 .. m_tick + 1
    BY <1>5
  <2> QED
    BY <1>4, <2>1 DEF KeptSound
<1>9. SimSound(m_tick, world, gone, m_repl, m_interest)' /\ KeptSound(m_tick, baseline, known)'
  BY <1>1, <1>2, <1>3, <1>7, <1>8
<1>10. TicksSound'
  <2>1. \A t : Past(t) => Past(t)'
    BY <1>2, <1>5 DEF Past
  <2> QED
    BY <1>2, <1>3, <1>4, <1>5, <2>1 DEF TicksSound
<1>11. OthersSound'
  BY <1>3, <1>4 DEF OthersSound
<1>12. ~spilled' => ShownAreKept(baseline, snapshots, decode)' /\ LeaveIsLater(baseline, snapshots, decode, acks)'
  BY <1>3 DEF ReplicationIInv
<1>13. ASSUME ~overlapped' PROVE InLockstep'
  <2>1. OneOnItsWay /\ BaseIsShown /\ VersionsTell /\ TombsApart
    BY <1>3, <1>13 DEF ReplicationIInv, InLockstep
  <2>2. OneOnItsWay'
    BY <1>3, <2>1 DEF OneOnItsWay
  <2>3. BaseIsShown'
    BY <1>3, <2>1 DEF BaseIsShown, Shown
  <2>4. TombsApart'
    BY <1>3, <2>1 DEF TombsApart
  <2>5. ASSUME NEW n \in DOMAIN world \cup gone, NEW v \in 1 .. m_tick, NEW st,
               n \in DOMAIN m_repl => v <= m_repl[n].version /\ (v = m_repl[n].version => st = m_repl[n].last)
        PROVE  /\ n \in DOMAIN w \cup dead
               /\ n \in DOMAIN m => v <= m[n].version /\ (v = m[n].version => st = m[n].last)
    <3>1. n \in DOMAIN w \cup dead
      BY <1>1 DEF Continues
    <3>2. ASSUME n \in DOMAIN m PROVE v <= m[n].version /\ (v = m[n].version => st = m[n].last)
      <4>1. n \in DOMAIN stamps
        BY <1>5, <1>6, <3>2, <2>5 DEF Continues
      <4>2. n \in DOMAIN m_repl /\ stamps[n] = m_repl[n]
        BY <4>1 DEF Continues
      <4>3. PICK x, y, x2, y2 : x = stamps[n].version /\ y = stamps[n].last /\ x2 = m[n].version /\ y2 = m[n].last
        OBVIOUS
      <4>4. x <= x2 /\ (x = x2 => y2 = y)
        BY <1>6, <4>1, <4>3
      <4>5. v <= x /\ (v = x => st = y)
        BY <2>5, <4>2, <4>3
      <4>6. x \in 1 .. m_tick /\ x2 \in 1 .. m_tick + 1
        BY <1>4, <1>6, <3>2, <4>2, <4>3 DEF SimSound
      <4>7. v <= x2 /\ (v = x2 => st = y2)
        BY <1>5, <4>4, <4>5, <4>6
      <4> QED
        BY <4>3, <4>7
    <3> QED
      BY <3>1, <3>2
  <2>6. VersionsTell'
    <3>1. \A n \in DOMAIN baseline.acked :
          /\ n \in DOMAIN w \cup dead
          /\ n \in DOMAIN m =>
                /\ baseline.acked[n] <= m[n].version
                /\ baseline.acked[n] = m[n].version => known.base[n] = m[n].last
      BY <1>4, <2>1, <2>5, ZenonT(90) DEF VersionsTell, KeptSound
    <3>2. \A t \in DOMAIN baseline.pending : \A n \in DOMAIN baseline.pending[t] :
          /\ n \in DOMAIN w \cup dead
          /\ n \in DOMAIN m =>
                /\ baseline.pending[t][n] <= m[n].version
                /\ baseline.pending[t][n] = m[n].version => known.pending[t][n] = m[n].last
      <4> SUFFICES ASSUME NEW t \in DOMAIN baseline.pending, NEW n \in DOMAIN baseline.pending[t]
                   PROVE  /\ n \in DOMAIN w \cup dead
                          /\ n \in DOMAIN m =>
                                /\ baseline.pending[t][n] <= m[n].version
                                /\ baseline.pending[t][n] = m[n].version => known.pending[t][n] = m[n].last
        OBVIOUS
      <4>1. PICK v, st : v = baseline.pending[t][n] /\ st = known.pending[t][n]
        OBVIOUS
      <4>2. v \in 1 .. m_tick
        BY <1>4, <4>1 DEF KeptSound
      <4>3. /\ n \in DOMAIN world \cup gone
            /\ n \in DOMAIN m_repl => v <= m_repl[n].version /\ (v = m_repl[n].version => st = m_repl[n].last)
        BY <2>1, <4>1 DEF VersionsTell
      <4>4. /\ n \in DOMAIN w \cup dead
            /\ n \in DOMAIN m => v <= m[n].version /\ (v = m[n].version => st = m[n].last)
        BY <2>5, <4>2, <4>3
      <4> QED
        BY <4>1, <4>4
    <3>3. \A n \in DOMAIN baseline.acked : \A t \in DOMAIN baseline.pending : n \in DOMAIN baseline.pending[t] =>
                baseline.acked[n] <= baseline.pending[t][n]
      BY <2>1 DEF VersionsTell
    <3> QED
      BY <1>1, <1>2, <1>3, <3>1, <3>2, <3>3 DEF VersionsTell
  <2> QED
    BY <2>2, <2>3, <2>4, <2>6 DEF InLockstep
<1> QED
  BY <1>9, <1>10, <1>11, <1>12, <1>13 DEF ReplicationIInv

LEMMA GridOf ==
    ASSUME ReplicationIInv
    PROVE  /\ GridRecord(m_interest) /\ Listed(m_interest) /\ PinsCovered(m_interest)
           /\ DOMAIN m_interest.entitySector \subseteq DOMAIN m_repl
<1>1. SimSound(m_tick, world, gone, m_repl, m_interest)
  BY DEF ReplicationIInv
<1> QED
  BY <1>1, GridSoundIs DEF SimSound

LEMMA StampedIs ==
    ASSUME ReplicationIInv
    PROVE  /\ m_tick \in Nat
           /\ DOMAIN world \subseteq NetIds /\ \A n \in DOMAIN world : world[n] \in Forms[n]
           /\ gone \subseteq NetIds /\ gone \cap DOMAIN world = {}
           /\ DOMAIN m_repl \subseteq DOMAIN world /\ (m_tick > 0 => DOMAIN m_repl = DOMAIN world)
<1>1. SimSound(m_tick, world, gone, m_repl, m_interest) /\ TicksSound
  BY DEF ReplicationIInv
<1> QED
  BY <1>1, ReplicationAssumption DEF SimSound, TicksSound

LEMMA SimulatePreserves ==
    ASSUME ReplicationIInv, Simulate
    PROVE  ReplicationIInv'
<1>1. PICK n \in DOMAIN world : \E st \in Forms[n] : Step([world EXCEPT ![n] = st], m_interest, m_repl)
  BY DEF Simulate
<1>2. PICK st \in Forms[n] : Step([world EXCEPT ![n] = st], m_interest, m_repl)
  BY <1>1
<1>3. PICK w : w = [world EXCEPT ![n] = st]
  OBVIOUS
<1>4. DOMAIN w = DOMAIN world /\ \A k \in DOMAIN w : w[k] \in Forms[k]
  BY <1>3, StampedIs
<1>5. Continues(w, m_interest, m_repl, gone)
  BY <1>4, StampedIs, GridOf DEF Continues
<1>6. gone' = gone
  BY DEF Simulate
<1>7. Continues(w, m_interest, m_repl, gone')
  BY <1>5, <1>6
<1>8. Step(w, m_interest, m_repl)
  BY <1>2, <1>3
<1> QED
  BY <1>7, <1>8, StepPreserves

LEMMA SpawnPreserves ==
    ASSUME ReplicationIInv, NEW n \in NetIds, Spawn(n)
    PROVE  ReplicationIInv'
<1>1. PICK st \in Forms[n] : Step(With(world, n, st), m_interest, m_repl)
  BY DEF Spawn
<1>2. PICK w : w = With(world, n, st)
  OBVIOUS
<1>3. DOMAIN w = DOMAIN world \cup {n} /\ \A k \in DOMAIN w : w[k] \in Forms[k]
  <2>1. /\ DOMAIN w = DOMAIN world \cup {n} /\ w[n] = st
        /\ \A k \in DOMAIN world : k # n => w[k] = world[k]
    <3>1. /\ DOMAIN With(world, n, st) = DOMAIN world \cup {n} /\ With(world, n, st)[n] = st
          /\ \A k \in DOMAIN world : k # n => With(world, n, st)[k] = world[k]
      BY DEF With
    <3> QED
      BY <1>2, <3>1
  <2> QED
    BY <2>1, StampedIs
<1>4. n \notin DOMAIN world \cup gone /\ gone' = gone
  BY DEF Spawn
<1>5. Continues(w, m_interest, m_repl, gone)
  <2>1. \A k \in DOMAIN w : k \in DOMAIN m_repl \/ m_tick = 0 \/ k \notin DOMAIN world \cup gone
    BY <1>3, <1>4, StampedIs
  <2> QED
    BY <1>3, <1>4, <2>1, StampedIs, GridOf DEF Continues
<1>6. Continues(w, m_interest, m_repl, gone')
  BY <1>4, <1>5
<1>7. Step(w, m_interest, m_repl)
  BY <1>1, <1>2
<1> QED
  BY <1>6, <1>7, StepPreserves

LEMMA DespawnPreserves ==
    ASSUME ReplicationIInv, NEW n \in NetIds, Despawn(n)
    PROVE  ReplicationIInv'
<1>1. PICK w, g, stamps : w = Erase(world, n) /\ g = RemoveEntity(m_interest, n) /\ stamps = Erase(m_repl, n)
  OBVIOUS
<1>2. /\ DOMAIN w = DOMAIN world \ {n} /\ \A k \in DOMAIN w : w[k] = world[k]
      /\ DOMAIN stamps = DOMAIN m_repl \ {n} /\ \A k \in DOMAIN stamps : stamps[k] = m_repl[k]
  BY <1>1, EraseIs, ZenonT(90)
<1>3. /\ GridRecord(g) /\ Listed(g) /\ PinsCovered(g)
      /\ DOMAIN g.entitySector = DOMAIN m_interest.entitySector \ {n}
  BY <1>1, GridOf, RemoveEntitySound
<1>4. PICK dead : dead = gone \cup {n}
  OBVIOUS
<1>5. Continues(w, g, stamps, dead)
  <2>1. \A k \in DOMAIN w : k \in DOMAIN stamps \/ m_tick = 0 \/ k \notin DOMAIN world \cup gone
    BY <1>2, StampedIs
  <2> QED
    BY <1>2, <1>3, <1>4, <2>1, StampedIs, GridOf DEF Continues
<1>6. gone' = dead /\ Step(w, g, stamps)
  BY <1>1, <1>4 DEF Despawn
<1>7. Continues(w, g, stamps, gone')
  BY <1>5, <1>6
<1> QED
  BY <1>6, <1>7, StepPreserves

LEMMA PrefetchPreserves ==
    ASSUME ReplicationIInv, PrefetchTravelInterest
    PROVE  ReplicationIInv'
<1>1. PICK dest \in TravelDests : Step(world, PreSubscribe(m_interest, Client, dest, SENSOR_CELLS), m_repl)
  BY DEF PrefetchTravelInterest
<1>2. PICK g : g = PreSubscribe(m_interest, Client, dest, SENSOR_CELLS)
  OBVIOUS
<1>3. GridRecord(g) /\ Listed(g) /\ PinsCovered(g) /\ g.entitySector = m_interest.entitySector
  BY <1>2, GridOf, PreSubscribeSound
<1>4. Continues(world, g, m_repl, gone)
  BY <1>3, StampedIs, GridOf DEF Continues
<1>5. gone' = gone /\ Step(world, g, m_repl)
  BY <1>1, <1>2 DEF PrefetchTravelInterest
<1>6. Continues(world, g, m_repl, gone')
  BY <1>4, <1>5
<1> QED
  BY <1>5, <1>6, StepPreserves

-----------------------------------------------------------------------------
(* A broadcast.                                                            *)
(* A snapshot of what is new of S, and of leave records of T.              *)
AreRecords(sent, S, T) ==
    \A r \in sent : r.mask # {} /\ ((\E m \in S : r = MakeDeltaRecord(m)) \/ (\E m \in T : r = Tomb(m)))
AllRecords(sent, S, T) ==
    /\ \A m \in S : MakeDeltaRecord(m).mask # {} => MakeDeltaRecord(m) \in sent
    /\ \A m \in T : Tomb(m) \in sent

(* What is in a snapshot of the first n records.                           *)
LEMMA SentIs ==
    ASSUME NEW S, NEW T, NEW ranked \in Seq(S), NEW tombs \in Seq(T), ToSet(ranked) = S, ToSet(tombs) = T,
           NEW n \in 0 .. Len(OrderedRecords(ranked, tombs)),
           NEW sent, sent = BuildClientSnapshot(ranked, tombs, n)
    PROVE  /\ AreRecords(sent, S, T)
           /\ (ScheduleClient(ranked) = ranked /\ n = Len(OrderedRecords(ranked, tombs))) =>
                 AllRecords(sent, S, T)
<1> USE ReplicationAssumption
<1>1. PICK chosen : chosen = ScheduleClient(ranked)
  OBVIOUS
<1>2. chosen \in Seq(S)
  <2>1. CASE VISIBLE_CAP = 0 \/ Len(ranked) <= VISIBLE_CAP
    BY <1>1, <2>1 DEF ScheduleClient
  <2>2. CASE ~(VISIBLE_CAP = 0 \/ Len(ranked) <= VISIBLE_CAP)
    <3>1. chosen = SubSeq(ranked, 1, VISIBLE_CAP)
      BY <1>1, <2>2 DEF ScheduleClient
    <3>2. VISIBLE_CAP \in 1 .. Len(ranked)
      BY <2>2
    <3> QED
      BY <3>1, <3>2
  <2> QED
    BY <2>1, <2>2
<1>3. PICK A, B : A = [i \in 1 .. Len(chosen) |-> MakeDeltaRecord(chosen[i])] /\ B = [i \in 1 .. Len(tombs) |-> Tomb(tombs[i])]
  OBVIOUS
<1>4. PICK a, b : a = Len(chosen) /\ b = Len(tombs)
  OBVIOUS
<1>5. a \in Nat /\ b \in Nat /\ DOMAIN chosen = 1 .. a /\ DOMAIN tombs = 1 .. b
  BY <1>2, <1>4
<1>6. PICK R : R = {A[i] : i \in 1 .. a} \cup {B[i] : i \in 1 .. b}
  OBVIOUS
<1>7. A \in Seq(R) /\ B \in Seq(R) /\ Len(A) = a /\ Len(B) = b
  BY <1>3, <1>4, <1>5, <1>6
<1>8. PICK O : O = A \o B
  OBVIOUS
<1>9. O = OrderedRecords(ranked, tombs)
  BY <1>1, <1>3, <1>8 DEF OrderedRecords
<1>10. /\ O \in Seq(R) /\ Len(O) = a + b
       /\ \A i \in 1 .. a + b : O[i] = IF i <= a THEN A[i] ELSE B[i - a]
  <2>1. Len(A) \in Nat /\ Len(B) \in Nat
    BY <1>5, <1>7
  <2>2. /\ O \in Seq(R) /\ Len(O) = Len(A) + Len(B)
        /\ \A i \in 1 .. Len(A) + Len(B) : O[i] = IF i <= Len(A) THEN A[i] ELSE B[i - Len(A)]
    BY <1>7, <1>8, ConcatProperties
  <2>3. Len(A) = a /\ Len(B) = b
    BY <1>7
  <2> QED
    BY <2>2, <2>3, Zenon
<1>11. n \in 0 .. a + b
  BY <1>9, <1>10
<1>12. PICK P : P = SubSeq(O, 1, n)
  OBVIOUS
<1>13. DOMAIN P = 1 .. n /\ \A i \in 1 .. n : P[i] = O[i]
  BY <1>5, <1>10, <1>11, <1>12
<1>14. sent = {r \in ToSet(P) : r.mask # {}}
  BY <1>9, <1>12 DEF BuildClientSnapshot, BuildBudgetedSnapshot
<1>15. \A r : r \in ToSet(P) <=> \E i \in 1 .. n : r = O[i]
  BY <1>13 DEF ToSet
<1>16. \A i \in 1 .. a : chosen[i] \in S /\ A[i] = MakeDeltaRecord(chosen[i])
  BY <1>2, <1>3, <1>4, <1>5
<1>17. \A i \in 1 .. b : tombs[i] \in T /\ B[i] = Tomb(tombs[i])
  BY <1>3, <1>4, <1>5
<1>18. ASSUME NEW r \in sent
       PROVE  r.mask # {} /\ ((\E m \in S : r = MakeDeltaRecord(m)) \/ (\E m \in T : r = Tomb(m)))
  <2>1. PICK i \in 1 .. n : r = O[i]
    BY <1>14, <1>15, <1>18
  <2>2. i \in 1 .. a + b
    BY <1>5, <1>11
  <2>3. CASE i <= a
    <3>1. i \in 1 .. a /\ r = A[i]
      BY <1>5, <1>10, <2>1, <2>2, <2>3
    <3> QED
      BY <1>14, <1>16, <1>18, <3>1
  <2>4. CASE ~(i <= a)
    <3>1. PICK j : j = i - a
      OBVIOUS
    <3>2. j \in 1 .. b /\ r = B[j]
      BY <1>5, <1>10, <2>1, <2>2, <2>4, <3>1
    <3> QED
      BY <1>14, <1>17, <1>18, <3>2
  <2> QED
    BY <2>3, <2>4
<1>19. ASSUME chosen = ranked, n = a + b, NEW m \in S, MakeDeltaRecord(m).mask # {}
       PROVE  MakeDeltaRecord(m) \in sent
  <2>1. PICK i \in 1 .. a : chosen[i] = m
    BY <1>5, <1>19 DEF ToSet
  <2>2. i \in 1 .. n /\ O[i] = MakeDeltaRecord(m)
    BY <1>5, <1>10, <1>16, <1>19, <2>1, SMTT(60)
  <2> QED
    BY <1>14, <1>15, <1>19, <2>2
<1>20. ASSUME n = a + b, NEW m \in T PROVE Tomb(m) \in sent
  <2>1. PICK i \in 1 .. b : tombs[i] = m
    BY <1>5 DEF ToSet
  <2>2. PICK j : j = a + i
    OBVIOUS
  <2>3. j \in 1 .. n /\ ~(j <= a) /\ j - a = i
    BY <1>5, <1>20, <2>2
  <2>4. O[j] = Tomb(m)
    BY <1>10, <1>17, <1>20, <2>1, <2>3
  <2>5. Tomb(m).mask # {}
    BY DEF Tomb
  <2> QED
    BY <1>14, <1>15, <2>3, <2>4, <2>5
<1>21. AreRecords(sent, S, T)
  BY <1>18 DEF AreRecords
<1>22. chosen = ranked /\ n = a + b => AllRecords(sent, S, T)
  BY <1>19, <1>20 DEF AllRecords
<1> QED
  BY <1>1, <1>9, <1>10, <1>21, <1>22

(* The mask of a delta record, and that it is never a leave record.        *)
LEMMA MaskIs ==
    ASSUME NEW n
    PROVE  DeltaMask(n) = Mask(known.base, n, world[n]) /\ "tomb" \notin DeltaMask(n)
<1>1. PICK cur, base : cur = world[n] /\ base = known.base[n]
  OBVIOUS
<1>2. DeltaMask(n) =
        IF n \notin DOMAIN known.base THEN {"sec", "pos", "hp", "look"}
        ELSE UNION { IF cur.sec # base.sec THEN {"sec"} ELSE {},
                     IF cur.sec # base.sec \/ cur.q # base.q THEN {"pos"} ELSE {},
                     IF cur.hp # base.hp THEN {"hp"} ELSE {},
                     IF cur.look # base.look THEN {"look"} ELSE {} }
  BY <1>1 DEF DeltaMask
<1>3. Mask(known.base, n, world[n]) =
        IF n \notin DOMAIN known.base THEN {"sec", "pos", "hp", "look"}
        ELSE UNION { IF cur.sec # base.sec THEN {"sec"} ELSE {},
                     IF cur.sec # base.sec \/ cur.q # base.q THEN {"pos"} ELSE {},
                     IF cur.hp # base.hp THEN {"hp"} ELSE {},
                     IF cur.look # base.look THEN {"look"} ELSE {} }
  BY <1>1 DEF Mask
<1>4. "tomb" \notin DeltaMask(n)
  BY <1>2
<1> QED
  BY <1>2, <1>3, <1>4

(* A mask depends on the base of its entity alone.                         *)
LEMMA MaskOfBase ==
    ASSUME NEW b, NEW c, NEW n, NEW cur, n \in DOMAIN b <=> n \in DOMAIN c, n \in DOMAIN b => b[n] = c[n]
    PROVE  Mask(b, n, cur) = Mask(c, n, cur)
  BY DEF Mask

(* A record of it is of a live entity the client lacks, or a tombstone.    *)
LEMMA RecordsAre ==
    ASSUME NEW sent, NEW S, NEW T, AreRecords(sent, S, T)
    PROVE  /\ \A r \in sent : "tomb" \notin r.mask => r.netId \in S /\ r = MakeDeltaRecord(r.netId)
           /\ \A r \in sent : "tomb" \in r.mask => r.netId \in T /\ r = Tomb(r.netId)
           /\ Live(sent) \subseteq S /\ Tombs(sent) \subseteq T
<1>1. ASSUME NEW m PROVE /\ MakeDeltaRecord(m).netId = m /\ "tomb" \notin MakeDeltaRecord(m).mask
                         /\ Tomb(m).netId = m /\ "tomb" \in Tomb(m).mask
  <2>1. PICK mask, st : mask = DeltaMask(m) /\ st = world[m]
    OBVIOUS
  <2>2. MakeDeltaRecord(m) = [netId |-> m, mask |-> mask, st |-> st]
    BY <2>1 DEF MakeDeltaRecord
  <2>3. "tomb" \notin mask
    BY <2>1, MaskIs
  <2>4. MakeDeltaRecord(m).netId = m /\ MakeDeltaRecord(m).mask = mask
    BY <2>2
  <2>5. Tomb(m).netId = m /\ Tomb(m).mask = {"tomb"}
    BY DEF Tomb
  <2> QED
    BY <2>3, <2>4, <2>5
<1>2. \A r \in sent : "tomb" \notin r.mask => r.netId \in S /\ r = MakeDeltaRecord(r.netId)
  BY <1>1 DEF AreRecords
<1>3. \A r \in sent : "tomb" \in r.mask => r.netId \in T /\ r = Tomb(r.netId)
  BY <1>1 DEF AreRecords
<1> QED
  BY <1>2, <1>3 DEF Live, Tombs

(* What is remembered of a snapshot under the tick it is sent at.          *)
Remembered(p, pending, entry) ==
    /\ DOMAIN p \subseteq DOMAIN pending \cup {m_tick}
    /\ m_tick \in DOMAIN p => DOMAIN entry # {} /\ p[m_tick] = entry
    /\ \A t \in DOMAIN p : t # m_tick => p[t] = pending[t]
    /\ DOMAIN entry = {} => DOMAIN p = DOMAIN pending
    /\ DOMAIN entry # {} => DOMAIN p = (DOMAIN pending \cup {m_tick}) \ Excess(DOMAIN pending \cup {m_tick})

LEMMA RecordSentIs ==
    ASSUME NEW pending, NEW entry, m_tick \notin DOMAIN pending, NEW p, p = RecordSent(pending, entry)
    PROVE  Remembered(p, pending, entry)
<1>1. CASE DOMAIN entry = {}
  BY <1>1 DEF RecordSent, Remembered
<1>2. CASE DOMAIN entry # {}
  <2>1. PICK all : all = With(pending, m_tick, entry)
    OBVIOUS
  <2>2. /\ DOMAIN all = DOMAIN pending \cup {m_tick} /\ all[m_tick] = entry
        /\ \A t \in DOMAIN pending : t # m_tick => all[t] = pending[t]
    BY <2>1 DEF With
  <2>3. p = Restrict(all, DOMAIN all \ Excess(DOMAIN all))
    BY <1>2, <2>1 DEF RecordSent
  <2>4. DOMAIN p = DOMAIN all \ Excess(DOMAIN all) /\ \A t \in DOMAIN p : p[t] = all[t]
    BY <2>3 DEF Restrict
  <2> QED
    BY <1>2, <2>2, <2>4 DEF Remembered
<1> QED
  BY <1>1, <1>2

(* One snapshot is never too many.                                         *)
LEMMA OneIsKept ==
    ASSUME NEW t \in Nat
    PROVE  Excess({t}) = {}
<1>1. {u \in {t} : u > t} = {}
  OBVIOUS
<1>2. Cardinality({u \in {t} : u > t}) = 0
  BY <1>1, FS_EmptySet
<1>3. ~(0 >= MAX_PENDING)
  BY ReplicationAssumption
<1>4. \A x \in {t} : ~(Cardinality({u \in {t} : u > x}) >= MAX_PENDING)
  BY <1>2, <1>3
<1> QED
  BY <1>4 DEF Excess

(* The baseline and the delta base after the broadcast of a snapshot with  *)
(* records of the entities in live and leave records of those in dead.     *)
Recorded(b, k, live, dead) ==
    /\ b = [acked |-> b.acked, pending |-> b.pending, tombstones |-> b.tombstones]
    /\ k = [base |-> k.base, pending |-> k.pending]
    /\ DOMAIN b.acked = DOMAIN baseline.acked \cap Visible
    /\ \A n \in DOMAIN b.acked : b.acked[n] = baseline.acked[n]
    /\ DOMAIN k.base = DOMAIN known.base \cap Visible
    /\ \A n \in DOMAIN k.base : k.base[n] = known.base[n]
    /\ DOMAIN b.tombstones = (DOMAIN baseline.tombstones \cup DOMAIN baseline.acked) \ Visible
    /\ \A n \in DOMAIN b.tombstones :
          \/ n \in dead /\ b.tombstones[n] = m_tick
             /\ ~(n \in DOMAIN baseline.tombstones /\ baseline.tombstones[n] # UNSENT)
          \/ n \in DOMAIN baseline.tombstones /\ b.tombstones[n] = baseline.tombstones[n]
             /\ (n \in dead => b.tombstones[n] # UNSENT)
          \/ n \notin DOMAIN baseline.tombstones /\ n \notin dead /\ b.tombstones[n] = UNSENT
    /\ DOMAIN k.pending = DOMAIN b.pending
    /\ DOMAIN b.pending \subseteq DOMAIN baseline.pending \cup {m_tick}
    /\ m_tick \in DOMAIN b.pending =>
          /\ live # {}
          /\ b.pending[m_tick] = [n \in live |-> Version(n)]
          /\ k.pending[m_tick] = [n \in live |-> world[n]]
    /\ \A t \in DOMAIN b.pending : t # m_tick =>
          b.pending[t] = baseline.pending[t] /\ k.pending[t] = known.pending[t]
    /\ live = {} => DOMAIN b.pending = DOMAIN baseline.pending
    /\ live # {} => DOMAIN b.pending = (DOMAIN baseline.pending \cup {m_tick})
                                       \ Excess(DOMAIN baseline.pending \cup {m_tick})

LEMMA RecordedIs ==
    ASSUME KeptSound(m_tick, baseline, known), m_tick \notin DOMAIN baseline.pending,
           NEW sent, RecordClientSnapshotSent(sent),
           NEW b, b = baseline', NEW k, k = known', NEW live, live = Live(sent), NEW dead, dead = Tombs(sent)
    PROVE  Recorded(b, k, live, dead) /\ DOMAIN TombstonesFor.tombstones = DOMAIN b.tombstones
<1>1. PICK acked, pending, tombstones : baseline = [acked |-> acked, pending |-> pending, tombstones |-> tombstones]
  BY DEF KeptSound
<1>2. PICK base, kpending : known = [base |-> base, pending |-> kpending]
  BY DEF KeptSound
<1>3. /\ baseline.acked = acked /\ baseline.pending = pending /\ baseline.tombstones = tombstones
      /\ known.base = base /\ known.pending = kpending
      /\ DOMAIN base = DOMAIN acked /\ DOMAIN kpending = DOMAIN pending
  BY <1>1, <1>2 DEF KeptSound
<1>4. PICK seen : seen = Visible
  OBVIOUS
<1>5. PICK away : away = DOMAIN acked \ seen
  OBVIOUS
<1>6. away = Departed
  BY <1>3, <1>4, <1>5 DEF Departed
<1>7. PICK acked2, marked, unmarked :
         /\ acked2 = Restrict(acked, DOMAIN acked \ away)
         /\ marked = [n \in DOMAIN tombstones \cup away |-> ValueOr(tombstones, n, UNSENT)]
         /\ unmarked = Restrict(marked, DOMAIN marked \ seen)
  OBVIOUS
<1>8. Tombstone(baseline) = [acked |-> acked2, pending |-> pending, tombstones |-> marked]
  <2>1. Tombstone(baseline) = [baseline EXCEPT !.acked = acked2, !.tombstones = marked]
    <3>1. Tombstone(baseline) =
             [baseline EXCEPT
                 !.acked = Restrict(baseline.acked, DOMAIN baseline.acked \ away),
                 !.tombstones = [n \in DOMAIN baseline.tombstones \cup away |->
                                    ValueOr(baseline.tombstones, n, UNSENT)]]
      BY <1>6 DEF Tombstone
    <3> QED
      BY <1>3, <1>7, <3>1
  <2> QED
    BY <1>1, <2>1
<1>9. TombstonesFor = [acked |-> acked2, pending |-> pending, tombstones |-> unmarked]
  <2>1. PICK x : x = Tombstone(baseline)
    OBVIOUS
  <2>2. x = [acked |-> acked2, pending |-> pending, tombstones |-> marked]
    BY <1>8, <2>1
  <2>3. x.tombstones = marked
    BY <2>2
  <2>4. TombstonesFor = [x EXCEPT !.tombstones = Restrict(x.tombstones, DOMAIN x.tombstones \ seen)]
    BY <1>4, <2>1 DEF TombstonesFor, Untombstone
  <2>5. TombstonesFor = [x EXCEPT !.tombstones = unmarked]
    BY <1>7, <2>3, <2>4
  <2> QED
    BY <2>2, <2>5
<1>10. PICK versions, states : versions = [n \in live |-> Version(n)] /\ states = [n \in live |-> world[n]]
  OBVIOUS
<1>11. PICK pending2, kpending2, tombstones2 :
          /\ pending2 = RecordSent(pending, versions) /\ kpending2 = RecordSent(kpending, states)
          /\ tombstones2 = RecordTombstonesSent(unmarked, dead)
  OBVIOUS
<1>12. b = [acked |-> acked2, pending |-> pending2, tombstones |-> tombstones2]
  BY <1>9, <1>10, <1>11 DEF RecordClientSnapshotSent
<1>13. PICK base2 : base2 = Restrict(base, DOMAIN base \ away)
  OBVIOUS
<1>14. ForgetDeparted = [base |-> base2, pending |-> kpending]
  BY <1>2, <1>6, <1>13 DEF ForgetDeparted
<1>15. k = [base |-> base2, pending |-> kpending2]
  BY <1>10, <1>11, <1>14 DEF RecordClientSnapshotSent
<1>16. DOMAIN acked2 = DOMAIN acked \cap seen /\ \A n \in DOMAIN acked2 : acked2[n] = acked[n]
  BY <1>5, <1>7 DEF Restrict
<1>17. DOMAIN base2 = DOMAIN base \cap seen /\ \A n \in DOMAIN base2 : base2[n] = base[n]
  BY <1>3, <1>5, <1>13 DEF Restrict
<1>18. /\ DOMAIN unmarked = (DOMAIN tombstones \cup DOMAIN acked) \ seen
       /\ \A n \in DOMAIN unmarked :
             unmarked[n] = IF n \in DOMAIN tombstones THEN tombstones[n] ELSE UNSENT
  BY <1>5, <1>7 DEF Restrict, ValueOr
<1>19. /\ DOMAIN tombstones2 = DOMAIN unmarked
       /\ \A n \in DOMAIN unmarked :
             tombstones2[n] = IF n \in dead /\ unmarked[n] = UNSENT THEN m_tick ELSE unmarked[n]
  BY <1>11 DEF RecordTombstonesSent
<1>20. \A n \in DOMAIN tombstones2 :
          \/ n \in dead /\ tombstones2[n] = m_tick /\ ~(n \in DOMAIN tombstones /\ tombstones[n] # UNSENT)
          \/ n \in DOMAIN tombstones /\ tombstones2[n] = tombstones[n] /\ (n \in dead => tombstones2[n] # UNSENT)
          \/ n \notin DOMAIN tombstones /\ n \notin dead /\ tombstones2[n] = UNSENT
  BY <1>18, <1>19
<1>21. Remembered(pending2, pending, versions)
  <2>1. m_tick \notin DOMAIN pending
    BY <1>3
  <2> QED
    BY <1>11, <2>1, RecordSentIs
<1>22. Remembered(kpending2, kpending, states)
  <2>1. m_tick \notin DOMAIN kpending
    BY <1>3
  <2> QED
    BY <1>11, <2>1, RecordSentIs
<1>23. DOMAIN versions = live /\ DOMAIN states = live
  BY <1>10
<1>24. DOMAIN kpending2 = DOMAIN pending2
  BY <1>3, <1>21, <1>22, <1>23 DEF Remembered
<1>25. /\ b.acked = acked2 /\ b.pending = pending2 /\ b.tombstones = tombstones2
       /\ k.base = base2 /\ k.pending = kpending2
  BY <1>12, <1>15
<1>26. /\ b = [acked |-> b.acked, pending |-> b.pending, tombstones |-> b.tombstones]
       /\ k = [base |-> k.base, pending |-> k.pending]
  BY <1>12, <1>15, <1>25
<1>27. /\ DOMAIN b.acked = DOMAIN baseline.acked \cap Visible
       /\ \A n \in DOMAIN b.acked : b.acked[n] = baseline.acked[n]
       /\ DOMAIN k.base = DOMAIN known.base \cap Visible
       /\ \A n \in DOMAIN k.base : k.base[n] = known.base[n]
       /\ DOMAIN b.tombstones = (DOMAIN baseline.tombstones \cup DOMAIN baseline.acked) \ Visible
  BY <1>3, <1>4, <1>16, <1>17, <1>18, <1>19, <1>25
<1>28. \A n \in DOMAIN b.tombstones :
          \/ n \in dead /\ b.tombstones[n] = m_tick
             /\ ~(n \in DOMAIN baseline.tombstones /\ baseline.tombstones[n] # UNSENT)
          \/ n \in DOMAIN baseline.tombstones /\ b.tombstones[n] = baseline.tombstones[n]
             /\ (n \in dead => b.tombstones[n] # UNSENT)
          \/ n \notin DOMAIN baseline.tombstones /\ n \notin dead /\ b.tombstones[n] = UNSENT
  BY <1>3, <1>20, <1>25
<1>29. DOMAIN k.pending = DOMAIN b.pending /\ DOMAIN b.pending \subseteq DOMAIN baseline.pending \cup {m_tick}
  BY <1>3, <1>21, <1>24, <1>25 DEF Remembered
<1>30. m_tick \in DOMAIN b.pending =>
          /\ live # {}
          /\ b.pending[m_tick] = [n \in live |-> Version(n)]
          /\ k.pending[m_tick] = [n \in live |-> world[n]]
  BY <1>10, <1>21, <1>22, <1>23, <1>24, <1>25 DEF Remembered
<1>31. \A t \in DOMAIN b.pending : t # m_tick =>
          b.pending[t] = baseline.pending[t] /\ k.pending[t] = known.pending[t]
  BY <1>3, <1>21, <1>22, <1>24, <1>25 DEF Remembered
<1>32. /\ live = {} => DOMAIN b.pending = DOMAIN baseline.pending
       /\ live # {} => DOMAIN b.pending = (DOMAIN baseline.pending \cup {m_tick})
                                          \ Excess(DOMAIN baseline.pending \cup {m_tick})
  BY <1>3, <1>21, <1>23, <1>25 DEF Remembered
<1>33. DOMAIN TombstonesFor.tombstones = DOMAIN b.tombstones
  <2>1. PICK x : x = TombstonesFor
    OBVIOUS
  <2>2. x.tombstones = unmarked
    BY <1>9, <2>1
  <2> QED
    BY <1>19, <1>25, <2>1, <2>2
<1> QED
  BY <1>26, <1>27, <1>28, <1>29, <1>30, <1>31, <1>32, <1>33 DEF Recorded

(* What the snapshot holds; without spilling, all there is to say.         *)
SnapshotIs(sent, b, spills) ==
    /\ \A r \in sent : "tomb" \notin r.mask =>
          r.netId \in ChangedFor \cap DOMAIN world /\ r = MakeDeltaRecord(r.netId)
    /\ \A r \in sent : "tomb" \in r.mask => r.netId \in DOMAIN b.tombstones /\ r = Tomb(r.netId)
    /\ Live(sent) \subseteq ChangedFor \cap DOMAIN world /\ Tombs(sent) \subseteq DOMAIN b.tombstones
    /\ ~spills =>
          /\ \A m \in ChangedFor \cap DOMAIN world : DeltaMask(m) # {} => m \in Live(sent)
          /\ \A m \in DOMAIN b.tombstones : m \in Tombs(sent)
          /\ Live(sent) # {} => Excess(DOMAIN baseline.pending \cup {m_tick}) = {}

(* A broadcast builds such a snapshot, sends it and records it.            *)
LEMMA BroadcastIs ==
    ASSUME ReplicationIInv, Broadcast
    PROVE  \E sent :
              /\ m_tick \in 1 .. MAX_TICK /\ m_tick \notin DOMAIN baseline.pending
              /\ Recorded(baseline', known', Live(sent), Tombs(sent))
              /\ SnapshotIs(sent, baseline', spilled')
              /\ snapshots' = snapshots \cup {[tick |-> m_tick, records |-> sent]}
              /\ spilled' \in BOOLEAN /\ (spilled => spilled')
<1> USE ReplicationAssumption
<1>1. PICK ranked \in SetToSeqs(ChangedFor \cap DOMAIN world),
           tombs \in Ascending(DOMAIN TombstonesFor.tombstones) :
           \E n \in 0 .. Len(OrderedRecords(ranked, tombs)) :
             LET sent == BuildClientSnapshot(ranked, tombs, n)
             IN  /\ FillsBudget(OrderedRecords(ranked, tombs), n)
                 /\ RecordClientSnapshotSent(sent)
                 /\ snapshots' = snapshots \cup {[tick |-> m_tick, records |-> sent]}
                 /\ spilled' = (spilled \/ Spills(ranked, tombs, n))
  BY DEF Broadcast
<1>2. PICK n \in 0 .. Len(OrderedRecords(ranked, tombs)), sent \in {BuildClientSnapshot(ranked, tombs, k) :
                                                        k \in 0 .. Len(OrderedRecords(ranked, tombs))} :
           /\ sent = BuildClientSnapshot(ranked, tombs, n)
           /\ RecordClientSnapshotSent(sent)
           /\ snapshots' = snapshots \cup {[tick |-> m_tick, records |-> sent]}
           /\ spilled' = (spilled \/ Spills(ranked, tombs, n))
  BY <1>1
<1>3. /\ SimSound(m_tick, world, gone, m_repl, m_interest) /\ KeptSound(m_tick, baseline, known)
      /\ TicksSound /\ OthersSound
  BY DEF ReplicationIInv
<1>4. stepped /\ m_tick \in 1 .. MAX_TICK /\ m_tick \notin DOMAIN baseline.pending
  <2>1. stepped /\ m_tick > 0
    BY <1>3 DEF Broadcast, TicksSound
  <2> QED
    BY <1>3, <2>1 DEF TicksSound, Past
<1>5. PICK b, k, live, dead : b = baseline' /\ k = known' /\ live = Live(sent) /\ dead = Tombs(sent)
  OBVIOUS
<1>6. Recorded(b, k, live, dead) /\ DOMAIN TombstonesFor.tombstones = DOMAIN b.tombstones
  BY <1>2, <1>3, <1>4, <1>5, RecordedIs
<1>7. PICK S, T : S = ChangedFor \cap DOMAIN world /\ T = DOMAIN b.tombstones
  OBVIOUS
<1>8. IsFiniteSet(S) /\ IsFiniteSet(T)
  <2>1. S \subseteq NetIds
    BY <1>3, <1>7 DEF SimSound
  <2>2. T \subseteq NetIds
    BY <1>3, <1>6, <1>7 DEF KeptSound, Recorded
  <2> QED
    BY <2>1, <2>2, FS_Subset
<1>9. ranked \in Seq(S) /\ ToSet(ranked) = S
  BY <1>7, <1>8, RankingIs
<1>10. tombs \in Seq(T) /\ ToSet(tombs) = T
  <2>1. tombs \in SetToSeqs(T)
    BY <1>6, <1>7 DEF Ascending
  <2> QED
    BY <1>8, <2>1, RankingIs
<1>11. PICK spills : spills = Spills(ranked, tombs, n)
  OBVIOUS
<1>12. /\ AreRecords(sent, S, T)
       /\ (ScheduleClient(ranked) = ranked /\ n = Len(OrderedRecords(ranked, tombs))) =>
             AllRecords(sent, S, T)
  BY <1>2, <1>9, <1>10, SentIs
<1>13. /\ \A r \in sent : "tomb" \notin r.mask => r.netId \in S /\ r = MakeDeltaRecord(r.netId)
       /\ \A r \in sent : "tomb" \in r.mask => r.netId \in T /\ r = Tomb(r.netId)
       /\ Live(sent) \subseteq S /\ Tombs(sent) \subseteq T
  BY <1>12, RecordsAre
<1>14. spills \in BOOLEAN /\ (~spills =>
          /\ ScheduleClient(ranked) = ranked /\ n = Len(OrderedRecords(ranked, tombs))
          /\ Live(sent) # {} => Excess(DOMAIN baseline.pending \cup {m_tick}) = {})
  BY <1>2, <1>11 DEF Spills
<1>15. \A m : MakeDeltaRecord(m).netId = m /\ MakeDeltaRecord(m).mask = DeltaMask(m)
              /\ "tomb" \notin DeltaMask(m) /\ Tomb(m).netId = m /\ "tomb" \in Tomb(m).mask
  <2> TAKE m
  <2>1. PICK mask, st : mask = DeltaMask(m) /\ st = world[m]
    OBVIOUS
  <2>2. MakeDeltaRecord(m) = [netId |-> m, mask |-> mask, st |-> st]
    BY <2>1 DEF MakeDeltaRecord
  <2>3. "tomb" \notin mask
    BY <2>1, MaskIs
  <2>4. MakeDeltaRecord(m).netId = m /\ MakeDeltaRecord(m).mask = mask
    BY <2>2
  <2>5. Tomb(m).netId = m /\ Tomb(m).mask = {"tomb"}
    BY DEF Tomb
  <2> QED
    BY <2>1, <2>3, <2>4, <2>5
<1>16. ASSUME ~spills
       PROVE  /\ \A m \in S : DeltaMask(m) # {} => m \in Live(sent)
              /\ \A m \in T : m \in Tombs(sent)
              /\ Live(sent) # {} => Excess(DOMAIN baseline.pending \cup {m_tick}) = {}
  <2>1. \A m \in S : DeltaMask(m) # {} => MakeDeltaRecord(m) \in sent
    BY <1>12, <1>14, <1>15, <1>16 DEF AllRecords
  <2>2. \A m \in S : DeltaMask(m) # {} => m \in Live(sent)
    <3> SUFFICES ASSUME NEW m \in S, DeltaMask(m) # {} PROVE m \in Live(sent)
      OBVIOUS
    <3>1. PICK r \in sent : r = MakeDeltaRecord(m)
      BY <2>1
    <3>2. r.netId = m /\ "tomb" \notin r.mask
      BY <1>15, <3>1
    <3> QED
      BY <3>2 DEF Live
  <2>3. \A m \in T : Tomb(m) \in sent
    BY <1>12, <1>14, <1>16 DEF AllRecords
  <2>4. \A m \in T : m \in Tombs(sent)
    <3> SUFFICES ASSUME NEW m \in T PROVE m \in Tombs(sent)
      OBVIOUS
    <3>1. PICK r \in sent : r = Tomb(m)
      BY <2>3
    <3>2. r.netId = m /\ "tomb" \in r.mask
      BY <1>15, <3>1
    <3> QED
      BY <3>2 DEF Tombs
  <2> QED
    BY <1>14, <1>16, <2>2, <2>4
<1>17. PICK sp : sp = spilled'
  OBVIOUS
<1>18. sp = (spilled \/ spills) /\ spilled \in BOOLEAN
  BY <1>2, <1>3, <1>11, <1>17 DEF OthersSound
<1>19. sp \in BOOLEAN /\ (spilled => sp) /\ (spills => sp)
  BY <1>14, <1>18
<1>20. SnapshotIs(sent, b, sp)
  BY <1>7, <1>13, <1>16, <1>19 DEF SnapshotIs
<1>21. /\ Recorded(baseline', known', Live(sent), Tombs(sent))
       /\ SnapshotIs(sent, baseline', spilled') /\ spilled' \in BOOLEAN /\ (spilled => spilled')
  BY <1>5, <1>6, <1>17, <1>19, <1>20
<1> QED
  BY <1>2, <1>4, <1>21

(* With room, what drops out of sight is still tombstoned or pending; in   *)
(* lockstep, the snapshot is the only one on its way.                      *)
LEMMA BroadcastPreserves ==
    ASSUME ReplicationIInv, Broadcast
    PROVE  ReplicationIInv'
<1> USE ReplicationAssumption
<1>1. PICK sent :
         /\ m_tick \in 1 .. MAX_TICK /\ m_tick \notin DOMAIN baseline.pending
         /\ Recorded(baseline', known', Live(sent), Tombs(sent))
         /\ SnapshotIs(sent, baseline', spilled')
         /\ snapshots' = snapshots \cup {[tick |-> m_tick, records |-> sent]}
         /\ spilled' \in BOOLEAN /\ (spilled => spilled')
  BY BroadcastIs
<1>2. PICK b, k, snaps, sp, ov, live, dead, sn :
         /\ b = baseline' /\ k = known' /\ snaps = snapshots' /\ sp = spilled' /\ ov = overlapped'
         /\ live = Live(sent) /\ dead = Tombs(sent) /\ sn = [tick |-> m_tick, records |-> sent]
  OBVIOUS
<1>3. /\ stepped /\ stepped' = FALSE
      /\ m_tick' = m_tick /\ world' = world /\ gone' = gone /\ m_repl' = m_repl /\ m_interest' = m_interest
      /\ acks' = acks /\ lost' = lost /\ decode' = decode /\ byteBudget' = byteBudget
      /\ ov = (overlapped \/ Unsettled)
  BY <1>2 DEF Broadcast
<1>4. /\ Recorded(b, k, live, dead) /\ SnapshotIs(sent, b, sp) /\ sp \in BOOLEAN /\ (spilled => sp)
      /\ snaps = snapshots \cup {sn} /\ sn.tick = m_tick /\ sn.records = sent
  BY <1>1, <1>2
<1>5. /\ SimSound(m_tick, world, gone, m_repl, m_interest) /\ KeptSound(m_tick, baseline, known)
      /\ TicksSound /\ OthersSound
  BY DEF ReplicationIInv
<1>6. /\ DOMAIN m_repl = DOMAIN world /\ DOMAIN world \subseteq NetIds
      /\ \A n \in DOMAIN m_repl : m_repl[n].version \in 1 .. m_tick /\ m_repl[n].last = world[n]
                                  /\ world[n] \in Forms[n] /\ Version(n) = m_repl[n].version
  <2>1. \A n \in DOMAIN m_repl : \E v : v \in 1 .. m_tick /\ m_repl[n] = [version |-> v, last |-> world[n]]
    BY <1>5 DEF SimSound
  <2> QED
    BY <1>1, <1>5, <2>1 DEF SimSound, Version
<1>7. PICK seen : seen = Visible
  OBVIOUS
<1>8. seen \subseteq DOMAIN world
  BY <1>6, <1>7, GridOf, SeenReside DEF Visible
<1>9. /\ live \subseteq seen /\ live \subseteq DOMAIN world /\ dead \cap seen = {}
      /\ dead \subseteq DOMAIN b.tombstones
  BY <1>2, <1>4, <1>7 DEF SnapshotIs, ChangedFor, Recorded
<1>10. SimSound(m_tick, world, gone, m_repl, m_interest)'
  BY <1>3, <1>5
<1>11. KeptSound(m_tick, b, k)
  <2>1. /\ DOMAIN b.acked \subseteq NetIds /\ \A n \in DOMAIN b.acked : b.acked[n] \in 1 .. m_tick
        /\ DOMAIN k.base = DOMAIN b.acked /\ \A n \in DOMAIN k.base : k.base[n] \in Forms[n]
        /\ DOMAIN b.tombstones \subseteq NetIds
    BY <1>4, <1>5 DEF KeptSound, Recorded
  <2>2. ASSUME NEW t \in DOMAIN b.pending
        PROVE  /\ DOMAIN b.pending[t] \subseteq NetIds /\ DOMAIN k.pending[t] = DOMAIN b.pending[t]
               /\ \A n \in DOMAIN b.pending[t] :
                     b.pending[t][n] \in 1 .. m_tick /\ k.pending[t][n] \in Forms[n]
    <3>1. CASE t = m_tick
      <4>1. b.pending[t] = [n \in live |-> Version(n)] /\ k.pending[t] = [n \in live |-> world[n]]
        BY <1>4, <3>1, <2>2 DEF Recorded
      <4> QED
        BY <1>6, <1>9, <4>1
    <3>2. CASE t # m_tick
      <4>1. b.pending[t] = baseline.pending[t] /\ k.pending[t] = known.pending[t] /\ t \in DOMAIN baseline.pending
        BY <1>4, <3>2, <2>2 DEF Recorded
      <4> QED
        BY <1>5, <4>1 DEF KeptSound
    <3> QED
      BY <3>1, <3>2
  <2>3. /\ b = [acked |-> b.acked, pending |-> b.pending, tombstones |-> b.tombstones]
        /\ k = [base |-> k.base, pending |-> k.pending] /\ DOMAIN k.pending = DOMAIN b.pending
    BY <1>4 DEF Recorded
  <2> QED
    BY <2>1, <2>2, <2>3 DEF KeptSound
<1>12. KeptSound(m_tick, baseline, known)'
  BY <1>2, <1>3, <1>11
<1>13. TicksSound'
  <2>1. /\ \A t \in 1 .. m_tick : Past(t)'
        /\ m_tick \in 1 .. m_tick
    BY <1>1, <1>3 DEF Past
  <2>2. \A t \in DOMAIN b.pending : t \in 1 .. m_tick
    BY <1>4, <1>5, <2>1 DEF TicksSound, Recorded, Past
  <2>3. \A n \in DOMAIN b.tombstones : b.tombstones[n] = UNSENT \/ b.tombstones[n] \in 1 .. m_tick
    <3> SUFFICES ASSUME NEW n \in DOMAIN b.tombstones, b.tombstones[n] # UNSENT
                 PROVE  b.tombstones[n] \in 1 .. m_tick
      OBVIOUS
    <3>1. PICK x : x = b.tombstones[n]
      OBVIOUS
    <3>2. x = m_tick \/ (n \in DOMAIN baseline.tombstones /\ baseline.tombstones[n] = x)
      BY <1>4, <3>1 DEF Recorded
    <3> QED
      BY <1>5, <2>1, <3>1, <3>2 DEF TicksSound, Past
  <2>4. \A s \in snaps : s.tick \in 1 .. m_tick
    BY <1>4, <1>5, <2>1 DEF TicksSound, Past
  <2>5. \A t \in acks : t \in 1 .. m_tick
    BY <1>5 DEF TicksSound, Past
  <2>6. \A n \in DOMAIN decode.lastTick : decode.lastTick[n] \in 1 .. m_tick
    BY <1>5 DEF TicksSound, Past
  <2>7. m_tick \in 0 .. MAX_TICK /\ DOMAIN decode.entities \subseteq DOMAIN decode.lastTick
    BY <1>5 DEF TicksSound
  <2> QED
    BY <1>2, <1>3, <2>1, <2>2, <2>3, <2>4, <2>5, <2>6, <2>7 DEF TicksSound
<1>14. \A s \in snapshots : s.tick < m_tick /\ s.tick \in Nat
  BY <1>3, <1>5 DEF TicksSound, Past
<1>15. OthersSound'
  <2>1. RecordsSound(sent)
    <3>1. ASSUME NEW r \in sent PROVE RecordSound(r)
      <4>1. CASE "tomb" \in r.mask
        <5>1. r.netId \in DOMAIN b.tombstones
          BY <1>4, <3>1, <4>1 DEF SnapshotIs
        <5> QED
          BY <1>11, <4>1, <5>1 DEF RecordSound, KeptSound
      <4>2. CASE "tomb" \notin r.mask
        <5>1. PICK m, mask, st : m = r.netId /\ mask = DeltaMask(m) /\ st = world[m]
          OBVIOUS
        <5>2. m \in DOMAIN world /\ r = [netId |-> m, mask |-> mask, st |-> st]
          BY <1>4, <3>1, <4>2, <5>1 DEF SnapshotIs, MakeDeltaRecord
        <5>3. m \in NetIds /\ st \in Forms[m]
          BY <1>6, <5>1, <5>2
        <5> QED
          BY <5>1, <5>2, <5>3 DEF RecordSound
      <4> QED
        BY <4>1, <4>2
    <3>2. ASSUME NEW r \in sent, NEW q \in sent, r.netId = q.netId PROVE r = q
      <4>1. ASSUME NEW x \in sent
            PROVE  /\ "tomb" \in x.mask => x = Tomb(x.netId) /\ x.netId \notin seen
                   /\ "tomb" \notin x.mask => x = MakeDeltaRecord(x.netId) /\ x.netId \in seen
        BY <1>4, <1>7, <4>1 DEF SnapshotIs, ChangedFor, Recorded
      <4> QED
        BY <3>2, <4>1
    <3> QED
      BY <3>1, <3>2 DEF RecordsSound
  <2>2. \A s \in snaps : RecordsSound(s.records)
    BY <1>4, <1>5, <2>1 DEF OthersSound
  <2>3. \A s, u \in snaps : s.tick = u.tick => s = u
    BY <1>1, <1>4, <1>5, <1>14 DEF OthersSound
  <2>4. ov \in BOOLEAN
    BY <1>3
  <2> QED
    BY <1>2, <1>3, <1>4, <1>5, <2>2, <2>3, <2>4 DEF OthersSound
<1>16. ASSUME ~sp PROVE ShownAreKept(b, snaps, decode) /\ LeaveIsLater(b, snaps, decode, acks)
  <2>1. ShownAreKept(baseline, snapshots, decode) /\ LeaveIsLater(baseline, snapshots, decode, acks)
    BY <1>4, <1>16 DEF ReplicationIInv
  <2>2. /\ \A m \in ChangedFor \cap DOMAIN world : DeltaMask(m) # {} => m \in live
        /\ \A m \in DOMAIN b.tombstones : m \in dead
        /\ live # {} => DOMAIN b.pending = DOMAIN baseline.pending \cup {m_tick}
        /\ \A t \in DOMAIN baseline.pending : t \in DOMAIN b.pending /\ b.pending[t] = baseline.pending[t]
    <3>1. /\ \A m \in ChangedFor \cap DOMAIN world : DeltaMask(m) # {} => m \in live
          /\ \A m \in DOMAIN b.tombstones : m \in dead
          /\ live # {} => Excess(DOMAIN baseline.pending \cup {m_tick}) = {}
      BY <1>2, <1>4, <1>16 DEF SnapshotIs
    <3> QED
      BY <1>1, <1>4, <3>1 DEF Recorded
  <2>3. \A n \in live : Kept(b, n)
    <3> SUFFICES ASSUME NEW n \in live PROVE Kept(b, n)
      OBVIOUS
    <3>1. m_tick \in DOMAIN b.pending
      BY <2>2
    <3>2. b.pending[m_tick] = [m \in live |-> Version(m)]
      BY <1>4, <3>1 DEF Recorded
    <3>3. n \in DOMAIN b.pending[m_tick]
      BY <3>2
    <3> QED
      BY <3>1, <3>3 DEF Kept
  <2>4. ASSUME NEW n, Kept(baseline, n) PROVE Kept(b, n)
    <3>1. CASE n \in DOMAIN baseline.acked
      BY <1>4, <3>1 DEF Recorded, Kept
    <3>2. CASE n \in DOMAIN baseline.tombstones /\ n \notin DOMAIN baseline.acked
      <4>1. CASE n \notin seen
        BY <1>4, <1>7, <3>2, <4>1 DEF Recorded, Kept
      <4>2. CASE n \in seen
        <5>1. n \in DOMAIN m_repl /\ Version(n) > 0 /\ n \in DOMAIN world
          BY <1>1, <1>6, <1>8, <4>2
        <5>2. ValueOr(baseline.acked, n, 0) = 0
          BY <3>2 DEF ValueOr
        <5>3. n \in ChangedFor \cap DOMAIN world
          BY <1>7, <4>2, <5>1, <5>2 DEF ChangedFor, Needs
        <5>4. n \notin DOMAIN known.base
          BY <1>5, <3>2 DEF KeptSound
        <5>5. DeltaMask(n) # {}
          BY <5>4 DEF DeltaMask
        <5> QED
          BY <2>2, <2>3, <5>3, <5>5
      <4> QED
        BY <4>1, <4>2
    <3>3. CASE \E t \in DOMAIN baseline.pending : n \in DOMAIN baseline.pending[t]
      BY <2>2, <3>3 DEF Kept
    <3> QED
      BY <2>4, <3>1, <3>2, <3>3 DEF Kept
  <2>5. ShownAreKept(b, snaps, decode)
    <3>1. \A n \in DOMAIN decode.entities : Kept(b, n)
      BY <2>1, <2>4 DEF ShownAreKept
    <3>2. ASSUME NEW s \in snaps, NEW n \in Live(s.records)
          PROVE  Kept(b, n) \/ (n \in DOMAIN decode.lastTick /\ decode.lastTick[n] > s.tick)
      <4>1. CASE s \in snapshots
        BY <2>1, <2>4, <3>2, <4>1 DEF ShownAreKept
      <4>2. CASE s = sn
        BY <1>2, <1>4, <2>3, <3>2, <4>2
      <4> QED
        BY <1>4, <4>1, <4>2
    <3> QED
      BY <3>1, <3>2 DEF ShownAreKept
  <2>6. ASSUME NEW n \in DOMAIN b.tombstones, b.tombstones[n] # UNSENT
        PROVE  /\ n \in DOMAIN decode.entities => decode.lastTick[n] < b.tombstones[n]
               /\ \A s \in snaps : n \in Live(s.records) => s.tick < b.tombstones[n]
               /\ \A s \in snaps : s.tick >= b.tombstones[n] => n \in Tombs(s.records)
               /\ \A t \in acks : t >= b.tombstones[n] => n \in DOMAIN decode.lastTick /\ decode.lastTick[n] >= t
    <3>1. n \in dead /\ n \notin live
      BY <1>4, <1>7, <1>9, <2>2, <2>6 DEF Recorded
    <3>2. CASE n \in DOMAIN baseline.tombstones /\ b.tombstones[n] = baseline.tombstones[n]
      <4>1. /\ n \in DOMAIN decode.entities => decode.lastTick[n] < b.tombstones[n]
            /\ \A s \in snapshots : n \in Live(s.records) => s.tick < b.tombstones[n]
            /\ \A s \in snapshots : s.tick >= b.tombstones[n] => n \in Tombs(s.records)
            /\ \A t \in acks : t >= b.tombstones[n] => n \in DOMAIN decode.lastTick /\ decode.lastTick[n] >= t
        BY <2>1, <2>6, <3>2 DEF LeaveIsLater
      <4> QED
        BY <1>2, <1>4, <3>1, <4>1
    <3>3. CASE b.tombstones[n] = m_tick
      <4>1. n \in DOMAIN decode.entities => decode.lastTick[n] < m_tick
        BY <1>3, <1>5 DEF TicksSound, Past
      <4>2. \A t \in acks : ~(t >= m_tick)
        BY <1>1, <1>3, <1>5 DEF TicksSound, Past
      <4>3. \A s \in snapshots : s.tick < m_tick /\ ~(s.tick >= m_tick)
        BY <1>1, <1>14
      <4> QED
        BY <1>2, <1>4, <3>1, <3>3, <4>1, <4>2, <4>3
    <3>4. CASE n \notin DOMAIN baseline.tombstones /\ n \notin dead /\ b.tombstones[n] = UNSENT
      BY <2>6, <3>4
    <3> QED
      BY <1>4, <3>2, <3>3, <3>4 DEF Recorded
  <2> QED
    BY <2>5, <2>6 DEF LeaveIsLater
<1>17. ASSUME ~ov PROVE InLockstep'
  <2>1. ~overlapped /\ snapshots = {} /\ acks = {} /\ DOMAIN baseline.pending = {}
    BY <1>3, <1>17 DEF Unsettled, EmptyMap
  <2>2. OneOnItsWay /\ BaseIsShown /\ VersionsTell /\ TombsApart /\ DOMAIN known.pending = {}
    BY <1>5, <2>1 DEF ReplicationIInv, InLockstep, KeptSound
  <2>3. snaps = {sn} /\ DOMAIN b.pending \subseteq {m_tick}
    BY <1>4, <2>1 DEF Recorded
  <2>4. live # {} => m_tick \in DOMAIN b.pending
    <3> SUFFICES ASSUME live # {} PROVE m_tick \in DOMAIN b.pending
      OBVIOUS
    <3>1. DOMAIN b.pending = {m_tick} \ Excess({m_tick})
      BY <1>4, <2>1 DEF Recorded
    <3> QED
      BY <1>1, <3>1, OneIsKept
  <2>5. m_tick \in DOMAIN b.pending =>
           /\ b.pending[m_tick] = [n \in live |-> Version(n)] /\ k.pending[m_tick] = [n \in live |-> world[n]]
    BY <1>4 DEF Recorded
  <2>6. DOMAIN k.pending = DOMAIN b.pending
    BY <1>4 DEF Recorded
  <2>7. ASSUME NEW r \in sent, "tomb" \notin r.mask
        PROVE  /\ m_tick \in DOMAIN k.pending /\ r.netId \in DOMAIN k.pending[m_tick]
               /\ r.st = k.pending[m_tick][r.netId]
               /\ r.mask = Mask(k.base, r.netId, r.st)
    <3>1. PICK m, mask, st : m = r.netId /\ mask = DeltaMask(m) /\ st = world[m]
      OBVIOUS
    <3>2. m \in live
      BY <1>2, <2>7, <3>1 DEF Live
    <3>3. r = [netId |-> m, mask |-> mask, st |-> st]
      BY <1>4, <2>7, <3>1 DEF SnapshotIs, MakeDeltaRecord
    <3>4. m \in seen
      BY <1>9, <3>2
    <3>5. (m \in DOMAIN k.base <=> m \in DOMAIN known.base) /\ (m \in DOMAIN k.base => k.base[m] = known.base[m])
      BY <1>4, <1>7, <3>4 DEF Recorded
    <3>6. mask = Mask(known.base, m, st)
      BY <3>1, MaskIs
    <3>7. Mask(k.base, m, st) = Mask(known.base, m, st)
      BY <3>5, MaskOfBase
    <3>8. r.st = st /\ r.mask = mask
      BY <3>3
    <3>9. m_tick \in DOMAIN k.pending /\ m \in DOMAIN k.pending[m_tick] /\ k.pending[m_tick][m] = world[m]
      BY <2>4, <2>5, <2>6, <3>2
    <3> QED
      BY <3>1, <3>6, <3>7, <3>8, <3>9
  <2>8. ASSUME NEW n \in Tombs(sent) PROVE n \notin DOMAIN k.base
    BY <1>2, <1>4, <1>7, <1>9, <2>8 DEF Recorded
  <2>9. \A n \in DOMAIN decode.lastTick : decode.lastTick[n] < m_tick
    BY <1>3, <1>5 DEF TicksSound, Past
  <2>10. OneOnItsWay'
    <3>1. \A t \in DOMAIN b.pending : t = m_tick
      BY <2>3
    <3>2. \A t \in DOMAIN b.pending : \A n \in DOMAIN b.pending[t] : n \in Live(sent)
      BY <1>2, <2>5, <3>1
    <3> QED
      BY <1>2, <1>3, <1>4, <2>1, <2>3, <2>7, <2>8, <2>9, <3>1, <3>2 DEF OneOnItsWay
  <2>11. BaseIsShown'
    <3>1. \A n \in DOMAIN known.base : Shown(n, known.base[n])
      BY <2>1, <2>2 DEF BaseIsShown
    <3>2. \A n \in DOMAIN k.base : n \in DOMAIN decode.entities /\ decode.entities[n] = k.base[n]
      BY <1>4, <3>1 DEF Recorded, Shown
    <3> QED
      BY <1>2, <1>3, <2>1, <2>3, <3>2 DEF BaseIsShown, Shown
  <2>12. \A t \in DOMAIN b.pending : \A n \in DOMAIN b.pending[t] :
            /\ n \in DOMAIN world /\ n \in DOMAIN m_repl
            /\ b.pending[t][n] = m_repl[n].version /\ k.pending[t][n] = m_repl[n].last
    <3> SUFFICES ASSUME NEW t \in DOMAIN b.pending, NEW n \in DOMAIN b.pending[t]
                 PROVE  /\ n \in DOMAIN world /\ n \in DOMAIN m_repl
                        /\ b.pending[t][n] = m_repl[n].version /\ k.pending[t][n] = m_repl[n].last
      OBVIOUS
    <3>1. t = m_tick
      BY <2>3
    <3>2. n \in live /\ b.pending[t][n] = Version(n) /\ k.pending[t][n] = world[n]
      BY <2>5, <3>1
    <3> QED
      BY <1>6, <1>9, <3>2
  <2>13. VersionsTell'
    <3>1. \A n \in DOMAIN b.acked :
             /\ n \in DOMAIN world \cup gone
             /\ n \in DOMAIN m_repl =>
                   /\ b.acked[n] <= m_repl[n].version
                   /\ b.acked[n] = m_repl[n].version => k.base[n] = m_repl[n].last
      <4>1. \A n \in DOMAIN b.acked : n \in DOMAIN baseline.acked /\ b.acked[n] = baseline.acked[n]
                                      /\ n \in DOMAIN k.base /\ k.base[n] = known.base[n]
        BY <1>4, <1>11 DEF Recorded, KeptSound
      <4> QED
        BY <2>2, <4>1 DEF VersionsTell
    <3>2. \A n \in DOMAIN b.acked : \A t \in DOMAIN b.pending : n \in DOMAIN b.pending[t] =>
             b.acked[n] <= b.pending[t][n]
      BY <2>12, <3>1
    <3>3. \A t \in DOMAIN b.pending : \A n \in DOMAIN b.pending[t] : b.pending[t][n] \in Nat
      BY <1>11 DEF KeptSound
    <3>4. \A t \in DOMAIN b.pending : \A n \in DOMAIN b.pending[t] :
            /\ n \in DOMAIN world \cup gone
            /\ n \in DOMAIN m_repl =>
                  /\ b.pending[t][n] <= m_repl[n].version
                  /\ b.pending[t][n] = m_repl[n].version => k.pending[t][n] = m_repl[n].last
      BY <2>12, <3>3
    <3> QED
      BY <1>2, <1>3, <3>1, <3>2, <3>4 DEF VersionsTell
  <2>14. TombsApart'
    <3>1. \A n \in DOMAIN b.tombstones : n \notin seen /\ n \notin DOMAIN k.base /\ n \notin live
      BY <1>4, <1>7, <1>9 DEF Recorded
    <3>2. \A t \in DOMAIN k.pending : DOMAIN k.pending[t] = live
      BY <2>3, <2>5, <2>6
    <3> QED
      BY <1>2, <3>1, <3>2 DEF TombsApart
  <2> QED
    BY <2>10, <2>11, <2>13, <2>14 DEF InLockstep
<1> QED
  BY <1>2, <1>3, <1>10, <1>12, <1>13, <1>15, <1>16, <1>17 DEF ReplicationIInv

-----------------------------------------------------------------------------
(* A delivery.                                                             *)
IsNewer(s, n) == n \in DOMAIN decode.lastTick => decode.lastTick[n] < s.tick

(* The replicas after the records of s: what s says of an entity counts if *)
(* it is newer than what was shown of it.                                  *)
Applied(d, s) ==
    /\ DOMAIN d.entities \subseteq DOMAIN d.lastTick
    /\ DOMAIN decode.lastTick \subseteq DOMAIN d.lastTick
    /\ \A n \in DOMAIN d.lastTick :
          \/ d.lastTick[n] = s.tick /\ IsNewer(s, n)
          \/ n \in DOMAIN decode.lastTick /\ d.lastTick[n] = decode.lastTick[n]
    /\ \A n \in DOMAIN d.entities :
          \/ n \in Live(s.records) /\ IsNewer(s, n) /\ d.lastTick[n] = s.tick
          \/ n \in DOMAIN decode.entities /\ d.lastTick[n] = decode.lastTick[n]
    /\ \A r \in s.records : "tomb" \notin r.mask /\ IsNewer(s, r.netId) =>
          /\ r.netId \in DOMAIN d.entities
          /\ d.entities[r.netId] = ApplyRecord(ValueOr(decode.entities, r.netId, DefaultEntity), r)
    /\ \A n \in Tombs(s.records) : n \in DOMAIN d.lastTick /\ d.lastTick[n] >= s.tick
    /\ \A n \in DOMAIN decode.entities : n \notin Live(s.records) \cup Tombs(s.records) =>
          n \in DOMAIN d.entities /\ d.entities[n] = decode.entities[n]

(* The decoder gets there record by record.                                *)
LEMMA ApplyIs ==
    ASSUME NEW s, RecordsSound(s.records), s.tick \in Nat, DOMAIN decode.entities \subseteq DOMAIN decode.lastTick,
           \A n \in DOMAIN decode.lastTick : decode.lastTick[n] \in Nat,
           NEW d, d = Apply(s)
    PROVE  Applied(d, s)
<1>1. PICK fresh : fresh = Fresh(s)
  OBVIOUS
<1>2. PICK removed : removed = Tombs(fresh)
  OBVIOUS
<1>3. PICK updated : updated = {r.netId : r \in fresh} \ removed
  OBVIOUS
<1> DEFINE record(n) == CHOOSE r \in fresh : r.netId = n
           replica(n) == ValueOr(decode.entities, n, DefaultEntity)
<1>4. d = [ entities |-> [n \in (DOMAIN decode.entities \cup updated) \ removed |->
                             IF n \in updated THEN ApplyRecord(replica(n), record(n))
                                              ELSE decode.entities[n]],
            lastTick |-> [n \in DOMAIN decode.lastTick \cup updated \cup removed |->
                             IF n \in updated \cup removed THEN s.tick ELSE decode.lastTick[n]] ]
  BY <1>1, <1>2, <1>3 DEF Apply
<1>5. /\ DOMAIN d.entities = (DOMAIN decode.entities \cup updated) \ removed
      /\ \A n \in DOMAIN d.entities :
            d.entities[n] = IF n \in updated THEN ApplyRecord(replica(n), record(n)) ELSE decode.entities[n]
      /\ DOMAIN d.lastTick = DOMAIN decode.lastTick \cup updated \cup removed
      /\ \A n \in DOMAIN d.lastTick :
            d.lastTick[n] = IF n \in updated \cup removed THEN s.tick ELSE decode.lastTick[n]
  BY <1>4
<1>6. \A r : r \in fresh <=> r \in s.records /\ IsNewer(s, r.netId)
  <2>1. \A n : s.tick > ValueOr(decode.lastTick, n, -1) <=> IsNewer(s, n)
    BY DEF ValueOr, IsNewer
  <2> QED
    BY <1>1, <2>1 DEF Fresh
<1>7. \A r, q \in s.records : r.netId = q.netId => r = q
  BY DEF RecordsSound
<1>8. \A n : n \in removed <=> n \in Tombs(s.records) /\ IsNewer(s, n)
  BY <1>2, <1>6 DEF Tombs
<1>9. \A n : n \in updated <=> n \in Live(s.records) /\ IsNewer(s, n)
  <2> TAKE n
  <2>1. n \in updated => n \in Live(s.records) /\ IsNewer(s, n)
    BY <1>2, <1>3, <1>6 DEF Tombs, Live
  <2>2. ASSUME n \in Live(s.records), IsNewer(s, n) PROVE n \in updated
    <3>1. PICK r \in s.records : "tomb" \notin r.mask /\ n = r.netId
      BY <2>2 DEF Live
    <3>2. n \notin Tombs(s.records)
      BY <1>7, <3>1 DEF Tombs
    <3> QED
      BY <1>3, <1>6, <1>8, <2>2, <3>1, <3>2
  <2> QED
    BY <2>1, <2>2
<1>10. ASSUME NEW r \in s.records, "tomb" \notin r.mask, IsNewer(s, r.netId)
       PROVE  /\ r.netId \in DOMAIN d.entities
              /\ d.entities[r.netId] = ApplyRecord(ValueOr(decode.entities, r.netId, DefaultEntity), r)
  <2>1. PICK n : n = r.netId
    OBVIOUS
  <2>2. r \in fresh /\ \A q \in fresh : q.netId = n => q = r
    BY <1>6, <1>7, <1>10, <2>1
  <2>3. record(n) = r
    BY <2>1, <2>2
  <2>4. n \in updated
    BY <1>9, <1>10, <2>1 DEF Live
  <2>5. n \notin removed
    BY <1>3, <2>4
  <2> HIDE DEF record, replica
  <2>6. n \in DOMAIN d.entities /\ d.entities[n] = ApplyRecord(replica(n), record(n))
    BY <1>5, <2>4, <2>5
  <2> QED
    BY <2>1, <2>3, <2>6 DEF replica
<1> HIDE DEF record, replica
<1>11. DOMAIN d.entities \subseteq DOMAIN d.lastTick /\ DOMAIN decode.lastTick \subseteq DOMAIN d.lastTick
  BY <1>5
<1>12. \A n \in DOMAIN d.lastTick :
          \/ d.lastTick[n] = s.tick /\ IsNewer(s, n)
          \/ n \in DOMAIN decode.lastTick /\ d.lastTick[n] = decode.lastTick[n]
  BY <1>5, <1>8, <1>9
<1>13. \A n \in DOMAIN d.entities :
          \/ n \in Live(s.records) /\ IsNewer(s, n) /\ d.lastTick[n] = s.tick
          \/ n \in DOMAIN decode.entities /\ d.lastTick[n] = decode.lastTick[n]
  BY <1>5, <1>8, <1>9
<1>14. \A n \in Tombs(s.records) : n \in DOMAIN d.lastTick /\ d.lastTick[n] >= s.tick
  <2> SUFFICES ASSUME NEW n \in Tombs(s.records) PROVE n \in DOMAIN d.lastTick /\ d.lastTick[n] >= s.tick
    OBVIOUS
  <2>1. CASE IsNewer(s, n)
    BY <1>5, <1>8, <2>1
  <2>2. CASE ~IsNewer(s, n)
    <3>1. n \in DOMAIN decode.lastTick /\ decode.lastTick[n] >= s.tick
      BY <2>2 DEF IsNewer
    <3>2. n \notin updated \cup removed
      BY <1>8, <1>9, <2>2
    <3> QED
      BY <1>5, <3>1, <3>2
  <2> QED
    BY <2>1, <2>2
<1>15. \A n \in DOMAIN decode.entities : n \notin Live(s.records) \cup Tombs(s.records) =>
          n \in DOMAIN d.entities /\ d.entities[n] = decode.entities[n]
  BY <1>5, <1>8, <1>9
<1> QED
  BY <1>10, <1>11, <1>12, <1>13, <1>14, <1>15 DEF Applied

(* A masked record completes the replica it was made against.              *)
IsReplica(b, n, old) == n \in DOMAIN b => old = b[n]

LEMMA MaskCompletes ==
    ASSUME NEW sec, NEW q, NEW hp, NEW look, NEW st, st = [sec |-> sec, q |-> q, hp |-> hp, look |-> look],
           NEW b, NEW n, NEW old, IsReplica(b, n, old),
           NEW r, r = [netId |-> n, mask |-> Mask(b, n, st), st |-> st]
    PROVE  ApplyRecord(old, r) = st
<1>1. PICK mask : mask = Mask(b, n, st)
  OBVIOUS
<1>2. r.mask = mask /\ r.st.sec = sec /\ r.st.q = q /\ r.st.hp = hp /\ r.st.look = look
  BY <1>1
<1>3. /\ st.sec = sec /\ st.q = q /\ st.hp = hp /\ st.look = look
  OBVIOUS
<1>4. /\ "sec" \notin mask => old.sec = sec
      /\ "pos" \notin mask => old.q = q
      /\ "hp" \notin mask => old.hp = hp
      /\ "look" \notin mask => old.look = look
  BY <1>1, <1>3 DEF Mask, IsReplica
<1>5. ApplyRecord(old, r) = [sec |-> sec, q |-> q, hp |-> hp, look |-> look]
  BY <1>2, <1>4 DEF ApplyRecord
<1> QED
  BY <1>5

(* The client shows what a snapshot says unless it knows better.           *)
LEMMA DeliverPreserves ==
    ASSUME ReplicationIInv, NEW s \in snapshots, Deliver(s)
    PROVE  ReplicationIInv'
<1> USE ReplicationAssumption
<1>1. PICK d, snaps, as : d = decode' /\ snaps = snapshots' /\ as = acks'
  OBVIOUS
<1>2. /\ d = Apply(s) /\ snaps = snapshots \ {s} /\ as = acks \cup {s.tick}
  BY <1>1 DEF Deliver
<1>3. /\ m_tick' = m_tick /\ stepped' = stepped /\ world' = world /\ gone' = gone /\ m_repl' = m_repl
      /\ m_interest' = m_interest /\ baseline' = baseline /\ known' = known /\ lost' = lost
      /\ byteBudget' = byteBudget /\ spilled' = spilled /\ overlapped' = overlapped
  BY DEF Deliver, simVars, sentVars, history
<1>4. /\ SimSound(m_tick, world, gone, m_repl, m_interest) /\ KeptSound(m_tick, baseline, known)
      /\ TicksSound /\ OthersSound
  BY DEF ReplicationIInv
<1>5. /\ m_tick \in Nat /\ DOMAIN decode.entities \subseteq DOMAIN decode.lastTick
      /\ \A n \in DOMAIN decode.lastTick : Past(decode.lastTick[n]) /\ decode.lastTick[n] \in Nat
      /\ \A u \in snapshots : Past(u.tick) /\ u.tick \in Nat
      /\ \A t \in acks : Past(t) /\ t \in Nat
  BY <1>4 DEF TicksSound, Past
<1>6. Applied(d, s)
  <2>1. RecordsSound(s.records)
    BY <1>4 DEF OthersSound
  <2> QED
    BY <1>2, <1>5, <2>1, ApplyIs
<1>7. \A n \in DOMAIN d.lastTick : Past(d.lastTick[n]) /\ d.lastTick[n] \in Nat
  <2> SUFFICES ASSUME NEW n \in DOMAIN d.lastTick PROVE Past(d.lastTick[n]) /\ d.lastTick[n] \in Nat
    OBVIOUS
  <2>1. PICK x : x = d.lastTick[n]
    OBVIOUS
  <2>2. x = s.tick \/ (n \in DOMAIN decode.lastTick /\ x = decode.lastTick[n])
    BY <1>6, <2>1 DEF Applied
  <2>3. Past(x) /\ x \in Nat
    BY <1>5, <2>2
  <2> QED
    BY <2>1, <2>3
<1>8. /\ SimSound(m_tick, world, gone, m_repl, m_interest)' /\ KeptSound(m_tick, baseline, known)'
  BY <1>3, <1>4
<1>9. TicksSound'
  <2>1. /\ \A t \in DOMAIN baseline.pending : t \in 1 .. m_tick /\ (stepped => t < m_tick)
        /\ \A n \in DOMAIN baseline.tombstones :
              baseline.tombstones[n] = UNSENT \/ (baseline.tombstones[n] \in 1 .. m_tick /\ (stepped => baseline.tombstones[n] < m_tick))
        /\ m_tick \in 0 .. MAX_TICK /\ stepped \in BOOLEAN /\ (stepped => m_tick > 0)
    BY <1>4 DEF TicksSound, Past
  <2>2. /\ \A u \in snaps : u.tick \in 1 .. m_tick /\ (stepped => u.tick < m_tick)
        /\ \A t \in as : t \in 1 .. m_tick /\ (stepped => t < m_tick)
    BY <1>2, <1>5 DEF Past
  <2>3. DOMAIN d.entities \subseteq DOMAIN d.lastTick
    BY <1>6 DEF Applied
  <2>4. \A n \in DOMAIN d.lastTick : d.lastTick[n] \in 1 .. m_tick /\ (stepped => d.lastTick[n] < m_tick)
    BY <1>7 DEF Past
  <2> QED
    BY <1>1, <1>3, <2>1, <2>2, <2>3, <2>4 DEF TicksSound, Past
<1>10. OthersSound'
  <2>1. snaps \subseteq snapshots
    BY <1>2
  <2> QED
    BY <1>1, <1>3, <1>4, <2>1 DEF OthersSound
<1>11. ASSUME ~spilled PROVE ShownAreKept(baseline, snaps, d) /\ LeaveIsLater(baseline, snaps, d, as)
  <2>1. ShownAreKept(baseline, snapshots, decode) /\ LeaveIsLater(baseline, snapshots, decode, acks)
    BY <1>11 DEF ReplicationIInv
  <2>2. \A n \in DOMAIN decode.lastTick : n \in DOMAIN d.lastTick /\ d.lastTick[n] >= decode.lastTick[n]
    <3> SUFFICES ASSUME NEW n \in DOMAIN decode.lastTick
                 PROVE  n \in DOMAIN d.lastTick /\ d.lastTick[n] >= decode.lastTick[n]
      OBVIOUS
    <3>1. n \in DOMAIN d.lastTick
      BY <1>6 DEF Applied
    <3>2. d.lastTick[n] = decode.lastTick[n] \/ (d.lastTick[n] = s.tick /\ decode.lastTick[n] < s.tick)
      BY <1>6, <3>1 DEF Applied, IsNewer
    <3> QED
      BY <1>5, <3>1, <3>2
  <2>3. ShownAreKept(baseline, snaps, d)
    <3>1. ASSUME NEW n \in DOMAIN d.entities PROVE Kept(baseline, n)
      <4>1. CASE n \in DOMAIN decode.entities
        BY <2>1, <4>1 DEF ShownAreKept
      <4>2. CASE n \in Live(s.records) /\ IsNewer(s, n)
        <5>1. ~(n \in DOMAIN decode.lastTick /\ decode.lastTick[n] > s.tick)
          BY <1>5, <4>2 DEF IsNewer
        <5> QED
          BY <2>1, <4>2, <5>1 DEF ShownAreKept
      <4> QED
        BY <1>6, <4>1, <4>2 DEF Applied
    <3>2. ASSUME NEW u \in snaps, NEW n \in Live(u.records), ~Kept(baseline, n)
          PROVE  n \in DOMAIN d.lastTick /\ d.lastTick[n] > u.tick
      <4>1. n \in DOMAIN decode.lastTick /\ decode.lastTick[n] > u.tick
        BY <1>2, <2>1, <3>2 DEF ShownAreKept
      <4>2. u.tick \in Nat
        BY <1>2, <1>5
      <4> QED
        BY <1>5, <1>7, <2>2, <4>1, <4>2
    <3> QED
      BY <3>1, <3>2 DEF ShownAreKept
  <2>4. ASSUME NEW n \in DOMAIN baseline.tombstones, baseline.tombstones[n] # UNSENT
        PROVE  /\ n \in DOMAIN d.entities => d.lastTick[n] < baseline.tombstones[n]
               /\ \A u \in snaps : n \in Live(u.records) => u.tick < baseline.tombstones[n]
               /\ \A u \in snaps : u.tick >= baseline.tombstones[n] => n \in Tombs(u.records)
               /\ \A t \in as : t >= baseline.tombstones[n] => n \in DOMAIN d.lastTick /\ d.lastTick[n] >= t
    <3>1. PICK x : x = baseline.tombstones[n]
      OBVIOUS
    <3>2. /\ n \in DOMAIN decode.entities => decode.lastTick[n] < x
          /\ \A u \in snapshots : n \in Live(u.records) => u.tick < x
          /\ \A u \in snapshots : u.tick >= x => n \in Tombs(u.records)
          /\ \A t \in acks : t >= x => n \in DOMAIN decode.lastTick /\ decode.lastTick[n] >= t
      BY <2>1, <2>4, <3>1 DEF LeaveIsLater
    <3>3. n \in DOMAIN d.entities => d.lastTick[n] < x
      BY <1>6, <3>2 DEF Applied
    <3>4. ASSUME NEW t \in as, t >= x PROVE n \in DOMAIN d.lastTick /\ d.lastTick[n] >= t
      <4>1. CASE t \in acks
        <5>1. n \in DOMAIN decode.lastTick /\ decode.lastTick[n] >= t
          BY <3>2, <3>4, <4>1
        <5>2. n \in DOMAIN d.lastTick /\ d.lastTick[n] >= decode.lastTick[n]
          BY <2>2, <5>1
        <5> QED
          BY <1>5, <1>7, <4>1, <5>1, <5>2
      <4>2. CASE t = s.tick
        BY <1>6, <3>2, <3>4, <4>2 DEF Applied
      <4> QED
        BY <1>2, <4>1, <4>2
    <3> QED
      BY <1>2, <3>1, <3>2, <3>3, <3>4
  <2> QED
    BY <2>3, <2>4 DEF LeaveIsLater
<1>12. ASSUME ~overlapped PROVE InLockstep'
  <2>1. OneOnItsWay /\ BaseIsShown /\ VersionsTell /\ TombsApart
    BY <1>12 DEF ReplicationIInv, InLockstep
  <2>2. snapshots = {s} /\ acks = {} /\ snaps = {} /\ as = {s.tick}
    BY <1>2, <2>1 DEF OneOnItsWay
  <2>3. OneOnItsWay'
    <3>1. /\ \A t, u \in DOMAIN baseline.pending : t = u
          /\ \A t \in DOMAIN baseline.pending : t = s.tick
      BY <2>1 DEF OneOnItsWay
    <3> QED
      BY <1>1, <1>3, <2>2, <3>1 DEF OneOnItsWay
  <2>4. \A n \in DOMAIN known.base : Shown(n, known.base[n])
    BY <2>1, <2>2 DEF BaseIsShown
  <2>5. \A n : IsNewer(s, n)
    BY <2>1 DEF OneOnItsWay, IsNewer
  <2>6. ASSUME NEW t \in DOMAIN known.pending, NEW n \in DOMAIN known.pending[t]
        PROVE  n \in DOMAIN d.entities /\ d.entities[n] = known.pending[t][n]
    <3>1. t \in DOMAIN baseline.pending /\ n \in DOMAIN baseline.pending[t] /\ known.pending[t][n] \in Forms[n] /\ n \in NetIds
      BY <1>4, <2>6 DEF KeptSound
    <3>2. t = s.tick /\ n \in Live(s.records)
      BY <2>1, <3>1 DEF OneOnItsWay
    <3>3. PICK r \in s.records : "tomb" \notin r.mask /\ r.netId = n
      BY <3>2 DEF Live
    <3>4. PICK st : st = known.pending[t][n]
      OBVIOUS
    <3>5. r.st = st /\ r.mask = Mask(known.base, n, st)
      BY <2>1, <3>2, <3>3, <3>4 DEF OneOnItsWay
    <3>6. r = [netId |-> n, mask |-> Mask(known.base, n, st), st |-> st]
      <4>1. r = [netId |-> r.netId, mask |-> r.mask, st |-> r.st]
        BY <1>4, <3>3 DEF OthersSound, RecordsSound, RecordSound
      <4> QED
        BY <3>3, <3>5, <4>1
    <3>7. PICK sec \in Int, q \in Int, hp \in Int, look \in STRING : st = [sec |-> sec, q |-> q, hp |-> hp, look |-> look]
      <4>1. st \in [sec : Int, q : Int, hp : Int, look : STRING]
        BY <3>1, <3>4
      <4>2. st.sec \in Int /\ st.q \in Int /\ st.hp \in Int /\ st.look \in STRING
            /\ st = [sec |-> st.sec, q |-> st.q, hp |-> st.hp, look |-> st.look]
        BY <4>1
      <4> QED
        BY <4>2
    <3>8. PICK old : old = ValueOr(decode.entities, n, DefaultEntity)
      OBVIOUS
    <3>9. IsReplica(known.base, n, old)
      BY <2>4, <3>8 DEF Shown, ValueOr, IsReplica
    <3>10. ApplyRecord(old, r) = st
      BY <3>6, <3>7, <3>9, MaskCompletes
    <3>11. n \in DOMAIN d.entities /\ d.entities[n] = ApplyRecord(old, r)
      BY <1>6, <2>5, <3>3, <3>8 DEF Applied
    <3> QED
      BY <3>4, <3>10, <3>11
  <2>7. ASSUME NEW n \in DOMAIN known.base
        PROVE  \/ n \in DOMAIN d.entities /\ d.entities[n] = known.base[n]
               \/ \E t \in DOMAIN known.pending : n \in DOMAIN known.pending[t]
    <3>1. n \notin Tombs(s.records)
      BY <2>1, <2>7 DEF OneOnItsWay
    <3>2. CASE n \in Live(s.records)
      <4>1. PICK r \in s.records : "tomb" \notin r.mask /\ r.netId = n
        BY <3>2 DEF Live
      <4>2. s.tick \in DOMAIN known.pending /\ n \in DOMAIN known.pending[s.tick]
        BY <2>1, <4>1 DEF OneOnItsWay
      <4> QED
        BY <4>2
    <3>3. CASE n \notin Live(s.records)
      BY <1>6, <2>4, <3>1, <3>3 DEF Applied, Shown
    <3> QED
      BY <3>2, <3>3
  <2>8. BaseIsShown'
    BY <1>1, <1>3, <2>2, <2>6, <2>7 DEF BaseIsShown, Shown
  <2>9. VersionsTell'
    BY <1>3, <2>1 DEF VersionsTell
  <2>10. TombsApart'
    BY <1>3, <2>1 DEF TombsApart
  <2> QED
    BY <2>3, <2>8, <2>9, <2>10 DEF InLockstep
<1> QED
  BY <1>1, <1>3, <1>8, <1>9, <1>10, <1>11, <1>12 DEF ReplicationIInv

-----------------------------------------------------------------------------
(* An ack.                                                                 *)
(* The snapshots up to an acknowledged tick that had a record of n.        *)
Carried(n, tick, t) == t \in DOMAIN baseline.pending /\ t <= tick /\ n \in DOMAIN baseline.pending[t]

Acknowledged(b, k, tick) ==
    /\ b = [acked |-> b.acked, pending |-> b.pending, tombstones |-> b.tombstones]
    /\ k = [base |-> k.base, pending |-> k.pending]
    /\ DOMAIN k.base = DOMAIN b.acked
    /\ \A n : n \in DOMAIN b.acked <=> n \in DOMAIN baseline.acked \/ \E t : Carried(n, tick, t)
    /\ \A n \in DOMAIN b.acked :
          /\ \/ n \in DOMAIN baseline.acked /\ b.acked[n] = baseline.acked[n]
             \/ \E t : Carried(n, tick, t) /\ b.acked[n] = baseline.pending[t][n]
          /\ \A t : Carried(n, tick, t) => b.acked[n] >= baseline.pending[t][n]
    /\ \A n \in DOMAIN k.base :
          \/ n \in DOMAIN known.base /\ k.base[n] = known.base[n] /\ \A t : ~Carried(n, tick, t)
          \/ \E t : Carried(n, tick, t) /\ k.base[n] = known.pending[t][n]
    /\ DOMAIN k.pending = DOMAIN b.pending
    /\ \A t : t \in DOMAIN b.pending <=> t \in DOMAIN baseline.pending /\ ~(t <= tick)
    /\ \A t \in DOMAIN b.pending : b.pending[t] = baseline.pending[t] /\ k.pending[t] = known.pending[t]
    /\ \A n : n \in DOMAIN b.tombstones <=>
          n \in DOMAIN baseline.tombstones /\ (baseline.tombstones[n] = UNSENT \/ baseline.tombstones[n] > tick)
    /\ \A n \in DOMAIN b.tombstones : b.tombstones[n] = baseline.tombstones[n]

(* Versions and states are folded in from the same snapshots.              *)
LEMMA AckIs ==
    ASSUME KeptSound(m_tick, baseline, known), m_tick \in Nat, NEW tick \in Nat,
           \A t \in DOMAIN baseline.pending : t \in Nat,
           NEW b, b = AckBaseline(baseline, tick), NEW k, k = AckKnown(known, tick)
    PROVE  Acknowledged(b, k, tick)
<1>1. PICK pending, kpending : pending = baseline.pending /\ kpending = known.pending
  OBVIOUS
<1>2. PICK folded : folded = Folded(pending, tick)
  OBVIOUS
<1>3. /\ DOMAIN kpending = DOMAIN pending
      /\ \A t \in DOMAIN pending : DOMAIN kpending[t] = DOMAIN pending[t]
      /\ \A t \in DOMAIN pending : \A n \in DOMAIN pending[t] : pending[t][n] \in 1 .. m_tick
      /\ \A n \in DOMAIN baseline.acked : baseline.acked[n] \in 1 .. m_tick
      /\ DOMAIN known.base = DOMAIN baseline.acked
  BY <1>1 DEF KeptSound
<1>4. /\ folded = Folded(kpending, tick)
      /\ \A t : t \in folded <=> t \in DOMAIN pending /\ t <= tick
      /\ folded \subseteq Nat
  BY <1>1, <1>2, <1>3 DEF Folded
<1>5. PICK netIds : netIds = UNION {DOMAIN pending[t] : t \in folded}
  OBVIOUS
<1>6. netIds = UNION {DOMAIN kpending[t] : t \in folded}
  BY <1>3, <1>4, <1>5
<1>7. \A n, t : Carried(n, tick, t) <=> t \in folded /\ n \in DOMAIN pending[t]
  BY <1>1, <1>4 DEF Carried
<1>8. \A n : n \in netIds <=> \E t : Carried(n, tick, t)
  BY <1>5, <1>7
<1>9. PICK acked, rest, left :
         /\ acked = [n \in DOMAIN baseline.acked \cup netIds |-> AckedVersion(baseline, tick, n)]
         /\ rest = Restrict(pending, DOMAIN pending \ folded)
         /\ left = RestrictValues(baseline.tombstones, LAMBDA sent : sent = UNSENT \/ sent > tick)
  OBVIOUS
<1>10. b = [acked |-> acked, pending |-> rest, tombstones |-> left]
  BY <1>1, <1>2, <1>5, <1>9 DEF AckBaseline
<1>11. b.acked = acked /\ b.pending = rest /\ b.tombstones = left
  BY <1>10
<1> DEFINE carrying(n) == {t \in folded : n \in DOMAIN kpending[t]}
<1>12. PICK base, krest :
          /\ base = [n \in DOMAIN known.base \cup netIds |->
                        IF n \in netIds THEN kpending[Max(carrying(n))][n] ELSE known.base[n]]
          /\ krest = Restrict(kpending, DOMAIN kpending \ folded)
  OBVIOUS
<1>13. k = [base |-> base, pending |-> krest]
  BY <1>1, <1>4, <1>6, <1>12 DEF AckKnown
<1>14. k.base = base /\ k.pending = krest
  BY <1>13
<1>15. ASSUME NEW n \in DOMAIN b.acked
       PROVE  /\ \/ n \in DOMAIN baseline.acked /\ b.acked[n] = baseline.acked[n]
                 \/ \E t : Carried(n, tick, t) /\ b.acked[n] = baseline.pending[t][n]
              /\ \A t : Carried(n, tick, t) => b.acked[n] >= baseline.pending[t][n]
  <2>1. PICK V : V = {ValueOr(baseline.acked, n, 0)} \cup
                     {pending[t][n] : t \in {u \in folded : n \in DOMAIN pending[u]}}
    OBVIOUS
  <2>2. b.acked[n] = Max(V)
    <3>1. AckedVersion(baseline, tick, n) = Max(V)
      BY <1>1, <1>2, <2>1 DEF AckedVersion
    <3> QED
      BY <1>9, <1>11, <1>15, <3>1
  <2>3. V \subseteq Nat /\ V # {} /\ \A x \in V : x <= m_tick
    <3>1. ValueOr(baseline.acked, n, 0) \in 0 .. m_tick
      BY <1>3 DEF ValueOr
    <3>2. \A x \in V : x \in 0 .. m_tick
      BY <1>3, <1>4, <2>1, <3>1
    <3>3. \A x \in V : x \in Nat /\ x <= m_tick
      BY <3>2
    <3> QED
      BY <2>1, <3>3
  <2>4. Max(V) \in V /\ \A y \in V : y <= Max(V)
    BY <2>3, MaxIs
  <2>5. PICK m : m = Max(V)
    OBVIOUS
  <2>6. m \in V /\ m \in Nat /\ \A y \in V : y <= m
    BY <2>3, <2>4, <2>5
  <2>7. \A t : Carried(n, tick, t) => pending[t][n] \in V
    BY <1>7, <2>1
  <2>8. \A t : Carried(n, tick, t) => m >= pending[t][n]
    BY <2>3, <2>6, <2>7
  <2>9. \/ n \in DOMAIN baseline.acked /\ m = baseline.acked[n]
        \/ \E t : Carried(n, tick, t) /\ m = pending[t][n]
    <3>1. CASE m = ValueOr(baseline.acked, n, 0) /\ n \in DOMAIN baseline.acked
      BY <3>1 DEF ValueOr
    <3>2. CASE m = ValueOr(baseline.acked, n, 0) /\ n \notin DOMAIN baseline.acked
      <4>1. PICK t : Carried(n, tick, t)
        BY <1>8, <1>9, <1>11, <1>15, <3>2
      <4>2. m >= pending[t][n] /\ pending[t][n] \in 1 .. m_tick
        BY <1>3, <1>4, <1>7, <2>8, <4>1
      <4>3. m = 0
        BY <3>2 DEF ValueOr
      <4> QED
        BY <4>2, <4>3
    <3>3. CASE \E t \in {u \in folded : n \in DOMAIN pending[u]} : m = pending[t][n]
      BY <1>7, <3>3
    <3> QED
      BY <2>1, <2>6, <3>1, <3>2, <3>3
  <2> QED
    BY <1>1, <2>2, <2>5, <2>8, <2>9
<1>16. ASSUME NEW n \in DOMAIN k.base
       PROVE  \/ n \in DOMAIN known.base /\ k.base[n] = known.base[n] /\ \A t : ~Carried(n, tick, t)
              \/ \E t : Carried(n, tick, t) /\ k.base[n] = known.pending[t][n]
  <2>1. CASE n \in netIds
    <3>1. carrying(n) \subseteq Nat /\ carrying(n) # {} /\ \A x \in carrying(n) : x <= tick
      BY <1>3, <1>4, <1>5, <2>1
    <3>2. PICK c : c = carrying(n)
      OBVIOUS
    <3>3. Max(c) \in c
      BY <3>1, <3>2, MaxIs
    <3>4. PICK t : t = Max(c)
      OBVIOUS
    <3>5. t \in folded /\ n \in DOMAIN kpending[t]
      BY <3>2, <3>3, <3>4
    <3>6. Carried(n, tick, t)
      BY <1>3, <1>4, <1>7, <3>5
    <3>7. k.base[n] = kpending[t][n]
      BY <1>12, <1>14, <1>16, <2>1, <3>2, <3>4
    <3> QED
      BY <1>1, <3>6, <3>7
  <2>2. CASE n \notin netIds
    BY <1>8, <1>12, <1>14, <1>16, <2>2
  <2> QED
    BY <2>1, <2>2
<1> HIDE DEF carrying
<1>17. DOMAIN k.base = DOMAIN b.acked
  BY <1>3, <1>9, <1>11, <1>12, <1>14
<1>18. \A n : n \in DOMAIN b.acked <=> n \in DOMAIN baseline.acked \/ \E t : Carried(n, tick, t)
  BY <1>8, <1>9, <1>11
<1>19. /\ DOMAIN k.pending = DOMAIN b.pending
       /\ \A t : t \in DOMAIN b.pending <=> t \in DOMAIN baseline.pending /\ ~(t <= tick)
       /\ \A t \in DOMAIN b.pending : b.pending[t] = baseline.pending[t] /\ k.pending[t] = known.pending[t]
  BY <1>1, <1>3, <1>4, <1>9, <1>11, <1>12, <1>14 DEF Restrict
<1>20. /\ \A n : n \in DOMAIN b.tombstones <=>
             n \in DOMAIN baseline.tombstones /\ (baseline.tombstones[n] = UNSENT \/ baseline.tombstones[n] > tick)
       /\ \A n \in DOMAIN b.tombstones : b.tombstones[n] = baseline.tombstones[n]
  BY <1>9, <1>11 DEF RestrictValues, Restrict
<1>21. /\ b = [acked |-> b.acked, pending |-> b.pending, tombstones |-> b.tombstones]
       /\ k = [base |-> k.base, pending |-> k.pending]
  BY <1>10, <1>11, <1>13, <1>14
<1> QED
  BY <1>15, <1>16, <1>17, <1>18, <1>19, <1>20, <1>21 DEF Acknowledged

(* A tombstone is dropped only when what it removes is no longer shown.    *)
LEMMA AckPreserves ==
    ASSUME ReplicationIInv, NEW tick \in acks, AckClient(tick)
    PROVE  ReplicationIInv'
<1> USE ReplicationAssumption
<1>1. PICK b, k, as : b = baseline' /\ k = known' /\ as = acks'
  OBVIOUS
<1>2. b = AckBaseline(baseline, tick) /\ k = AckKnown(known, tick) /\ as = acks \ {tick}
  BY <1>1 DEF AckClient
<1>3. /\ m_tick' = m_tick /\ stepped' = stepped /\ world' = world /\ gone' = gone /\ m_repl' = m_repl
      /\ m_interest' = m_interest /\ snapshots' = snapshots /\ lost' = lost /\ decode' = decode
      /\ byteBudget' = byteBudget /\ spilled' = spilled /\ overlapped' = overlapped
  BY DEF AckClient, simVars, history
<1>4. /\ SimSound(m_tick, world, gone, m_repl, m_interest) /\ KeptSound(m_tick, baseline, known)
      /\ TicksSound /\ OthersSound
  BY DEF ReplicationIInv
<1>5. /\ m_tick \in Nat /\ tick \in Nat /\ \A t \in DOMAIN baseline.pending : t \in Nat
      /\ \A n \in DOMAIN baseline.tombstones : baseline.tombstones[n] = UNSENT \/ baseline.tombstones[n] \in Nat
      /\ \A n \in DOMAIN decode.lastTick : decode.lastTick[n] \in Nat
      /\ \A s \in snapshots : s.tick \in Nat
  BY <1>4 DEF TicksSound, Past
<1>6. Acknowledged(b, k, tick)
  BY <1>2, <1>4, <1>5, AckIs
<1>7. KeptSound(m_tick, b, k)
  <2>1. \A n \in DOMAIN b.acked : n \in NetIds /\ b.acked[n] \in 1 .. m_tick
    <3> SUFFICES ASSUME NEW n \in DOMAIN b.acked PROVE n \in NetIds /\ b.acked[n] \in 1 .. m_tick
      OBVIOUS
    <3>1. CASE n \in DOMAIN baseline.acked /\ b.acked[n] = baseline.acked[n]
      BY <1>4, <3>1 DEF KeptSound
    <3>2. CASE \E t : Carried(n, tick, t) /\ b.acked[n] = baseline.pending[t][n]
      BY <1>4, <3>2 DEF KeptSound, Carried
    <3> QED
      BY <1>6, <3>1, <3>2 DEF Acknowledged
  <2>2. \A n \in DOMAIN k.base : k.base[n] \in Forms[n]
    <3> SUFFICES ASSUME NEW n \in DOMAIN k.base PROVE k.base[n] \in Forms[n]
      OBVIOUS
    <3>1. CASE n \in DOMAIN known.base /\ k.base[n] = known.base[n]
      BY <1>4, <3>1 DEF KeptSound
    <3>2. CASE \E t : Carried(n, tick, t) /\ k.base[n] = known.pending[t][n]
      BY <1>4, <3>2 DEF KeptSound, Carried
    <3> QED
      BY <1>6, <3>1, <3>2 DEF Acknowledged
  <2>3. \A t \in DOMAIN b.pending :
          /\ DOMAIN b.pending[t] \subseteq NetIds /\ DOMAIN k.pending[t] = DOMAIN b.pending[t]
          /\ \A n \in DOMAIN b.pending[t] :
                b.pending[t][n] \in 1 .. m_tick /\ k.pending[t][n] \in Forms[n]
    <3> SUFFICES ASSUME NEW t \in DOMAIN b.pending
                 PROVE  /\ DOMAIN b.pending[t] \subseteq NetIds /\ DOMAIN k.pending[t] = DOMAIN b.pending[t]
                        /\ \A n \in DOMAIN b.pending[t] :
                              b.pending[t][n] \in 1 .. m_tick /\ k.pending[t][n] \in Forms[n]
      OBVIOUS
    <3>1. t \in DOMAIN baseline.pending /\ b.pending[t] = baseline.pending[t] /\ k.pending[t] = known.pending[t]
      BY <1>6 DEF Acknowledged
    <3> QED
      BY <1>4, <3>1 DEF KeptSound
  <2>4. DOMAIN b.tombstones \subseteq NetIds
    BY <1>4, <1>6 DEF KeptSound, Acknowledged
  <2>5. /\ b = [acked |-> b.acked, pending |-> b.pending, tombstones |-> b.tombstones]
        /\ k = [base |-> k.base, pending |-> k.pending]
        /\ DOMAIN k.base = DOMAIN b.acked /\ DOMAIN k.pending = DOMAIN b.pending
    BY <1>6 DEF Acknowledged
  <2> QED
    BY <2>1, <2>2, <2>3, <2>4, <2>5 DEF KeptSound
<1>8. SimSound(m_tick, world, gone, m_repl, m_interest)' /\ KeptSound(m_tick, baseline, known)'
  BY <1>1, <1>3, <1>4, <1>7
<1>9. TicksSound'
  <2>1. /\ \A t \in DOMAIN b.pending : t \in 1 .. m_tick /\ (stepped => t < m_tick)
        /\ \A n \in DOMAIN b.tombstones :
              b.tombstones[n] = UNSENT \/ (b.tombstones[n] \in 1 .. m_tick /\ (stepped => b.tombstones[n] < m_tick))
    BY <1>4, <1>6 DEF TicksSound, Past, Acknowledged
  <2>2. /\ \A s \in snapshots : s.tick \in 1 .. m_tick /\ (stepped => s.tick < m_tick)
        /\ \A t \in as : t \in 1 .. m_tick /\ (stepped => t < m_tick)
        /\ DOMAIN decode.entities \subseteq DOMAIN decode.lastTick
        /\ \A n \in DOMAIN decode.lastTick : decode.lastTick[n] \in 1 .. m_tick /\ (stepped => decode.lastTick[n] < m_tick)
        /\ m_tick \in 0 .. MAX_TICK /\ stepped \in BOOLEAN /\ (stepped => m_tick > 0)
    BY <1>2, <1>4 DEF TicksSound, Past
  <2> QED
    BY <1>1, <1>3, <2>1, <2>2 DEF TicksSound, Past
<1>10. OthersSound'
  BY <1>3, <1>4 DEF OthersSound
<1>11. ASSUME ~spilled PROVE ShownAreKept(b, snapshots, decode) /\ LeaveIsLater(b, snapshots, decode, as)
  <2>1. ShownAreKept(baseline, snapshots, decode) /\ LeaveIsLater(baseline, snapshots, decode, acks)
    BY <1>11 DEF ReplicationIInv
  <2>2. ASSUME NEW n, Kept(baseline, n)
        PROVE  \/ Kept(b, n)
               \/ /\ n \notin DOMAIN decode.entities
                  /\ \A s \in snapshots : n \in Live(s.records) =>
                        n \in DOMAIN decode.lastTick /\ decode.lastTick[n] > s.tick
    <3>1. CASE n \in DOMAIN baseline.acked
      BY <1>6, <3>1 DEF Acknowledged, Kept
    <3>2. CASE \E t \in DOMAIN baseline.pending : n \in DOMAIN baseline.pending[t]
      <4>1. PICK t \in DOMAIN baseline.pending : n \in DOMAIN baseline.pending[t]
        BY <3>2
      <4>2. CASE t <= tick
        BY <1>6, <4>1, <4>2 DEF Acknowledged, Kept, Carried
      <4>3. CASE ~(t <= tick)
        BY <1>6, <4>1, <4>3 DEF Acknowledged, Kept
      <4> QED
        BY <4>2, <4>3
    <3>3. CASE n \in DOMAIN baseline.tombstones
      <4>1. CASE n \in DOMAIN b.tombstones
        BY <4>1 DEF Kept
      <4>2. CASE n \notin DOMAIN b.tombstones
        <5>1. PICK x : x = baseline.tombstones[n]
          OBVIOUS
        <5>2. x # UNSENT /\ ~(x > tick) /\ x \in Nat
          BY <1>5, <1>6, <3>3, <4>2, <5>1 DEF Acknowledged
        <5>3. /\ n \in DOMAIN decode.entities => decode.lastTick[n] < x
              /\ \A s \in snapshots : n \in Live(s.records) => s.tick < x
              /\ tick >= x => n \in DOMAIN decode.lastTick /\ decode.lastTick[n] >= tick
          BY <2>1, <3>3, <5>1, <5>2 DEF LeaveIsLater
        <5>4. n \in DOMAIN decode.lastTick /\ decode.lastTick[n] >= tick
          BY <1>5, <5>2, <5>3
        <5> QED
          BY <1>5, <5>2, <5>3, <5>4
      <4> QED
        BY <4>1, <4>2
    <3> QED
      BY <2>2, <3>1, <3>2, <3>3 DEF Kept
  <2>3. ShownAreKept(b, snapshots, decode)
    BY <2>1, <2>2 DEF ShownAreKept
  <2>4. LeaveIsLater(b, snapshots, decode, as)
    BY <1>2, <1>6, <2>1 DEF LeaveIsLater, Acknowledged
  <2> QED
    BY <2>3, <2>4
<1>12. ASSUME ~overlapped PROVE InLockstep'
  <2>1. OneOnItsWay /\ BaseIsShown /\ VersionsTell /\ TombsApart
    BY <1>12 DEF ReplicationIInv, InLockstep
  <2>2. snapshots = {} /\ as = {} /\ \A t \in DOMAIN baseline.pending : t = tick
    BY <1>2, <2>1 DEF OneOnItsWay
  <2>3. DOMAIN b.pending = {}
    BY <1>5, <1>6, <2>2 DEF Acknowledged
  <2>4. OneOnItsWay'
    BY <1>1, <1>3, <2>2, <2>3 DEF OneOnItsWay
  <2>5. ASSUME NEW n \in DOMAIN b.acked
        PROVE  \/ /\ n \in DOMAIN baseline.acked /\ b.acked[n] = baseline.acked[n] /\ k.base[n] = known.base[n]
                  /\ \A t \in DOMAIN baseline.pending : n \notin DOMAIN baseline.pending[t]
               \/ /\ tick \in DOMAIN baseline.pending /\ n \in DOMAIN baseline.pending[tick]
                  /\ b.acked[n] = baseline.pending[tick][n] /\ k.base[n] = known.pending[tick][n]
    <3>1. CASE tick \in DOMAIN baseline.pending /\ n \in DOMAIN baseline.pending[tick]
      <4>1. Carried(n, tick, tick) /\ \A t : Carried(n, tick, t) => t = tick
        BY <1>5, <2>2, <3>1 DEF Carried
      <4>2. k.base[n] = known.pending[tick][n]
        BY <1>6, <2>5, <4>1 DEF Acknowledged
      <4>3. PICK x, y, z : x = b.acked[n] /\ y = baseline.acked[n] /\ z = baseline.pending[tick][n]
        OBVIOUS
      <4>4. x >= z /\ ((n \in DOMAIN baseline.acked /\ x = y) \/ x = z)
        BY <1>6, <2>5, <4>1, <4>3 DEF Acknowledged
      <4>5. n \in DOMAIN baseline.acked => y <= z /\ y \in 1 .. m_tick
        BY <1>4, <2>1, <3>1, <4>3 DEF VersionsTell, KeptSound
      <4>6. z \in 1 .. m_tick
        BY <1>4, <3>1, <4>3 DEF KeptSound
      <4>7. x = z
        BY <1>5, <4>4, <4>5, <4>6
      <4> QED
        BY <3>1, <4>2, <4>3, <4>7
    <3>2. CASE ~(tick \in DOMAIN baseline.pending /\ n \in DOMAIN baseline.pending[tick])
      <4>1. \A t \in DOMAIN baseline.pending : n \notin DOMAIN baseline.pending[t]
        BY <2>2, <3>2
      <4>2. \A t : ~Carried(n, tick, t)
        BY <4>1 DEF Carried
      <4>3. n \in DOMAIN baseline.acked /\ b.acked[n] = baseline.acked[n]
        BY <1>6, <2>5, <4>2 DEF Acknowledged
      <4>4. n \in DOMAIN k.base
        BY <1>6, <2>5 DEF Acknowledged
      <4>5. k.base[n] = known.base[n]
        BY <1>6, <4>2, <4>4 DEF Acknowledged
      <4> QED
        BY <4>1, <4>3, <4>5
    <3> QED
      BY <3>1, <3>2
  <2>6. /\ DOMAIN known.pending = DOMAIN baseline.pending /\ DOMAIN known.base = DOMAIN baseline.acked
        /\ DOMAIN k.base = DOMAIN b.acked
        /\ \A t \in DOMAIN baseline.pending : DOMAIN known.pending[t] = DOMAIN baseline.pending[t]
    BY <1>4, <1>7 DEF KeptSound
  <2>7. \A n \in DOMAIN k.base : n \in DOMAIN decode.entities /\ decode.entities[n] = k.base[n]
    <3> SUFFICES ASSUME NEW n \in DOMAIN k.base PROVE Shown(n, k.base[n])
      BY DEF Shown
    <3>1. /\ \A m \in DOMAIN known.base :
                Shown(m, known.base[m]) \/ \E t \in DOMAIN known.pending : m \in DOMAIN known.pending[t]
          /\ \A t \in DOMAIN known.pending : \A m \in DOMAIN known.pending[t] : Shown(m, known.pending[t][m])
      BY <2>1 DEF BaseIsShown
    <3>2. CASE /\ n \in DOMAIN baseline.acked /\ k.base[n] = known.base[n]
               /\ \A t \in DOMAIN baseline.pending : n \notin DOMAIN baseline.pending[t]
      BY <2>6, <3>1, <3>2
    <3>3. CASE /\ tick \in DOMAIN baseline.pending /\ n \in DOMAIN baseline.pending[tick]
               /\ k.base[n] = known.pending[tick][n]
      BY <2>6, <3>1, <3>3
    <3> QED
      BY <2>5, <2>6, <3>2, <3>3
  <2>8. BaseIsShown'
    BY <1>1, <1>3, <2>2, <2>7 DEF BaseIsShown, Shown
  <2>9. VersionsTell'
    <3>1. \A n \in DOMAIN b.acked :
             /\ n \in DOMAIN world \cup gone
             /\ n \in DOMAIN m_repl =>
                   /\ b.acked[n] <= m_repl[n].version
                   /\ b.acked[n] = m_repl[n].version => k.base[n] = m_repl[n].last
      BY <2>1, <2>5 DEF VersionsTell
    <3> QED
      BY <1>1, <1>3, <2>3, <3>1 DEF VersionsTell
  <2>10. TombsApart'
    <3>1. \A n \in DOMAIN b.tombstones : n \in DOMAIN baseline.tombstones
      BY <1>6 DEF Acknowledged
    <3>2. \A n \in DOMAIN b.tombstones : n \notin DOMAIN k.base
      BY <2>1, <2>5, <2>6, <3>1 DEF TombsApart
    <3>3. DOMAIN k.pending = {}
      BY <1>6, <2>3 DEF Acknowledged
    <3> QED
      BY <1>1, <3>2, <3>3 DEF TombsApart
  <2> QED
    BY <2>4, <2>8, <2>9, <2>10 DEF InLockstep
<1> QED
  BY <1>1, <1>3, <1>8, <1>9, <1>10, <1>11, <1>12 DEF ReplicationIInv

-----------------------------------------------------------------------------
(* The network loses something; nothing happens.                           *)
LEMMA LosePreserves ==
    ASSUME ReplicationIInv, Lose
    PROVE  ReplicationIInv'
<1> USE ReplicationAssumption
<1>1. PICK snaps, as : snaps = snapshots' /\ as = acks'
  OBVIOUS
<1>2. /\ m_tick' = m_tick /\ stepped' = stepped /\ world' = world /\ gone' = gone /\ m_repl' = m_repl
      /\ m_interest' = m_interest /\ baseline' = baseline /\ known' = known /\ decode' = decode
      /\ byteBudget' = byteBudget /\ spilled' = spilled /\ overlapped' = overlapped
      /\ lost < MAX_LOST /\ lost' = lost + 1
  BY DEF Lose, simVars, sentVars, history
<1>3. \/ as = acks /\ \E s \in snapshots : snaps = snapshots \ {s}
      \/ snaps = snapshots /\ \E t \in acks : as = acks \ {t}
  BY <1>1 DEF Lose
<1>4. snaps \subseteq snapshots /\ as \subseteq acks
  BY <1>3
<1>5. /\ SimSound(m_tick, world, gone, m_repl, m_interest) /\ KeptSound(m_tick, baseline, known)
      /\ TicksSound /\ OthersSound
  BY DEF ReplicationIInv
<1>6. SimSound(m_tick, world, gone, m_repl, m_interest)' /\ KeptSound(m_tick, baseline, known)'
  BY <1>2, <1>5
<1>7. TicksSound'
  <2>1. /\ \A t \in DOMAIN baseline.pending : t \in 1 .. m_tick /\ (stepped => t < m_tick)
        /\ \A n \in DOMAIN baseline.tombstones :
              baseline.tombstones[n] = UNSENT \/ (baseline.tombstones[n] \in 1 .. m_tick /\ (stepped => baseline.tombstones[n] < m_tick))
        /\ \A s \in snaps : s.tick \in 1 .. m_tick /\ (stepped => s.tick < m_tick)
        /\ \A t \in as : t \in 1 .. m_tick /\ (stepped => t < m_tick)
        /\ DOMAIN decode.entities \subseteq DOMAIN decode.lastTick
        /\ \A n \in DOMAIN decode.lastTick : decode.lastTick[n] \in 1 .. m_tick /\ (stepped => decode.lastTick[n] < m_tick)
        /\ m_tick \in 0 .. MAX_TICK /\ stepped \in BOOLEAN /\ (stepped => m_tick > 0)
    BY <1>4, <1>5 DEF TicksSound, Past
  <2> QED
    BY <1>1, <1>2, <2>1 DEF TicksSound, Past
<1>8. OthersSound'
  <2>1. lost + 1 \in 0 .. MAX_LOST
    BY <1>2, <1>5 DEF OthersSound
  <2>2. /\ \A s \in snaps : RecordsSound(s.records)
        /\ \A s, u \in snaps : s.tick = u.tick => s = u
    BY <1>4, <1>5 DEF OthersSound
  <2> QED
    BY <1>1, <1>2, <1>5, <2>1, <2>2 DEF OthersSound
<1>9. ASSUME ~spilled PROVE ShownAreKept(baseline, snaps, decode) /\ LeaveIsLater(baseline, snaps, decode, as)
  <2>1. ShownAreKept(baseline, snapshots, decode) /\ LeaveIsLater(baseline, snapshots, decode, acks)
    BY <1>9 DEF ReplicationIInv
  <2>2. ShownAreKept(baseline, snaps, decode)
    BY <1>4, <2>1 DEF ShownAreKept
  <2>3. LeaveIsLater(baseline, snaps, decode, as)
    BY <1>4, <2>1 DEF LeaveIsLater
  <2> QED
    BY <2>2, <2>3
<1>10. ASSUME ~overlapped PROVE InLockstep'
  <2>1. OneOnItsWay /\ BaseIsShown /\ VersionsTell /\ TombsApart
    BY <1>10 DEF ReplicationIInv, InLockstep
  <2>2. snaps = {} /\ as = {} /\ (snapshots # {} \/ acks # {})
    BY <1>3, <2>1 DEF OneOnItsWay
  <2>3. OneOnItsWay'
    <3>1. \A t, u \in DOMAIN baseline.pending : t = u
      BY <2>1 DEF OneOnItsWay
    <3> QED
      BY <1>1, <1>2, <2>2, <3>1 DEF OneOnItsWay
  <2>4. DOMAIN known.pending = {} => \A n \in DOMAIN known.base : Shown(n, known.base[n])
    BY <2>1, <2>2 DEF BaseIsShown
  <2>5. BaseIsShown'
    BY <1>1, <1>2, <2>2, <2>4 DEF BaseIsShown, Shown
  <2>6. VersionsTell'
    BY <1>2, <2>1 DEF VersionsTell
  <2>7. TombsApart'
    BY <1>2, <2>1 DEF TombsApart
  <2> QED
    BY <2>3, <2>5, <2>6, <2>7 DEF InLockstep
<1> QED
  BY <1>1, <1>2, <1>6, <1>7, <1>8, <1>9, <1>10 DEF ReplicationIInv

LEMMA StutterPreserves ==
    ASSUME ReplicationIInv, UNCHANGED vars
    PROVE  ReplicationIInv'
<1>1. /\ m_tick' = m_tick /\ stepped' = stepped /\ world' = world /\ gone' = gone /\ m_repl' = m_repl
      /\ m_interest' = m_interest /\ baseline' = baseline /\ known' = known /\ decode' = decode
      /\ snapshots' = snapshots /\ acks' = acks
      /\ byteBudget' = byteBudget /\ spilled' = spilled /\ overlapped' = overlapped /\ lost' = lost
  BY DEF vars, simVars, sentVars, netVars, history
<1>2. SimSound(m_tick, world, gone, m_repl, m_interest)' /\ KeptSound(m_tick, baseline, known)'
  BY <1>1 DEF ReplicationIInv
<1>3. TicksSound'
  BY <1>1 DEF ReplicationIInv, TicksSound, Past
<1>4. OthersSound'
  BY <1>1 DEF ReplicationIInv, OthersSound
<1>5. ~spilled' => ShownAreKept(baseline, snapshots, decode)' /\ LeaveIsLater(baseline, snapshots, decode, acks)'
  BY <1>1 DEF ReplicationIInv
<1>6. ASSUME ~overlapped' PROVE InLockstep'
  <2>1. OneOnItsWay /\ BaseIsShown /\ VersionsTell /\ TombsApart
    BY <1>1, <1>6 DEF ReplicationIInv, InLockstep
  <2>2. OneOnItsWay'
    BY <1>1, <2>1 DEF OneOnItsWay
  <2>3. BaseIsShown'
    BY <1>1, <2>1 DEF BaseIsShown, Shown
  <2>4. VersionsTell'
    BY <1>1, <2>1 DEF VersionsTell
  <2>5. TombsApart'
    BY <1>1, <2>1 DEF TombsApart
  <2> QED
    BY <2>2, <2>3, <2>4, <2>5 DEF InLockstep
<1> QED
  BY <1>2, <1>3, <1>4, <1>5, <1>6 DEF ReplicationIInv

LEMMA ReplicationStep ==
    ASSUME ReplicationIInv, [Next]_vars
    PROVE  ReplicationIInv'
<1>1. CASE Simulate
  BY <1>1, SimulatePreserves
<1>2. ASSUME NEW n \in NetIds, Spawn(n) PROVE ReplicationIInv'
  BY <1>2, SpawnPreserves
<1>3. ASSUME NEW n \in NetIds, Despawn(n) PROVE ReplicationIInv'
  BY <1>3, DespawnPreserves
<1>4. CASE PrefetchTravelInterest
  BY <1>4, PrefetchPreserves
<1>5. CASE Broadcast
  BY <1>5, BroadcastPreserves
<1>6. ASSUME NEW s \in snapshots, Deliver(s) PROVE ReplicationIInv'
  BY <1>6, DeliverPreserves
<1>7. ASSUME NEW t \in acks, AckClient(t) PROVE ReplicationIInv'
  BY <1>7, AckPreserves
<1>8. CASE Lose
  BY <1>8, LosePreserves
<1>9. CASE UNCHANGED vars
  BY <1>9, StutterPreserves
<1> QED
  BY <1>1, <1>2, <1>3, <1>4, <1>5, <1>6, <1>7, <1>8, <1>9 DEF Next

LEMMA ReplicationInit ==
    ASSUME Init
    PROVE  ReplicationIInv
<1> USE ReplicationAssumption
<1>1. PICK st \in Forms[Base] : world = [n \in {Base} |-> st]
  BY DEF Init
<1>2. /\ m_tick = 0 /\ stepped = FALSE /\ gone = {} /\ m_repl = EmptyMap /\ m_interest = EmptyGrid
      /\ baseline = EmptyBaseline /\ known = EmptyKnown
      /\ snapshots = {} /\ acks = {} /\ lost = 0
      /\ decode = [entities |-> EmptyMap, lastTick |-> EmptyMap]
      /\ byteBudget \in BUDGETS /\ spilled = FALSE /\ overlapped = FALSE
  BY DEF Init
<1>3. DOMAIN EmptyMap = {}
  BY DEF EmptyMap
<1>4. PICK e : e = EmptyMap
  OBVIOUS
<1>5. /\ m_interest = [cells |-> e, entitySector |-> e, playerSubs |-> e, playerPin |-> e]
      /\ baseline = [acked |-> e, pending |-> e, tombstones |-> e]
      /\ known = [base |-> e, pending |-> e]
      /\ decode = [entities |-> e, lastTick |-> e] /\ m_repl = e /\ DOMAIN e = {}
  BY <1>2, <1>3, <1>4 DEF EmptyGrid, EmptyBaseline, EmptyKnown
<1>6. GridSound(m_interest)
  BY <1>5 DEF GridSound, GridRecord, CellsAreRecords, GridConsistent
<1>7. SimSound(m_tick, world, gone, m_repl, m_interest)
  BY <1>1, <1>2, <1>5, <1>6 DEF SimSound
<1>8. KeptSound(m_tick, baseline, known)
  BY <1>5 DEF KeptSound
<1>9. TicksSound
  <2>1. m_tick \in 0 .. MAX_TICK
    BY <1>2
  <2>2. /\ DOMAIN baseline.pending = {} /\ DOMAIN baseline.tombstones = {}
        /\ DOMAIN decode.entities = {} /\ DOMAIN decode.lastTick = {}
    BY <1>5
  <2> QED
    BY <1>2, <2>1, <2>2 DEF TicksSound
<1>10. OthersSound
  <2>1. lost \in 0 .. MAX_LOST
    BY <1>2
  <2> QED
    BY <1>2, <2>1 DEF OthersSound
<1>11. ShownAreKept(baseline, snapshots, decode) /\ LeaveIsLater(baseline, snapshots, decode, acks)
  BY <1>2, <1>5 DEF ShownAreKept, LeaveIsLater
<1>12. InLockstep
  <2>1. OneOnItsWay
    BY <1>2, <1>5 DEF OneOnItsWay
  <2>2. BaseIsShown
    BY <1>2, <1>5 DEF BaseIsShown
  <2>3. VersionsTell
    BY <1>5 DEF VersionsTell
  <2>4. TombsApart
    BY <1>5 DEF TombsApart
  <2> QED
    BY <2>1, <2>2, <2>3, <2>4 DEF InLockstep
<1> QED
  BY <1>7, <1>8, <1>9, <1>10, <1>11, <1>12 DEF ReplicationIInv

(* The inductive invariant holds of every behaviour.                       *)
LEMMA ReplicationInvariant == PartsSpec => []ReplicationIInv
<1>1. PartsInit => ReplicationIInv
  BY ReplicationInit DEF PartsInit
<1>2. ReplicationIInv /\ [PartsNext]_partVars => ReplicationIInv'
  <2> SUFFICES ASSUME ReplicationIInv, [PartsNext]_partVars PROVE ReplicationIInv'
    OBVIOUS
  <2>1. [Next]_vars
    BY DEF PartsNext, partVars
  <2> QED
    BY <2>1, ReplicationStep
<1> QED
  BY <1>1, <1>2, PTL DEF PartsSpec

-----------------------------------------------------------------------------
(* What the runs check.                                                    *)
LEMMA TypesCorrect ==
    ASSUME ReplicationIInv
    PROVE  TypeOK
<1> USE ReplicationAssumption
<1>1. /\ SimSound(m_tick, world, gone, m_repl, m_interest) /\ KeptSound(m_tick, baseline, known)
      /\ TicksSound /\ OthersSound
  BY DEF ReplicationIInv
<1>2. \A n \in NetIds : \A st \in Forms[n] : st \in States
  BY DEF States
<1>3. IsMap(world, NetIds, States)
  BY <1>1, <1>2 DEF SimSound, IsMap
<1>4. gone \subseteq NetIds \ DOMAIN world
  BY <1>1 DEF SimSound
<1>5. IsMap(m_repl, DOMAIN world, [version : 1 .. m_tick, last : States])
  <2> SUFFICES ASSUME NEW n \in DOMAIN m_repl
               PROVE  n \in DOMAIN world /\ m_repl[n] \in [version : 1 .. m_tick, last : States]
    BY DEF IsMap
  <2>1. PICK v : v \in 1 .. m_tick /\ m_repl[n] = [version |-> v, last |-> world[n]]
    BY <1>1 DEF SimSound
  <2>2. n \in DOMAIN world /\ world[n] \in States
    BY <1>1, <1>2 DEF SimSound
  <2> QED
    BY <2>1, <2>2
<1>6. DOMAIN m_interest.entitySector \subseteq DOMAIN world
  BY <1>1 DEF SimSound
<1>7. /\ IsMap(baseline.acked, NetIds, 1 .. m_tick) /\ IsMap(known.base, NetIds, States)
      /\ DOMAIN baseline.pending = DOMAIN known.pending
      /\ \A t \in DOMAIN baseline.pending :
            IsMap(baseline.pending[t], DOMAIN known.pending[t], 1 .. m_tick)
  BY <1>1, <1>2 DEF KeptSound, IsMap
<1>8. IsMap(baseline.tombstones, NetIds, 1 .. m_tick \cup {UNSENT})
  BY <1>1 DEF KeptSound, TicksSound, Past, IsMap
<1>9. /\ m_tick \in 0 .. MAX_TICK /\ stepped \in BOOLEAN
      /\ DOMAIN decode.entities \subseteq DOMAIN decode.lastTick /\ acks \subseteq 1 .. m_tick
  BY <1>1 DEF TicksSound, Past
<1>10. /\ lost \in 0 .. MAX_LOST /\ byteBudget \in BUDGETS /\ spilled \in BOOLEAN /\ overlapped \in BOOLEAN
  BY <1>1 DEF OthersSound
<1> QED
  BY <1>3, <1>4, <1>5, <1>6, <1>7, <1>8, <1>9, <1>10 DEF TypeOK

LEMMA BasesAreHeld ==
    ASSUME ReplicationIInv
    PROVE  BaseIsHeld
  BY DEF ReplicationIInv, InLockstep, BaseIsShown, BaseIsHeld, Shown

(* A record without a field left is of a state the client already has.     *)
LEMMA NothingToSay ==
    ASSUME NEW n, NEW st, NEW held, DeltaMask(n) = {}, st = world[n], held = known.base[n],
           st \in [sec : Int, q : Int, hp : Int, look : STRING],
           held \in [sec : Int, q : Int, hp : Int, look : STRING]
    PROVE  n \in DOMAIN known.base /\ held = st
<1>1. n \in DOMAIN known.base
  BY DEF DeltaMask
<1>2. UNION { IF st.sec # held.sec THEN {"sec"} ELSE {},
              IF st.sec # held.sec \/ st.q # held.q THEN {"pos"} ELSE {},
              IF st.hp # held.hp THEN {"hp"} ELSE {},
              IF st.look # held.look THEN {"look"} ELSE {} } = {}
  BY <1>1 DEF DeltaMask
<1>3. st.sec = held.sec /\ st.q = held.q /\ st.hp = held.hp /\ st.look = held.look
  BY <1>2
<1> QED
  BY <1>1, <1>3

(* A version acknowledged is of the state stamped with it.                 *)
LEMMA Converges ==
    ASSUME ReplicationIInv
    PROVE  ConvergenceInLockstep
<1> USE ReplicationAssumption
<1> SUFFICES ASSUME ~overlapped, Settled, NEW n \in Visible
             PROVE  n \in DOMAIN decode.entities /\ decode.entities[n] = m_repl[n].last
  BY DEF ConvergenceInLockstep, Convergence, UpToDate
<1>1. /\ SimSound(m_tick, world, gone, m_repl, m_interest) /\ KeptSound(m_tick, baseline, known)
      /\ BaseIsShown /\ VersionsTell
  BY DEF ReplicationIInv, InLockstep
<1>2. /\ snapshots = {} /\ acks = {} /\ DOMAIN baseline.pending = {}
      /\ n \in DOMAIN m_repl /\ (Needs(n) => DeltaMask(n) = {})
  BY DEF Settled
<1>3. \A m \in DOMAIN known.base : m \in DOMAIN decode.entities /\ decode.entities[m] = known.base[m]
  BY <1>1, <1>2 DEF BaseIsShown, KeptSound, Shown
<1>4. PICK v : v \in 1 .. m_tick /\ m_repl[n] = [version |-> v, last |-> world[n]]
  BY <1>1, <1>2 DEF SimSound
<1>5. n \in DOMAIN world /\ world[n] \in Forms[n] /\ n \in NetIds /\ m_repl[n].last = world[n] /\ m_repl[n].version = v
  BY <1>1, <1>2, <1>4 DEF SimSound
<1>6. CASE Needs(n)
  <2>1. n \in DOMAIN known.base
    BY <1>2, <1>6 DEF DeltaMask
  <2>2. known.base[n] \in Forms[n]
    BY <1>1, <2>1 DEF KeptSound
  <2>3. Forms[n] \subseteq [sec : Int, q : Int, hp : Int, look : STRING]
    BY <1>5
  <2>4. PICK st, held : st = world[n] /\ held = known.base[n]
    OBVIOUS
  <2>5. /\ st \in [sec : Int, q : Int, hp : Int, look : STRING]
        /\ held \in [sec : Int, q : Int, hp : Int, look : STRING]
    BY <1>5, <2>2, <2>3, <2>4
  <2>6. held = st
    BY <1>2, <1>6, <2>4, <2>5, NothingToSay
  <2> QED
    BY <1>3, <1>5, <2>1, <2>4, <2>6
<1>7. CASE ~Needs(n)
  <2>1. PICK a : a = ValueOr(baseline.acked, n, 0)
    OBVIOUS
  <2>2. ~(v > a)
    BY <1>2, <1>5, <1>7, <2>1 DEF Needs, Version
  <2>3. n \in DOMAIN baseline.acked
    BY <1>4, <2>1, <2>2 DEF ValueOr
  <2>4. a = baseline.acked[n] /\ a \in 1 .. m_tick /\ n \in DOMAIN known.base
    BY <1>1, <2>1, <2>3 DEF ValueOr, KeptSound
  <2>5. a <= v
    BY <1>1, <1>2, <1>5, <2>3, <2>4 DEF VersionsTell
  <2>6. a = v
    BY <1>4, <2>2, <2>4, <2>5
  <2>7. known.base[n] = m_repl[n].last
    BY <1>1, <1>2, <1>5, <2>3, <2>4, <2>6 DEF VersionsTell
  <2> QED
    BY <1>3, <2>4, <2>7
<1> QED
  BY <1>6, <1>7

(* The grid's two indexes agree after every crossing, despawn and pin, and *)
(* between a snapshot's ack and the next snapshot of a client in lockstep  *)
(* the delta base (SnapshotScheduler.h, ClientKnownState::Ack) is what the *)
(* client shows.                                                           *)
THEOREM ReplicationCorrect == PartsSpec => []ReplicationInv
<1>1. ReplicationIInv => ReplicationInv
  <2> SUFFICES ASSUME ReplicationIInv PROVE ReplicationInv
    OBVIOUS
  <2>1. InterestConsistent
    BY DEF ReplicationIInv, SimSound, GridSound, InterestConsistent
  <2> QED
    BY <2>1, TypesCorrect, BasesAreHeld DEF ReplicationInv
<1> QED
  BY <1>1, ReplicationInvariant, PTL

(* The server never forgets an entity the client shows, whatever is lost,  *)
(* late or reordered, while no snapshot spilled and no pending record was  *)
(* dropped (ClientBaseline::Ack and TombstonesFor in Interest.h).          *)
THEOREM NoGhosts == PartsSpec => []NothingForgottenWithRoom
<1>1. ReplicationIInv => NothingForgottenWithRoom
  BY DEF ReplicationIInv, NothingForgottenWithRoom, NothingForgotten, ShownAreKept, Kept, Tracked
<1> QED
  BY <1>1, ReplicationInvariant, PTL

(* Served in lockstep, a client shows every visible entity as last stamped *)
(* when the server has nothing left to say to it, whatever the budget and  *)
(* the cap spilled (ScheduleClient, BuildBudgetedSnapshot).                *)
THEOREM ConvergesInLockstep == PartsSpec => []ConvergenceInLockstep
<1>1. ReplicationIInv => ConvergenceInLockstep
  BY Converges
<1> QED
  BY <1>1, ReplicationInvariant, PTL

(***************************************************************************)
(* The order of the records (module Scheduler): no entity the client knows *)
(* is starved.  They hold for any relevances, room and staleness.          *)
(***************************************************************************)
LEMMA SameCardinality == \A S : Sched!Cardinality(S) = Cardinality(S)
  BY DEF Sched!Cardinality, Cardinality


(* Some member of a finite set comes first in an order.                    *)
LEMMA FirstOf ==
    ASSUME NEW S, IsFiniteSet(S), S # {}, NEW R,
           \A a \in S : << a, a >> \notin R,
           \A a, b, c \in S : << a, b >> \in R /\ << b, c >> \in R => << a, c >> \in R
    PROVE  \E s \in S : { m \in S : << m, s >> \in R } = {}
<1>1. PICK before : before = [s \in S |-> { m \in S : << m, s >> \in R }]
  OBVIOUS
<1>2. \A s \in S : /\ before[s] \subseteq S /\ IsFiniteSet(before[s])
                   /\ Cardinality(before[s]) \in Nat
  <2>1. \A s \in S : before[s] \in SUBSET S
    BY <1>1
  <2> QED
    BY <2>1, FS_Subset, FS_CardinalityType
<1>3. PICK T : T = { Cardinality(before[s]) : s \in S }
  OBVIOUS
<1>4. PICK s \in S : \A k \in T : Cardinality(before[s]) <= k
  <2>1. T \subseteq Nat /\ T # {}
    BY <1>2, <1>3
  <2>2. \E m \in T : \A k \in T : m <= k
    BY <2>1, LeastNumber
  <2> QED
    BY <1>3, <2>2
<1>5. ASSUME NEW m \in before[s] PROVE FALSE
  <2>1. m \in S /\ << m, s >> \in R
    BY <1>1, <1>5
  <2>2. before[m] \in SUBSET before[s] /\ m \notin before[m]
    BY <1>1, <2>1
  <2>3. /\ Cardinality(before[m]) <= Cardinality(before[s])
        /\ Cardinality(before[m]) # Cardinality(before[s])
    BY <1>2, <1>5, <2>2, FS_Subset
  <2>4. Cardinality(before[s]) <= Cardinality(before[m])
    BY <1>3, <1>4, <2>1
  <2> QED
    BY <1>2, <2>1, <2>3, <2>4
<1> QED
  BY <1>1, <1>5

(* The net ids, and how many.                                              *)
LEMMA IdsAre ==
    /\ Sched!Ids \subseteq Nat /\ IsFiniteSet(Sched!Ids) /\ Cardinality(Sched!Ids) \in Nat
    /\ \A S \in SUBSET Sched!Ids : IsFiniteSet(S) /\ Cardinality(S) \in Nat
                                   /\ Cardinality(S) <= Cardinality(Sched!Ids)
    /\ \A n \in Sched!Ids : Relevance[n] \in Nat /\ Relevance[n] > 0
<1>1. Sched!Ids \subseteq Nat /\ IsFiniteSet(Sched!Ids)
  BY SchedulerAssumption DEF Sched!Ids
<1>2. \A n \in Sched!Ids : Relevance[n] \in Nat /\ Relevance[n] > 0
  BY SchedulerAssumption DEF Sched!Ids
<1>3. Cardinality(Sched!Ids) \in Nat
  BY <1>1, FS_CardinalityType
<1>4. \A S \in SUBSET Sched!Ids : IsFiniteSet(S) /\ Cardinality(S) <= Cardinality(Sched!Ids)
  BY <1>1, FS_Subset
<1>5. \A S \in SUBSET Sched!Ids : Cardinality(S) \in Nat
  BY <1>4, FS_CardinalityType
<1> QED
  BY <1>1, <1>2, <1>3, <1>4, <1>5

(* The greatest relevance.                                                 *)
LEMMA GreatestRelevance ==
    ASSUME Sched!Ids # {}
    PROVE  /\ Sched!Max(Sched!Range(Relevance)) \in Nat
           /\ \A n \in Sched!Ids : Relevance[n] <= Sched!Max(Sched!Range(Relevance))
<1>1. PICK R : R = { p \in Sched!Ids \X Sched!Ids : Relevance[p[1]] > Relevance[p[2]] }
  OBVIOUS
<1>2. \A a, b \in Sched!Ids : << a, b >> \in R <=> Relevance[a] > Relevance[b]
  BY <1>1
<1>3. \A a \in Sched!Ids : << a, a >> \notin R
  BY <1>2, IdsAre
<1>4. \A a, b, c \in Sched!Ids : << a, b >> \in R /\ << b, c >> \in R => << a, c >> \in R
  BY <1>2, IdsAre
<1>5. PICK s \in Sched!Ids : { m \in Sched!Ids : << m, s >> \in R } = {}
  <2>1. IsFiniteSet(Sched!Ids)
    BY IdsAre
  <2> QED
    BY <1>3, <1>4, <2>1, FirstOf
<1>6. \A m \in Sched!Ids : ~(Relevance[m] > Relevance[s])
  BY <1>2, <1>5
<1>7. PICK W : W = Sched!Range(Relevance)
  OBVIOUS
<1>8. W = { Relevance[n] : n \in Sched!Ids }
  BY <1>7 DEF Sched!Range, Sched!Ids
<1>9. W \subseteq Nat /\ Relevance[s] \in W /\ \A y \in W : Relevance[s] >= y
  BY <1>6, <1>8, IdsAre
<1>10. Sched!Max(W) \in W /\ \A y \in W : Sched!Max(W) >= y
  BY <1>9 DEF Sched!Max
<1> QED
  BY <1>7, <1>8, <1>9, <1>10

LEMMA ProductNat == \A a, b \in Nat : a * b \in Nat
  OBVIOUS

(* What a tick finds.                                                      *)
SchedTypeOK ==
    /\ lastSent \in [Sched!Ids -> 0 .. MAX_AGE \cup {Sched!NEVER}]
    /\ lacked \subseteq Sched!Ids
    /\ passedOver \in [Sched!Ids -> 0 .. MAX_AGE]

LEMMA PriorityNat ==
    ASSUME SchedTypeOK
    PROVE  \A n \in Sched!Ids : Sched!Staleness(n) \in Nat /\ Sched!SnapshotPriority(n) \in Nat
<1> SUFFICES ASSUME NEW n \in Sched!Ids
             PROVE  Sched!Staleness(n) \in Nat /\ Sched!SnapshotPriority(n) \in Nat
  OBVIOUS
<1>1. lastSent[n] \in 0 .. MAX_AGE \cup {Sched!NEVER}
  BY DEF SchedTypeOK
<1>2. Sched!Staleness(n) \in Nat
  BY <1>1, SchedulerAssumption DEF Sched!Staleness, Sched!NEVER
<1>3. STALE + Sched!Staleness(n) \in Nat /\ Relevance[n] \in Nat
  BY <1>2, SchedulerAssumption, IdsAre
<1>4. Relevance[n] * (STALE + Sched!Staleness(n)) \in Nat
  BY <1>3, ProductNat
<1> QED
  BY <1>2, <1>4 DEF Sched!SnapshotPriority

(* The order is strict, and what is sent comes before what is not.         *)
LEMMA AheadIsStrict ==
    ASSUME SchedTypeOK
    PROVE  /\ \A a \in Sched!Ids : ~Sched!Ahead(a, a)
           /\ \A a, b, c \in Sched!Ids :
                 Sched!Ahead(a, b) /\ Sched!Ahead(b, c) => Sched!Ahead(a, c)
<1>1. PICK pr : pr = [n \in Sched!Ids |-> Sched!SnapshotPriority(n)]
  OBVIOUS
<1>2. \A n \in Sched!Ids : n \in Nat /\ pr[n] \in Nat
  BY <1>1, PriorityNat, IdsAre
<1>3. \A a, b \in Sched!Ids : Sched!Ahead(a, b) <=> pr[a] > pr[b] \/ (pr[a] = pr[b] /\ a < b)
  BY <1>1 DEF Sched!Ahead
<1> QED
  BY <1>2, <1>3

LEMMA SomeIsSent ==
    ASSUME SchedTypeOK, NEW cands \in SUBSET Sched!Ids, cands # {}
    PROVE  Sched!ScheduleClient(cands) # {}
<1>1. PICK R : R = { p \in cands \X cands : Sched!Ahead(p[1], p[2]) }
  OBVIOUS
<1>2. \A a, b \in cands : << a, b >> \in R <=> Sched!Ahead(a, b)
  BY <1>1
<1>3. \A a \in cands : << a, a >> \notin R
  BY <1>2, AheadIsStrict
<1>4. \A a, b, c \in cands : << a, b >> \in R /\ << b, c >> \in R => << a, c >> \in R
  BY <1>2, AheadIsStrict
<1>5. PICK s \in cands : { m \in cands : << m, s >> \in R } = {}
  <2>1. IsFiniteSet(cands)
    BY IdsAre
  <2> QED
    BY <1>3, <1>4, <2>1, FirstOf
<1>6. { m \in cands : Sched!Ahead(m, s) } = {}
  BY <1>2, <1>5
<1>7. Cardinality({ m \in cands : Sched!Ahead(m, s) }) < ROOM
  BY <1>6, FS_EmptySet, SchedulerAssumption
<1> QED
  BY <1>7, SameCardinality DEF Sched!ScheduleClient

LEMMA SentAhead ==
    ASSUME SchedTypeOK, NEW cands \in SUBSET Sched!Ids,
           NEW s \in Sched!ScheduleClient(cands), NEW n \in cands \ Sched!ScheduleClient(cands)
    PROVE  Sched!SnapshotPriority(n) <= Sched!SnapshotPriority(s)
<1>1. PICK before : before = [x \in cands |-> { m \in cands : Sched!Ahead(m, x) }]
  OBVIOUS
<1>2. \A x \in cands : x \in Sched!ScheduleClient(cands) <=> Cardinality(before[x]) < ROOM
  BY <1>1, SameCardinality DEF Sched!ScheduleClient
<1>3. s \in cands /\ n \in cands /\ s \in Sched!Ids /\ n \in Sched!Ids
  BY DEF Sched!ScheduleClient
<1>4. \A x \in cands : before[x] \in SUBSET Sched!Ids
  BY <1>1
<1>5. /\ Cardinality(before[s]) < ROOM /\ ~(Cardinality(before[n]) < ROOM)
      /\ Cardinality(before[s]) \in Nat /\ Cardinality(before[n]) \in Nat
      /\ IsFiniteSet(before[s])
  BY <1>2, <1>3, <1>4, IdsAre
<1>6. ASSUME Sched!Ahead(n, s) PROVE FALSE
  <2>1. \A m \in cands : Sched!Ahead(m, n) => Sched!Ahead(m, s)
    BY <1>3, <1>6, AheadIsStrict
  <2>2. before[n] \in SUBSET before[s]
    BY <1>1, <1>3, <2>1
  <2>3. Cardinality(before[n]) <= Cardinality(before[s])
    BY <1>5, <2>2, FS_Subset
  <2> QED
    BY <1>5, <2>3, SchedulerAssumption
<1> QED
  BY <1>3, <1>6, PriorityNat DEF Sched!Ahead

-----------------------------------------------------------------------------
(* Arithmetic of the bound.                                                *)
LEMMA Quotient ==
    \A W, M, T \in Nat :
        W > 0 /\ W <= M =>
            /\ (M * T) \div W \in Nat
            /\ (M * T) \div W >= T
            /\ \A a \in Nat : a > (M * T) \div W => W * a > M * T
<1> SUFFICES ASSUME NEW W \in Nat, NEW M \in Nat, NEW T \in Nat, W > 0, W <= M
             PROVE  /\ (M * T) \div W \in Nat
                    /\ (M * T) \div W >= T
                    /\ \A a \in Nat : a > (M * T) \div W => W * a > M * T
  OBVIOUS
<1>1. PICK X \in Nat : X = M * T
  BY ProductNat
<1>2. PICK q \in Int : q = X \div W
  OBVIOUS
<1>3. W * q <= X /\ X < W * q + W
  BY <1>2
<1>4. W * T <= X
  BY <1>1
<1>5. q >= T
  <2> SUFFICES ASSUME q + 1 <= T PROVE FALSE
    OBVIOUS
  <2>1. W * (q + 1) <= W * T
    OBVIOUS
  <2>2. W * (q + 1) = W * q + W
    OBVIOUS
  <2> QED
    BY <1>3, <1>4, <2>1, <2>2
<1>6. ASSUME NEW a \in Nat, a > q PROVE W * a > X
  <2>1. W * (q + 1) <= W * a
    BY <1>6
  <2>2. W * (q + 1) = W * q + W
    OBVIOUS
  <2> QED
    BY <1>3, <2>1, <2>2
<1> QED
  BY <1>1, <1>2, <1>5, <1>6

LEMMA Grows == \A a, b, c, d \in Nat : a <= b /\ c <= d => a * c <= b * d
<1> SUFFICES ASSUME NEW a \in Nat, NEW b \in Nat, NEW c \in Nat, NEW d \in Nat, a <= b, c <= d
             PROVE  a * c <= b * d
  OBVIOUS
<1>1. a * c <= b * c
  OBVIOUS
<1>2. b * c <= b * d
  OBVIOUS
<1>3. a * c \in Nat /\ b * c \in Nat /\ b * d \in Nat
  BY ProductNat
<1> QED
  BY <1>1, <1>2, <1>3

(* Passed over for longer, an entity comes before all that were sent       *)
(* within as many ticks as there are entities.                             *)
Overdue(n) == Sched!Patience(n) - Cardinality(Sched!Ids)

LEMMA OverdueIs ==
    ASSUME NEW n \in Sched!Ids
    PROVE  /\ Overdue(n) \in Int /\ Overdue(n) >= Cardinality(Sched!Ids)
           /\ Sched!Patience(n) = Overdue(n) + Cardinality(Sched!Ids)
           /\ \A a \in Nat : a >= Overdue(n) =>
                 Relevance[n] * (STALE + a + 1) >
                     Sched!Max(Sched!Range(Relevance)) * (STALE + Cardinality(Sched!Ids))
<1>1. PICK M \in Nat : M = Sched!Max(Sched!Range(Relevance)) /\ Relevance[n] <= M
  BY GreatestRelevance
<1>2. PICK N \in Nat : N = Cardinality(Sched!Ids)
  BY IdsAre
<1>3. PICK W \in Nat : W = Relevance[n] /\ W > 0
  BY IdsAre
<1>4. PICK T \in Nat : T = STALE + N
  BY <1>2, SchedulerAssumption
<1>5. PICK q : q = (M * T) \div W
  OBVIOUS
<1>6. q \in Nat /\ q >= T /\ \A a \in Nat : a > q => W * a > M * T
  BY <1>1, <1>3, <1>5, Quotient
<1>7. Sched!Patience(n) = q + N - STALE
  BY <1>1, <1>2, <1>3, <1>4, <1>5, SameCardinality DEF Sched!Patience
<1>8. Overdue(n) = q - STALE
  BY <1>2, <1>6, <1>7, SchedulerAssumption DEF Overdue
<1>9. \A a \in Nat : a >= Overdue(n) => W * (STALE + a + 1) > M * T
  <2> SUFFICES ASSUME NEW a \in Nat, a >= Overdue(n) PROVE W * (STALE + a + 1) > M * T
    OBVIOUS
  <2>1. STALE + a + 1 \in Nat /\ STALE + a + 1 > q
    BY <1>6, <1>8, SchedulerAssumption
  <2> QED
    BY <1>6, <2>1
<1> QED
  BY <1>1, <1>2, <1>3, <1>4, <1>6, <1>7, <1>8, <1>9, SchedulerAssumption

(* What is sent before an overdue entity was not sent for long.            *)
LEMMA OverdueComesFirst ==
    ASSUME SchedTypeOK, NEW cands \in SUBSET Sched!Ids,
           NEW s \in Sched!ScheduleClient(cands), NEW n \in cands \ Sched!ScheduleClient(cands),
           lastSent[n] \in Nat, lastSent[n] >= Overdue(n)
    PROVE  lastSent[s] >= Cardinality(Sched!Ids)
<1>1. s \in Sched!Ids /\ n \in Sched!Ids
  BY DEF Sched!ScheduleClient
<1>2. PICK M \in Nat : M = Sched!Max(Sched!Range(Relevance)) /\ Relevance[s] <= M
  BY <1>1, GreatestRelevance
<1>3. PICK N \in Nat : N = Cardinality(Sched!Ids)
  BY IdsAre
<1>4. Relevance[n] * (STALE + lastSent[n] + 1) > M * (STALE + N)
  BY <1>1, <1>2, <1>3, OverdueIs
<1>5. Sched!SnapshotPriority(n) = Relevance[n] * (STALE + lastSent[n] + 1)
  <2>1. Sched!Staleness(n) = lastSent[n] + 1
    BY DEF Sched!Staleness, Sched!NEVER
  <2>2. STALE + (lastSent[n] + 1) = STALE + lastSent[n] + 1
    BY SchedulerAssumption
  <2> QED
    BY <2>1, <2>2 DEF Sched!SnapshotPriority
<1>6. PICK st \in Nat : st = Sched!Staleness(s)
  BY <1>1, PriorityNat
<1>7. Sched!SnapshotPriority(s) = Relevance[s] * (STALE + st)
  BY <1>6 DEF Sched!SnapshotPriority
<1>8. ~(st <= N)
  <2> SUFFICES ASSUME st <= N PROVE FALSE
    OBVIOUS
  <2>1. Relevance[s] \in Nat /\ STALE + st \in Nat /\ STALE + N \in Nat /\ STALE + st <= STALE + N
    BY <1>1, IdsAre, SchedulerAssumption
  <2>2. Relevance[s] * (STALE + st) <= M * (STALE + N)
    BY <1>2, <2>1, Grows
  <2>3. Sched!SnapshotPriority(n) <= Sched!SnapshotPriority(s)
    BY SentAhead
  <2>4. M * (STALE + N) \in Nat /\ Sched!SnapshotPriority(n) \in Nat /\ Sched!SnapshotPriority(s) \in Nat
    BY <1>1, <2>1, ProductNat, PriorityNat
  <2> QED
    BY <1>4, <1>5, <1>7, <2>2, <2>3, <2>4
<1>9. lastSent[s] \in 0 .. MAX_AGE \cup {Sched!NEVER}
  BY <1>1 DEF SchedTypeOK
<1> QED
  BY <1>3, <1>6, <1>8, <1>9, SchedulerAssumption DEF Sched!Staleness, Sched!NEVER

-----------------------------------------------------------------------------
(* The entities that were sent within so many ticks, but for one.          *)
SentWithin(last, n, k) == { m \in Sched!Ids \ {n} : last[m] \in 0 .. k - 1 }

(* Since an entity is overdue, each tick that passed it over sent another  *)
(* one, and none of them twice.                                            *)
OvertakenOnce(last, n, p) ==
    MAX_AGE > Sched!Patience(n) /\ p > Overdue(n) =>
        Cardinality(SentWithin(last, n, p - Overdue(n))) >= p - Overdue(n)

SchedIInv ==
    /\ SchedTypeOK
    /\ \A n \in Sched!Ids : passedOver[n] > 0 => lastSent[n] >= passedOver[n]
    /\ \A n \in Sched!Ids : OvertakenOnce(lastSent, n, passedOver[n])

(* Those sent within some ticks are not all.                               *)
LEMMA NotAll ==
    ASSUME NEW last, NEW n \in Sched!Ids, NEW k
    PROVE  /\ SentWithin(last, n, k) \in SUBSET Sched!Ids
           /\ Cardinality(SentWithin(last, n, k)) \in Nat
           /\ Cardinality(SentWithin(last, n, k)) <= Cardinality(Sched!Ids) - 1
<1>1. SentWithin(last, n, k) \in SUBSET (Sched!Ids \ {n})
  BY DEF SentWithin
<1>2. IsFiniteSet(Sched!Ids \ {n}) /\ Cardinality(Sched!Ids \ {n}) = Cardinality(Sched!Ids) - 1
  BY IdsAre, FS_RemoveElement
<1>3. Cardinality(SentWithin(last, n, k)) <= Cardinality(Sched!Ids \ {n})
  BY <1>1, <1>2, FS_Subset
<1> QED
  BY <1>1, <1>2, <1>3, IdsAre

(* The bound follows.                                                      *)
LEMMA NotStarved == ASSUME SchedIInv PROVE Sched!KnownNotStarved
<1> SUFFICES ASSUME NEW n \in Sched!Ids PROVE passedOver[n] <= Sched!Patience(n)
  BY DEF Sched!KnownNotStarved
<1>1. passedOver[n] \in 0 .. MAX_AGE /\ OvertakenOnce(lastSent, n, passedOver[n])
  BY DEF SchedIInv, SchedTypeOK
<1>2. /\ Overdue(n) \in Int /\ Cardinality(Sched!Ids) \in Nat
      /\ Sched!Patience(n) = Overdue(n) + Cardinality(Sched!Ids)
  BY OverdueIs, IdsAre
<1>3. CASE ~(MAX_AGE > Sched!Patience(n))
  BY <1>1, <1>2, <1>3, SchedulerAssumption
<1>4. CASE MAX_AGE > Sched!Patience(n) /\ passedOver[n] > Overdue(n)
  <2>1. PICK c \in Nat : /\ c = Cardinality(SentWithin(lastSent, n, passedOver[n] - Overdue(n)))
                         /\ c <= Cardinality(Sched!Ids) - 1
    BY NotAll
  <2>2. c >= passedOver[n] - Overdue(n)
    BY <1>1, <1>4, <2>1 DEF OvertakenOnce
  <2> QED
    BY <1>1, <1>2, <2>1, <2>2
<1>5. CASE ~(passedOver[n] > Overdue(n))
  BY <1>1, <1>2, <1>5
<1> QED
  BY <1>3, <1>4, <1>5

LEMMA LeastOf == \A a, b \in Nat : Sched!Min({a, b}) = IF a <= b THEN a ELSE b
<1> SUFFICES ASSUME NEW a \in Nat, NEW b \in Nat
             PROVE  Sched!Min({a, b}) = IF a <= b THEN a ELSE b
  OBVIOUS
<1>1. PICK S : S = {a, b}
  OBVIOUS
<1>2. PICK m \in S : m = (IF a <= b THEN a ELSE b) /\ \A y \in S : m <= y
  BY <1>1
<1>3. Sched!Min(S) \in S /\ \A y \in S : Sched!Min(S) <= y
  BY <1>2 DEF Sched!Min
<1> QED
  BY <1>1, <1>2, <1>3

(* A tick: what is sent is fresh, all else ages.                           *)
LEMMA TickKeeps ==
    ASSUME SchedIInv, NEW changed \in SUBSET Sched!Ids, NEW arrives \in BOOLEAN,
           Sched!BuildClientSnapshot(changed, arrives)
    PROVE  SchedIInv'
<1>1. PICK cands \in SUBSET Sched!Ids : cands = lacked \cup changed
  BY DEF SchedIInv, SchedTypeOK
<1>2. PICK sent : sent = Sched!ScheduleClient(cands)
  OBVIOUS
<1>3. sent \subseteq cands
  BY <1>2 DEF Sched!ScheduleClient
<1>4. /\ lastSent' = [n \in Sched!Ids |-> IF n \in sent THEN 0
                                          ELSE IF lastSent[n] = Sched!NEVER THEN Sched!NEVER
                                          ELSE Sched!Min({lastSent[n] + 1, MAX_AGE})]
      /\ lacked' = IF arrives THEN cands \ sent ELSE cands
      /\ passedOver' = [n \in Sched!Ids |-> IF n \in cands \ sent /\ lastSent[n] # Sched!NEVER
                                            THEN Sched!Min({passedOver[n] + 1, MAX_AGE}) ELSE 0]
  BY <1>1, <1>2 DEF Sched!BuildClientSnapshot
<1>5. SchedTypeOK /\ MAX_AGE \in Nat
  BY SchedulerAssumption DEF SchedIInv
<1>6. \A n \in Sched!Ids : /\ lastSent[n] \in 0 .. MAX_AGE \cup {-1} /\ passedOver[n] \in 0 .. MAX_AGE
                           /\ (passedOver[n] > 0 => lastSent[n] >= passedOver[n])
  BY DEF SchedIInv, SchedTypeOK, Sched!NEVER
<1>7. \A n \in Sched!Ids :
          lastSent'[n] = IF n \in sent THEN 0
                         ELSE IF lastSent[n] = -1 THEN -1
                         ELSE IF lastSent[n] + 1 <= MAX_AGE THEN lastSent[n] + 1 ELSE MAX_AGE
  <2> SUFFICES ASSUME NEW n \in Sched!Ids
               PROVE  lastSent'[n] = IF n \in sent THEN 0
                                     ELSE IF lastSent[n] = -1 THEN -1
                                     ELSE IF lastSent[n] + 1 <= MAX_AGE THEN lastSent[n] + 1 ELSE MAX_AGE
    OBVIOUS
  <2>1. lastSent[n] # -1 => lastSent[n] + 1 \in Nat
    BY <1>5, <1>6
  <2> QED
    BY <1>4, <1>5, <2>1, LeastOf DEF Sched!NEVER
<1>8. \A n \in Sched!Ids :
          passedOver'[n] = IF n \in cands \ sent /\ lastSent[n] # -1
                           THEN IF passedOver[n] + 1 <= MAX_AGE THEN passedOver[n] + 1 ELSE MAX_AGE
                           ELSE 0
  <2> SUFFICES ASSUME NEW n \in Sched!Ids
               PROVE  passedOver'[n] = IF n \in cands \ sent /\ lastSent[n] # -1
                                       THEN IF passedOver[n] + 1 <= MAX_AGE THEN passedOver[n] + 1
                                                                            ELSE MAX_AGE
                                       ELSE 0
    OBVIOUS
  <2>1. passedOver[n] + 1 \in Nat
    BY <1>5, <1>6
  <2> QED
    BY <1>4, <1>5, <2>1, LeastOf DEF Sched!NEVER
<1>9. SchedTypeOK'
  <2>1. \A n \in Sched!Ids : lastSent'[n] \in 0 .. MAX_AGE \cup {-1} /\ passedOver'[n] \in 0 .. MAX_AGE
    BY <1>5, <1>6, <1>7, <1>8
  <2> QED
    BY <1>3, <1>4, <2>1 DEF SchedTypeOK, Sched!NEVER
<1>10. \A n \in Sched!Ids : passedOver'[n] > 0 => lastSent'[n] >= passedOver'[n]
  BY <1>5, <1>6, <1>7, <1>8
<1>11. ASSUME NEW n \in Sched!Ids, MAX_AGE > Sched!Patience(n), passedOver'[n] > Overdue(n)
       PROVE  Cardinality(SentWithin(lastSent', n, passedOver'[n] - Overdue(n)))
                  >= passedOver'[n] - Overdue(n)
  <2>1. PICK N \in Nat : /\ N = Cardinality(Sched!Ids) /\ Overdue(n) \in Int /\ Overdue(n) >= N
                         /\ Sched!Patience(n) = Overdue(n) + N
    BY OverdueIs, IdsAre
  <2>2. passedOver[n] <= Sched!Patience(n)
    BY NotStarved DEF Sched!KnownNotStarved
  <2>3. /\ n \in cands \ sent /\ lastSent[n] \in Nat
        /\ passedOver'[n] = passedOver[n] + 1 /\ passedOver[n] >= Overdue(n)
    BY <1>5, <1>6, <1>8, <1>11, <2>1, <2>2
  <2>4. PICK k \in Nat : k = passedOver[n] - Overdue(n)
    BY <1>6, <2>1, <2>3
  <2>5. PICK F : F = SentWithin(lastSent, n, k)
    OBVIOUS
  <2>6. IsFiniteSet(F) /\ F \in SUBSET Sched!Ids /\ Cardinality(F) \in Nat /\ Cardinality(F) <= N - 1
    BY <2>1, <2>5, NotAll, IdsAre
  <2>7. Cardinality(F) >= k
    <3>1. CASE k = 0
      BY <2>6, <3>1
    <3>2. CASE k # 0
      <4>1. passedOver[n] > Overdue(n)
        BY <1>6, <2>1, <2>4, <3>2
      <4>2. OvertakenOnce(lastSent, n, passedOver[n])
        BY DEF SchedIInv
      <4> QED
        BY <1>11, <2>4, <2>5, <4>1, <4>2 DEF OvertakenOnce
    <3> QED
      BY <3>1, <3>2
  <2>8. PICK s \in sent : TRUE
    <3>1. cands # {}
      BY <2>3
    <3> QED
      BY <1>2, <1>5, <3>1, SomeIsSent
  <2>9. lastSent[s] >= N
    <3>1. lastSent[n] >= Overdue(n)
      BY <1>6, <2>1, <2>3
    <3>2. n \in cands \ Sched!ScheduleClient(cands) /\ s \in Sched!ScheduleClient(cands)
      BY <1>2, <2>3
    <3> QED
      BY <1>5, <2>1, <2>3, <3>1, <3>2, OverdueComesFirst
  <2>10. s \in Sched!Ids /\ s # n /\ s \notin F
    <3>1. s \in Sched!Ids /\ s # n
      BY <1>3, <2>3
    <3>2. s \in F => lastSent[s] \in 0 .. k - 1
      BY <2>5 DEF SentWithin
    <3> QED
      BY <2>6, <2>7, <2>9, <3>1, <3>2
  <2>11. PICK G : G = SentWithin(lastSent', n, k + 1)
    OBVIOUS
  <2>12. F \cup {s} \in SUBSET G
    <3>1. k + 1 - 1 = k
      OBVIOUS
    <3>2. G = { m \in Sched!Ids \ {n} : lastSent'[m] \in 0 .. k }
      BY <2>11, <3>1 DEF SentWithin
    <3>3. lastSent'[s] = 0
      BY <1>7, <2>10
    <3>4. \A m \in F : m \in Sched!Ids \ {n} /\ lastSent[m] \in 0 .. k - 1
      BY <2>5 DEF SentWithin
    <3>5. \A m \in F : lastSent'[m] \in 0 .. k
      BY <1>5, <1>6, <1>7, <3>4
    <3> QED
      BY <2>4, <2>10, <3>2, <3>3, <3>4, <3>5
  <2>13. IsFiniteSet(G) /\ Cardinality(G) \in Nat
    BY <2>11, NotAll, IdsAre
  <2>14. Cardinality(F \cup {s}) = Cardinality(F) + 1
    BY <2>6, <2>10, FS_AddElement
  <2>15. Cardinality(F \cup {s}) <= Cardinality(G)
    BY <2>12, <2>13, FS_Subset
  <2>16. passedOver'[n] - Overdue(n) = k + 1
    BY <1>6, <2>1, <2>3, <2>4
  <2> QED
    BY <2>6, <2>7, <2>11, <2>13, <2>14, <2>15, <2>16
<1>12. \A n \in Sched!Ids : OvertakenOnce(lastSent', n, passedOver'[n])
  BY <1>11 DEF OvertakenOnce
<1>13. \A n \in Sched!Ids : OvertakenOnce(lastSent, n, passedOver[n])'
  BY <1>12 DEF OvertakenOnce, SentWithin, Overdue, Sched!Patience, Sched!Ids
<1> QED
  BY <1>9, <1>10, <1>13 DEF SchedIInv, Sched!Ids

(* An entity the client knows and lacks an update of is sent again within  *)
(* a bounded time, whatever else changes and whatever is lost              *)
(* (SnapshotScheduler.h, ScheduleClient).                                  *)
THEOREM KnownIsNotStarved == PartsSpec => []KnownNotStarved
<1>1. PartsInit => SchedIInv
  <2> SUFFICES ASSUME PartsInit PROVE SchedIInv
    OBVIOUS
  <2>1. /\ lastSent = [n \in Sched!Ids |-> -1] /\ lacked = {}
        /\ passedOver = [n \in Sched!Ids |-> 0]
    BY DEF PartsInit, Sched!SchedInit, Sched!NEVER
  <2>2. SchedTypeOK
    BY <2>1, SchedulerAssumption DEF SchedTypeOK, Sched!NEVER
  <2>3. \A n \in Sched!Ids : Overdue(n) \in Int /\ Overdue(n) >= 0
    BY OverdueIs, IdsAre
  <2>4. \A n \in Sched!Ids : passedOver[n] = 0 /\ ~(passedOver[n] > Overdue(n))
    BY <2>1, <2>3
  <2> QED
    BY <2>2, <2>4 DEF SchedIInv, OvertakenOnce
<1>2. SchedIInv /\ [PartsNext]_partVars => SchedIInv'
  <2> SUFFICES ASSUME SchedIInv, [PartsNext]_partVars PROVE SchedIInv'
    OBVIOUS
  <2>1. CASE \E changed \in SUBSET Sched!Ids, arrives \in BOOLEAN :
                 Sched!BuildClientSnapshot(changed, arrives)
    BY <2>1, TickKeeps
  <2>2. CASE UNCHANGED schedVars
    BY <2>2 DEF schedVars, SchedIInv, SchedTypeOK, OvertakenOnce, SentWithin, Overdue,
                Sched!Patience, Sched!Ids
  <2> QED
    BY <2>1, <2>2 DEF PartsNext, partVars, Sched!SchedNext
<1>3. SchedIInv => KnownNotStarved
  BY NotStarved DEF KnownNotStarved
<1> QED
  BY <1>1, <1>2, <1>3, PTL DEF PartsSpec
=============================================================================
