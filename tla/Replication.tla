---------------------------- MODULE Replication -----------------------------
(***************************************************************************)
(* Delta replication of the universe to one client, over the unreliable    *)
(* channel:                                                                *)
(*   ServerUniverse::Step / StampReplication / UpdateInterest: versions    *)
(*     and interest after each tick;                                       *)
(*   BuildClientSnapshot / RecordClientSnapshotSent / AckClient with       *)
(*     ClientBaseline (Interest.h), ClientKnownState and ScheduleClient    *)
(*     (SnapshotScheduler.h), MakeDeltaRecord and BuildBudgetedSnapshot    *)
(*     (Snapshot.h);                                                       *)
(*   DeltaDecodeState at the client (Snapshot.h).                          *)
(* The sets and maps of one client do not depend on another client's, so   *)
(* one client is enough.                                                   *)
(*                                                                         *)
(* An entity's replicated state has a sector, a position inside it, its    *)
(* hit points and its look (shape, owner and kind, which do not change).   *)
(* The order the priority function gives the records is any order, since   *)
(* it depends on distances, relations and staleness not kept here.         *)
(*                                                                         *)
(* No client of this repository sends the snapshot ack yet: the server's   *)
(* ServerHost.h:442-444 says it is "wired when the client emits it".  The  *)
(* ack is modelled as that comment and the tests use AckClient: the client *)
(* acknowledges the tick of each snapshot it applies.                      *)
(***************************************************************************)
(***************************************************************************)
(* NeuronCore/Interest.h, class InterestGrid: the publish/subscribe grid   *)
(* that decides which entities a player is told about.  Entities reside in *)
(* a sector cell; players subscribe to cells; a warp pins its destination  *)
(* until the player's sensors reach it.                                    *)
(*                                                                         *)
(* The grid is a value, changed by the operators below, because one step   *)
(* of the simulation makes many grid calls.  It is the record              *)
(*   cells        m_cells: cell -> [residents, subscribers], sorted vectors *)
(*                kept as sets; an empty cell is pruned from the map       *)
(*   entitySector m_entitySector: net id -> cell                           *)
(*   playerSubs   m_playerSubs: player -> cells                            *)
(*   playerPin    m_playerPin: player -> cells                             *)
(* Maps are functions whose DOMAIN is the set of keys present.             *)
(***************************************************************************)
EXTENDS Integers, SequencesExt

\* A map without one key, with a value at one key, and the value at a key or
\* a default.
Erase(f, key) == Restrict(f, DOMAIN f \ {key})
With(f, key, value) ==
    [k \in DOMAIN f \cup {key} |-> IF k = key THEN value ELSE f[k]]
ValueOr(f, key, default) == IF key \in DOMAIN f THEN f[key] ELSE default

EmptyMap == [key \in {} |-> {}]

EmptyGrid ==
    [ cells        |-> EmptyMap,
      entitySector |-> EmptyMap,
      playerSubs   |-> EmptyMap,
      playerPin    |-> EmptyMap ]

EmptyCell == [residents |-> {}, subscribers |-> {}]

-----------------------------------------------------------------------------
(* Cells.  Sectors lie on a line here instead of in space: a neighbourhood *)
(* is the sectors at most `radius' away.                                   *)

CollectNeighbourhood(center, radius) ==
    LET r == IF radius < 0 THEN 0 ELSE radius
    IN  (center - r) .. (center + r)

CellAt(g, s) == ValueOr(g.cells, s, EmptyCell)

\* The cells with R(s) residents and S(s) subscribers in s.  What enters a
\* cell makes it if need be; a cell somebody left is erased if it is empty.
Relisted(cells, left, entered, R(_), S(_)) ==
    LET emptied == {s \in left : R(s) = {} /\ S(s) = {}}
    IN  [s \in (DOMAIN cells \cup entered) \ emptied |-> [residents |-> R(s), subscribers |-> S(s)]]

-----------------------------------------------------------------------------
(* Residency.  One operator changes the residency of many entities: what   *)
(* one call leaves and enters does not depend on the others.               *)

\* `leaving' leave their cells, and every n of `home' enters home[n].
Rehome(g, leaving, home) ==
    LET es == g.entitySector
        Residents(s) ==
            (CellAt(g, s).residents \ {n \in leaving : es[n] = s})
            \cup {n \in DOMAIN home : home[n] = s}
        Same(s) == CellAt(g, s).subscribers
    IN  [g EXCEPT
            !.cells = Relisted(@, {es[n] : n \in leaving}, {home[n] : n \in DOMAIN home},
                               Residents, Same),
            !.entitySector = [n \in (DOMAIN es \ leaving) \cup DOMAIN home |->
                                 IF n \in DOMAIN home THEN home[n] ELSE es[n]]]

\* The calls of one tick: a crossing is one leave and one enter, the first
\* residency an enter only, an unchanged sector neither.
UpdateResidency(g, w) ==
    LET es == g.entitySector
        moved == {n \in DOMAIN w : n \in DOMAIN es => es[n] # w[n].sec}
    IN  Rehome(g, moved \cap DOMAIN es, [n \in moved |-> w[n].sec])

\* Despawn or destruction.
RemoveEntity(g, netId) == Rehome(g, {netId} \cap DOMAIN g.entitySector, EmptyMap)

-----------------------------------------------------------------------------
(* Subscriptions.                                                          *)

Subscriptions(g, p) == ValueOr(g.playerSubs, p, {})
Pins(g, p) == ValueOr(g.playerPin, p, {})

\* Moves the subscription of p to exactly target.
ApplyTarget(g, p, target) ==
    LET cur == Subscriptions(g, p)
        Same(s) == CellAt(g, s).residents
        Subscribers(s) ==
            (CellAt(g, s).subscribers \ (IF s \in cur \ target THEN {p} ELSE {}))
            \cup (IF s \in target \ cur THEN {p} ELSE {})
    IN  [g EXCEPT
            !.cells = Relisted(@, cur \ target, target \ cur, Same, Subscribers),
            !.playerSubs = With(@, p, target)]

\* Warp or jump prefetch: the destination cells are pinned and subscribed.
PreSubscribe(g, p, center, radius) ==
    LET cells == CollectNeighbourhood(center, radius)
    IN  [ApplyTarget(g, p, Subscriptions(g, p) \cup cells) EXCEPT
            !.playerPin = With(@, p, Pins(g, p) \cup cells)]

\* A pin the new neighbourhood covers has arrived and is dropped; the other
\* pins are added to what the sensors reach.
SetSubscription(g, p, cells) ==
    LET still == Pins(g, p) \ cells
        unpinned == [g EXCEPT !.playerPin =
                        IF still = {} THEN Erase(@, p) ELSE With(@, p, still)]
    IN  ApplyTarget(unpinned, p, cells \cup still)

\* The entities residing in the cells p subscribes to.
VisibleTo(g, p) ==
    UNION { CellAt(g, s).residents : s \in Subscriptions(g, p) }

-----------------------------------------------------------------------------
\* The per-cell lists say the same as the two maps they index: an entity is
\* listed in the one cell it resides in, a player in exactly the cells it
\* subscribes to, an empty cell is not kept, and a pin is always subscribed.
GridConsistent(g) ==
    /\ \A s \in DOMAIN g.cells : g.cells[s] # EmptyCell
    /\ \A s \in DOMAIN g.cells :
          /\ g.cells[s].residents =
                {n \in DOMAIN g.entitySector : g.entitySector[n] = s}
          /\ g.cells[s].subscribers =
                {p \in DOMAIN g.playerSubs : s \in g.playerSubs[p]}
    /\ \A n \in DOMAIN g.entitySector : g.entitySector[n] \in DOMAIN g.cells
    /\ \A p \in DOMAIN g.playerSubs : g.playerSubs[p] \subseteq DOMAIN g.cells
    /\ \A p \in DOMAIN g.playerPin : g.playerPin[p] \subseteq Subscriptions(g, p)
-----------------------------------------------------------------------------

CONSTANTS
    NetIds,         \* net ids the universe may hand out
    Base,           \* the client's base, whose sensors make the subscription
    Forms,          \* net id -> the states the simulation may put it in
    SENSOR_CELLS,   \* SectorRadiusForRange of the base's sensor
    TravelDests,    \* sectors a warp or jump of the client may name
    BUDGETS,        \* byte budgets a snapshot may have, one for a whole run
    VISIBLE_CAP,    \* m_visibleCap
    MAX_PENDING,    \* unacked snapshots a baseline remembers, 64 in the code
    MAX_TICK,       \* bound on the ticks of a run
    MAX_LOST        \* bound on the snapshots and acks the network loses

\* 0xFFFFFFFF in the code, a tick no run reaches; here a value that is no tick.
UNSENT == -1

ASSUME ReplicationAssumption ==
    /\ Base \in NetIds
    /\ NetIds \subseteq Nat /\ IsFiniteSet(NetIds)
    /\ Forms \in [NetIds -> SUBSET [sec : Int, q : Int, hp : Int, look : STRING]]
    /\ TravelDests \subseteq Int /\ SENSOR_CELLS \in Int
    /\ BUDGETS \subseteq Nat /\ VISIBLE_CAP \in Nat
    /\ MAX_PENDING \in Nat \ {0}
    /\ MAX_TICK \in Nat
    /\ MAX_LOST \in Nat

VARIABLES
    m_tick,       \* simulation tick
    stepped,      \* a Step was made since the last broadcast
    world,        \* live net ids -> replicated state
    gone,         \* net ids that were destroyed; ids are never reused
    m_repl,       \* ReplicationStamps: net id -> [version, last]
    m_interest,   \* InterestGrid
    baseline,     \* ClientBaseline: acked, pending, tombstones
    known,        \* ClientKnownState: base, pending
    snapshots,    \* snapshots in flight to the client
    acks,         \* acks in flight to the server
    decode,       \* DeltaDecodeState: entities, lastTick
    byteBudget,   \* budget of every snapshot of this run
    lost,         \* snapshots and acks lost so far
    spilled,      \* history: the budget, the cap or MAX_PENDING left something out
    overlapped    \* history: a snapshot was built before the one before it
                  \* was delivered and its ack folded in

simVars == <<m_tick, stepped, world, gone, m_repl, m_interest>>
sentVars == <<baseline, known>>
netVars == <<snapshots, acks, lost>>
history == <<spilled, overlapped>>
vars == <<simVars, sentVars, netVars, decode, byteBudget, history>>

Client == Base    \* a client is named by the net id of its base

EmptyBaseline == [acked |-> EmptyMap, pending |-> EmptyMap, tombstones |-> EmptyMap]
EmptyKnown == [base |-> EmptyMap, pending |-> EmptyMap]

\* SnapshotEntity as value-initialised: position zero, no hit points, no shape.
DefaultEntity == [sec |-> 0, q |-> 0, hp |-> 0, look |-> "none"]

Init ==
    /\ m_tick = 0 /\ stepped = FALSE
    /\ \E st \in Forms[Base] : world = [n \in {Base} |-> st]
    /\ gone = {} /\ m_repl = EmptyMap /\ m_interest = EmptyGrid
    /\ baseline = EmptyBaseline /\ known = EmptyKnown
    /\ snapshots = {} /\ acks = {} /\ lost = 0
    /\ decode = [entities |-> EmptyMap, lastTick |-> EmptyMap]
    /\ byteBudget \in BUDGETS
    /\ spilled = FALSE /\ overlapped = FALSE

-----------------------------------------------------------------------------
(* Simulation: versions and interest.                                      *)

\* A version advances iff the replicated fields changed; an entity seen for
\* the first time starts at 1.
Stamp(stamps, netId, cur) ==
    IF netId \notin DOMAIN stamps THEN [version |-> 1, last |-> cur]
    ELSE IF stamps[netId].last # cur
         THEN [version |-> stamps[netId].version + 1, last |-> cur]
         ELSE stamps[netId]

StampReplication(stamps, w) ==
    [n \in DOMAIN w \cup DOMAIN stamps |->
        IF n \in DOMAIN w THEN Stamp(stamps, n, w[n]) ELSE stamps[n]]

\* Every entity is re-homed; then the subscription of a player with a sensor
\* is set from where the sensor now is.
UpdateInterest(g, w) ==
    LET homed == UpdateResidency(g, w)
    IN  IF Base \in DOMAIN w
        THEN SetSubscription(homed, Client,
                             CollectNeighbourhood(w[Base].sec, SENSOR_CELLS))
        ELSE homed

\* The end of ServerUniverse::Step, from the world, grid and stamps its systems
\* and the commands applied before it left.  Nothing reads the world between
\* a command and the step that follows it, so both are one action.
Step(w, g, stamps) ==
    /\ m_tick < MAX_TICK
    /\ m_tick' = m_tick + 1
    /\ stepped' = TRUE
    /\ world' = w
    /\ m_repl' = StampReplication(stamps, w)
    /\ m_interest' = UpdateInterest(g, w)
    /\ UNCHANGED <<sentVars, netVars, decode, byteBudget, history>>

\* An entity moves, is hit or is repaired, or nothing changes.
Simulate ==
    /\ \E n \in DOMAIN world : \E st \in Forms[n] :
          Step([world EXCEPT ![n] = st], m_interest, m_repl)
    /\ UNCHANGED gone

\* A ship or a base enters the world.
Spawn(n) ==
    /\ n \notin DOMAIN world \cup gone
    /\ \E st \in Forms[n] : Step(With(world, n, st), m_interest, m_repl)
    /\ UNCHANGED gone

\* DestroyUnit or DespawnBase: the entity leaves the world, the grid and the
\* stamps.  The client's own base stays as long as the client.
Despawn(n) ==
    /\ n \in DOMAIN world \ {Base}
    /\ Step(Erase(world, n), RemoveEntity(m_interest, n), Erase(m_repl, n))
    /\ gone' = gone \cup {n}

\* The start of a warp or jump pins the destination; bounded to one pinned
\* destination at a time.
PrefetchTravelInterest ==
    /\ Client \notin DOMAIN m_interest.playerPin
    /\ \E dest \in TravelDests :
          Step(world, PreSubscribe(m_interest, Client, dest, SENSOR_CELLS), m_repl)
    /\ UNCHANGED gone

-----------------------------------------------------------------------------
(* What the client lacks, and the records that say it.                     *)

Visible == VisibleTo(m_interest, Client)

Version(n) == IF n \in DOMAIN m_repl THEN m_repl[n].version ELSE 0

Needs(n) == Version(n) > ValueOr(baseline.acked, n, 0)

ChangedFor == {n \in Visible : Needs(n)}

\* The fields that differ from what the client is believed to hold; all of
\* them at first sight.  A sector change sends the position again.
DeltaMask(n) ==
    LET cur == world[n]
        base == known.base[n]
        crossed == cur.sec # base.sec
    IN  IF n \notin DOMAIN known.base
        THEN {"sec", "pos", "hp", "look"}
        ELSE UNION { IF crossed THEN {"sec"} ELSE {},
                     IF crossed \/ cur.q # base.q THEN {"pos"} ELSE {},
                     IF cur.hp # base.hp THEN {"hp"} ELSE {},
                     IF cur.look # base.look THEN {"look"} ELSE {} }

MakeDeltaRecord(n) == [netId |-> n, mask |-> DeltaMask(n), st |-> world[n]]

Tomb(n) == [netId |-> n, mask |-> {"tomb"}, st |-> DefaultEntity]

\* DeltaRecordBits and DELTA_HEADER_BITS; a record without a field is skipped.
FieldBits == [sec |-> 96, pos |-> 60, hp |-> 32, look |-> 56, tomb |-> 0]
DeltaRecordBits(r) ==
    IF r.mask = {} THEN 0 ELSE 40 + FoldSet(LAMBDA f, acc : acc + FieldBits[f], 0, r.mask)

SnapshotBits(records) ==
    80 + FoldLeft(LAMBDA acc, r : acc + DeltaRecordBits(r), 0, records)

\* The first n records are the longest prefix that fits the byte budget; the
\* rest spill.
Fits(ordered, n) == (SnapshotBits(SubSeq(ordered, 1, n)) + 7) \div 8 <= byteBudget
FillsBudget(ordered, n) ==
    /\ n = 0 \/ Fits(ordered, n)
    /\ \A k \in n + 1 .. Len(ordered) : ~Fits(ordered, k)
BuildBudgetedSnapshot(ordered, n) == {r \in ToSet(SubSeq(ordered, 1, n)) : r.mask # {}}

\* The first VISIBLE_CAP candidates in priority order; 0 is no cap.
ScheduleClient(ranked) ==
    IF VISIBLE_CAP = 0 \/ Len(ranked) <= VISIBLE_CAP
    THEN ranked
    ELSE SubSeq(ranked, 1, VISIBLE_CAP)

-----------------------------------------------------------------------------
(* ClientBaseline and ClientKnownState.                                    *)

\* TombstonesFor: what the client acked and no longer sees is tombstoned and
\* its delta base forgotten; what it sees is not a tombstone.
Departed == DOMAIN baseline.acked \ Visible

Tombstone(b) ==
    [b EXCEPT !.acked = Restrict(@, DOMAIN @ \ Departed),
              !.tombstones = [n \in DOMAIN @ \cup Departed |-> ValueOr(@, n, UNSENT)]]

Untombstone(b) ==
    [b EXCEPT !.tombstones = Restrict(@, DOMAIN @ \ Visible)]

TombstonesFor == Untombstone(Tombstone(baseline))

\* Mutant: the delta base survives the tombstone.
ForgetNothing == known

ForgetDeparted == [known EXCEPT !.base = Restrict(@, DOMAIN @ \ Departed)]

\* Only the newest MAX_PENDING unacked snapshots stay on record.
Excess(ticks) == {t \in ticks : Cardinality({u \in ticks : u > t}) >= MAX_PENDING}
RecordSent(pending, entry) ==
    IF DOMAIN entry = {} THEN pending
    ELSE LET all == With(pending, m_tick, entry)
         IN  Restrict(all, DOMAIN all \ Excess(DOMAIN all))

\* Mutant: a tombstone is dropped once sent instead of once acknowledged.
DropTombstonesSent(tombstones, netIds) == Restrict(tombstones, DOMAIN tombstones \ netIds)

\* The earliest tick that carried a tombstone is kept.
RecordTombstonesSent(tombstones, netIds) ==
    [n \in DOMAIN tombstones |->
        IF n \in netIds /\ tombstones[n] = UNSENT THEN m_tick ELSE tombstones[n]]

\* Every snapshot up to the acked tick is folded in, newest last.
Folded(pending, tick) == {t \in DOMAIN pending : t <= tick}

\* Mutant: an ack advances to the current version instead of the one sent.
AckedVersionNow(b, tick, n) == Version(n)

AckedVersion(b, tick, n) ==
    Max({ValueOr(b.acked, n, 0)} \cup
        {b.pending[t][n] : t \in {u \in Folded(b.pending, tick) :
                                     n \in DOMAIN b.pending[u]}})

AckBaseline(b, tick) ==
    LET folded == Folded(b.pending, tick)
        netIds == UNION {DOMAIN b.pending[t] : t \in folded}
    IN  [ acked      |-> [n \in DOMAIN b.acked \cup netIds |-> AckedVersion(b, tick, n)],
          pending    |-> Restrict(b.pending, DOMAIN b.pending \ folded),
          tombstones |-> RestrictValues(b.tombstones,
                                        LAMBDA sent : sent = UNSENT \/ sent > tick) ]

AckKnown(k, tick) ==
    LET folded == Folded(k.pending, tick)
        carrying(n) == {t \in folded : n \in DOMAIN k.pending[t]}
        netIds == UNION {DOMAIN k.pending[t] : t \in folded}
    IN  [ base    |-> [n \in DOMAIN k.base \cup netIds |->
                          IF n \in netIds THEN k.pending[Max(carrying(n))][n]
                                          ELSE k.base[n]],
          pending |-> Restrict(k.pending, DOMAIN k.pending \ folded) ]

-----------------------------------------------------------------------------
(* The server's broadcast, the network and the client.                     *)

\* RecordClientSnapshotSent: what the snapshot carried is staged for its ack.
Live(sent) == {r.netId : r \in {x \in sent : "tomb" \notin x.mask}}
Tombs(sent) == {r.netId : r \in {x \in sent : "tomb" \in x.mask}}
RecordClientSnapshotSent(sent) ==
    /\ baseline' =
          [TombstonesFor EXCEPT
              !.pending = RecordSent(@, [n \in Live(sent) |-> Version(n)]),
              !.tombstones = RecordTombstonesSent(@, Tombs(sent))]
    /\ known' =
          [ForgetDeparted EXCEPT
              !.pending = RecordSent(@, [n \in Live(sent) |-> world[n]])]

\* An earlier snapshot is not settled: in flight, or its ack not folded in.
Unsettled ==
    \/ snapshots # {} \/ acks # {}
    \/ baseline.pending # EmptyMap
    \/ \E n \in DOMAIN baseline.tombstones : baseline.tombstones[n] # UNSENT

\* The records in the order of their priority, then the pending tombstones
\* in the order of their net ids.
Ascending(S) == {q \in SetToSeqs(S) : \A i, j \in DOMAIN q : i < j => q[i] < q[j]}
OrderedRecords(ranked, tombs) ==
    LET chosen == ScheduleClient(ranked)
    IN  [i \in 1 .. Len(chosen) |-> MakeDeltaRecord(chosen[i])]
        \o [i \in 1 .. Len(tombs) |-> Tomb(tombs[i])]

\* A snapshot of the first n records, and whether something is left out of it
\* or will be left out of what is remembered of it.
BuildClientSnapshot(ranked, tombs, n) ==
    BuildBudgetedSnapshot(OrderedRecords(ranked, tombs), n)

Spills(ranked, tombs, n) ==
    \/ ScheduleClient(ranked) # ranked
    \/ n # Len(OrderedRecords(ranked, tombs))
    \/ /\ Live(BuildClientSnapshot(ranked, tombs, n)) # {}
       /\ Excess(DOMAIN baseline.pending \cup {m_tick}) # {}

\* BroadcastSnapshots for the client, after at least one step: build, seal,
\* send and record.  An empty snapshot is sent too.
Broadcast ==
    /\ stepped
    /\ \E ranked \in SetToSeqs(ChangedFor \cap DOMAIN world),
          tombs \in Ascending(DOMAIN TombstonesFor.tombstones) :
          \E n \in 0 .. Len(OrderedRecords(ranked, tombs)) :
             LET sent == BuildClientSnapshot(ranked, tombs, n)
             IN  /\ FillsBudget(OrderedRecords(ranked, tombs), n)
                 /\ RecordClientSnapshotSent(sent)
                 /\ snapshots' = snapshots \cup {[tick |-> m_tick, records |-> sent]}
                 /\ spilled' = (spilled \/ Spills(ranked, tombs, n))
    /\ stepped' = FALSE
    /\ overlapped' = (overlapped \/ Unsettled)
    /\ UNCHANGED <<m_tick, world, gone, m_repl, m_interest, acks, lost, decode, byteBudget>>

\* DeltaDecodeState::ApplyRecord: a record of an older or equal tick is
\* ignored; otherwise the fields the mask names replace the entity's, and a
\* position without its sector is read in the sector the replica is in.
ApplyRecord(old, r) ==
    [ sec  |-> IF "sec" \in r.mask THEN r.st.sec ELSE old.sec,
      q    |-> IF "pos" \in r.mask THEN r.st.q ELSE old.q,
      hp   |-> IF "hp" \in r.mask THEN r.st.hp ELSE old.hp,
      look |-> IF "look" \in r.mask THEN r.st.look ELSE old.look ]

Fresh(s) ==
    {r \in s.records : s.tick > ValueOr(decode.lastTick, r.netId, -1)}

Apply(s) ==
    LET fresh == Fresh(s)
        removed == Tombs(fresh)
        updated == {r.netId : r \in fresh} \ removed
        record(n) == CHOOSE r \in fresh : r.netId = n
        replica(n) == ValueOr(decode.entities, n, DefaultEntity)
    IN  [ entities |-> [n \in (DOMAIN decode.entities \cup updated) \ removed |->
                           IF n \in updated THEN ApplyRecord(replica(n), record(n))
                                            ELSE decode.entities[n]],
          lastTick |-> [n \in DOMAIN decode.lastTick \cup updated \cup removed |->
                           IF n \in updated \cup removed THEN s.tick ELSE decode.lastTick[n]] ]

\* ReplicaManager::Update at the client; the ack carries the snapshot's tick.
Deliver(s) ==
    /\ decode' = Apply(s)
    /\ snapshots' = snapshots \ {s}
    /\ acks' = acks \cup {s.tick}
    /\ UNCHANGED <<simVars, sentVars, lost, byteBudget, history>>

\* AckClient.
AckClient(tick) ==
    /\ baseline' = AckBaseline(baseline, tick)
    /\ known' = AckKnown(known, tick)
    /\ acks' = acks \ {tick}
    /\ UNCHANGED <<simVars, snapshots, lost, decode, byteBudget, history>>

\* The unreliable channel drops a datagram.
Lose ==
    /\ lost < MAX_LOST
    /\ lost' = lost + 1
    /\ \/ \E s \in snapshots : snapshots' = snapshots \ {s} /\ UNCHANGED acks
       \/ \E t \in acks : acks' = acks \ {t} /\ UNCHANGED snapshots
    /\ UNCHANGED <<simVars, sentVars, decode, byteBudget, history>>

Next ==
    \/ Simulate
    \/ \E n \in NetIds : Spawn(n) \/ Despawn(n)
    \/ PrefetchTravelInterest
    \/ Broadcast
    \/ \E s \in snapshots : Deliver(s)
    \/ \E t \in acks : AckClient(t)
    \/ Lose

Spec == Init /\ [][Next]_vars

-----------------------------------------------------------------------------
(* Properties.                                                             *)

States == UNION {Forms[n] : n \in NetIds}

IsMap(f, K, V) == DOMAIN f \subseteq K /\ \A k \in DOMAIN f : f[k] \in V

\* The type of every variable; versions and ticks never exceed the tick.
TypeOK ==
    /\ m_tick \in 0 .. MAX_TICK /\ stepped \in BOOLEAN
    /\ IsMap(world, NetIds, States)
    /\ gone \subseteq NetIds \ DOMAIN world
    /\ IsMap(m_repl, DOMAIN world, [version : 1 .. m_tick, last : States])
    /\ DOMAIN m_interest.entitySector \subseteq DOMAIN world
    /\ IsMap(baseline.acked, NetIds, 1 .. m_tick)
    /\ IsMap(baseline.tombstones, NetIds, 1 .. m_tick \cup {UNSENT})
    /\ DOMAIN baseline.pending = DOMAIN known.pending
    /\ \A t \in DOMAIN baseline.pending :
          IsMap(baseline.pending[t], DOMAIN known.pending[t], 1 .. m_tick)
    /\ IsMap(known.base, NetIds, States)
    /\ DOMAIN decode.entities \subseteq DOMAIN decode.lastTick
    /\ acks \subseteq 1 .. m_tick
    /\ lost \in 0 .. MAX_LOST /\ byteBudget \in BUDGETS
    /\ spilled \in BOOLEAN /\ overlapped \in BOOLEAN

\* The interest grid's two indexes agree at every moment, across sector
\* crossings, despawns and warp pins (Interest.h:210 says VisibleTo is
\* the residents of the subscribed cells).
InterestConsistent == GridConsistent(m_interest)

\* The server still has a reason to tell the client about n.
Tracked(n) ==
    \/ n \in Visible
    \/ n \in DOMAIN baseline.acked
    \/ n \in DOMAIN baseline.tombstones
    \/ \E t \in DOMAIN baseline.pending : n \in DOMAIN baseline.pending[t]

\* No ghosts: an entity the client shows is one the server has not forgotten
\* it shows, so a lost or late leave record is sent again (Interest.h:433-438:
\* "a single lost despawn on the Unreliable channel never leaves a ghost
\* forever").
NothingForgotten == \A n \in DOMAIN decode.entities : Tracked(n)

\* The same for a client whose snapshots always had room for every record and
\* whose unacked ones are all remembered, whatever is lost, reordered or
\* acknowledged late.  Neither is implied: a leave record that never fits is
\* never sent, and what drops out of MAX_PENDING unacked is a ghost when the
\* client got it and it leaves before it is sent again (Interest.h:388-389
\* calls dropping it safe).
NothingForgottenWithRoom == ~spilled => NothingForgotten

\* The server has nothing in flight, nothing pending and nothing to send.
Settled ==
    /\ ~stepped /\ snapshots = {} /\ acks = {}
    /\ DOMAIN baseline.pending = {} /\ DOMAIN baseline.tombstones = {}
    /\ DOMAIN baseline.acked \subseteq Visible
    /\ \A n \in Visible : n \in DOMAIN m_repl /\ (Needs(n) => DeltaMask(n) = {})

\* The client shows every visible entity as the server last stamped it.
UpToDate ==
    \A n \in Visible :
        n \in DOMAIN decode.entities /\ decode.entities[n] = m_repl[n].last

\* When the server has nothing more to say, the client is up to date
\* (SnapshotScheduler.h:115-116: "an un-acked snapshot leaves the base
\* untouched and the next tick re-deltas from it - convergent with no
\* retransmit").
Convergence == Settled => UpToDate

\* The same where each snapshot is delivered and acknowledged before the next
\* one is built, the way the tests drive the pipeline, whatever the budget and
\* the cap spill.
ConvergenceInLockstep == ~overlapped => Convergence

\* In lockstep the delta base the server encodes against is what the client
\* holds, so that a masked record completes the replica.
BaseIsHeld ==
    (~overlapped /\ snapshots = {} /\ acks = {} /\ DOMAIN known.pending = {}) =>
        \A n \in DOMAIN known.base :
            n \in DOMAIN decode.entities /\ decode.entities[n] = known.base[n]

(* The indexes of the interest grid agree, and in lockstep the delta base  *)
(* the server keeps for the client is what the client holds (Interest.h,   *)
(* SnapshotScheduler.h Ack).                                               *)
ReplicationInv == TypeOK /\ InterestConsistent /\ BaseIsHeld
=============================================================================
