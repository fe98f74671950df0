----------------------------- MODULE WarmRestart -----------------------------
(***************************************************************************)
(* Warm restart: ServerUniverse::CaptureState and RestoreState, the blob   *)
(* of WarmRestart.h, SimSnapshotStore, PersistenceThread::SnapshotIfDue    *)
(* and the boot of ERServer.cpp.  The persistence thread captures the      *)
(* universe while the tick thread steps it: a capture is the tick and four *)
(* passes (bases, ships, builds, NPCs), steps of the sim may fall between  *)
(* them, and then comes the watermark and the INSERT.  The process may     *)
(* crash anywhere; a later boot may find the database down or be a build   *)
(* that cannot decode the blob.                                            *)
(*                                                                         *)
(* The sim's step is module Universe's; here it is any one change that a   *)
(* snapshot can tell.  Builds are numbered so that a ship knows which      *)
(* build it came from.                                                     *)
(***************************************************************************)
EXTENDS Naturals, Sequences, FiniteSetsExt, Functions

CONSTANTS Versions,      \* blob versions (Serde's schema version)
          MAX_SIM_TICK,  \* bound on the ticks of a behaviour
          MAX_ROWS,      \* bound on the snapshots saved
          MAX_BOOTS      \* bound on the boots

VARIABLES sim,           \* the universe, or << >> when the process is down
          capturing,     \* CaptureState's pass to do next, "watermark", "save", "none"
          req,           \* the PersistState and history of the capture under way
          SimSnapshots,  \* the table: rows in the order of their SnapshotId
          outboxRows,    \* MAX(OutboxId)
          version,       \* the version the running build writes and reads
          boots,
          coldBoot       \* history: a boot started fresh over existing rows

restartVars == << sim, capturing, req, SimSnapshots, outboxRows, version, boots, coldBoot >>

Down == << >>
Up == sim # Down

NoBuild == [n |-> 0, paid |-> FALSE]
Base(stock, build) == [stock |-> stock, build |-> build]
FreshBase == Base(1, NoBuild)

\* The world of a cold start, once a player has logged in: a base and a ship,
\* two NPCs of the demo site, and a resource node that snapshots leave out.
ColdWorld ==
    [tick |-> 0, next |-> 6, bases |-> [b \in {1} |-> FreshBase],
     ships |-> [s \in {2} |-> [from |-> 0]], npcs |-> [n \in {3, 4} |-> [site |-> 1]],
     nodes |-> {5}, siteAlive |-> [s \in {1} |-> 2], ordered |-> 0]

Init ==
    /\ sim = ColdWorld
    /\ capturing = "none" /\ req = << >>
    /\ SimSnapshots = << >> /\ outboxRows = 0
    /\ version = CHOOSE v \in Versions : TRUE
    /\ boots = 1 /\ coldBoot = FALSE

-----------------------------------------------------------------------------
\* What one tick may do: take an order to build at base b, pay for it, deliver
\* it, kill a guardian (its death is an economy event).
Order(u, b) == [u EXCEPT !.ordered = @ + 1,
                         !.bases[b] = Base(@.stock, [n |-> u.ordered + 1, paid |-> FALSE])]
Pay(u, b) == [u EXCEPT !.bases[b] = Base(@.stock - 1, [n |-> @.build.n, paid |-> TRUE])]
Deliver(u, b) ==
    [u EXCEPT !.bases[b] = Base(@.stock, NoBuild), !.next = @ + 1,
              !.ships = [s \in DOMAIN @ \cup {u.next} |->
                           IF s = u.next THEN [from |-> u.bases[b].build.n] ELSE @[s]]]
Kill(u, n) ==
    [u EXCEPT !.npcs = Restrict(@, DOMAIN @ \ {n}), !.siteAlive[u.npcs[n].site] = @ - 1]

Steps(u) ==
    { Order(u, b) : b \in { c \in DOMAIN u.bases : u.bases[c].build = NoBuild } }
      \cup { Pay(u, b) : b \in { c \in DOMAIN u.bases :
                 u.bases[c].build.n # 0 /\ ~u.bases[c].build.paid /\ u.bases[c].stock > 0 } }
      \cup { Deliver(u, b) : b \in { c \in DOMAIN u.bases : u.bases[c].build.paid } }
      \cup { Kill(u, n) : n \in DOMAIN u.npcs }

Step ==
    /\ Up /\ sim.tick < MAX_SIM_TICK
    /\ \E u \in Steps(sim) :
         /\ sim' = [u EXCEPT !.tick = @ + 1]
         /\ outboxRows' = outboxRows + Cardinality(DOMAIN sim.npcs \ DOMAIN u.npcs)
    /\ UNCHANGED << capturing, req, SimSnapshots, version, boots, coldBoot >>

-----------------------------------------------------------------------------
\* The passes of CaptureState.
PersistBases(u) == [b \in DOMAIN u.bases |-> Base(u.bases[b].stock, NoBuild)]
PersistBuilds(u) == { [owner |-> b, n |-> u.bases[b].build.n] :
                        b \in { c \in DOMAIN u.bases : u.bases[c].build # NoBuild } }
CaptureState(u) ==
    [tick |-> u.tick, bases |-> PersistBases(u), ships |-> u.ships,
     builds |-> PersistBuilds(u), npcs |-> u.npcs]

\* Mutant: the builds are captured before the ships.
BuildsFirst(pass) ==
    CASE pass = "bases" -> "builds" [] pass = "builds" -> "ships"
      [] pass = "ships" -> "npcs" [] pass = "npcs" -> "watermark"

\* The order of the passes.
AfterPass(pass) ==
    CASE pass = "bases" -> "ships" [] pass = "ships" -> "builds"
      [] pass = "builds" -> "npcs" [] pass = "npcs" -> "watermark"

\* SnapshotIfDue: the cadence has elapsed.
BeginCapture ==
    /\ Up /\ capturing = "none" /\ Len(SimSnapshots) < MAX_ROWS
    /\ req' = [state |-> [tick |-> sim.tick, bases |-> << >>, ships |-> << >>, builds |-> {},
                          npcs |-> << >>],
               watermark |-> 0]
    /\ capturing' = "bases"
    /\ UNCHANGED << sim, SimSnapshots, outboxRows, version, boots, coldBoot >>

CapturePass ==
    /\ Up /\ capturing \in {"bases", "ships", "builds", "npcs"}
    /\ req' = [req EXCEPT !.state[capturing] = CaptureState(sim)[capturing]]
    /\ capturing' = AfterPass(capturing)
    /\ UNCHANGED << sim, SimSnapshots, outboxRows, version, boots, coldBoot >>

\* captureFn's MaxOutboxId (0 when the query fails), and EncodeState.
ReadWatermark(ok) ==
    /\ Up /\ capturing = "watermark"
    /\ req' = [req EXCEPT !.watermark = IF ok THEN outboxRows ELSE 0]
    /\ capturing' = "save"
    /\ UNCHANGED << sim, SimSnapshots, outboxRows, version, boots, coldBoot >>

\* SimSnapshotStore::Save: one INSERT, which may fail.
Save(ok) ==
    /\ Up /\ capturing = "save"
    /\ SimSnapshots' = IF ok THEN Append(SimSnapshots,
                                    [tick |-> req.state.tick, watermark |-> req.watermark,
                                     blob |-> req.state, version |-> version])
                       ELSE SimSnapshots
    /\ capturing' = "none" /\ req' = << >>
    /\ UNCHANGED << sim, outboxRows, version, boots, coldBoot >>

\* The process ends, in the middle of anything.
Crash ==
    /\ Up /\ boots < MAX_BOOTS
    /\ sim' = Down /\ capturing' = "none" /\ req' = << >>
    /\ UNCHANGED << SimSnapshots, outboxRows, version, boots, coldBoot >>

-----------------------------------------------------------------------------
\* SimSnapshotStore::LoadLatest: TOP 1 ORDER BY SimTickNumber DESC, one of the
\* rows with the highest tick.
LatestRows == { i \in DOMAIN SimSnapshots : \A j \in DOMAIN SimSnapshots :
                  SimSnapshots[i].tick >= SimSnapshots[j].tick }

Ids(p) == DOMAIN p.bases \cup DOMAIN p.ships \cup DOMAIN p.npcs

\* m_nextNetId after a restore.
NextId(p) == Max(Ids(p) \cup {0}) + 1

\* A build comes back at its owner's base, as paid for.
RestoredBuild(p, b) ==
    IF \E bd \in p.builds : bd.owner = b
    THEN [n |-> (CHOOSE bd \in p.builds : bd.owner = b).n, paid |-> TRUE]
    ELSE NoBuild

\* m_siteAlive: the guardians are counted again.
SiteAlive(p) ==
    [s \in { p.npcs[n].site : n \in DOMAIN p.npcs } |->
        Cardinality({ n \in DOMAIN p.npcs : p.npcs[n].site = s })]

Orders(p) == { bd.n : bd \in p.builds } \cup { p.ships[s].from : s \in DOMAIN p.ships } \cup {0}

\* Nodes, loot, projectiles and orders are gone.
RestoreState(p) ==
    [tick |-> p.tick, next |-> NextId(p),
     bases |-> [b \in DOMAIN p.bases |-> Base(p.bases[b].stock, RestoredBuild(p, b))],
     ships |-> p.ships, npcs |-> p.npcs, nodes |-> {},
     siteAlive |-> SiteAlive(p), ordered |-> Max(Orders(p))]

\* DecodeState refuses another version's blob.
Decodes(row) == row.version = version'

\* main(): RestoreFromWarmRestart, before Start.  A failed query and a blob that
\* does not decode are a cold start like an empty table; the server then refuses
\* to boot only if the database is still down at Start (which leaves it down).
Boot(loadOk) ==
    /\ ~Up /\ boots < MAX_BOOTS
    /\ boots' = boots + 1
    /\ version' \in Versions
    /\ IF loadOk /\ SimSnapshots # << >>
       THEN \E i \in LatestRows :
              IF Decodes(SimSnapshots[i])
              THEN sim' = RestoreState(SimSnapshots[i].blob) /\ UNCHANGED coldBoot
              ELSE sim' = ColdWorld /\ coldBoot' = TRUE
       ELSE /\ sim' = ColdWorld
            /\ coldBoot' = (coldBoot \/ SimSnapshots # << >>)
    /\ UNCHANGED << capturing, req, SimSnapshots, outboxRows >>

Next ==
    \/ Step \/ BeginCapture \/ CapturePass
    \/ \E ok \in BOOLEAN : ReadWatermark(ok) \/ Save(ok) \/ Boot(ok)
    \/ Crash

-----------------------------------------------------------------------------
(* However a capture is torn, no ship is in the snapshot both as a ship    *)
(* and as the build that delivers it: CaptureState visits the ships before *)
(* the builds.  (A ship delivered between the two visits is lost.)         *)
NoShipTwice ==
    \A i \in DOMAIN SimSnapshots :
        LET p == SimSnapshots[i].blob
        IN  \A s \in DOMAIN p.ships, bd \in p.builds : p.ships[s].from # bd.n

(* Restoring a snapshot and capturing again gives the snapshot back, torn  *)
(* or not (the round trip RestoreState's comment promises).                *)
RoundTrip ==
    \A i \in DOMAIN SimSnapshots :
        CaptureState(RestoreState(SimSnapshots[i].blob)) = SimSnapshots[i].blob

(* Also after a restore the next net id is above every id alive, and the   *)
(* ids of bases, ships, NPCs and nodes are distinct: a spawn never lands   *)
(* on a live entity ("future spawns never collide with restored ids").     *)
SpawnsAreFresh ==
    Up => /\ \A id \in Ids(sim) \cup sim.nodes : id < sim.next
          /\ Cardinality(Ids(sim) \cup sim.nodes) =
               Cardinality(DOMAIN sim.bases) + Cardinality(DOMAIN sim.ships)
                 + Cardinality(DOMAIN sim.npcs) + Cardinality(sim.nodes)

(* The guardians of a site are counted right after a restore as before, so *)
(* the site is cleared by the death of its last one.                       *)
SiteCountsRestored ==
    Up => \A n \in DOMAIN sim.npcs :
            sim.siteAlive[sim.npcs[n].site] =
                Cardinality({ k \in DOMAIN sim.npcs : sim.npcs[k].site = sim.npcs[n].site })

(* What a restart loads is what was saved last: ticks only grow from a     *)
(* restore on.  A cold start over existing rows (the query failed, or the  *)
(* blob did not decode) is the exception: its ticks begin at zero again    *)
(* and the old rows win.                                                   *)
LatestIsLast ==
    (SimSnapshots # << >> /\ ~coldBoot) =>
         SimSnapshots[Len(SimSnapshots)].tick = Max({ SimSnapshots[i].tick : i \in DOMAIN SimSnapshots })

(* What a restart brings back, though the capture ran beside a ticking     *)
(* world and the process may have died at any point: no ship twice, the    *)
(* same state again, ids that are fresh, sites that count their guardians, *)
(* and the snapshot saved last (CaptureState, RestoreState,                *)
(* SimSnapshotStore).                                                      *)
RestartInv ==
    NoShipTwice /\ RoundTrip /\ SpawnsAreFresh /\ SiteCountsRestored /\ LatestIsLast
=============================================================================
