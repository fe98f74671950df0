---------------------------- MODULE MCPersistence ----------------------------
(* The data the server keeps outside its memory: the parts of the          *)
(* persistence layer and the cooked game data.  They share no state with   *)
(* one another in the model and are checked side by side: a behaviour is   *)
(* one of the part it chose, and the variables of the others stay at their *)
(* initial values.  The pool is the module extended; the others are        *)
(* instances.                                                              *)
EXTENDS OdbcConnectionPool, SequencesExt, TLC

CONSTANTS
    Usernames, Ips, Costs, maxLoginFailures, lockoutSeconds, sessionTtlSeconds,
    IP_WINDOW_SECONDS, IP_WINDOW_MAX_ATTEMPTS, MAX_UNIX, MAX_TOKENS,
    Versions, MAX_SIM_TICK, MAX_ROWS, MAX_BOOTS,
    OutboxAccounts, Events, MAX_LOG,
    MAX_ODBC_ROWS, MAX_CONNECTS, CHUNK, MAX_CELL,
    Entities, CAPACITY, MAX_TIME,
    NetIds, Ticks, Values, MAX_EVENTS,
    Numbers, NodeWords, U16, Layouts, DefaultCatalog, Blobs, FALLBACK, MAX_UNITS, MAX_RELOADS

VARIABLES
    part,
    Accounts, Wallets, Sessions, m_ipWindows, pbkdf2Iterations, nowUnix, tokensMade, guesses, passed,
    sim, capturing, req, SimSnapshots, outboxRows, version, boots, coldBoot,
    m_log, m_drainWatermark, m_wallet, m_ledger, m_appliedKeys, m_lastAppliedSeq, drain,
    m_connected, m_inTxn, link, dbAutocommit, dbOpenRows, dbRows, written, connects, promised,
    disowned, lastRead,
    m_wbQueue, batch, flushing, flushTime, rpoWatermark, durable, now, pushed, droppedRows, failedRows,
    tick, emitted,
    layout, text, cursor, open, out, errors, stage, search,
    m_combat, units, reloads, checked

MCTicks == {0, 7, 2^21 - 1}

MCEvents ==
          { [idemKey |-> 1, accountId |-> "a", amount |-> 5],
            [idemKey |-> 2, accountId |-> "a", amount |-> 0 - 2],
            [idemKey |-> 3, accountId |-> "b", amount |-> 7] }

\* The limits of AccountStore are set, and so is a cost.
ASSUME AccountAssumption ==
    /\ {maxLoginFailures, lockoutSeconds, IP_WINDOW_SECONDS} \subseteq Nat \ {0}
    /\ {IP_WINDOW_MAX_ATTEMPTS, sessionTtlSeconds} \subseteq Nat
    /\ Costs # {}

\* SQLGetData is given room for some bytes.
ASSUME OdbcAssumption == CHUNK \in Nat \ {0} /\ MAX_CELL \in Nat

\* A build writes some version of the blob.
ASSUME RestartAssumption == Versions # {}

\* Events are of accounts that exist; their amounts may be negative.
ASSUME OutboxAssumption == Events \subseteq [idemKey : Nat, accountId : OutboxAccounts, amount : Int]

\* The write-behind queue holds something.
ASSUME BehindAssumption == CAPACITY \in Nat \ {0}

\* Ticks of the first 2^21 (about 19 hours at 30 Hz), before the tick reaches
\* the bits of the net id in the idempotency key; net ids are given in turn.
ASSUME EventAssumption ==
    /\ \A n \in NetIds : n \in 0 .. 2^30 + (2^30 - 1)
    /\ \A t \in Ticks : t \in 0 .. 2^21 - 1

Store == INSTANCE AccountStore
Restart == INSTANCE WarmRestart
Log == INSTANCE Outbox
Odbc == INSTANCE OdbcConnection
Behind == INSTANCE WriteBehind
Econ == INSTANCE EconomyEvents
Data == INSTANCE UniverseData
Fits == INSTANCE CombatData

(***************************************************************************)
(* Universe layouts: every graph of three beacons with links to themselves *)
(* and to a beacon that does not exist, a ring of five, a layout with      *)
(* everything in it and each of its tokens lost, and its file cut short    *)
(***************************************************************************)
\* The layouts are the value of a constant of Data; their format is taken from
\* an instance without it.
Source == INSTANCE UniverseData WITH Layouts <- {}

MCNumbers == ("0" :> 0) @@ ("1" :> 1) @@ ("2" :> 2) @@ ("5" :> 5) @@ ("-1" :> 0 - 1)
MCNodeWords ==
    ("Ore:600" :> [type |-> "Ore", weight |-> 600]) @@ ("Ice:400" :> [type |-> "Ice", weight |-> 400])
    @@ ("Gas:0" :> [type |-> "Gas", weight |-> 0])
Region(n, tier) == [Source!RegionDef(n) EXCEPT !.security = tier, !.lo = 0 - 1, !.hi = 2]
Beacon(n, region, links, kind) ==
    [Source!BeaconDef(n) EXCEPT !.region = region, !.links = links, !.kind = kind]
Field(nodes, count) ==
    [Source!ResourceFieldDef("belt") EXCEPT !.region = "low1", !.radius = 5, !.nodes = nodes,
                                          !.count = count, !.yield = << 1, 5 >>, !.respawn = 2]
Layout(beacons, fields) ==
    [Source!UniverseDataset EXCEPT
        !.regions = << Region("high1", "high"), Region("low1", "low") >>,
        !.beacons = beacons, !.fields = fields]
Ordered(S) == SetToSortSeq(S, LAMBDA x, y : << x, y >> \in
    { << "a", "b" >>, << "a", "c" >>, << "b", "c" >>, << "a", "x" >>, << "b", "x" >>, << "c", "x" >> })
Graph3(la, lb, lc, kb) ==
    Layout(<< Beacon("a", "high1", Ordered(la), "public"), Beacon("b", "low1", Ordered(lb), kb),
              Beacon("c", "low1", Ordered(lc), "public") >>, << >>)
Graphs3 ==
    { Graph3(la, lb, lc, "public") :
        la \in SUBSET {"b", "c", "x"}, lb \in (SUBSET {"a", "c"}) \cup {{"b"}}, lc \in SUBSET {"a", "b"} }
    \cup { Graph3(la, lb, lc, "claimable") :
            la \in SUBSET {"b", "c"}, lb \in SUBSET {"a", "c"}, lc \in SUBSET {"a", "b"} }
Ring5 ==
    Layout(<< Beacon("a", "high1", << "b", "c" >>, "public"), Beacon("b", "low1", << "a", "d" >>, "public"),
              Beacon("c", "low1", << "a", "e" >>, "public"), Beacon("d", "low1", << "b", "e" >>, "public"),
              Beacon("e", "low1", << "c", "d" >>, "claimable") >>, << >>)
FullNodes == << MCNodeWords["Ore:600"], MCNodeWords["Ice:400"] >>
Everything(nodes, count, nav, cap) ==
    [Layout(<< Beacon("a", "high1", << "b" >>, "public"), Beacon("b", "low1", << "a" >>, "claimable") >>,
            << Field(nodes, count) >>)
        EXCEPT !.nav["warp_speed_ship"] = nav, !.economy["fleet_cap"] = cap]
Whole == Everything(FullNodes, << 1, 2 >>, 5, 2)
Twice == [Whole EXCEPT !.beacons[2].name = "a"]
Claimed == [Whole EXCEPT !.beacons[2].region = "high1"]
MCLayouts ==
    { [ds |-> d, lost |-> 0, cut |-> 0] :
        d \in Graphs3 \cup {Ring5, Twice, Claimed} \cup
             { Everything(n, c, v, f) : n \in {FullNodes, << >>, << MCNodeWords["Gas:0"] >> \o FullNodes},
                 c \in {<< 1, 2 >>, << 2, 1 >>}, v \in {0 - 1, 5}, f \in {0, 2} } }
    \cup { [ds |-> Whole, lost |-> l, cut |-> 0] : l \in 1 .. Len(Source!TextOf(Whole)) }
    \cup { [ds |-> Ring5, lost |-> l, cut |-> 0] : l \in 1 .. Len(Source!TextOf(Ring5)) }
    \cup { [ds |-> Whole, lost |-> 0, cut |-> c] :
            c \in 1 .. Len(Source!EncodeUniverseDataset(Whole)) }
NoLayout == [ds |-> Whole, lost |-> 0, cut |-> 0]

(* Combat catalogues: two hulls, a weapon and a repairer, with a fit that  *)
(* fills the grid, one over it, one over the budget and one whose module   *)
(* the catalogue lacks.                                                    *)
Hull(c, slots, pg) == [code |-> c, slots |-> slots, pg |-> pg, cpu |-> 3, hp |-> 1, resist |-> 400]
Gun == [code |-> "gun", kind |-> "Weapon", slot |-> 1, pg |-> 2, cpu |-> 1, damage |-> 5, range |-> 0]
Rep == [code |-> "rep", kind |-> "RemoteRep", slot |-> 2, pg |-> 1, cpu |-> 1, damage |-> 0, range |-> 5]
Fit(n, hull, mods) == [code |-> n, hull |-> hull, modules |-> mods]
Catalog(pg, mods, more) ==
    [hulls |-> << Hull("light", << 1, 1, 0 >>, pg), Hull("heavy", << 2, 1, 1 >>, 5) >>, modules |-> mods,
     fits |-> << Fit("basic", "light", << "gun" >>) >> \o more]
MCDefaultCatalog == Catalog(3, << Gun, Rep >>, << Fit("guns", "heavy", << "gun", "gun", "rep" >>) >>)
MCCatalogs ==
    { Catalog(pg, mods, << Fit("guns", h, f) >>) :
        pg \in {1, 3, 5}, mods \in {<< Gun, Rep >>, << Gun >>, << [Gun EXCEPT !.slot = 2], Rep >>},
        h \in {"light", "heavy"}, f \in {<< "gun", "rep" >>, << "gun", "gun" >>, << "gun", "gun", "rep" >>} }
MCBlobs ==
    { [catalog |-> c, cut |-> 0] : c \in MCCatalogs }
    \cup { [catalog |-> MCDefaultCatalog, cut |-> k] : k \in 1 .. 9 }

(***************************************************************************)
(* The parts                                                               *)
(***************************************************************************)
accountVars == << Accounts, Wallets, Sessions, m_ipWindows, pbkdf2Iterations, nowUnix, tokensMade,
                  guesses, passed >>
restartVars == << sim, capturing, req, SimSnapshots, outboxRows, version, boots, coldBoot >>
outboxVars == << m_log, m_drainWatermark, m_wallet, m_ledger, m_appliedKeys, m_lastAppliedSeq, drain >>
odbcVars == << m_connected, m_inTxn, link, dbAutocommit, dbOpenRows, dbRows, written, connects,
               promised, disowned, lastRead >>
behindVars == << m_wbQueue, batch, flushing, flushTime, rpoWatermark, durable, now, pushed,
                 droppedRows, failedRows >>
eventVars == << tick, emitted >>
dataVars == << layout, text, cursor, open, out, errors, stage, search >>
combatVars == << m_combat, units, reloads, checked >>

allVars == << part, vars, accountVars, restartVars, outboxVars, odbcVars, behindVars, eventVars,
              dataVars, combatVars >>

MCInit ==
    /\ part \in {"accounts", "restart", "outbox", "odbc", "behind", "events", "pool",
                "layout", "catalog"}
    /\ Init /\ (part # "pool" => m_idle = {})
    /\ Store!Init /\ Restart!Init /\ Log!Init /\ Odbc!Init /\ Behind!Init
    /\ Econ!Init /\ (part # "events" => tick = 0)
    /\ IF part = "layout" THEN Data!Init ELSE Data!Given(NoLayout)
    /\ Fits!Init

AccountsNext ==
    /\ part = "accounts" /\ Store!Next
    /\ UNCHANGED << part, vars, restartVars, outboxVars, odbcVars, behindVars, eventVars, dataVars, combatVars >>
RestartNext ==
    /\ part = "restart" /\ Restart!Next
    /\ UNCHANGED << part, vars, accountVars, outboxVars, odbcVars, behindVars, eventVars, dataVars, combatVars >>
OutboxNext ==
    /\ part = "outbox" /\ Log!Next
    /\ UNCHANGED << part, vars, accountVars, restartVars, odbcVars, behindVars, eventVars, dataVars, combatVars >>
OdbcNext ==
    /\ part = "odbc" /\ Odbc!Next
    /\ UNCHANGED << part, vars, accountVars, restartVars, outboxVars, behindVars, eventVars, dataVars, combatVars >>
BehindNext ==
    /\ part = "behind" /\ Behind!Next
    /\ UNCHANGED << part, vars, accountVars, restartVars, outboxVars, odbcVars, eventVars, dataVars, combatVars >>
EventsNext ==
    /\ part = "events" /\ Econ!Next
    /\ UNCHANGED << part, vars, accountVars, restartVars, outboxVars, odbcVars, behindVars, dataVars, combatVars >>
PoolNext ==
    /\ part = "pool" /\ Next
    /\ UNCHANGED << part, accountVars, restartVars, outboxVars, odbcVars,
                    behindVars, eventVars, dataVars, combatVars >>

LayoutNext ==
    /\ part = "layout" /\ Data!Next
    /\ UNCHANGED << part, vars, accountVars, restartVars, outboxVars, odbcVars, behindVars,
                    eventVars, combatVars >>
CatalogNext ==
    /\ part = "catalog" /\ Fits!Next
    /\ UNCHANGED << part, vars, accountVars, restartVars, outboxVars, odbcVars, behindVars,
                    eventVars, dataVars >>

MCNext ==
    \/ AccountsNext \/ RestartNext \/ OutboxNext \/ OdbcNext \/ BehindNext \/ EventsNext \/ PoolNext
    \/ LayoutNext \/ CatalogNext

MCSpec == MCInit /\ [][MCNext]_allVars

(* Accounts, sessions and the limits on guessing (module AccountStore).    *)
AccountsInv == part = "accounts" => Store!AccountsInv
(* What a restart brings back (module WarmRestart).                        *)
RestartInv == part = "restart" => Restart!RestartInv
(* The reference outbox: one ledger entry per key (module Outbox).         *)
OutboxInv == part = "outbox" => Log!OutboxInv
(* One connection: its flag, its reports and its reads (module             *)
(* OdbcConnection).                                                        *)
OdbcInv == part = "odbc" => Odbc!OdbcInv
(* Newest rows and watermark of the write-behind queue (module             *)
(* WriteBehind).                                                           *)
BehindInv == part = "behind" => Behind!BehindInv
(* Two economy events never share a key (module EconomyEvents).            *)
UniqueIdemKey == part = "events" => Econ!UniqueIdemKey
(* Layouts from source text to route (module UniverseData).                *)
LayoutInv == part = "layout" => Data!LayoutInv
(* Combat catalogues from blob to fitted unit (module CombatData).         *)
CatalogInv == part = "catalog" => Fits!CatalogInv
=============================================================================
