----------------------------- MODULE Universe -----------------------------
(***************************************************************************)
(* ServerUniverse (ServerUniverse.h): the authoritative world of bases,    *)
(* ships, guardians, resource nodes, loot and projectiles; the commands    *)
(* players give; and Step, which runs every system in a fixed order.       *)
(*                                                                         *)
(* u holds the members of the class.  u.ents maps a live net id to its     *)
(* entity, a record of the components that kind of entity has; slot is its *)
(* index in the ECS, which decides the order in which systems visit it.    *)
(* Velocity is left out: it is zero for everything the server spawns.      *)
(* Interest and replication versions are in module Replication, jump       *)
(* beacons are constants, scenery plays no part, and the fog queries and   *)
(* Interdict, which nothing in the server calls, are left out.             *)
(***************************************************************************)
EXTENDS Integers, Sequences, FiniteSets, FiniteSetsExt, SequencesExt, TLC

(***************************************************************************)
(* First the pure rules of the simulation: damage, repair and electronic   *)
(* warfare (Combat.h), travel (Navigation.h, Fleet.h) and the resource     *)
(* economy (Economy.h).  Each operator is one of those functions; the      *)
(* universe sequences them over its entities.                              *)
(*                                                                         *)
(* Numbers.  The code works in floats at a fixed time step.  Here time is  *)
(* counted in steps, rates are per step, space is a line of metres, shares *)
(* are percents, and damage and regeneration, which the code rounds to     *)
(* whole hit points, are in hundredths of a hit point.                     *)
(***************************************************************************)
Lo(a, b) == IF a <= b THEN a ELSE b
Hi(a, b) == IF a >= b THEN a ELSE b

\* Distance in metres.
Dist(a, b) == IF a <= b THEN b - a ELSE a - b

\* Move toward a point by at most one step's length, never past it.
StepToward(p, target, maxStep) ==
    IF p <= target THEN p + Lo(maxStep, Dist(p, target))
                   ELSE p - Lo(maxStep, Dist(p, target))

---------------------------------------------------------------------------
(* Damage and defence *)

Layers == <<"shield", "armor", "hull">>
Broke == [shield |-> "ShieldDown", armor |-> "ArmorDown", hull |-> "Killed"]

\* std::lround of hundredths.
Lround(x) == (x + 50) \div 100

\* One blow eats through the layers outside-in, each with its own resist.  A
\* blow that does not break a layer takes its ROUNDED share of that layer.
ApplyTypedDamage(hp, resist, raw) ==
    LET Hit(b, l) ==
          LET effective == (b.raw * (100 - resist[l])) \div 100 IN
          CASE b.raw <= 0 \/ b.hp[l] <= 0 -> b
            [] effective < 100 * b.hp[l] ->
                 [b EXCEPT !.hp[l] = Hi(0, @ - Lround(effective)), !.raw = 0]
            [] OTHER ->
                 [hp  |-> [b.hp EXCEPT ![l] = 0],
                  raw |-> Hi(0, b.raw - (10000 * b.hp[l]) \div (100 - resist[l])),
                  out |-> Broke[l]]
    IN FoldLeft(Hit, [hp |-> hp, raw |-> raw, out |-> "Absorbed"], Layers)

\* Percent of the damage left at a distance, and percent that tracks a target.
FalloffFactor(dist, m) ==
    IF dist <= m.optimal THEN 100
    ELSE IF m.falloff <= 0 THEN 0
    ELSE Hi(0, 100 - (100 * (dist - m.optimal)) \div m.falloff)

TrackingFactor(tracking, signature, speed) ==
    IF tracking * signature + speed = 0 THEN 100
    ELSE (100 * tracking * signature) \div (tracking * signature + speed)

ResolveShotDamage(m, dist, signature, speed) ==
    (((m.dmg * TrackingFactor(m.tracking, signature, speed)) \div 100)
        * FalloffFactor(dist, m)) \div 100

\* Inside optimal plus falloff, both cut by a sensor damp on the shooter.
InEngagementRange(m, dist, damp) == 100 * dist <= (m.optimal + m.falloff) * damp

\* Passive shield regeneration, with its sub-point carry.
RegenDefenses(hp, max, regen) ==
    IF hp.hull <= 0 \/ hp.shield >= max.shield \/ regen <= 0 THEN hp
    ELSE LET p == hp.pend + regen IN
         IF p < 100 THEN [hp EXCEPT !.pend = p]
         ELSE [hp EXCEPT !.pend = p % 100, !.shield = Lo(max.shield, @ + p \div 100)]

\* Remote repair of one layer; a popped or a full layer takes none.
RemoteRep(hp, max, layer, amount) ==
    IF amount <= 0 \/ hp[layer] >= max[layer] \/ hp[layer] <= 0 THEN hp
    ELSE [hp EXCEPT ![layer] = Lo(max[layer], @ + amount)]

\* Debuffs: each refreshes to the module's duration and the strongest wins.
NoEwar == [jam |-> 0, tackle |-> 0, webFor |-> 0, web |-> 100, dampFor |-> 0, damp |-> 100]

ApplyJam(s, dur) == [s EXCEPT !.jam = Hi(@, dur)]
ApplyTackle(s, dur) == [s EXCEPT !.tackle = Hi(@, dur)]
ApplyWeb(s, f, dur) == [s EXCEPT !.web = Lo(@, f), !.webFor = Hi(@, dur)]
ApplySensorDamp(s, f, dur) == [s EXCEPT !.damp = Lo(@, f), !.dampFor = Hi(@, dur)]

TickEwar(s) ==
    [jam |-> Hi(0, s.jam - 1), tackle |-> Hi(0, s.tackle - 1),
     webFor |-> Hi(0, s.webFor - 1), web |-> IF s.webFor <= 1 THEN 100 ELSE s.web,
     dampFor |-> Hi(0, s.dampFor - 1), damp |-> IF s.dampFor <= 1 THEN 100 ELSE s.damp]

\* A ballistic shot flies its step in n sub-steps and stops at the first one
\* that ends within the hit radius or its time to live (counted in sub-steps).
StepProjectile(p, vel, target, ttl, radius, n) ==
    LET At(k) == p + k * (vel \div n)
        Ends == {k \in 1..n : Dist(At(k), target) <= radius \/ ttl - k <= 0}
        k == IF Ends = {} THEN n ELSE Min(Ends)
    IN [pos |-> At(k), ttl |-> ttl - k, hit |-> Dist(At(k), target) <= radius]

---------------------------------------------------------------------------
(* Travel *)

IdleNav == [phase |-> "Idle", intr |-> FALSE, to |-> 0, timer |-> 0, speed |-> 0]

BeginWarp(dest, speed, align) ==
    [phase |-> "Align", intr |-> FALSE, to |-> dest, timer |-> align, speed |-> speed]
BeginJump(nav, dest, spool) ==
    [nav EXCEPT !.phase = "Spool", !.intr = FALSE, !.to = dest, !.timer = spool]

\* One step of the travel state machine: [nav, pos].
StepNav(nav, pos, cooldown) ==
    LET Tick == [nav EXCEPT !.timer = @ - 1]
        Done == nav.timer <= 1
        Idle == [nav EXCEPT !.phase = "Idle"]
        Dropped == [Idle EXCEPT !.intr = FALSE]
        R(n, p) == [nav |-> n, pos |-> p]
    IN CASE nav.phase = "Idle"  -> R(nav, pos)
         [] nav.phase = "Align" ->
              R(IF Done THEN [nav EXCEPT !.phase = "Warp", !.timer = 0] ELSE Tick, pos)
         [] nav.phase \in {"Warp", "Spool"} /\ nav.intr -> R(Dropped, pos)
         [] nav.phase = "Warp" /\ ~nav.intr ->
              IF nav.speed >= Dist(pos, nav.to) THEN R(Idle, nav.to)
              ELSE R(nav, StepToward(pos, nav.to, nav.speed))
         [] nav.phase = "Spool" /\ ~nav.intr ->
              IF Done THEN R([nav EXCEPT !.phase = "Cooldown", !.timer = cooldown], nav.to)
              ELSE R(Tick, pos)
         [] nav.phase = "Cooldown" ->
              R(IF Done THEN [Idle EXCEPT !.timer = 0] ELSE Tick, pos)

\* Drive to a stand-off ring: [pos, there].
StepStandoff(pos, target, maxStep, range) ==
    LET d == Dist(pos, target)
        p == IF d <= range THEN pos ELSE StepToward(pos, target, Lo(maxStep, d - range))
    IN [pos |-> p, there |-> Dist(p, target) <= range]

---------------------------------------------------------------------------
(* Resources: an itemised hold is a function from slots to amounts *)

SumSlots(a) == FoldLeft(LAMBDA t, x : t + x, 0, a)
Free(a, capacity) == Hi(0, capacity - SumSlots(a))

\* Mutant: the clamp leaves the node's last unit behind.
HarvestStepLeavesLast(remaining, cargo, capacity, rate) ==
    Lo(rate, Lo(remaining - 1, Free(cargo, capacity)))
\* Node yield into cargo, clamped by the yield left and the room: the amount.
HarvestStep(remaining, cargo, capacity, rate) ==
    Lo(rate, Lo(remaining, Free(cargo, capacity)))

\* Move every slot of one hold, in order, into the room of another:
\* [from, to].  DepositAll and the loop of ClaimLoot are both this.
Transfer(from, to, capacity) ==
    LET Move(t, i) ==
          LET take == Lo(t.from[i], Free(t.to, capacity))
          IN [from |-> [t.from EXCEPT ![i] = @ - take], to |-> [t.to EXCEPT ![i] = @ + take]]
    IN FoldLeft(Move, [from |-> from, to |-> to], [i \in 1..Len(from) |-> i])

CanAfford(storage, cost) == \A i \in DOMAIN cost : storage[i] >= cost[i]

IdleBuild == [active |-> FALSE, paid |-> FALSE, progress |-> 0]

\* One step of a build queue: [q, storage, result].  The price is paid once,
\* on the first step; a price that cannot be paid cancels the build.
BuildStep(q, storage, cost, seconds) ==
    LET pays == ~q.paid
        s == IF pays THEN [i \in DOMAIN storage |-> storage[i] - cost[i]] ELSE storage
        R(b, st, r) == [q |-> b, storage |-> st, result |-> r]
    IN CASE ~q.active -> R(q, storage, "Idle")
         [] q.active /\ pays /\ ~CanAfford(storage, cost) ->
              R([q EXCEPT !.active = FALSE], storage, "Insufficient")
         [] q.active /\ (~pays \/ CanAfford(storage, cost)) ->
              IF q.progress + 1 >= seconds THEN R(IdleBuild, s, "Completed")
              ELSE R([q EXCEPT !.paid = TRUE, !.progress = @ + 1], s, "InProgress")

---------------------------------------------------------------------------
(* The universe. *)
CONSTANTS
    FITS,          \* fit name -> [sig, speed, shield, armor, hull, regen, resist, mods]
    SHIP_FIT, BASE_FIT, NPC_FIT,
    BEACONS,       \* sequence of [pos, links]
    ECON,          \* cargo, storage, rate, speed, range, cost, seconds, fleetCap
    NAV,           \* warpBase, warpShip, align, fuelBase, fuelShip, spool, cooldown, tank, use
    AGGRO_RANGE, FLEE_PCT,
    RETREAT_PCT, RETREAT_STEPS, LOOT_PCT,
    SUB_STEPS, MIN_HIT_RADIUS,
    GARBAGE_POS,   \* what a read of freed storage may return (see SpawnLoot)
    Scenes,        \* where a run starts: [world, commands, logins, logouts, orders];
                   \* orders is a bound: commands, logins and logouts in a behaviour
    MAX_NET_ID     \* bound: no step once this many net ids are used

VARIABLES u, script, orders

vars == <<u, script, orders>>

Armed == {"Base", "Ship", "Npc"}     \* carry DefenseLayers, Fitting, FleetOrder, OwnerId
Movers == {"Base", "Ship"}           \* carry NavState and Fuel
Slots == DOMAIN ECON.cost            \* resource types
Empty == [i \in Slots |-> 0]
NoOrder == [type |-> "Idle", tgt |-> 0, at |-> 0, range |-> 0]
NoHarvest == [phase |-> "Idle", node |-> 0, base |-> 0]
ActiveBase == [state |-> "Active", left |-> 0, cargoLost |-> FALSE]

Is(s, id, kinds) == id \in DOMAIN s.ents /\ s.ents[id].kind \in kinds
\* World::ForEach: the entities of some kinds in ascending slot order.
ForEach(s, kinds) ==
    SetToSortSeq({i \in DOMAIN s.ents : s.ents[i].kind \in kinds},
                 LAMBDA a, b : s.ents[a].slot < s.ents[b].slot)

---------------------------------------------------------------------------
(* Entities and fits *)

\* World::CreateEntity: the most recently freed slot, else a new one.
NewEntity(s, e) ==
    LET reuse == s.free # <<>>
        slot == IF reuse THEN Last(s.free) ELSE s.fresh
    IN [s EXCEPT !.ents = (s.next :> (e @@ [slot |-> slot])) @@ @,
                 !.next = @ + 1,
                 !.free = IF reuse THEN Front(@) ELSE @,
                 !.fresh = IF reuse THEN @ ELSE @ + 1]

\* Mutant: the last guardian does not clear the site.
DestroyUnitNeverClears(s, id) ==
    IF id \notin DOMAIN s.ents THEN s
    ELSE [s EXCEPT !.ents = [i \in DOMAIN @ \ {id} |-> @[i]], !.free = Append(@, s.ents[id].slot),
                   !.alive = [x \in DOMAIN @ |-> IF s.ents[id].kind = "Npc" /\ s.ents[id].site = x
                                                 THEN @[x] - 1 ELSE @[x]]]
\* DestroyUnit: a dead guardian is counted off its site; the last one clears it.
DestroyUnit(s, id) ==
    IF id \notin DOMAIN s.ents THEN s
    ELSE LET e == s.ents[id]
             t == [s EXCEPT !.ents = [i \in DOMAIN @ \ {id} |-> @[i]],
                            !.free = Append(@, e.slot)]
         IN IF e.kind # "Npc" THEN t
            ELSE [t EXCEPT !.alive[e.site] = Hi(0, @ - 1),
                           !.cleared = IF s.alive[e.site] <= 1 THEN Append(@, e.site) ELSE @]

\* The sum of a passive module's strength over a fit.
Passive(fit, kind) ==
    FoldLeft(LAMBDA t, m : IF m.kind = kind THEN t + m.strength ELSE t, 0, FITS[fit].mods)
MaxHp(fit) == [shield |-> FITS[fit].shield, hull |-> FITS[fit].hull,
               armor |-> FITS[fit].armor + Passive(fit, "ArmorPlate")]
Regen(fit) == FITS[fit].regen + Passive(fit, "ShieldBooster")
\* A fitted module, with the passive bonuses baked into weapons.
Module(fit, i) ==
    LET m == FITS[fit].mods[i] IN
    IF m.kind # "Weapon" THEN m
    ELSE [m EXCEPT !.dmg = (@ * (100 + Passive(fit, "DamageAmp"))) \div 100,
                   !.tracking = @ + Passive(fit, "TrackingEnhancer")]
WeaponRange(fit) ==
    FoldLeft(LAMBDA t, m : IF m.kind = "Weapon" THEN Hi(t, m.optimal + m.falloff) ELSE t,
             0, FITS[fit].mods)

InstallFit(fit) ==
    [fit |-> fit, hp |-> MaxHp(fit) @@ [pend |-> 0], ewar |-> NoEwar,
     mods |-> [i \in DOMAIN FITS[fit].mods |-> [cd |-> 0, pend |-> 0]],
     ord |-> [cur |-> NoOrder, q |-> <<>>]]

SpawnBase(s, pos) ==
    NewEntity(s, InstallFit(BASE_FIT) @@
        [kind |-> "Base", pos |-> pos, owner |-> s.next, nav |-> IdleNav, fuel |-> NAV.tank,
         storage |-> Empty, build |-> IdleBuild,
         bc |-> ActiveBase])

OwnedShipCount(s, p) ==
    Cardinality({i \in DOMAIN s.ents : s.ents[i].kind = "Ship" /\ s.ents[i].owner = p})

\* At the fleet cap nothing is spawned.
SpawnFleetShip(s, player, pos) ==
    IF OwnedShipCount(s, player) >= ECON.fleetCap THEN s
    ELSE NewEntity(s, InstallFit(SHIP_FIT) @@
        [kind |-> "Ship", pos |-> pos, owner |-> player, nav |-> IdleNav, fuel |-> NAV.tank,
         cargo |-> Empty, harv |-> NoHarvest])

SpawnResourceNode(s, res, yield, pos) ==
    NewEntity(s, [kind |-> "Node", pos |-> pos, res |-> res, remaining |-> yield])

SpawnNpcGuardian(s, pos, site) ==
    NewEntity(s, InstallFit(NPC_FIT) @@
        [kind |-> "Npc", pos |-> pos, owner |-> 0, home |-> pos, site |-> site])

\* A site's guardians stand at the given offsets (the code's ring) around it.
SpawnNpcSite(s, center, ring) ==
    LET site == Len(s.alive) + 1 IN
    FoldLeft(LAMBDA t, off : SpawnNpcGuardian(t, center + off, site),
             [s EXCEPT !.alive = Append(@, Len(ring))], ring)

DespawnBase(s, b) == DestroyUnit(s, b)

EmptyWorld ==
    [ents |-> <<>>, next |-> 1, free |-> <<>>, fresh |-> 1, alive |-> <<>>,
     cleared |-> <<>>, econ |-> <<>>, mails |-> <<>>, built |-> <<>>, alerts |-> <<>>]

EconEvent(type, a, b, value) == [type |-> type, a |-> a, b |-> b, value |-> value]

---------------------------------------------------------------------------
(* Commands: ApplyFleetCommand and the intents it routes *)

\* A direct order replaces the current one, empties the queue and stops the
\* harvest autopilot; a chained one joins the queue of a busy unit.
PushOrder(s, id, entry, queue) ==
    LET e == s.ents[id] IN
    IF queue /\ e.ord.cur.type # "Idle"
    THEN [s EXCEPT !.ents[id].ord.q = Append(@, entry)]
    ELSE [s EXCEPT !.ents[id] =
             IF e.kind = "Ship"
             THEN [e EXCEPT !.ord = [cur |-> entry, q |-> <<>>], !.harv.phase = "Idle"]
             ELSE [e EXCEPT !.ord = [cur |-> entry, q |-> <<>>]]]

OrderHarvest(s, id, node) ==
    LET e == s.ents[id] IN
    IF e.kind = "Ship" /\ Is(s, node, {"Node"}) /\ Is(s, e.owner, {"Base"})
    THEN [s EXCEPT !.ents[id].harv = [phase |-> "ToNode", node |-> node, base |-> e.owner]]
    ELSE s

BeginWarpTo(s, id, dest) ==
    LET e == s.ents[id] IN
    IF e.nav.phase # "Idle" THEN s
    ELSE [s EXCEPT !.ents[id].nav =
             BeginWarp(dest, IF e.kind = "Base" THEN NAV.warpBase ELSE NAV.warpShip, NAV.align)]

\* The first of the nearest beacons, if it is within range of use; else 0.
NearestBeaconWithin(pos) ==
    LET Best == {i \in DOMAIN BEACONS : \A j \in DOMAIN BEACONS :
                    \/ Dist(pos, BEACONS[i].pos) < Dist(pos, BEACONS[j].pos)
                    \/ Dist(pos, BEACONS[i].pos) = Dist(pos, BEACONS[j].pos) /\ i <= j}
    IN IF \E i \in Best : Dist(pos, BEACONS[i].pos) <= NAV.use THEN CHOOSE i \in Best : TRUE ELSE 0

JumpFuel(kind) == IF kind = "Base" THEN NAV.fuelBase ELSE NAV.fuelShip

BeginJumpTo(s, id, dest) ==
    LET e == s.ents[id]
        src == NearestBeaconWithin(e.pos)
    IN IF /\ src # 0
          /\ dest \in BEACONS[src].links
          /\ e.nav.phase = "Idle"
          /\ e.fuel >= JumpFuel(e.kind)
       THEN [s EXCEPT !.ents[id].fuel = @ - JumpFuel(e.kind),
                      !.ents[id].nav = BeginJump(@, BEACONS[dest].pos, NAV.spool)]
       ELSE s

\* Mutant: the claimed container stays.
ClaimLootKeepsContainer(s, id, container) ==
    IF s.ents[id].kind # "Ship" \/ ~Is(s, container, {"Loot"}) THEN s
    ELSE [s EXCEPT !.ents[id].cargo = Transfer(s.ents[container].items, @, ECON.cargo).to]
\* Whatever does not fit into the claimer's hold is lost with the container.
ClaimLoot(s, id, container) ==
    IF s.ents[id].kind # "Ship" \/ ~Is(s, container, {"Loot"}) THEN s
    ELSE LET items == s.ents[container].items
             t == Transfer(items, s.ents[id].cargo, ECON.cargo)
         IN DestroyUnit([s EXCEPT
               !.ents[id].cargo = t.to,
               !.econ = Append(@, EconEvent("LootClaim", container, id,
                                            SumSlots(items) - SumSlots(t.from)))], container)

ApplyIntentToUnit(s, id, c) ==
    LET e == s.ents[id]
        Entry(at, range) == [type |-> c.intent, tgt |-> c.target, at |-> at, range |-> range]
    IN CASE c.intent = "Stop" ->
              [s EXCEPT !.ents[id] =
                 IF e.kind = "Ship"
                 THEN [e EXCEPT !.ord = [cur |-> NoOrder, q |-> <<>>], !.harv.phase = "Idle"]
                 ELSE [e EXCEPT !.ord = [cur |-> NoOrder, q |-> <<>>]]]
         [] c.intent = "Harvest"   -> OrderHarvest(s, id, c.target)
         [] c.intent = "Warp"      -> BeginWarpTo(s, id, c.at)
         [] c.intent = "Jump"      -> BeginJumpTo(s, id, c.target)
         [] c.intent = "Build"     -> IF e.kind = "Base" /\ ~e.build.active
                                      THEN [s EXCEPT !.ents[id].build =
                                                        [IdleBuild EXCEPT !.active = TRUE]]
                                      ELSE s
         [] c.intent = "ClaimLoot" -> ClaimLoot(s, id, c.target)
         [] c.intent = "Move"      -> PushOrder(s, id, [Entry(c.at, 0) EXCEPT !.tgt = 0], c.queue)
         [] c.intent = "Retreat"   -> IF ~Is(s, e.owner, {"Base"}) THEN s
                                      ELSE PushOrder(s, id, [Entry(s.ents[e.owner].pos, 0)
                                                                EXCEPT !.tgt = 0], c.queue)
         [] c.intent \in {"Attack", "Guard", "Orbit", "KeepRange"} ->
              IF e.kind = "Base" \/ c.target \notin DOMAIN s.ents THEN s
              ELSE PushOrder(s, id, Entry(0, c.range), c.queue)

\* Every unit of the command is checked to be the player's own.
ApplyFleetCommand(s, c) ==
    FoldLeft(LAMBDA t, id : IF Is(t, id, Armed) /\ t.ents[id].owner = c.player
                            THEN ApplyIntentToUnit(t, id, c) ELSE t, s, c.units)

---------------------------------------------------------------------------
(* The world a server starts with *)

\* The i-th of count nodes has the type whose share of the field covers it.
PickFieldType(f, i, count) ==
    LET Cum(k) == SumSlots([j \in 1..k |-> f.nodes[j].weight])
        Covers == {k \in DOMAIN f.nodes : 100 * (2 * i - 1) <= 2 * count * Cum(k)}
    IN IF f.nodes = <<>> THEN 1
       ELSE f.nodes[IF Covers = {} THEN Len(f.nodes) ELSE Min(Covers)].type

\* Each field of the dataset gets a ring of one to eight nodes.
SpawnFieldNodes(s, fields) ==
    LET Count(f) == Hi(1, Lo(f.countMin, 8))
        Node(t, f, i) == SpawnResourceNode(t, PickFieldType(f, i, Count(f)),
                                           (f.yieldMin + f.yieldMax) \div 2, f.center + f.ring[i])
    IN FoldLeft(LAMBDA t, f : FoldLeft(LAMBDA v, i : Node(v, f, i), t, [i \in 1..Count(f) |-> i]),
                s, fields)
LoadUniverse(s, data) == SpawnFieldNodes(s, data.fields)

\* The dev seed: a station that is told to build, a harvester that supplies it,
\* and a guardian site out of their way.
SpawnDemoSeed(s, data, at) ==
    LET b == SpawnBase(LoadUniverse(s, data), at.base)
        base == b.next - 1
        n == SpawnResourceNode(b, 1, at.yield, at.node)
        h == SpawnFleetShip(n, base, at.harvester)
        w == ApplyIntentToUnit(OrderHarvest(h, n.next, b.next), base, [intent |-> "Build"])
    IN SpawnNpcSite(w, at.site, at.ring)

---------------------------------------------------------------------------
(* The systems of one step, in the order Step runs them *)

Hostile(a, b) == a # b
Ally(a, b) == a = b

\* Guardians: primary the best-priority hostile in the aggro ring (logistics
\* before EWAR before the rest, then the nearest, then the first visited).
EwarKinds == {"Jammer", "Web", "WarpDisruptor", "SensorDamp"}
TargetCombatPriority(fit) ==
    LET kinds == {FITS[fit].mods[i].kind : i \in DOMAIN FITS[fit].mods} IN
    IF "RemoteRep" \in kinds THEN 2 ELSE IF kinds \cap EwarKinds # {} THEN 1 ELSE 0

PrimaryTarget(s, id) ==
    LET D(i) == Dist(s.ents[id].pos, s.ents[i].pos)
        P(i) == TargetCombatPriority(s.ents[i].fit)
        InAggro == {i \in DOMAIN s.ents : /\ s.ents[i].kind \in Armed
                                          /\ s.ents[i].owner # 0
                                          /\ s.ents[i].hp.hull > 0
                                          /\ D(i) <= AGGRO_RANGE}
        Beats(i, j) == \/ P(i) > P(j)
                       \/ P(i) = P(j) /\ D(i) < D(j)
                       \/ P(i) = P(j) /\ D(i) = D(j) /\ s.ents[i].slot <= s.ents[j].slot
    IN IF InAggro = {} THEN 0 ELSE CHOOSE i \in InAggro : \A j \in InAggro : Beats(i, j)

AiSystem(s) ==
    LET Decide(id) ==
          LET e == s.ents[id]
              flee == 100 * e.hp.hull <= FLEE_PCT * MaxHp(e.fit).hull
              prey == PrimaryTarget(s, id)
          IN IF ~flee /\ prey # 0 THEN [NoOrder EXCEPT !.type = "Attack", !.tgt = prey]
             ELSE [NoOrder EXCEPT !.type = "Move", !.at = e.home]
    IN FoldLeft(LAMBDA t, id : [t EXCEPT !.ents[id].ord.cur = Decide(id)], s, ForEach(s, {"Npc"}))

NearestHostileInRange(s, id, range) ==
    LET e == s.ents[id]
        D(i) == Dist(e.pos, s.ents[i].pos)
        Near == {i \in DOMAIN s.ents \ {id} : /\ s.ents[i].kind \in Armed
                                              /\ s.ents[i].hp.hull > 0
                                              /\ Hostile(e.owner, s.ents[i].owner)
                                              /\ D(i) <= range}
    IN IF Near = {} THEN 0
       ELSE CHOOSE i \in Near : \A j \in Near : D(i) < D(j) \/ (D(i) = D(j) /\ i <= j)

\* The most damaged ally in range whose layer is not full.
FindRepTarget(s, id, m) ==
    LET e == s.ents[id]
        Full(i) == MaxHp(s.ents[i].fit)[m.layer]
        Cur(i) == s.ents[i].hp[m.layer]
        Near == {i \in DOMAIN s.ents \ {id} : /\ s.ents[i].kind \in Armed
                                              /\ Ally(e.owner, s.ents[i].owner)
                                              /\ s.ents[i].hp.hull > 0
                                              /\ Cur(i) < Full(i)
                                              /\ Dist(e.pos, s.ents[i].pos) <= m.range}
        Worse(i, j) == Cur(i) * Full(j) < Cur(j) * Full(i)
    IN IF Near = {} THEN 0
       ELSE CHOOSE i \in Near : \A j \in Near : Worse(i, j) \/ (~Worse(j, i) /\ i <= j)

RunRemoteRep(s, id, i, m) ==
    LET ally == FindRepTarget(s, id, m)
        p == s.ents[id].mods[i].pend + m.strength
        t == [s EXCEPT !.ents[id].mods[i].pend = p % 100]
    IN IF ally = 0 THEN s
       ELSE [t EXCEPT !.ents[ally].hp =
                RemoteRep(@, MaxHp(s.ents[ally].fit), m.layer, p \div 100)]

\* EWAR follows the unit's attack target; a base projects on the nearest hostile.
EwarTarget(s, id, m) ==
    LET e == s.ents[id] IN
    IF /\ e.ord.cur.type = "Attack"
       /\ Hostile(e.owner, IF Is(s, e.ord.cur.tgt, Armed) THEN s.ents[e.ord.cur.tgt].owner ELSE 0)
    THEN e.ord.cur.tgt
    ELSE IF e.kind = "Base" THEN NearestHostileInRange(s, id, m.range) ELSE 0

\* Mutant: a disruptor marks the target and does not interrupt its drive.
RunEwarNoInterrupt(s, id, m) ==
    LET tgt == EwarTarget(s, id, m) IN
    IF Is(s, tgt, Armed) /\ Dist(s.ents[id].pos, s.ents[tgt].pos) <= m.range
    THEN [s EXCEPT !.ents[tgt].ewar = ApplyTackle(@, m.dur)] ELSE s
RunEwar(s, id, m) ==
    LET tgt == EwarTarget(s, id, m)
        E(t) == CASE m.kind = "Jammer"        -> [t EXCEPT !.ewar = ApplyJam(@, m.dur)]
                  [] m.kind = "Web"           -> [t EXCEPT !.ewar = ApplyWeb(@, m.strength, m.dur)]
                  [] m.kind = "SensorDamp"    -> [t EXCEPT !.ewar = ApplySensorDamp(@, m.strength, m.dur)]
                  [] m.kind = "WarpDisruptor" /\ t.kind \in Movers ->
                       [t EXCEPT !.ewar = ApplyTackle(@, m.dur), !.nav.intr = TRUE]
                  [] m.kind = "WarpDisruptor" /\ t.kind \notin Movers ->
                       [t EXCEPT !.ewar = ApplyTackle(@, m.dur)]
    IN IF Is(s, tgt, Armed) /\ Dist(s.ents[id].pos, s.ents[tgt].pos) <= m.range
       THEN [s EXCEPT !.ents[tgt] = E(@)] ELSE s

\* A jammed unit runs no targeted module at all.
EwarLogiSystem(s) ==
    LET Run(t, id, i) ==
          LET m == Module(t.ents[id].fit, i) IN
          IF m.kind = "RemoteRep" THEN RunRemoteRep(t, id, i, m)
          ELSE IF m.kind \in EwarKinds THEN RunEwar(t, id, m) ELSE t
        Unit(t, id) ==
          IF t.ents[id].ewar.jam > 0 THEN t
          ELSE FoldLeft(LAMBDA r, i : Run(r, id, i), t, [i \in DOMAIN t.ents[id].mods |-> i])
    IN FoldLeft(Unit, s, ForEach(s, Armed))

\* Steer each unit toward its order's point or target; finish or drop the
\* order when it is reached or its target is gone.
AdvanceOrder(ord) ==
    IF ord.q = <<>> THEN [ord EXCEPT !.cur = NoOrder]
    ELSE [cur |-> Head(ord.q), q |-> Tail(ord.q)]

AttackStandoff(fit) == (WeaponRange(fit) * 9) \div 10

FleetOrderSystem(s) ==
    LET Steer(t, id) ==
          LET e == t.ents[id]
              o == e.ord.cur
              maxStep == (FITS[e.fit].speed * e.ewar.web) \div 100
              ring == IF o.type = "Attack" THEN AttackStandoff(e.fit) ELSE o.range
              Go(at, range) == StepStandoff(e.pos, at, maxStep, range)
          IN CASE o.type = "Idle" -> t
               [] o.type \in {"Move", "Retreat"} ->
                    [t EXCEPT !.ents[id].pos = Go(o.at, 0).pos,
                              !.ents[id].ord = IF Go(o.at, 0).there THEN AdvanceOrder(@) ELSE @]
               [] o.type \in {"Attack", "Guard", "Orbit", "KeepRange"} ->
                    IF o.tgt \in DOMAIN t.ents
                    THEN [t EXCEPT !.ents[id].pos = Go(t.ents[o.tgt].pos, ring).pos]
                    ELSE [t EXCEPT !.ents[id].ord = AdvanceOrder(@)]
    IN FoldLeft(Steer, s, ForEach(s, Armed))

TickWeaponCooldowns(s, id) ==
    [s EXCEPT !.ents[id].mods = [i \in DOMAIN @ |->
        IF Module(s.ents[id].fit, i).kind = "Weapon" THEN [@[i] EXCEPT !.cd = Hi(0, @ - 1)] ELSE @[i]]]

\* The damage a shot does to a unit, seen from where it was fired.
Blow(s, tgt, m, dist) ==
    LET e == s.ents[tgt] IN
    ApplyTypedDamage(e.hp, FITS[e.fit].resist[m.type],
                     ResolveShotDamage(m, dist, FITS[e.fit].sig,
                                       (FITS[e.fit].speed * e.ewar.web) \div 100))

\* c is [s, shots, kills]: shots are spawned and kills resolved after the loop.
FireWeapons(c, id, tgt) ==
    LET Fire(b, i) ==
          LET e == b.s.ents[id]
              t == b.s.ents[tgt]
              m == Module(e.fit, i)
              dist == Dist(e.pos, t.pos)
              cooled == [b EXCEPT !.s.ents[id].mods[i].cd = Hi(0, @ - 1)]
              fired == [b EXCEPT !.s.ents[id].mods[i].cd = m.reload]
              blow == Blow(b.s, tgt, m, dist)
          IN CASE m.kind # "Weapon" -> b
               [] m.kind = "Weapon" /\ (\/ e.ewar.jam > 0 \/ e.mods[i].cd > 1
                                        \/ ~InEngagementRange(m, dist, e.ewar.damp)) -> cooled
               [] OTHER ->
                    IF m.vel > 0
                    THEN [fired EXCEPT !.shots = Append(@,
                            [kind |-> "Proj", pos |-> e.pos, src |-> id, tgt |-> tgt, mod |-> m,
                             vel |-> IF t.pos > e.pos THEN m.vel
                                     ELSE IF t.pos < e.pos THEN -m.vel ELSE 0,
                             origin |-> e.pos,
                             ttl |-> (3 * SUB_STEPS * (m.optimal + m.falloff)) \div (2 * m.vel) + 1])]
                    ELSE [fired EXCEPT !.s.ents[tgt].hp = blow.hp,
                                       !.kills = IF blow.out = "Killed"
                                                 THEN Append(@, <<tgt, id>>) ELSE @]
    IN IF Is(c.s, tgt, Armed) THEN FoldLeft(Fire, c, [i \in DOMAIN c.s.ents[id].mods |-> i])
       ELSE [c EXCEPT !.s = TickWeaponCooldowns(@, id)]

\* A destroyed ship leaves half its cargo.  The position is read through a
\* pointer into the Transform storage after a component was added to it: when
\* that storage has grown, the read is of freed memory (stale).
SpawnLoot(s, id, stale) ==
    LET e == s.ents[id]
        items == [i \in Slots |-> (e.cargo[i] * LOOT_PCT) \div 100]
        t == NewEntity(s, [kind |-> "Loot", items |-> items,
                              pos |-> IF stale THEN GARBAGE_POS ELSE e.pos])
    IN [t EXCEPT !.econ = Append(@, EconEvent("LootDrop", s.next, id, SumSlots(items)))]

OnUnitKilled(s, victim, killer, stale) ==
    LET e == s.ents[victim]
        value == MaxHp(e.fit).shield + MaxHp(e.fit).armor + MaxHp(e.fit).hull
        t == [s EXCEPT !.mails = Append(@, <<victim, killer>>),
                       !.econ = Append(@, EconEvent("Killmail", victim, killer, value))]
    IN IF e.kind = "Base" THEN s
       ELSE DestroyUnit(IF e.kind = "Ship" THEN SpawnLoot(t, victim, stale) ELSE t, victim)

\* Resolve the queued kills once each; a unit that is gone or has hull is skipped.
ProcessKills(s, kills, stale) ==
    FoldLeft(LAMBDA t, k : IF Is(t, k[1], Armed) /\ t.ents[k[1]].hp.hull <= 0
                           THEN OnUnitKilled(t, k[1], k[2], stale) ELSE t, s, kills)

\* Units fire under an Attack order, then Active bases at the nearest hostile.
CombatSystem(s, stale) ==
    LET Unit(c, id) ==
          IF c.s.ents[id].ord.cur.type = "Attack" THEN FireWeapons(c, id, c.s.ents[id].ord.cur.tgt)
          ELSE [c EXCEPT !.s = TickWeaponCooldowns(@, id)]
        BaseUnit(c, id) ==
          LET e == c.s.ents[id]
              tgt == NearestHostileInRange(c.s, id, WeaponRange(e.fit))
          IN IF e.bc.state = "Active" /\ tgt # 0 THEN FireWeapons(c, id, tgt)
             ELSE [c EXCEPT !.s = TickWeaponCooldowns(@, id)]
        units == FoldLeft(Unit, [s |-> s, shots |-> <<>>, kills |-> <<>>],
                          ForEach(s, {"Ship", "Npc"}))
        all == FoldLeft(BaseUnit, units, ForEach(s, {"Base"}))
    IN ProcessKills(FoldLeft(NewEntity, all.s, all.shots), all.kills, stale)

ProjectileSystem(s, stale) ==
    LET Fly(c, id) ==
          LET p == c.s.ents[id]
              sig == FITS[c.s.ents[p.tgt].fit].sig
              r == StepProjectile(p.pos, p.vel, c.s.ents[p.tgt].pos, p.ttl,
                                  Hi(sig, MIN_HIT_RADIUS), SUB_STEPS)
              blow == Blow(c.s, p.tgt, p.mod, Dist(p.origin, r.pos))
              Moved(pos, ttl) == [c EXCEPT !.s.ents[id].pos = pos, !.s.ents[id].ttl = ttl,
                                           !.gone = IF ttl <= 0 THEN Append(@, id) ELSE @]
          IN CASE ~Is(c.s, p.tgt, Armed) -> Moved(p.pos + p.vel, p.ttl - SUB_STEPS)
               [] Is(c.s, p.tgt, Armed) /\ ~r.hit -> Moved(r.pos, r.ttl)
               [] Is(c.s, p.tgt, Armed) /\ r.hit ->
                    [c EXCEPT !.s.ents[p.tgt].hp = blow.hp,
                              !.kills = IF blow.out = "Killed" THEN Append(@, <<p.tgt, p.src>>) ELSE @,
                              !.gone = Append(@, id)]
        flown == FoldLeft(Fly, [s |-> s, gone |-> <<>>, kills |-> <<>>], ForEach(s, {"Proj"}))
    IN ProcessKills(FoldLeft(DestroyUnit, flown.s, flown.gone), flown.kills, stale)

RegenSystem(s) ==
    FoldLeft(LAMBDA t, id : [t EXCEPT
                 !.ents[id].hp = RegenDefenses(@, MaxHp(t.ents[id].fit), Regen(t.ents[id].fit)),
                 !.ents[id].ewar = TickEwar(@)], s, ForEach(s, Armed))

\* A base with a broken hull retreats, keeps a quarter of it and loses its
\* stores once; after its retreat it is disabled, never removed.
BaseRetreatSystem(s) ==
    LET Check(t, id) ==
          LET e == t.ents[id]
              max == MaxHp(e.fit).hull
              lost == IF e.bc.cargoLost THEN t.econ
                      ELSE Append(t.econ, EconEvent("CargoLost", id, 0, SumSlots(e.storage)))
          IN CASE e.bc.state = "Active" /\ 100 * e.hp.hull <= RETREAT_PCT * max ->
                    [t EXCEPT !.ents[id] = [e EXCEPT
                                  !.bc = [state |-> "Retreating", left |-> RETREAT_STEPS, cargoLost |-> TRUE],
                                  !.hp.hull = Hi(@, max \div 4),
                                  !.storage = IF e.bc.cargoLost THEN @ ELSE Empty],
                              !.econ = lost, !.alerts = Append(@, id)]
               [] e.bc.state = "Retreating" ->
                    [t EXCEPT !.ents[id].bc.left = @ - 1,
                              !.ents[id].bc.state = IF e.bc.left <= 1 THEN "Disabled" ELSE @]
               [] OTHER -> t
    IN FoldLeft(Check, s, ForEach(s, {"Base"}))

NavigationSystem(s) ==
    LET Travel(t, id) ==
          LET r == StepNav(t.ents[id].nav, t.ents[id].pos, NAV.cooldown)
          IN [t EXCEPT !.ents[id].nav = r.nav, !.ents[id].pos = r.pos]
    IN FoldLeft(Travel, s, ForEach(s, Movers))

\* The harvest autopilot: node, mine, base, deposit, and round again.
HarvestSystem(s) ==
    LET Drive(t, id) ==
          LET e == t.ents[id]
              h == e.harv
              rich == Is(t, h.node, {"Node"}) /\ t.ents[h.node].remaining > 0
              home == Is(t, h.base, {"Base"})
              Near(x) == Dist(e.pos, t.ents[x].pos) <= ECON.range
              Phase(f) == [t EXCEPT !.ents[id].harv.phase = f]
              Fly(x) == [t EXCEPT !.ents[id].pos = StepToward(@, t.ents[x].pos, ECON.speed)]
              got == HarvestStep(t.ents[h.node].remaining, e.cargo, ECON.cargo, ECON.rate)
              slot == t.ents[h.node].res
              put == Transfer(e.cargo, t.ents[h.base].storage, ECON.storage)
          IN CASE h.phase = "Idle" -> t
               [] h.phase = "ToNode" ->
                    IF ~rich THEN Phase(IF SumSlots(e.cargo) > 0 THEN "ToBase" ELSE "Idle")
                    ELSE IF Near(h.node) THEN Phase("Harvesting") ELSE Fly(h.node)
               [] h.phase = "Harvesting" /\ ~rich -> Phase("ToBase")
               [] h.phase = "Harvesting" /\ rich ->
                    [t EXCEPT !.ents[h.node].remaining = @ - got,
                              !.ents[id].cargo[slot] = @ + got,
                              !.ents[id].harv.phase =
                                 IF Free(e.cargo, ECON.cargo) <= got THEN "ToBase" ELSE @]
               [] h.phase = "ToBase" ->
                    IF ~home THEN Phase("Idle")
                    ELSE IF Near(h.base) THEN Phase("Depositing") ELSE Fly(h.base)
               [] h.phase = "Depositing" ->
                    LET next == IF rich THEN "ToNode" ELSE "Idle" IN
                    IF ~home THEN Phase(next)
                    ELSE [t EXCEPT !.ents[id].cargo = put.from, !.ents[id].harv.phase = next,
                                   !.ents[h.base].storage = put.to]
    IN FoldLeft(Drive, s, ForEach(s, {"Ship"}))

\* Finished ships appear after the loop; one over the fleet cap does not.
BuildSystem(s) ==
    LET Work(c, id) ==
          LET e == c.s.ents[id]
              r == BuildStep(e.build, e.storage, ECON.cost, ECON.seconds)
          IN [s |-> [c.s EXCEPT !.ents[id].build = r.q, !.ents[id].storage = r.storage],
              done |-> IF r.result = "Completed" THEN Append(c.done, <<e.owner, e.pos>>) ELSE c.done]
        Launch(t, d) ==
          LET v == SpawnFleetShip(t, d[1], d[2])
          IN IF v.next = t.next THEN t ELSE [v EXCEPT !.built = Append(@, t.next)]
        worked == FoldLeft(Work, [s |-> s, done |-> <<>>], ForEach(s, {"Base"}))
    IN FoldLeft(Launch, worked.s, worked.done)

Combat(s, stale) ==
    BaseRetreatSystem(RegenSystem(ProjectileSystem(
        CombatSystem(FleetOrderSystem(EwarLogiSystem(s)), stale), stale)))

StepAll(s, stale) ==
    BuildSystem(HarvestSystem(NavigationSystem(Combat(AiSystem(s), stale))))

---------------------------------------------------------------------------
(* The specification *)

\* The loop drains the queues of econ events, killmails, finished ships and
\* alerts, in order, in every frame: here they hold what the last action added.
\* (The server never drains the list of cleared sites.)
Drained(s) == [s EXCEPT !.econ = <<>>, !.mails = <<>>, !.built = <<>>, !.alerts = <<>>]

Init ==
    /\ script \in Scenes
    /\ u = script.world
    /\ orders = 0

\* A client's command, as ServerHost hands it over.
Command ==
    \E c \in script.commands :
        /\ orders < script.orders
        /\ u' = ApplyFleetCommand(Drained(u), c)
        /\ orders' = orders + 1
        /\ UNCHANGED script

\* A login spawns the player's base; a disconnect or timeout removes it.
Login ==
    \E pos \in script.logins :
        /\ orders < script.orders
        /\ u' = SpawnBase(Drained(u), pos)
        /\ orders' = orders + 1
        /\ UNCHANGED script

Logout ==
    \E b \in script.logouts :
        /\ orders < script.orders
        /\ Is(u, b, {"Base"})
        /\ u' = DespawnBase(Drained(u), b)
        /\ orders' = orders + 1
        /\ UNCHANGED script

Step ==
    \E stale \in BOOLEAN :
        /\ u.next <= MAX_NET_ID
        /\ u' = StepAll(Drained(u), stale)
        /\ UNCHANGED <<script, orders>>

Next == Command \/ Login \/ Logout \/ Step

Spec == Init /\ [][Next]_vars

---------------------------------------------------------------------------
(* Properties *)

Units(s, kinds) == {i \in DOMAIN s.ents : s.ents[i].kind \in kinds}
Total(S, f(_)) == MapThenSumSet(f, S)

\* The entity table: ids below the next one, every live entity in a slot of
\* its own, freed slots free; and holds, yields and hit points in range.
WorldOK ==
    /\ \A i \in DOMAIN u.ents : i < u.next /\ u.ents[i].slot < u.fresh
    /\ \A i, j \in DOMAIN u.ents : i # j => u.ents[i].slot # u.ents[j].slot
    /\ Len(u.free) + Cardinality(DOMAIN u.ents) = u.fresh - 1
    /\ \A i \in DOMAIN u.ents : u.ents[i].slot \notin Range(u.free)
    /\ \A i \in Units(u, Armed), l \in Range(Layers) :
          u.ents[i].hp[l] \in 0..MaxHp(u.ents[i].fit)[l]
    /\ \A i \in Units(u, {"Ship"}) : u.ents[i].cargo \in [Slots -> Nat]
    /\ \A i \in Units(u, {"Base"}) : u.ents[i].storage \in [Slots -> Nat]
    /\ \A i \in Units(u, {"Node"}) : u.ents[i].remaining >= 0

\* However harvests, claims and deposits interleave, no hold is overfull.
HoldsWithinCapacity ==
    /\ \A i \in Units(u, {"Ship"}) : SumSlots(u.ents[i].cargo) <= ECON.cargo
    /\ \A i \in Units(u, {"Base"}) : SumSlots(u.ents[i].storage) <= ECON.storage

\* Builds that finish together, or after the fleet grew by other means, never
\* take a player over the fleet cap.
FleetWithinCap ==
    \A b \in {u.ents[i].owner : i \in Units(u, {"Ship"})} : OwnedShipCount(u, b) <= ECON.fleetCap

\* A site's count is its live guardians, and a site is reported cleared once,
\* exactly when the last of them is gone, whatever killed them in what order.
SitesCounted ==
    /\ \A x \in DOMAIN u.alive :
          u.alive[x] = Cardinality({i \in Units(u, {"Npc"}) : u.ents[i].site = x})
    /\ Range(u.cleared) = {x \in DOMAIN u.alive : u.alive[x] = 0}
    /\ IsInjective(u.cleared)

\* A unit whose hull is gone is destroyed by the step that broke it, as the
\* site-cleared and kill reports assume (ApplyTypedDamage returns the layer
\* that broke).  Rounding can empty the hull without reporting it broken.
NobodyFliesDead == \A i \in Units(u, {"Ship", "Npc"}) : u.ents[i].hp.hull > 0

\* What a step produced for the ledger.
NewEvents(type) ==
    SelectSeq(u'.econ, LAMBDA e : e.type = type)
Gone(kinds) == Units(u, kinds) \ DOMAIN u'.ents
Values(type) == SumSlots([i \in DOMAIN NewEvents(type) |-> NewEvents(type)[i].value])

\* Every destroyed ship or guardian has exactly one killmail and one ledger
\* event, a ship exactly one loot drop whose container is in the world, and
\* nothing else has any: several blows in one step still make one kill.
KillsAccounted ==
    [][LET dead == Gone({"Ship", "Npc"})
           lost == Gone({"Ship"})
       IN /\ {m[1] : m \in Range(u'.mails)} = dead
          /\ Len(u'.mails) = Cardinality(dead)
          /\ {e.a : e \in Range(NewEvents("Killmail"))} = dead
          /\ Len(NewEvents("Killmail")) = Cardinality(dead)
          /\ {e.b : e \in Range(NewEvents("LootDrop"))} = lost
          /\ Len(NewEvents("LootDrop")) = Cardinality(lost)
          /\ \A e \in Range(NewEvents("LootDrop")) : Is(u', e.a, {"Loot"})]_vars

Stock(s) ==
    Total(Units(s, {"Node"}), LAMBDA i : s.ents[i].remaining)
      + Total(Units(s, {"Ship"}), LAMBDA i : SumSlots(s.ents[i].cargo))
      + Total(Units(s, {"Base"}), LAMBDA i : SumSlots(s.ents[i].storage))
      + Total(Units(s, {"Loot"}), LAMBDA i : SumSlots(s.ents[i].items))

\* Resources leave the world only by a build's price, by what a ledger event
\* says (a base's lost stores, what a wreck does not drop, what a claim could
\* not take) or with a base that logs out; nothing appears from nowhere.
StockAudited ==
    [][LET started == {b \in Units(u, {"Base"}) \cap DOMAIN u'.ents :
                          ~u.ents[b].build.paid /\ u'.ents[b].build.paid}
       IN Stock(u) - Stock(u') =
            SumSlots(ECON.cost) * Cardinality(started)
              + Values("CargoLost")
              + Total(Gone({"Ship"}), LAMBDA i : SumSlots(u.ents[i].cargo)) - Values("LootDrop")
              + Total(Gone({"Loot"}), LAMBDA i : SumSlots(u.ents[i].items)) - Values("LootClaim")
              + Total(Gone({"Base"}), LAMBDA i : SumSlots(u.ents[i].storage))]_vars

\* A paid build that ends has put a ship into the owner's fleet, unless that
\* fleet was full: then the price is lost (BuildSystem ignores the refusal).
PaidBuildDelivers ==
    [][\A b \in Units(u, {"Base"}) \cap DOMAIN u'.ents :
         u.ents[b].build.paid /\ ~u'.ents[b].build.active =>
           \/ \E n \in Range(u'.built) : n \notin DOMAIN u.ents /\ u'.ents[n].owner = u.ents[b].owner
           \/ OwnedShipCount(u', u.ents[b].owner) >= ECON.fleetCap]_vars

\* No amount of fire removes a base: only its player's leaving does.
BasesSurviveCombat == [][orders' = orders => Gone({"Base"}) = {}]_vars

\* A command changes units of one player only, and another player's property
\* only by taking a loot container.
OnlyOwnUnits ==
    [][orders' # orders =>
         \E p \in {u.ents[i].owner : i \in Units(u, Armed)} \cup {0} :
            \A i \in Units(u, Armed \cup {"Node", "Proj"}) :
               \/ Is(u', i, {u.ents[i].kind}) /\ u'.ents[i] = u.ents[i]
               \/ u.ents[i].kind \in Armed /\ u.ents[i].owner = p]_vars

\* Fuel is spent exactly when a spool starts, by exactly its price, and a unit
\* is on a beacon with its drive cooling only after a spool it paid for.
JumpsArePaid ==
    [][\A i \in Units(u, Movers) \cap DOMAIN u'.ents :
         LET a == u.ents[i]  b == u'.ents[i] IN
         /\ a.fuel - b.fuel =
              IF a.nav.phase # "Spool" /\ b.nav.phase = "Spool" THEN JumpFuel(a.kind) ELSE 0
         /\ a.nav.phase # "Cooldown" /\ b.nav.phase = "Cooldown" =>
              a.nav.phase = "Spool" /\ \E k \in DOMAIN BEACONS : b.pos = BEACONS[k].pos]_vars

\* A unit is held by an enemy that attacks it with a disruptor in range and
\* was not jammed: it drops out of its warp or spool and goes nowhere by it.
Holds(t, x) ==
    LET e == u.ents[t] IN
    /\ e.ord.cur.type = "Attack" /\ e.ord.cur.tgt = x /\ e.owner # u.ents[x].owner
    /\ e.ewar.jam = 0 /\ (t \in DOMAIN u'.ents => u'.ents[t].ewar.jam = 0)
    /\ \E m \in Range(FITS[e.fit].mods) :
          m.kind = "WarpDisruptor" /\ Dist(e.pos, u.ents[x].pos) <= m.range
HeldDown ==
    [][u'.ents # u.ents /\ orders' = orders =>
         \A x \in Units(u, Movers) \cap DOMAIN u'.ents :
            /\ \E t \in Units(u, {"Ship"}) : Holds(t, x)
            /\ u.ents[x].nav.phase \in {"Warp", "Spool"}
            => /\ u'.ents[x].nav.phase = "Idle"
               /\ Dist(u.ents[x].pos, u'.ents[x].pos) <= FITS[u.ents[x].fit].speed]_vars

\* The harvest autopilot makes progress in every step: more of the yield is
\* stowed or delivered, or the trip's next leg begins, or the leg's distance
\* shrinks.  The measure is well founded, so every harvest ends.  Excused: a
\* ship pulled by an order (OrderHarvest does not clear the fleet order) or
\* travelling, a base that moves, and a full store, where the ship shuttles on.
Leg(s, h) ==    \* an orphaned deposit is followed by one last round
    CASE h.phase = "Depositing" -> IF Is(s, h.base, {"Base"}) THEN 1 ELSE 5
      [] OTHER -> [ToNode |-> 4, Harvesting |-> 3, ToBase |-> 2, Idle |-> 0][h.phase]
Undelivered(s, i) ==
    LET h == s.ents[i].harv IN
    SumSlots(s.ents[i].cargo) + IF Is(s, h.node, {"Node"}) THEN 2 * s.ents[h.node].remaining ELSE 0
LegDistance(s, i) ==
    LET h == s.ents[i].harv
        goal == IF h.phase = "ToNode" THEN h.node ELSE IF h.phase = "ToBase" THEN h.base ELSE 0
    IN IF goal \in DOMAIN s.ents THEN Dist(s.ents[i].pos, s.ents[goal].pos) ELSE 0
AtEase(s, i) == s.ents[i].ord.cur.type = "Idle" /\ s.ents[i].nav.phase = "Idle"
HarvestProgresses ==
    [][orders' = orders /\ u.next <= MAX_NET_ID =>
         \A i \in Units(u, {"Ship"}) \cap DOMAIN u'.ents :
            LET a == u.ents[i].harv
                b == u'.ents[i].harv
            IN \/ a.phase = "Idle" \/ ~AtEase(u, i)
               \/ Is(u, a.base, {"Base"}) /\ (\/ ~AtEase(u, a.base)
                                             \/ Free(u.ents[a.base].storage, ECON.storage) = 0)
               \/ Undelivered(u', i) < Undelivered(u, i)
               \/ /\ Undelivered(u', i) = Undelivered(u, i)
                  /\ \/ Leg(u', b) < Leg(u, a)
                     \/ b.phase = a.phase /\ LegDistance(u', i) < LegDistance(u, i)]_vars

(* The world is consistent after every command and step: ids, slots, hit   *)
(* points, holds, fleets and site counts (ServerUniverse.h).               *)
WorldInv == WorldOK /\ HoldsWithinCapacity /\ FleetWithinCap /\ SitesCounted

(* Nothing is created or lost unaccounted: every kill has its mail, event  *)
(* and container, every resource that leaves the world is a price, a       *)
(* reported loss or a departed base, and a build that was paid for         *)
(* delivers (ProcessKills, OnUnitKilled, ClaimLoot, TickBuild).            *)
ResourcesAccounted == KillsAccounted /\ StockAudited /\ PaidBuildDelivers

(* Units do only what their players and the rules allow: they obey their   *)
(* owner, pay for a jump, are held by a disruptor, and no fire removes a   *)
(* base (ApplyFleetCommand, BeginJumpTo, RunEwar).                         *)
OrdersObeyed == OnlyOwnUnits /\ JumpsArePaid /\ HeldDown /\ BasesSurviveCombat
=============================================================================
