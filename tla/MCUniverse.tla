---------------------------- MODULE MCUniverse ----------------------------
(***************************************************************************)
(* Instances of Universe: a mining base, a fight over a guardian site, two *)
(* bases in range of each other, and a chase between two jump beacons; and *)
(* the entity store underneath by itself, a part of its own.               *)
(***************************************************************************)
EXTENDS Universe, Ecs

VARIABLE part   \* what a behaviour is about: "world" or "ecs"

NoModule == [kind |-> "None", type |-> "Kinetic", dmg |-> 0, optimal |-> 0, falloff |-> 0,
             tracking |-> 0, reload |-> 1, vel |-> 0, layer |-> "shield", strength |-> 0,
             dur |-> 0, range |-> 0]
Laser == [NoModule EXCEPT !.kind = "Weapon", !.dmg = 290, !.optimal = 3, !.falloff = 2,
                          !.tracking = 20]
Railgun == [Laser EXCEPT !.dmg = 320, !.vel = 4, !.reload = 3]
Rep == [NoModule EXCEPT !.kind = "RemoteRep", !.layer = "armor", !.strength = 60, !.range = 4]
Web == [NoModule EXCEPT !.kind = "Web", !.strength = 50, !.dur = 2, !.range = 3]
Disruptor == [NoModule EXCEPT !.kind = "WarpDisruptor", !.dur = 2, !.range = 6]
Jammer == [NoModule EXCEPT !.kind = "Jammer", !.dur = 2, !.range = 5]
Damp == [NoModule EXCEPT !.kind = "SensorDamp", !.strength = 50, !.dur = 2, !.range = 6]
Plate == [NoModule EXCEPT !.kind = "ArmorPlate", !.strength = 1]

NoResist == [shield |-> 0, armor |-> 0, hull |-> 0]
Hull(mods) == [sig |-> 1, speed |-> 2, shield |-> 1, armor |-> 2, hull |-> 2, regen |-> 40,
               resist |-> [Kinetic |-> [NoResist EXCEPT !.shield = 40]], mods |-> mods]

MCFits ==
    [fighter |-> Hull(<<Laser>>), logi |-> Hull(<<Rep>>), tackle |-> Hull(<<Disruptor, Laser>>),
     jam |-> Hull(<<Jammer>>), guardian |-> Hull(<<Railgun, Web>>),
     base |-> [Hull(<<Laser, Damp, Plate>>) EXCEPT !.hull = 8, !.speed = 1]]
MCBeacons == <<[pos |-> 0, links |-> {2}], [pos |-> 30, links |-> {1}]>>
MCEcon == [cargo |-> 2, storage |-> 4, rate |-> 1, speed |-> 2, range |-> 1,
           cost |-> <<2, 0>>, seconds |-> 2, fleetCap |-> 2]
MCNav == [warpBase |-> 3, warpShip |-> 4, align |-> 1, fuelBase |-> 2, fuelShip |-> 1,
          spool |-> 2, cooldown |-> 2, tank |-> 2, use |-> 2]

Order(p, i, ids, t, x) ==
    [player |-> p, intent |-> i, units |-> ids, target |-> t, at |-> x, range |-> 1, queue |-> FALSE]
Chain(c) == [c EXCEPT !.queue = TRUE]
Ship(s, p, pos, fit) ==
    LET n == s.next IN [SpawnFleetShip(s, p, pos) EXCEPT
        !.ents[n] = InstallFit(fit) @@ @]
Scene(w, n, cs) ==
    [world |-> w, commands |-> cs, logins |-> {}, logouts |-> {}, orders |-> n]

\* 1 base, 2 harvester, 3 ore node, 4 a stranger's base, 5 an ice node.
Mining ==
    LET w1 == SpawnResourceNode(Ship(SpawnBase(EmptyWorld, 0), 1, 0, "fighter"), 1, 5, 5)
        w == SpawnResourceNode(SpawnBase(w1, 40), 2, 1, 5)
    IN [Scene(w, 3, {Order(1, "Harvest", <<2>>, 3, 0), Order(1, "Harvest", <<2>>, 5, 0),
                  Order(1, "Build", <<1>>, 0, 0), Order(1, "Move", <<2>>, 0, 3),
                  Order(1, "Stop", <<2, 1>>, 0, 0), Chain(Order(1, "Move", <<2>>, 0, 0)),
                  Order(4, "Move", <<4, 2>>, 0, 41), Order(1, "Orbit", <<2>>, 1, 0)})
        EXCEPT !.logouts = {1}]

\* 1 base, 2 damaged fighter, 3 logistics with cargo, 4 and 5 guardians of site 1.
Fight ==
    LET w1 == Ship(Ship(SpawnBase(EmptyWorld, 0), 1, 6, "fighter"), 1, 7, "logi")
        w == SpawnNpcSite([w1 EXCEPT !.ents[2].hp.armor = 1, !.ents[3].cargo = <<2, 0>>], 9, <<0, 4>>)
    IN Scene(w, 3, {Order(1, "Attack", <<2, 3>>, 4, 0), Chain(Order(1, "Attack", <<2>>, 5, 0)),
                 Order(1, "Retreat", <<2, 3>>, 0, 0), Order(1, "Guard", <<3>>, 2, 0)}
                    \cup {Order(1, "ClaimLoot", <<2>>, i, 0) : i \in 6..10})

\* Two bases, with stores, in range of each other.
Siege ==
    LET w1 == SpawnBase(SpawnBase(EmptyWorld, 0), 2)
        w == Ship([w1 EXCEPT !.ents[1].storage = <<3, 1>>], 2, 2, "fighter")
    IN [Scene(w, 2, {Order(1, "Retreat", <<1>>, 0, 0), Order(1, "Move", <<1>>, 0, -4),
                  Order(2, "Attack", <<3>>, 1, 0), Order(1, "Build", <<1>>, 0, 0)})
        EXCEPT !.logins = {4}, !.logouts = {2}]

\* 1 base and 2 its ship at a beacon, 3 a stranger's base, 4 a tackler, 5 a jammer.
Chase ==
    LET w1 == Ship(SpawnBase(EmptyWorld, 1), 1, 1, "fighter")
        w2 == SpawnBase(w1, 60)
        w == Ship(Ship(w2, 3, 6, "tackle"), 3, 6, "jam")
    IN Scene(w, 3, {Order(1, "Jump", <<2, 1>>, 2, 0), Order(1, "Warp", <<2>>, 0, 12),
                 Order(3, "Attack", <<4>>, 2, 0), Order(3, "Attack", <<5>>, 2, 0),
                 Order(1, "KeepRange", <<2>>, 4, 0)})

\* The dev seed next to one field, and a player who logs in at the site.
Genesis ==
    LET field == [center |-> -20, ring |-> <<1, -1>>, countMin |-> 2, yieldMin |-> 1, yieldMax |-> 3,
                  nodes |-> <<[type |-> 2, weight |-> 40], [type |-> 1, weight |-> 60]>>]
        w == SpawnDemoSeed(EmptyWorld, [fields |-> <<field>>],
                [base |-> 0, node |-> 5, yield |-> 3, harvester |-> 2, site |-> 30, ring |-> <<-1>>])
    IN [Scene(w, 2, {Order(3, "Build", <<3>>, 0, 0)}) EXCEPT !.logins = {32}, !.logouts = {3}]

MCScenes == {Mining, Fight, Siege, Chase, Genesis}

allVars == << part, vars, ecsVars >>
PartsInit ==
    /\ part \in {"world", "ecs"}
    /\ Init /\ (part = "ecs" => script = Mining)
    /\ EcsInit
WorldNext == part = "world" /\ Next /\ UNCHANGED << part, ecsVars >>
StoreNext == part = "ecs" /\ EcsNext /\ UNCHANGED << part, vars >>
PartsNext == WorldNext \/ StoreNext
PartsSpec == PartsInit /\ [][PartsNext]_allVars
=============================================================================
