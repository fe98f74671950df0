---------------------------- MODULE UniverseData ----------------------------
(* The universe layout from its text to a route on the starmap: the parser  *)
(* (datacook/UniverseSource.h), the rules, the codec and the lookups        *)
(* (UniverseData.h), the cook (datacook.cpp), the server's load             *)
(* (ServerUniverse::LoadUniverseFromCooked) and the client's route search   *)
(* (Starmap.h).  A text is the sequence of its tokens.  One axis stands for *)
(* three; weights and factors are in thousandths; of the tuning numbers     *)
(* only what the rules tell apart is kept.                                  *)
EXTENDS Cooked

CONSTANTS
    Numbers,        \* the words that are numbers, with their values
    NodeWords,      \* the words Type:weight, with what they mean
    U16,            \* values of a uint16, 65536
    Layouts         \* [ds, lost, cut]: a dataset, the token its text lost, the cells its file lost

VARIABLES
    layout,     \* the input
    text,       \* its tokens
    cursor,         \* the next token
    open,       \* the block being read, or Refused
    out,        \* the dataset read
    errors,     \* whether any error was reported
    stage,      \* parse, validate, refused, cooked, loaded or unloaded
    search      \* the route search in progress, or Refused

dataVars == << layout, text, cursor, open, out, errors, stage, search >>

(***************************************************************************)
(* The dataset                                                             *)
(***************************************************************************)
RegionDef(n) == [name |-> n, security |-> "high", lo |-> 0, hi |-> 0, yieldMult |-> 1]

BeaconDef(n) == [name |-> n, region |-> "", pos |-> 0, links |-> << >>, kind |-> "public"]

ResourceFieldDef(n) ==
    [name |-> n, region |-> "", center |-> 0, radius |-> 0, nodes |-> << >>,
     count |-> << 0, 0 >>, yield |-> << 0, 0 >>, respawn |-> 0]

NavKeys == << "warp_speed_ship", "warp_speed_base", "warp_align", "jump_fuel_ship", "jump_fuel_base",
              "jump_spool_ship", "jump_spool_base", "jump_cooldown", "beacon_range",
              "ship_fuel_max", "base_fuel_max" >>
NavTuning == [k \in Range(NavKeys) |-> 1]

EconomyKeys == << "fleet_cap", "cargo_capacity", "storage_capacity", "harvest_rate",
                  "sensor_range_ship", "sensor_range_base", "build_ore", "build_ice",
                  "build_seconds", "build_ship_type", "harvester_speed", "harvest_range" >>
Whole == {"fleet_cap", "build_ship_type"}
EconomyTuning == [k \in Range(EconomyKeys) |-> 1]

UniverseDataset ==
    [regions |-> << >>, beacons |-> << >>, fields |-> << >>, nav |-> NavTuning,
     economy |-> EconomyTuning]

\* The first of that name.
Find(items, n) == SelectSeq(items, LAMBDA x : x.name = n)
FindRegion(d, n) == Find(d.regions, n)
FindBeacon(d, n) == Find(d.beacons, n)

(***************************************************************************)
(* ParseUniverseSource                                                     *)
(***************************************************************************)
Tok(i) == IF i <= Len(text) THEN text[i] ELSE ""
Punctuation == {"{", "}", "="}
Nameless == {"tuning", "economy"}
Kinds == {"region", "beacon", "field"} \cup Nameless

Fresh(kind, name) ==
    [kind |-> kind,
     def |-> CASE kind = "region" -> RegionDef(name)
               [] kind = "beacon" -> BeaconDef(name)
               [] kind = "field" -> ResourceFieldDef(name)
               [] kind = "tuning" -> NavTuning
               [] kind = "economy" -> EconomyTuning]

\* needN and ParseI64 or ParseFloat on every value.
Are(v, n) == Len(v) = n /\ Range(v) \subseteq DOMAIN Numbers
Value(v) == Numbers[v[1]]

ApplyRegion(b, key, v) ==
    CASE key = "security" /\ Len(v) = 1 /\ Range(v) \subseteq {"high", "low", "null"} ->
            << [b EXCEPT !.security = v[1]] >>
      [] key = "bounds" /\ Are(v, 2) -> << [b EXCEPT !.lo = Value(v), !.hi = Numbers[v[2]]] >>
      [] key = "yield_mult" /\ Are(v, 1) -> << [b EXCEPT !.yieldMult = Value(v)] >>
      [] OTHER -> Refused

ApplyBeacon(b, key, v) ==
    CASE key = "region" /\ Len(v) = 1 -> << [b EXCEPT !.region = v[1]] >>
      [] key = "pos" /\ Are(v, 1) -> << [b EXCEPT !.pos = Value(v)] >>
      [] key = "links" -> << [b EXCEPT !.links = @ \o v] >>
      [] key = "kind" /\ Len(v) = 1 /\ Range(v) \subseteq {"public", "claimable"} ->
            << [b EXCEPT !.kind = v[1]] >>
      [] OTHER -> Refused

ApplyField(b, key, v) ==
    CASE key = "region" /\ Len(v) = 1 -> << [b EXCEPT !.region = v[1]] >>
      [] key = "center" /\ Are(v, 1) -> << [b EXCEPT !.center = Value(v)] >>
      [] key = "radius" /\ Are(v, 1) -> << [b EXCEPT !.radius = Value(v)] >>
      [] key = "nodes" /\ Range(v) \subseteq DOMAIN NodeWords ->
            << [b EXCEPT !.nodes = @ \o [i \in 1 .. Len(v) |-> NodeWords[v[i]]]] >>
      [] key = "count" /\ Are(v, 2) ->
            << [b EXCEPT !.count = << Value(v) % U16, Numbers[v[2]] % U16 >>] >>
      [] key = "yield" /\ Are(v, 2) -> << [b EXCEPT !.yield = << Value(v), Numbers[v[2]] >>] >>
      [] key = "respawn" /\ Are(v, 1) -> << [b EXCEPT !.respawn = Value(v)] >>
      [] OTHER -> Refused

ApplyTuning(b, key, v) ==
    IF key \in Range(NavKeys) /\ Are(v, 1) THEN << [b EXCEPT ![key] = Value(v)] >> ELSE Refused

\* setU says nothing of a word that is no number and keeps the default.
ApplyEconomy(b, key, v) ==
    CASE key \in Range(EconomyKeys) /\ Are(v, 1) ->
            << [b EXCEPT ![key] = IF key \in Whole THEN Value(v) % U16 ELSE Value(v)] >>
      [] key \in Whole /\ Len(v) = 1 /\ ~Are(v, 1) -> << b >>
      [] OTHER -> Refused

Apply(kind, b, key, v) ==
    CASE kind = "region" -> ApplyRegion(b, key, v)
      [] kind = "beacon" -> ApplyBeacon(b, key, v)
      [] kind = "field" -> ApplyField(b, key, v)
      [] kind = "tuning" -> ApplyTuning(b, key, v)
      [] kind = "economy" -> ApplyEconomy(b, key, v)

Error(next) == cursor' = next /\ errors' = TRUE /\ open' = open

OpenBlock ==
    LET kind == text[cursor]
        brace == cursor + (IF kind \in Nameless THEN 1 ELSE 2)
    IN  /\ stage = "parse" /\ open = Refused /\ cursor <= Len(text)
        /\ IF kind \notin Kinds \/ (kind \notin Nameless /\ Tok(cursor + 1) \in Punctuation \cup {""})
           THEN Error(cursor + 1)
           ELSE IF Tok(brace) # "{" THEN Error(brace)
           ELSE cursor' = brace + 1 /\ open' = Fresh(kind, Tok(cursor + 1)) /\ errors' = errors
        /\ UNCHANGED << layout, text, out, stage, search >>

\* Values end at the brace, or before a word an equals sign follows.
ValuesEnd(first) ==
    Min({ i \in first .. Len(text) + 1 : i > Len(text) \/ text[i] = "}" \/ Tok(i + 1) = "=" })

Assign ==
    /\ stage = "parse" /\ open # Refused /\ cursor <= Len(text) /\ text[cursor] # "}"
    /\ IF text[cursor] \in Punctuation \/ Tok(cursor + 1) # "=" THEN Error(cursor + 1)
       ELSE LET end == ValuesEnd(cursor + 2)
                def == Apply(open.kind, open.def, text[cursor], SubSeq(text, cursor + 2, end - 1))
            IN  IF def = Refused THEN Error(end)
                ELSE cursor' = end /\ open' = [open EXCEPT !.def = def[1]] /\ errors' = errors
    /\ UNCHANGED << layout, text, out, stage, search >>

With(d, b) ==
    CASE b.kind = "region" -> [d EXCEPT !.regions = Append(@, b.def)]
      [] b.kind = "beacon" -> [d EXCEPT !.beacons = Append(@, b.def)]
      [] b.kind = "field" -> [d EXCEPT !.fields = Append(@, b.def)]
      [] b.kind = "tuning" -> [d EXCEPT !.nav = b.def]
      [] b.kind = "economy" -> [d EXCEPT !.economy = b.def]

CloseBlock ==
    /\ stage = "parse" /\ open # Refused /\ cursor <= Len(text) /\ text[cursor] = "}"
    /\ cursor' = cursor + 1 /\ open' = Refused /\ out' = With(out, open)
    /\ UNCHANGED << layout, text, errors, stage, search >>

\* A block left open is an error and is dropped.
EndOfText ==
    /\ stage = "parse" /\ cursor > Len(text)
    /\ errors' = (errors \/ open # Refused) /\ open' = Refused
    /\ stage' = IF errors' THEN "refused" ELSE "validate"
    /\ UNCHANGED << layout, text, cursor, out, search >>

(***************************************************************************)
(* ValidateUniverseDataset                                                 *)
(***************************************************************************)
Names(items) == { items[i].name : i \in 1 .. Len(items) }
Unique(items) == "" \notin Names(items) /\ Cardinality(Names(items)) = Len(items)

ValidRegions(d) ==
    /\ Unique(d.regions)
    /\ \A i \in 1 .. Len(d.regions) : d.regions[i].lo <= d.regions[i].hi /\ d.regions[i].yieldMult >= 0

Linked(d, n) == IF FindBeacon(d, n) = << >> THEN {} ELSE Range(FindBeacon(d, n)[1].links)

ValidLink(d, b, l) == l # b.name /\ FindBeacon(d, l) # << >> /\ b.name \in Linked(d, l)

ValidBeacons(d) ==
    /\ Unique(d.beacons)
    /\ \A b \in Range(d.beacons) :
        /\ FindRegion(d, b.region) # << >>
        /\ b.kind = "claimable" => FindRegion(d, b.region)[1].security # "high"
        /\ \A l \in Range(b.links) : ValidLink(d, b, l)

Public(d) == { b.name : b \in { x \in Range(d.beacons) : x.kind = "public" } }

\* What links lead to from the beacons of S, staying within W.
Grow(d, S, W) ==
    LET grown[i \in Nat] ==
            IF i = 0 THEN S
            ELSE LET T == grown[i - 1] IN T \cup (UNION { Linked(d, n) : n \in T } \cap W)
    IN  grown[Cardinality(W)]

PublicConnected(d) ==
    LET pub == SelectSeq(d.beacons, LAMBDA b : b.kind = "public") IN
    Len(pub) > 1 => Public(d) \subseteq Grow(d, {pub[1].name}, Public(d))

ValidFields(d) ==
    /\ Unique(d.fields)
    /\ \A f \in Range(d.fields) :
        /\ FindRegion(d, f.region) # << >>
        /\ f.radius > 0 /\ f.nodes # << >> /\ \A i \in 1 .. Len(f.nodes) : f.nodes[i].weight > 0
        /\ FoldLeft(LAMBDA acc, n : acc + n.weight, 0, f.nodes) \in 999 .. 1001
        /\ f.count[1] <= f.count[2] /\ f.yield[1] <= f.yield[2]

NavPositive == {"warp_speed_ship", "warp_speed_base", "beacon_range", "ship_fuel_max", "base_fuel_max"}
EconomyPositive == {"cargo_capacity", "storage_capacity", "harvest_rate", "build_seconds",
                    "harvester_speed", "harvest_range"}
ValidTuning(d) ==
    /\ \A k \in DOMAIN d.nav : d.nav[k] >= (IF k \in NavPositive THEN 1 ELSE 0)
    /\ d.economy["fleet_cap"] \in 1 .. 64
    /\ \A k \in DOMAIN d.economy \ Whole : d.economy[k] >= (IF k \in EconomyPositive THEN 1 ELSE 0)

ValidateUniverseDataset(d) ==
    ValidRegions(d) /\ ValidBeacons(d) /\ PublicConnected(d) /\ ValidFields(d) /\ ValidTuning(d)

(***************************************************************************)
(* The codec                                                               *)
(***************************************************************************)
Keyed(keys, f) == [i \in 1 .. Len(keys) |-> f[keys[i]]]
Unkeyed(keys, v) == [k \in Range(keys) |-> v[CHOOSE i \in 1 .. Len(keys) : keys[i] = k]]

EncodeUniverseDataset(d) ==
    WriteBuffer
    \o PutList(d.regions, LAMBDA r : << r.name, r.security, r.lo, r.hi, r.yieldMult >>)
    \o PutList(d.beacons, LAMBDA b :
            << b.name, b.region, b.pos, b.kind >> \o PutList(b.links, LAMBDA l : << l >>))
    \o PutList(d.fields, LAMBDA f :
            << f.name, f.region, f.center, f.radius >>
            \o PutList(f.nodes, LAMBDA n : << n.type, n.weight >>) \o f.count \o f.yield \o << f.respawn >>)
    \o Keyed(NavKeys, d.nav) \o Keyed(EconomyKeys, d.economy)

ReadRegion(r) ==
    LET x == Take(r, 5) IN
    [r |-> x.r, v |-> [name |-> x.v[1], security |-> x.v[2], lo |-> x.v[3], hi |-> x.v[4],
                       yieldMult |-> x.v[5]]]
ReadBeacon(r) ==
    LET x == Take(r, 4)
        links == TakeWords(x.r)
    IN  [r |-> links.r, v |-> [name |-> x.v[1], region |-> x.v[2], pos |-> x.v[3], kind |-> x.v[4],
                               links |-> links.v]]
ReadField(r) ==
    LET x == Take(r, 4)
        nodes == TakeList(x.r, LAMBDA q : LET n == Take(q, 2) IN
                                          [r |-> n.r, v |-> [type |-> n.v[1], weight |-> n.v[2]]])
        y == Take(nodes.r, 5)
    IN  [r |-> y.r, v |-> [name |-> x.v[1], region |-> x.v[2], center |-> x.v[3], radius |-> x.v[4],
                           nodes |-> nodes.v, count |-> SubSeq(y.v, 1, 2), yield |-> SubSeq(y.v, 3, 4),
                           respawn |-> y.v[5]]]

\* Reads on to the end whatever is missing, and refuses the whole then.
DecodeUniverseDataset(blob) ==
    LET regions == TakeList(ReadBuffer(blob), ReadRegion)
        beacons == TakeList(regions.r, ReadBeacon)
        fields == TakeList(beacons.r, ReadField)
        nav == Take(fields.r, Len(NavKeys))
        economy == Take(nav.r, Len(EconomyKeys))
    IN  IF ~economy.r.good THEN Refused
        ELSE << [regions |-> regions.v, beacons |-> beacons.v, fields |-> fields.v,
                 nav |-> Unkeyed(NavKeys, nav.v), economy |-> Unkeyed(EconomyKeys, economy.v)] >>

(***************************************************************************)
(* The cook and the load                                                   *)
(***************************************************************************)
\* datacook: only what is valid and decodes again is written.
Cook ==
    /\ stage = "validate"
    /\ stage' = IF ValidateUniverseDataset(out) /\ DecodeUniverseDataset(EncodeUniverseDataset(out)) # Refused
                THEN "cooked" ELSE "refused"
    /\ UNCHANGED << layout, text, cursor, open, out, errors, search >>

\* The write is not checked: the file may have lost its end.
Stored(blob) == SubSeq(blob, 1, Len(blob) - layout.cut)

LoadUniverseFromCooked ==
    LET d == DecodeUniverseDataset(Stored(EncodeUniverseDataset(out))) IN
    /\ stage = "cooked"
    /\ IF d = Refused THEN stage' = "unloaded" /\ out' = UniverseDataset
       ELSE stage' = "loaded" /\ out' = d[1]
    /\ UNCHANGED << layout, text, cursor, open, errors, search >>

(***************************************************************************)
(* Starmap                                                                 *)
(***************************************************************************)
\* SolveBeaconRoute on a dataset that was read, valid or not: its early
\* returns, then one step for every beacon taken from the frontier.
Solve(src, dst) ==
    /\ stage \in {"loaded", "refused"} /\ ~errors /\ search = Refused
    /\ search' = [src |-> src, dst |-> dst, frontier |-> << src >>, visited |-> {src},
                  cameFrom |-> << >>,
                  path |-> IF src = dst /\ FindBeacon(out, src) # << >> THEN << src >> ELSE << >>,
                  done |-> src = dst \/ {src, dst} \ Names(out.beacons) # {}]
    /\ UNCHANGED << layout, text, cursor, open, out, errors, stage >>

\* The links of a beacon not visited yet, each once and in their order.
Unvisited(links, visited) ==
    FoldLeft(LAMBDA acc, l : IF l \in visited \cup Range(acc) THEN acc ELSE Append(acc, l), << >>, links)

PathTo(cameFrom, src, dst) ==
    LET path[n \in DOMAIN cameFrom \cup {src}] ==
            IF n = src THEN << src >> ELSE Append(path[cameFrom[n]], n)
    IN  path[dst]

\* Mutant: the beacon found last is expanded first.
QueueAsStack(s, more) == Reverse(more) \o Tail(s.frontier)

\* The beacons found are expanded after the ones already waiting.
Queue(s, more) == Tail(s.frontier) \o more

Expand ==
    LET cur == Head(search.frontier)
        links == IF FindBeacon(out, cur) = << >> THEN << >> ELSE FindBeacon(out, cur)[1].links
        more == Unvisited(links, search.visited)
        from == [n \in DOMAIN search.cameFrom \cup Range(more) |->
                    IF n \in Range(more) THEN cur ELSE search.cameFrom[n]]
        found == search.dst \in Range(more)
    IN  /\ search # Refused /\ ~search.done
        /\ search' =
            IF found THEN [search EXCEPT !.path = PathTo(from, search.src, search.dst), !.done = TRUE]
            ELSE [search EXCEPT !.visited = @ \cup Range(more), !.cameFrom = from,
                                !.frontier = Queue(search, more),
                                !.done = Queue(search, more) = << >>]
        /\ UNCHANGED << layout, text, cursor, open, out, errors, stage >>

ReachableBeacons(d, src) ==
    IF FindBeacon(d, src) = << >> THEN {} ELSE Grow(d, {src}, Names(d.beacons))

(***************************************************************************)
(* The texts, and a text with one token lost                               *)
(***************************************************************************)
Word(n) == CHOOSE w \in DOMAIN Numbers : Numbers[w] = n
NodeWord(n) == CHOOSE w \in DOMAIN NodeWords : NodeWords[w] = n
Key(k, v) == << k, "=" >> \o v
Changed(keys, f) ==
    FlattenSeq([i \in 1 .. Len(keys) |-> IF f[keys[i]] = 1 THEN << >> ELSE Key(keys[i], << Word(f[keys[i]]) >>)])
RegionText(r) ==
    << "region", r.name, "{" >> \o Key("security", << r.security >>)
    \o Key("bounds", << Word(r.lo), Word(r.hi) >>) \o Key("yield_mult", << Word(r.yieldMult) >>) \o << "}" >>
BeaconText(b) ==
    << "beacon", b.name, "{" >> \o Key("region", << b.region >>) \o Key("pos", << Word(b.pos) >>)
    \o Key("links", b.links) \o (IF b.kind = "public" THEN << >> ELSE Key("kind", << b.kind >>)) \o << "}" >>
FieldText(f) ==
    << "field", f.name, "{" >> \o Key("region", << f.region >>) \o Key("center", << Word(f.center) >>)
    \o Key("radius", << Word(f.radius) >>) \o Key("nodes", [i \in 1 .. Len(f.nodes) |-> NodeWord(f.nodes[i])])
    \o Key("count", << Word(f.count[1]), Word(f.count[2]) >>)
    \o Key("yield", << Word(f.yield[1]), Word(f.yield[2]) >>) \o Key("respawn", << Word(f.respawn) >>) \o << "}" >>
TextOf(d) ==
    FlattenSeq([i \in 1 .. Len(d.regions) |-> RegionText(d.regions[i])])
    \o FlattenSeq([i \in 1 .. Len(d.beacons) |-> BeaconText(d.beacons[i])])
    \o FlattenSeq([i \in 1 .. Len(d.fields) |-> FieldText(d.fields[i])])
    \o << "tuning", "{" >> \o Changed(NavKeys, d.nav) \o << "}" >>
    \o << "economy", "{" >> \o Changed(EconomyKeys, d.economy) \o << "}" >>

Given(l) ==
    /\ layout = l
    /\ text = (IF layout.lost = 0 THEN TextOf(layout.ds) ELSE RemoveAt(TextOf(layout.ds), layout.lost))
    /\ cursor = 1 /\ open = Refused /\ out = UniverseDataset /\ errors = FALSE /\ stage = "parse"
    /\ search = Refused

Init == \E l \in Layouts : Given(l)

Next ==
    \/ OpenBlock \/ Assign \/ CloseBlock \/ EndOfText \/ Cook \/ LoadUniverseFromCooked
    \/ \E src, dst \in Names(out.beacons) \cup {"nowhere"} : Solve(src, dst)
    \/ Expand

(***************************************************************************)
(* Properties                                                              *)
(***************************************************************************)
(* A text with nothing lost is read as the layout it was written from,     *)
(* with lists that are empty and keys in any block (UniverseSource.h, the  *)
(* values of a key end where the next key begins).                         *)
ParsedAsWritten ==
    layout.lost = 0 /\ stage \in {"validate", "refused", "cooked"} => ~errors /\ out = layout.ds

(* A layout whose text lost any one token never becomes a cooked file:     *)
(* the parser reports it, or what it made of the rest breaks a rule        *)
(* (datacook.cpp "a cook never emits an invalid blob").                    *)
LostTokenRefused == layout.lost # 0 => stage \in {"parse", "validate", "refused"}

(* The server loads the layout that was cooked or nothing, wherever its    *)
(* file was cut short (DecodeUniverseDataset asks once, at the end).       *)
LayoutWholeOrRefused ==
    /\ stage = "loaded" => layout.cut = 0 /\ out = layout.ds
    /\ stage = "unloaded" => layout.cut > 0

\* Reference: what lies within n jumps of a beacon.
Within(d, src, n) ==
    LET within[i \in Nat] ==
            IF i = 0 THEN {src}
            ELSE LET S == within[i - 1] IN S \cup UNION { Linked(d, b) : b \in S }
    IN  within[n]

(* A finished search has a route of linked beacons from source to          *)
(* destination with the fewest jumps there are, and none only if there is  *)
(* none (Starmap.h SolveBeaconRoute).                                      *)
RouteIsShortest ==
    search # Refused /\ search.done =>
        LET p == search.path
            far == Len(out.beacons)
            known == {search.src, search.dst} \subseteq Names(out.beacons)
        IN  IF ~known \/ search.dst \notin Within(out, search.src, far) THEN p = << >>
            ELSE /\ p # << >> /\ p[1] = search.src /\ Last(p) = search.dst
                 /\ \A i \in 1 .. Len(p) - 1 : p[i + 1] \in Linked(out, p[i])
                 /\ Len(p) = 1 \/ search.dst \notin Within(out, search.src, Len(p) - 2)

(* What the starmap greys out is exactly what no route leads to            *)
(* (ReachableBeacons and SolveBeaconRoute are two searches).               *)
GreyedHasNoRoute ==
    search # Refused /\ search.done =>
        (search.dst \in ReachableBeacons(out, search.src) <=> search.path # << >>)

(* In a layout the server has loaded any public beacon leads to any other  *)
(* without a claimed one between, and every route can be flown back (the   *)
(* rules of ValidateUniverseDataset, searched by SolveBeaconRoute).        *)
PublicNetworkRoutes ==
    stage = "loaded" =>
        /\ \A b, c \in Public(out) : c \in Grow(out, {b}, Public(out))
        /\ search # Refused /\ search.done /\ {search.src, search.dst} \subseteq Public(out) =>
            /\ search.path # << >>
            /\ \A i \in 1 .. Len(search.path) - 1 : search.path[i] \in Linked(out, search.path[i + 1])

(* From source text to route: what is loaded is what was written, a lost   *)
(* token or a cut blob is refused, and on a loaded layout routes are       *)
(* shortest, exist between public beacons, and are greyed out exactly when *)
(* there is none (UniverseSource.h, UniverseData.h, Starmap.h).            *)
LayoutInv ==
    /\ ParsedAsWritten /\ LostTokenRefused /\ LayoutWholeOrRefused
    /\ RouteIsShortest /\ GreyedHasNoRoute /\ PublicNetworkRoutes
=============================================================================
