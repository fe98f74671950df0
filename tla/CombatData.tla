----------------------------- MODULE CombatData -----------------------------
(* The combat catalogue (CombatData.h): its codec, its rules, and what the  *)
(* server does with it while it runs: the hot reload (LoadCombatFromCooked) *)
(* and the fitting of new units from the catalogue then active              *)
(* (InstallFit).  Neither checks the rules: the catalogue is checked where  *)
(* it is cooked.  One layer of hit points and one resistance stand for      *)
(* all; signature, speed and the other numbers have the rules of those kept.*)
EXTENDS Cooked

CONSTANTS
    DefaultCatalog,     \* DefaultCombatCatalog()
    Blobs,              \* [catalog, cut]: catalogues reloaded, and the cells their files lost
    FALLBACK,           \* the fit used when a name is unknown
    MAX_UNITS, MAX_RELOADS

VARIABLES
    m_combat,   \* the active catalogue
    units,      \* what each unit was fitted with, in the order of spawning
    reloads,    \* reloads so far
    checked     \* whether every catalogue loaded obeys the rules

combatVars == << m_combat, units, reloads, checked >>

SLOTS == 1 .. 3         \* High, Mid, Low

Find(items, c) == SelectSeq(items, LAMBDA x : x.code = c)
FindHull(c, code) == Find(c.hulls, code)
FindModule(c, code) == Find(c.modules, code)
FindFit(c, name) == Find(c.fits, name)

(***************************************************************************)
(* The rules                                                               *)
(***************************************************************************)
Modules(c, codes) == [i \in 1 .. Len(codes) |-> FindModule(c, codes[i])[1]]
Used(mods, s) == Cardinality({ i \in 1 .. Len(mods) : mods[i].slot = s })
Total(mods, f) == FoldLeft(LAMBDA acc, m : acc + m[f], 0, mods)

Obeys(hull, mods) ==
    /\ \A s \in SLOTS : Used(mods, s) <= hull.slots[s]
    /\ Total(mods, "pg") <= hull.pg /\ Total(mods, "cpu") <= hull.cpu

\* Mutant: a slot more than the hull has.
ValidateFitOneMore(hull, codes, c) ==
    /\ \A i \in 1 .. Len(codes) : FindModule(c, codes[i]) # << >>
    /\ \A s \in SLOTS : Used(Modules(c, codes), s) <= hull.slots[s] + 1
    /\ Total(Modules(c, codes), "pg") <= hull.pg /\ Total(Modules(c, codes), "cpu") <= hull.cpu

ValidateFit(hull, codes, c) ==
    /\ \A i \in 1 .. Len(codes) : FindModule(c, codes[i]) # << >>
    /\ Obeys(hull, Modules(c, codes))

Unique(items) ==
    LET codes == { items[i].code : i \in 1 .. Len(items) } IN
    "" \notin codes /\ Cardinality(codes) = Len(items)

ValidHull(h) == h.pg >= 0 /\ h.cpu >= 0 /\ h.hp > 0 /\ h.resist \in -999 .. 999

ValidModule(m) ==
    /\ m.pg >= 0 /\ m.cpu >= 0
    /\ m.kind = "Weapon" => m.slot = 1 /\ m.damage > 0
    /\ m.kind = "RemoteRep" => m.range > 0

ValidateCombatCatalog(c) ==
    /\ Unique(c.hulls) /\ \A h \in Range(c.hulls) : ValidHull(h)
    /\ Unique(c.modules) /\ \A m \in Range(c.modules) : ValidModule(m)
    /\ Unique(c.fits)
    /\ \A f \in Range(c.fits) :
        FindHull(c, f.hull) # << >> /\ ValidateFit(FindHull(c, f.hull)[1], f.modules, c)

(***************************************************************************)
(* The codec                                                               *)
(***************************************************************************)
EncodeCombatCatalog(c) ==
    WriteBuffer
    \o PutList(c.hulls, LAMBDA h : << h.code >> \o h.slots \o << h.pg, h.cpu, h.hp, h.resist >>)
    \o PutList(c.modules, LAMBDA m : << m.code, m.kind, m.slot, m.pg, m.cpu, m.damage, m.range >>)
    \o PutList(c.fits, LAMBDA f : << f.code, f.hull >> \o PutList(f.modules, LAMBDA m : << m >>))

ReadHull(r) ==
    LET x == Take(r, 8) IN
    [r |-> x.r, v |-> [code |-> x.v[1], slots |-> SubSeq(x.v, 2, 4), pg |-> x.v[5], cpu |-> x.v[6],
                       hp |-> x.v[7], resist |-> x.v[8]]]
ReadModule(r) ==
    LET x == Take(r, 7) IN
    [r |-> x.r, v |-> [code |-> x.v[1], kind |-> x.v[2], slot |-> x.v[3], pg |-> x.v[4], cpu |-> x.v[5],
                       damage |-> x.v[6], range |-> x.v[7]]]
ReadFit(r) ==
    LET x == Take(r, 2)
        modules == TakeWords(x.r)
    IN  [r |-> modules.r, v |-> [code |-> x.v[1], hull |-> x.v[2], modules |-> modules.v]]

DecodeCombatCatalog(blob) ==
    LET hulls == TakeList(ReadBuffer(blob), ReadHull)
        modules == TakeList(hulls.r, ReadModule)
        fits == TakeList(modules.r, ReadFit)
    IN  IF ~fits.r.good THEN Refused
        ELSE << [hulls |-> hulls.v, modules |-> modules.v, fits |-> fits.v] >>

(***************************************************************************)
(* The running server                                                      *)
(***************************************************************************)
Stored(b) ==
    LET blob == EncodeCombatCatalog(b.catalog) IN SubSeq(blob, 1, Len(blob) - b.cut)

\* A blob that does not decode leaves the active catalogue as it is.
LoadCombatFromCooked(b) ==
    LET c == DecodeCombatCatalog(Stored(b)) IN
    /\ reloads < MAX_RELOADS /\ reloads' = reloads + 1
    /\ IF c = Refused THEN UNCHANGED << m_combat, checked >>
       ELSE m_combat' = c[1] /\ checked' = (checked /\ ValidateCombatCatalog(b.catalog))
    /\ UNCHANGED units

\* InstallFit: nothing when the fit or its hull is unknown; a module that
\* is unknown is left out.  A unit keeps its own copy of what it was given.
InstallFit(name) ==
    LET fit == FindFit(m_combat, name)
        hull == IF fit = << >> THEN << >> ELSE FindHull(m_combat, fit[1].hull)
    IN  IF hull = << >> THEN Refused
        ELSE << [name |-> name, hull |-> hull[1], asked |-> fit[1].modules,
                 modules |-> Modules(m_combat, SelectSeq(fit[1].modules,
                                        LAMBDA m : FindModule(m_combat, m) # << >>))] >>

\* A unit whose fit is unknown gets the fallback.
SpawnFitted(name) ==
    /\ Len(units) < MAX_UNITS
    /\ units' = Append(units, IF InstallFit(name) # Refused THEN InstallFit(name) ELSE InstallFit(FALLBACK))
    /\ UNCHANGED << m_combat, reloads, checked >>

Init == m_combat = DefaultCatalog /\ units = << >> /\ reloads = 0 /\ checked = TRUE

Next ==
    \/ \E b \in Blobs : LoadCombatFromCooked(b)
    \/ \E n \in { f.code : f \in Range(m_combat.fits) } \cup {"nothing"} : SpawnFitted(n)

(***************************************************************************)
(* Properties                                                              *)
(***************************************************************************)
(* As long as the catalogues loaded obey the rules no unit carries more    *)
(* than its hull has slots and power for, and none lacks a module of its   *)
(* fit, whatever was reloaded between the fit and the unit                 *)
(* (ServerUniverse.h "ValidateFit gated the catalog, so the fit is never   *)
(* over-budget").                                                          *)
FitsWithinBudget ==
    checked => \A i \in 1 .. Len(units) : \A u \in Range(units[i]) :
                    Obeys(u.hull, u.modules) /\ Len(u.modules) = Len(u.asked)

(* A reload puts a whole catalogue in place or none: cut short, the old    *)
(* one stays and its fits are still there for the next unit.               *)
CatalogWholeOrKept ==
    m_combat \in {DefaultCatalog} \cup { b.catalog : b \in { x \in Blobs : x.cut = 0 } }

(* Reloads are whole or have no effect, and no unit fitted before or after *)
(* one carries more than its hull allows (LoadCombatFromCooked,            *)
(* InstallFit).                                                            *)
CatalogInv == FitsWithinBudget /\ CatalogWholeOrKept
=============================================================================
