--------------------------- MODULE RestartProofs ----------------------------
(***************************************************************************)
(* Proofs about warm restart (module WarmRestart): a capture torn by the   *)
(* ticks beside it, saves and loads that fail, and a process that dies     *)
(* anywhere, for any blob versions and any bounds; and about the keys of   *)
(* the economy's events (module EconomyEvents), for any net ids and the    *)
(* ticks of the first 2^21.                                                *)
(***************************************************************************)
EXTENDS PersistenceProofs

(* The module's own copy of Cardinality is the library's.                  *)
LEMMA RestartSameCardinality == \A S : Restart!Cardinality(S) = Cardinality(S)
BY DEF Restart!Cardinality, Cardinality

(* Functions from some ids to values: the tables of a world.               *)
Tables(R) == UNION { [S -> R] : S \in SUBSET Nat }

LEMMA TableIs ==
    ASSUME NEW f, NEW R
    PROVE  f \in Tables(R) <=> /\ f = [i \in DOMAIN f |-> f[i]] /\ DOMAIN f \subseteq Nat
                               /\ \A i \in DOMAIN f : f[i] \in R
<1>1. ASSUME f = [i \in DOMAIN f |-> f[i]], DOMAIN f \subseteq Nat, \A i \in DOMAIN f : f[i] \in R
      PROVE  f \in Tables(R)
  <2>1. f \in [DOMAIN f -> R]
    BY <1>1
  <2> QED
    BY <1>1, <2>1 DEF Tables
<1>2. ASSUME f \in Tables(R)
      PROVE  f = [i \in DOMAIN f |-> f[i]] /\ DOMAIN f \subseteq Nat /\ \A i \in DOMAIN f : f[i] \in R
  <2>1. PICK S \in SUBSET Nat : f \in [S -> R]
    BY <1>2 DEF Tables
  <2> QED
    BY <2>1
<1> QED
  BY <1>1, <1>2

BuildLines == [n : Nat, paid : BOOLEAN]
BaseRows == [stock : Nat, build : BuildLines]
Stations == [{1} -> BaseRows]
Worlds == [tick : Nat, next : Nat, bases : Stations, ships : Tables([from : Nat]),
           npcs : Tables([site : Nat]), nodes : SUBSET Nat, siteAlive : Tables(Nat), ordered : Nat]

(* The base is number 1; ships, NPCs and nodes have other numbers, below   *)
(* the next one, and each its own.                                         *)
IdsApart(S, N, O, next) ==
    /\ next \in Nat
    /\ IsFiniteSet(S) /\ IsFiniteSet(N) /\ IsFiniteSet(O)
    /\ \A i \in S \cup N \cup O : i \in Nat /\ 1 < i /\ i < next
    /\ 1 < next
    /\ S \cap N = {} /\ S \cap O = {} /\ N \cap O = {}

(* Orders are numbered as they are given: none is above the last one, and  *)
(* no ship is of the order that is under way.                              *)
OrdersApart(ships, n, paid, ordered) ==
    /\ n <= ordered /\ \A s \in DOMAIN ships : ships[s].from <= ordered
    /\ n = 0 => ~paid
    /\ n # 0 => \A s \in DOMAIN ships : ships[s].from # n

Guardians(npcs, site) == { k \in DOMAIN npcs : npcs[k].site = site }
GuardiansCounted(npcs, siteAlive) ==
    \A k \in DOMAIN npcs : /\ npcs[k].site \in DOMAIN siteAlive
                           /\ siteAlive[npcs[k].site] = Cardinality(Guardians(npcs, npcs[k].site))

WorldSound(u) ==
    /\ u \in Worlds
    /\ IdsApart(DOMAIN u.ships, DOMAIN u.npcs, u.nodes, u.next)
    /\ OrdersApart(u.ships, u.bases[1].build.n, u.bases[1].build.paid, u.ordered)
    /\ GuardiansCounted(u.npcs, u.siteAlive)

(* What a tick adds and what it takes away. *)
GrowsInto(u, w) ==
    /\ u.next <= w.next /\ u.ordered <= w.ordered
    /\ DOMAIN u.ships \subseteq DOMAIN w.ships
    /\ \A s \in DOMAIN u.ships : w.ships[s] = u.ships[s]
    /\ DOMAIN w.npcs \subseteq DOMAIN u.npcs

LEMMA WorldFields ==
    ASSUME NEW u \in Worlds
    PROVE  /\ u.bases[1].stock \in Nat /\ u.bases[1].build.n \in Nat /\ u.bases[1].build.paid \in BOOLEAN
           /\ u.bases[1].build = [n |-> u.bases[1].build.n, paid |-> u.bases[1].build.paid]
           /\ u.tick \in Nat /\ u.next \in Nat /\ u.ordered \in Nat /\ u.bases \in Stations
           /\ DOMAIN u.bases = {1}
           /\ u.ships \in Tables([from : Nat]) /\ u.npcs \in Tables([site : Nat]) /\ u.siteAlive \in Tables(Nat)
BY DEF Worlds, Stations, BaseRows, BuildLines

LEMMA ShipFields ==
    ASSUME NEW u \in Worlds
    PROVE  /\ u.ships = [s \in DOMAIN u.ships |-> u.ships[s]]
           /\ DOMAIN u.ships \subseteq Nat
           /\ \A s \in DOMAIN u.ships : u.ships[s] \in [from : Nat] /\ u.ships[s].from \in Nat
<1>1. u.ships \in Tables([from : Nat])
  BY WorldFields
<1>2. \A r \in [from : Nat] : r.from \in Nat
  OBVIOUS
<1> QED
  BY <1>1, <1>2, TableIs

LEMMA NpcFields ==
    ASSUME NEW u \in Worlds
    PROVE  /\ u.npcs = [k \in DOMAIN u.npcs |-> u.npcs[k]]
           /\ DOMAIN u.npcs \subseteq Nat
           /\ \A k \in DOMAIN u.npcs : u.npcs[k] \in [site : Nat] /\ u.npcs[k].site \in Nat
<1>1. u.npcs \in Tables([site : Nat])
  BY WorldFields
<1>2. \A r \in [site : Nat] : r.site \in Nat
  OBVIOUS
<1> QED
  BY <1>1, <1>2, TableIs

-----------------------------------------------------------------------------
(* Each change of a tick leaves a world sound. *)
LEMMA OrderKeepsSound ==
    ASSUME NEW u, WorldSound(u), u.bases[1].build = Restart!NoBuild
    PROVE  WorldSound(Restart!Order(u, 1)) /\ GrowsInto(u, Restart!Order(u, 1))
           /\ Restart!Order(u, 1).tick = u.tick
<1>1. u \in Worlds
  BY DEF WorldSound
<1>2. PICK o \in Nat : o = u.ordered + 1
  <2>1. u.ordered \in Nat
    BY <1>1, WorldFields
  <2> QED
    BY <2>1
<1>3. PICK x \in BaseRows : x = Restart!Base(u.bases[1].stock, [n |-> o, paid |-> FALSE])
  <2>1. [n |-> o, paid |-> FALSE] \in BuildLines
    BY DEF BuildLines
  <2> QED
    BY <1>1, <2>1, WorldFields DEF Restart!Base, BaseRows
<1>4. PICK w : w = [u EXCEPT !.ordered = o, !.bases[1] = x] /\ w = Restart!Order(u, 1)
  BY <1>2, <1>3 DEF Restart!Order
<1>5. w \in Worlds
  BY <1>1, <1>4 DEF Worlds, Stations
<1>6. /\ w.tick = u.tick /\ w.next = u.next /\ w.ordered = o /\ w.bases[1] = x /\ w.ships = u.ships
      /\ w.npcs = u.npcs /\ w.nodes = u.nodes /\ w.siteAlive = u.siteAlive
  BY <1>1, <1>4 DEF Worlds, Stations
<1>7. w.bases[1].build.n = o /\ w.bases[1].build.paid = FALSE
  BY <1>3, <1>6 DEF Restart!Base
<1>8. OrdersApart(w.ships, w.bases[1].build.n, w.bases[1].build.paid, w.ordered)
  <2>1. \A s \in DOMAIN u.ships : u.ships[s].from \in Nat /\ u.ships[s].from <= u.ordered
    BY <1>1, ShipFields DEF WorldSound, OrdersApart
  <2>2. u.ordered \in Nat
    BY <1>1, WorldFields
  <2> QED
    BY <1>2, <1>6, <1>7, <2>1, <2>2 DEF OrdersApart
<1>9. GrowsInto(u, w)
  <2>1. u.next \in Nat /\ u.ordered \in Nat
    BY <1>1, WorldFields
  <2>2. u.next <= w.next /\ u.ordered <= w.ordered
    BY <1>2, <1>6, <2>1
  <2> QED
    BY <1>6, <2>2 DEF GrowsInto
<1>10. WorldSound(w)
  BY <1>5, <1>6, <1>8 DEF WorldSound
<1> QED
  BY <1>4, <1>6, <1>9, <1>10

LEMMA PayKeepsSound ==
    ASSUME NEW u, WorldSound(u), u.bases[1].build.n # 0, u.bases[1].stock > 0
    PROVE  WorldSound(Restart!Pay(u, 1)) /\ GrowsInto(u, Restart!Pay(u, 1))
           /\ Restart!Pay(u, 1).tick = u.tick
<1>1. u \in Worlds
  BY DEF WorldSound
<1>2. PICK n \in Nat : n = u.bases[1].build.n
  BY <1>1, WorldFields
<1>3. PICK x \in BaseRows : x = Restart!Base(u.bases[1].stock - 1, [n |-> n, paid |-> TRUE])
  <2>1. [n |-> n, paid |-> TRUE] \in BuildLines
    BY DEF BuildLines
  <2>2. u.bases[1].stock - 1 \in Nat
    <3>1. u.bases[1].stock \in Nat
      BY <1>1, WorldFields
    <3> QED
      BY <3>1
  <2> QED
    BY <2>1, <2>2 DEF Restart!Base, BaseRows
<1>4. PICK w : w = [u EXCEPT !.bases[1] = x] /\ w = Restart!Pay(u, 1)
  BY <1>2, <1>3 DEF Restart!Pay
<1>5. w \in Worlds
  BY <1>1, <1>4 DEF Worlds, Stations
<1>6. /\ w.tick = u.tick /\ w.next = u.next /\ w.ordered = u.ordered /\ w.bases[1] = x /\ w.ships = u.ships
      /\ w.npcs = u.npcs /\ w.nodes = u.nodes /\ w.siteAlive = u.siteAlive
  BY <1>1, <1>4 DEF Worlds, Stations
<1>7. w.bases[1].build.n = n
  BY <1>3, <1>6 DEF Restart!Base
<1>8. OrdersApart(w.ships, w.bases[1].build.n, w.bases[1].build.paid, w.ordered)
  BY <1>2, <1>6, <1>7 DEF WorldSound, OrdersApart
<1>9. GrowsInto(u, w)
  <2>1. u.next \in Nat /\ u.ordered \in Nat
    BY <1>1, WorldFields
  <2>2. u.next <= w.next /\ u.ordered <= w.ordered
    BY <1>6, <2>1
  <2> QED
    BY <1>6, <2>2 DEF GrowsInto
<1>10. WorldSound(w)
  BY <1>5, <1>6, <1>8 DEF WorldSound
<1> QED
  BY <1>4, <1>6, <1>9, <1>10

LEMMA DeliverKeepsSound ==
    ASSUME NEW u, WorldSound(u), u.bases[1].build.paid = TRUE
    PROVE  WorldSound(Restart!Deliver(u, 1)) /\ GrowsInto(u, Restart!Deliver(u, 1))
           /\ Restart!Deliver(u, 1).tick = u.tick
<1>1. u \in Worlds
  BY DEF WorldSound
<1>2. PICK o \in Nat, n \in Nat, ord \in Nat : o = u.next /\ n = u.bases[1].build.n /\ ord = u.ordered
  BY <1>1, WorldFields
<1>3. n # 0 /\ n <= ord
  BY <1>2 DEF WorldSound, OrdersApart
<1>4. PICK x \in BaseRows : x = Restart!Base(u.bases[1].stock, Restart!NoBuild)
  <2>1. Restart!NoBuild \in BuildLines
    BY DEF Restart!NoBuild, BuildLines
  <2> QED
    BY <1>1, <2>1, WorldFields DEF Restart!Base, BaseRows
<1>5. PICK S : S = [s \in DOMAIN u.ships \cup {o} |-> IF s = o THEN [from |-> n] ELSE u.ships[s]]
  OBVIOUS
<1>6. /\ DOMAIN S = DOMAIN u.ships \cup {o} /\ S[o] = [from |-> n] /\ S[o].from = n
      /\ S = [s \in DOMAIN S |-> S[s]]
  BY <1>5
<1>7. o \notin DOMAIN u.ships /\ \A s \in DOMAIN u.ships : S[s] = u.ships[s]
  <2>1. o \notin DOMAIN u.ships
    BY <1>2 DEF WorldSound, IdsApart
  <2> QED
    BY <1>5, <2>1
<1>8. S \in Tables([from : Nat])
  <2>1. DOMAIN u.ships \subseteq Nat /\ \A s \in DOMAIN u.ships : u.ships[s] \in [from : Nat]
    BY <1>1, ShipFields
  <2>2. [from |-> n] \in [from : Nat]
    OBVIOUS
  <2>3. DOMAIN S \subseteq Nat
    BY <1>6, <2>1
  <2>4. \A s \in DOMAIN S : S[s] \in [from : Nat]
    BY <1>6, <1>7, <2>1, <2>2
  <2> QED
    BY <1>6, <2>3, <2>4, TableIs
<1>9. PICK o2 \in Nat : o2 = o + 1
  BY SMTT(60)
<1>10. PICK w : w = [u EXCEPT !.bases[1] = x, !.next = o2, !.ships = S] /\ w = Restart!Deliver(u, 1)
  BY <1>2, <1>4, <1>5, <1>9 DEF Restart!Deliver
<1>11. w \in Worlds
  BY <1>1, <1>8, <1>10 DEF Worlds, Stations
<1>12. /\ w.tick = u.tick /\ w.next = o2 /\ w.ordered = u.ordered /\ w.bases[1] = x /\ w.ships = S
       /\ w.npcs = u.npcs /\ w.nodes = u.nodes /\ w.siteAlive = u.siteAlive
  BY <1>1, <1>10 DEF Worlds, Stations
<1>13. w.bases[1].build.n = 0 /\ w.bases[1].build.paid = FALSE
  BY <1>4, <1>12 DEF Restart!Base, Restart!NoBuild
<1>14. OrdersApart(w.ships, w.bases[1].build.n, w.bases[1].build.paid, w.ordered)
  <2>1. \A s \in DOMAIN u.ships : u.ships[s].from <= ord
    BY <1>2 DEF WorldSound, OrdersApart
  <2>2. \A s \in DOMAIN S : S[s].from <= ord
    BY <1>3, <1>6, <1>7, <2>1
  <2> QED
    BY <1>2, <1>12, <1>13, <2>2 DEF OrdersApart
<1>15. IdsApart(DOMAIN w.ships, DOMAIN w.npcs, w.nodes, w.next)
  <2>1. IdsApart(DOMAIN u.ships, DOMAIN u.npcs, u.nodes, o)
    BY <1>2 DEF WorldSound
  <2>2. IsFiniteSet(DOMAIN u.ships \cup {o})
    BY <2>1, FS_AddElement DEF IdsApart
  <2>3. o \notin DOMAIN u.npcs /\ o \notin u.nodes
    BY <2>1 DEF IdsApart
  <2> QED
    BY <1>6, <1>9, <1>12, <2>1, <2>2, <2>3 DEF IdsApart
<1>16. GrowsInto(u, w)
  BY <1>2, <1>6, <1>7, <1>9, <1>12 DEF GrowsInto
<1>17. WorldSound(w)
  BY <1>11, <1>12, <1>14, <1>15 DEF WorldSound
<1> QED
  BY <1>10, <1>12, <1>16, <1>17

LEMMA KillKeepsSound ==
    ASSUME NEW u, WorldSound(u), NEW k \in DOMAIN u.npcs
    PROVE  WorldSound(Restart!Kill(u, k)) /\ GrowsInto(u, Restart!Kill(u, k))
           /\ Restart!Kill(u, k).tick = u.tick
<1>1. u \in Worlds
  BY DEF WorldSound
<1>2. PICK N : N = [i \in DOMAIN u.npcs \ {k} |-> u.npcs[i]]
  OBVIOUS
<1>3. /\ DOMAIN N = DOMAIN u.npcs \ {k} /\ \A i \in DOMAIN N : N[i] = u.npcs[i]
      /\ N = [i \in DOMAIN N |-> N[i]]
  BY <1>2
<1>4. N \in Tables([site : Nat])
  <2>1. DOMAIN N \subseteq Nat /\ \A i \in DOMAIN N : N[i] \in [site : Nat]
    BY <1>1, <1>3, NpcFields
  <2> QED
    BY <1>3, <2>1, TableIs
<1>5. PICK g : g = u.npcs[k].site /\ g \in DOMAIN u.siteAlive
  BY DEF WorldSound, GuardiansCounted
<1>6. IsFiniteSet(DOMAIN u.npcs)
  BY DEF WorldSound, IdsApart
<1>7. PICK G : G = Guardians(u.npcs, g)
  OBVIOUS
<1>8. IsFiniteSet(G) /\ k \in G /\ Guardians(N, g) = G \ {k}
  <2>1. G \subseteq DOMAIN u.npcs
    BY <1>7 DEF Guardians
  <2>2. IsFiniteSet(G)
    BY <1>6, <2>1, FS_Subset
  <2> QED
    BY <1>3, <1>5, <1>7, <2>2 DEF Guardians
<1>9. PICK c \in Nat : c = Cardinality(G)
  BY <1>8, FS_CardinalityType
<1>10. c - 1 \in Nat /\ Cardinality(Guardians(N, g)) = c - 1
  <2>1. c # 0
    BY <1>8, <1>9, FS_EmptySet
  <2>2. c - 1 \in Nat
    BY <2>1
  <2>3. Cardinality(G \ {k}) = c - 1
    BY <1>8, <1>9, FS_RemoveElement
  <2> QED
    BY <1>8, <2>2, <2>3
<1>11. u.siteAlive[g] = c
  BY <1>5, <1>7, <1>9 DEF WorldSound, GuardiansCounted
<1>12. PICK A : A = [u.siteAlive EXCEPT ![g] = c - 1]
  OBVIOUS
<1>13. /\ u.siteAlive = [s \in DOMAIN u.siteAlive |-> u.siteAlive[s]] /\ DOMAIN u.siteAlive \subseteq Nat
       /\ \A s \in DOMAIN u.siteAlive : u.siteAlive[s] \in Nat
  <2>1. u.siteAlive \in Tables(Nat)
    BY <1>1, WorldFields
  <2> QED
    BY <2>1, TableIs
<1>14. /\ DOMAIN A = DOMAIN u.siteAlive /\ A[g] = c - 1 /\ \A s \in DOMAIN A : s # g => A[s] = u.siteAlive[s]
       /\ A = [s \in DOMAIN A |-> A[s]]
  BY <1>5, <1>12
<1>15. A \in Tables(Nat)
  <2>1. DOMAIN A \subseteq Nat /\ \A s \in DOMAIN A : A[s] \in Nat
    BY <1>10, <1>13, <1>14, SMTT(60)
  <2> QED
    BY <1>14, <2>1, TableIs
<1>16. PICK w : w = [u EXCEPT !.npcs = N, !.siteAlive = A] /\ w = Restart!Kill(u, k)
  BY <1>2, <1>5, <1>11, <1>12 DEF Restart!Kill, Restart!Restrict
<1>17. w \in Worlds
  BY <1>1, <1>4, <1>15, <1>16 DEF Worlds
<1>18. /\ w.tick = u.tick /\ w.next = u.next /\ w.ordered = u.ordered /\ w.bases = u.bases /\ w.ships = u.ships
       /\ w.npcs = N /\ w.nodes = u.nodes /\ w.siteAlive = A
  BY <1>1, <1>16 DEF Worlds
<1>19. GuardiansCounted(N, A)
  <2> SUFFICES ASSUME NEW i \in DOMAIN N
               PROVE  N[i].site \in DOMAIN A /\ A[N[i].site] = Cardinality(Guardians(N, N[i].site))
    BY DEF GuardiansCounted
  <2>1. PICK s : s = N[i].site /\ s = u.npcs[i].site
    BY <1>3
  <2>2. s \in DOMAIN u.siteAlive /\ u.siteAlive[s] = Cardinality(Guardians(u.npcs, s))
    BY <1>3, <2>1 DEF WorldSound, GuardiansCounted
  <2>3. CASE s = g
    BY <1>10, <1>14, <2>1, <2>2, <2>3
  <2>4. CASE s # g
    <3>1. Guardians(N, s) = Guardians(u.npcs, s)
      BY <1>3, <1>5, <2>4 DEF Guardians
    <3> QED
      BY <1>14, <2>1, <2>2, <2>4, <3>1
  <2> QED
    BY <2>3, <2>4
<1>20. IdsApart(DOMAIN w.ships, DOMAIN w.npcs, w.nodes, w.next)
  <2>1. IsFiniteSet(DOMAIN N) /\ DOMAIN N \subseteq DOMAIN u.npcs
    BY <1>3, <1>6, FS_Subset
  <2> QED
    BY <1>18, <2>1 DEF WorldSound, IdsApart
<1>21. GrowsInto(u, w)
  <2>1. u.next \in Nat /\ u.ordered \in Nat
    BY <1>1, WorldFields
  <2>2. u.next <= w.next /\ u.ordered <= w.ordered
    BY <1>18, <2>1
  <2> QED
    BY <1>3, <1>18, <2>2 DEF GrowsInto
<1>22. WorldSound(w)
  BY <1>17, <1>18, <1>19, <1>20 DEF WorldSound
<1> QED
  BY <1>16, <1>18, <1>21, <1>22

(* A whole tick does. *)
LEMMA StepKeepsSound ==
    ASSUME NEW u, WorldSound(u), NEW v \in Restart!Steps(u)
    PROVE  LET w == [v EXCEPT !.tick = @ + 1]
           IN  WorldSound(w) /\ GrowsInto(u, w) /\ w.tick = u.tick + 1
<1>1. u \in Worlds /\ DOMAIN u.bases = {1}
  BY WorldFields DEF WorldSound
<1>2. WorldSound(v) /\ GrowsInto(u, v) /\ v.tick = u.tick
  <2>1. CASE u.bases[1].build = Restart!NoBuild /\ v = Restart!Order(u, 1)
    BY <2>1, OrderKeepsSound
  <2>2. CASE u.bases[1].build.n # 0 /\ u.bases[1].stock > 0 /\ v = Restart!Pay(u, 1)
    BY <2>2, PayKeepsSound
  <2>3. CASE u.bases[1].build.paid = TRUE /\ v = Restart!Deliver(u, 1)
    BY <2>3, DeliverKeepsSound
  <2>4. CASE \E k \in DOMAIN u.npcs : v = Restart!Kill(u, k)
    BY <2>4, KillKeepsSound
  <2>5. u.bases[1].build.paid \in BOOLEAN
    BY <1>1, WorldFields
  <2> QED
    BY <1>1, <2>1, <2>2, <2>3, <2>4, <2>5 DEF Restart!Steps
<1>3. PICK t \in Nat : t = v.tick + 1
  <2>1. v.tick \in Nat
    BY <1>2, WorldFields DEF WorldSound
  <2> QED
    BY <2>1
<1>4. PICK w : w = [v EXCEPT !.tick = t] /\ w = [v EXCEPT !.tick = @ + 1]
  BY <1>3
<1>5. w \in Worlds
  BY <1>2, <1>4 DEF WorldSound, Worlds
<1>6. /\ w.tick = t /\ w.next = v.next /\ w.ordered = v.ordered /\ w.bases = v.bases /\ w.ships = v.ships
      /\ w.npcs = v.npcs /\ w.nodes = v.nodes /\ w.siteAlive = v.siteAlive
  BY <1>2, <1>4 DEF WorldSound, Worlds
<1>7. WorldSound(w)
  BY <1>2, <1>5, <1>6 DEF WorldSound
<1>8. GrowsInto(u, w)
  BY <1>2, <1>6 DEF GrowsInto
<1> QED
  BY <1>2, <1>3, <1>4, <1>6, <1>7, <1>8

-----------------------------------------------------------------------------
(* What a snapshot holds. *)
OrderLines == [owner : {1}, n : Nat]
BareRows == [stock : Nat, build : {Restart!NoBuild}]
Snapshots == [tick : Nat, bases : [{1} -> BareRows], ships : Tables([from : Nat]),
              builds : SUBSET OrderLines, npcs : Tables([site : Nat])]

(* At most one build and no ship of it; ids apart; and a number above all. *)
BuildApart(builds, ships) ==
    /\ \A c, d \in builds : c = d
    /\ \A c \in builds : c.n # 0 /\ \A s \in DOMAIN ships : ships[s].from # c.n

Below(bound, builds, ships, N) ==
    /\ bound \in Nat
    /\ \A i \in DOMAIN ships \cup N : i < bound
    /\ \A s \in DOMAIN ships : ships[s].from < bound
    /\ \A c \in builds : c.n < bound

SnapshotSound(p) ==
    /\ p \in Snapshots
    /\ BuildApart(p.builds, p.ships)
    /\ IsFiniteSet(DOMAIN p.ships) /\ IsFiniteSet(DOMAIN p.npcs)
    /\ DOMAIN p.ships \cap DOMAIN p.npcs = {}
    /\ \A i \in DOMAIN p.ships \cup DOMAIN p.npcs : i > 1
    /\ \E bound : Below(bound, p.builds, p.ships, DOMAIN p.npcs)

LEMMA SnapshotFields ==
    ASSUME NEW p \in Snapshots
    PROVE  /\ p = [tick |-> p.tick, bases |-> p.bases, ships |-> p.ships, builds |-> p.builds, npcs |-> p.npcs]
           /\ p.tick \in Nat /\ DOMAIN p.bases = {1}
           /\ p.bases = [b \in {1} |-> p.bases[b]]
           /\ p.bases[1].stock \in Nat
           /\ p.bases[1] = [stock |-> p.bases[1].stock, build |-> Restart!NoBuild]
           /\ p.builds \subseteq OrderLines
           /\ p.ships \in Tables([from : Nat]) /\ p.npcs \in Tables([site : Nat])
           /\ DOMAIN p.ships \subseteq Nat /\ DOMAIN p.npcs \subseteq Nat
           /\ \A s \in DOMAIN p.ships : p.ships[s].from \in Nat
           /\ \A k \in DOMAIN p.npcs : p.npcs[k].site \in Nat
<1>1. /\ p = [tick |-> p.tick, bases |-> p.bases, ships |-> p.ships, builds |-> p.builds, npcs |-> p.npcs]
      /\ p.tick \in Nat /\ p.bases \in [{1} -> BareRows] /\ p.builds \subseteq OrderLines
      /\ p.ships \in Tables([from : Nat]) /\ p.npcs \in Tables([site : Nat])
  BY DEF Snapshots
<1>2. DOMAIN p.bases = {1} /\ p.bases = [b \in {1} |-> p.bases[b]] /\ p.bases[1] \in BareRows
  BY <1>1
<1>3. p.bases[1].stock \in Nat /\ p.bases[1] = [stock |-> p.bases[1].stock, build |-> Restart!NoBuild]
  BY <1>2 DEF BareRows
<1>4. /\ DOMAIN p.ships \subseteq Nat /\ DOMAIN p.npcs \subseteq Nat
      /\ \A s \in DOMAIN p.ships : p.ships[s] \in [from : Nat]
      /\ \A k \in DOMAIN p.npcs : p.npcs[k] \in [site : Nat]
  BY <1>1, TableIs
<1> QED
  BY <1>1, <1>2, <1>3, <1>4

LEMMA OrderLineFields ==
    ASSUME NEW d \in OrderLines
    PROVE  d.owner = 1 /\ d.n \in Nat /\ d = [owner |-> 1, n |-> d.n]
BY DEF OrderLines

(* A set of numbers with a number above it has a greatest element. *)
LEMMA GreatestNumber ==
    ASSUME NEW T, T \subseteq Nat, T # {}, NEW bound \in Nat, \A t \in T : t < bound
    PROVE  /\ Restart!Max(T) \in T /\ \A t \in T : t <= Restart!Max(T)
           /\ \A m \in T : (\A t \in T : t <= m) => Restart!Max(T) = m
<1>1. PICK U : U = { b \in Nat : \A t \in T : t <= b }
  OBVIOUS
<1>2. bound \in U
  BY <1>1
<1>3. PICK m \in U : \A k \in U : m <= k
  BY <1>1, <1>2, LeastNumber
<1>4. m \in T
  <2> SUFFICES ASSUME m \notin T PROVE FALSE
    OBVIOUS
  <2>1. \A t \in T : t < m
    BY <1>1, <1>3
  <2>2. m - 1 \in Nat
    <3>1. PICK t \in T : t < m
      BY <2>1
    <3>2. t \in Nat /\ m \in Nat
      BY <1>1
    <3> QED
      BY <3>1, <3>2
  <2>3. m - 1 \in U
    BY <1>1, <2>1, <2>2
  <2> QED
    BY <1>1, <1>3, <2>3
<1>5. \E x \in T : \A y \in T : x >= y
  BY <1>1, <1>3, <1>4
<1>6. Restart!Max(T) \in T /\ \A t \in T : Restart!Max(T) >= t
  BY <1>5 DEF Restart!Max
<1>7. ASSUME NEW k \in T, \A t \in T : t <= k PROVE Restart!Max(T) = k
  <2>1. PICK x \in Nat : x = Restart!Max(T)
    BY <1>6
  <2> QED
    BY <1>6, <1>7, <2>1
<1>8. \A t \in T : t <= Restart!Max(T)
  <2>1. PICK x \in Nat : x = Restart!Max(T)
    BY <1>6
  <2> QED
    BY <1>6, <2>1
<1> QED
  BY <1>6, <1>7, <1>8

-----------------------------------------------------------------------------
(* The build a restore gives the base: the one of the snapshot, paid for,  *)
(* or none.                                                                *)
LEMMA RestoredBuildIs ==
    ASSUME NEW p, SnapshotSound(p)
    PROVE  /\ \A d \in p.builds : Restart!RestoredBuild(p, 1) = [n |-> d.n, paid |-> TRUE]
           /\ p.builds = {} => Restart!RestoredBuild(p, 1) = Restart!NoBuild
<1>1. \A c, d \in p.builds : c = d
  BY DEF SnapshotSound, BuildApart
<1>2. \A d \in p.builds : d.owner = 1
  BY SnapshotFields, OrderLineFields DEF SnapshotSound
<1>3. ASSUME NEW d \in p.builds
      PROVE  Restart!RestoredBuild(p, 1) = [n |-> d.n, paid |-> TRUE]
  <2>1. (CHOOSE bd \in p.builds : bd.owner = 1) = d
    BY <1>1, <1>2
  <2>2. \E bd \in p.builds : bd.owner = 1
    BY <1>2
  <2> QED
    BY <2>1, <2>2 DEF Restart!RestoredBuild
<1> QED
  BY <1>3 DEF Restart!RestoredBuild

(* Capturing what a snapshot was restored to gives the snapshot back. *)
LEMMA RestoredRoundTrip ==
    ASSUME NEW p, SnapshotSound(p)
    PROVE  Restart!CaptureState(Restart!RestoreState(p)) = p
<1>1. p \in Snapshots
  BY DEF SnapshotSound
<1>2. PICK B : B = [b \in DOMAIN p.bases |-> Restart!Base(p.bases[b].stock, Restart!RestoredBuild(p, b))]
  OBVIOUS
<1>3. PICK u : u = Restart!RestoreState(p)
  OBVIOUS
<1>4. u.tick = p.tick /\ u.bases = B /\ u.ships = p.ships /\ u.npcs = p.npcs
  BY <1>2, <1>3 DEF Restart!RestoreState
<1>5. DOMAIN B = {1} /\ B[1] = Restart!Base(p.bases[1].stock, Restart!RestoredBuild(p, 1))
  BY <1>1, <1>2, SnapshotFields
<1>6. B[1].stock = p.bases[1].stock /\ B[1].build = Restart!RestoredBuild(p, 1)
  BY <1>5 DEF Restart!Base
<1>7. Restart!PersistBases(u) = p.bases
  <2>1. Restart!PersistBases(u) = [b \in {1} |-> Restart!Base(B[b].stock, Restart!NoBuild)]
    BY <1>4, <1>5 DEF Restart!PersistBases
  <2>2. Restart!Base(B[1].stock, Restart!NoBuild) = p.bases[1]
    BY <1>1, <1>6, SnapshotFields DEF Restart!Base
  <2>3. p.bases = [b \in {1} |-> p.bases[b]]
    BY <1>1, SnapshotFields
  <2> QED
    BY <2>1, <2>2, <2>3
<1>8. Restart!PersistBuilds(u) = p.builds
  <2>1. Restart!PersistBuilds(u) =
          { [owner |-> b, n |-> B[b].build.n] : b \in { c \in {1} : B[c].build # Restart!NoBuild } }
    BY <1>4, <1>5 DEF Restart!PersistBuilds
  <2>2. CASE p.builds = {}
    <3>1. { c \in {1} : B[c].build # Restart!NoBuild } = {}
      BY <1>6, <2>2, RestoredBuildIs
    <3> QED
      BY <2>1, <2>2, <3>1
  <2>3. ASSUME NEW d \in p.builds PROVE Restart!PersistBuilds(u) = p.builds
    <3>1. B[1].build = [n |-> d.n, paid |-> TRUE]
      BY <1>6, RestoredBuildIs
    <3>2. B[1].build # Restart!NoBuild /\ B[1].build.n = d.n
      BY <3>1 DEF Restart!NoBuild
    <3>3. { c \in {1} : B[c].build # Restart!NoBuild } = {1}
      BY <3>2
    <3>4. Restart!PersistBuilds(u) = { [owner |-> 1, n |-> d.n] }
      BY <2>1, <3>2, <3>3
    <3>5. d = [owner |-> 1, n |-> d.n]
      BY <1>1, SnapshotFields, OrderLineFields
    <3>6. p.builds = {d}
      BY DEF SnapshotSound, BuildApart
    <3> QED
      BY <3>4, <3>5, <3>6
  <2> QED
    BY <2>2, <2>3
<1>9. Restart!CaptureState(u) =
        [tick |-> p.tick, bases |-> p.bases, ships |-> p.ships, builds |-> p.builds, npcs |-> p.npcs]
  BY <1>4, <1>7, <1>8 DEF Restart!CaptureState
<1> QED
  BY <1>1, <1>3, <1>9, SnapshotFields

(* A sound snapshot restores to a sound world that goes on from its tick. *)
LEMMA RestoredSound ==
    ASSUME NEW p, SnapshotSound(p)
    PROVE  WorldSound(Restart!RestoreState(p)) /\ Restart!RestoreState(p).tick = p.tick
<1>1. p \in Snapshots
  BY DEF SnapshotSound
<1>2. PICK bound \in Nat : Below(bound, p.builds, p.ships, DOMAIN p.npcs)
  BY DEF SnapshotSound, Below
<1>3. PICK S, N, B, A, ids, orders :
         /\ S = p.ships /\ N = p.npcs
         /\ B = [b \in DOMAIN p.bases |-> Restart!Base(p.bases[b].stock, Restart!RestoredBuild(p, b))]
         /\ A = Restart!SiteAlive(p)
         /\ ids = Restart!Ids(p) \cup {0}
         /\ orders = Restart!Orders(p)
  OBVIOUS
<1>4. PICK next, ordered : next = Restart!NextId(p) /\ ordered = Restart!Max(orders)
  OBVIOUS
<1>5. PICK u : u = Restart!RestoreState(p)
  OBVIOUS
<1>6. u = [tick |-> p.tick, next |-> next, bases |-> B, ships |-> S, npcs |-> N, nodes |-> {},
           siteAlive |-> A, ordered |-> ordered]
  BY <1>3, <1>4, <1>5 DEF Restart!RestoreState
<1>7. /\ u.tick = p.tick /\ u.next = next /\ u.bases = B /\ u.ships = S /\ u.npcs = N /\ u.nodes = {}
      /\ u.siteAlive = A /\ u.ordered = ordered
  BY <1>6
<1>8. /\ DOMAIN S \subseteq Nat /\ DOMAIN N \subseteq Nat /\ DOMAIN p.bases = {1}
      /\ \A s \in DOMAIN S : S[s].from \in Nat
      /\ \A k \in DOMAIN N : N[k].site \in Nat
      /\ IsFiniteSet(DOMAIN S) /\ IsFiniteSet(DOMAIN N) /\ DOMAIN S \cap DOMAIN N = {}
      /\ \A i \in DOMAIN S \cup DOMAIN N : i > 1 /\ i < bound
      /\ \A s \in DOMAIN S : S[s].from < bound
      /\ \A d \in p.builds : d.n \in Nat /\ d.n < bound
  BY <1>1, <1>2, <1>3, SnapshotFields, OrderLineFields DEF SnapshotSound, Below
<1>9. next \in Nat /\ 1 < next /\ \A i \in DOMAIN S \cup DOMAIN N : i < next
  <2>1. ids = {1} \cup DOMAIN S \cup DOMAIN N \cup {0}
    BY <1>3, <1>8 DEF Restart!Ids
  <2>2. ids \subseteq Nat /\ ids # {} /\ \A i \in ids : i < bound + 2
    BY <1>8, <2>1
  <2>3. PICK m : m = Restart!Max(ids)
    OBVIOUS
  <2>4. m \in Nat /\ \A i \in ids : i <= m
    <3>1. bound + 2 \in Nat
      OBVIOUS
    <3> QED
      BY <2>2, <2>3, <3>1, GreatestNumber
  <2>5. next = m + 1
    BY <1>3, <1>4, <2>3 DEF Restart!NextId
  <2> QED
    BY <1>8, <2>1, <2>4, <2>5
<1>10. /\ ordered \in Nat /\ \A s \in DOMAIN S : S[s].from <= ordered
       /\ \A d \in p.builds : d.n <= ordered
  <2>1. orders = { d.n : d \in p.builds } \cup { S[s].from : s \in DOMAIN S } \cup {0}
    BY <1>3 DEF Restart!Orders
  <2>2. orders \subseteq Nat /\ orders # {} /\ \A i \in orders : i < bound + 2
    BY <1>8, <2>1
  <2>3. bound + 2 \in Nat
    OBVIOUS
  <2>4. ordered \in orders /\ \A i \in orders : i <= ordered
    BY <1>4, <2>2, <2>3, GreatestNumber
  <2> QED
    BY <2>1, <2>2, <2>4
<1>11. PICK bl : bl = Restart!RestoredBuild(p, 1)
  OBVIOUS
<1>12. bl \in BuildLines /\ OrdersApart(S, bl.n, bl.paid, ordered)
  <2>1. CASE p.builds = {}
    <3>1. bl = [n |-> 0, paid |-> FALSE]
      BY <1>11, <2>1, RestoredBuildIs DEF Restart!NoBuild
    <3>2. bl \in BuildLines /\ bl.n = 0 /\ bl.paid = FALSE
      BY <3>1 DEF BuildLines
    <3> QED
      BY <1>10, <3>2 DEF OrdersApart
  <2>2. ASSUME NEW d \in p.builds PROVE bl \in BuildLines /\ OrdersApart(S, bl.n, bl.paid, ordered)
    <3>1. bl = [n |-> d.n, paid |-> TRUE]
      BY <1>11, RestoredBuildIs
    <3>2. bl \in BuildLines /\ bl.n = d.n /\ bl.paid = TRUE
      BY <1>8, <3>1 DEF BuildLines
    <3>3. d.n # 0 /\ \A s \in DOMAIN S : S[s].from # d.n
      BY <1>3 DEF SnapshotSound, BuildApart
    <3> QED
      BY <1>10, <3>2, <3>3 DEF OrdersApart
  <2> QED
    BY <2>1, <2>2
<1>13. B \in Stations /\ B[1].build = bl
  <2>1. B = [b \in {1} |-> Restart!Base(p.bases[b].stock, Restart!RestoredBuild(p, b))]
    BY <1>3, <1>8
  <2>2. PICK x : x = Restart!Base(p.bases[1].stock, bl)
    OBVIOUS
  <2>3. x \in BaseRows /\ x.build = bl
    BY <1>1, <1>12, <2>2, SnapshotFields DEF Restart!Base, BaseRows
  <2>4. B = [b \in {1} |-> x]
    BY <1>11, <2>1, <2>2
  <2> QED
    BY <2>3, <2>4 DEF Stations
<1>14. A \in Tables(Nat) /\ GuardiansCounted(N, A)
  <2>1. A = [s \in { N[n].site : n \in DOMAIN N } |-> Cardinality(Guardians(N, s))]
    <3>1. \A T : Restart!Cardinality(T) = Cardinality(T)
      BY RestartSameCardinality
    <3> QED
      BY <1>3, <3>1 DEF Restart!SiteAlive, Guardians
  <2>2. DOMAIN A = { N[n].site : n \in DOMAIN N } /\ A = [s \in DOMAIN A |-> A[s]]
    BY <2>1
  <2>3. \A s \in DOMAIN A : A[s] = Cardinality(Guardians(N, s))
    BY <2>1
  <2>4. \A s : IsFiniteSet(Guardians(N, s)) /\ Cardinality(Guardians(N, s)) \in Nat
    <3>1. \A s : Guardians(N, s) \subseteq DOMAIN N
      BY DEF Guardians
    <3> QED
      BY <1>8, <3>1, FS_Subset, FS_CardinalityType
  <2>5. DOMAIN A \subseteq Nat
    BY <1>8, <2>2
  <2>6. A \in Tables(Nat)
    BY <2>2, <2>3, <2>4, <2>5, TableIs
  <2> QED
    BY <2>2, <2>3, <2>6 DEF GuardiansCounted
<1>15. S \in Tables([from : Nat]) /\ N \in Tables([site : Nat]) /\ p.tick \in Nat
  BY <1>1, <1>3, SnapshotFields
<1>16. u \in Worlds
  BY <1>6, <1>9, <1>10, <1>13, <1>14, <1>15 DEF Worlds
<1>17. IdsApart(DOMAIN S, DOMAIN N, {}, next)
  BY <1>8, <1>9, FS_EmptySet DEF IdsApart
<1>18. WorldSound(u)
  BY <1>7, <1>12, <1>13, <1>14, <1>16, <1>17 DEF WorldSound
<1> QED
  BY <1>5, <1>7, <1>18

(* So is the world of a cold start. *)
LEMMA ColdWorldSound == WorldSound(Restart!ColdWorld) /\ Restart!ColdWorld.tick = 0
<1>1. PICK S, N, B, A :
         /\ S = [s \in {2} |-> [from |-> 0]] /\ N = [n \in {3, 4} |-> [site |-> 1]]
         /\ B = [b \in {1} |-> Restart!FreshBase] /\ A = [s \in {1} |-> 2]
  OBVIOUS
<1>2. PICK u : u = Restart!ColdWorld
  OBVIOUS
<1>3. u = [tick |-> 0, next |-> 6, bases |-> B, ships |-> S, npcs |-> N, nodes |-> {5},
           siteAlive |-> A, ordered |-> 0]
  BY <1>1, <1>2 DEF Restart!ColdWorld
<1>4. /\ u.tick = 0 /\ u.next = 6 /\ u.bases = B /\ u.ships = S /\ u.npcs = N /\ u.nodes = {5}
      /\ u.siteAlive = A /\ u.ordered = 0
  BY <1>3
<1>5. /\ DOMAIN S = {2} /\ S[2] = [from |-> 0] /\ S[2].from = 0 /\ S = [s \in DOMAIN S |-> S[s]]
      /\ S[2] \in [from : Nat]
  BY <1>1
<1>6. /\ DOMAIN N = {3, 4} /\ \A n \in DOMAIN N : N[n] \in [site : Nat] /\ N[n].site = 1
      /\ N = [n \in DOMAIN N |-> N[n]]
  BY <1>1
<1>7. DOMAIN A = {1} /\ A[1] = 2 /\ A = [s \in DOMAIN A |-> A[s]]
  BY <1>1
<1>8. S \in Tables([from : Nat]) /\ N \in Tables([site : Nat]) /\ A \in Tables(Nat)
  <2>1. S \in Tables([from : Nat])
    <3>1. DOMAIN S \subseteq Nat /\ \A s \in DOMAIN S : S[s] \in [from : Nat]
      BY <1>5
    <3> QED
      BY <1>5, <3>1, TableIs
  <2>2. N \in Tables([site : Nat])
    <3>1. DOMAIN N \subseteq Nat /\ \A n \in DOMAIN N : N[n] \in [site : Nat]
      BY <1>6
    <3> QED
      BY <1>6, <3>1, TableIs
  <2>3. A \in Tables(Nat)
    BY <1>7, TableIs
  <2> QED
    BY <2>1, <2>2, <2>3
<1>9. B \in Stations /\ B[1].build.n = 0 /\ B[1].build.paid = FALSE
  <2>1. PICK x : x = Restart!FreshBase
    OBVIOUS
  <2>2. PICK bl : bl = [n |-> 0, paid |-> FALSE]
    OBVIOUS
  <2>3. bl \in BuildLines /\ bl.n = 0 /\ bl.paid = FALSE
    BY <2>2 DEF BuildLines
  <2>4. x = [stock |-> 1, build |-> bl]
    BY <2>1, <2>2 DEF Restart!FreshBase, Restart!Base, Restart!NoBuild
  <2>5. x \in BaseRows /\ x.build = bl
    BY <2>3, <2>4 DEF BaseRows
  <2>6. B = [b \in {1} |-> x]
    BY <1>1, <2>1
  <2> QED
    BY <2>3, <2>5, <2>6 DEF Stations
<1>10. u \in Worlds
  BY <1>3, <1>8, <1>9 DEF Worlds
<1>11. GuardiansCounted(N, A)
  <2>1. Guardians(N, 1) = {3} \cup {4}
    BY <1>6 DEF Guardians
  <2>2. IsFiniteSet({3}) /\ Cardinality({3}) = 1
    BY FS_Singleton
  <2>3. Cardinality({3} \cup {4}) = 2
    BY <2>2, FS_AddElement
  <2> QED
    BY <1>6, <1>7, <2>1, <2>3 DEF GuardiansCounted
<1>12. IdsApart(DOMAIN S, DOMAIN N, {5}, 6)
  <2>1. IsFiniteSet({2}) /\ IsFiniteSet({3}) /\ IsFiniteSet({5})
    BY FS_Singleton
  <2>2. IsFiniteSet({3} \cup {4})
    BY <2>1, FS_AddElement
  <2>3. {3, 4} = {3} \cup {4}
    OBVIOUS
  <2> QED
    BY <1>5, <1>6, <2>1, <2>2, <2>3 DEF IdsApart
<1>13. OrdersApart(S, B[1].build.n, B[1].build.paid, 0)
  BY <1>5, <1>9 DEF OrdersApart
<1>14. WorldSound(u)
  BY <1>4, <1>10, <1>11, <1>12, <1>13 DEF WorldSound
<1> QED
  BY <1>2, <1>4, <1>14

-----------------------------------------------------------------------------
(* The capture under way: each pass's part is what the world had then, and *)
(* what the world has grown into since.                                    *)
Draft(tk, bases, ships, builds, npcs, w) ==
    [state |-> [tick |-> tk, bases |-> bases, ships |-> ships, builds |-> builds, npcs |-> npcs],
     watermark |-> w]

CaptureSound(r, at, w) ==
    /\ r = Draft(r.state.tick, r.state.bases, r.state.ships, r.state.builds, r.state.npcs,
                   r.watermark)
    /\ r.state.tick \in Nat /\ r.state.tick <= w.tick /\ r.watermark \in Nat
    /\ at \in {"ships", "builds", "npcs", "watermark", "save"} => r.state.bases \in [{1} -> BareRows]
    /\ at \in {"builds", "npcs", "watermark", "save"} =>
          /\ r.state.ships \in Tables([from : Nat])
          /\ DOMAIN r.state.ships \subseteq DOMAIN w.ships
          /\ \A s \in DOMAIN r.state.ships : r.state.ships[s] = w.ships[s]
    /\ at \in {"npcs", "watermark", "save"} =>
          /\ r.state.builds \subseteq OrderLines
          /\ BuildApart(r.state.builds, r.state.ships)
          /\ \A d \in r.state.builds : d.n <= w.ordered
    /\ at \in {"watermark", "save"} =>
          /\ r.state.npcs \in Tables([site : Nat])
          /\ IsFiniteSet(DOMAIN r.state.npcs)
          /\ DOMAIN r.state.ships \cap DOMAIN r.state.npcs = {}
          /\ \A i \in DOMAIN r.state.npcs : 1 < i /\ i < w.next

Passes == {"bases", "ships", "builds", "npcs"}

SnapshotRows == [tick : Nat, watermark : Nat, blob : Snapshots, version : Versions]

RowsSound ==
    /\ SimSnapshots \in Seq(SnapshotRows)
    /\ \A i \in DOMAIN SimSnapshots : /\ SimSnapshots[i].tick = SimSnapshots[i].blob.tick
                                      /\ SnapshotSound(SimSnapshots[i].blob)

(* Until a cold start over existing rows, ticks only grow. *)
TicksGrow ==
    \/ coldBoot
    \/ /\ \A i, j \in DOMAIN SimSnapshots : i <= j => SimSnapshots[i].tick <= SimSnapshots[j].tick
       /\ sim # Restart!Down => \A i \in DOMAIN SimSnapshots : SimSnapshots[i].tick <= sim.tick
       /\ capturing # "none" => \A i \in DOMAIN SimSnapshots : SimSnapshots[i].tick <= req.state.tick

RestartIInv ==
    /\ outboxRows \in Nat /\ version \in Versions
    /\ capturing \in Passes \cup {"watermark", "save", "none"}
    /\ sim # Restart!Down => WorldSound(sim)
    /\ capturing # "none" => sim # Restart!Down /\ CaptureSound(req, capturing, sim)
    /\ RowsSound
    /\ TicksGrow

-----------------------------------------------------------------------------
(* What has been captured stays good as the world ticks on. *)
LEMMA CaptureOutlivesStep ==
    ASSUME NEW r, NEW u, NEW w, NEW at, WorldSound(u), WorldSound(w), GrowsInto(u, w), u.tick <= w.tick,
           CaptureSound(r, at, u)
    PROVE  CaptureSound(r, at, w)
<1>1. /\ u.tick \in Nat /\ w.tick \in Nat /\ u.next \in Nat /\ w.next \in Nat
      /\ u.ordered \in Nat /\ w.ordered \in Nat
  BY WorldFields DEF WorldSound
<1>2. r.state.tick <= w.tick
  BY <1>1 DEF CaptureSound
<1>3. /\ u.next <= w.next /\ u.ordered <= w.ordered /\ DOMAIN u.ships \subseteq DOMAIN w.ships
      /\ \A s \in DOMAIN u.ships : w.ships[s] = u.ships[s]
  BY DEF GrowsInto
<1>4. at \in {"builds", "npcs", "watermark", "save"} =>
          /\ DOMAIN r.state.ships \subseteq DOMAIN w.ships
          /\ \A s \in DOMAIN r.state.ships : r.state.ships[s] = w.ships[s]
  BY <1>3 DEF CaptureSound
<1>5. at \in {"npcs", "watermark", "save"} => \A d \in r.state.builds : d.n <= w.ordered
  <2> SUFFICES ASSUME at \in {"npcs", "watermark", "save"}, NEW d \in r.state.builds
               PROVE  d.n <= w.ordered
    OBVIOUS
  <2>1. d.n \in Nat /\ d.n <= u.ordered
    BY OrderLineFields DEF CaptureSound
  <2> QED
    BY <1>1, <1>3, <2>1
<1>6. at \in {"watermark", "save"} => \A i \in DOMAIN r.state.npcs : 1 < i /\ i < w.next
  <2> SUFFICES ASSUME at \in {"watermark", "save"}, NEW i \in DOMAIN r.state.npcs
               PROVE  1 < i /\ i < w.next
    OBVIOUS
  <2>1. i \in Nat /\ 1 < i /\ i < u.next
    BY TableIs DEF CaptureSound
  <2> QED
    BY <1>1, <1>3, <2>1
<1> QED
  BY <1>2, <1>4, <1>5, <1>6 DEF CaptureSound

(* The snapshot a finished capture makes is sound. *)
LEMMA CapturedSnapshotSound ==
    ASSUME NEW r, NEW u, WorldSound(u), CaptureSound(r, "save", u)
    PROVE  SnapshotSound(r.state)
<1>1. PICK p : p = r.state
  OBVIOUS
<1>2. /\ p.tick \in Nat /\ p.bases \in [{1} -> BareRows] /\ p.ships \in Tables([from : Nat])
      /\ p.builds \in SUBSET OrderLines /\ p.npcs \in Tables([site : Nat])
      /\ p = [tick |-> p.tick, bases |-> p.bases, ships |-> p.ships, builds |-> p.builds, npcs |-> p.npcs]
  <2>1. r = Draft(p.tick, p.bases, p.ships, p.builds, p.npcs, r.watermark)
    BY <1>1 DEF CaptureSound
  <2>2. p = [tick |-> p.tick, bases |-> p.bases, ships |-> p.ships, builds |-> p.builds, npcs |-> p.npcs]
    BY <1>1, <2>1 DEF Draft
  <2> QED
    BY <1>1, <2>2 DEF CaptureSound
<1>3. p \in Snapshots
  BY <1>2 DEF Snapshots
<1>4. PICK next \in Nat, ord \in Nat : next = u.next /\ ord = u.ordered
  BY WorldFields DEF WorldSound
<1>5. /\ BuildApart(p.builds, p.ships) /\ IsFiniteSet(DOMAIN p.npcs)
      /\ DOMAIN p.ships \cap DOMAIN p.npcs = {}
      /\ DOMAIN p.ships \subseteq DOMAIN u.ships
      /\ \A s \in DOMAIN p.ships : p.ships[s] = u.ships[s]
      /\ \A i \in DOMAIN p.npcs : 1 < i /\ i < next
      /\ \A d \in p.builds : d.n <= ord
  BY <1>1, <1>4 DEF CaptureSound
<1>6. /\ IsFiniteSet(DOMAIN u.ships) /\ \A s \in DOMAIN u.ships : s \in Nat /\ 1 < s /\ s < next
      /\ \A s \in DOMAIN u.ships : u.ships[s].from \in Nat /\ u.ships[s].from <= ord
  BY <1>4, ShipFields DEF WorldSound, IdsApart, OrdersApart
<1>7. IsFiniteSet(DOMAIN p.ships) /\ \A s \in DOMAIN p.ships : 1 < s
  BY <1>5, <1>6, FS_Subset
<1>8. PICK bound \in Nat : bound = next + ord + 1
  OBVIOUS
<1>9. Below(bound, p.builds, p.ships, DOMAIN p.npcs)
  <2>1. \A s \in DOMAIN p.ships : s < bound /\ p.ships[s].from < bound
    BY <1>5, <1>6, <1>8
  <2>2. \A i \in DOMAIN p.npcs : i < bound
    <3>1. \A i \in DOMAIN p.npcs : i \in Nat
      BY <1>2, TableIs
    <3> QED
      BY <1>5, <1>8, <3>1
  <2>3. \A d \in p.builds : d.n < bound
    <3>1. \A d \in p.builds : d.n \in Nat
      BY <1>2, OrderLineFields
    <3> QED
      BY <1>5, <1>8, <3>1
  <2> QED
    BY <2>1, <2>2, <2>3 DEF Below
<1>10. \A i \in DOMAIN p.ships \cup DOMAIN p.npcs : i > 1
  <2>1. DOMAIN p.ships \cup DOMAIN p.npcs \subseteq Nat
    BY <1>2, TableIs
  <2> QED
    BY <1>5, <1>7, <2>1
<1>11. SnapshotSound(p)
  BY <1>3, <1>5, <1>7, <1>9, <1>10 DEF SnapshotSound
<1> QED
  BY <1>1, <1>11

-----------------------------------------------------------------------------
(* The parts of a draft. *)
LEMMA DraftFields ==
    ASSUME NEW tk, NEW b, NEW s, NEW d, NEW n, NEW w
    PROVE  LET r == Draft(tk, b, s, d, n, w)
           IN  /\ r.state.tick = tk /\ r.state.bases = b /\ r.state.ships = s /\ r.state.builds = d
               /\ r.state.npcs = n /\ r.watermark = w
               /\ r = Draft(r.state.tick, r.state.bases, r.state.ships, r.state.builds, r.state.npcs,
                            r.watermark)
BY DEF Draft

(* What each pass reads of a sound world. *)
LEMMA PersistSound ==
    ASSUME NEW u, WorldSound(u)
    PROVE  /\ Restart!PersistBases(u) \in [{1} -> BareRows]
           /\ Restart!PersistBuilds(u) \subseteq OrderLines
           /\ \A d \in Restart!PersistBuilds(u) : d.n = u.bases[1].build.n /\ d.n # 0 /\ d.n <= u.ordered
           /\ \A c, d \in Restart!PersistBuilds(u) : c = d
           /\ \A d \in Restart!PersistBuilds(u) : \A s \in DOMAIN u.ships : u.ships[s].from # d.n
<1>1. u \in Worlds /\ DOMAIN u.bases = {1} /\ u.bases[1].stock \in Nat /\ u.bases[1].build.n \in Nat
  BY WorldFields DEF WorldSound
<1>2. Restart!PersistBases(u) \in [{1} -> BareRows]
  <2>1. Restart!Base(u.bases[1].stock, Restart!NoBuild) \in BareRows
    BY <1>1 DEF Restart!Base, BareRows
  <2> QED
    BY <1>1, <2>1 DEF Restart!PersistBases
<1>3. \A d \in Restart!PersistBuilds(u) : /\ d = [owner |-> 1, n |-> u.bases[1].build.n]
                                          /\ u.bases[1].build # Restart!NoBuild
  BY <1>1 DEF Restart!PersistBuilds
<1>4. u.bases[1].build.n = 0 => u.bases[1].build = Restart!NoBuild
  <2>1. u.bases[1].build = [n |-> u.bases[1].build.n, paid |-> u.bases[1].build.paid]
        /\ u.bases[1].build.paid \in BOOLEAN
    BY <1>1, WorldFields
  <2>2. u.bases[1].build.n = 0 => u.bases[1].build.paid = FALSE
    BY <2>1 DEF WorldSound, OrdersApart
  <2> QED
    BY <2>1, <2>2 DEF Restart!NoBuild
<1>5. /\ u.bases[1].build.n <= u.ordered
      /\ u.bases[1].build.n # 0 => \A s \in DOMAIN u.ships : u.ships[s].from # u.bases[1].build.n
  BY DEF WorldSound, OrdersApart
<1>6. \A d \in Restart!PersistBuilds(u) : d.n = u.bases[1].build.n /\ d.n # 0 /\ d \in OrderLines
  <2> SUFFICES ASSUME NEW d \in Restart!PersistBuilds(u)
               PROVE  d.n = u.bases[1].build.n /\ d.n # 0 /\ d \in OrderLines
    OBVIOUS
  <2>1. d.n = u.bases[1].build.n /\ d \in OrderLines
    BY <1>1, <1>3 DEF OrderLines
  <2> QED
    BY <1>3, <1>4, <2>1
<1> QED
  BY <1>2, <1>3, <1>5, <1>6

(* Every pass adds a part as good as the world it is read from. *)
LEMMA PassKeepsCapture ==
    ASSUME NEW r, NEW u, NEW at \in Passes, WorldSound(u), CaptureSound(r, at, u)
    PROVE  CaptureSound([r EXCEPT !.state[at] = Restart!CaptureState(u)[at]], Restart!AfterPass(at), u)
<1>1. PICK tk, b, s, d, n, w : /\ tk = r.state.tick /\ b = r.state.bases /\ s = r.state.ships
                               /\ d = r.state.builds /\ n = r.state.npcs /\ w = r.watermark
  OBVIOUS
<1>2. r = Draft(tk, b, s, d, n, w) /\ tk \in Nat /\ tk <= u.tick /\ w \in Nat
  BY <1>1 DEF CaptureSound
<1>3. u \in Worlds /\ IsFiniteSet(DOMAIN u.npcs) /\ DOMAIN u.ships \cap DOMAIN u.npcs = {}
      /\ (\A i \in DOMAIN u.npcs : 1 < i /\ i < u.next)
      /\ u.ships \in Tables([from : Nat]) /\ u.npcs \in Tables([site : Nat])
  BY WorldFields DEF WorldSound, IdsApart
<1>4. CASE at = "bases"
  <2>1. PICK x : x = Restart!PersistBases(u)
    OBVIOUS
  <2>2. Restart!CaptureState(u)[at] = x
    BY <1>4, <2>1 DEF Restart!CaptureState
  <2>3. [r EXCEPT !.state[at] = Restart!CaptureState(u)[at]] = Draft(tk, x, s, d, n, w)
    <3>1. [Draft(tk, b, s, d, n, w) EXCEPT !.state["bases"] = x] = Draft(tk, x, s, d, n, w)
      BY DEF Draft
    <3> QED
      BY <1>2, <1>4, <2>2, <3>1
  <2>4. Restart!AfterPass(at) = "ships"
    BY <1>4 DEF Restart!AfterPass
  <2>5. x \in [{1} -> BareRows]
    BY <2>1, PersistSound
  <2>6. CaptureSound(Draft(tk, x, s, d, n, w), "ships", u)
    BY <1>2, <2>5, DraftFields DEF CaptureSound
  <2> QED
    BY <2>3, <2>4, <2>6
<1>5. CASE at = "ships"
  <2>1. Restart!CaptureState(u)[at] = u.ships
    BY <1>5 DEF Restart!CaptureState
  <2>2. [r EXCEPT !.state[at] = Restart!CaptureState(u)[at]] = Draft(tk, b, u.ships, d, n, w)
    <3>1. [Draft(tk, b, s, d, n, w) EXCEPT !.state["ships"] = u.ships] = Draft(tk, b, u.ships, d, n, w)
      BY DEF Draft
    <3> QED
      BY <1>2, <1>5, <2>1, <3>1
  <2>3. Restart!AfterPass(at) = "builds"
    BY <1>5 DEF Restart!AfterPass
  <2>4. b \in [{1} -> BareRows]
    BY <1>1, <1>5 DEF CaptureSound
  <2>5. CaptureSound(Draft(tk, b, u.ships, d, n, w), "builds", u)
    BY <1>2, <1>3, <2>4, DraftFields DEF CaptureSound
  <2> QED
    BY <2>2, <2>3, <2>5
<1>6. CASE at = "builds"
  <2>1. PICK x : x = Restart!PersistBuilds(u)
    OBVIOUS
  <2>2. Restart!CaptureState(u)[at] = x
    BY <1>6, <2>1 DEF Restart!CaptureState
  <2>3. [r EXCEPT !.state[at] = Restart!CaptureState(u)[at]] = Draft(tk, b, s, x, n, w)
    <3>1. [Draft(tk, b, s, d, n, w) EXCEPT !.state["builds"] = x] = Draft(tk, b, s, x, n, w)
      BY DEF Draft
    <3> QED
      BY <1>2, <1>6, <2>2, <3>1
  <2>4. Restart!AfterPass(at) = "npcs"
    BY <1>6 DEF Restart!AfterPass
  <2>5. b \in [{1} -> BareRows] /\ s \in Tables([from : Nat]) /\ DOMAIN s \subseteq DOMAIN u.ships
        /\ \A i \in DOMAIN s : s[i] = u.ships[i]
    BY <1>1, <1>6 DEF CaptureSound
  <2>6. x \subseteq OrderLines /\ BuildApart(x, s) /\ \A c \in x : c.n <= u.ordered
    BY <2>1, <2>5, PersistSound DEF BuildApart
  <2>7. CaptureSound(Draft(tk, b, s, x, n, w), "npcs", u)
    BY <1>2, <2>5, <2>6, DraftFields DEF CaptureSound
  <2> QED
    BY <2>3, <2>4, <2>7
<1>7. CASE at = "npcs"
  <2>1. Restart!CaptureState(u)[at] = u.npcs
    BY <1>7 DEF Restart!CaptureState
  <2>2. [r EXCEPT !.state[at] = Restart!CaptureState(u)[at]] = Draft(tk, b, s, d, u.npcs, w)
    <3>1. [Draft(tk, b, s, d, n, w) EXCEPT !.state["npcs"] = u.npcs] = Draft(tk, b, s, d, u.npcs, w)
      BY DEF Draft
    <3> QED
      BY <1>2, <1>7, <2>1, <3>1
  <2>3. Restart!AfterPass(at) = "watermark"
    BY <1>7 DEF Restart!AfterPass
  <2>4. b \in [{1} -> BareRows] /\ s \in Tables([from : Nat]) /\ DOMAIN s \subseteq DOMAIN u.ships
        /\ (\A i \in DOMAIN s : s[i] = u.ships[i])
        /\ d \subseteq OrderLines /\ BuildApart(d, s) /\ \A c \in d : c.n <= u.ordered
    BY <1>1, <1>7 DEF CaptureSound
  <2>5. DOMAIN s \cap DOMAIN u.npcs = {}
    BY <1>3, <2>4
  <2>6. CaptureSound(Draft(tk, b, s, d, u.npcs, w), "watermark", u)
    BY <1>2, <1>3, <2>4, <2>5, DraftFields DEF CaptureSound
  <2> QED
    BY <2>2, <2>3, <2>6
<1> QED
  BY <1>4, <1>5, <1>6, <1>7 DEF Passes

-----------------------------------------------------------------------------
LEMMA RowFields ==
    ASSUME RowsSound, NEW i \in DOMAIN SimSnapshots
    PROVE  SimSnapshots[i] \in SnapshotRows /\ SimSnapshots[i].tick \in Nat
<1>1. SimSnapshots \in Seq(SnapshotRows)
  BY DEF RowsSound
<1>2. SimSnapshots[i] \in SnapshotRows
  BY <1>1
<1> QED
  BY <1>2 DEF SnapshotRows

LEMMA RestartInitHasInv == Restart!Init => RestartIInv
<1> SUFFICES ASSUME Restart!Init PROVE RestartIInv
  OBVIOUS
<1>1. sim = Restart!ColdWorld /\ capturing = "none" /\ SimSnapshots = << >> /\ outboxRows = 0
      /\ version = CHOOSE v \in Versions : TRUE
  BY DEF Restart!Init
<1>2. version \in Versions
  BY <1>1, RestartAssumption
<1>3. RowsSound
  <2>1. SimSnapshots \in Seq(SnapshotRows) /\ DOMAIN SimSnapshots = {}
    BY <1>1
  <2> QED
    BY <2>1 DEF RowsSound
<1>4. TicksGrow
  BY <1>1 DEF TicksGrow
<1>5. sim # Restart!Down => WorldSound(sim)
  BY <1>1, ColdWorldSound
<1> QED
  BY <1>1, <1>2, <1>3, <1>4, <1>5 DEF RestartIInv

LEMMA RestartStepKeepsInv == RestartIInv /\ Restart!Step => RestartIInv'
<1> SUFFICES ASSUME RestartIInv, Restart!Step PROVE RestartIInv'
  OBVIOUS
<1>1. sim # Restart!Down /\ WorldSound(sim)
  BY DEF RestartIInv, Restart!Step, Restart!Up
<1>2. PICK v \in Restart!Steps(sim) :
         /\ sim' = [v EXCEPT !.tick = @ + 1]
         /\ outboxRows' = outboxRows + Restart!Cardinality(DOMAIN sim.npcs \ DOMAIN v.npcs)
  BY DEF Restart!Step
<1>3. UNCHANGED << capturing, req, SimSnapshots, version, coldBoot >>
  BY DEF Restart!Step
<1>4. WorldSound(sim') /\ GrowsInto(sim, sim') /\ sim'.tick = sim.tick + 1
  BY <1>1, <1>2, StepKeepsSound
<1>5. sim.tick \in Nat /\ sim'.tick \in Nat /\ sim.tick <= sim'.tick
  <2>1. sim.tick \in Nat
    BY <1>1, WorldFields DEF WorldSound
  <2> QED
    BY <1>4, <2>1
<1>6. outboxRows' \in Nat
  <2>1. IsFiniteSet(DOMAIN sim.npcs)
    BY <1>1 DEF WorldSound, IdsApart
  <2>2. IsFiniteSet(DOMAIN sim.npcs \ DOMAIN v.npcs)
    BY <2>1, FS_Subset
  <2>3. Cardinality(DOMAIN sim.npcs \ DOMAIN v.npcs) \in Nat
    BY <2>2, FS_CardinalityType
  <2> QED
    BY <1>2, <2>3, RestartSameCardinality DEF RestartIInv
<1>7. (capturing # "none" => CaptureSound(req, capturing, sim))'
  BY <1>1, <1>3, <1>4, <1>5, CaptureOutlivesStep DEF RestartIInv
<1>8. RowsSound'
  BY <1>3 DEF RestartIInv, RowsSound
<1>9. (sim # Restart!Down)' \/ capturing = "none"
  <2>1. sim' \in Worlds
    BY <1>4 DEF WorldSound
  <2>2. DOMAIN sim' = {"tick", "next", "bases", "ships", "npcs", "nodes", "siteAlive", "ordered"}
    BY <2>1 DEF Worlds
  <2> QED
    BY <2>2 DEF Restart!Down
<1>10. TicksGrow'
  <2>1. CASE coldBoot
    BY <1>3, <2>1 DEF TicksGrow
  <2>2. CASE ~coldBoot
    <3>1. \A i \in DOMAIN SimSnapshots : SimSnapshots[i].tick \in Nat /\ SimSnapshots[i].tick <= sim.tick
      <4>1. \A i \in DOMAIN SimSnapshots : SimSnapshots[i].tick \in Nat
        BY RowFields DEF RestartIInv
      <4> QED
        BY <1>1, <2>2, <4>1 DEF RestartIInv, TicksGrow
    <3>2. \A i \in DOMAIN SimSnapshots : SimSnapshots[i].tick <= sim'.tick
      BY <1>5, <3>1
    <3> QED
      BY <1>3, <2>2, <3>2 DEF RestartIInv, TicksGrow
  <2> QED
    BY <2>1, <2>2
<1> QED
  BY <1>3, <1>4, <1>6, <1>7, <1>8, <1>9, <1>10 DEF RestartIInv

LEMMA BeginCaptureKeepsInv == RestartIInv /\ Restart!BeginCapture => RestartIInv'
<1> SUFFICES ASSUME RestartIInv, Restart!BeginCapture PROVE RestartIInv'
  OBVIOUS
<1>1. /\ sim # Restart!Down /\ WorldSound(sim) /\ capturing = "none"
      /\ req' = Draft(sim.tick, << >>, << >>, {}, << >>, 0) /\ capturing' = "bases"
      /\ UNCHANGED << sim, SimSnapshots, outboxRows, version, coldBoot >>
  BY DEF RestartIInv, Restart!BeginCapture, Restart!Up, Draft
<1>2. sim.tick \in Nat
  BY <1>1, WorldFields DEF WorldSound
<1>3. PICK t \in Nat : t = sim.tick
  BY <1>2
<1>4. PICK r : r = Draft(t, << >>, << >>, {}, << >>, 0)
  OBVIOUS
<1>5. r.state.tick = t /\ CaptureSound(r, "bases", sim)
  BY <1>3, <1>4, DraftFields DEF CaptureSound
<1>6. req' = r
  BY <1>1, <1>3, <1>4
<1>7. CaptureSound(req, capturing, sim)'
  BY <1>1, <1>5, <1>6
<1>8. TicksGrow'
  <2>1. CASE coldBoot
    BY <1>1, <2>1 DEF TicksGrow
  <2>2. CASE ~coldBoot
    BY <1>1, <1>3, <1>5, <1>6, <2>2 DEF RestartIInv, TicksGrow
  <2> QED
    BY <2>1, <2>2
<1> QED
  BY <1>1, <1>7, <1>8 DEF RestartIInv, RowsSound, Passes

LEMMA CapturePassKeepsInv == RestartIInv /\ Restart!CapturePass => RestartIInv'
<1> SUFFICES ASSUME RestartIInv, Restart!CapturePass PROVE RestartIInv'
  OBVIOUS
<1>1. /\ sim # Restart!Down /\ WorldSound(sim) /\ capturing \in Passes
      /\ req' = [req EXCEPT !.state[capturing] = Restart!CaptureState(sim)[capturing]]
      /\ capturing' = Restart!AfterPass(capturing)
      /\ UNCHANGED << sim, SimSnapshots, outboxRows, version, coldBoot >>
  BY DEF RestartIInv, Restart!CapturePass, Restart!Up, Passes
<1>2. CaptureSound(req, capturing, sim)
  BY <1>1 DEF RestartIInv, Passes
<1>3. CaptureSound(req', capturing', sim)
  BY <1>1, <1>2, PassKeepsCapture
<1>4. CaptureSound(req, capturing, sim)'
  BY <1>1, <1>3
<1>5. capturing' \in Passes \cup {"watermark", "save", "none"}
  BY <1>1 DEF Passes, Restart!AfterPass
<1>6. req'.state.tick = req.state.tick
  <2>1. PICK tk, b, s, d, n, w : req = Draft(tk, b, s, d, n, w)
    BY <1>2 DEF CaptureSound
  <2>2. PICK x : x = Restart!CaptureState(sim)[capturing]
    OBVIOUS
  <2>3. req' = [Draft(tk, b, s, d, n, w) EXCEPT !.state[capturing] = x]
    BY <1>1, <2>1, <2>2
  <2>4. capturing # "tick"
    BY <1>1 DEF Passes
  <2> QED
    BY <2>1, <2>3, <2>4 DEF Draft
<1>7. TicksGrow'
  <2>1. CASE coldBoot
    BY <1>1, <2>1 DEF TicksGrow
  <2>2. CASE ~coldBoot
    <3>1. capturing # "none"
      BY <1>1 DEF Passes
    <3> QED
      BY <1>1, <1>6, <2>2, <3>1 DEF RestartIInv, TicksGrow
  <2> QED
    BY <2>1, <2>2
<1> QED
  BY <1>1, <1>4, <1>5, <1>7 DEF RestartIInv, RowsSound

LEMMA ReadWatermarkKeepsInv ==
    ASSUME RestartIInv, NEW ok \in BOOLEAN, Restart!ReadWatermark(ok)
    PROVE  RestartIInv'
<1>1. PICK x : /\ x = IF ok THEN outboxRows ELSE 0
               /\ req' = [req EXCEPT !.watermark = x]
  BY DEF Restart!ReadWatermark
<1>2. /\ sim # Restart!Down /\ WorldSound(sim) /\ capturing = "watermark" /\ capturing' = "save"
      /\ UNCHANGED << sim, SimSnapshots, outboxRows, version, coldBoot >> /\ x \in Nat
      /\ CaptureSound(req, "watermark", sim)
  BY <1>1 DEF RestartIInv, Restart!ReadWatermark, Restart!Up
<1>3. PICK tk, b, s, d, n, w : /\ req = Draft(tk, b, s, d, n, w)
                               /\ tk = req.state.tick /\ b = req.state.bases /\ s = req.state.ships
                               /\ d = req.state.builds /\ n = req.state.npcs
  BY <1>2, SMTT(60) DEF CaptureSound
<1>4. req' = Draft(tk, b, s, d, n, x)
  <2>1. [Draft(tk, b, s, d, n, w) EXCEPT !.watermark = x] = Draft(tk, b, s, d, n, x)
    BY DEF Draft
  <2> QED
    BY <1>1, <1>3, <2>1, ZenonT(60)
<1>5. PICK r : r = Draft(tk, b, s, d, n, x)
  OBVIOUS
<1>6. /\ r.state.tick = tk /\ r.state.bases = b /\ r.state.ships = s /\ r.state.builds = d
      /\ r.state.npcs = n /\ r.watermark = x
      /\ r = Draft(r.state.tick, r.state.bases, r.state.ships, r.state.builds, r.state.npcs, r.watermark)
  BY <1>5, DraftFields
<1>7. CaptureSound(r, "save", sim)
  <2>1. tk \in Nat /\ tk <= sim.tick /\ b \in [{1} -> BareRows]
    BY <1>2, <1>3, ZenonT(60) DEF CaptureSound
  <2>2. /\ s \in Tables([from : Nat]) /\ DOMAIN s \subseteq DOMAIN sim.ships
        /\ \A i \in DOMAIN s : s[i] = sim.ships[i]
    BY <1>2, <1>3, ZenonT(60) DEF CaptureSound
  <2>3. d \subseteq OrderLines /\ BuildApart(d, s) /\ \A e \in d : e.n <= sim.ordered
    BY <1>2, <1>3, ZenonT(60) DEF CaptureSound
  <2>4. /\ n \in Tables([site : Nat]) /\ IsFiniteSet(DOMAIN n) /\ DOMAIN s \cap DOMAIN n = {}
        /\ \A i \in DOMAIN n : 1 < i /\ i < sim.next
    BY <1>2, <1>3, ZenonT(60) DEF CaptureSound
  <2> QED
    BY <1>2, <1>6, <2>1, <2>2, <2>3, <2>4, ZenonT(60) DEF CaptureSound
<1>8. CaptureSound(req, capturing, sim)' /\ req'.state.tick = req.state.tick
  BY <1>2, <1>3, <1>4, <1>5, <1>6, <1>7, ZenonT(60)
<1>9. TicksGrow'
  <2>1. CASE coldBoot
    BY <1>2, <2>1 DEF TicksGrow
  <2>2. CASE ~coldBoot
    BY <1>2, <1>8, <2>2 DEF RestartIInv, TicksGrow
  <2> QED
    BY <2>1, <2>2
<1> QED
  BY <1>2, <1>8, <1>9 DEF RestartIInv, RowsSound

LEMMA SaveKeepsInv ==
    ASSUME RestartIInv, NEW ok \in BOOLEAN, Restart!Save(ok)
    PROVE  RestartIInv'
<1>1. /\ sim # Restart!Down /\ WorldSound(sim) /\ capturing = "save" /\ capturing' = "none"
      /\ UNCHANGED << sim, outboxRows, version, coldBoot >>
      /\ CaptureSound(req, "save", sim)
  BY DEF RestartIInv, Restart!Save, Restart!Up
<1>2. CASE ~ok
  <2>1. SimSnapshots' = SimSnapshots
    BY <1>2 DEF Restart!Save
  <2>2. TicksGrow'
    BY <1>1, <2>1 DEF RestartIInv, TicksGrow
  <2> QED
    BY <1>1, <2>1, <2>2 DEF RestartIInv, RowsSound
<1>3. CASE ok
  <2>1. PICK row : /\ row = [tick |-> req.state.tick, watermark |-> req.watermark,
                             blob |-> req.state, version |-> version]
                   /\ SimSnapshots' = Append(SimSnapshots, row)
    BY <1>3 DEF Restart!Save
  <2>2. row.tick = req.state.tick /\ row.blob = req.state
    BY <2>1
  <2>3. SnapshotSound(row.blob)
    BY <1>1, <2>2, CapturedSnapshotSound
  <2>4. row \in SnapshotRows
    <3>1. req.state \in Snapshots
      BY <2>2, <2>3 DEF SnapshotSound
    <3>2. req.state.tick \in Nat /\ req.watermark \in Nat /\ version \in Versions
      BY <1>1 DEF CaptureSound, RestartIInv
    <3> QED
      BY <2>1, <3>1, <3>2 DEF SnapshotRows
  <2>5. SimSnapshots \in Seq(SnapshotRows) /\ Len(SimSnapshots) \in Nat
    BY DEF RestartIInv, RowsSound
  <2>6. /\ SimSnapshots' \in Seq(SnapshotRows)
        /\ DOMAIN SimSnapshots' = DOMAIN SimSnapshots \cup {Len(SimSnapshots) + 1}
        /\ \A i \in DOMAIN SimSnapshots : SimSnapshots'[i] = SimSnapshots[i]
        /\ SimSnapshots'[Len(SimSnapshots) + 1] = row
        /\ \A i \in DOMAIN SimSnapshots : i \in 1 .. Len(SimSnapshots)
    BY <2>1, <2>4, <2>5
  <2>7. RowsSound'
    <3>1. \A i \in DOMAIN SimSnapshots' : /\ SimSnapshots'[i].tick = SimSnapshots'[i].blob.tick
                                          /\ SnapshotSound(SimSnapshots'[i].blob)
      BY <2>2, <2>3, <2>6 DEF RestartIInv, RowsSound
    <3> QED
      BY <2>6, <3>1 DEF RowsSound
  <2>8. TicksGrow'
    <3>1. CASE coldBoot
      BY <1>1, <3>1 DEF TicksGrow
    <3>2. CASE ~coldBoot
      <4>1. /\ \A i, j \in DOMAIN SimSnapshots : i <= j => SimSnapshots[i].tick <= SimSnapshots[j].tick
            /\ \A i \in DOMAIN SimSnapshots : SimSnapshots[i].tick <= sim.tick
            /\ \A i \in DOMAIN SimSnapshots : SimSnapshots[i].tick <= row.tick
        BY <1>1, <2>2, <3>2 DEF RestartIInv, TicksGrow
      <4>2. row.tick <= sim.tick /\ row.tick \in Nat
        BY <1>1, <2>2 DEF CaptureSound
      <4>3. \A i \in DOMAIN SimSnapshots' : SimSnapshots'[i].tick <= sim'.tick
        BY <1>1, <2>6, <4>1, <4>2
      <4>4. ASSUME NEW i \in DOMAIN SimSnapshots', NEW j \in DOMAIN SimSnapshots', i <= j
            PROVE  SimSnapshots'[i].tick <= SimSnapshots'[j].tick
        <5>1. CASE j \in DOMAIN SimSnapshots
          <6>1. i \in DOMAIN SimSnapshots
            BY <2>5, <2>6, <4>4, <5>1
          <6> QED
            BY <2>6, <4>1, <4>4, <5>1, <6>1
        <5>2. CASE j = Len(SimSnapshots) + 1
          BY <2>6, <4>1, <4>2, <5>2
        <5> QED
          BY <2>6, <5>1, <5>2
      <4> QED
        BY <1>1, <4>3, <4>4 DEF TicksGrow
    <3> QED
      BY <3>1, <3>2
  <2> QED
    BY <1>1, <2>7, <2>8 DEF RestartIInv
<1> QED
  BY <1>2, <1>3

LEMMA CrashKeepsInv == RestartIInv /\ Restart!Crash => RestartIInv'
<1> SUFFICES ASSUME RestartIInv, Restart!Crash PROVE RestartIInv'
  OBVIOUS
<1>1. /\ sim' = Restart!Down /\ capturing' = "none"
      /\ UNCHANGED << SimSnapshots, outboxRows, version, coldBoot >>
  BY DEF Restart!Crash
<1>2. TicksGrow'
  BY <1>1 DEF RestartIInv, TicksGrow, Restart!Down
<1>3. (sim # Restart!Down)' <=> FALSE
  BY <1>1 DEF Restart!Down
<1> QED
  BY <1>1, <1>2, <1>3 DEF RestartIInv, RowsSound

LEMMA BootKeepsInv ==
    ASSUME RestartIInv, NEW ok \in BOOLEAN, Restart!Boot(ok)
    PROVE  RestartIInv'
<1>1. /\ sim = Restart!Down /\ capturing = "none" /\ version' \in Versions
      /\ UNCHANGED << capturing, SimSnapshots, outboxRows >>
  BY DEF RestartIInv, Restart!Boot, Restart!Up
<1>2. ASSUME WorldSound(sim'), TicksGrow' PROVE RestartIInv'
  BY <1>1, <1>2 DEF RestartIInv, RowsSound
<1>3. CASE sim' = Restart!ColdWorld /\ coldBoot'
  <2>1. WorldSound(sim')
    BY <1>3, ColdWorldSound
  <2>2. TicksGrow'
    BY <1>3 DEF TicksGrow
  <2> QED
    BY <1>2, <2>1, <2>2
<1>4. CASE SimSnapshots = << >> /\ sim' = Restart!ColdWorld /\ coldBoot' = coldBoot
  <2>1. WorldSound(sim')
    BY <1>4, ColdWorldSound
  <2>2. DOMAIN SimSnapshots' = {}
    BY <1>1, <1>4
  <2>3. TicksGrow'
    BY <1>1, <2>2 DEF TicksGrow
  <2> QED
    BY <1>2, <2>1, <2>3
<1>5. ASSUME NEW i \in Restart!LatestRows, sim' = Restart!RestoreState(SimSnapshots[i].blob),
             coldBoot' = coldBoot
      PROVE  RestartIInv'
  <2>1. /\ i \in DOMAIN SimSnapshots
        /\ \A j \in DOMAIN SimSnapshots : SimSnapshots[i].tick >= SimSnapshots[j].tick
    BY DEF Restart!LatestRows
  <2>2. SnapshotSound(SimSnapshots[i].blob) /\ SimSnapshots[i].tick = SimSnapshots[i].blob.tick
    BY <2>1 DEF RestartIInv, RowsSound
  <2>3. WorldSound(sim') /\ sim'.tick = SimSnapshots[i].tick
    BY <1>5, <2>2, RestoredSound
  <2>4. \A j \in DOMAIN SimSnapshots : SimSnapshots[j].tick <= sim'.tick
    <3>1. \A j \in DOMAIN SimSnapshots : SimSnapshots[j].tick \in Nat
      BY RowFields DEF RestartIInv
    <3> QED
      BY <2>1, <2>3, <3>1
  <2>5. TicksGrow'
    <3>1. CASE coldBoot
      BY <1>5, <3>1 DEF TicksGrow
    <3>2. CASE ~coldBoot
      BY <1>1, <1>5, <2>4, <3>2 DEF RestartIInv, TicksGrow
    <3> QED
      BY <3>1, <3>2
  <2> QED
    BY <1>2, <2>3, <2>5
<1>6. CASE ok /\ SimSnapshots # << >>
  <2>1. PICK i \in Restart!LatestRows :
          IF Restart!Decodes(SimSnapshots[i])
          THEN sim' = Restart!RestoreState(SimSnapshots[i].blob) /\ UNCHANGED coldBoot
          ELSE sim' = Restart!ColdWorld /\ coldBoot' = TRUE
    BY <1>6 DEF Restart!Boot
  <2> QED
    BY <1>3, <1>5, <2>1
<1>7. CASE ~(ok /\ SimSnapshots # << >>)
  <2>1. sim' = Restart!ColdWorld /\ coldBoot' = (coldBoot \/ SimSnapshots # << >>)
    BY <1>7 DEF Restart!Boot
  <2>2. CASE SimSnapshots # << >>
    BY <1>3, <2>1, <2>2
  <2>3. CASE SimSnapshots = << >>
    <3>1. coldBoot' <=> coldBoot
      BY <2>1, <2>3
    <3>2. CASE coldBoot
      BY <1>3, <2>1, <2>3, <3>2
    <3>3. CASE ~coldBoot
      <4>1. WorldSound(sim')
        BY <2>1, ColdWorldSound
      <4>2. DOMAIN SimSnapshots' = {}
        BY <1>1, <2>3
      <4>3. TicksGrow'
        BY <1>1, <4>2 DEF TicksGrow
      <4> QED
        BY <1>2, <4>1, <4>3
    <3> QED
      BY <3>2, <3>3
  <2> QED
    BY <2>2, <2>3
<1> QED
  BY <1>6, <1>7

LEMMA RestartNextKeepsInv == RestartIInv /\ [Restart!Next]_(Restart!restartVars) => RestartIInv'
<1> SUFFICES ASSUME RestartIInv, [Restart!Next]_(Restart!restartVars) PROVE RestartIInv'
  OBVIOUS
<1>1. CASE UNCHANGED Restart!restartVars
  <2>1. UNCHANGED << sim, capturing, req, SimSnapshots, outboxRows, version, coldBoot >>
    BY <1>1 DEF Restart!restartVars
  <2>2. RowsSound'
    BY <2>1 DEF RestartIInv, RowsSound
  <2>3. TicksGrow'
    BY <2>1 DEF RestartIInv, TicksGrow
  <2>4. (capturing # "none" => sim # Restart!Down /\ CaptureSound(req, capturing, sim))'
    BY <2>1 DEF RestartIInv
  <2> QED
    BY <2>1, <2>2, <2>3, <2>4 DEF RestartIInv
<1> QED
  BY <1>1, RestartStepKeepsInv, BeginCaptureKeepsInv, CapturePassKeepsInv, ReadWatermarkKeepsInv,
     SaveKeepsInv, CrashKeepsInv, BootKeepsInv DEF Restart!Next

-----------------------------------------------------------------------------
LEMMA DisjointUnion ==
    ASSUME NEW S, NEW T, IsFiniteSet(S), IsFiniteSet(T), S \cap T = {}
    PROVE  IsFiniteSet(S \cup T) /\ Cardinality(S \cup T) = Cardinality(S) + Cardinality(T)
<1>1. /\ IsFiniteSet(S \cup T)
      /\ Cardinality(S \cup T) = Cardinality(S) + Cardinality(T) - Cardinality(S \cap T)
  BY FS_Union
<1>2. Cardinality(S \cap T) = 0
  BY FS_EmptySet
<1>3. Cardinality(S) \in Nat /\ Cardinality(T) \in Nat
  BY FS_CardinalityType
<1> QED
  BY <1>1, <1>2, <1>3

(* A sound world spawns fresh ids and counts its guardians. *)
LEMMA SoundSpawnsFresh ==
    ASSUME NEW u, WorldSound(u)
    PROVE  /\ \A id \in Restart!Ids(u) \cup u.nodes : id < u.next
           /\ Cardinality(Restart!Ids(u) \cup u.nodes) =
                Cardinality(DOMAIN u.bases) + Cardinality(DOMAIN u.ships)
                  + Cardinality(DOMAIN u.npcs) + Cardinality(u.nodes)
<1>1. PICK S, N, O : S = DOMAIN u.ships /\ N = DOMAIN u.npcs /\ O = u.nodes
  OBVIOUS
<1>2. DOMAIN u.bases = {1}
  BY WorldFields DEF WorldSound
<1>3. IdsApart(S, N, O, u.next)
  BY <1>1 DEF WorldSound
<1>4. Restart!Ids(u) \cup u.nodes = {1} \cup (S \cup (N \cup O))
  BY <1>1, <1>2 DEF Restart!Ids
<1>5. /\ u.next \in Nat /\ 1 < u.next
      /\ IsFiniteSet(S) /\ IsFiniteSet(N) /\ IsFiniteSet(O)
      /\ \A i \in S \cup N \cup O : i \in Nat /\ 1 < i /\ i < u.next
      /\ N \cap O = {} /\ S \cap (N \cup O) = {}
  BY <1>3 DEF IdsApart
<1>6. {1} \cap (S \cup (N \cup O)) = {}
  BY <1>5
<1>7. /\ IsFiniteSet(N \cup O) /\ Cardinality(N \cup O) = Cardinality(N) + Cardinality(O)
      /\ Cardinality(S) \in Nat /\ Cardinality(N) \in Nat /\ Cardinality(O) \in Nat
  BY <1>5, DisjointUnion, FS_CardinalityType
<1>8. /\ IsFiniteSet(S \cup (N \cup O))
      /\ Cardinality(S \cup (N \cup O)) = Cardinality(S) + Cardinality(N \cup O)
  BY <1>5, <1>7, DisjointUnion
<1>9. Cardinality({1} \cup (S \cup (N \cup O))) =
        Cardinality({1}) + Cardinality(S) + Cardinality(N) + Cardinality(O)
  <2>1. IsFiniteSet({1}) /\ Cardinality({1}) = 1
    BY FS_Singleton
  <2>2. Cardinality({1} \cup (S \cup (N \cup O))) = Cardinality({1}) + Cardinality(S \cup (N \cup O))
    BY <1>6, <1>8, <2>1, DisjointUnion
  <2> QED
    BY <1>7, <1>8, <2>1, <2>2
<1>10. \A id \in {1} \cup (S \cup (N \cup O)) : id < u.next
  BY <1>5
<1> QED
  BY <1>1, <1>2, <1>4, <1>9, <1>10

LEMMA RestartInvFollows == RestartIInv => Restart!RestartInv
<1> SUFFICES ASSUME RestartIInv PROVE Restart!RestartInv
  OBVIOUS
<1>1. \A i \in DOMAIN SimSnapshots : SnapshotSound(SimSnapshots[i].blob)
  BY DEF RestartIInv, RowsSound
<1>2. Restart!NoShipTwice
  BY <1>1 DEF Restart!NoShipTwice, SnapshotSound, BuildApart
<1>3. Restart!RoundTrip
  BY <1>1, RestoredRoundTrip DEF Restart!RoundTrip
<1>4. Restart!SpawnsAreFresh
  <2>1. sim # Restart!Down => WorldSound(sim)
    BY DEF RestartIInv
  <2> QED
    BY <2>1, SoundSpawnsFresh, RestartSameCardinality DEF Restart!SpawnsAreFresh, Restart!Up
<1>5. Restart!SiteCountsRestored
  <2>1. sim # Restart!Down => GuardiansCounted(sim.npcs, sim.siteAlive)
    BY DEF RestartIInv, WorldSound
  <2> QED
    BY <2>1, RestartSameCardinality
    DEF Restart!SiteCountsRestored, Restart!Up, GuardiansCounted, Guardians
<1>6. Restart!LatestIsLast
  <2> SUFFICES ASSUME SimSnapshots # << >>, ~coldBoot
               PROVE  SimSnapshots[Len(SimSnapshots)].tick =
                        Restart!Max({ SimSnapshots[i].tick : i \in DOMAIN SimSnapshots })
    BY DEF Restart!LatestIsLast
  <2>1. PICK n, T : n = Len(SimSnapshots) /\ T = { SimSnapshots[i].tick : i \in DOMAIN SimSnapshots }
    OBVIOUS
  <2>2. n \in DOMAIN SimSnapshots /\ \A i \in DOMAIN SimSnapshots : i <= n
    BY <2>1 DEF RestartIInv, RowsSound
  <2>3. \A i \in DOMAIN SimSnapshots : /\ SimSnapshots[i].tick \in Nat
                                       /\ SimSnapshots[i].tick <= SimSnapshots[n].tick
    BY <2>2, RowFields DEF RestartIInv, TicksGrow
  <2>4. PICK m \in Nat : m = SimSnapshots[n].tick
    BY <2>2, <2>3
  <2>5. m \in T /\ T \subseteq Nat /\ \A t \in T : t <= m
    BY <2>1, <2>2, <2>3, <2>4
  <2>6. \A t \in T : t < m + 1
    BY <2>5
  <2>7. m + 1 \in Nat
    OBVIOUS
  <2>8. Restart!Max(T) = m
    BY <2>5, <2>6, <2>7, GreatestNumber
  <2> QED
    BY <2>1, <2>4, <2>8
<1> QED
  BY <1>2, <1>3, <1>4, <1>5, <1>6 DEF Restart!RestartInv

(* What a restart brings back, however the capture interleaved with the    *)
(* ticks, whichever saves and loads failed and wherever the process died:  *)
(* no ship twice, the same state again (CaptureState after RestoreState),  *)
(* fresh ids, guardians counted, and the snapshot saved last.              *)
THEOREM RestartCorrect == MCSpec => []RestartInv
<1>1. MCInit => RestartIInv
  BY RestartInitHasInv DEF MCInit
<1>2. RestartIInv /\ [MCNext]_allVars => RestartIInv'
  <2> SUFFICES ASSUME RestartIInv, [MCNext]_allVars PROVE RestartIInv'
    OBVIOUS
  <2>1. restartVars' = restartVars => UNCHANGED Restart!restartVars
    BY DEF restartVars, Restart!restartVars
  <2>2. [Restart!Next]_(Restart!restartVars)
    BY <2>1 DEF MCNext, AccountsNext, RestartNext, OutboxNext, OdbcNext, BehindNext, EventsNext,
                PoolNext, LayoutNext, CatalogNext, allVars
  <2> QED
    BY <2>2, RestartNextKeepsInv
<1>3. RestartIInv => RestartInv
  BY RestartInvFollows DEF RestartInv
<1> QED
  BY <1>1, <1>2, <1>3, PTL DEF MCSpec

(***************************************************************************)
(* The economy events                                                      *)
(***************************************************************************)
(* A number shifted right, bit by bit.                                     *)
Halves(x, i) == x \div 2^i \in Nat /\ x \div 2^(i + 1) = (x \div 2^i) \div 2

LEMMA ShiftedHalves == \A x \in Nat : \A i \in 0 .. 30 : Halves(x, i)
<1> SUFFICES ASSUME NEW x \in Nat
             PROVE  \A i \in 0 .. 30 : Halves(x, i)
  OBVIOUS
<1>0. Halves(x, 0)
  BY DEF Halves
<1>1. Halves(x, 1)
  BY DEF Halves
<1>2. Halves(x, 2)
  BY DEF Halves
<1>3. Halves(x, 3)
  BY DEF Halves
<1>4. Halves(x, 4)
  BY DEF Halves
<1>5. Halves(x, 5)
  BY DEF Halves
<1>6. Halves(x, 6)
  BY DEF Halves
<1>7. Halves(x, 7)
  BY DEF Halves
<1>8. Halves(x, 8)
  BY DEF Halves
<1>9. Halves(x, 9)
  BY DEF Halves
<1>10. Halves(x, 10)
  BY DEF Halves
<1>11. Halves(x, 11)
  BY DEF Halves
<1>12. Halves(x, 12)
  BY DEF Halves
<1>13. Halves(x, 13)
  BY DEF Halves
<1>14. Halves(x, 14)
  BY DEF Halves
<1>15. Halves(x, 15)
  BY DEF Halves
<1>16. Halves(x, 16)
  BY DEF Halves
<1>17. Halves(x, 17)
  BY DEF Halves
<1>18. Halves(x, 18)
  BY DEF Halves
<1>19. Halves(x, 19)
  BY DEF Halves
<1>20. Halves(x, 20)
  BY DEF Halves
<1>21. Halves(x, 21)
  BY DEF Halves
<1>22. Halves(x, 22)
  BY DEF Halves
<1>23. Halves(x, 23)
  BY DEF Halves
<1>24. Halves(x, 24)
  BY DEF Halves
<1>25. Halves(x, 25)
  BY DEF Halves
<1>26. Halves(x, 26)
  BY DEF Halves
<1>27. Halves(x, 27)
  BY DEF Halves
<1>28. Halves(x, 28)
  BY DEF Halves
<1>29. Halves(x, 29)
  BY DEF Halves
<1>30. Halves(x, 30)
  BY DEF Halves
<1> QED
  BY <1>0, <1>1, <1>2, <1>3, <1>4, <1>5, <1>6, <1>7, <1>8, <1>9, <1>10, <1>11, <1>12, <1>13, <1>14, <1>15, <1>16, <1>17, <1>18, <1>19, <1>20, <1>21, <1>22, <1>23, <1>24, <1>25, <1>26, <1>27, <1>28, <1>29, <1>30

(* A number is the sum of its halves and its last bit.                     *)
LEMMA HalfAndBit ==
    ASSUME NEW x \in Nat
    PROVE  x \div 2 \in Nat /\ x % 2 \in 0 .. 1 /\ x % 2 = x - 2 * (x \div 2)
  OBVIOUS

(* A number below 2^31 is its ones.                                        *)
LEMMA OnesAre == \A x : \A i \in 0 .. 30 : i \in Econ!Ones(x) <=> (x \div 2^i) % 2 = 1
  BY Zenon DEF Econ!Ones

LEMMA OnesTell ==
    ASSUME NEW v \in 0 .. 2^31 - 1, NEW w \in 0 .. 2^31 - 1, Econ!Ones(v) = Econ!Ones(w)
    PROVE  v = w
<1>1. PICK a : a = [i \in 0 .. 31 |-> v \div 2^i]
  OBVIOUS
<1>2. PICK b : b = [i \in 0 .. 31 |-> w \div 2^i]
  OBVIOUS
<1>3. v \in Nat /\ w \in Nat
  OBVIOUS
<1>4. a[31] = 0 /\ b[31] = 0 /\ a[0] = v /\ b[0] = w
  <2>1. a[31] = v \div 2^31 /\ b[31] = w \div 2^31 /\ a[0] = v \div 2^0 /\ b[0] = w \div 2^0
    BY <1>1, <1>2
  <2>2. v \div 2^31 = 0 /\ v \div 2^0 = v
    OBVIOUS
  <2>3. w \div 2^31 = 0 /\ w \div 2^0 = w
    OBVIOUS
  <2> QED
    BY <2>1, <2>2, <2>3
<1>5. \A i \in 0 .. 30 : a[i] \in Nat /\ b[i] \in Nat /\ a[i + 1] = a[i] \div 2 /\ b[i + 1] = b[i] \div 2
  <2> SUFFICES ASSUME NEW i \in 0 .. 30
               PROVE  a[i] \in Nat /\ b[i] \in Nat /\ a[i + 1] = a[i] \div 2 /\ b[i + 1] = b[i] \div 2
    OBVIOUS
  <2>1. i \in 0 .. 31 /\ i + 1 \in 0 .. 31
    OBVIOUS
  <2>2. a[i] = v \div 2^i /\ a[i + 1] = v \div 2^(i + 1) /\ b[i] = w \div 2^i /\ b[i + 1] = w \div 2^(i + 1)
    BY <1>1, <1>2, <2>1, Zenon
  <2>3. Halves(v, i) /\ Halves(w, i)
    BY <1>3, ShiftedHalves
  <2> QED
    BY <2>2, <2>3 DEF Halves
<1>6. \A i \in 0 .. 30 : a[i] % 2 = b[i] % 2
  <2> SUFFICES ASSUME NEW i \in 0 .. 30
               PROVE  a[i] % 2 = b[i] % 2
    OBVIOUS
  <2>0. i \in 0 .. 31
    OBVIOUS
  <2>1. i \in Econ!Ones(v) <=> a[i] % 2 = 1
    BY <1>1, <2>0, OnesAre, Zenon
  <2>2. i \in Econ!Ones(w) <=> b[i] % 2 = 1
    BY <1>2, <2>0, OnesAre, Zenon
  <2>3. a[i] % 2 \in 0 .. 1 /\ b[i] % 2 \in 0 .. 1
    BY <1>5, HalfAndBit
  <2> QED
    BY <2>1, <2>2, <2>3
<1>7. PICK S : S = { i \in 0 .. 31 : a[i] = b[i] }
  OBVIOUS
<1>8. PICK m \in S : \A k \in S : m <= k
  <2>1. S \subseteq Nat /\ 31 \in S
    BY <1>4, <1>7
  <2> QED
    BY <2>1, LeastNumber
<1>9. m = 0
  <2> SUFFICES ASSUME m # 0 PROVE FALSE
    OBVIOUS
  <2>1. PICK k \in 0 .. 30 : m = k + 1
    <3>1. m \in 0 .. 31 /\ m - 1 \in 0 .. 30 /\ m = (m - 1) + 1
      BY <1>7
    <3> QED
      BY <3>1
  <2>2. a[k + 1] = b[k + 1]
    BY <1>7, <2>1
  <2>3. PICK p \in Nat, q \in Nat : p = a[k] /\ q = b[k]
    BY <1>5
  <2>4. p \div 2 = q \div 2 /\ p % 2 = q % 2
    BY <1>5, <1>6, <2>2, <2>3
  <2>5. p % 2 = p - 2 * (p \div 2) /\ q % 2 = q - 2 * (q \div 2) /\ p \div 2 \in Nat
    BY HalfAndBit
  <2>6. p = q
    BY <2>4, <2>5
  <2>7. k \in S
    <3>1. k \in 0 .. 31
      OBVIOUS
    <3> QED
      BY <1>7, <2>3, <2>6, <3>1, Zenon
  <2>8. m <= k
    BY <1>8, <2>7
  <2> QED
    BY <2>1, <2>8
<1> QED
  BY <1>4, <1>7, <1>9

(* The ones of a tick stay below the bits of the net id.                   *)
LEMMA LowOnes ==
    ASSUME NEW t \in 0 .. 2^21 - 1
    PROVE  Econ!Ones(t) \subseteq 0 .. 20
<1>1. t \in Nat
  OBVIOUS
<1>2. PICK a : a = [i \in 0 .. 31 |-> t \div 2^i]
  OBVIOUS
<1>3. a[21] = 0
  <2>1. a[21] = t \div 2^21
    BY <1>2
  <2>2. t \div 2^21 = 0
    OBVIOUS
  <2> QED
    BY <2>1, <2>2
<1>4. \A i \in 0 .. 30 : a[i] \in Nat /\ a[i + 1] = a[i] \div 2
  <2> SUFFICES ASSUME NEW i \in 0 .. 30
               PROVE  a[i] \in Nat /\ a[i + 1] = a[i] \div 2
    OBVIOUS
  <2>1. i \in 0 .. 31 /\ i + 1 \in 0 .. 31
    OBVIOUS
  <2>2. a[i] = t \div 2^i /\ a[i + 1] = t \div 2^(i + 1)
    BY <1>2, <2>1, Zenon
  <2>3. Halves(t, i)
    BY <1>1, ShiftedHalves
  <2> QED
    BY <2>2, <2>3 DEF Halves
<1>5. \A i \in 21 .. 30 : a[i] = 0
  <2> SUFFICES ASSUME { i \in 21 .. 30 : a[i] # 0 } # {} PROVE FALSE
    OBVIOUS
  <2>1. PICK m \in { i \in 21 .. 30 : a[i] # 0 } : \A k \in { i \in 21 .. 30 : a[i] # 0 } : m <= k
    <3>1. { i \in 21 .. 30 : a[i] # 0 } \subseteq Nat
      OBVIOUS
    <3> QED
      BY <3>1, LeastNumber
  <2>2. m \in 22 .. 30 /\ a[m] # 0
    BY <1>3, <2>1
  <2>3. m - 1 \in 0 .. 30 /\ m - 1 \in 21 .. 30 /\ m = (m - 1) + 1
    BY <2>2
  <2>4. a[m - 1] = 0
    BY <2>1, <2>3
  <2>5. a[m] = 0 \div 2
    BY <1>4, <2>3, <2>4
  <2> QED
    BY <2>2, <2>5
<1>6. ASSUME NEW i \in 21 .. 30 PROVE i \notin Econ!Ones(t)
  <2>1. i \in 0 .. 30 /\ i \in 0 .. 31
    OBVIOUS
  <2>2. i \in Econ!Ones(t) <=> a[i] % 2 = 1
    BY <1>2, <2>1, OnesAre, Zenon
  <2>3. a[i] % 2 = 0
    BY <1>5
  <2> QED
    BY <2>2, <2>3
<1>7. Econ!Ones(t) \subseteq 0 .. 30
  BY Zenon DEF Econ!Ones
<1> QED
  BY <1>6, <1>7

(* So a key tells the domain, the net id and the tick.                     *)
LEMMA KeyTells ==
    ASSUME NEW d, NEW d2, NEW n \in NetIds, NEW n2 \in NetIds, NEW t \in Ticks, NEW t2 \in Ticks,
           Econ!OutboxIdemKey(d, n, t) = Econ!OutboxIdemKey(d2, n2, t2)
    PROVE  d = d2 /\ n = n2 /\ t = t2
<1>1. PICK N, N2, T, T2 : N = Econ!Ones(n) /\ N2 = Econ!Ones(n2) /\ T = Econ!Ones(t) /\ T2 = Econ!Ones(t2)
  OBVIOUS
<1>2. n \in 0 .. 2^31 - 1 /\ n2 \in 0 .. 2^31 - 1 /\ t \in 0 .. 2^21 - 1 /\ t2 \in 0 .. 2^21 - 1
  BY EventAssumption
<1>3. N \subseteq 0 .. 30 /\ N2 \subseteq 0 .. 30
  BY <1>1 DEF Econ!Ones
<1>4. T \subseteq 0 .. 20 /\ T2 \subseteq 0 .. 20
  BY <1>1, <1>2, LowOnes, Zenon
<1>5. d = d2 /\ Econ!Xor({ i + 21 : i \in N }, T) = Econ!Xor({ i + 21 : i \in N2 }, T2)
  BY <1>1 DEF Econ!OutboxIdemKey, Econ!NET_ID_SHIFT
<1>6. PICK H, H2 : H = { i + 21 : i \in N } /\ H2 = { i + 21 : i \in N2 }
  OBVIOUS
<1>7. H \subseteq 21 .. 51 /\ H2 \subseteq 21 .. 51
  BY <1>3, <1>6
<1>8. H = H2 /\ T = T2
  <2>1. (H \ T) \cup (T \ H) = (H2 \ T2) \cup (T2 \ H2)
    BY <1>5, <1>6 DEF Econ!Xor
  <2>2. H \cap T = {} /\ H2 \cap T2 = {} /\ H \cap T2 = {} /\ H2 \cap T = {}
    BY <1>4, <1>7
  <2> QED
    BY <2>1, <2>2
<1>9. N = N2
  <2>1. \A i \in N : i \in N2
    <3> SUFFICES ASSUME NEW i \in N PROVE i \in N2
      OBVIOUS
    <3>1. i + 21 \in H2
      BY <1>6, <1>8
    <3>2. PICK j \in N2 : j + 21 = i + 21
      BY <1>6, <3>1
    <3> QED
      BY <1>3, <3>2
  <2>2. \A i \in N2 : i \in N
    <3> SUFFICES ASSUME NEW i \in N2 PROVE i \in N
      OBVIOUS
    <3>1. i + 21 \in H
      BY <1>6, <1>8
    <3>2. PICK j \in N : j + 21 = i + 21
      BY <1>6, <3>1
    <3> QED
      BY <1>3, <3>2
  <2> QED
    BY <2>1, <2>2
<1>10. n = n2
  BY <1>1, <1>2, <1>9, OnesTell, Zenon
<1>11. t = t2
  <2>1. t \in 0 .. 2^31 - 1 /\ t2 \in 0 .. 2^31 - 1
    BY <1>2
  <2> QED
    BY <1>1, <1>8, <2>1, OnesTell, Zenon
<1> QED
  BY <1>5, <1>10, <1>11

(* An entity has one event of a kind per tick.                             *)
EventsIInv ==
    /\ emitted \subseteq Econ!EconEvents
    /\ \A e, f \in emitted :
          e.type = f.type /\ e.aNetId = f.aNetId /\ e.tick = f.tick => e = f

LEMMA DomainTells ==
    \A x, y \in Econ!EconEventCode : Econ!Domain(x) = Econ!Domain(y) => x = y
<1>1. /\ Econ!Domain("LootDrop") = 1 /\ Econ!Domain("LootClaim") = 2
      /\ Econ!Domain("Killmail") = 3 /\ Econ!Domain("CargoLost") = 4
  BY DEF Econ!Domain
<1> QED
  BY <1>1 DEF Econ!EconEventCode

(* Two economy events never share an idempotency key, so none is taken for *)
(* one already applied (EconomyOutbox.h, MapEconEvent and OutboxIdemKey).  *)
THEOREM IdemKeysAreUnique == MCSpec => []UniqueIdemKey
<1>1. MCInit => EventsIInv
  BY DEF MCInit, Econ!Init, EventsIInv
<1>2. EventsIInv /\ [MCNext]_allVars => EventsIInv'
  <2> SUFFICES ASSUME EventsIInv, [MCNext]_allVars PROVE EventsIInv'
    OBVIOUS
  <2>1. CASE \E e \in Econ!EconEvents : Econ!Emit(e)
    <3>1. PICK e \in Econ!EconEvents : Econ!Emit(e)
      BY <2>1
    <3>2. /\ \A f \in emitted : << f.type, f.aNetId, f.tick >> # << e.type, e.aNetId, e.tick >>
          /\ emitted' = emitted \cup {e}
      BY <3>1 DEF Econ!Emit
    <3> QED
      BY <3>2 DEF EventsIInv
  <2>2. CASE UNCHANGED emitted
    BY <2>2 DEF EventsIInv
  <2>3. UNCHANGED emitted \/ \E e \in Econ!EconEvents : Econ!Emit(e)
    BY DEF MCNext, AccountsNext, RestartNext, OutboxNext, OdbcNext, BehindNext, EventsNext, PoolNext,
           LayoutNext, CatalogNext, eventVars, allVars, Econ!Next, Econ!Step
  <2> QED
    BY <2>1, <2>2, <2>3
<1>3. EventsIInv => UniqueIdemKey
  <2> SUFFICES ASSUME EventsIInv, NEW e \in emitted, NEW f \in emitted,
                      Econ!MapEconEvent(e).idemKey = Econ!MapEconEvent(f).idemKey
               PROVE  e = f
    BY DEF UniqueIdemKey, Econ!UniqueIdemKey
  <2>1. /\ e.type \in Econ!EconEventCode /\ e.aNetId \in NetIds /\ e.tick \in Ticks
        /\ f.type \in Econ!EconEventCode /\ f.aNetId \in NetIds /\ f.tick \in Ticks
    BY DEF EventsIInv, Econ!EconEvents
  <2>2. Econ!OutboxIdemKey(Econ!Domain(e.type), e.aNetId, e.tick) =
            Econ!OutboxIdemKey(Econ!Domain(f.type), f.aNetId, f.tick)
    BY DEF Econ!MapEconEvent
  <2>3. Econ!Domain(e.type) = Econ!Domain(f.type) /\ e.aNetId = f.aNetId /\ e.tick = f.tick
    BY <2>1, <2>2, KeyTells
  <2>4. e.type = f.type
    BY <2>1, <2>3, DomainTells
  <2> QED
    BY <2>3, <2>4 DEF EventsIInv
<1> QED
  BY <1>1, <1>2, <1>3, PTL DEF MCSpec
=============================================================================
