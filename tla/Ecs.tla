-------------------------------- MODULE Ecs --------------------------------
(***************************************************************************)
(* The entity-component store of the simulation (NeuronCore/Ecs.h): entity *)
(* records with generations and a free list, and for every component type  *)
(* a sparse map onto packed arrays from which Remove takes an element by   *)
(* moving the last one into its place.                                     *)
(*                                                                         *)
(* Indices are those of the code, from 1 (record 0 is the null entity);    *)
(* positions in the packed arrays count from 1, and 0 stands for           *)
(* UINT32_MAX.  A component's data is the serial of the entity it was      *)
(* added to: serials count the entities ever created.                      *)
(***************************************************************************)
EXTENDS Naturals, Sequences, FiniteSets

CONSTANTS Components,    \* the registered component types
          MAX_INDEX,     \* entity slots
          GENERATIONS,   \* 2 ^ GEN_BITS
          MAX_CREATES    \* bound: entities ever created

ASSUME EcsAssumption ==
    /\ MAX_INDEX \in Nat \ {0} /\ GENERATIONS \in Nat \ {0} /\ MAX_CREATES \in Nat

VARIABLES m_records,      \* [alive, generation, mask, serial], by index
          m_freeList,
          sparse,         \* component -> entity index -> position, 0 when absent
          dense,          \* component -> packed data
          denseToEntity,  \* component -> packed entity indices
          handles,        \* history: every handle handed out
          created         \* history: entities ever created

ecsVars == << m_records, m_freeList, sparse, dense, denseToEntity, handles, created >>

Indices == 1 .. MAX_INDEX
Absent == 0
NewRecord == [alive |-> FALSE, generation |-> 0, mask |-> {}, serial |-> 0]

EcsInit ==
    /\ m_records = << >> /\ m_freeList = << >>
    /\ sparse = [c \in Components |-> [i \in Indices |-> Absent]]
    /\ dense = [c \in Components |-> << >>]
    /\ denseToEntity = [c \in Components |-> << >>]
    /\ handles = {} /\ created = 0

\* IsAlive
IsAlive(e) ==
    /\ e.index \in DOMAIN m_records
    /\ m_records[e.index].alive /\ m_records[e.index].generation = e.generation

-----------------------------------------------------------------------------
\* The slot CreateEntity takes: the last one freed, or a new record.
Taken(free) == free[Len(free)]
LeftFree(free) == SubSeq(free, 1, Len(free) - 1)

CreateEntity ==
    LET reuse == m_freeList # << >>
        idx == IF reuse THEN Taken(m_freeList) ELSE Len(m_records) + 1
        rec == IF reuse THEN m_records[idx] ELSE NewRecord
        new == [rec EXCEPT !.alive = TRUE, !.mask = {}, !.serial = created + 1]
    IN  /\ created < MAX_CREATES /\ idx <= MAX_INDEX
        /\ m_records' = IF reuse THEN [m_records EXCEPT ![idx] = new] ELSE Append(m_records, new)
        /\ m_freeList' = IF reuse THEN LeftFree(m_freeList) ELSE m_freeList
        /\ handles' = handles \cup {[index |-> idx, generation |-> rec.generation, serial |-> created + 1]}
        /\ created' = created + 1
        /\ UNCHANGED << sparse, dense, denseToEntity >>

\* ComponentStorage::Insert
AddComponent(e, c) ==
    /\ IsAlive(e) /\ c \notin m_records[e.index].mask
    /\ sparse' = [sparse EXCEPT ![c][e.index] = Len(dense[c]) + 1]
    /\ dense' = [dense EXCEPT ![c] = Append(@, m_records[e.index].serial)]
    /\ denseToEntity' = [denseToEntity EXCEPT ![c] = Append(@, e.index)]
    /\ m_records' = [m_records EXCEPT ![e.index].mask = @ \cup {c}]
    /\ UNCHANGED << m_freeList, handles, created >>

\* ComponentStorage::Remove: the last element fills the hole, and its entity's
\* sparse entry follows it.
Filled(s, at) == SubSeq([s EXCEPT ![at] = s[Len(s)]], 1, Len(s) - 1)
DenseAfter(c, idx) == Filled(dense[c], sparse[c][idx])

\* Mutant: the moved entity's entry does not follow.
SparseForgetsMoved(c, idx) == [sparse[c] EXCEPT ![idx] = Absent]

SparseAfter(c, idx) ==
    LET moved == denseToEntity[c][Len(denseToEntity[c])]
    IN  [sparse[c] EXCEPT ![moved] = sparse[c][idx], ![idx] = Absent]

RemoveFrom(cs, idx) ==
    /\ sparse' = [c \in Components |-> IF c \in cs THEN SparseAfter(c, idx) ELSE sparse[c]]
    /\ dense' = [c \in Components |-> IF c \in cs THEN DenseAfter(c, idx) ELSE dense[c]]
    /\ denseToEntity' =
          [c \in Components |-> IF c \in cs THEN Filled(denseToEntity[c], sparse[c][idx]) ELSE denseToEntity[c]]

RemoveComponent(e, c) ==
    /\ IsAlive(e) /\ c \in m_records[e.index].mask
    /\ RemoveFrom({c}, e.index)
    /\ m_records' = [m_records EXCEPT ![e.index].mask = @ \ {c}]
    /\ UNCHANGED << m_freeList, handles, created >>

Buried(rec) ==
    [rec EXCEPT !.alive = FALSE, !.mask = {}, !.generation = (@ + 1) % GENERATIONS]

\* DestroyEntity: a stale handle destroys nothing.
DestroyEntity(e) ==
    /\ IsAlive(e)
    /\ RemoveFrom(m_records[e.index].mask, e.index)
    /\ m_records' = [m_records EXCEPT ![e.index] = Buried(@)]
    /\ m_freeList' = Append(m_freeList, e.index)
    /\ UNCHANGED << handles, created >>

EcsNext ==
    \/ CreateEntity
    \/ \E e \in handles : DestroyEntity(e)
    \/ \E e \in handles, c \in Components : AddComponent(e, c) \/ RemoveComponent(e, c)

EcsSpec == EcsInit /\ [][EcsNext]_ecsVars

\* ForEach: the indices visited, in ascending order, with the data handed out.
Visited(cs) == { i \in DOMAIN m_records : m_records[i].alive /\ cs \subseteq m_records[i].mask }

-----------------------------------------------------------------------------
EcsTypeOK ==
    /\ m_records \in Seq([alive : BOOLEAN, generation : 0 .. GENERATIONS - 1,
                          mask : SUBSET Components, serial : 0 .. MAX_CREATES])
    /\ Len(m_records) <= MAX_INDEX
    /\ m_freeList \in Seq(Indices)
    /\ sparse \in [Components -> [Indices -> Nat]]
    /\ dense \in [Components -> Seq(Nat)]
    /\ denseToEntity \in [Components -> Seq(Indices)]
    /\ handles \subseteq [index : Indices, generation : 0 .. GENERATIONS - 1, serial : 1 .. MAX_CREATES]
    /\ created \in 0 .. MAX_CREATES

(* The free list holds every dead record once, so no two live entities     *)
(* share a slot and no slot is lost.                                       *)
FreeListExact ==
    /\ \A i, j \in DOMAIN m_freeList : m_freeList[i] = m_freeList[j] => i = j
    /\ \A i \in DOMAIN m_records :
          ~m_records[i].alive <=> \E j \in DOMAIN m_freeList : m_freeList[j] = i
    /\ \A j \in DOMAIN m_freeList : m_freeList[j] \in DOMAIN m_records

(* Sparse and packed arrays are inverse to each other and agree with the   *)
(* masks, through every order of insertions, swap-removals and             *)
(* destructions.                                                           *)
StorageConsistent ==
    \A c \in Components :
        /\ Len(dense[c]) = Len(denseToEntity[c])
        /\ \A p \in DOMAIN denseToEntity[c] : sparse[c][denseToEntity[c][p]] = p
        /\ \A i \in Indices :
              /\ sparse[c][i] # Absent =>
                    sparse[c][i] \in DOMAIN denseToEntity[c] /\ denseToEntity[c][sparse[c][i]] = i
              /\ sparse[c][i] # Absent <=>
                    i \in DOMAIN m_records /\ m_records[i].alive /\ c \in m_records[i].mask

(* What ForEach hands out for an entity is that entity's own data: a       *)
(* swap-removal never leaves another entity's component in its place, and  *)
(* a slot taken again starts without the components of its former owner.   *)
DataIsOwn ==
    \A c \in Components : \A i \in Visited({c}) : dense[c][sparse[c][i]] = m_records[i].serial

(* A handle outlives its entity without reaching another one, until the    *)
(* generations of its slot have come round.                                *)
StaleHandlesDead ==
    \A e \in handles : IsAlive(e) =>
        \/ m_records[e.index].serial = e.serial
        \/ Cardinality({ f \in handles : f.index = e.index /\ f.serial > e.serial }) >= GENERATIONS

(* The entity store is consistent: free list, packed arrays and masks      *)
(* agree after any order of creations, additions, swap-removals and        *)
(* destructions, data stays with its entity, and old handles are dead      *)
(* (Ecs.h Create, Destroy, Add, Remove).                                   *)
EcsInv == EcsTypeOK /\ FreeListExact /\ StorageConsistent /\ DataIsOwn /\ StaleHandlesDead
=============================================================================
