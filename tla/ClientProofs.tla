---------------------------- MODULE ClientProofs ----------------------------
(***************************************************************************)
(* Parts of the client proved for every value of their constants: the      *)
(* pools of slots, which are the entity store (EcsInv), the ring of frames *)
(* in flight (RingInv) and the voices (AudioInv), the input side of a      *)
(* frame: windows, settings, selection and commands (UiInv), and what a    *)
(* frame draws: batches, particles and runs of shapes (DrawListsExact).    *)
(***************************************************************************)
EXTENDS Ecs, Renderer, Audio, ClientUi, FiniteSetTheorems, SequenceTheorems, WellFoundedInduction, TLAPS

(***************************************************************************)
(* The entity store.                                                       *)
(***************************************************************************)

\* The handles of the same slot handed out after h.
Later(h) == { f \in handles : f.index = h.index /\ f.serial > h.serial }

(* What StaleHandlesDead needs to be inductive: the last handle of a slot  *)
(* is of the record's serial, and the generation of a slot has advanced,   *)
(* modulo GENERATIONS, by one for every handle of the slot since.          *)
GenerationsCount ==
    \A h \in handles : \E k \in Nat :
        h.generation + Cardinality(Later(h)) + (IF m_records[h.index].alive THEN 0 ELSE 1)
            = m_records[h.index].generation + k * GENERATIONS

HandlesRecorded ==
    /\ IsFiniteSet(handles)
    /\ \A h \in handles : h.index \in DOMAIN m_records /\ h.serial <= m_records[h.index].serial
    /\ \A i \in DOMAIN m_records :
          /\ m_records[i].serial <= created
          /\ \E h \in handles : h.index = i /\ h.serial = m_records[i].serial

EcsIInv ==
    /\ EcsTypeOK /\ FreeListExact /\ StorageConsistent /\ DataIsOwn
    /\ HandlesRecorded /\ GenerationsCount

Record == [ alive : BOOLEAN, generation : 0 .. GENERATIONS - 1, mask : SUBSET Components,
            serial : 0 .. MAX_CREATES ]

-----------------------------------------------------------------------------
(* Counting modulo GENERATIONS. *)
LEMMA GenerationMoves ==
    ASSUME NEW g \in 0 .. GENERATIONS - 1
    PROVE  (g + 1) % GENERATIONS = IF g + 1 = GENERATIONS THEN 0 ELSE g + 1
BY EcsAssumption

LEMMA CountsOnce ==
    ASSUME NEW a \in Nat, NEW g \in 0 .. GENERATIONS - 1, NEW k \in Nat, a = g + k * GENERATIONS
    PROVE  \E j \in Nat : a + 1 = ((g + 1) % GENERATIONS) + j * GENERATIONS
<1>1. CASE g + 1 = GENERATIONS
  <2>1. (k + 1) * GENERATIONS = k * GENERATIONS + GENERATIONS
    BY EcsAssumption
  <2>2. (g + 1) % GENERATIONS = 0 /\ k + 1 \in Nat
    BY <1>1, GenerationMoves
  <2>3. a + 1 = 0 + (k + 1) * GENERATIONS
    BY <1>1, <2>1, EcsAssumption
  <2> QED
    BY <2>2, <2>3
<1>2. CASE g + 1 # GENERATIONS
  <2>1. k * GENERATIONS \in Nat
    BY EcsAssumption
  <2> QED
    BY <1>2, <2>1, GenerationMoves, EcsAssumption
<1> QED
  BY <1>1, <1>2

LEMMA RoundIsFull ==
    ASSUME NEW a \in Nat, NEW k \in Nat, a = k * GENERATIONS
    PROVE  a = 0 \/ a >= GENERATIONS
<1>1. CASE k = 0
  BY <1>1, EcsAssumption
<1>2. CASE k # 0
  <2>1. PICK j \in Nat : k = j + 1
    BY <1>2
  <2>2. k * GENERATIONS = j * GENERATIONS + GENERATIONS /\ j * GENERATIONS \in Nat
    BY <2>1, EcsAssumption
  <2> QED
    BY <2>2, EcsAssumption
<1> QED
  BY <1>1, <1>2

(* Removal from a packed array: the last element fills the hole. *)
LEMMA FilledProperties ==
    ASSUME NEW n \in Nat, NEW p \in 1 .. (n + 1)
    PROVE  /\ \A s \in Seq(Indices) : Len(s) = n + 1 =>
                 /\ Filled(s, p) \in Seq(Indices) /\ Len(Filled(s, p)) = n
                 /\ \A q \in 1 .. n : q # p => Filled(s, p)[q] = s[q]
           /\ \A s \in Seq(Nat) : Len(s) = n + 1 =>
                 /\ Filled(s, p) \in Seq(Nat) /\ Len(Filled(s, p)) = n
                 /\ \A q \in 1 .. n : q # p => Filled(s, p)[q] = s[q]
<1>1. ASSUME NEW s \in Seq(Indices), Len(s) = n + 1
      PROVE  /\ Filled(s, p) \in Seq(Indices) /\ Len(Filled(s, p)) = n
             /\ \A q \in 1 .. n : q # p => Filled(s, p)[q] = s[q]
  <2>1. Filled(s, p) \in Seq(Indices) /\ Len(Filled(s, p)) = n
    BY <1>1 DEF Filled
  <2>2. \A q \in 1 .. n : q # p => Filled(s, p)[q] = s[q]
    BY <1>1 DEF Filled
  <2> QED
    BY <2>1, <2>2
<1>2. ASSUME NEW s \in Seq(Nat), Len(s) = n + 1
      PROVE  /\ Filled(s, p) \in Seq(Nat) /\ Len(Filled(s, p)) = n
             /\ \A q \in 1 .. n : q # p => Filled(s, p)[q] = s[q]
  <2>1. Filled(s, p) \in Seq(Nat) /\ Len(Filled(s, p)) = n
    BY <1>2 DEF Filled
  <2>2. \A q \in 1 .. n : q # p => Filled(s, p)[q] = s[q]
    BY <1>2 DEF Filled
  <2> QED
    BY <2>1, <2>2
<1> QED
  BY <1>1, <1>2

(* A sparse map and a packed array of entity indices, inverse to each      *)
(* other, and the sparse map after a removal.                              *)
Packs(sp, e) ==
    /\ \A p \in 1 .. Len(e) : sp[e[p]] = p
    /\ \A i \in Indices : sp[i] # Absent => sp[i] \in 1 .. Len(e) /\ e[sp[i]] = i

Unlinked(sp, e, idx) == [sp EXCEPT ![e[Len(e)]] = sp[idx], ![idx] = Absent]

(* One component's storage (data d, entities e, sparse map sp) without one *)
(* entity: still inverse to each other, the entity is gone, and every      *)
(* other keeps its data.                                                   *)
Without(d, e, sp, idx, g, f, sq) ==
    /\ sq \in [Indices -> Nat] /\ f \in Seq(Indices) /\ g \in Seq(Nat)
    /\ Len(f) = Len(g) /\ Packs(sq, f)
    /\ \A i \in Indices :
          /\ sq[i] # Absent <=> sp[i] # Absent /\ i # idx
          /\ sq[i] # Absent => g[sq[i]] = d[sp[i]]

LEMMA StorageAfterRemove ==
    ASSUME NEW d \in Seq(Nat), NEW e \in Seq(Indices), NEW sp \in [Indices -> Nat],
           Len(d) = Len(e), Packs(sp, e),
           NEW idx \in Indices, sp[idx] # Absent
    PROVE  Without(d, e, sp, idx, Filled(d, sp[idx]), Filled(e, sp[idx]), Unlinked(sp, e, idx))
<1>0. PICK n \in Nat : n + 1 = Len(e)
  <2>1. sp[idx] \in 1 .. Len(e) /\ Len(e) \in Nat
    BY LenProperties DEF Packs
  <2>2. Len(e) - 1 \in Nat /\ (Len(e) - 1) + 1 = Len(e)
    BY <2>1
  <2> QED
    BY <2>2
<1>1. PICK at \in 1 .. (n + 1) : n + 1 = Len(e) /\ at = sp[idx] /\ e[at] = idx
  BY <1>0 DEF Packs
<1>2. PICK moved \in Indices : moved = e[n + 1]
  BY <1>1
<1>3. PICK sq \in [Indices -> Nat] :
         /\ sq = Unlinked(sp, e, idx)
         /\ \A i \in Indices : sq[i] = IF i = idx THEN 0 ELSE IF i = moved THEN at ELSE sp[i]
  <2>1. PICK sq : sq = [sp EXCEPT ![moved] = at, ![idx] = 0]
    OBVIOUS
  <2>2. sq = Unlinked(sp, e, idx)
    BY <1>1, <1>2, <2>1 DEF Unlinked, Absent
  <2>3. /\ sq \in [Indices -> Nat]
        /\ \A i \in Indices : sq[i] = IF i = idx THEN 0 ELSE IF i = moved THEN at ELSE sp[i]
    BY <2>1
  <2> QED
    BY <2>2, <2>3
<1>4. /\ Filled(e, at) \in Seq(Indices)
      /\ Len(Filled(e, at)) = n
      /\ \A q \in 1 .. n : q # at => Filled(e, at)[q] = e[q]
      /\ at \in 1 .. n => Filled(e, at)[at] = e[n + 1]
  <2>1. Len(e) = n + 1
    BY <1>1
  <2>2. Filled(e, at) \in Seq(Indices) /\ Len(Filled(e, at)) = n
    BY <2>1, FilledProperties
  <2>3. \A q \in 1 .. n : q # at => Filled(e, at)[q] = e[q]
    BY <2>1, FilledProperties
  <2>4. at \in 1 .. n => Filled(e, at)[at] = e[n + 1]
    BY <2>1 DEF Filled
  <2> QED
    BY <2>2, <2>3, <2>4
<1>5. PICK f : /\ f = Filled(e, at) /\ f \in Seq(Indices) /\ Len(f) = n
               /\ \A q \in 1 .. n : q # at => f[q] = e[q]
               /\ at \in 1 .. n => f[at] = moved
  BY <1>2, <1>4
<1>6. /\ Filled(d, at) \in Seq(Nat)
      /\ Len(Filled(d, at)) = n
      /\ \A q \in 1 .. n : q # at => Filled(d, at)[q] = d[q]
      /\ at \in 1 .. n => Filled(d, at)[at] = d[n + 1]
  <2>1. Len(d) = n + 1
    BY <1>1
  <2>2. Filled(d, at) \in Seq(Nat) /\ Len(Filled(d, at)) = n
    BY <2>1, FilledProperties
  <2>3. \A q \in 1 .. n : q # at => Filled(d, at)[q] = d[q]
    BY <2>1, FilledProperties
  <2>4. at \in 1 .. n => Filled(d, at)[at] = d[n + 1]
    BY <2>1 DEF Filled
  <2> QED
    BY <2>2, <2>3, <2>4
<1>7. PICK g : /\ g = Filled(d, at) /\ g \in Seq(Nat) /\ Len(g) = n
               /\ \A q \in 1 .. n : q # at => g[q] = d[q]
               /\ at \in 1 .. n => g[at] = d[n + 1]
  BY <1>6
<1>8. \A p \in 1 .. (n + 1) : sp[e[p]] = p /\ e[p] \in Indices
  BY <1>1, SMTT(60) DEF Packs
<1>9. \A i \in Indices : sp[i] # 0 => sp[i] \in 1 .. (n + 1) /\ e[sp[i]] = i
  BY <1>1 DEF Absent, Packs
<1>10. sp[moved] = n + 1
  BY <1>2, <1>8
<1>11. ASSUME NEW p \in 1 .. n PROVE sq[f[p]] = p
  <2>1. p \in 1 .. (n + 1) /\ p # n + 1
    BY <1>11
  <2>2. CASE p = at
    <3>1. f[p] = moved /\ moved # idx
      BY <1>1, <1>2, <1>5, <1>10, <2>1, <2>2
    <3> QED
      BY <1>3, <2>2, <3>1
  <2>3. CASE p # at
    <3>1. f[p] = e[p] /\ sp[e[p]] = p /\ e[p] \in Indices
      BY <1>5, <1>8, <2>1, <2>3
    <3>2. e[p] # idx /\ e[p] # moved
      BY <1>1, <1>10, <2>1, <2>3, <3>1
    <3> QED
      BY <1>3, <3>1, <3>2
  <2> QED
    BY <2>2, <2>3
<1>12. ASSUME NEW i \in Indices
       PROVE  /\ sq[i] # 0 => sq[i] \in 1 .. n /\ f[sq[i]] = i /\ g[sq[i]] = d[sp[i]]
              /\ sq[i] # 0 <=> sp[i] # 0 /\ i # idx
  <2>1. CASE i = idx
    BY <1>3, <2>1
  <2>2. CASE i # idx /\ i = moved
    <3>1. sq[i] = at /\ sp[i] = n + 1 /\ at # n + 1
      BY <1>1, <1>3, <1>10, <1>2, <2>2
    <3>2. at \in 1 .. n
      BY <3>1
    <3> QED
      BY <1>2, <1>5, <1>7, <2>2, <3>1, <3>2, SMTT(60)
  <2>3. CASE i # idx /\ i # moved
    <3>1. sq[i] = sp[i]
      BY <1>3, <2>3
    <3>2. ASSUME sp[i] # 0 PROVE sp[i] \in 1 .. n /\ sp[i] # at /\ e[sp[i]] = i
      <4>1. sp[i] \in 1 .. (n + 1) /\ e[sp[i]] = i
        BY <1>9, <3>2
      <4>2. sp[i] # n + 1 /\ sp[i] # at
        BY <1>1, <1>2, <2>3, <4>1
      <4> QED
        BY <4>1, <4>2, SMTT(60)
    <3> QED
      BY <1>5, <1>7, <2>3, <3>1, <3>2
  <2> QED
    BY <2>1, <2>2, <2>3
<1>13. Packs(sq, f)
  BY <1>5, <1>11, <1>12 DEF Packs, Absent
<1>14. /\ sq = Unlinked(sp, e, idx)
       /\ f = Filled(e, sp[idx]) /\ g = Filled(d, sp[idx])
       /\ Len(f) = Len(g) /\ f \in Seq(Indices) /\ g \in Seq(Nat)
  BY <1>1, <1>3, <1>5, <1>7
<1>15. \A i \in Indices :
          /\ sq[i] # Absent <=> sp[i] # Absent /\ i # idx
          /\ sq[i] # Absent => g[sq[i]] = d[sp[i]]
  BY <1>12 DEF Absent
<1>16. Without(d, e, sp, idx, g, f, sq)
  BY <1>13, <1>14, <1>15 DEF Without
<1> QED
  BY <1>14, <1>16

-----------------------------------------------------------------------------
(* What the types say of records, handles and storages. *)
LEMMA Typed ==
    ASSUME EcsTypeOK
    PROVE  \E n \in Nat :
              /\ n = Len(m_records) /\ n <= MAX_INDEX
              /\ DOMAIN m_records = 1 .. n
              /\ m_records \in Seq(Record)
              /\ \A i \in 1 .. n : i \in Indices /\ m_records[i] \in Record
              /\ DOMAIN m_freeList = 1 .. Len(m_freeList)
<1>1. /\ m_records \in Seq(Record) /\ Len(m_records) <= MAX_INDEX
      /\ m_freeList \in Seq(Indices)
  BY DEF EcsTypeOK, Record
<1>2. PICK n \in Nat : n = Len(m_records)
  BY <1>1
<1>3. DOMAIN m_records = 1 .. n /\ \A i \in 1 .. n : m_records[i] \in Record
  BY <1>1, <1>2
<1>4. \A i \in 1 .. n : i \in Indices
  BY <1>1, <1>2, EcsAssumption DEF Indices
<1>5. DOMAIN m_freeList = 1 .. Len(m_freeList)
  BY <1>1
<1> QED
  BY <1>1, <1>2, <1>3, <1>4, <1>5

(* The storages once an entity has left some of them. *)
StoragesWithout(cs, idx) ==
    /\ sparse' \in [Components -> [Indices -> Nat]]
    /\ dense' \in [Components -> Seq(Nat)]
    /\ denseToEntity' \in [Components -> Seq(Indices)]
    /\ \A c \in Components :
          /\ Len(dense'[c]) = Len(denseToEntity'[c])
          /\ Packs(sparse'[c], denseToEntity'[c])
          /\ \A i \in Indices :
                /\ sparse'[c][i] # Absent <=> sparse[c][i] # Absent /\ ~(c \in cs /\ i = idx)
                /\ sparse'[c][i] # Absent => dense'[c][sparse'[c][i]] = dense[c][sparse[c][i]]

(* Removing one entity from some storages: they stay inverse to each       *)
(* other, that entity is absent from them, and all else keeps its data.    *)
LEMMA RemoveFromKeepsStorage ==
    ASSUME EcsTypeOK, StorageConsistent, NEW cs \in SUBSET Components, NEW idx \in Indices,
           \A c \in cs : sparse[c][idx] # Absent, RemoveFrom(cs, idx)
    PROVE  StoragesWithout(cs, idx)
<1>1. /\ sparse \in [Components -> [Indices -> Nat]]
      /\ dense \in [Components -> Seq(Nat)]
      /\ denseToEntity \in [Components -> Seq(Indices)]
  BY DEF EcsTypeOK
<1>2. ASSUME NEW c \in Components
      PROVE  /\ sparse'[c] \in [Indices -> Nat] /\ dense'[c] \in Seq(Nat)
             /\ denseToEntity'[c] \in Seq(Indices)
             /\ Len(dense'[c]) = Len(denseToEntity'[c])
             /\ Packs(sparse'[c], denseToEntity'[c])
             /\ \A i \in Indices :
                   /\ sparse'[c][i] # Absent <=> sparse[c][i] # Absent /\ ~(c \in cs /\ i = idx)
                   /\ sparse'[c][i] # Absent => dense'[c][sparse'[c][i]] = dense[c][sparse[c][i]]
  <2>1. PICK sp \in [Indices -> Nat], d \in Seq(Nat), e \in Seq(Indices) :
           sp = sparse[c] /\ d = dense[c] /\ e = denseToEntity[c]
    BY <1>1
  <2>2. Len(d) = Len(e) /\ Packs(sp, e)
    <3>1. DOMAIN e = 1 .. Len(e)
      OBVIOUS
    <3> QED
      BY <2>1, <3>1 DEF StorageConsistent, Packs
  <2>3. CASE c \in cs
    <3>1. /\ sparse'[c] = Unlinked(sp, e, idx)
          /\ dense'[c] = Filled(d, sp[idx])
          /\ denseToEntity'[c] = Filled(e, sp[idx])
      BY <2>1, <2>3 DEF RemoveFrom, SparseAfter, DenseAfter, Unlinked
    <3>2. sp[idx] # Absent
      BY <2>1, <2>3
    <3>3. Without(d, e, sp, idx, Filled(d, sp[idx]), Filled(e, sp[idx]), Unlinked(sp, e, idx))
      BY <2>2, <3>2, StorageAfterRemove
    <3>4. Without(d, e, sp, idx, dense'[c], denseToEntity'[c], sparse'[c])
      BY <3>1, <3>3
    <3> QED
      BY <2>1, <2>3, <3>4 DEF Without
  <2>4. CASE c \notin cs
    <3>1. sparse'[c] = sp /\ dense'[c] = d /\ denseToEntity'[c] = e
      BY <2>1, <2>4 DEF RemoveFrom
    <3>2. Packs(sparse'[c], denseToEntity'[c])
      BY <2>2, <3>1 DEF Packs
    <3> QED
      BY <2>1, <2>2, <2>4, <3>1, <3>2
  <2> QED
    BY <2>3, <2>4
<1>3. /\ sparse' = [c \in Components |-> sparse'[c]]
      /\ dense' = [c \in Components |-> dense'[c]]
      /\ denseToEntity' = [c \in Components |-> denseToEntity'[c]]
  BY DEF RemoveFrom
<1> QED
  BY <1>2, <1>3 DEF StoragesWithout

(* Later handles of a slot are finitely many. *)
LEMMA LaterFinite ==
    ASSUME IsFiniteSet(handles), NEW h
    PROVE  IsFiniteSet(Later(h)) /\ Cardinality(Later(h)) \in Nat
<1>1. Later(h) \subseteq handles
  BY DEF Later
<1> QED
  BY <1>1, FS_Subset, FS_CardinalityType

-----------------------------------------------------------------------------
(* CreateEntity fills a dead slot or the next one, and its handle is the   *)
(* only one of its serial.                                                 *)
LEMMA SlotIsTaken ==
    ASSUME EcsTypeOK, FreeListExact, CreateEntity
    PROVE  \E n \in Nat, m \in Nat, idx \in Indices, gen \in 0 .. GENERATIONS - 1 :
              /\ DOMAIN m_records = 1 .. n /\ DOMAIN m_records' = 1 .. m /\ m <= MAX_INDEX
              /\ m_records' \in Seq(Record) /\ Len(m_records') = m
              /\ idx \in 1 .. m /\ m >= n /\ 1 .. m = (1 .. n) \cup {idx}
              /\ idx \in 1 .. n => ~m_records[idx].alive /\ m_records[idx].generation = gen
              /\ m_records'[idx].alive /\ m_records'[idx].generation = gen
              /\ m_records'[idx].mask = {} /\ m_records'[idx].serial = created + 1
              /\ \A i \in 1 .. n : i # idx => m_records'[i] = m_records[i]
              /\ handles' = handles \cup {[index |-> idx, generation |-> gen, serial |-> created + 1]}
              /\ m_freeList' \in Seq(Indices) /\ FreeListExact'
<1>1. PICK n \in Nat :
         /\ n = Len(m_records) /\ n <= MAX_INDEX
         /\ DOMAIN m_records = 1 .. n
         /\ m_records \in Seq(Record)
         /\ \A i \in 1 .. n : i \in Indices /\ m_records[i] \in Record
         /\ DOMAIN m_freeList = 1 .. Len(m_freeList)
  BY Typed
<1>2. /\ m_freeList \in Seq(Indices) /\ created \in 0 .. MAX_CREATES /\ created < MAX_CREATES
      /\ created + 1 \in 0 .. MAX_CREATES
  BY EcsAssumption DEF EcsTypeOK, CreateEntity
<1>3. CASE m_freeList = << >>
  <2>1. PICK new : new = [NewRecord EXCEPT !.alive = TRUE, !.mask = {}, !.serial = created + 1]
    OBVIOUS
  <2>2. new \in Record
    <3>1. PICK rec \in Record : rec = NewRecord
      <4>1. 0 \in 0 .. GENERATIONS - 1 /\ 0 \in 0 .. MAX_CREATES
        BY EcsAssumption
      <4>2. NewRecord \in Record
        BY <4>1 DEF Record, NewRecord
      <4> QED
        BY <4>2
    <3> QED
      BY <1>2, <2>1, <3>1 DEF Record
  <2>3. new.alive /\ new.generation = 0 /\ new.mask = {} /\ new.serial = created + 1
    BY <2>1 DEF NewRecord
  <2>4. /\ n + 1 <= MAX_INDEX /\ m_records' = Append(m_records, new) /\ m_freeList' = m_freeList
        /\ handles' = handles \cup {[index |-> n + 1, generation |-> 0, serial |-> created + 1]}
    BY <1>1, <1>3, <2>1 DEF CreateEntity, NewRecord
  <2>5. /\ m_records' \in Seq(Record) /\ Len(m_records') = n + 1
        /\ DOMAIN m_records' = 1 .. (n + 1) /\ m_records'[n + 1] = new
        /\ \A i \in 1 .. n : m_records'[i] = m_records[i]
    BY <1>1, <2>2, <2>4
  <2>6. /\ n + 1 \in Indices /\ n + 1 \notin 1 .. n /\ 1 .. (n + 1) = (1 .. n) \cup {n + 1}
        /\ 0 \in 0 .. GENERATIONS - 1
    BY <2>4, EcsAssumption DEF Indices
  <2>7. FreeListExact'
    <3>1. m_freeList' = << >> /\ DOMAIN m_freeList' = {} /\ DOMAIN m_freeList = {}
      BY <1>3, <2>4
    <3>2. \A i \in 1 .. n : m_records[i].alive
      BY <1>1, <3>1, Zenon DEF FreeListExact
    <3>3. \A i \in 1 .. (n + 1) : m_records'[i].alive
      BY <2>3, <2>5, <2>6, <3>2
    <3> QED
      BY <2>5, <3>1, <3>3, Zenon DEF FreeListExact
  <2> USE <2>6
  <2> WITNESS n \in Nat, n + 1 \in Nat, n + 1 \in Indices, 0 \in 0 .. GENERATIONS - 1
  <2> QED
    BY <1>1, <1>2, <2>3, <2>4, <2>5, <2>6, <2>7
<1>4. CASE m_freeList # << >>
  <2>1. PICK k \in Nat : Len(m_freeList) = k + 1
    <3>1. Len(m_freeList) \in Nat /\ Len(m_freeList) # 0
      BY <1>2, <1>4
    <3> QED
      BY <3>1
  <2>2. PICK idx \in Indices : idx = m_freeList[k + 1]
    BY <1>1, <1>2, <2>1
  <2>3. k + 1 \in DOMAIN m_freeList
    BY <1>1, <2>1
  <2>4. idx \in 1 .. n /\ ~m_records[idx].alive
    BY <1>1, <2>2, <2>3 DEF FreeListExact
  <2>5. PICK rec \in Record : rec = m_records[idx]
    BY <1>1, <2>4
  <2>6. PICK new : new = [rec EXCEPT !.alive = TRUE, !.mask = {}, !.serial = created + 1]
    OBVIOUS
  <2>7. new \in Record /\ rec.generation \in 0 .. GENERATIONS - 1
    BY <1>2, <2>6 DEF Record
  <2>8. new.alive /\ new.generation = rec.generation /\ new.mask = {} /\ new.serial = created + 1
    BY <2>6 DEF Record
  <2>9. /\ m_records' = [m_records EXCEPT ![idx] = new]
        /\ m_freeList' = LeftFree(m_freeList)
        /\ handles' = handles \cup {[index |-> idx, generation |-> rec.generation, serial |-> created + 1]}
    BY <1>4, <2>1, <2>2, <2>5, <2>6 DEF CreateEntity, Taken
  <2>10. /\ m_records' \in Seq(Record) /\ Len(m_records') = n
         /\ DOMAIN m_records' = 1 .. n /\ m_records'[idx] = new
         /\ \A i \in 1 .. n : i # idx => m_records'[i] = m_records[i]
    BY <1>1, <2>4, <2>7, <2>9
  <2>11. /\ m_freeList' \in Seq(Indices) /\ DOMAIN m_freeList' = 1 .. k
         /\ \A j \in 1 .. k : m_freeList'[j] = m_freeList[j] /\ j \in DOMAIN m_freeList /\ j # k + 1
    BY <1>1, <1>2, <2>1, <2>9 DEF LeftFree
  <2>12. \A j \in 1 .. k : m_freeList'[j] # idx
    BY <2>2, <2>3, <2>11 DEF FreeListExact
  <2>13. FreeListExact'
    <3>1. \A i, j \in DOMAIN m_freeList' : m_freeList'[i] = m_freeList'[j] => i = j
      BY <2>11 DEF FreeListExact
    <3>2. \A j \in DOMAIN m_freeList' : m_freeList'[j] \in DOMAIN m_records'
      BY <1>1, <2>10, <2>11 DEF FreeListExact
    <3>3. ASSUME NEW i \in 1 .. n
          PROVE  ~m_records'[i].alive <=> \E j \in 1 .. k : m_freeList'[j] = i
      <4>1. CASE i = idx
        BY <2>8, <2>10, <2>12, <4>1
      <4>2. CASE i # idx
        <5>1. m_records'[i] = m_records[i]
          BY <2>10, <4>2
        <5>2. ~m_records[i].alive <=> \E j \in DOMAIN m_freeList : m_freeList[j] = i
          BY <1>1 DEF FreeListExact
        <5>3. \A j \in DOMAIN m_freeList : m_freeList[j] = i => j \in 1 .. k
          BY <1>1, <2>1, <2>2, <4>2
        <5> QED
          BY <2>11, <5>1, <5>2, <5>3
      <4> QED
        BY <4>1, <4>2
    <3> QED
      BY <2>10, <2>11, <3>1, <3>2, <3>3 DEF FreeListExact
  <2>14. 1 .. n = (1 .. n) \cup {idx}
    BY <2>4
  <2> USE <2>7
  <2> WITNESS n \in Nat, n \in Nat, idx \in Indices, rec.generation \in 0 .. GENERATIONS - 1
  <2> QED
    BY <1>1, <1>2, <2>4, <2>5, <2>8, <2>9, <2>10, <2>11, <2>13, <2>14
<1> QED
  BY <1>3, <1>4

LEMMA CreateKeepsInv ==
    ASSUME EcsIInv, CreateEntity
    PROVE  EcsIInv'
<1>0. /\ EcsTypeOK /\ FreeListExact /\ StorageConsistent /\ DataIsOwn
      /\ HandlesRecorded /\ GenerationsCount
  BY DEF EcsIInv
<1>1. PICK n \in Nat, m \in Nat, idx \in Indices, gen \in 0 .. GENERATIONS - 1 :
              /\ DOMAIN m_records = 1 .. n /\ DOMAIN m_records' = 1 .. m /\ m <= MAX_INDEX
              /\ m_records' \in Seq(Record) /\ Len(m_records') = m
              /\ idx \in 1 .. m /\ m >= n /\ 1 .. m = (1 .. n) \cup {idx}
              /\ idx \in 1 .. n => ~m_records[idx].alive /\ m_records[idx].generation = gen
              /\ m_records'[idx].alive /\ m_records'[idx].generation = gen
              /\ m_records'[idx].mask = {} /\ m_records'[idx].serial = created + 1
              /\ \A i \in 1 .. n : i # idx => m_records'[i] = m_records[i]
              /\ handles' = handles \cup {[index |-> idx, generation |-> gen, serial |-> created + 1]}
              /\ m_freeList' \in Seq(Indices) /\ FreeListExact'
  BY <1>0, SlotIsTaken
<1>3. /\ created \in Nat /\ created <= MAX_CREATES
      /\ created + 1 \in 1 .. MAX_CREATES /\ created' = created + 1
      /\ sparse' = sparse /\ dense' = dense /\ denseToEntity' = denseToEntity
      /\ handles \subseteq [index : Indices, generation : 0 .. GENERATIONS - 1, serial : 1 .. MAX_CREATES]
  <2>1. created \in 0 .. MAX_CREATES /\ created < MAX_CREATES /\ MAX_CREATES \in Nat
    BY <1>0, EcsAssumption DEF EcsTypeOK, CreateEntity
  <2>2. /\ created' = created + 1
        /\ sparse' = sparse /\ dense' = dense /\ denseToEntity' = denseToEntity
        /\ handles \subseteq [index : Indices, generation : 0 .. GENERATIONS - 1, serial : 1 .. MAX_CREATES]
    BY <1>0 DEF EcsTypeOK, CreateEntity
  <2> QED
    BY <2>1, <2>2
<1>2. PICK new \in [index : Indices, generation : 0 .. GENERATIONS - 1, serial : 1 .. MAX_CREATES] :
         /\ new = [index |-> idx, generation |-> gen, serial |-> created + 1]
         /\ new.index = idx /\ new.generation = gen /\ new.serial = created + 1
  <2>1. [index |-> idx, generation |-> gen, serial |-> created + 1]
           \in [index : Indices, generation : 0 .. GENERATIONS - 1, serial : 1 .. MAX_CREATES]
    BY <1>3
  <2> QED
    BY <2>1
<1>9. \A i \in 1 .. n : m_records[i].serial \in Nat
  BY <1>0, <1>1, Typed DEF Record
<1>4. EcsTypeOK'
  <2>1. /\ handles' \subseteq [index : Indices, generation : 0 .. GENERATIONS - 1, serial : 1 .. MAX_CREATES]
        /\ created' \in 0 .. MAX_CREATES
    BY <1>1, <1>2, <1>3
  <2>2. /\ sparse' \in [Components -> [Indices -> Nat]]
        /\ dense' \in [Components -> Seq(Nat)]
        /\ denseToEntity' \in [Components -> Seq(Indices)]
    BY <1>0, <1>3 DEF EcsTypeOK
  <2> QED
    BY <1>1, <2>1, <2>2 DEF EcsTypeOK, Record
<1>5. StorageConsistent'
  <2>1. ASSUME NEW c \in Components, NEW i \in Indices
        PROVE  sparse[c][i] # Absent <=>
                  i \in DOMAIN m_records' /\ m_records'[i].alive /\ c \in m_records'[i].mask
    <3>1. sparse[c][i] # Absent <=> i \in DOMAIN m_records /\ m_records[i].alive /\ c \in m_records[i].mask
      BY <1>0 DEF StorageConsistent
    <3>2. CASE i = idx
      BY <1>1, <3>1, <3>2
    <3>3. CASE i # idx
      BY <1>1, <3>1, <3>3
    <3> QED
      BY <3>2, <3>3
  <2> QED
    BY <1>0, <1>3, <2>1 DEF StorageConsistent, Indices
<1>6. DataIsOwn'
  <2>1. ASSUME NEW c \in Components, NEW i \in DOMAIN m_records', m_records'[i].alive, c \in m_records'[i].mask
        PROVE  i \in Visited({c}) /\ m_records'[i] = m_records[i]
    BY <1>1, <2>1 DEF Visited
  <2> QED
    BY <1>0, <1>3, <2>1 DEF DataIsOwn, Visited
<1>7. HandlesRecorded'
  <2>1. IsFiniteSet(handles')
    <3>1. IsFiniteSet(handles)
      BY <1>0 DEF HandlesRecorded
    <3> QED
      BY <1>1, <1>2, <3>1, FS_AddElement
  <2>2. ASSUME NEW h \in handles'
        PROVE  h.index \in DOMAIN m_records' /\ h.serial <= m_records'[h.index].serial
    <3>1. CASE h = new
      BY <1>1, <1>2, <1>3, <3>1
    <3>2. CASE h \in handles
      <4>1. /\ h.index \in 1 .. n /\ h.serial \in Nat /\ h.serial <= m_records[h.index].serial
            /\ m_records[h.index].serial <= created
        BY <1>0, <1>1, <1>3, <3>2 DEF HandlesRecorded
      <4>2. m_records[h.index].serial \in Nat
        BY <1>9, <4>1
      <4> QED
        BY <1>1, <1>3, <4>1, <4>2, SMTT(60)
    <3> QED
      BY <1>1, <1>2, <3>1, <3>2
  <2>3. ASSUME NEW i \in DOMAIN m_records'
        PROVE  m_records'[i].serial <= created' /\ \E h \in handles' : h.index = i /\ h.serial = m_records'[i].serial
    <3>1. CASE i = idx
      BY <1>1, <1>2, <1>3, <3>1
    <3>2. CASE i # idx
      <4>1. i \in 1 .. n /\ m_records'[i] = m_records[i]
        BY <1>1, <3>2
      <4>2. m_records[i].serial <= created /\ m_records[i].serial \in Nat
        BY <1>0, <1>1, <1>9, <4>1 DEF HandlesRecorded
      <4>3. PICK h \in handles : h.index = i /\ h.serial = m_records[i].serial
        BY <1>0, <1>1, <4>1 DEF HandlesRecorded
      <4> QED
        BY <1>1, <1>3, <4>1, <4>2, <4>3
    <3> QED
      BY <3>1, <3>2
  <2> QED
    BY <2>1, <2>2, <2>3 DEF HandlesRecorded
<1>8. GenerationsCount'
  <2>1. \A f \in handles : f.serial \in Nat /\ f.serial <= created /\ f.index \in 1 .. n
    <3> SUFFICES ASSUME NEW f \in handles
                 PROVE  f.serial \in Nat /\ f.serial <= created /\ f.index \in 1 .. n
      OBVIOUS
    <3>1. f.serial \in Nat /\ f.index \in 1 .. n /\ f.serial <= m_records[f.index].serial
      BY <1>0, <1>1, <1>3 DEF HandlesRecorded
    <3>2. m_records[f.index].serial <= created /\ m_records[f.index].serial \in Nat
      BY <1>0, <1>1, <1>9, <3>1 DEF HandlesRecorded
    <3> QED
      BY <1>3, <3>1, <3>2
  <2>2. handles' = handles \cup {new}
    BY <1>1, <1>2
  <2> SUFFICES ASSUME NEW h \in handles'
               PROVE  \E k \in Nat :
                         h.generation + Cardinality(Later(h)') + (IF m_records'[h.index].alive THEN 0 ELSE 1)
                            = m_records'[h.index].generation + k * GENERATIONS
    BY DEF GenerationsCount, Later
  <2>3. CASE h = new
    <3>1. Later(h)' = {}
      BY <1>2, <1>3, <2>1, <2>2, <2>3 DEF Later
    <3>2. Cardinality(Later(h)') = 0
      BY <3>1, FS_EmptySet
    <3>3. h.generation + 0 + 0 = m_records'[h.index].generation + 0 * GENERATIONS
      BY <1>1, <1>2, <2>3, EcsAssumption
    <3> QED
      BY <1>1, <1>2, <2>3, <3>2, <3>3
  <2>4. CASE h \in handles
    <3>1. PICK k \in Nat : h.generation + Cardinality(Later(h)) + (IF m_records[h.index].alive THEN 0 ELSE 1)
            = m_records[h.index].generation + k * GENERATIONS
      BY <1>0, <2>4 DEF GenerationsCount
    <3>2. IsFiniteSet(Later(h)) /\ Cardinality(Later(h)) \in Nat
      BY <1>0, LaterFinite DEF HandlesRecorded
    <3>3. h.generation \in Nat /\ h.index \in 1 .. n /\ h.serial <= created /\ h.serial \in Nat
      BY <1>3, <2>1, <2>4
    <3>4. CASE h.index = idx
      <4>1. Later(h)' = Later(h) \cup {new}
        BY <1>2, <1>3, <2>2, <3>3, <3>4 DEF Later
      <4>2. new \notin Later(h)
        BY <1>2, <1>3, <2>1 DEF Later
      <4>3. Cardinality(Later(h)') = Cardinality(Later(h)) + 1
        BY <3>2, <4>1, <4>2, FS_AddElement
      <4>4. ~m_records[h.index].alive /\ m_records'[h.index].alive
            /\ m_records'[h.index].generation = m_records[h.index].generation
        BY <1>1, <3>3, <3>4
      <4>5. h.generation + Cardinality(Later(h)) + 1 = m_records[h.index].generation + k * GENERATIONS
        BY <3>1, <4>4
      <4>6. h.generation + (Cardinality(Later(h)) + 1) + 0 = m_records[h.index].generation + k * GENERATIONS
        BY <3>2, <3>3, <4>5
      <4> QED
        BY <4>3, <4>4, <4>6
    <3>5. CASE h.index # idx
      <4>1. Later(h)' = Later(h)
        BY <1>2, <2>2, <3>5 DEF Later
      <4>2. m_records'[h.index] = m_records[h.index]
        BY <1>1, <3>3, <3>5
      <4> QED
        BY <3>1, <4>1, <4>2
    <3> QED
      BY <3>4, <3>5
  <2> QED
    BY <2>2, <2>3, <2>4
<1> QED
  BY <1>1, <1>4, <1>5, <1>6, <1>7, <1>8 DEF EcsIInv

-----------------------------------------------------------------------------
(* A change of one live entity's mask disturbs no slot and no handle. *)
LEMMA MaskKeepsSlots ==
    ASSUME EcsIInv, NEW h \in handles, IsAlive(h), NEW mask \in SUBSET Components,
           m_records' = [m_records EXCEPT ![h.index].mask = mask],
           m_freeList' = m_freeList, handles' = handles, created' = created
    PROVE  /\ m_records' \in Seq(Record) /\ Len(m_records') <= MAX_INDEX
           /\ h.index \in Indices /\ h.index \in DOMAIN m_records
           /\ DOMAIN m_records' = DOMAIN m_records
           /\ \A i \in DOMAIN m_records :
                 /\ m_records'[i].alive = m_records[i].alive
                 /\ m_records'[i].serial = m_records[i].serial
                 /\ i = h.index => m_records'[i].mask = mask
                 /\ i # h.index => m_records'[i].mask = m_records[i].mask
           /\ m_freeList' \in Seq(Indices)
           /\ FreeListExact' /\ HandlesRecorded' /\ GenerationsCount'
<1>0. EcsTypeOK /\ FreeListExact /\ HandlesRecorded /\ GenerationsCount
  BY DEF EcsIInv
<1>1. PICK n \in Nat :
         /\ n = Len(m_records) /\ n <= MAX_INDEX
         /\ DOMAIN m_records = 1 .. n
         /\ m_records \in Seq(Record)
         /\ \A i \in 1 .. n : i \in Indices /\ m_records[i] \in Record
  BY <1>0, Typed
<1>2. PICK idx \in 1 .. n : idx = h.index
  BY <1>1 DEF IsAlive
<1>3. PICK rec \in Record : rec = m_records[idx]
  BY <1>1
<1>4. PICK new : new = [rec EXCEPT !.mask = mask]
  OBVIOUS
<1>5. /\ new \in Record /\ new.alive = rec.alive /\ new.generation = rec.generation
      /\ new.serial = rec.serial /\ new.mask = mask
  BY <1>4 DEF Record
<1>6. /\ m_records' \in Seq(Record) /\ Len(m_records') = n /\ DOMAIN m_records' = 1 .. n
      /\ m_records'[idx] = new
      /\ \A i \in 1 .. n : i # idx => m_records'[i] = m_records[i]
  <2>1. m_records' = [m_records EXCEPT ![idx] = new]
    BY <1>1, <1>2, <1>3, <1>4
  <2> QED
    BY <1>1, <1>2, <1>5, <2>1
<1>7. ASSUME NEW i \in 1 .. n
      PROVE  /\ m_records'[i].alive = m_records[i].alive
             /\ m_records'[i].generation = m_records[i].generation
             /\ m_records'[i].serial = m_records[i].serial
             /\ i = idx => m_records'[i].mask = mask
             /\ i # idx => m_records'[i].mask = m_records[i].mask
  <2>1. CASE i = idx
    BY <1>3, <1>5, <1>6, <2>1
  <2>2. CASE i # idx
    BY <1>6, <2>2
  <2> QED
    BY <2>1, <2>2
<1>8. FreeListExact'
  BY <1>0, <1>1, <1>6, <1>7 DEF FreeListExact
<1>9. HandlesRecorded'
  BY <1>0, <1>1, <1>6, <1>7 DEF HandlesRecorded
<1>10. GenerationsCount'
  <2>1. ASSUME NEW f \in handles
        PROVE  /\ m_records'[f.index].alive = m_records[f.index].alive
               /\ m_records'[f.index].generation = m_records[f.index].generation
               /\ Later(f)' = Later(f)
    BY <1>0, <1>1, <1>7 DEF HandlesRecorded, Later
  <2> QED
    BY <1>0, <2>1 DEF GenerationsCount
<1>11. m_freeList' \in Seq(Indices)
  BY <1>0 DEF EcsTypeOK
<1> QED
  BY <1>1, <1>2, <1>6, <1>7, <1>8, <1>9, <1>10, <1>11

(* Storages that are inverse to each other, present exactly where the      *)
(* masks say so and with the data of the slot's entity: the invariant.     *)
LEMMA StorageAddsUp ==
    ASSUME EcsTypeOK', \A i \in DOMAIN m_records' : i \in Indices,
           \A c \in Components :
              /\ Len(dense'[c]) = Len(denseToEntity'[c]) /\ Packs(sparse'[c], denseToEntity'[c])
              /\ \A i \in Indices :
                    /\ sparse'[c][i] # Absent <=>
                          i \in DOMAIN m_records' /\ m_records'[i].alive /\ c \in m_records'[i].mask
                    /\ sparse'[c][i] # Absent => dense'[c][sparse'[c][i]] = m_records'[i].serial
    PROVE  StorageConsistent' /\ DataIsOwn'
<1>1. ASSUME NEW c \in Components PROVE DOMAIN denseToEntity'[c] = 1 .. Len(denseToEntity'[c])
  <2>1. denseToEntity'[c] \in Seq(Indices)
    BY DEF EcsTypeOK
  <2> QED
    BY <2>1
<1>2. StorageConsistent'
  BY <1>1 DEF StorageConsistent, Packs
<1>3. DataIsOwn'
  BY DEF DataIsOwn, Visited
<1> QED
  BY <1>2, <1>3

(* and what the invariant says of one storage. *)
LEMMA StorageTaken ==
    ASSUME EcsTypeOK, StorageConsistent, DataIsOwn, NEW c \in Components
    PROVE  /\ sparse[c] \in [Indices -> Nat] /\ dense[c] \in Seq(Nat)
           /\ denseToEntity[c] \in Seq(Indices)
           /\ Len(dense[c]) = Len(denseToEntity[c]) /\ Packs(sparse[c], denseToEntity[c])
           /\ \A i \in Indices :
                 /\ sparse[c][i] # Absent <=>
                       i \in DOMAIN m_records /\ m_records[i].alive /\ c \in m_records[i].mask
                 /\ sparse[c][i] # Absent => dense[c][sparse[c][i]] = m_records[i].serial
<1>1. /\ sparse[c] \in [Indices -> Nat] /\ dense[c] \in Seq(Nat)
      /\ denseToEntity[c] \in Seq(Indices)
  BY DEF EcsTypeOK
<1>2. DOMAIN denseToEntity[c] = 1 .. Len(denseToEntity[c])
  BY <1>1
<1>3. Len(dense[c]) = Len(denseToEntity[c]) /\ Packs(sparse[c], denseToEntity[c])
  BY <1>2 DEF StorageConsistent, Packs
<1>4. ASSUME NEW i \in Indices
      PROVE  /\ sparse[c][i] # Absent <=>
                    i \in DOMAIN m_records /\ m_records[i].alive /\ c \in m_records[i].mask
             /\ sparse[c][i] # Absent => dense[c][sparse[c][i]] = m_records[i].serial
  BY DEF StorageConsistent, DataIsOwn, Visited
<1> QED
  BY <1>1, <1>3, <1>4

(* One component's storage with one more entity. *)
With(d, e, sp, idx, x, g, f, sq) ==
    /\ sq \in [Indices -> Nat] /\ f \in Seq(Indices) /\ g \in Seq(Nat)
    /\ Len(f) = Len(g) /\ Packs(sq, f)
    /\ sq[idx] # Absent /\ g[sq[idx]] = x
    /\ \A i \in Indices : i # idx =>
          /\ sq[i] # Absent <=> sp[i] # Absent
          /\ sq[i] # Absent => g[sq[i]] = d[sp[i]]

LEMMA StorageAfterAdd ==
    ASSUME NEW d \in Seq(Nat), NEW e \in Seq(Indices), NEW sp \in [Indices -> Nat],
           Len(d) = Len(e), Packs(sp, e),
           NEW idx \in Indices, sp[idx] = Absent, NEW x \in Nat
    PROVE  With(d, e, sp, idx, x, Append(d, x), Append(e, idx), [sp EXCEPT ![idx] = Len(d) + 1])
<1>1. PICK n \in Nat : n = Len(d) /\ n = Len(e)
  OBVIOUS
<1>2. PICK f : /\ f = Append(e, idx) /\ f \in Seq(Indices) /\ Len(f) = n + 1 /\ f[n + 1] = idx
               /\ \A p \in 1 .. n : f[p] = e[p]
  <2>1. PICK f : f = Append(e, idx)
    OBVIOUS
  <2>2. f \in Seq(Indices) /\ Len(f) = n + 1 /\ f[n + 1] = idx /\ \A p \in 1 .. n : f[p] = e[p]
    BY <1>1, <2>1
  <2> QED
    BY <2>1, <2>2
<1>3. PICK g : /\ g = Append(d, x) /\ g \in Seq(Nat) /\ Len(g) = n + 1 /\ g[n + 1] = x
               /\ \A p \in 1 .. n : g[p] = d[p]
  <2>1. PICK g : g = Append(d, x)
    OBVIOUS
  <2>2. g \in Seq(Nat) /\ Len(g) = n + 1 /\ g[n + 1] = x /\ \A p \in 1 .. n : g[p] = d[p]
    BY <1>1, <2>1
  <2> QED
    BY <2>1, <2>2
<1>4. PICK sq : /\ sq = [sp EXCEPT ![idx] = Len(d) + 1] /\ sq \in [Indices -> Nat] /\ sq[idx] = n + 1
                /\ \A i \in Indices : i # idx => sq[i] = sp[i]
  <2>1. PICK sq : sq = [sp EXCEPT ![idx] = Len(d) + 1]
    OBVIOUS
  <2>2. sq \in [Indices -> Nat] /\ sq[idx] = n + 1 /\ \A i \in Indices : i # idx => sq[i] = sp[i]
    BY <1>1, <2>1
  <2> QED
    BY <2>1, <2>2
<1>5. \A p \in 1 .. n : sp[e[p]] = p /\ e[p] \in Indices /\ e[p] # idx
  BY <1>1 DEF Packs, Absent
<1>6. \A i \in Indices : sp[i] # 0 => sp[i] \in 1 .. n /\ e[sp[i]] = i
  BY <1>1 DEF Packs, Absent
<1>7. Packs(sq, f)
  <2>1. ASSUME NEW p \in 1 .. (n + 1) PROVE sq[f[p]] = p
    <3>1. CASE p = n + 1
      BY <1>2, <1>4, <3>1
    <3>2. CASE p # n + 1
      <4>1. p \in 1 .. n
        BY <3>2
      <4> QED
        BY <1>2, <1>4, <1>5, <4>1
    <3> QED
      BY <3>1, <3>2
  <2>2. ASSUME NEW i \in Indices, sq[i] # 0 PROVE sq[i] \in 1 .. (n + 1) /\ f[sq[i]] = i
    <3>1. CASE i = idx
      BY <1>2, <1>4, <3>1
    <3>2. CASE i # idx
      <4>1. sq[i] \in 1 .. n /\ e[sq[i]] = i
        BY <1>4, <1>6, <2>2, <3>2
      <4> QED
        BY <1>2, <4>1
    <3> QED
      BY <3>1, <3>2
  <2> QED
    BY <1>2, <2>1, <2>2 DEF Packs, Absent
<1>8. ASSUME NEW i \in Indices, i # idx
      PROVE  /\ sq[i] # Absent <=> sp[i] # Absent
             /\ sq[i] # Absent => g[sq[i]] = d[sp[i]]
  BY <1>3, <1>4, <1>6, <1>8 DEF Absent
<1>9. With(d, e, sp, idx, x, g, f, sq)
  <2>1. sq[idx] # Absent /\ g[sq[idx]] = x /\ Len(f) = Len(g)
    BY <1>2, <1>3, <1>4 DEF Absent
  <2> QED
    BY <1>2, <1>3, <1>4, <1>7, <1>8, <2>1 DEF With
<1> QED
  BY <1>2, <1>3, <1>4, <1>9

LEMMA AddKeepsInv ==
    ASSUME EcsIInv, NEW h \in handles, NEW c \in Components, AddComponent(h, c)
    PROVE  EcsIInv'
<1>0. EcsTypeOK /\ StorageConsistent /\ DataIsOwn
  BY DEF EcsIInv
<1>1. /\ IsAlive(h) /\ c \notin m_records[h.index].mask
      /\ m_freeList' = m_freeList /\ handles' = handles /\ created' = created
  BY DEF AddComponent
<1>2. PICK idx \in DOMAIN m_records : idx = h.index
  BY <1>1 DEF IsAlive
<1>3. PICK rec \in Record : rec = m_records[idx]
  BY <1>0, <1>2, Typed
<1>4. rec.mask \in SUBSET Components /\ rec.serial \in Nat
  BY DEF Record
<1>5. PICK mask \in SUBSET Components : mask = rec.mask \cup {c}
  BY <1>4
<1>6. m_records' = [m_records EXCEPT ![h.index].mask = mask]
  BY <1>2, <1>3, <1>5 DEF AddComponent
<1>7. /\ m_records' \in Seq(Record) /\ Len(m_records') <= MAX_INDEX
      /\ idx \in Indices
      /\ DOMAIN m_records' = DOMAIN m_records
      /\ \A i \in DOMAIN m_records :
            /\ m_records'[i].alive = m_records[i].alive
            /\ m_records'[i].serial = m_records[i].serial
            /\ i = idx => m_records'[i].mask = mask
            /\ i # idx => m_records'[i].mask = m_records[i].mask
      /\ m_freeList' \in Seq(Indices)
      /\ FreeListExact' /\ HandlesRecorded' /\ GenerationsCount'
  BY <1>1, <1>2, <1>6, MaskKeepsSlots, ZenonT(90)
<1>8. With(dense[c], denseToEntity[c], sparse[c], idx, rec.serial, dense'[c], denseToEntity'[c], sparse'[c])
  <2>1. PICK sp \in [Indices -> Nat], d \in Seq(Nat), e \in Seq(Indices) :
           /\ sp = sparse[c] /\ d = dense[c] /\ e = denseToEntity[c]
           /\ Len(d) = Len(e) /\ Packs(sp, e) /\ sp[idx] = Absent
    BY <1>0, <1>1, <1>2, <1>7, StorageTaken
  <2>2. With(d, e, sp, idx, rec.serial, Append(d, rec.serial), Append(e, idx), [sp EXCEPT ![idx] = Len(d) + 1])
    BY <1>4, <1>7, <2>1, StorageAfterAdd
  <2>3. /\ dense'[c] = Append(d, rec.serial) /\ denseToEntity'[c] = Append(e, idx)
        /\ sparse'[c] = [sp EXCEPT ![idx] = Len(d) + 1]
    BY <1>0, <1>2, <1>3, <2>1 DEF AddComponent, EcsTypeOK
  <2> QED
    BY <2>1, <2>2, <2>3
<1>9. ASSUME NEW b \in Components, b # c
      PROVE  sparse'[b] = sparse[b] /\ dense'[b] = dense[b] /\ denseToEntity'[b] = denseToEntity[b]
  BY <1>0, <1>9 DEF AddComponent, EcsTypeOK
<1>10. EcsTypeOK'
  <2>1. /\ sparse' \in [Components -> [Indices -> Nat]]
        /\ dense' \in [Components -> Seq(Nat)]
        /\ denseToEntity' \in [Components -> Seq(Indices)]
    <3>1. /\ DOMAIN sparse' = Components /\ DOMAIN dense' = Components /\ DOMAIN denseToEntity' = Components
          /\ sparse' = [b \in DOMAIN sparse' |-> sparse'[b]] /\ dense' = [b \in DOMAIN dense' |-> dense'[b]]
          /\ denseToEntity' = [b \in DOMAIN denseToEntity' |-> denseToEntity'[b]]
      BY <1>0 DEF AddComponent, EcsTypeOK
    <3>2. ASSUME NEW b \in Components
          PROVE  /\ sparse'[b] \in [Indices -> Nat] /\ dense'[b] \in Seq(Nat)
                 /\ denseToEntity'[b] \in Seq(Indices)
      <4>1. CASE b = c
        BY <1>8, <4>1 DEF With
      <4>2. CASE b # c
        BY <1>0, <1>9, <4>2 DEF EcsTypeOK
      <4> QED
        BY <4>1, <4>2
    <3> QED
      BY <3>1, <3>2
  <2>2. /\ handles' \subseteq [index : Indices, generation : 0 .. GENERATIONS - 1, serial : 1 .. MAX_CREATES]
        /\ created' \in 0 .. MAX_CREATES
    BY <1>0, <1>1 DEF EcsTypeOK
  <2> QED
    BY <1>7, <2>1, <2>2 DEF EcsTypeOK, Record
<1>11. ASSUME NEW b \in Components
       PROVE  /\ Len(dense'[b]) = Len(denseToEntity'[b]) /\ Packs(sparse'[b], denseToEntity'[b])
              /\ \A i \in Indices :
                    /\ sparse'[b][i] # Absent <=>
                          i \in DOMAIN m_records' /\ m_records'[i].alive /\ b \in m_records'[i].mask
                    /\ sparse'[b][i] # Absent => dense'[b][sparse'[b][i]] = m_records'[i].serial
  <2>1. /\ Len(dense[b]) = Len(denseToEntity[b]) /\ Packs(sparse[b], denseToEntity[b])
        /\ \A i \in Indices :
              /\ sparse[b][i] # Absent <=>
                    i \in DOMAIN m_records /\ m_records[i].alive /\ b \in m_records[i].mask
              /\ sparse[b][i] # Absent => dense[b][sparse[b][i]] = m_records[i].serial
    BY <1>0, StorageTaken
  <2>2. CASE b = c
    <3>1. Len(dense'[b]) = Len(denseToEntity'[b]) /\ Packs(sparse'[b], denseToEntity'[b])
      BY <1>8, <2>2 DEF With
    <3>2. ASSUME NEW i \in Indices
          PROVE  /\ sparse'[b][i] # Absent <=>
                       i \in DOMAIN m_records' /\ m_records'[i].alive /\ b \in m_records'[i].mask
                 /\ sparse'[b][i] # Absent => dense'[b][sparse'[b][i]] = m_records'[i].serial
      <4>1. CASE i = idx
        BY <1>1, <1>2, <1>3, <1>5, <1>7, <1>8, <2>2, <4>1 DEF With, IsAlive
      <4>2. CASE i # idx
        BY <1>7, <1>8, <2>1, <2>2, <4>2 DEF With
      <4> QED
        BY <4>1, <4>2
    <3> QED
      BY <3>1, <3>2
  <2>3. CASE b # c
    <3>1. sparse'[b] = sparse[b] /\ dense'[b] = dense[b] /\ denseToEntity'[b] = denseToEntity[b]
      BY <1>9, <2>3
    <3>2. \A i \in DOMAIN m_records : b \in m_records'[i].mask <=> b \in m_records[i].mask
      BY <1>2, <1>3, <1>5, <1>7, <2>3
    <3> QED
      BY <1>7, <2>1, <3>1, <3>2 DEF Packs
  <2> QED
    BY <2>2, <2>3
<1>12. \A i \in DOMAIN m_records' : i \in Indices
  BY <1>0, <1>7, Typed
<1>13. StorageConsistent' /\ DataIsOwn'
  BY <1>10, <1>11, <1>12, StorageAddsUp
<1> QED
  BY <1>7, <1>10, <1>13 DEF EcsIInv

LEMMA RemoveKeepsInv ==
    ASSUME EcsIInv, NEW h \in handles, NEW c \in Components, RemoveComponent(h, c)
    PROVE  EcsIInv'
<1>0. EcsTypeOK /\ StorageConsistent /\ DataIsOwn
  BY DEF EcsIInv
<1>1. /\ IsAlive(h) /\ c \in m_records[h.index].mask /\ RemoveFrom({c}, h.index)
      /\ m_freeList' = m_freeList /\ handles' = handles /\ created' = created
  BY DEF RemoveComponent
<1>2. PICK idx \in DOMAIN m_records : idx = h.index
  BY <1>1 DEF IsAlive
<1>3. PICK rec \in Record : rec = m_records[idx]
  BY <1>0, <1>2, Typed
<1>4. rec.mask \in SUBSET Components
  BY DEF Record
<1>5. PICK mask \in SUBSET Components : mask = rec.mask \ {c}
  BY <1>4
<1>6. m_records' = [m_records EXCEPT ![h.index].mask = mask]
  BY <1>2, <1>3, <1>5 DEF RemoveComponent
<1>7. /\ m_records' \in Seq(Record) /\ Len(m_records') <= MAX_INDEX
      /\ idx \in Indices
      /\ DOMAIN m_records' = DOMAIN m_records
      /\ \A i \in DOMAIN m_records :
            /\ m_records'[i].alive = m_records[i].alive
            /\ m_records'[i].serial = m_records[i].serial
            /\ i = idx => m_records'[i].mask = mask
            /\ i # idx => m_records'[i].mask = m_records[i].mask
      /\ m_freeList' \in Seq(Indices)
      /\ FreeListExact' /\ HandlesRecorded' /\ GenerationsCount'
  BY <1>1, <1>2, <1>6, MaskKeepsSlots, ZenonT(90)
<1>8. \A b \in Components : \A i \in Indices :
         /\ sparse[b][i] # Absent <=>
               i \in DOMAIN m_records /\ m_records[i].alive /\ b \in m_records[i].mask
         /\ sparse[b][i] # Absent => dense[b][sparse[b][i]] = m_records[i].serial
  BY <1>0, StorageTaken
<1>9. \A b \in {c} : sparse[b][idx] # Absent
  BY <1>1, <1>2, <1>7, <1>8 DEF IsAlive
<1>10. /\ sparse' \in [Components -> [Indices -> Nat]]
       /\ dense' \in [Components -> Seq(Nat)]
       /\ denseToEntity' \in [Components -> Seq(Indices)]
       /\ \A b \in Components :
             /\ Len(dense'[b]) = Len(denseToEntity'[b])
             /\ Packs(sparse'[b], denseToEntity'[b])
             /\ \A i \in Indices :
                   /\ sparse'[b][i] # Absent <=> sparse[b][i] # Absent /\ ~(b \in {c} /\ i = idx)
                   /\ sparse'[b][i] # Absent => dense'[b][sparse'[b][i]] = dense[b][sparse[b][i]]
  <2>1. PICK cs \in SUBSET Components : cs = {c}
    OBVIOUS
  <2>2. RemoveFrom(cs, idx) /\ \A b \in cs : sparse[b][idx] # Absent
    BY <1>1, <1>2, <1>9, <2>1
  <2>3. StoragesWithout(cs, idx)
    BY <1>0, <1>7, <2>2, RemoveFromKeepsStorage
  <2> QED
    BY <2>1, <2>3 DEF StoragesWithout
<1>11. EcsTypeOK'
  <2>1. /\ handles' \subseteq [index : Indices, generation : 0 .. GENERATIONS - 1, serial : 1 .. MAX_CREATES]
        /\ created' \in 0 .. MAX_CREATES
    BY <1>0, <1>1 DEF EcsTypeOK
  <2> QED
    BY <1>7, <1>10, <2>1 DEF EcsTypeOK, Record
<1>12. ASSUME NEW b \in Components, NEW i \in Indices
       PROVE  /\ sparse'[b][i] # Absent <=>
                    i \in DOMAIN m_records' /\ m_records'[i].alive /\ b \in m_records'[i].mask
              /\ sparse'[b][i] # Absent => dense'[b][sparse'[b][i]] = m_records'[i].serial
  <2>1. i \in DOMAIN m_records => (b \in m_records'[i].mask <=> b \in m_records[i].mask /\ ~(b = c /\ i = idx))
    BY <1>2, <1>3, <1>5, <1>7
  <2>2. sparse'[b][i] # Absent <=> sparse[b][i] # Absent /\ ~(b = c /\ i = idx)
    BY <1>10
  <2>3. /\ sparse'[b][i] # Absent => dense'[b][sparse'[b][i]] = dense[b][sparse[b][i]]
        /\ sparse[b][i] # Absent => dense[b][sparse[b][i]] = m_records[i].serial
        /\ sparse[b][i] # Absent <=> i \in DOMAIN m_records /\ m_records[i].alive /\ b \in m_records[i].mask
    BY <1>8, <1>10
  <2>4. i \in DOMAIN m_records => m_records'[i].alive = m_records[i].alive /\ m_records'[i].serial = m_records[i].serial
    BY <1>7
  <2> QED
    BY <1>7, <2>1, <2>2, <2>3, <2>4
<1>13. \A i \in DOMAIN m_records' : i \in Indices
  BY <1>0, <1>7, Typed
<1>14. StorageConsistent' /\ DataIsOwn'
  BY <1>10, <1>11, <1>12, <1>13, StorageAddsUp
<1> QED
  BY <1>7, <1>11, <1>14 DEF EcsIInv

-----------------------------------------------------------------------------
(* DestroyEntity: the record dies, its generation moves on by one, and its *)
(* slot is the last of the free list.                                      *)
LEMMA SlotIsFreed ==
    ASSUME EcsIInv, NEW h \in handles, DestroyEntity(h)
    PROVE  /\ h.index \in Indices /\ h.index \in DOMAIN m_records /\ m_records[h.index].alive
           /\ m_records' \in Seq(Record) /\ Len(m_records') <= MAX_INDEX
           /\ DOMAIN m_records' = DOMAIN m_records
           /\ ~m_records'[h.index].alive /\ m_records'[h.index].mask = {}
           /\ m_records'[h.index].generation = (m_records[h.index].generation + 1) % GENERATIONS
           /\ m_records'[h.index].serial = m_records[h.index].serial
           /\ \A i \in DOMAIN m_records : i # h.index => m_records'[i] = m_records[i]
           /\ m_freeList' \in Seq(Indices) /\ FreeListExact'
<1>0. EcsTypeOK /\ FreeListExact
  BY DEF EcsIInv
<1>1. PICK n \in Nat :
         /\ n = Len(m_records) /\ n <= MAX_INDEX
         /\ DOMAIN m_records = 1 .. n
         /\ m_records \in Seq(Record)
         /\ \A i \in 1 .. n : i \in Indices /\ m_records[i] \in Record
         /\ DOMAIN m_freeList = 1 .. Len(m_freeList)
  BY <1>0, Typed
<1>2. PICK idx \in 1 .. n : idx = h.index /\ m_records[idx].alive /\ idx \in Indices
  BY <1>1 DEF DestroyEntity, IsAlive
<1>3. PICK rec \in Record : rec = m_records[idx]
  BY <1>1
<1>4. PICK new : new = Buried(rec)
  OBVIOUS
<1>5. /\ new \in Record /\ ~new.alive /\ new.mask = {} /\ new.serial = rec.serial
      /\ new.generation = (rec.generation + 1) % GENERATIONS
  <2>1. rec.generation \in 0 .. GENERATIONS - 1
    BY DEF Record
  <2>2. (rec.generation + 1) % GENERATIONS \in 0 .. GENERATIONS - 1
    BY <2>1, GenerationMoves, EcsAssumption
  <2> QED
    BY <1>4, <2>2 DEF Record, Buried
<1>6. m_records' = [m_records EXCEPT ![idx] = new] /\ m_freeList' = Append(m_freeList, idx)
  BY <1>1, <1>2, <1>3, <1>4 DEF DestroyEntity
<1>7. /\ m_records' \in Seq(Record) /\ Len(m_records') = n
      /\ DOMAIN m_records' = 1 .. n /\ m_records'[idx] = new
      /\ \A i \in 1 .. n : i # idx => m_records'[i] = m_records[i]
  BY <1>1, <1>2, <1>5, <1>6, SMTT(60)
<1>8. PICK k \in Nat : /\ k = Len(m_freeList) /\ DOMAIN m_freeList = 1 .. k
                       /\ m_freeList' \in Seq(Indices) /\ DOMAIN m_freeList' = 1 .. (k + 1)
                       /\ m_freeList'[k + 1] = idx /\ k + 1 \in DOMAIN m_freeList'
                       /\ \A j \in 1 .. k : m_freeList'[j] = m_freeList[j]
  <2>1. m_freeList \in Seq(Indices)
    BY <1>0 DEF EcsTypeOK
  <2>2. PICK k \in Nat : k = Len(m_freeList)
    BY <2>1
  <2>3. /\ m_freeList' \in Seq(Indices) /\ DOMAIN m_freeList' = 1 .. (k + 1)
        /\ m_freeList'[k + 1] = idx /\ k + 1 \in DOMAIN m_freeList'
        /\ \A j \in 1 .. k : m_freeList'[j] = m_freeList[j]
    BY <1>2, <1>6, <2>1, <2>2
  <2> QED
    BY <1>1, <2>2, <2>3, ZenonT(60)
<1>9. \A j \in 1 .. k : m_freeList[j] # idx
  BY <1>0, <1>1, <1>2, <1>8 DEF FreeListExact
<1>10. FreeListExact'
  <2>1. \A i, j \in 1 .. (k + 1) : m_freeList'[i] = m_freeList'[j] => i = j
    <3> SUFFICES ASSUME NEW i \in 1 .. (k + 1), NEW j \in 1 .. (k + 1), m_freeList'[i] = m_freeList'[j]
                 PROVE  i = j
      OBVIOUS
    <3>1. CASE i \in 1 .. k /\ j \in 1 .. k
      BY <1>0, <1>8, <3>1 DEF FreeListExact
    <3>2. CASE i = k + 1 \/ j = k + 1
      BY <1>8, <1>9, <3>2
    <3> QED
      BY <3>1, <3>2
  <2>2. \A j \in 1 .. (k + 1) : m_freeList'[j] \in 1 .. n
    <3>1. \A j \in 1 .. k : m_freeList'[j] \in 1 .. n
      BY <1>0, <1>1, <1>8 DEF FreeListExact
    <3> QED
      BY <1>2, <1>8, <3>1
  <2>3. ASSUME NEW i \in 1 .. n
        PROVE  ~m_records'[i].alive <=> \E j \in 1 .. (k + 1) : m_freeList'[j] = i
    <3>1. CASE i = idx
      BY <1>5, <1>7, <1>8, <3>1
    <3>2. CASE i # idx
      <4>1. ~m_records[i].alive <=> \E j \in 1 .. k : m_freeList[j] = i
        BY <1>0, <1>1, <1>8 DEF FreeListExact
      <4>2. m_records'[i] = m_records[i]
        BY <1>7, <3>2
      <4>3. \A j \in 1 .. (k + 1) : m_freeList'[j] = i => j \in 1 .. k
        BY <1>8, <3>2
      <4> QED
        BY <1>8, <4>1, <4>2, <4>3
    <3> QED
      BY <3>1, <3>2
  <2> QED
    BY <1>7, <1>8, <2>1, <2>2, <2>3 DEF FreeListExact
<1> QED
  BY <1>1, <1>2, <1>3, <1>5, <1>7, <1>8, <1>10

LEMMA DestroyKeepsInv ==
    ASSUME EcsIInv, NEW h \in handles, DestroyEntity(h)
    PROVE  EcsIInv'
<1>0. /\ EcsTypeOK /\ StorageConsistent /\ DataIsOwn
      /\ HandlesRecorded /\ GenerationsCount
  BY DEF EcsIInv
<1>1. PICK idx \in Indices :
           /\ idx = h.index /\ idx \in DOMAIN m_records /\ m_records[idx].alive
           /\ m_records' \in Seq(Record) /\ Len(m_records') <= MAX_INDEX
           /\ DOMAIN m_records' = DOMAIN m_records
           /\ ~m_records'[idx].alive /\ m_records'[idx].mask = {}
           /\ m_records'[idx].generation = (m_records[idx].generation + 1) % GENERATIONS
           /\ m_records'[idx].serial = m_records[idx].serial
           /\ \A i \in DOMAIN m_records : i # idx => m_records'[i] = m_records[i]
           /\ m_freeList' \in Seq(Indices) /\ FreeListExact'
  BY SlotIsFreed
<1>2. /\ handles' = handles /\ created' = created
      /\ RemoveFrom(m_records[idx].mask, idx)
  BY <1>1 DEF DestroyEntity
<1>3. PICK mask \in SUBSET Components : mask = m_records[idx].mask
  <2>1. m_records[idx] \in Record
    BY <1>0, <1>1, Typed
  <2> QED
    BY <2>1 DEF Record
<1>4. \A b \in Components : \A i \in Indices :
         /\ sparse[b][i] # Absent <=>
               i \in DOMAIN m_records /\ m_records[i].alive /\ b \in m_records[i].mask
         /\ sparse[b][i] # Absent => dense[b][sparse[b][i]] = m_records[i].serial
  BY <1>0, StorageTaken
<1>5. \A b \in mask : sparse[b][idx] # Absent
  BY <1>1, <1>3, <1>4
<1>6. /\ sparse' \in [Components -> [Indices -> Nat]]
      /\ dense' \in [Components -> Seq(Nat)]
      /\ denseToEntity' \in [Components -> Seq(Indices)]
      /\ \A b \in Components :
            /\ Len(dense'[b]) = Len(denseToEntity'[b])
            /\ Packs(sparse'[b], denseToEntity'[b])
            /\ \A i \in Indices :
                  /\ sparse'[b][i] # Absent <=> sparse[b][i] # Absent /\ ~(b \in mask /\ i = idx)
                  /\ sparse'[b][i] # Absent => dense'[b][sparse'[b][i]] = dense[b][sparse[b][i]]
  <2>1. RemoveFrom(mask, idx)
    BY <1>2, <1>3
  <2>2. StoragesWithout(mask, idx)
    BY <1>0, <1>5, <2>1, RemoveFromKeepsStorage
  <2> QED
    BY <2>2 DEF StoragesWithout
<1>7. EcsTypeOK'
  <2>1. /\ handles' \subseteq [index : Indices, generation : 0 .. GENERATIONS - 1, serial : 1 .. MAX_CREATES]
        /\ created' \in 0 .. MAX_CREATES
    BY <1>0, <1>2 DEF EcsTypeOK
  <2> QED
    BY <1>1, <1>6, <2>1 DEF EcsTypeOK, Record
<1>8. ASSUME NEW b \in Components, NEW i \in Indices
      PROVE  /\ sparse'[b][i] # Absent <=>
                   i \in DOMAIN m_records' /\ m_records'[i].alive /\ b \in m_records'[i].mask
             /\ sparse'[b][i] # Absent => dense'[b][sparse'[b][i]] = m_records'[i].serial
  <2>1. CASE i = idx
    BY <1>1, <1>3, <1>4, <1>6, <2>1
  <2>2. CASE i # idx
    BY <1>1, <1>4, <1>6, <2>2
  <2> QED
    BY <2>1, <2>2
<1>9. \A i \in DOMAIN m_records' : i \in Indices
  BY <1>0, <1>1, Typed
<1>10. StorageConsistent' /\ DataIsOwn'
  BY <1>6, <1>7, <1>8, <1>9, StorageAddsUp
<1>11. HandlesRecorded'
  <2>1. /\ handles' = handles /\ created' = created
        /\ DOMAIN m_records' = DOMAIN m_records
    BY <1>1, <1>2
  <2>2. ASSUME NEW i \in DOMAIN m_records PROVE m_records'[i].serial = m_records[i].serial
    BY <1>1, <2>2
  <2>3. ASSUME NEW f \in handles
        PROVE  f.index \in DOMAIN m_records' /\ f.serial <= m_records'[f.index].serial
    <3>1. f.index \in DOMAIN m_records /\ f.serial <= m_records[f.index].serial
      BY <1>0 DEF HandlesRecorded
    <3>2. m_records'[f.index].serial = m_records[f.index].serial
      BY <2>2, <3>1
    <3> QED
      BY <2>1, <3>1, <3>2
  <2>4. ASSUME NEW i \in DOMAIN m_records
        PROVE  /\ m_records'[i].serial <= created'
               /\ \E f \in handles : f.index = i /\ f.serial = m_records'[i].serial
    <3>1. /\ m_records[i].serial <= created
          /\ \E f \in handles : f.index = i /\ f.serial = m_records[i].serial
      BY <1>0 DEF HandlesRecorded
    <3>2. m_records'[i].serial = m_records[i].serial
      BY <2>2
    <3> QED
      BY <2>1, <3>1, <3>2
  <2>5. IsFiniteSet(handles)
    BY <1>0 DEF HandlesRecorded
  <2> QED
    BY <2>1, <2>3, <2>4, <2>5 DEF HandlesRecorded
<1>12. GenerationsCount'
  <2> SUFFICES ASSUME NEW f \in handles
               PROVE  \E k \in Nat :
                         f.generation + Cardinality(Later(f)) + (IF m_records'[f.index].alive THEN 0 ELSE 1)
                            = m_records'[f.index].generation + k * GENERATIONS
    BY <1>2 DEF GenerationsCount, Later
  <2>1. PICK k \in Nat : f.generation + Cardinality(Later(f)) + (IF m_records[f.index].alive THEN 0 ELSE 1)
            = m_records[f.index].generation + k * GENERATIONS
    BY <1>0 DEF GenerationsCount
  <2>2. Cardinality(Later(f)) \in Nat /\ f.generation \in Nat /\ f.index \in DOMAIN m_records
    <3>1. f.generation \in 0 .. GENERATIONS - 1
      BY <1>0 DEF EcsTypeOK
    <3> QED
      BY <1>0, <3>1, LaterFinite, EcsAssumption DEF HandlesRecorded
  <2>3. CASE f.index = idx
    <3>1. PICK g \in 0 .. GENERATIONS - 1 : g = m_records[idx].generation
      <4>1. m_records[idx] \in Record
        BY <1>0, <1>1, Typed
      <4> QED
        BY <4>1 DEF Record
    <3>2. PICK a \in Nat : a = f.generation + Cardinality(Later(f))
      BY <2>2
    <3>3. a = g + k * GENERATIONS
      BY <1>1, <2>1, <2>2, <2>3, <3>1, <3>2, EcsAssumption
    <3>4. PICK j \in Nat : a + 1 = ((g + 1) % GENERATIONS) + j * GENERATIONS
      BY <3>3, CountsOnce
    <3>5. ~m_records'[f.index].alive /\ m_records'[f.index].generation = (g + 1) % GENERATIONS
      BY <1>1, <2>3, <3>1
    <3> QED
      BY <3>2, <3>4, <3>5
  <2>4. CASE f.index # idx
    <3>1. m_records'[f.index] = m_records[f.index]
      BY <1>1, <2>2, <2>4
    <3> QED
      BY <2>1, <3>1
  <2> QED
    BY <2>3, <2>4
<1> QED
  BY <1>1, <1>7, <1>10, <1>11, <1>12 DEF EcsIInv

-----------------------------------------------------------------------------
(* A live handle of another entity has the generations of a whole round    *)
(* after it.                                                               *)
LEMMA InvGivesEcsInv ==
    ASSUME EcsIInv
    PROVE  EcsInv
<1>0. /\ EcsTypeOK /\ FreeListExact /\ StorageConsistent /\ DataIsOwn
      /\ HandlesRecorded /\ GenerationsCount
  BY DEF EcsIInv
<1>1. ASSUME NEW h \in handles, IsAlive(h)
      PROVE  m_records[h.index].serial = h.serial \/ Cardinality(Later(h)) >= GENERATIONS
  <2>1. PICK idx \in DOMAIN m_records : idx = h.index
    BY <1>1 DEF IsAlive
  <2>2. PICK f \in handles : f.index = idx /\ f.serial = m_records[idx].serial
    BY <1>0 DEF HandlesRecorded
  <2>3. /\ IsFiniteSet(Later(h)) /\ Cardinality(Later(h)) \in Nat
        /\ h.generation \in Nat /\ h.serial \in Nat /\ f.serial \in Nat
    <3>1. IsFiniteSet(Later(h)) /\ Cardinality(Later(h)) \in Nat
      BY <1>0, LaterFinite DEF HandlesRecorded
    <3>2. \A e \in handles : e.generation \in Nat /\ e.serial \in Nat
      BY <1>0, EcsAssumption, SMTT(60) DEF EcsTypeOK
    <3> QED
      BY <3>1, <3>2
  <2>4. PICK k \in Nat : h.generation + Cardinality(Later(h)) + 0 = m_records[idx].generation + k * GENERATIONS
    BY <1>0, <1>1, <2>1 DEF GenerationsCount, IsAlive
  <2>5. Cardinality(Later(h)) = k * GENERATIONS
    <3>1. m_records[idx].generation = h.generation
      BY <1>1, <2>1 DEF IsAlive
    <3>2. k * GENERATIONS \in Nat
      BY EcsAssumption
    <3> QED
      BY <2>3, <2>4, <3>1, <3>2
  <2>6. Cardinality(Later(h)) = 0 \/ Cardinality(Later(h)) >= GENERATIONS
    BY <2>3, <2>5, RoundIsFull
  <2>7. CASE Cardinality(Later(h)) = 0
    <3>1. Later(h) = {}
      BY <2>3, <2>7, FS_EmptySet
    <3>2. ~(f.serial > h.serial)
      BY <2>1, <2>2, <3>1 DEF Later
    <3>3. h.serial <= m_records[idx].serial
      BY <1>0, <2>1 DEF HandlesRecorded
    <3> QED
      BY <2>1, <2>2, <2>3, <3>2, <3>3
  <2> QED
    BY <2>6, <2>7
<1> QED
  BY <1>0, <1>1 DEF EcsInv, StaleHandlesDead, Later

(* Every reachable entity store satisfies the inductive invariant. *)
THEOREM EcsInvariant == EcsSpec => []EcsIInv
<1>1. EcsInit => EcsIInv
  <2> SUFFICES ASSUME EcsInit PROVE EcsIInv
    OBVIOUS
  <2>1. EcsTypeOK
    <3>1. m_records \in Seq(Record) /\ Len(m_records) <= MAX_INDEX /\ m_freeList \in Seq(Indices)
      BY EcsAssumption DEF EcsInit
    <3>2. /\ sparse \in [Components -> [Indices -> Nat]]
          /\ dense \in [Components -> Seq(Nat)]
          /\ denseToEntity \in [Components -> Seq(Indices)]
      BY DEF EcsInit, Absent
    <3>3. handles = {} /\ created \in 0 .. MAX_CREATES
      BY EcsAssumption DEF EcsInit
    <3> QED
      BY <3>1, <3>2, <3>3 DEF EcsTypeOK, Record
  <2>2. DOMAIN m_records = {} /\ DOMAIN m_freeList = {} /\ handles = {}
    BY DEF EcsInit
  <2>3. FreeListExact /\ HandlesRecorded /\ GenerationsCount
    BY <2>2, FS_EmptySet DEF FreeListExact, HandlesRecorded, GenerationsCount
  <2>4. StorageConsistent
    BY <2>2 DEF StorageConsistent, EcsInit
  <2>5. DataIsOwn
    BY <2>2 DEF DataIsOwn, Visited
  <2> QED
    BY <2>1, <2>3, <2>4, <2>5 DEF EcsIInv
<1>2. EcsIInv /\ [EcsNext]_ecsVars => EcsIInv'
  <2> SUFFICES ASSUME EcsIInv, [EcsNext]_ecsVars PROVE EcsIInv'
    OBVIOUS
  <2>1. CASE CreateEntity
    BY <2>1, CreateKeepsInv
  <2>2. CASE \E e \in handles : DestroyEntity(e)
    BY <2>2, DestroyKeepsInv
  <2>3. CASE \E e \in handles, c \in Components : AddComponent(e, c)
    BY <2>3, AddKeepsInv
  <2>4. CASE \E e \in handles, c \in Components : RemoveComponent(e, c)
    BY <2>4, RemoveKeepsInv
  <2>5. CASE UNCHANGED ecsVars
    <3>1. EcsTypeOK'
      BY <2>5 DEF ecsVars, EcsIInv, EcsTypeOK
    <3>2. FreeListExact'
      BY <2>5 DEF ecsVars, EcsIInv, FreeListExact
    <3>3. StorageConsistent' /\ DataIsOwn'
      BY <2>5 DEF ecsVars, EcsIInv, StorageConsistent, DataIsOwn, Visited
    <3>4. HandlesRecorded'
      BY <2>5 DEF ecsVars, EcsIInv, HandlesRecorded
    <3>5. GenerationsCount'
      BY <2>5 DEF ecsVars, EcsIInv, GenerationsCount, Later
    <3> QED
      BY <3>1, <3>2, <3>3, <3>4, <3>5 DEF EcsIInv
  <2> QED
    BY <2>1, <2>2, <2>3, <2>4, <2>5 DEF EcsNext
<1> QED
  BY <1>1, <1>2, PTL DEF EcsSpec

(* The entity store is consistent in every reachable state: free list,     *)
(* packed arrays and masks agree, data stays with its entity, and a handle *)
(* whose entity is gone is dead until the generations of its slot have     *)
(* come round (Ecs.h World).                                               *)
THEOREM EcsCorrect == EcsSpec => []EcsInv
BY EcsInvariant, InvGivesEcsInv, PTL

-----------------------------------------------------------------------------
(***************************************************************************)
(* The ring of frames in flight.                                           *)
(***************************************************************************)
(* Every set of naturals has a least element: finite sets are well founded *)
(* under inclusion, and so are the intervals up to its members.            *)
LEMMA LeastNumber ==
    ASSUME NEW T, T \subseteq Nat, T # {}
    PROVE  \E m \in T : \A k \in T : m <= k
<1>1. PICK U : U = { 0 .. t : t \in T }
  OBVIOUS
<1>2. U \subseteq FiniteSubsetsOf(Nat) /\ U # {}
  <2>1. \A t \in T : IsFiniteSet(0 .. t) /\ 0 .. t \in SUBSET Nat
    BY FS_Interval
  <2> QED
    BY <1>1, <2>1 DEF FiniteSubsetsOf
<1>3. PICK x \in U : \A y \in U : ~(<< y, x >> \in StrictSubsetOrdering(Nat))
  BY <1>2, FS_StrictSubsetOrderingWellFounded, WFMin
<1>4. PICK m \in T : x = 0 .. m
  BY <1>1, <1>3
<1>5. ASSUME NEW k \in T, k < m PROVE FALSE
  <2>1. 0 .. k \in U /\ 0 .. k \subseteq x /\ 0 .. k # x
    BY <1>1, <1>4, <1>5
  <2>2. << 0 .. k, x >> \in StrictSubsetOrdering(Nat)
    BY <2>1, <1>2 DEF StrictSubsetOrdering, FiniteSubsetsOf
  <2> QED
    BY <1>3, <2>1, <2>2
<1> QED
  BY <1>5

(* The greatest element of a bounded set of numbers.                       *)
LEMMA GreatestNumber ==
    ASSUME NEW S, S \subseteq Nat, S # {}, NEW b \in Nat, \A x \in S : x <= b
    PROVE  Max(S) \in S /\ \A y \in S : y <= Max(S)
<1>1. PICK T : T = { b - x : x \in S }
  OBVIOUS
<1>2. T \subseteq Nat /\ T # {}
  <2>1. \A x \in S : b - x \in Nat
    OBVIOUS
  <2> QED
    BY <1>1, <2>1
<1>3. PICK m \in T : \A k \in T : m <= k
  BY <1>2, LeastNumber
<1>4. PICK x \in S : m = b - x
  BY <1>1, <1>3
<1>5. \A y \in S : x >= y
  <2> SUFFICES ASSUME NEW y \in S PROVE x >= y
    OBVIOUS
  <2>1. b - y \in T
    BY <1>1
  <2>2. b - x <= b - y
    BY <1>3, <1>4, <2>1
  <2> QED
    BY <2>2
<1>6. Max(S) \in S /\ \A y \in S : Max(S) >= y
  BY <1>5 DEF Max
<1> QED
  BY <1>6

LEMMA GreatestIs ==
    ASSUME NEW S, S \subseteq Nat, NEW b \in S, \A x \in S : x <= b
    PROVE  Max(S) = b
<1>1. S # {} /\ b \in Nat
  OBVIOUS
<1>2. PICK m : m = Max(S)
  OBVIOUS
<1>3. m \in S /\ \A y \in S : y <= m
  BY <1>1, <1>2, GreatestNumber
<1>4. m <= b /\ b <= m /\ m \in Nat
  BY <1>3
<1>5. m = b
  BY <1>1, <1>4
<1> QED
  BY <1>2, <1>5

-----------------------------------------------------------------------------
(* Command lists.                                                          *)

States == {"COMMON", "PRESENT", "TARGET", "SHADER"}
Commands == [op : {"barrier", "draw"}, into : Resources, reads : SUBSET Resources,
             before : States \cup {"clear", "hdr", "ldr"}, after : States \cup {"clear", "hdr", "ldr"}]
IsBarrier(c, r) == c.op = "barrier" /\ c.into = r

(* A command appended has its effect on what the list before it leaves.    *)
LEMMA ExecutedAppend ==
    ASSUME NEW st, NEW cl \in Seq(Commands), NEW c \in Commands, NEW r \in Resources
    PROVE  Executed(st, Append(cl, c))[r] =
               IF IsBarrier(c, r) THEN c.after ELSE Executed(st, cl)[r]
<1>1. PICK n \in Nat : n = Len(cl)
  OBVIOUS
<1>2. PICK l : l = Append(cl, c)
  OBVIOUS
<1>3. /\ DOMAIN cl = 1 .. n /\ DOMAIN l = 1 .. n + 1
      /\ \A i \in 1 .. n : l[i] = cl[i]
      /\ l[n + 1] = c
  BY <1>1, <1>2, AppendProperties
<1>4. PICK B, D : B = Barriers(cl, r) /\ D = Barriers(l, r)
  OBVIOUS
<1>5. /\ B \subseteq 1 .. n
      /\ D = B \cup (IF IsBarrier(c, r) THEN {n + 1} ELSE {})
  BY <1>3, <1>4 DEF Barriers, IsBarrier
<1>6. /\ Executed(st, l)[r] = IF D = {} THEN st[r] ELSE l[Max(D)].after
      /\ Executed(st, cl)[r] = IF B = {} THEN st[r] ELSE cl[Max(B)].after
  BY <1>4 DEF Executed
<1>7. CASE IsBarrier(c, r)
  <2>1. n + 1 \in D /\ D \subseteq Nat /\ \A x \in D : x <= n + 1
    BY <1>5, <1>7
  <2>2. Max(D) = n + 1
    BY <2>1, GreatestIs
  <2> QED
    BY <1>2, <1>3, <1>6, <1>7, <2>1, <2>2
<1>8. CASE ~IsBarrier(c, r)
  <2>1. D = B
    BY <1>5, <1>8
  <2>2. CASE B # {}
    <3>1. B \subseteq Nat /\ \A x \in B : x <= n
      BY <1>5
    <3>2. Max(B) \in 1 .. n
      BY <1>5, <2>2, <3>1, GreatestNumber
    <3> QED
      BY <1>2, <1>3, <1>6, <1>8, <2>1, <2>2, <3>2
  <2> QED
    BY <1>2, <1>6, <1>8, <2>1, <2>2
<1> QED
  BY <1>7, <1>8

LEMMA ExecutedNothing ==
    ASSUME NEW st, NEW r \in Resources
    PROVE  Executed(st, << >>)[r] = st[r]
BY DEF Executed, Barriers

(* What one command needs of the states it finds.                          *)
FindsRight(now, c) ==
    IF c.op = "barrier" THEN now[c.into] = c.before
    ELSE /\ now[c.into] = "TARGET"
         /\ \A r \in c.reads : now[r] = "SHADER" /\ r # c.into

LEMMA CleanAppend ==
    ASSUME NEW st, NEW cl \in Seq(Commands), NEW c \in Commands,
           ExecutesCleanly(st, cl), FindsRight(Executed(st, cl), c)
    PROVE  ExecutesCleanly(st, Append(cl, c))
<1>1. PICK n \in Nat : n = Len(cl)
  OBVIOUS
<1>2. PICK l : l = Append(cl, c)
  OBVIOUS
<1>3. /\ DOMAIN cl = 1 .. n /\ DOMAIN l = 1 .. n + 1
      /\ \A i \in 1 .. n : l[i] = cl[i]
      /\ l[n + 1] = c /\ l \in Seq(Commands) /\ Len(l) = n + 1
  BY <1>1, <1>2, AppendProperties
<1>4. \A i \in 1 .. n + 1 : SubSeq(l, 1, i - 1) = SubSeq(cl, 1, i - 1)
  BY <1>1, <1>3
<1>5. SubSeq(cl, 1, n) = cl
  BY <1>1
<1>6. ASSUME NEW i \in 1 .. n + 1
      PROVE  FindsRight(Executed(st, SubSeq(l, 1, i - 1)), l[i])
  <2>1. CASE i = n + 1
    <3>1. i - 1 = n
      BY <2>1
    <3>2. SubSeq(l, 1, i - 1) = cl /\ l[i] = c
      BY <1>3, <1>4, <1>5, <2>1, <3>1
    <3> QED
      BY <3>2
  <2>2. CASE i # n + 1
    <3>1. i \in 1 .. n
      BY <2>2
    <3>2. FindsRight(Executed(st, SubSeq(cl, 1, i - 1)), cl[i])
      BY <1>3, <3>1 DEF ExecutesCleanly, FindsRight
    <3>3. l[i] = cl[i] /\ SubSeq(l, 1, i - 1) = SubSeq(cl, 1, i - 1)
      BY <1>3, <1>4, <3>1
    <3>4. PICK now, d : now = Executed(st, SubSeq(l, 1, i - 1)) /\ d = l[i]
      OBVIOUS
    <3>5. now = Executed(st, SubSeq(cl, 1, i - 1)) /\ d = cl[i]
      BY <3>3, <3>4, Zenon
    <3>6. FindsRight(now, d)
      BY <3>2, <3>5, Zenon
    <3> QED
      BY <3>4, <3>6, Zenon
  <2> QED
    BY <2>1, <2>2
<1> QED
  BY <1>2, <1>3, <1>6 DEF ExecutesCleanly, FindsRight

-----------------------------------------------------------------------------
(* What the lists in flight leave.                                         *)

Touching(q, i, r) == { j \in 1 .. i - 1 : Barriers(q[j].cl, r) # {} }
ReachedIn(q, act, i) ==
    [r \in Resources |->
        IF Touching(q, i, r) = {} THEN act[r] ELSE Executed(act, q[Max(Touching(q, i, r))].cl)[r]]

LEMMA ReachedIsIn ==
    ASSUME NEW i PROVE Reached(i) = ReachedIn(queue, actual, i)
BY DEF Reached, ReachedIn, Touching

(* With a barrier in the list, what was before does not matter.            *)
LEMMA BarrierDecides ==
    ASSUME NEW st, NEW other, NEW cl, NEW r \in Resources, Barriers(cl, r) # {}
    PROVE  Executed(st, cl)[r] = Executed(other, cl)[r]
BY DEF Executed

LEMMA NoBarrierKeeps ==
    ASSUME NEW st, NEW cl, NEW r \in Resources, Barriers(cl, r) = {}
    PROVE  Executed(st, cl)[r] = st[r]
BY DEF Executed

LEMMA ReachedStart ==
    ASSUME NEW q, NEW act \in [Resources -> States]
    PROVE  ReachedIn(q, act, 1) = act
<1>1. \A r \in Resources : Touching(q, 1, r) = {}
  BY DEF Touching
<1>2. \A r \in Resources : ReachedIn(q, act, 1)[r] = act[r]
  BY <1>1 DEF ReachedIn
<1> QED
  BY <1>2 DEF ReachedIn

(* One list further.                                                       *)
LEMMA ReachedStep ==
    ASSUME NEW q, NEW act, NEW i \in Nat \ {0}
    PROVE  ReachedIn(q, act, i + 1) = Executed(ReachedIn(q, act, i), q[i].cl)
<1>1. ASSUME NEW r \in Resources
      PROVE  ReachedIn(q, act, i + 1)[r] = Executed(ReachedIn(q, act, i), q[i].cl)[r]
  <2>1. PICK A, B : A = Touching(q, i, r) /\ B = Touching(q, i + 1, r)
    OBVIOUS
  <2>2. A \subseteq 1 .. i - 1
    BY <2>1 DEF Touching
  <2>3. B = A \cup (IF Barriers(q[i].cl, r) # {} THEN {i} ELSE {})
    BY <2>1 DEF Touching
  <2>4. /\ ReachedIn(q, act, i)[r] = IF A = {} THEN act[r] ELSE Executed(act, q[Max(A)].cl)[r]
        /\ ReachedIn(q, act, i + 1)[r] = IF B = {} THEN act[r] ELSE Executed(act, q[Max(B)].cl)[r]
    BY <2>1 DEF ReachedIn
  <2>5. CASE Barriers(q[i].cl, r) # {}
    <3>1. i \in B /\ B \subseteq Nat /\ \A x \in B : x <= i
      BY <2>2, <2>3, <2>5
    <3>2. Max(B) = i
      BY <3>1, GreatestIs
    <3>3. ReachedIn(q, act, i + 1)[r] = Executed(act, q[i].cl)[r]
      BY <2>4, <3>1, <3>2
    <3>4. PICK st, cl : st = ReachedIn(q, act, i) /\ cl = q[i].cl
      OBVIOUS
    <3>5. Executed(act, cl)[r] = Executed(st, cl)[r]
      BY <2>5, <3>4, BarrierDecides
    <3> QED
      BY <3>3, <3>4, <3>5
  <2>6. CASE Barriers(q[i].cl, r) = {}
    <3>1. ReachedIn(q, act, i + 1)[r] = ReachedIn(q, act, i)[r]
      BY <2>3, <2>4, <2>6
    <3>2. PICK st, cl : st = ReachedIn(q, act, i) /\ cl = q[i].cl
      OBVIOUS
    <3>3. Executed(st, cl)[r] = st[r]
      BY <2>6, <3>2, NoBarrierKeeps
    <3> QED
      BY <3>1, <3>2, <3>3
  <2> QED
    BY <2>5, <2>6
<1>2. /\ ReachedIn(q, act, i + 1) = [r \in Resources |-> ReachedIn(q, act, i + 1)[r]]
      /\ Executed(ReachedIn(q, act, i), q[i].cl)
            = [r \in Resources |-> Executed(ReachedIn(q, act, i), q[i].cl)[r]]
  BY DEF ReachedIn, Executed
<1> QED
  BY <1>1, <1>2

LEMMA ReachedAppend ==
    ASSUME NEW T, NEW q \in Seq(T), NEW e, NEW act, NEW i \in 1 .. Len(q) + 1
    PROVE  ReachedIn(Append(q, e), act, i) = ReachedIn(q, act, i)
<1>1. ASSUME NEW r \in Resources
      PROVE  /\ Touching(Append(q, e), i, r) = Touching(q, i, r)
             /\ Touching(q, i, r) # {} =>
                    Append(q, e)[Max(Touching(q, i, r))] = q[Max(Touching(q, i, r))]
  <2>1. \A j \in 1 .. i - 1 : Append(q, e)[j] = q[j]
    OBVIOUS
  <2>2. Touching(Append(q, e), i, r) = Touching(q, i, r)
    BY <2>1 DEF Touching
  <2>3. PICK A : A = Touching(q, i, r)
    OBVIOUS
  <2>4. A \subseteq 1 .. i - 1
    BY <2>3 DEF Touching
  <2>5. ASSUME A # {} PROVE Append(q, e)[Max(A)] = q[Max(A)]
    <3>1. A \subseteq Nat /\ i \in Nat /\ \A x \in A : x <= i
      BY <2>4
    <3>2. Max(A) \in 1 .. i - 1
      BY <2>4, <2>5, <3>1, GreatestNumber
    <3> QED
      BY <2>1, <3>2
  <2> QED
    BY <2>2, <2>3, <2>5
<1> QED
  BY <1>1 DEF ReachedIn

LEMMA ExecutedTyped ==
    ASSUME NEW st \in [Resources -> States], NEW cl \in Seq(Commands),
           \A i \in DOMAIN cl : cl[i].op = "barrier" => cl[i].after \in States
    PROVE  Executed(st, cl) \in [Resources -> States]
<1>1. ASSUME NEW r \in Resources PROVE Executed(st, cl)[r] \in States
  <2>1. PICK B : B = Barriers(cl, r)
    OBVIOUS
  <2>2. B \subseteq DOMAIN cl /\ \A i \in B : cl[i].op = "barrier"
    BY <2>1 DEF Barriers
  <2>3. Executed(st, cl)[r] = IF B = {} THEN st[r] ELSE cl[Max(B)].after
    BY <2>1 DEF Executed
  <2>4. CASE B # {}
    <3>1. B \subseteq Nat /\ Len(cl) \in Nat /\ \A x \in B : x <= Len(cl)
      BY <2>2
    <3>2. Max(B) \in B
      BY <2>4, <3>1, GreatestNumber
    <3> QED
      BY <2>2, <2>3, <2>4, <3>2
  <2> QED
    BY <2>3, <2>4
<1> QED
  BY <1>1 DEF Executed

(* The lists after the first reach, from what the first leaves, what they  *)
(* reached with it.                                                        *)
LEMMA ReachedTail ==
    ASSUME NEW T, NEW q \in Seq(T), q # << >>, NEW act \in [Resources -> States],
           Executed(act, Head(q).cl) \in [Resources -> States],
           NEW n \in 1 .. Len(q)
    PROVE  ReachedIn(Tail(q), Executed(act, Head(q).cl), n) = ReachedIn(q, act, n + 1)
<1>1. PICK t, a : t = Tail(q) /\ a = Executed(act, Head(q).cl)
  OBVIOUS
<1>2. \A j \in 1 .. Len(q) - 1 : t[j] = q[j + 1]
  BY <1>1
<1>3. PICK W : W = { i \in 1 .. Len(q) : ReachedIn(t, a, i) # ReachedIn(q, act, i + 1) }
  OBVIOUS
<1>4. ASSUME W # {} PROVE FALSE
  <2>1. PICK m \in W : \A k \in W : m <= k
    <3>1. W \subseteq Nat
      BY <1>3
    <3> QED
      BY <1>4, <3>1, LeastNumber
  <2>2. m \in 1 .. Len(q)
    BY <1>3, <2>1
  <2>3. CASE m = 1
    <3>1. ReachedIn(t, a, 1) = a
      BY <1>1, ReachedStart
    <3>2. ReachedIn(q, act, 1 + 1) = Executed(act, q[1].cl)
      <4>1. ReachedIn(q, act, 1) = act
        BY ReachedStart
      <4>2. 1 \in Nat \ {0}
        OBVIOUS
      <4>3. ReachedIn(q, act, 1 + 1) = Executed(ReachedIn(q, act, 1), q[1].cl)
        BY <4>2, ReachedStep
      <4> QED
        BY <4>1, <4>3
    <3>3. Head(q) = q[1]
      OBVIOUS
    <3>4. ReachedIn(q, act, m + 1) = Executed(act, Head(q).cl)
      BY <2>3, <3>2, <3>3
    <3> QED
      BY <1>1, <1>3, <2>1, <2>3, <3>1, <3>4
  <2>4. CASE m # 1
    <3>1. PICK p \in Nat \ {0} : m = p + 1
      <4>1. m - 1 \in Nat \ {0} /\ m = (m - 1) + 1
        BY <2>2, <2>4
      <4> QED
        BY <4>1
    <3>2. p \in 1 .. Len(q) - 1 /\ p \notin W
      <4>1. p < m /\ p \in 1 .. Len(q) - 1
        BY <2>2, <3>1
      <4>2. ~(m <= p)
        BY <2>2, <3>1
      <4> QED
        BY <2>1, <4>1, <4>2
    <3>3. ReachedIn(t, a, p) = ReachedIn(q, act, p + 1) /\ t[p] = q[p + 1]
      BY <1>2, <1>3, <3>2
    <3>4. ReachedIn(t, a, p + 1) = Executed(ReachedIn(t, a, p), t[p].cl)
      BY <3>1, ReachedStep
    <3>5. p + 1 \in Nat \ {0}
      BY <3>1
    <3>6. ReachedIn(q, act, (p + 1) + 1) = Executed(ReachedIn(q, act, p + 1), q[p + 1].cl)
      BY <3>5, ReachedStep
    <3> QED
      BY <1>3, <2>1, <3>1, <3>3, <3>4, <3>6
  <2> QED
    BY <2>3, <2>4
<1> QED
  BY <1>1, <1>3, <1>4

-----------------------------------------------------------------------------
(* The recording of a frame that finds the resources in the states st.     *)

Fmt(c) == c.op = "draw" /\ c.before # "clear" => c.before = (IF c.into \in Targets THEN "hdr" ELSE "ldr")
Formatted(cl) == \A k \in DOMAIN cl : Fmt(cl[k])
Sound(cl) == \A k \in DOMAIN cl : cl[k].op = "barrier" => cl[k].after \in States

(* The list so far executes cleanly; the back buffer of the slot is the    *)
(* render target, the others are untouched.                                   *)
Tracks(st, acc, back) ==
    /\ acc \in [cl : Seq(Commands), tracked : [Targets -> States]]
    /\ Sound(acc.cl)
    /\ ExecutesCleanly(st, acc.cl)
    /\ \A s \in Slots : Executed(st, acc.cl)[Back(s)] = IF s = back THEN "TARGET" ELSE st[Back(s)]

Tracked(st, acc) == \A t \in Targets : Executed(st, acc.cl)[t] = acc.tracked[t]
Follows(st, acc, back) == Tracks(st, acc, back) /\ Tracked(st, acc)

LEMMA Distinct ==
    /\ Hdr # BloomA /\ Hdr # BloomB /\ BloomA # BloomB
    /\ \A s, t : Back(s) = Back(t) => s = t
    /\ \A s : Back(s) \notin Targets
    /\ \A s \in Slots : Back(s) \in Resources
    /\ Targets \subseteq Resources
    /\ \A r \in Resources : r \in Targets \/ \E s \in Slots : r = Back(s)
BY DEF Hdr, BloomA, BloomB, Back, Targets, Resources

LEMMA CommandsAre ==
    /\ \A r \in Resources, a, b \in States : Barrier(r, a, b) \in Commands
    /\ \A r \in Resources, S \in SUBSET Resources, f \in {"clear", "hdr", "ldr"} : Draw(r, S, f) \in Commands
BY DEF Barrier, Draw, Commands

LEMMA AppendKeeps ==
    ASSUME NEW cl \in Seq(Commands), NEW c \in Commands
    PROVE  /\ Append(cl, c) \in Seq(Commands)
           /\ Sound(cl) /\ (c.op = "barrier" => c.after \in States) => Sound(Append(cl, c))
           /\ Formatted(cl) /\ Fmt(c) => Formatted(Append(cl, c))
<1>1. PICK l : l = Append(cl, c)
  OBVIOUS
<1>2. /\ l \in Seq(Commands) /\ DOMAIN l = 1 .. Len(cl) + 1 /\ DOMAIN cl = 1 .. Len(cl) /\ Len(cl) \in Nat
      /\ l[Len(cl) + 1] = c /\ \A k \in 1 .. Len(cl) : l[k] = cl[k]
  BY <1>1, AppendProperties
<1>3. \A k \in DOMAIN l : (k \in DOMAIN cl /\ l[k] = cl[k]) \/ l[k] = c
  BY <1>2
<1>4. Sound(cl) /\ (c.op = "barrier" => c.after \in States) => Sound(l)
  BY <1>3 DEF Sound
<1>5. Formatted(cl) /\ Fmt(c) => Formatted(l)
  <2>1. SUFFICES ASSUME Formatted(cl), Fmt(c), NEW k \in DOMAIN l PROVE Fmt(l[k])
    BY DEF Formatted
  <2>2. CASE l[k] = c
    BY <2>1, <2>2
  <2>3. CASE l[k] # c
    BY <1>3, <2>1, <2>3 DEF Formatted
  <2> QED
    BY <2>2, <2>3
<1> QED
  BY <1>1, <1>2, <1>4, <1>5

(* A target brought into a state: one barrier from the state it is in.     *)
LEMMA ToTracks ==
    ASSUME NEW st, NEW acc, NEW back \in Slots,
           Follows(st, acc, back), NEW t \in Targets, NEW state \in States
    PROVE  /\ Follows(st, To(acc, t, state), back)
           /\ To(acc, t, state).tracked = [acc.tracked EXCEPT ![t] = state]
           /\ Formatted(acc.cl) => Formatted(To(acc, t, state).cl)
<1>1. CASE acc.tracked[t] = state
  <2>1. To(acc, t, state) = acc /\ [acc.tracked EXCEPT ![t] = state] = acc.tracked
    BY <1>1 DEF To, Follows, Tracks
  <2> QED
    BY <2>1
<1>2. CASE acc.tracked[t] # state
  <2>1. PICK c, cl, tr : c = Barrier(t, acc.tracked[t], state) /\ cl = acc.cl /\ tr = [acc.tracked EXCEPT ![t] = state]
    OBVIOUS
  <2>2. PICK n : n = To(acc, t, state)
    OBVIOUS
  <2>3. n = [cl |-> Append(cl, c), tracked |-> tr]
    BY <1>2, <2>1, <2>2 DEF To
  <2>4. c \in Commands /\ acc.tracked[t] \in States
    BY <2>1, CommandsAre, Distinct DEF Follows, Tracks, Tracked
  <2>5. /\ cl \in Seq(Commands) /\ Sound(cl) /\ ExecutesCleanly(st, cl)
        /\ \A s \in Slots : Executed(st, cl)[Back(s)] = IF s = back THEN "TARGET" ELSE st[Back(s)]
        /\ \A u \in Targets : Executed(st, cl)[u] = acc.tracked[u]
        /\ acc.tracked \in [Targets -> States]
    BY <2>1 DEF Follows, Tracks, Tracked
  <2>6. c.op = "barrier" /\ c.into = t /\ c.before = acc.tracked[t] /\ c.after = state
    BY <2>1 DEF Barrier
  <2>7. FindsRight(Executed(st, cl), c)
    BY <2>5, <2>6 DEF FindsRight
  <2>8. ExecutesCleanly(st, Append(cl, c))
    BY <2>4, <2>5, <2>7, CleanAppend
  <2>9. Append(cl, c) \in Seq(Commands) /\ Sound(Append(cl, c))
    BY <2>4, <2>5, <2>6, AppendKeeps
  <2>10. \A r \in Resources : Executed(st, Append(cl, c))[r] = IF r = t THEN state ELSE Executed(st, cl)[r]
    BY <2>4, <2>5, <2>6, ExecutedAppend DEF IsBarrier
  <2>11. tr \in [Targets -> States] /\ \A u \in Targets : tr[u] = IF u = t THEN state ELSE acc.tracked[u]
    BY <2>1, <2>5
  <2>12. \A s \in Slots : Executed(st, Append(cl, c))[Back(s)] = IF s = back THEN "TARGET" ELSE st[Back(s)]
    BY <2>5, <2>10, Distinct
  <2>13. \A u \in Targets : Executed(st, Append(cl, c))[u] = tr[u]
    BY <2>5, <2>10, <2>11, Distinct
  <2>14. Follows(st, n, back)
    BY <2>3, <2>8, <2>9, <2>11, <2>12, <2>13 DEF Follows, Tracks, Tracked
  <2>15. Formatted(cl) => Formatted(n.cl)
    <3>1. Fmt(c)
      BY <2>6 DEF Fmt
    <3> QED
      BY <2>3, <2>4, <2>5, <3>1, AppendKeeps
  <2> QED
    BY <2>1, <2>2, <2>3, <2>14, <2>15
<1> QED
  BY <1>1, <1>2

(* A draw changes no state.                                                *)
LEMMA DrawnTracks ==
    ASSUME NEW st, NEW acc, NEW back \in Slots,
           Tracks(st, acc, back), NEW into \in Resources, NEW reads \in SUBSET Resources,
           NEW format \in {"clear", "hdr", "ldr"},
           Executed(st, acc.cl)[into] = "TARGET",
           \A r \in reads : Executed(st, acc.cl)[r] = "SHADER"
    PROVE  /\ Tracks(st, Drawn(acc, into, reads, format), back)
           /\ Tracked(st, acc) => Tracked(st, Drawn(acc, into, reads, format))
           /\ Drawn(acc, into, reads, format) = [cl |-> Append(acc.cl, Draw(into, reads, format)), tracked |-> acc.tracked]
           /\ Formatted(acc.cl) /\ Fmt(Draw(into, reads, format)) => Formatted(Drawn(acc, into, reads, format).cl)
<1>1. PICK c, cl, n : c = Draw(into, reads, format) /\ cl = acc.cl /\ n = Drawn(acc, into, reads, format)
  OBVIOUS
<1>2. n = [cl |-> Append(cl, c), tracked |-> acc.tracked]
  <2>1. n = [acc EXCEPT !.cl = Append(@, c)]
    BY <1>1 DEF Drawn
  <2>2. PICK tr : tr = acc.tracked
    OBVIOUS
  <2>3. acc = [cl |-> cl, tracked |-> tr]
    BY <1>1, <2>2 DEF Tracks
  <2>4. n = [[cl |-> cl, tracked |-> tr] EXCEPT !.cl = Append(@, c)]
    BY <2>1, <2>3, Zenon
  <2>5. n = [cl |-> Append(cl, c), tracked |-> tr]
    BY <2>4
  <2> QED
    BY <2>2, <2>5
<1>3. c \in Commands /\ c.op = "draw" /\ c.into = into /\ c.reads = reads
  BY <1>1, CommandsAre DEF Draw
<1>4. /\ cl \in Seq(Commands) /\ Sound(cl) /\ ExecutesCleanly(st, cl)
      /\ \A s \in Slots : Executed(st, cl)[Back(s)] = IF s = back THEN "TARGET" ELSE st[Back(s)]
      /\ acc.tracked \in [Targets -> States]
  BY <1>1 DEF Tracks
<1>5. FindsRight(Executed(st, cl), c)
  BY <1>1, <1>3 DEF FindsRight
<1>6. ExecutesCleanly(st, Append(cl, c))
  BY <1>3, <1>4, <1>5, CleanAppend
<1>7. /\ Append(cl, c) \in Seq(Commands) /\ Sound(Append(cl, c))
      /\ Formatted(cl) /\ Fmt(c) => Formatted(Append(cl, c))
  BY <1>3, <1>4, AppendKeeps
<1>8. \A r \in Resources : Executed(st, Append(cl, c))[r] = Executed(st, cl)[r]
  BY <1>3, <1>4, ExecutedAppend DEF IsBarrier
<1>10. Tracked(st, acc) => Tracked(st, n)
  BY <1>1, <1>2, <1>8, Distinct DEF Tracked
<1>9. Tracks(st, n, back)
  BY <1>2, <1>4, <1>6, <1>7, <1>8, Distinct DEF Tracks
<1> QED
  BY <1>1, <1>2, <1>7, <1>9, <1>10

(* A pass: the target becomes one, shader resources are read.              *)
LEMMA PassTracks ==
    ASSUME NEW st, NEW acc, NEW back \in Slots,
           Follows(st, acc, back), NEW dst \in Targets, NEW src \in Targets, NEW src2 \in Targets,
           src # dst, src2 # dst, acc.tracked[src] = "SHADER", acc.tracked[src2] = "SHADER"
    PROVE  /\ Follows(st, DrawFullscreen(acc, dst, src, src2), back)
           /\ DrawFullscreen(acc, dst, src, src2).tracked = [acc.tracked EXCEPT ![dst] = "TARGET"]
           /\ Formatted(acc.cl) => Formatted(DrawFullscreen(acc, dst, src, src2).cl)
<1>1. PICK a : a = To(acc, dst, "TARGET")
  OBVIOUS
<1>2. /\ Follows(st, a, back) /\ a.tracked = [acc.tracked EXCEPT ![dst] = "TARGET"]
      /\ Formatted(acc.cl) => Formatted(a.cl)
  <2>1. "TARGET" \in States
    BY DEF States
  <2> QED
    BY <1>1, <2>1, ToTracks
<1>3. a.tracked[dst] = "TARGET" /\ a.tracked[src] = "SHADER" /\ a.tracked[src2] = "SHADER"
  <2>1. acc.tracked \in [Targets -> States]
    BY DEF Follows, Tracks, Tracked
  <2> QED
    BY <1>2, <2>1
<1>4. Executed(st, a.cl)[dst] = "TARGET" /\ \A r \in {src, src2} : Executed(st, a.cl)[r] = "SHADER"
  BY <1>2, <1>3 DEF Follows, Tracks, Tracked
<1>5. dst \in Resources /\ {src, src2} \in SUBSET Resources /\ "hdr" \in {"clear", "hdr", "ldr"}
  BY Distinct
<1>6. PICK n : n = Drawn(a, dst, {src, src2}, "hdr")
  OBVIOUS
<1>7. /\ Follows(st, n, back)
      /\ n = [cl |-> Append(a.cl, Draw(dst, {src, src2}, "hdr")), tracked |-> a.tracked]
      /\ Formatted(a.cl) /\ Fmt(Draw(dst, {src, src2}, "hdr")) => Formatted(n.cl)
  <2>1. Tracks(st, a, back) /\ Tracked(st, a)
    BY <1>2 DEF Follows
  <2>2. Tracks(st, n, back) /\ (Tracked(st, a) => Tracked(st, n))
    BY <1>4, <1>5, <1>6, <2>1, DrawnTracks
  <2>3. n = [cl |-> Append(a.cl, Draw(dst, {src, src2}, "hdr")), tracked |-> a.tracked]
    <3>1. PICK l, tr : l = a.cl /\ tr = a.tracked
      OBVIOUS
    <3>2. a = [cl |-> l, tracked |-> tr]
      BY <2>1, <3>1 DEF Tracks
    <3>3. n = [[cl |-> l, tracked |-> tr] EXCEPT !.cl = Append(@, Draw(dst, {src, src2}, "hdr"))]
      BY <1>6, <3>2, Zenon DEF Drawn
    <3>4. n = [cl |-> Append(l, Draw(dst, {src, src2}, "hdr")), tracked |-> tr]
      BY <3>3
    <3> QED
      BY <3>1, <3>4
  <2>4. Formatted(a.cl) /\ Fmt(Draw(dst, {src, src2}, "hdr")) => Formatted(n.cl)
    <3> DEFINE d == Draw(dst, {src, src2}, "hdr")
    <3>1. a.cl \in Seq(Commands) /\ d \in Commands /\ n.cl = Append(a.cl, d)
      BY <1>5, <2>1, <2>3, CommandsAre DEF Tracks
    <3> HIDE DEF d
    <3>2. Formatted(a.cl) /\ Fmt(d) => Formatted(n.cl)
      BY <3>1, AppendKeeps
    <3> QED
      BY <3>2 DEF d
  <2> QED
    BY <2>1, <2>2, <2>3, <2>4 DEF Follows
<1>8. Fmt(Draw(dst, {src, src2}, "hdr")) /\ n.tracked = a.tracked
  BY <1>7 DEF Fmt, Draw
<1>9. n = DrawFullscreen(acc, dst, src, src2)
  BY <1>1, <1>6 DEF DrawFullscreen
<1> QED
  BY <1>2, <1>7, <1>8, <1>9

LEMMA ResolveTracks ==
    ASSUME NEW st, NEW acc, m_frameIndex \in Slots,
           Follows(st, acc, m_frameIndex)
    PROVE  /\ Follows(st, Resolve(acc), m_frameIndex)
           /\ Formatted(acc.cl) => Formatted(Resolve(acc).cl)
<1> DEFINE back == m_frameIndex
<1>0. /\ Hdr \in Targets /\ BloomA \in Targets /\ BloomB \in Targets
      /\ Hdr # BloomA /\ Hdr # BloomB /\ BloomA # BloomB /\ "SHADER" \in States /\ "TARGET" \in States
      /\ Back(back) \in Resources /\ Back(back) \notin Targets /\ {Hdr, BloomA} \in SUBSET Resources
  BY Distinct DEF Targets, States
<1>1. PICK a1, a, b1, b, c1, c, d, e :
        /\ a1 = To(acc, Hdr, "SHADER") /\ a = DrawFullscreen(a1, BloomA, Hdr, Hdr)
        /\ b1 = To(a, BloomA, "SHADER") /\ b = DrawFullscreen(b1, BloomB, BloomA, Hdr)
        /\ c1 = To(b, BloomB, "SHADER") /\ c = DrawFullscreen(c1, BloomA, BloomB, Hdr)
        /\ d = To(c, BloomA, "SHADER") /\ e = Drawn(d, Back(m_frameIndex), {Hdr, BloomA}, "ldr")
  OBVIOUS
<1>2. e = Resolve(acc)
  BY <1>1 DEF Resolve
<1> HIDE DEF back
<1>3. Follows(st, acc, back) /\ back \in Slots
  BY DEF back
<1>4. acc.tracked \in [Targets -> States]
  BY <1>3 DEF Follows, Tracks, Tracked
<1>5. /\ Follows(st, a1, back) /\ (Formatted(acc.cl) => Formatted(a1.cl))
      /\ a1.tracked = [acc.tracked EXCEPT ![Hdr] = "SHADER"]
  BY <1>0, <1>1, <1>3, ToTracks
<1>6. a1.tracked \in [Targets -> States] /\ a1.tracked[Hdr] = "SHADER"
  BY <1>0, <1>4, <1>5
<1>7. /\ Follows(st, a, back) /\ (Formatted(a1.cl) => Formatted(a.cl))
      /\ a.tracked = [a1.tracked EXCEPT ![BloomA] = "TARGET"]
  BY <1>0, <1>1, <1>3, <1>5, <1>6, PassTracks
<1>8. a.tracked \in [Targets -> States] /\ a.tracked[Hdr] = "SHADER"
  BY <1>0, <1>6, <1>7
<1>9. /\ Follows(st, b1, back) /\ (Formatted(a.cl) => Formatted(b1.cl))
      /\ b1.tracked = [a.tracked EXCEPT ![BloomA] = "SHADER"]
  BY <1>0, <1>1, <1>3, <1>7, ToTracks
<1>10. b1.tracked \in [Targets -> States] /\ b1.tracked[Hdr] = "SHADER" /\ b1.tracked[BloomA] = "SHADER"
  BY <1>0, <1>8, <1>9
<1>11. /\ Follows(st, b, back) /\ (Formatted(b1.cl) => Formatted(b.cl))
       /\ b.tracked = [b1.tracked EXCEPT ![BloomB] = "TARGET"]
  BY <1>0, <1>1, <1>3, <1>9, <1>10, PassTracks
<1>12. b.tracked \in [Targets -> States] /\ b.tracked[Hdr] = "SHADER"
  BY <1>0, <1>10, <1>11
<1>13. /\ Follows(st, c1, back) /\ (Formatted(b.cl) => Formatted(c1.cl))
       /\ c1.tracked = [b.tracked EXCEPT ![BloomB] = "SHADER"]
  BY <1>0, <1>1, <1>3, <1>11, ToTracks
<1>14. c1.tracked \in [Targets -> States] /\ c1.tracked[Hdr] = "SHADER" /\ c1.tracked[BloomB] = "SHADER"
  BY <1>0, <1>12, <1>13
<1>15. /\ Follows(st, c, back) /\ (Formatted(c1.cl) => Formatted(c.cl))
       /\ c.tracked = [c1.tracked EXCEPT ![BloomA] = "TARGET"]
  BY <1>0, <1>1, <1>3, <1>13, <1>14, PassTracks
<1>16. c.tracked \in [Targets -> States] /\ c.tracked[Hdr] = "SHADER"
  BY <1>0, <1>14, <1>15
<1>17. /\ Follows(st, d, back) /\ (Formatted(c.cl) => Formatted(d.cl))
       /\ d.tracked = [c.tracked EXCEPT ![BloomA] = "SHADER"]
  BY <1>0, <1>1, <1>3, <1>15, ToTracks
<1>18. d.tracked[Hdr] = "SHADER" /\ d.tracked[BloomA] = "SHADER"
  BY <1>0, <1>16, <1>17
<1>19. Executed(st, d.cl)[Back(back)] = "TARGET" /\ \A r \in {Hdr, BloomA} : Executed(st, d.cl)[r] = "SHADER"
  BY <1>0, <1>3, <1>17, <1>18 DEF Follows, Tracks, Tracked
<1>20. e = Drawn(d, Back(back), {Hdr, BloomA}, "ldr") /\ "ldr" \in {"clear", "hdr", "ldr"}
  BY <1>1 DEF back
<1>21. /\ Follows(st, e, back)
       /\ Formatted(d.cl) /\ Fmt(Draw(Back(back), {Hdr, BloomA}, "ldr")) => Formatted(e.cl)
  <2>1. Tracks(st, d, back) /\ Tracked(st, d)
    BY <1>17 DEF Follows
  <2>2. /\ Tracks(st, e, back) /\ (Tracked(st, d) => Tracked(st, e))
        /\ Formatted(d.cl) /\ Fmt(Draw(Back(back), {Hdr, BloomA}, "ldr")) => Formatted(e.cl)
    BY <1>0, <1>3, <1>19, <1>20, <2>1, DrawnTracks
  <2> QED
    BY <2>1, <2>2 DEF Follows
<1>22. Fmt(Draw(Back(back), {Hdr, BloomA}, "ldr"))
  BY <1>0 DEF Fmt, Draw
<1>23. Formatted(acc.cl) => Formatted(e.cl)
  BY <1>5, <1>7, <1>9, <1>11, <1>13, <1>15, <1>17, <1>21, <1>22
<1> QED
  BY <1>2, <1>21, <1>23 DEF back

LEMMA BeginSceneTracks ==
    ASSUME NEW st, NEW acc, m_frameIndex \in Slots, m_ready \in BOOLEAN, bloom \in BOOLEAN,
           Tracks(st, acc, m_frameIndex), IF m_ready THEN Tracked(st, acc) ELSE TRUE
    PROVE  /\ Tracks(st, BeginScene(acc), m_frameIndex)
           /\ m_ready => Tracked(st, BeginScene(acc))
           /\ (bloom => m_ready) /\ Formatted(acc.cl) => Formatted(BeginScene(acc).cl)
<1>0. /\ Hdr \in Targets /\ Hdr \in Resources /\ {} \in SUBSET Resources /\ "TARGET" \in States
      /\ Back(m_frameIndex) \in Resources /\ Back(m_frameIndex) \notin Targets
  BY Distinct DEF Targets, States
<1>1. CASE m_ready
  <2>1. PICK a, n : a = To(acc, Hdr, "TARGET") /\ n = Drawn(a, Hdr, {}, "hdr")
    OBVIOUS
  <2>2. n = BeginScene(acc)
    BY <1>1, <2>1 DEF BeginScene
  <2>9. Follows(st, acc, m_frameIndex)
    BY <1>1 DEF Follows
  <2>3. /\ Follows(st, a, m_frameIndex) /\ (Formatted(acc.cl) => Formatted(a.cl))
        /\ a.tracked = [acc.tracked EXCEPT ![Hdr] = "TARGET"]
    BY <1>0, <2>1, <2>9, ToTracks
  <2>4. a.tracked[Hdr] = "TARGET"
    <3>1. acc.tracked \in [Targets -> States]
      BY DEF Tracks
    <3> QED
      BY <1>0, <2>3, <3>1
  <2>5. Executed(st, a.cl)[Hdr] = "TARGET" /\ \A r \in {} : Executed(st, a.cl)[r] = "SHADER"
    BY <1>0, <2>3, <2>4 DEF Follows, Tracked
  <2>10. Tracks(st, a, m_frameIndex) /\ Tracked(st, a) /\ "hdr" \in {"clear", "hdr", "ldr"}
    BY <2>3 DEF Follows
  <2>6. /\ Tracks(st, n, m_frameIndex) /\ (Tracked(st, a) => Tracked(st, n))
        /\ Formatted(a.cl) /\ Fmt(Draw(Hdr, {}, "hdr")) => Formatted(n.cl)
    BY <1>0, <2>1, <2>10, <2>5, DrawnTracks
  <2>7. Fmt(Draw(Hdr, {}, "hdr"))
    BY <1>0 DEF Fmt, Draw
  <2> QED
    BY <2>2, <2>3, <2>6, <2>7, <2>10
<1>2. CASE ~m_ready
  <2>1. PICK f, n : f = (IF bloom THEN "hdr" ELSE "ldr") /\ n = Drawn(acc, Back(m_frameIndex), {}, f)
    OBVIOUS
  <2>2. n = BeginScene(acc) /\ f \in {"clear", "hdr", "ldr"}
    BY <1>2, <2>1 DEF BeginScene
  <2>3. Executed(st, acc.cl)[Back(m_frameIndex)] = "TARGET" /\ \A r \in {} : Executed(st, acc.cl)[r] = "SHADER"
    BY DEF Tracks
  <2>4. /\ Tracks(st, n, m_frameIndex)
        /\ Formatted(acc.cl) /\ Fmt(Draw(Back(m_frameIndex), {}, f)) => Formatted(n.cl)
    BY <1>0, <2>1, <2>2, <2>3, DrawnTracks
  <2>5. (bloom => m_ready) => Fmt(Draw(Back(m_frameIndex), {}, f))
    BY <1>0, <1>2, <2>1 DEF Fmt, Draw
  <2> QED
    BY <1>2, <2>2, <2>4, <2>5
<1> QED
  BY <1>1, <1>2

-----------------------------------------------------------------------------
(* The lists of a frame.                                                   *)

FrameStart(back) == << Barrier(Back(back), "PRESENT", "TARGET"), Draw(Back(back), {}, "clear") >>
List(acc) ==
    LET scene == BeginScene(acc)
        post == IF m_ready THEN Resolve(scene) ELSE scene
    IN  Drawn(post, Back(m_frameIndex), {}, "ldr")

(* What a recorded list does, whatever it finds in the back buffers that   *)
(* are not its own: it executes cleanly, presents its back buffer, and     *)
(* leaves the targets in the states tracked.                               *)
GoodList(st, list, back) ==
    /\ list \in Seq(Commands) /\ Sound(list)
    /\ ExecutesCleanly(st, list)
    /\ \A s \in Slots : Executed(st, list)[Back(s)] = IF s = back THEN "PRESENT" ELSE st[Back(s)]
LeavesTracked(st, list, tr) == \A t \in Targets : Executed(st, list)[t] = tr[t]
Agrees(st, tr) == \A t \in Targets : st[t] = tr[t]

-----------------------------------------------------------------------------
(* The inductive invariant.                                                *)

Entries == [slot : Slots, value : Nat, cl : Seq(Commands), back : Nat, target : Nat, post : BOOLEAN]

RingTypeOK ==
    /\ m_frameIndex \in Slots /\ m_fenceValues \in [Slots -> Nat]
    /\ m_nextFenceValue \in Nat /\ m_completed \in Nat
    /\ recording \in BOOLEAN /\ queue \in Seq(Entries)
    /\ actual \in [Resources -> States] /\ tracked \in [Targets -> States]
    /\ m_ready \in BOOLEAN /\ bloom \in BOOLEAN /\ backGen \in Nat /\ targetGen \in Nat
    /\ sameSize \in BOOLEAN /\ postFailed \in BOOLEAN
    /\ \A i \in DOMAIN queue : Sound(queue[i].cl)

(* The values signalled: those not reached yet increase along the queue,   *)
(* and a slot remembers one at least as late as those of its lists.        *)
FenceSound ==
    /\ m_completed < m_nextFenceValue
    /\ \A s \in Slots : m_fenceValues[s] < m_nextFenceValue
    /\ \A i \in DOMAIN queue :
          /\ m_completed < queue[i].value /\ queue[i].value < m_nextFenceValue
          /\ queue[i].value <= m_fenceValues[queue[i].slot]
    /\ \A i, j \in DOMAIN queue : i < j => queue[i].value < queue[j].value

RecordingSound == recording => commands = FrameStart(m_frameIndex)

(* The targets are ready for as long as bloom was never lost.              *)
PostSound == IF bloom THEN (postFailed <=> ~m_ready) ELSE ~m_ready /\ ~postFailed

(* Where everything in flight ends: back buffers presented, and targets as *)
(* they are tracked.                                                       *)
EndsAsTracked ==
    ~sameSize => /\ \A s \in Slots : ReachedIn(queue, actual, Len(queue) + 1)[Back(s)] = "PRESENT"
                 /\ m_ready => Agrees(ReachedIn(queue, actual, Len(queue) + 1), tracked)

RingIInv ==
    /\ RingTypeOK /\ FenceSound /\ RecordingSound /\ PostSound /\ EndsAsTracked
    /\ RingInv

(* The start of a frame, in the states it finds.                           *)
LEMMA StartTracks ==
    ASSUME NEW st, NEW back \in Slots, NEW tr \in [Targets -> States], st[Back(back)] = "PRESENT"
    PROVE  /\ Tracks(st, [cl |-> FrameStart(back), tracked |-> tr], back)
           /\ Agrees(st, tr) => Tracked(st, [cl |-> FrameStart(back), tracked |-> tr])
           /\ Formatted(FrameStart(back))
<1>1. PICK b, d, acc : /\ b = Barrier(Back(back), "PRESENT", "TARGET") /\ d = Draw(Back(back), {}, "clear")
                       /\ acc = [cl |-> << b >>, tracked |-> tr]
  OBVIOUS
<1>2. Back(back) \in Resources /\ {} \in SUBSET Resources /\ "PRESENT" \in States /\ "TARGET" \in States
  BY Distinct DEF States
<1>3. /\ b \in Commands /\ d \in Commands /\ b.op = "barrier" /\ b.into = Back(back)
      /\ b.before = "PRESENT" /\ b.after = "TARGET"
  BY <1>1, <1>2, CommandsAre DEF Barrier
<1>4. << >> \in Seq(Commands) /\ << b >> = Append(<< >>, b)
  OBVIOUS
<1>5. \A r \in Resources : Executed(st, << >>)[r] = st[r]
  BY ExecutedNothing
<1>6. \A r \in Resources : Executed(st, << b >>)[r] = IF r = Back(back) THEN "TARGET" ELSE st[r]
  <2>1. \A r \in Resources : Executed(st, Append(<< >>, b))[r] =
            IF IsBarrier(b, r) THEN b.after ELSE Executed(st, << >>)[r]
    BY <1>3, <1>4, ExecutedAppend
  <2> QED
    BY <1>3, <1>4, <1>5, <2>1 DEF IsBarrier
<1>7. ExecutesCleanly(st, << b >>)
  <2>1. ExecutesCleanly(st, << >>)
    BY DEF ExecutesCleanly
  <2>2. FindsRight(Executed(st, << >>), b)
    BY <1>2, <1>3, <1>5 DEF FindsRight
  <2>3. ExecutesCleanly(st, Append(<< >>, b))
    BY <1>3, <1>4, <2>1, <2>2, CleanAppend
  <2> QED
    BY <1>4, <2>3
<1>8. Sound(<< b >>) /\ Formatted(<< b >>) /\ << b >> \in Seq(Commands)
  BY <1>2, <1>3 DEF Sound, Formatted, Fmt
<1>9. Tracks(st, acc, back)
  <2>1. acc \in [cl : Seq(Commands), tracked : [Targets -> States]] /\ acc.cl = << b >>
    BY <1>1, <1>8
  <2>2. \A s \in Slots : Executed(st, << b >>)[Back(s)] = IF s = back THEN "TARGET" ELSE st[Back(s)]
    BY <1>6, Distinct
  <2> QED
    BY <1>7, <1>8, <2>1, <2>2 DEF Tracks
<1>10. Agrees(st, tr) => Tracked(st, acc)
  BY <1>1, <1>6, Distinct DEF Agrees, Tracked
<1>11. Executed(st, acc.cl)[Back(back)] = "TARGET" /\ \A r \in {} : Executed(st, acc.cl)[r] = "SHADER"
  BY <1>1, <1>2, <1>6
<1>12. PICK n : n = Drawn(acc, Back(back), {}, "clear")
  OBVIOUS
<1>13. /\ Tracks(st, n, back) /\ (Tracked(st, acc) => Tracked(st, n))
       /\ Formatted(acc.cl) /\ Fmt(Draw(Back(back), {}, "clear")) => Formatted(n.cl)
  <2>1. "clear" \in {"clear", "hdr", "ldr"}
    OBVIOUS
  <2> QED
    BY <1>2, <1>9, <1>11, <1>12, <2>1, DrawnTracks
<1>14. n = [cl |-> FrameStart(back), tracked |-> tr]
  <2>1. n = [[cl |-> << b >>, tracked |-> tr] EXCEPT !.cl = Append(@, d)]
    BY <1>1, <1>12, Zenon DEF Drawn
  <2>2. n = [cl |-> << b, d >>, tracked |-> tr]
    BY <2>1
  <2> QED
    BY <1>1, <2>2 DEF FrameStart
<1>15. Fmt(Draw(Back(back), {}, "clear"))
  BY DEF Fmt, Draw
<1>16. Formatted(acc.cl)
  BY <1>1, <1>8
<1>17. Formatted(n.cl) /\ n.cl = FrameStart(back)
  BY <1>13, <1>14, <1>15, <1>16
<1> QED
  BY <1>10, <1>13, <1>14, <1>17

(* The whole frame.                                                        *)
LEMMA FrameIsGood ==
    ASSUME NEW st, m_frameIndex \in Slots, m_ready \in BOOLEAN, bloom \in BOOLEAN,
           tracked \in [Targets -> States], st[Back(m_frameIndex)] = "PRESENT",
           IF m_ready THEN Agrees(st, tracked) ELSE TRUE,
           NEW canvas, canvas = List([cl |-> FrameStart(m_frameIndex), tracked |-> tracked]),
           NEW list, list = Append(canvas.cl, Barrier(Back(m_frameIndex), "TARGET", "PRESENT"))
    PROVE  /\ GoodList(st, list, m_frameIndex)
           /\ m_ready => LeavesTracked(st, list, canvas.tracked)
           /\ canvas.tracked \in [Targets -> States]
           /\ (bloom => m_ready) => Formatted(list)
<1>1. PICK acc : acc = [cl |-> FrameStart(m_frameIndex), tracked |-> tracked]
  OBVIOUS
<1>2. PICK scene, post : scene = BeginScene(acc) /\ post = (IF m_ready THEN Resolve(scene) ELSE scene)
  OBVIOUS
<1>3. canvas = Drawn(post, Back(m_frameIndex), {}, "ldr")
  BY <1>1, <1>2 DEF List
<1>4. /\ Tracks(st, acc, m_frameIndex) /\ (IF m_ready THEN Tracked(st, acc) ELSE TRUE)
      /\ Formatted(acc.cl)
  BY <1>1, StartTracks
<1>5. /\ Tracks(st, scene, m_frameIndex) /\ (m_ready => Tracked(st, scene))
      /\ (bloom => m_ready) /\ Formatted(acc.cl) => Formatted(scene.cl)
  BY <1>2, <1>4, BeginSceneTracks
<1>6. /\ Tracks(st, post, m_frameIndex) /\ (m_ready => Tracked(st, post))
      /\ Formatted(scene.cl) => Formatted(post.cl)
  <2>1. CASE m_ready
    <3>1. Follows(st, scene, m_frameIndex)
      BY <1>5, <2>1 DEF Follows
    <3>2. Follows(st, Resolve(scene), m_frameIndex) /\ (Formatted(scene.cl) => Formatted(Resolve(scene).cl))
      BY <3>1, ResolveTracks
    <3>3. post = Resolve(scene)
      BY <1>2, <2>1
    <3> QED
      BY <3>2, <3>3 DEF Follows
  <2>2. CASE ~m_ready
    BY <1>2, <1>5, <2>2
  <2> QED
    BY <2>1, <2>2
<1>7. /\ Back(m_frameIndex) \in Resources /\ Back(m_frameIndex) \notin Targets
      /\ {} \in SUBSET Resources /\ "ldr" \in {"clear", "hdr", "ldr"} /\ "TARGET" \in States /\ "PRESENT" \in States
  BY Distinct DEF States
<1>8. Executed(st, post.cl)[Back(m_frameIndex)] = "TARGET" /\ \A r \in {} : Executed(st, post.cl)[r] = "SHADER"
  BY <1>6 DEF Tracks
<1>9. /\ Tracks(st, canvas, m_frameIndex) /\ (Tracked(st, post) => Tracked(st, canvas))
      /\ Formatted(post.cl) /\ Fmt(Draw(Back(m_frameIndex), {}, "ldr")) => Formatted(canvas.cl)
  BY <1>3, <1>6, <1>7, <1>8, DrawnTracks
<1>10. Fmt(Draw(Back(m_frameIndex), {}, "ldr"))
  BY <1>7 DEF Fmt, Draw
<1>11. PICK cl, c : cl = canvas.cl /\ c = Barrier(Back(m_frameIndex), "TARGET", "PRESENT")
  OBVIOUS
<1>12. /\ cl \in Seq(Commands) /\ Sound(cl) /\ ExecutesCleanly(st, cl)
       /\ \A s \in Slots : Executed(st, cl)[Back(s)] = IF s = m_frameIndex THEN "TARGET" ELSE st[Back(s)]
       /\ canvas.tracked \in [Targets -> States]
  BY <1>9, <1>11 DEF Tracks
<1>13. /\ c \in Commands /\ c.op = "barrier" /\ c.into = Back(m_frameIndex)
       /\ c.before = "TARGET" /\ c.after = "PRESENT"
  BY <1>7, <1>11, CommandsAre DEF Barrier
<1>14. FindsRight(Executed(st, cl), c)
  BY <1>12, <1>13 DEF FindsRight
<1>15. ExecutesCleanly(st, Append(cl, c))
  BY <1>12, <1>13, <1>14, CleanAppend
<1>16. list = Append(cl, c)
  BY <1>11
<1>17. /\ list \in Seq(Commands) /\ Sound(list)
       /\ Formatted(cl) /\ Fmt(c) => Formatted(list)
  BY <1>7, <1>12, <1>13, <1>16, AppendKeeps
<1>18. Fmt(c)
  BY <1>13 DEF Fmt
<1>19. \A r \in Resources : Executed(st, list)[r] =
            IF r = Back(m_frameIndex) THEN "PRESENT" ELSE Executed(st, cl)[r]
  <2>1. \A r \in Resources : Executed(st, Append(cl, c))[r] =
            IF IsBarrier(c, r) THEN c.after ELSE Executed(st, cl)[r]
    BY <1>12, <1>13, ExecutedAppend
  <2> QED
    BY <1>13, <1>16, <2>1 DEF IsBarrier
<1>20. GoodList(st, list, m_frameIndex)
  <2>1. \A s \in Slots : Executed(st, list)[Back(s)] = IF s = m_frameIndex THEN "PRESENT" ELSE st[Back(s)]
    BY <1>12, <1>19, Distinct
  <2> QED
    BY <1>15, <1>16, <1>17, <2>1 DEF GoodList
<1>21. m_ready => LeavesTracked(st, list, canvas.tracked)
  <2>1. m_ready => \A t \in Targets : Executed(st, cl)[t] = canvas.tracked[t]
    BY <1>6, <1>9, <1>11 DEF Tracked
  <2>2. \A t \in Targets : Executed(st, list)[t] = Executed(st, cl)[t]
    BY <1>7, <1>19, Distinct
  <2> QED
    BY <2>1, <2>2 DEF LeavesTracked
<1>22. (bloom => m_ready) => Formatted(list)
  BY <1>4, <1>5, <1>6, <1>9, <1>10, <1>11, <1>17, <1>18
<1> QED
  BY <1>12, <1>20, <1>21, <1>22

-----------------------------------------------------------------------------
(* The steps.                                                              *)

(* RingInv's parts as statements about parameters, so that they can be     *)
(* stated of the next state too.                                           *)
AgreesIn(q, act) == \A i \in DOMAIN q : ExecutesCleanly(ReachedIn(q, act, i), q[i].cl)
FormatsIn(q) == \A i \in DOMAIN q : Formatted(q[i].cl)

LEMMA StatesAgreeIs ==
    StatesAgree <=> (~sameSize => AgreesIn(queue, actual))
BY ReachedIsIn DEF StatesAgree, AgreesIn

LEMMA FormatsMatchIs ==
    FormatsMatch <=> (~postFailed => FormatsIn(queue))
BY DEF FormatsMatch, FormatsIn, Formatted, Fmt

LEMMA QueueTyped ==
    ASSUME NEW q \in Seq(Entries), NEW i \in DOMAIN q
    PROVE  /\ q[i] \in Entries /\ q[i].value \in Nat /\ q[i].slot \in Slots /\ q[i].cl \in Seq(Commands)
           /\ q[i].back \in Nat /\ q[i].target \in Nat
<1>1. q[i] \in Entries
  OBVIOUS
<1> QED
  BY <1>1 DEF Entries

LEMMA RingStart ==
    RingInit => RingIInv
<1> SUFFICES ASSUME RingInit PROVE RingIInv
  OBVIOUS
<1> USE DEF RingInit
<1>1. DOMAIN queue = {} /\ Len(queue) = 0 /\ queue = << >>
  OBVIOUS
<1>2. 0 \in Slots
  BY RingAssumption DEF Slots
<1>3. actual \in [Resources -> States] /\ tracked \in [Targets -> States]
  BY DEF States
<1>4. RingTypeOK
  BY <1>1, <1>2, <1>3 DEF RingTypeOK
<1>5. FenceSound /\ RecordingSound /\ PostSound
  BY <1>1 DEF FenceSound, RecordingSound, PostSound
<1>6. ReachedIn(queue, actual, Len(queue) + 1) = actual
  <2>1. Len(queue) + 1 = 1
    BY <1>1
  <2> QED
    BY <1>3, <2>1, ReachedStart
<1>7. EndsAsTracked
  BY <1>6, Distinct DEF EndsAsTracked, Agrees
<1>8. StatesAgree /\ FormatsMatch
  BY <1>1 DEF StatesAgree, FormatsMatch
<1>9. SlotIsFree /\ WaitIsAnswered /\ NothingReleasedInUse
  BY <1>1 DEF SlotIsFree, WaitIsAnswered, NothingReleasedInUse
<1> QED
  BY <1>4, <1>5, <1>7, <1>8, <1>9 DEF RingIInv, RingInv

(* BeginFrame waits for the value its slot remembers, which is not before  *)
(* that of any list of the slot; lists in flight are later than the fence. *)
LEMMA BeginFrameStep ==
    ASSUME RingIInv, BeginFrame PROVE RingIInv'
<1> USE DEF BeginFrame
<1>1. RingTypeOK'
  BY DEF RingIInv, RingTypeOK
<1>2. FenceSound' /\ PostSound' /\ EndsAsTracked'
  BY DEF RingIInv, FenceSound, PostSound, EndsAsTracked
<1>3. RecordingSound'
  BY DEF RecordingSound, FrameStart
<1>4. SlotIsFree'
  <2> SUFFICES ASSUME NEW i \in DOMAIN queue, queue[i].slot = m_frameIndex PROVE FALSE
    BY DEF SlotIsFree
  <2>1. /\ m_completed < queue[i].value /\ queue[i].value <= m_fenceValues[m_frameIndex]
        /\ m_fenceValues[m_frameIndex] <= m_completed
    BY DEF RingIInv, FenceSound
  <2>2. m_completed \in Nat /\ queue[i].value \in Nat /\ m_fenceValues[m_frameIndex] \in Nat
    BY QueueTyped DEF RingIInv, RingTypeOK
  <2> QED
    BY <2>1, <2>2
<1>5. WaitIsAnswered' /\ NothingReleasedInUse'
  BY DEF RingIInv, RingInv, WaitIsAnswered, NothingReleasedInUse
<1>6. StatesAgree' /\ FormatsMatch'
  BY DEF RingIInv, RingInv, StatesAgree, FormatsMatch, Reached
<1> QED
  BY <1>1, <1>2, <1>3, <1>4, <1>5, <1>6 DEF RingIInv, RingInv

LEMMA RingStutter ==
    ASSUME RingIInv, UNCHANGED ringVars PROVE RingIInv'
<1> USE DEF ringVars
<1>1. RingTypeOK'
  BY DEF RingIInv, RingTypeOK
<1>2. FenceSound' /\ PostSound' /\ EndsAsTracked'
  BY DEF RingIInv, FenceSound, PostSound, EndsAsTracked
<1>3. RecordingSound' /\ SlotIsFree'
  BY DEF RingIInv, RingInv, RecordingSound, SlotIsFree
<1>5. WaitIsAnswered' /\ NothingReleasedInUse'
  BY DEF RingIInv, RingInv, WaitIsAnswered, NothingReleasedInUse
<1>6. StatesAgree' /\ FormatsMatch'
  BY DEF RingIInv, RingInv, StatesAgree, FormatsMatch, Reached
<1> QED
  BY <1>1, <1>2, <1>3, <1>5, <1>6 DEF RingIInv, RingInv

(* The queue takes its oldest list: the others are reached in the states   *)
(* they were, and the fence passes the value of that list only.            *)
LEMMA GpuFinishesStep ==
    ASSUME RingIInv, GpuFinishes PROVE RingIInv'
<1>1. PICK q, q2, act, act2, n :
        q = queue /\ q2 = queue' /\ act = actual /\ act2 = actual' /\ n = Len(queue)
  OBVIOUS
<1>2. /\ q # << >> /\ q2 = Tail(q) /\ act2 = Executed(act, Head(q).cl) /\ m_completed' = Head(q).value
      /\ UNCHANGED << m_frameIndex, m_fenceValues, m_nextFenceValue, recording, commands, tracked >>
      /\ UNCHANGED << m_ready, bloom, size, backGen, targetGen, resizes, sameSize, postFailed >>
  BY <1>1 DEF GpuFinishes
<1>3. /\ q \in Seq(Entries)
      /\ \A i \in DOMAIN q : Sound(q[i].cl)
      /\ act \in [Resources -> States]
  BY <1>1 DEF RingIInv, RingTypeOK
<1>4. /\ n \in Nat \ {0} /\ DOMAIN q = 1 .. n /\ Len(q) = n /\ Head(q) = q[1] /\ Len(q2) = n - 1
      /\ DOMAIN q2 = 1 .. n - 1
      /\ \A i \in DOMAIN q2 : q2[i] = q[i + 1] /\ i + 1 \in DOMAIN q
      /\ q2 \in Seq(Entries)
  BY <1>1, <1>2, <1>3
<1>5. act2 \in [Resources -> States]
  <2>1. q[1].cl \in Seq(Commands)
    BY <1>3, <1>4, QueueTyped
  <2>2. q[1].cl \in Seq(Commands) /\ \A i \in DOMAIN q[1].cl : q[1].cl[i].op = "barrier" => q[1].cl[i].after \in States
    BY <1>3, <1>4, <2>1 DEF Sound
  <2>3. Executed(act, q[1].cl) \in [Resources -> States]
    BY <1>3, <2>2, ExecutedTyped
  <2> QED
    BY <1>2, <1>4, <2>3
<1>6. \A i \in 1 .. n : ReachedIn(q2, act2, i) = ReachedIn(q, act, i + 1)
  <2>1. Executed(act, Head(q).cl) \in [Resources -> States]
    BY <1>2, <1>5
  <2>2. \A i \in 1 .. Len(q) : ReachedIn(Tail(q), Executed(act, Head(q).cl), i) = ReachedIn(q, act, i + 1)
    BY <1>2, <1>3, <2>1, ReachedTail
  <2> QED
    BY <1>2, <1>4, <2>2
<1>7. RingTypeOK'
  <2>1. \A i \in DOMAIN q2 : Sound(q2[i].cl)
    BY <1>3, <1>4
  <2>2. q[1].value \in Nat
    BY <1>3, <1>4, QueueTyped
  <2> QED
    BY <1>1, <1>2, <1>4, <1>5, <2>1, <2>2 DEF RingIInv, RingTypeOK
<1>8. /\ FenceSound /\ RingTypeOK /\ 1 \in DOMAIN q
      /\ \A i \in DOMAIN q : q[i].value \in Nat
  BY <1>3, <1>4, QueueTyped DEF RingIInv
<1>9. FenceSound'
  <2>1. \A i \in DOMAIN q2 : q[1].value < q[i + 1].value
    BY <1>1, <1>4, <1>8 DEF FenceSound
  <2>2. \A i, j \in DOMAIN q2 : i < j => q2[i].value < q2[j].value
    <3>1. \A i, j \in DOMAIN q2 : i < j => i + 1 < j + 1
      BY <1>4
    <3> QED
      BY <1>1, <1>4, <1>8, <3>1 DEF FenceSound
  <2> QED
    BY <1>1, <1>2, <1>4, <1>8, <2>1, <2>2 DEF FenceSound
<1>10. RecordingSound' /\ PostSound'
  BY <1>2 DEF RingIInv, RecordingSound, PostSound
<1>11. SlotIsFree' /\ NothingReleasedInUse'
  BY <1>1, <1>2, <1>4 DEF RingIInv, RingInv, SlotIsFree, NothingReleasedInUse
<1>12. WaitIsAnswered'
  <2> SUFFICES ASSUME NEW s \in Slots
               PROVE  m_fenceValues[s] <= q[1].value \/ \E i \in DOMAIN q2 : q2[i].value >= m_fenceValues[s]
    BY <1>1, <1>2, <1>4 DEF WaitIsAnswered
  <2>1. m_fenceValues[s] \in Nat /\ m_completed \in Nat
    BY DEF RingIInv, RingTypeOK
  <2>2. m_fenceValues[s] <= m_completed \/ \E i \in DOMAIN q : q[i].value >= m_fenceValues[s]
    BY <1>1 DEF RingIInv, RingInv, WaitIsAnswered
  <2>3. CASE m_fenceValues[s] <= m_completed
    <3>1. m_completed < q[1].value
      BY <1>1, <1>8 DEF FenceSound
    <3> QED
      BY <1>8, <2>1, <2>3, <3>1
  <2>4. CASE \E i \in DOMAIN q : q[i].value >= m_fenceValues[s]
    <3>1. PICK i \in DOMAIN q : q[i].value >= m_fenceValues[s]
      BY <2>4
    <3>2. CASE i = 1
      BY <1>8, <2>1, <3>1, <3>2
    <3>3. CASE i # 1
      <4>1. i - 1 \in DOMAIN q2 /\ (i - 1) + 1 = i
        BY <1>4, <3>3
      <4>2. q2[i - 1] = q[i]
        BY <1>4, <4>1
      <4> QED
        BY <3>1, <4>1, <4>2
    <3> QED
      BY <3>2, <3>3
  <2> QED
    BY <2>2, <2>3, <2>4
<1>13. StatesAgree'
  <2>1. ~sameSize => AgreesIn(q, act)
    BY <1>1, StatesAgreeIs DEF RingIInv, RingInv
  <2>2. AgreesIn(q, act) => AgreesIn(q2, act2)
    <3> SUFFICES ASSUME AgreesIn(q, act), NEW i \in DOMAIN q2
                 PROVE  ExecutesCleanly(ReachedIn(q2, act2, i), q2[i].cl)
      BY DEF AgreesIn
    <3>1. i \in 1 .. n /\ q2[i] = q[i + 1] /\ i + 1 \in DOMAIN q
      BY <1>4
    <3>2. ReachedIn(q2, act2, i) = ReachedIn(q, act, i + 1)
      BY <1>6, <3>1
    <3>3. ExecutesCleanly(ReachedIn(q, act, i + 1), q[i + 1].cl)
      BY <3>1 DEF AgreesIn
    <3> QED
      BY <3>1, <3>2, <3>3
  <2>3. ~sameSize' => AgreesIn(queue', actual')
    BY <1>1, <1>2, <2>1, <2>2
  <2>4. (StatesAgree <=> (~sameSize => AgreesIn(queue, actual)))'
    BY StatesAgreeIs, PTL
  <2> QED
    BY <2>3, <2>4
<1>14. FormatsMatch'
  BY <1>1, <1>2, <1>4 DEF RingIInv, RingInv, FormatsMatch
<1>15. EndsAsTracked'
  <2>1. ReachedIn(q2, act2, Len(q2) + 1) = ReachedIn(q, act, Len(q) + 1)
    <3>1. Len(q2) + 1 = n /\ n \in 1 .. n
      BY <1>4
    <3> QED
      BY <1>4, <1>6, <3>1
  <2> QED
    BY <1>1, <1>2, <2>1 DEF RingIInv, EndsAsTracked
<1> QED
  BY <1>7, <1>9, <1>10, <1>11, <1>12, <1>13, <1>14, <1>15 DEF RingIInv, RingInv

(* A frame is submitted: it finds what the lists before it leave, and      *)
(* leaves what is tracked then.                                            *)
LEMMA RenderAndEndFrameStep ==
    ASSUME RingIInv, RenderAndEndFrame PROVE RingIInv'
<1>1. PICK q, n, act, canvas, list, e :
        /\ q = queue /\ n = Len(queue) /\ act = actual
        /\ canvas = List([cl |-> FrameStart(m_frameIndex), tracked |-> tracked])
        /\ list = Append(canvas.cl, Barrier(Back(m_frameIndex), "TARGET", "PRESENT"))
        /\ e = [ slot |-> m_frameIndex, value |-> m_nextFenceValue, cl |-> list,
                 back |-> backGen, target |-> targetGen, post |-> m_ready ]
  OBVIOUS
<1>2. recording /\ commands = FrameStart(m_frameIndex)
  BY DEF RenderAndEndFrame, RingIInv, RecordingSound
<1>3. /\ queue' = Append(q, e)
      /\ tracked' = canvas.tracked
      /\ m_fenceValues' = [m_fenceValues EXCEPT ![m_frameIndex] = m_nextFenceValue]
      /\ m_frameIndex' = (m_frameIndex + 1) % FRAME_COUNT
      /\ m_nextFenceValue' = m_nextFenceValue + 1 /\ recording' = FALSE
  BY <1>1, <1>2 DEF RenderAndEndFrame, List, EndFrameStore
<1>4. UNCHANGED << m_completed, actual, m_ready, bloom, size, backGen, targetGen, resizes, sameSize, postFailed >>
  BY DEF RenderAndEndFrame
<1>5. PICK q2 : q2 = queue'
  OBVIOUS
<1>6. /\ q \in Seq(Entries) /\ act \in [Resources -> States] /\ tracked \in [Targets -> States]
      /\ m_frameIndex \in Slots /\ m_nextFenceValue \in Nat /\ m_completed \in Nat
      /\ m_fenceValues \in [Slots -> Nat] /\ m_ready \in BOOLEAN /\ bloom \in BOOLEAN
      /\ backGen \in Nat /\ targetGen \in Nat
  BY <1>1 DEF RingIInv, RingTypeOK
(* What the list is made of does not depend on what it finds.              *)
<1>7. /\ list \in Seq(Commands) /\ Sound(list) /\ canvas.tracked \in [Targets -> States]
      /\ (bloom => m_ready) => Formatted(list)
  <2>1. PICK st : st = [r \in Resources |-> IF r \in Targets THEN tracked[r] ELSE "PRESENT"]
    OBVIOUS
  <2>2. st[Back(m_frameIndex)] = "PRESENT" /\ (IF m_ready THEN Agrees(st, tracked) ELSE TRUE)
    BY <1>6, <2>1, Distinct DEF Agrees
  <2>3. /\ GoodList(st, list, m_frameIndex) /\ canvas.tracked \in [Targets -> States]
        /\ (bloom => m_ready) => Formatted(list)
    BY <1>1, <1>6, <2>2, FrameIsGood
  <2> QED
    BY <2>3 DEF GoodList
<1>8. e \in Entries
  BY <1>1, <1>6, <1>7 DEF Entries
<1>9. /\ n \in Nat /\ DOMAIN q = 1 .. n /\ q2 \in Seq(Entries) /\ Len(q2) = n + 1 /\ DOMAIN q2 = 1 .. n + 1
      /\ q2[n + 1] = e /\ \A i \in 1 .. n : q2[i] = q[i]
  BY <1>1, <1>3, <1>5, <1>6, <1>8, AppendProperties
<1>10. \A i \in DOMAIN q2 : (i \in DOMAIN q /\ q2[i] = q[i]) \/ (i = n + 1 /\ q2[i] = e)
  <2> SUFFICES ASSUME NEW i \in DOMAIN q2, i # n + 1 PROVE i \in DOMAIN q /\ q2[i] = q[i]
    BY <1>9
  <2>1. i \in 1 .. n
    BY <1>9
  <2> QED
    BY <1>9, <2>1
<1>11. /\ e.value = m_nextFenceValue /\ e.slot = m_frameIndex /\ e.cl = list
       /\ e.back = backGen /\ e.target = targetGen
  BY <1>1
<1>12. \A i \in DOMAIN q : q[i].value \in Nat /\ q[i].slot \in Slots
  BY <1>6, QueueTyped
<1>13. RingTypeOK'
  <2>1. m_frameIndex' \in Slots
    <3>1. m_frameIndex \in Nat /\ FRAME_COUNT \in Nat \ {0}
      BY <1>6, RingAssumption DEF Slots
    <3>2. (m_frameIndex + 1) % FRAME_COUNT \in 0 .. FRAME_COUNT - 1
      BY <3>1
    <3> QED
      BY <1>3, <3>2 DEF Slots
  <2>2. \A i \in DOMAIN q2 : Sound(q2[i].cl)
    BY <1>1, <1>7, <1>10, <1>11 DEF RingIInv, RingTypeOK
  <2>3. m_fenceValues' \in [Slots -> Nat]
    BY <1>3, <1>6
  <2>4. m_nextFenceValue' \in Nat /\ tracked' \in [Targets -> States]
    BY <1>3, <1>6, <1>7
  <2>7. recording' \in BOOLEAN
    BY <1>3
  <2>5. queue' \in Seq(Entries) /\ \A i \in DOMAIN queue' : Sound(queue'[i].cl)
    BY <1>5, <1>9, <2>2
  <2>6. RingTypeOK
    BY DEF RingIInv
  <2> QED
    BY <1>4, <2>1, <2>3, <2>4, <2>5, <2>6, <2>7 DEF RingTypeOK
<1>14. FenceSound'
  <2>1. /\ \A s \in Slots : m_fenceValues[s] < m_nextFenceValue
        /\ m_completed < m_nextFenceValue
        /\ \A i \in DOMAIN q : /\ m_completed < q[i].value /\ q[i].value < m_nextFenceValue
                               /\ q[i].value <= m_fenceValues[q[i].slot]
        /\ \A i, j \in DOMAIN q : i < j => q[i].value < q[j].value
    BY <1>1 DEF RingIInv, FenceSound
  <2>2. ASSUME NEW s \in Slots
        PROVE  /\ m_fenceValues'[s] = (IF s = m_frameIndex THEN m_nextFenceValue ELSE m_fenceValues[s])
               /\ m_fenceValues[s] \in Nat
    <3>1. m_fenceValues[s] \in Nat
      BY <1>6
    <3>2. m_fenceValues'[s] = (IF s = m_frameIndex THEN m_nextFenceValue ELSE m_fenceValues[s])
      BY <1>3, <1>6
    <3> QED
      BY <3>1, <3>2
  <2>3. \A s \in Slots : m_fenceValues'[s] < m_nextFenceValue'
    BY <1>3, <1>6, <2>1, <2>2
  <2>4. \A i \in DOMAIN q2 : /\ m_completed < q2[i].value /\ q2[i].value < m_nextFenceValue'
                             /\ q2[i].value <= m_fenceValues'[q2[i].slot]
    <3> SUFFICES ASSUME NEW i \in DOMAIN q2
                 PROVE  /\ m_completed < q2[i].value /\ q2[i].value < m_nextFenceValue'
                        /\ q2[i].value <= m_fenceValues'[q2[i].slot]
      OBVIOUS
    <3>1. CASE i \in DOMAIN q /\ q2[i] = q[i]
      BY <1>3, <1>6, <1>12, <2>1, <2>2, <3>1
    <3>2. CASE q2[i] = e
      BY <1>3, <1>6, <1>11, <2>1, <2>2, <3>2
    <3> QED
      BY <1>10, <3>1, <3>2
  <2>5. \A i, j \in DOMAIN q2 : i < j => q2[i].value < q2[j].value
    <3> SUFFICES ASSUME NEW i \in DOMAIN q2, NEW j \in DOMAIN q2, i < j PROVE q2[i].value < q2[j].value
      OBVIOUS
    <3>1. i \in DOMAIN q /\ q2[i] = q[i]
      BY <1>9
    <3>2. CASE j \in DOMAIN q /\ q2[j] = q[j]
      BY <2>1, <3>1, <3>2
    <3>3. CASE q2[j] = e
      BY <1>11, <2>1, <3>1, <3>3
    <3> QED
      BY <1>10, <3>2, <3>3
  <2>6. m_completed' < m_nextFenceValue'
    BY <1>3, <1>4, <1>6, <2>1
  <2> QED
    BY <1>4, <1>5, <2>3, <2>4, <2>5, <2>6 DEF FenceSound
<1>15. RecordingSound' /\ PostSound' /\ SlotIsFree'
  BY <1>3, <1>4 DEF RingIInv, RecordingSound, PostSound, SlotIsFree
<1>16. WaitIsAnswered'
  <2> SUFFICES ASSUME NEW s \in Slots
               PROVE  m_fenceValues'[s] <= m_completed \/ \E i \in DOMAIN q2 : q2[i].value >= m_fenceValues'[s]
    BY <1>4, <1>5 DEF WaitIsAnswered
  <2>1. CASE s = m_frameIndex
    <3>1. n + 1 \in DOMAIN q2 /\ q2[n + 1].value = m_fenceValues'[s]
      BY <1>3, <1>6, <1>9, <1>11, <2>1
    <3>2. q2[n + 1].value >= m_fenceValues'[s]
      BY <1>6, <1>9, <1>11, <3>1
    <3> QED
      BY <3>1, <3>2
  <2>2. CASE s # m_frameIndex
    <3>1. m_fenceValues'[s] = m_fenceValues[s]
      BY <1>3, <1>6, <2>2
    <3>2. m_fenceValues[s] <= m_completed \/ \E i \in DOMAIN q : q[i].value >= m_fenceValues[s]
      BY <1>1 DEF RingIInv, RingInv, WaitIsAnswered
    <3>3. \A i \in DOMAIN q : i \in DOMAIN q2 /\ q2[i] = q[i]
      BY <1>9
    <3> QED
      BY <3>1, <3>2, <3>3
  <2> QED
    BY <2>1, <2>2
<1>17. NothingReleasedInUse'
  <2>1. \A i \in DOMAIN q : q[i].back = backGen /\ (q[i].post /\ ~sameSize => q[i].target = targetGen)
    BY <1>1 DEF RingIInv, RingInv, NothingReleasedInUse
  <2>2. \A i \in DOMAIN q2 : q2[i].back = backGen /\ (q2[i].post /\ ~sameSize => q2[i].target = targetGen)
    BY <1>10, <1>11, <2>1
  <2> QED
    BY <1>4, <1>5, <2>2 DEF NothingReleasedInUse
<1>18. FormatsMatch'
  <2>1. ~postFailed => FormatsIn(q)
    BY <1>1, FormatsMatchIs DEF RingIInv, RingInv
  <2>2. ~postFailed => (bloom => m_ready)
    BY DEF RingIInv, PostSound
  <2>3. ~postFailed => FormatsIn(q2)
    BY <1>7, <1>10, <1>11, <2>1, <2>2 DEF FormatsIn
  <2>4. (FormatsMatch <=> (~postFailed => FormatsIn(queue)))'
    BY FormatsMatchIs, PTL
  <2> QED
    BY <1>4, <1>5, <2>3, <2>4
(* The end of the lists is where this one starts.                          *)
<1>19. PICK end : end = ReachedIn(q, act, n + 1)
  OBVIOUS
<1>20. \A i \in 1 .. n + 1 : ReachedIn(q2, act, i) = ReachedIn(q, act, i)
  <2>1. \A i \in 1 .. Len(q) + 1 : ReachedIn(Append(q, e), act, i) = ReachedIn(q, act, i)
    BY <1>6, ReachedAppend
  <2> QED
    BY <1>1, <1>3, <1>5, <2>1
<1>21. ReachedIn(q2, act, (n + 1) + 1) = Executed(end, list)
  <2>1. n + 1 \in Nat \ {0} /\ n + 1 \in 1 .. n + 1
    BY <1>9
  <2>2. ReachedIn(q2, act, (n + 1) + 1) = Executed(ReachedIn(q2, act, n + 1), q2[n + 1].cl)
    BY <2>1, ReachedStep
  <2> QED
    BY <1>9, <1>11, <1>19, <1>20, <2>1, <2>2
<1>22. ASSUME ~sameSize
       PROVE  /\ GoodList(end, list, m_frameIndex)
              /\ m_ready => LeavesTracked(end, list, canvas.tracked)
              /\ \A s \in Slots : end[Back(s)] = "PRESENT"
  <2>1. /\ \A s \in Slots : end[Back(s)] = "PRESENT"
        /\ m_ready => Agrees(end, tracked)
    BY <1>1, <1>19, <1>22 DEF RingIInv, EndsAsTracked
  <2>2. end[Back(m_frameIndex)] = "PRESENT" /\ (IF m_ready THEN Agrees(end, tracked) ELSE TRUE)
    BY <1>6, <2>1
  <2> QED
    BY <1>1, <1>6, <2>1, <2>2, FrameIsGood
<1>23. StatesAgree'
  <2>1. ~sameSize => AgreesIn(q, act)
    BY <1>1, StatesAgreeIs DEF RingIInv, RingInv
  <2>2. ASSUME ~sameSize, NEW i \in DOMAIN q2
        PROVE  ExecutesCleanly(ReachedIn(q2, act, i), q2[i].cl)
    <3>1. i \in 1 .. n + 1 /\ ReachedIn(q2, act, i) = ReachedIn(q, act, i)
      BY <1>9, <1>20
    <3>2. CASE i \in DOMAIN q /\ q2[i] = q[i]
      BY <2>1, <2>2, <3>1, <3>2 DEF AgreesIn
    <3>3. CASE i = n + 1 /\ q2[i] = e
      <4>1. ExecutesCleanly(end, list)
        BY <1>22, <2>2 DEF GoodList
      <4> QED
        BY <1>11, <1>19, <3>1, <3>3, <4>1
    <3> QED
      BY <1>10, <3>2, <3>3
  <2>3. ~sameSize => AgreesIn(q2, act)
    BY <2>2 DEF AgreesIn
  <2>4. (StatesAgree <=> (~sameSize => AgreesIn(queue, actual)))'
    BY StatesAgreeIs, PTL
  <2> QED
    BY <1>1, <1>4, <1>5, <2>3, <2>4
<1>24. EndsAsTracked'
  <2>1. ASSUME ~sameSize
        PROVE  /\ \A s \in Slots : Executed(end, list)[Back(s)] = "PRESENT"
               /\ m_ready => Agrees(Executed(end, list), canvas.tracked)
    BY <1>22, <2>1 DEF GoodList, LeavesTracked, Agrees
  <2>2. ReachedIn(queue', actual', Len(queue') + 1) = Executed(end, list)
    BY <1>1, <1>4, <1>5, <1>9, <1>21
  <2> QED
    BY <1>3, <1>4, <2>1, <2>2 DEF EndsAsTracked
<1> QED
  BY <1>13, <1>14, <1>15, <1>16, <1>17, <1>18, <1>23, <1>24 DEF RingIInv, RingInv

(* A resize: either the size is the same and nobody waits, or the queue    *)
(* is empty and everything starts again.                                   *)
LEMMA ApplyResizeStep ==
    ASSUME RingIInv, NEW w, ApplyResize(w) PROVE RingIInv'
<1>1. /\ ~recording /\ ~recording' /\ queue' = queue /\ bloom' = bloom
      /\ IF w = size
         THEN UNCHANGED << m_completed, m_nextFenceValue, backGen, m_fenceValues, m_frameIndex >>
         ELSE Resize(w)
      /\ IF m_ready
         THEN /\ tracked' = [t \in Targets |-> "COMMON"]
              /\ targetGen' = targetGen + 1
              /\ m_ready' \in BOOLEAN
              /\ postFailed' = ~m_ready'
              /\ sameSize' = (sameSize \/ (w = size /\ queue # << >>))
         ELSE UNCHANGED << tracked, targetGen, m_ready, postFailed, sameSize >>
      /\ actual' = [r \in Resources |->
                       IF r \in Targets /\ m_ready THEN "COMMON"
                       ELSE IF r \notin Targets /\ w # size THEN "PRESENT" ELSE actual[r]]
  BY DEF ApplyResize, CreateTargets
<1>2. /\ RingTypeOK /\ "COMMON" \in States /\ "PRESENT" \in States
      /\ m_nextFenceValue \in Nat /\ m_completed \in Nat /\ backGen \in Nat /\ targetGen \in Nat
      /\ m_ready \in BOOLEAN /\ sameSize \in BOOLEAN /\ actual \in [Resources -> States]
      /\ tracked \in [Targets -> States]
  BY DEF RingIInv, RingTypeOK, States
<1>3. w # size => queue = << >> /\ DOMAIN queue = {}
  BY <1>1 DEF Resize
<1>4. actual' \in [Resources -> States] /\ tracked' \in [Targets -> States] /\ m_ready' \in BOOLEAN
  BY <1>1, <1>2
<1>5. /\ m_frameIndex' \in Slots /\ m_fenceValues' \in [Slots -> Nat] /\ m_nextFenceValue' \in Nat
      /\ m_completed' \in Nat /\ backGen' \in Nat
  BY <1>1, <1>2 DEF RingTypeOK, Resize
<1>6. RingTypeOK'
  <2>1. recording' = FALSE
    BY DEF ApplyResize, RingIInv, RingTypeOK
  <2>2. targetGen' \in Nat /\ sameSize' \in BOOLEAN /\ postFailed' \in BOOLEAN
    BY <1>1, <1>2 DEF RingTypeOK
  <2> QED
    BY <1>1, <1>2, <1>4, <1>5, <2>1, <2>2 DEF RingTypeOK
<1>7. FenceSound'
  <2>1. CASE w = size
    BY <1>1, <2>1 DEF RingIInv, FenceSound
  <2>2. CASE w # size
    <3>1. /\ m_completed' = m_nextFenceValue /\ m_nextFenceValue' = m_nextFenceValue + 1
          /\ \A s \in Slots : m_fenceValues'[s] = 0
      BY <1>1, <2>2 DEF Resize
    <3>2. m_completed' < m_nextFenceValue' /\ \A s \in Slots : m_fenceValues'[s] < m_nextFenceValue'
      BY <1>2, <3>1
    <3> QED
      BY <1>1, <1>3, <2>2, <3>2 DEF FenceSound
  <2> QED
    BY <2>1, <2>2
<1>8. RecordingSound' /\ SlotIsFree'
  BY <1>1 DEF RecordingSound, SlotIsFree
<1>9. PostSound'
  <2>1. IF bloom THEN (postFailed <=> ~m_ready) ELSE ~m_ready /\ ~postFailed
    BY DEF RingIInv, PostSound
  <2>2. CASE m_ready
    <3>1. bloom' /\ (postFailed' <=> ~m_ready')
      BY <1>1, <2>1, <2>2
    <3> QED
      BY <3>1 DEF PostSound
  <2>3. CASE ~m_ready
    <3>1. bloom' = bloom /\ postFailed' = postFailed /\ m_ready' = m_ready
      BY <1>1, <2>3
    <3> QED
      BY <2>1, <3>1 DEF PostSound
  <2> QED
    BY <2>2, <2>3
<1>10. WaitIsAnswered'
  <2>1. CASE w = size
    BY <1>1, <2>1 DEF RingIInv, RingInv, WaitIsAnswered
  <2>2. CASE w # size
    <3>1. m_completed' = m_nextFenceValue /\ \A s \in Slots : m_fenceValues'[s] = 0
      BY <1>1, <2>2 DEF Resize
    <3> QED
      BY <1>2, <3>1 DEF WaitIsAnswered
  <2> QED
    BY <2>1, <2>2
<1>11. NothingReleasedInUse'
  <2>1. CASE queue = << >>
    BY <1>1, <2>1 DEF NothingReleasedInUse
  <2>2. CASE queue # << >>
    <3>1. w = size /\ backGen' = backGen
      BY <1>1, <1>3, <2>2
    <3>2. m_ready => sameSize'
      BY <1>1, <2>2, <3>1
    <3>3. ~m_ready => targetGen' = targetGen /\ sameSize' = sameSize
      BY <1>1
    <3> QED
      BY <1>1, <3>1, <3>2, <3>3 DEF RingIInv, RingInv, NothingReleasedInUse
  <2> QED
    BY <2>1, <2>2
<1>12. FormatsMatch'
  <2>1. ~postFailed' => ~postFailed
    BY <1>1, <1>2 DEF RingIInv, PostSound
  <2> QED
    BY <1>1, <2>1 DEF RingIInv, RingInv, FormatsMatch
<1>13. CASE queue = << >>
  <2>1. queue' = << >> /\ Len(queue') + 1 = 1 /\ DOMAIN queue' = {}
    BY <1>1, <1>13
  <2>2. StatesAgree'
    BY <2>1 DEF StatesAgree
  <2>3. \A q : ReachedIn(q, actual', 1) = actual'
    BY <1>4, ReachedStart
  <2>4. ReachedIn(queue', actual', Len(queue') + 1) = actual'
    BY <2>1, <2>3
  <2>5. Len(queue) + 1 = 1 /\ ReachedIn(queue, actual, 1) = actual
    BY <1>2, <1>13, ReachedStart
  <2>6. ~sameSize => /\ \A s \in Slots : actual[Back(s)] = "PRESENT"
                     /\ m_ready => Agrees(actual, tracked)
    BY <2>5 DEF RingIInv, EndsAsTracked
  <2>7. ~sameSize' => ~sameSize
    BY <1>1, <1>2
  <2>8. \A s \in Slots : actual[Back(s)] = "PRESENT" => actual'[Back(s)] = "PRESENT"
    BY <1>1, Distinct
  <2>9. m_ready' => Agrees(actual', tracked')
    <3>1. m_ready' => m_ready
      BY <1>1, <1>2
    <3>2. m_ready => \A t \in Targets : actual'[t] = "COMMON" /\ tracked'[t] = "COMMON"
      BY <1>1, Distinct
    <3> QED
      BY <3>1, <3>2 DEF Agrees
  <2>10. EndsAsTracked'
    BY <2>4, <2>6, <2>7, <2>8, <2>9 DEF EndsAsTracked
  <2> QED
    BY <1>6, <1>7, <1>8, <1>9, <1>10, <1>11, <1>12, <2>2, <2>10 DEF RingIInv, RingInv
<1>14. CASE queue # << >>
  <2>1. w = size
    BY <1>3, <1>14
  <2>2. CASE m_ready
    <3>1. sameSize'
      BY <1>1, <1>14, <2>1, <2>2
    <3>2. StatesAgree' /\ EndsAsTracked'
      BY <3>1 DEF StatesAgree, EndsAsTracked
    <3> QED
      BY <1>6, <1>7, <1>8, <1>9, <1>10, <1>11, <1>12, <3>2 DEF RingIInv, RingInv
  <2>3. CASE ~m_ready
    <3>1. actual' = actual
      BY <1>1, <1>2, <2>1, <2>3
    <3>2. /\ queue' = queue /\ tracked' = tracked /\ m_ready' = m_ready /\ sameSize' = sameSize
      BY <1>1, <2>3
    <3>3. StatesAgree'
      BY <3>1, <3>2 DEF RingIInv, RingInv, StatesAgree, Reached
    <3>4. EndsAsTracked'
      BY <3>1, <3>2 DEF RingIInv, EndsAsTracked
    <3> QED
      BY <1>6, <1>7, <1>8, <1>9, <1>10, <1>11, <1>12, <3>3, <3>4 DEF RingIInv, RingInv
  <2> QED
    BY <2>2, <2>3
<1> QED
  BY <1>13, <1>14

(* The processor and the graphics queue never meet in a slot, a buffer or  *)
(* a target (DeviceResources.cpp, PostProcess.cpp, ApplyResize): for any   *)
(* number of frames in flight, any sizes of the window, and however far    *)
(* the queue is behind.                                                    *)
THEOREM RingCorrect == RingSpec => []RingInv
<1>1. RingInit => RingIInv
  BY RingStart
<1>2. RingIInv /\ [RingNext]_ringVars => RingIInv'
  <2> SUFFICES ASSUME RingIInv, [RingNext]_ringVars PROVE RingIInv'
    OBVIOUS
  <2>1. CASE BeginFrame
    BY <2>1, BeginFrameStep
  <2>2. CASE RenderAndEndFrame
    BY <2>2, RenderAndEndFrameStep
  <2>3. CASE GpuFinishes
    BY <2>3, GpuFinishesStep
  <2>4. CASE \E w \in Sizes : ApplyResize(w)
    BY <2>4, ApplyResizeStep
  <2>5. CASE UNCHANGED ringVars
    BY <2>5, RingStutter
  <2> QED
    BY <2>1, <2>2, <2>3, <2>4, <2>5 DEF RingNext
<1>3. RingIInv => RingInv
  BY DEF RingIInv
<1> QED
  BY <1>1, <1>2, <1>3, PTL DEF RingSpec

(***************************************************************************)
(* The pool of voices.                                                     *)
(***************************************************************************)
(* Voices.                                                                 *)

VoiceSlots ==
    [voice : Nat, format : WaveFormats \cup {"none"}, generation : 1 .. VOICE_GENERATIONS - 1, busy : BOOLEAN,
     looping : BOOLEAN, queued : BOOLEAN, play : Nat, releases : Nat]

AudioTypeOK ==
    /\ m_engine \in BOOLEAN /\ mixer \in BOOLEAN /\ m_initialized \in BOOLEAN
    /\ m_clips \in Seq(WaveFormats) /\ m_slots \in Seq(VoiceSlots) /\ voicesMade \in Nat
    /\ playIds \in Seq(Nat \X Nat) /\ starts \in 0 .. 1

(* There is an engine, a mixer and slots only between initialize and       *)
(* shutdown, and nothing has been played before.                           *)
LifeSound ==
    /\ m_engine = m_initialized /\ mixer = m_initialized
    /\ ~m_initialized => m_slots = << >> /\ voices = {}
    /\ starts = 0 => playIds = << >> /\ ~m_initialized

(* Until the generations have gone round, a slot's counts its releases.    *)
GenerationCounts(s) == s.releases < VOICE_GENERATIONS - 1 => s.generation = s.releases + 1
(* A playing slot and its handle name each other.                          *)
Held(s, i, ids) == s.busy => s.play \in DOMAIN ids /\ ids[s.play] = << i - 1, s.generation >>
(* The handles given out for a slot are not from the future, and only the  *)
(* sound that is playing has the present one.                              *)
Past(s, i, ids) ==
    s.releases < VOICE_GENERATIONS - 1 =>
        \A p \in DOMAIN ids : ids[p] # NullId /\ ids[p][1] = i - 1 => ids[p][2] <= s.generation
Present(s, i, ids) ==
    s.releases < VOICE_GENERATIONS - 1 =>
        \A p \in DOMAIN ids : ids[p] # NullId /\ ids[p] = << i - 1, s.generation >> => s.busy /\ s.play = p
SlotSound(s, i, ids) == GenerationCounts(s) /\ Held(s, i, ids) /\ Past(s, i, ids) /\ Present(s, i, ids)

SlotsSound(slots, ids) == \A i \in DOMAIN slots : SlotSound(slots[i], i, ids)
HandlesPlaced(slots, ids) == \A p \in DOMAIN ids : ids[p] # NullId => ids[p][1] + 1 \in DOMAIN slots

(* XAudio2's voices are those of the slots.                                *)
VoicesAre(slots, vs, made) ==
    /\ vs = { slots[i].voice : i \in DOMAIN slots } \ {NoVoice}
    /\ \A i, j \in DOMAIN slots : i # j /\ slots[i].voice # NoVoice => slots[i].voice # slots[j].voice
    /\ \A i \in DOMAIN slots : slots[i].voice <= made

AudioIInv ==
    /\ AudioTypeOK /\ LifeSound
    /\ SlotsSound(m_slots, playIds)
    /\ m_initialized => HandlesPlaced(m_slots, playIds)
    /\ VoicesAre(m_slots, voices, voicesMade)

-----------------------------------------------------------------------------
(* One slot.                                                               *)

LEMMA VoiceGenerationMoves ==
    ASSUME NEW g \in 1 .. VOICE_GENERATIONS - 1
    PROVE  /\ NextGeneration(g) \in 1 .. VOICE_GENERATIONS - 1
           /\ g + 1 < VOICE_GENERATIONS => NextGeneration(g) = g + 1
           /\ g % VOICE_GENERATIONS = g
<1>1. VOICE_GENERATIONS \in Nat /\ VOICE_GENERATIONS > 1 /\ g \in Nat /\ g < VOICE_GENERATIONS /\ g > 0
  BY AudioAssumption
<1>2. g % VOICE_GENERATIONS = g
  BY <1>1
<1>3. g + 1 < VOICE_GENERATIONS => (g + 1) % VOICE_GENERATIONS = g + 1
  BY <1>1
<1>4. g + 1 = VOICE_GENERATIONS => (g + 1) % VOICE_GENERATIONS = 0
  BY <1>1
<1> QED
  BY <1>1, <1>2, <1>3, <1>4 DEF NextGeneration

LEMMA FreedFields ==
    ASSUME NEW s \in VoiceSlots
    PROVE  /\ FreeSlotState(s) \in VoiceSlots /\ ~FreeSlotState(s).busy
           /\ FreeSlotState(s).voice = s.voice /\ FreeSlotState(s).releases = s.releases + 1
           /\ FreeSlotState(s).generation = NextGeneration(s.generation)
<1>1. PICK x : x = NextGeneration(s.generation)
  OBVIOUS
<1>2. x \in 1 .. VOICE_GENERATIONS - 1
  BY <1>1, VoiceGenerationMoves DEF VoiceSlots
<1>3. PICK t : t = FreeSlotState(s)
  OBVIOUS
<1>4. t \in VoiceSlots
  <2>1. PICK a, c : a = [s EXCEPT !.busy = FALSE, !.looping = FALSE, !.queued = FALSE] /\ c = s.releases + 1
    OBVIOUS
  <2>2. a \in VoiceSlots
    BY <2>1 DEF VoiceSlots
  <2>3. c \in Nat
    BY <2>1 DEF VoiceSlots
  <2>4. PICK d : d = [a EXCEPT !.releases = c]
    OBVIOUS
  <2>5. d \in VoiceSlots
    BY <2>2, <2>3, <2>4 DEF VoiceSlots
  <2>6. [d EXCEPT !.generation = x] \in VoiceSlots
    BY <1>2, <2>5 DEF VoiceSlots
  <2>7. t = [d EXCEPT !.generation = x]
    BY <1>1, <1>3, <2>1, <2>4 DEF FreeSlotState, VoiceSlots
  <2> QED
    BY <2>6, <2>7
<1>5. ~t.busy /\ t.voice = s.voice /\ t.releases = s.releases + 1 /\ t.generation = x
  BY <1>1, <1>3 DEF VoiceSlots, FreeSlotState
<1> QED
  BY <1>1, <1>3, <1>4, <1>5, Zenon

(* A released slot has a generation no handle has.                         *)
LEMMA FreedSound ==
    ASSUME NEW s \in VoiceSlots, NEW i, NEW ids \in Seq(Nat \X Nat), GenerationCounts(s), Past(s, i, ids)
    PROVE  SlotSound(FreeSlotState(s), i, ids)
<1>1. PICK f, g, r : f = FreeSlotState(s) /\ g = s.generation /\ r = s.releases
  OBVIOUS
<1>2. ~f.busy /\ f.releases = r + 1 /\ f.generation = NextGeneration(g) /\ f \in VoiceSlots
  BY <1>1, FreedFields
<1>3. g \in 1 .. VOICE_GENERATIONS - 1 /\ r \in Nat /\ VOICE_GENERATIONS \in Nat
  BY <1>1, AudioAssumption DEF VoiceSlots
<1>4. r + 1 < VOICE_GENERATIONS - 1 => g = r + 1 /\ f.generation = g + 1
  <2>1. r < VOICE_GENERATIONS - 1 => g = r + 1
    BY <1>1 DEF GenerationCounts
  <2>2. g + 1 < VOICE_GENERATIONS => NextGeneration(g) = g + 1
    BY <1>3, VoiceGenerationMoves
  <2> QED
    BY <1>2, <1>3, <2>1, <2>2
<1>5. GenerationCounts(f)
  BY <1>2, <1>3, <1>4 DEF GenerationCounts
<1>6. ASSUME r + 1 < VOICE_GENERATIONS - 1, NEW p \in DOMAIN ids, ids[p] # NullId, ids[p][1] = i - 1
      PROVE  ids[p][2] < f.generation
  <2>1. ids[p][2] <= g
    <3>1. r < VOICE_GENERATIONS - 1
      BY <1>3, <1>6
    <3> QED
      BY <1>1, <1>6, <3>1 DEF Past
  <2>2. ids[p] \in Nat \X Nat
    BY <1>6
  <2>3. ids[p][2] \in Nat
    BY <2>2
  <2> QED
    BY <1>3, <1>4, <1>6, <2>1, <2>3
<1>7. \A p \in DOMAIN ids : ids[p][2] \in Nat
  BY ElementOfSeq
<1>8. Past(f, i, ids)
  BY <1>2, <1>3, <1>4, <1>6, <1>7 DEF Past
<1>9. Present(f, i, ids)
  <2> SUFFICES ASSUME r + 1 < VOICE_GENERATIONS - 1, NEW p \in DOMAIN ids, ids[p] # NullId,
                      ids[p] = << i - 1, f.generation >>
               PROVE  FALSE
    BY <1>2 DEF Present
  <2>1. ids[p][1] = i - 1 /\ ids[p][2] = f.generation
    OBVIOUS
  <2>2. ids[p][2] < f.generation
    BY <1>6, <2>1
  <2>3. ids[p][2] \in Nat
    BY <1>7
  <2> QED
    BY <2>1, <2>2, <2>3
<1>10. Held(f, i, ids)
  BY <1>2 DEF Held
<1> QED
  BY <1>1, <1>5, <1>8, <1>9, <1>10 DEF SlotSound

(* A handle of another slot, or none, is nothing to a slot.                *)
LEMMA OthersKept ==
    ASSUME NEW s, NEW i, NEW ids \in Seq(Nat \X Nat), NEW h, h = NullId \/ h[1] # i - 1
    PROVE  /\ SlotSound(s, i, ids) => SlotSound(s, i, Append(ids, h))
           /\ Past(s, i, ids) => Past(s, i, Append(ids, h))
<1>1. PICK n, l : n = Len(ids) /\ l = Append(ids, h)
  OBVIOUS
<1>2. /\ n \in Nat /\ DOMAIN ids = 1 .. n /\ DOMAIN l = 1 .. n + 1 /\ l[n + 1] = h
      /\ \A p \in 1 .. n : l[p] = ids[p]
  BY <1>1
<1>3. \A p \in DOMAIN l : (p \in DOMAIN ids /\ l[p] = ids[p]) \/ l[p] = h
  BY <1>2
<1>4. Held(s, i, ids) => Held(s, i, l)
  BY <1>2 DEF Held
<1>5. Past(s, i, ids) => Past(s, i, l)
  BY <1>3 DEF Past
<1>6. Present(s, i, ids) => Present(s, i, l)
  <2> SUFFICES ASSUME Present(s, i, ids), s.releases < VOICE_GENERATIONS - 1, NEW p \in DOMAIN l,
                      l[p] # NullId, l[p] = << i - 1, s.generation >>
               PROVE  s.busy /\ s.play = p
    BY DEF Present
  <2>1. l[p][1] = i - 1
    OBVIOUS
  <2>2. p \in DOMAIN ids /\ l[p] = ids[p]
    BY <1>3, <2>1
  <2> QED
    BY <2>2 DEF Present
<1> QED
  BY <1>1, <1>4, <1>5, <1>6 DEF SlotSound

(* A slot that takes a sound, and the sound's handle.                      *)
Playing(s, voice, format, loop, starting, n) ==
    [s EXCEPT !.voice = voice, !.format = format, !.busy = TRUE, !.looping = loop, !.queued = starting, !.play = n]

LEMMA PlayingFields ==
    ASSUME NEW s \in VoiceSlots, NEW voice \in Nat, NEW format \in WaveFormats, NEW loop \in BOOLEAN,
           NEW starting \in BOOLEAN, NEW n \in Nat, NEW t, t = Playing(s, voice, format, loop, starting, n)
    PROVE  /\ t \in VoiceSlots /\ t.busy /\ t.voice = voice /\ t.play = n
           /\ t.releases = s.releases /\ t.generation = s.generation
<1>1. PICK a : a = [s EXCEPT !.voice = voice, !.format = format]
  OBVIOUS
<1>2. a \in VoiceSlots
  <2>1. format \in WaveFormats \cup {"none"}
    OBVIOUS
  <2> QED
    BY <1>1, <2>1 DEF VoiceSlots
<1>3. PICK b : b = [a EXCEPT !.busy = TRUE, !.looping = loop, !.queued = starting]
  OBVIOUS
<1>4. b \in VoiceSlots
  BY <1>2, <1>3 DEF VoiceSlots
<1>5. [b EXCEPT !.play = n] \in VoiceSlots
  BY <1>4 DEF VoiceSlots
<1>6. t = [b EXCEPT !.play = n]
  BY <1>1, <1>3 DEF Playing, VoiceSlots
<1>7. /\ t.busy /\ t.voice = voice /\ t.play = n
      /\ t.releases = s.releases /\ t.generation = s.generation
  BY DEF Playing, VoiceSlots
<1> QED
  BY <1>5, <1>6, <1>7

LEMMA PlayingSound ==
    ASSUME NEW s \in VoiceSlots, ~s.busy, NEW i \in Nat \ {0}, NEW ids \in Seq(Nat \X Nat), SlotSound(s, i, ids),
           NEW t \in VoiceSlots, t.busy, t.play = Len(ids) + 1,
           t.releases = s.releases, t.generation = s.generation
    PROVE  /\ SlotSound(t, i, Append(ids, << i - 1, s.generation >>))
           /\ GenerationCounts(t) /\ Past(t, i, ids)
<1>1. PICK n, h, l : n = Len(ids) /\ h = << i - 1, s.generation >> /\ l = Append(ids, h)
  OBVIOUS
<1>2. /\ n \in Nat /\ DOMAIN ids = 1 .. n /\ DOMAIN l = 1 .. n + 1 /\ l[n + 1] = h
      /\ \A p \in 1 .. n : l[p] = ids[p]
  BY <1>1
<1>3. \A p \in DOMAIN l : (p \in DOMAIN ids /\ l[p] = ids[p]) \/ (p = n + 1 /\ l[p] = h)
  <2> SUFFICES ASSUME NEW p \in DOMAIN l, p # n + 1 PROVE p \in DOMAIN ids /\ l[p] = ids[p]
    BY <1>2
  <2>1. p \in 1 .. n
    BY <1>2
  <2> QED
    BY <1>2, <2>1
<1>4. GenerationCounts(t) /\ Past(t, i, ids)
  BY DEF SlotSound, GenerationCounts, Past
<1>5. s.generation \in Nat /\ s.generation <= s.generation /\ h[1] = i - 1 /\ h[2] = s.generation
  BY <1>1, AudioAssumption, SMTT(60) DEF VoiceSlots
<1>6. Past(t, i, l)
  <2> SUFFICES ASSUME t.releases < VOICE_GENERATIONS - 1, NEW p \in DOMAIN l, l[p] # NullId, l[p][1] = i - 1
               PROVE  l[p][2] <= t.generation
    BY DEF Past
  <2>1. CASE p \in DOMAIN ids /\ l[p] = ids[p]
    BY <1>4, <2>1 DEF Past
  <2>2. CASE l[p] = h
    BY <1>5, <2>2
  <2> QED
    BY <1>3, <2>1, <2>2
<1>7. Present(t, i, l)
  <2> SUFFICES ASSUME t.releases < VOICE_GENERATIONS - 1, NEW p \in DOMAIN l, l[p] # NullId,
                      l[p] = << i - 1, t.generation >>
               PROVE  t.busy /\ t.play = p
    BY DEF Present
  <2>1. CASE p \in DOMAIN ids /\ l[p] = ids[p]
    BY <2>1 DEF SlotSound, Present
  <2>2. CASE p = n + 1
    BY <1>1, <2>2
  <2> QED
    BY <1>3, <2>1, <2>2
<1>8. Held(t, i, l)
  <2>1. n + 1 \in DOMAIN l /\ l[n + 1] = << i - 1, t.generation >>
    BY <1>1, <1>2
  <2> QED
    BY <1>1, <2>1 DEF Held
<1> QED
  BY <1>1, <1>4, <1>6, <1>7, <1>8 DEF SlotSound

LEMMA SameSound ==
    ASSUME NEW s, NEW t, NEW i, NEW ids, SlotSound(s, i, ids), t.busy = s.busy, t.play = s.play,
           t.releases = s.releases, t.generation = s.generation
    PROVE  SlotSound(t, i, ids)
<1>1. GenerationCounts(t)
  BY DEF SlotSound, GenerationCounts
<1>2. Held(t, i, ids)
  BY DEF SlotSound, Held
<1>3. Past(t, i, ids) /\ Present(t, i, ids)
  BY DEF SlotSound, Past, Present
<1> QED
  BY <1>1, <1>2, <1>3 DEF SlotSound

-----------------------------------------------------------------------------
(* All slots.                                                              *)

PoolSound(slots, ids) ==
    /\ slots \in Seq(VoiceSlots) /\ ids \in Seq(Nat \X Nat)
    /\ SlotsSound(slots, ids) /\ HandlesPlaced(slots, ids)

LEMMA SlotTakes ==
    ASSUME NEW slots, NEW ids, PoolSound(slots, ids), NEW at \in DOMAIN slots, NEW t \in VoiceSlots,
           NEW h \in Nat \X Nat, h = NullId \/ h[1] = at - 1, SlotSound(t, at, Append(ids, h))
    PROVE  PoolSound([slots EXCEPT ![at] = t], Append(ids, h))
<1>1. PICK z, l, n : z = [slots EXCEPT ![at] = t] /\ l = Append(ids, h) /\ n = Len(ids)
  OBVIOUS
<1>2. /\ slots \in Seq(VoiceSlots) /\ ids \in Seq(Nat \X Nat)
      /\ SlotsSound(slots, ids) /\ HandlesPlaced(slots, ids)
  BY DEF PoolSound
<1>3. /\ z \in Seq(VoiceSlots) /\ DOMAIN z = DOMAIN slots
      /\ z[at] = t /\ \A i \in DOMAIN slots : i # at => z[i] = slots[i]
  BY <1>1, <1>2
<1>4. /\ l \in Seq(Nat \X Nat) /\ n \in Nat /\ DOMAIN ids = 1 .. n /\ DOMAIN l = 1 .. n + 1 /\ l[n + 1] = h
      /\ \A p \in 1 .. n : l[p] = ids[p]
  BY <1>1, <1>2
<1>5. SlotsSound(z, l)
  <2> SUFFICES ASSUME NEW i \in DOMAIN slots PROVE SlotSound(z[i], i, l)
    BY <1>3 DEF SlotsSound
  <2>1. CASE i = at
    BY <1>1, <1>3, <2>1
  <2>2. CASE i # at
    <3>1. SlotSound(slots[i], i, ids) /\ z[i] = slots[i]
      BY <1>2, <1>3, <2>2 DEF SlotsSound
    <3>2. i \in Nat /\ at \in Nat
      BY <1>2
    <3>3. h = NullId \/ h[1] # i - 1
      BY <2>2, <3>2
    <3>4. SlotSound(slots[i], i, Append(ids, h))
      BY <1>2, <3>1, <3>3, OthersKept
    <3> QED
      BY <1>1, <3>1, <3>4
  <2> QED
    BY <2>1, <2>2
<1>6. HandlesPlaced(z, l)
  <2> SUFFICES ASSUME NEW p \in DOMAIN l, l[p] # NullId PROVE l[p][1] + 1 \in DOMAIN slots
    BY <1>3 DEF HandlesPlaced
  <2>1. CASE p = n + 1
    <3>1. h[1] = at - 1 /\ at \in Nat
      BY <1>2, <1>4, <2>1
    <3>2. h[1] + 1 = at
      BY <3>1
    <3> QED
      BY <1>4, <2>1, <3>2
  <2>2. CASE p # n + 1
    <3>1. DOMAIN l = 1 .. n + 1 /\ n \in Nat
      BY <1>4
    <3>2. p \in 1 .. n
      BY <2>2, <3>1
    <3>3. p \in DOMAIN ids
      BY <1>4, <3>2
    <3>4. l[p] = ids[p]
      BY <1>4, <3>2
    <3>5. ids[p] # NullId
      BY <3>4
    <3>6. ids[p][1] + 1 \in DOMAIN slots
      BY <1>2, <3>3, <3>5 DEF HandlesPlaced
    <3> QED
      BY <3>4, <3>6
  <2> QED
    BY <2>1, <2>2
<1> QED
  BY <1>1, <1>3, <1>4, <1>5, <1>6 DEF PoolSound

(* A voice is replaced in one slot, or in none.                            *)
LEMMA VoiceReplaced ==
    ASSUME NEW slots \in Seq(VoiceSlots), NEW vs, NEW made \in Nat, VoicesAre(slots, vs, made),
           NEW at \in DOMAIN slots, NEW t \in VoiceSlots, NEW more \in Nat, made <= more,
           t.voice = 0 \/ (t.voice = more /\ made < more)
    PROVE  VoicesAre([slots EXCEPT ![at] = t], (vs \ {slots[at].voice}) \cup ({t.voice} \ {NoVoice}), more)
<1>1. PICK z, old, v : z = [slots EXCEPT ![at] = t] /\ old = slots[at].voice /\ v = t.voice
  OBVIOUS
<1>2. /\ DOMAIN z = DOMAIN slots /\ z[at].voice = v
      /\ \A i \in DOMAIN slots : i # at => z[i].voice = slots[i].voice
      /\ \A i \in DOMAIN slots : slots[i].voice \in Nat /\ slots[i].voice <= made
      /\ v \in Nat
  <2>1. \A i \in DOMAIN slots : slots[i] \in VoiceSlots
    BY ElementOfSeq
  <2> QED
    BY <1>1, <2>1 DEF VoicesAre, VoiceSlots
<1>3. \A i, j \in DOMAIN slots : i # j /\ slots[i].voice # NoVoice => slots[i].voice # slots[j].voice
  BY DEF VoicesAre
<1>4. \A i \in DOMAIN z : z[i].voice <= more
  BY <1>1, <1>2
<1>5. \A i, j \in DOMAIN z : i # j /\ z[i].voice # NoVoice => z[i].voice # z[j].voice
  BY <1>1, <1>2, <1>3 DEF NoVoice
<1>6. vs = { slots[i].voice : i \in DOMAIN slots } \ {NoVoice}
  BY DEF VoicesAre
<1>7. { z[i].voice : i \in DOMAIN z } \ {NoVoice} = (vs \ {old}) \cup ({v} \ {NoVoice})
  <2>1. ASSUME NEW x, x # NoVoice, NEW i \in DOMAIN slots, x = z[i].voice
        PROVE  x \in (vs \ {old}) \cup ({v} \ {NoVoice})
    <3>1. CASE i = at
      BY <1>2, <2>1, <3>1
    <3>2. CASE i # at
      <4>1. x = slots[i].voice /\ x # old
        BY <1>1, <1>2, <1>3, <2>1, <3>2
      <4> QED
        BY <1>6, <2>1, <4>1
    <3> QED
      BY <3>1, <3>2
  <2>2. ASSUME NEW x \in vs, x # old
        PROVE  x # NoVoice /\ \E i \in DOMAIN slots : x = z[i].voice
    <3>1. PICK i \in DOMAIN slots : x = slots[i].voice
      BY <1>6, <2>2
    <3>2. i # at
      BY <1>1, <2>2, <3>1
    <3> QED
      BY <1>2, <1>6, <2>2, <3>1, <3>2
  <2>3. v = z[at].voice
    BY <1>2
  <2> QED
    BY <1>2, <2>1, <2>2, <2>3
<1> QED
  BY <1>1, <1>4, <1>5, <1>7 DEF VoicesAre

LEMMA VoicesKept ==
    ASSUME NEW slots, NEW z, NEW vs, NEW made, VoicesAre(slots, vs, made),
           DOMAIN z = DOMAIN slots, \A i \in DOMAIN slots : z[i].voice = slots[i].voice
    PROVE  VoicesAre(z, vs, made)
BY DEF VoicesAre

LEMMA SlotsFreed ==
    ASSUME NEW slots, NEW ids, PoolSound(slots, ids), NEW vs, NEW made, VoicesAre(slots, vs, made),
           NEW z \in Seq(VoiceSlots), DOMAIN z = DOMAIN slots,
           \A i \in DOMAIN slots : z[i] = slots[i] \/ z[i] = FreeSlotState(slots[i])
    PROVE  PoolSound(z, ids) /\ VoicesAre(z, vs, made)
<1>1. /\ slots \in Seq(VoiceSlots) /\ ids \in Seq(Nat \X Nat)
      /\ SlotsSound(slots, ids) /\ HandlesPlaced(slots, ids)
  BY DEF PoolSound
<1>2. ASSUME NEW i \in DOMAIN slots
      PROVE  SlotSound(z[i], i, ids) /\ z[i].voice = slots[i].voice
  <2>1. SlotSound(slots[i], i, ids) /\ slots[i] \in VoiceSlots
    BY <1>1 DEF SlotsSound
  <2>2. CASE z[i] = slots[i]
    BY <2>1, <2>2
  <2>3. CASE z[i] = FreeSlotState(slots[i])
    <3>1. SlotSound(FreeSlotState(slots[i]), i, ids)
      BY <1>1, <2>1, FreedSound DEF SlotSound
    <3>2. FreeSlotState(slots[i]).voice = slots[i].voice
      BY <2>1, FreedFields
    <3> QED
      BY <2>3, <3>1, <3>2
  <2> QED
    BY <2>2, <2>3
<1>3. SlotsSound(z, ids) /\ HandlesPlaced(z, ids)
  BY <1>1, <1>2 DEF SlotsSound, HandlesPlaced
<1>4. VoicesAre(z, vs, made)
  BY <1>2, VoicesKept
<1> QED
  BY <1>1, <1>3, <1>4 DEF PoolSound

(* acquire takes a slot that is free, or a new one at the end; a voice it  *)
(* keeps is there.                                                         *)
LEMMA TargetIs ==
    ASSUME NEW format, NEW routed, m_slots \in Seq(VoiceSlots), NEW t, t = Target(format, routed)
    PROVE  /\ t.new \in BOOLEAN
           /\ t.at \in Free \/ (t.at = Len(m_slots) + 1 /\ t.new)
           /\ ~t.new => m_slots[t.at].voice # NoVoice
<1>1. PICK match, empty, other :
        /\ match = { i \in Free : m_slots[i].voice # NoVoice /\ m_slots[i].format = format }
        /\ empty = { i \in Free : m_slots[i].voice = NoVoice }
        /\ other = { i \in Free : m_slots[i].voice # NoVoice /\ m_slots[i].format # format }
  OBVIOUS
<1>2. Free \subseteq Nat
  BY DEF Free
<1>3. ASSUME NEW S, S \subseteq Free, S # {} PROVE First(S) \in S
  <2>1. S \subseteq Nat
    BY <1>2, <1>3
  <2>2. \E m \in S : \A k \in S : m <= k
    BY <1>3, <2>1, LeastNumber
  <2> QED
    BY <2>2 DEF First
<1>4. match \cap routed \subseteq Free /\ empty \subseteq Free /\ other \subseteq Free
  BY <1>1
<1>5. t = CASE match \cap routed # {} -> [at |-> First(match \cap routed), new |-> FALSE]
            [] match \cap routed = {} /\ empty # {} -> [at |-> First(empty), new |-> TRUE]
            [] match \cap routed = {} /\ empty = {} /\ other # {} -> [at |-> First(other), new |-> TRUE]
            [] OTHER -> [at |-> Len(m_slots) + 1, new |-> TRUE]
  BY <1>1 DEF Target
<1>6. CASE match \cap routed # {}
  <2>1. t = [at |-> First(match \cap routed), new |-> FALSE]
    BY <1>5, <1>6
  <2>2. First(match \cap routed) \in match
    BY <1>3, <1>4, <1>6
  <2> QED
    BY <1>1, <2>1, <2>2
<1>7. CASE match \cap routed = {} /\ empty # {}
  <2>1. t = [at |-> First(empty), new |-> TRUE]
    BY <1>5, <1>7
  <2>2. First(empty) \in empty
    BY <1>3, <1>4, <1>7
  <2> QED
    BY <1>4, <2>1, <2>2
<1>8. CASE match \cap routed = {} /\ empty = {} /\ other # {}
  <2>1. t = [at |-> First(other), new |-> TRUE]
    BY <1>5, <1>8
  <2>2. First(other) \in other
    BY <1>3, <1>4, <1>8
  <2> QED
    BY <1>4, <2>1, <2>2
<1>9. CASE match \cap routed = {} /\ empty = {} /\ other = {}
  <2>1. t = [at |-> Len(m_slots) + 1, new |-> TRUE]
    BY <1>5, <1>9
  <2> QED
    BY <2>1
<1> QED
  BY <1>6, <1>7, <1>8, <1>9

(* The slot to take, in the slots with a new one if it is.                 *)
LEMMA GrownIs ==
    ASSUME PoolSound(m_slots, playIds), VoicesAre(m_slots, voices, voicesMade), voicesMade \in Nat,
           NEW at, at \in Free \/ at = Len(m_slots) + 1, NEW slots, slots = Grown(at)
    PROVE  /\ PoolSound(slots, playIds) /\ VoicesAre(slots, voices, voicesMade)
           /\ at \in DOMAIN slots /\ at \in Nat \ {0} /\ ~slots[at].busy
<1>1. /\ m_slots \in Seq(VoiceSlots) /\ playIds \in Seq(Nat \X Nat)
      /\ SlotsSound(m_slots, playIds) /\ HandlesPlaced(m_slots, playIds)
  BY DEF PoolSound
<1>2. CASE at \in Free
  <2>1. at \in DOMAIN m_slots /\ ~m_slots[at].busy /\ at \in Nat \ {0} /\ ~(at > Len(m_slots))
    BY <1>1, <1>2 DEF Free
  <2>2. slots = m_slots
    BY <2>1 DEF Grown
  <2> QED
    BY <2>1, <2>2
<1>3. CASE at = Len(m_slots) + 1
  <2>1. PICK n : n = Len(m_slots)
    OBVIOUS
  <2>2. slots = Append(m_slots, NewSlot) /\ n \in Nat /\ at = n + 1
    BY <1>1, <1>3, <2>1 DEF Grown
  <2>3. NewSlot \in VoiceSlots
    BY AudioAssumption DEF NewSlot, NoVoice, VoiceSlots
  <2>4. /\ slots \in Seq(VoiceSlots) /\ DOMAIN m_slots = 1 .. n /\ DOMAIN slots = 1 .. n + 1
        /\ slots[n + 1] = NewSlot /\ \A i \in 1 .. n : slots[i] = m_slots[i]
    BY <1>1, <2>1, <2>2, <2>3
  <2>5. NewSlot.voice = NoVoice /\ ~NewSlot.busy /\ NewSlot.generation = 1 /\ NewSlot.releases = 0
    BY DEF NewSlot
  <2>6. SlotSound(NewSlot, at, playIds)
    <3>1. \A p \in DOMAIN playIds : playIds[p] # NullId => playIds[p][1] # at - 1
      <4> SUFFICES ASSUME NEW p \in DOMAIN playIds, playIds[p] # NullId, playIds[p][1] = at - 1 PROVE FALSE
        OBVIOUS
      <4>1. playIds[p][1] + 1 \in 1 .. n
        BY <1>1, <2>4 DEF HandlesPlaced
      <4> QED
        BY <2>2, <4>1
    <3>2. Past(NewSlot, at, playIds)
      BY <3>1 DEF Past
    <3>3. Present(NewSlot, at, playIds)
      BY <3>1 DEF Present
    <3> QED
      BY <2>5, <3>2, <3>3 DEF SlotSound, GenerationCounts, Held
  <2>7. SlotsSound(slots, playIds)
    <3> SUFFICES ASSUME NEW i \in 1 .. n + 1 PROVE SlotSound(slots[i], i, playIds)
      BY <2>4 DEF SlotsSound
    <3>1. CASE i = n + 1
      BY <2>2, <2>4, <2>6, <3>1
    <3>2. CASE i # n + 1
      <4>1. i \in 1 .. n
        BY <2>2, <3>2
      <4> QED
        BY <1>1, <2>4, <4>1 DEF SlotsSound
    <3> QED
      BY <3>1, <3>2
  <2>8. HandlesPlaced(slots, playIds)
    BY <1>1, <2>2, <2>4 DEF HandlesPlaced
  <2>9. VoicesAre(slots, voices, voicesMade)
    <3>1. { slots[i].voice : i \in DOMAIN slots } \ {NoVoice}
             = { m_slots[i].voice : i \in DOMAIN m_slots } \ {NoVoice}
      BY <2>2, <2>4, <2>5
    <3>2. \A i, j \in DOMAIN slots : i # j /\ slots[i].voice # NoVoice => slots[i].voice # slots[j].voice
      <4>1. \A i \in DOMAIN slots : (i \in DOMAIN m_slots /\ slots[i] = m_slots[i]) \/ slots[i].voice = NoVoice
        <5> SUFFICES ASSUME NEW i \in 1 .. n + 1, i # n + 1 PROVE i \in 1 .. n /\ slots[i] = m_slots[i]
          BY <2>4, <2>5
        <5>1. i \in 1 .. n
          BY <2>2
        <5> QED
          BY <2>4, <5>1
      <4> QED
        BY <4>1 DEF VoicesAre
    <3>3. \A i \in DOMAIN slots : slots[i].voice <= voicesMade
      <4> SUFFICES ASSUME NEW i \in 1 .. n + 1 PROVE slots[i].voice <= voicesMade
        BY <2>4
      <4>1. CASE i = n + 1
        BY <2>4, <2>5, <4>1 DEF NoVoice
      <4>2. CASE i # n + 1
        <5>1. i \in 1 .. n
          BY <2>2, <4>2
        <5> QED
          BY <2>4, <5>1 DEF VoicesAre
      <4> QED
        BY <4>1, <4>2
    <3> QED
      BY <3>1, <3>2, <3>3 DEF VoicesAre
  <2>10. at \in DOMAIN slots /\ at \in Nat \ {0} /\ ~slots[at].busy
    BY <2>2, <2>4, <2>5
  <2> QED
    BY <1>1, <2>4, <2>7, <2>8, <2>9, <2>10 DEF PoolSound
<1> QED
  BY <1>2, <1>3

-----------------------------------------------------------------------------
(* The steps.                                                              *)

LEMMA AudioStart == AudioInit => AudioIInv
<1> SUFFICES ASSUME AudioInit PROVE AudioIInv
  OBVIOUS
<1>1. AudioTypeOK
  <2>1. m_clips = << >> /\ m_slots = << >> /\ playIds = << >> /\ voicesMade = 0 /\ starts = 0
    BY DEF AudioInit
  <2>2. m_clips \in Seq(WaveFormats) /\ m_slots \in Seq(VoiceSlots) /\ playIds \in Seq(Nat \X Nat)
    BY <2>1, EmptySeq
  <2>3. m_engine \in BOOLEAN /\ mixer \in BOOLEAN /\ m_initialized \in BOOLEAN
    BY Zenon DEF AudioInit
  <2> QED
    BY <2>1, <2>2, <2>3 DEF AudioTypeOK
<1>2. LifeSound
  BY DEF AudioInit, LifeSound
<1>3. SlotsSound(m_slots, playIds) /\ VoicesAre(m_slots, voices, voicesMade)
  BY DEF AudioInit, SlotsSound, VoicesAre
<1>4. ~m_initialized
  BY DEF AudioInit
<1> QED
  BY <1>1, <1>2, <1>3, <1>4 DEF AudioIInv

LEMMA AudioPool ==
    ASSUME AudioIInv
    PROVE  /\ m_initialized => PoolSound(m_slots, playIds)
           /\ m_slots \in Seq(VoiceSlots) /\ playIds \in Seq(Nat \X Nat) /\ voicesMade \in Nat
BY DEF AudioIInv, AudioTypeOK, PoolSound

LEMMA EndedSound ==
    ASSUME AudioIInv, ShutdownAll
    PROVE  /\ m_engine' \in BOOLEAN /\ mixer' \in BOOLEAN /\ m_initialized' \in BOOLEAN
           /\ m_clips' \in Seq(WaveFormats) /\ m_slots' = << >> /\ voices' = {}
           /\ m_engine' = m_initialized' /\ mixer' = m_initialized' /\ ~m_initialized'
<1>1. voices \subseteq { m_slots[i].voice : i \in DOMAIN m_slots }
  BY DEF AudioIInv, VoicesAre
<1>2. voices' = {}
  BY <1>1 DEF ShutdownAll
<1>3. m_slots' = << >> /\ mixer' = FALSE /\ m_engine' = FALSE /\ m_initialized' = FALSE /\ m_clips' = << >>
  BY DEF ShutdownAll
<1>4. m_clips' \in Seq(WaveFormats)
  BY <1>3, EmptySeq
<1>5. m_engine' \in BOOLEAN /\ mixer' \in BOOLEAN /\ m_initialized' \in BOOLEAN
  BY <1>3, Zenon
<1>6. m_engine' = m_initialized' /\ mixer' = m_initialized' /\ ~m_initialized'
  BY <1>3, Zenon
<1> QED
  BY <1>2, <1>3, <1>4, <1>5, <1>6

LEMMA NoSlotsSound ==
    ASSUME NEW slots, slots = << >>, NEW vs, vs = {}, NEW ids, NEW made
    PROVE  SlotsSound(slots, ids) /\ VoicesAre(slots, vs, made)
BY DEF SlotsSound, VoicesAre

LEMMA InitializeStep ==
    ASSUME AudioIInv, Initialize
    PROVE  AudioIInv'
<1>1. starts = 0 /\ starts' = 1
  BY AudioAssumption DEF AudioIInv, AudioTypeOK, Initialize
<1>2. playIds = << >> /\ m_slots = << >> /\ voices = {} /\ ~m_initialized /\ ~m_engine /\ ~mixer
  BY <1>1 DEF AudioIInv, LifeSound
<1>3. playIds' = << >> /\ voicesMade' = voicesMade /\ voicesMade \in Nat
  BY <1>2 DEF Initialize, AudioIInv, AudioTypeOK
<1>4. /\ m_engine' \in BOOLEAN /\ mixer' \in BOOLEAN /\ m_initialized' \in BOOLEAN
      /\ m_clips' \in Seq(WaveFormats) /\ m_slots' = << >> /\ voices' = {}
      /\ m_engine' = m_initialized' /\ mixer' = m_initialized'
  <2>1. CASE m_engine' = TRUE /\ mixer' = TRUE /\ m_initialized' = TRUE /\ m_clips' = << >>
             /\ UNCHANGED << m_slots, voices >>
    BY <1>2, <2>1
  <2>2. CASE ShutdownAll
    BY <2>2, EndedSound
  <2>3. CASE UNCHANGED << m_engine, mixer, m_initialized, m_clips, m_slots, voices >>
    BY <1>2, <2>3 DEF AudioIInv, AudioTypeOK, LifeSound
  <2> QED
    BY <2>1, <2>2, <2>3 DEF Initialize
<1>5. AudioTypeOK'
  BY <1>1, <1>3, <1>4 DEF AudioTypeOK
<1>6. LifeSound'
  BY <1>1, <1>4 DEF LifeSound
<1>7. SlotsSound(m_slots', playIds') /\ VoicesAre(m_slots', voices', voicesMade')
  BY <1>4, NoSlotsSound
<1>8. HandlesPlaced(m_slots', playIds')
  BY <1>3 DEF HandlesPlaced
<1> QED
  BY <1>5, <1>6, <1>7, <1>8 DEF AudioIInv

LEMMA ShutdownStep ==
    ASSUME AudioIInv, Shutdown
    PROVE  AudioIInv'
<1>1. /\ m_engine' \in BOOLEAN /\ mixer' \in BOOLEAN /\ m_initialized' \in BOOLEAN
      /\ m_clips' \in Seq(WaveFormats) /\ m_slots' = << >> /\ voices' = {}
      /\ m_engine' = m_initialized' /\ mixer' = m_initialized' /\ ~m_initialized'
  BY EndedSound DEF Shutdown
<1>2. voicesMade' = voicesMade /\ playIds' = playIds /\ starts' = starts
  BY DEF Shutdown
<1>3. AudioTypeOK'
  BY <1>1, <1>2 DEF AudioIInv, AudioTypeOK
<1>4. LifeSound'
  BY <1>1, <1>2 DEF AudioIInv, LifeSound
<1>5. SlotsSound(m_slots', playIds') /\ VoicesAre(m_slots', voices', voicesMade')
  BY <1>1, NoSlotsSound
<1> QED
  BY <1>1, <1>3, <1>4, <1>5 DEF AudioIInv

(* A step of the pool while the engine runs.                               *)
LEMMA PoolStep ==
    ASSUME AudioIInv, m_initialized, UNCHANGED << m_engine, mixer, m_initialized, starts >>,
           m_clips' \in Seq(WaveFormats), voicesMade' \in Nat,
           PoolSound(m_slots', playIds'), VoicesAre(m_slots', voices', voicesMade')
    PROVE  AudioIInv'
<1>1. AudioTypeOK'
  BY DEF AudioIInv, AudioTypeOK, PoolSound
<1>2. LifeSound'
  BY DEF AudioIInv, LifeSound
<1> QED
  BY <1>1, <1>2 DEF AudioIInv, PoolSound

LEMMA LoadClipStep ==
    ASSUME AudioIInv, NEW format \in WaveFormats, LoadClip(format)
    PROVE  AudioIInv'
<1>1. /\ m_initialized /\ UNCHANGED << m_engine, mixer, m_initialized, starts >>
      /\ m_slots' = m_slots /\ playIds' = playIds /\ voices' = voices /\ voicesMade' = voicesMade
  BY DEF LoadClip
<1>2. m_clips' \in Seq(WaveFormats)
  BY DEF LoadClip, AudioIInv, AudioTypeOK
<1>3. PoolSound(m_slots', playIds') /\ VoicesAre(m_slots', voices', voicesMade') /\ voicesMade' \in Nat
  BY <1>1, AudioPool DEF AudioIInv
<1> QED
  BY <1>1, <1>2, <1>3, PoolStep

(* Slots that are released, or not, whether or not the engine runs: there  *)
(* are none when it does not.                                              *)
LEMMA ReleasedStep ==
    ASSUME AudioIInv, UNCHANGED << m_engine, mixer, m_initialized, m_clips, voices, voicesMade, playIds, starts >>,
           m_initialized, m_slots' \in Seq(VoiceSlots), DOMAIN m_slots' = DOMAIN m_slots,
           \A i \in DOMAIN m_slots : m_slots'[i] = m_slots[i] \/ m_slots'[i] = FreeSlotState(m_slots[i])
    PROVE  AudioIInv'
<1>1. PoolSound(m_slots, playIds) /\ VoicesAre(m_slots, voices, voicesMade) /\ voicesMade \in Nat
  BY AudioPool DEF AudioIInv
<1>2. PICK z : z = m_slots'
  OBVIOUS
<1>3. /\ z \in Seq(VoiceSlots) /\ DOMAIN z = DOMAIN m_slots
      /\ \A i \in DOMAIN m_slots : z[i] = m_slots[i] \/ z[i] = FreeSlotState(m_slots[i])
  BY <1>2
<1>4. PoolSound(z, playIds) /\ VoicesAre(z, voices, voicesMade)
  BY <1>1, <1>3, SlotsFreed
<1>5. PoolSound(m_slots', playIds') /\ VoicesAre(m_slots', voices', voicesMade') /\ voicesMade' \in Nat
  BY <1>1, <1>2, <1>4
<1>6. m_clips' \in Seq(WaveFormats)
  BY DEF AudioIInv, AudioTypeOK
<1> QED
  BY <1>5, <1>6, PoolStep

LEMMA SlotsMeanRunning ==
    ASSUME AudioIInv, NEW i \in DOMAIN m_slots
    PROVE  m_initialized
BY DEF AudioIInv, LifeSound

LEMMA StopVoiceStep ==
    ASSUME AudioIInv, NEW id, StopVoice(id)
    PROVE  AudioIInv'
<1>1. PICK at : at = ResolveVoice(id)
  OBVIOUS
<1>2. at # 0 /\ at \in DOMAIN m_slots
  BY <1>1 DEF StopVoice, ResolveVoice
<1>3. m_slots \in Seq(VoiceSlots) /\ m_initialized
  BY <1>2, AudioPool, SlotsMeanRunning
<1>4. PICK f : f = FreeSlotState(m_slots[at])
  OBVIOUS
<1>5. m_slots[at] \in VoiceSlots
  BY <1>2, <1>3
<1>6. f \in VoiceSlots
  BY <1>4, <1>5, FreedFields
<1>7. m_slots' = [m_slots EXCEPT ![at] = f]
  BY <1>1, <1>4 DEF StopVoice
<1>8. /\ m_slots' \in Seq(VoiceSlots) /\ DOMAIN m_slots' = DOMAIN m_slots
      /\ \A i \in DOMAIN m_slots : m_slots'[i] = m_slots[i] \/ m_slots'[i] = FreeSlotState(m_slots[i])
  BY <1>2, <1>3, <1>4, <1>6, <1>7
<1> QED
  BY <1>3, <1>8, ReleasedStep DEF StopVoice

LEMMA UpdateStep ==
    ASSUME AudioIInv, Update
    PROVE  AudioIInv'
<1>1. m_slots \in Seq(VoiceSlots) /\ m_initialized
  BY AudioPool DEF Update
<1>2. PICK n : n = Len(m_slots) /\ n \in Nat /\ DOMAIN m_slots = 1 .. n
  BY <1>1
<1>3. \A i \in 1 .. n : m_slots[i] \in VoiceSlots
  BY <1>1, <1>2
<1>4. \A i \in 1 .. n : FreeSlotState(m_slots[i]) \in VoiceSlots
  BY <1>3, FreedFields
<1>5. m_slots' = [i \in 1 .. n |-> IF m_slots[i].busy /\ ~m_slots[i].looping /\ ~m_slots[i].queued
                                   THEN FreeSlotState(m_slots[i]) ELSE m_slots[i]]
  BY <1>2 DEF Update
<1>6. /\ DOMAIN m_slots' = 1 .. n
      /\ \A i \in 1 .. n : m_slots'[i] = m_slots[i] \/ m_slots'[i] = FreeSlotState(m_slots[i])
  BY <1>5
<1>7. m_slots' \in Seq(VoiceSlots)
  <2>1. m_slots' \in [1 .. n -> VoiceSlots]
    BY <1>3, <1>4, <1>5
  <2> QED
    BY <1>2, <2>1, SeqDef
<1> QED
  BY <1>1, <1>2, <1>6, <1>7, ReleasedStep DEF Update

LEMMA BufferEndsStep ==
    ASSUME AudioIInv, NEW at \in DOMAIN m_slots, BufferEnds(at)
    PROVE  AudioIInv'
<1>1. m_slots \in Seq(VoiceSlots) /\ m_initialized /\ PoolSound(m_slots, playIds) /\ voicesMade \in Nat
  BY AudioPool, SlotsMeanRunning
<1>2. PICK s, t : s = m_slots[at] /\ t = [s EXCEPT !.queued = FALSE]
  OBVIOUS
<1>3. s \in VoiceSlots
  BY <1>1, <1>2
<1>4. t \in VoiceSlots /\ t.busy = s.busy /\ t.play = s.play /\ t.releases = s.releases
      /\ t.generation = s.generation /\ t.voice = s.voice
  BY <1>2, <1>3 DEF VoiceSlots
<1>5. PICK z : z = [m_slots EXCEPT ![at] = t]
  OBVIOUS
<1>6. m_slots' = z
  BY <1>2, <1>5 DEF BufferEnds
<1>7. /\ z \in Seq(VoiceSlots) /\ DOMAIN z = DOMAIN m_slots /\ z[at] = t
      /\ \A i \in DOMAIN m_slots : i # at => z[i] = m_slots[i]
  BY <1>1, <1>4, <1>5
<1>8. SlotsSound(z, playIds) /\ HandlesPlaced(z, playIds)
  <2>1. SlotSound(s, at, playIds)
    BY <1>1, <1>2 DEF PoolSound, SlotsSound
  <2>2. SlotSound(t, at, playIds)
    BY <1>4, <2>1, SameSound
  <2> QED
    BY <1>1, <1>7, <2>2 DEF PoolSound, SlotsSound, HandlesPlaced
<1>9. VoicesAre(z, voices, voicesMade)
  <2>1. \A i \in DOMAIN m_slots : z[i].voice = m_slots[i].voice
    BY <1>2, <1>4, <1>7
  <2>2. VoicesAre(m_slots, voices, voicesMade)
    BY DEF AudioIInv
  <2> QED
    BY <1>7, <2>1, <2>2, VoicesKept
<1>10. PoolSound(z, playIds)
  BY <1>1, <1>7, <1>8 DEF PoolSound
<1>11. /\ UNCHANGED << m_engine, mixer, m_initialized, starts >>
       /\ m_clips' = m_clips /\ voices' = voices /\ voicesMade' = voicesMade /\ playIds' = playIds
  BY DEF BufferEnds
<1>12. m_clips' \in Seq(WaveFormats)
  BY <1>11 DEF AudioIInv, AudioTypeOK
<1>13. PoolSound(m_slots', playIds') /\ VoicesAre(m_slots', voices', voicesMade') /\ voicesMade' \in Nat
  BY <1>1, <1>6, <1>9, <1>10, <1>11
<1> QED
  BY <1>1, <1>11, <1>12, <1>13, PoolStep

(* What play leaves in the slot it takes.                                  *)
LEMMA TakenSound ==
    ASSUME NEW slots, NEW ids, PoolSound(slots, ids), NEW at \in DOMAIN slots, at \in Nat \ {0},
           NEW s, s = slots[at], ~s.busy,
           NEW voice \in Nat, NEW format \in WaveFormats, NEW loop \in BOOLEAN, NEW starting \in BOOLEAN,
           NEW playing, playing = Playing(s, voice, format, loop, starting, Len(ids) + 1),
           NEW h, h = IF starting THEN MakeVoiceId(at, playing.generation) ELSE NullId,
           NEW t, t = AfterFailure(playing, starting)
    PROVE  /\ t \in VoiceSlots /\ t.voice = voice
           /\ PoolSound([slots EXCEPT ![at] = t], Append(ids, h))
<1>1. s \in VoiceSlots /\ ids \in Seq(Nat \X Nat) /\ SlotSound(s, at, ids) /\ Len(ids) + 1 \in Nat
  BY DEF PoolSound, SlotsSound
<1>2. /\ playing \in VoiceSlots /\ playing.busy /\ playing.voice = voice /\ playing.play = Len(ids) + 1
      /\ playing.releases = s.releases /\ playing.generation = s.generation
  BY <1>1, PlayingFields, SMTT(60)
<1>3. /\ SlotSound(playing, at, Append(ids, << at - 1, s.generation >>))
      /\ GenerationCounts(playing) /\ Past(playing, at, ids)
  BY <1>1, <1>2, PlayingSound
<1>4. s.generation \in 1 .. VOICE_GENERATIONS - 1 /\ VOICE_GENERATIONS \in Nat
  BY <1>1, AudioAssumption DEF VoiceSlots
<1>5. s.generation % VOICE_GENERATIONS = s.generation /\ s.generation \in Nat
  <2>1. PICK g : g = s.generation
    OBVIOUS
  <2>2. g \in 1 .. VOICE_GENERATIONS - 1
    BY <1>4, <2>1
  <2>3. g % VOICE_GENERATIONS = g
    BY <2>2, VoiceGenerationMoves
  <2> QED
    BY <1>4, <2>1, <2>3
<1>6. CASE starting
  <2>1. t = playing /\ h = << at - 1, s.generation >>
    BY <1>2, <1>5, <1>6 DEF AfterFailure, MakeVoiceId
  <2>2. h \in Nat \X Nat /\ h[1] = at - 1
    BY <1>5, <2>1
  <2>3. SlotSound(t, at, Append(ids, h))
    BY <1>3, <2>1
  <2>4. t \in VoiceSlots
    BY <1>2, <2>1
  <2> QED
    BY <1>2, <2>1, <2>2, <2>3, <2>4, SlotTakes
<1>7. CASE ~starting
  <2>1. t = FreeSlotState(playing) /\ h = NullId
    BY <1>7 DEF AfterFailure
  <2>2. h \in Nat \X Nat
    BY <2>1 DEF NullId
  <2>3. SlotSound(t, at, ids)
    BY <1>1, <1>2, <1>3, <2>1, FreedSound
  <2>4. SlotSound(t, at, Append(ids, h))
    BY <1>1, <2>1, <2>3, OthersKept
  <2>5. t \in VoiceSlots /\ t.voice = voice
    BY <1>2, <2>1, FreedFields
  <2> QED
    BY <2>1, <2>2, <2>4, <2>5, SlotTakes
<1> QED
  BY <1>6, <1>7

LEMMA PlayStep ==
    ASSUME AudioIInv, NEW clip, NEW loop \in BOOLEAN, NEW routed, NEW creates \in BOOLEAN, NEW starting \in BOOLEAN,
           Play(clip, loop, routed, creates, starting)
    PROVE  AudioIInv'
<1>1. PICK format, t : format = m_clips[clip] /\ t = Target(format, routed)
  OBVIOUS
<1>2. PICK at, slots : at = t.at /\ slots = Grown(at)
  OBVIOUS
<1>3. PICK s, n : s = slots[at] /\ n = Len(playIds)
  OBVIOUS
<1>4. PICK voice : voice = IF t.new THEN voicesMade + 1 ELSE s.voice
  OBVIOUS
<1>5. PICK playing : playing = Playing(s, voice, format, loop, starting, n + 1)
  OBVIOUS
<1>6. PICK h, u : /\ h = IF starting THEN MakeVoiceId(at, playing.generation) ELSE NullId
                  /\ u = AfterFailure(playing, starting)
  OBVIOUS
<1>7. /\ m_initialized /\ clip \in DOMAIN m_clips
      /\ IF t.new /\ ~creates
         THEN /\ m_slots' = [slots EXCEPT ![at].voice = NoVoice]
              /\ voices' = Replaced(s.voice) /\ voicesMade' = voicesMade
              /\ playIds' = Append(playIds, NullId)
         ELSE /\ m_slots' = [slots EXCEPT ![at] = u]
              /\ voices' = IF t.new THEN Replaced(s.voice) \cup {voice} ELSE voices
              /\ voicesMade' = IF t.new THEN voice ELSE voicesMade
              /\ playIds' = Append(playIds, h)
      /\ UNCHANGED << m_engine, mixer, m_initialized, m_clips, starts >>
  BY <1>1, <1>2, <1>3, <1>4, <1>5, <1>6 DEF Play, Playing
<1>8. /\ PoolSound(m_slots, playIds) /\ VoicesAre(m_slots, voices, voicesMade) /\ voicesMade \in Nat
      /\ m_slots \in Seq(VoiceSlots)
  BY <1>7, AudioPool DEF AudioIInv
<1>9. format \in WaveFormats /\ m_clips' \in Seq(WaveFormats)
  BY <1>1, <1>7 DEF AudioIInv, AudioTypeOK
<1>10. t.new \in BOOLEAN /\ (at \in Free \/ at = Len(m_slots) + 1)
  BY <1>1, <1>2, <1>8, TargetIs
<1>11. /\ PoolSound(slots, playIds) /\ VoicesAre(slots, voices, voicesMade)
       /\ at \in DOMAIN slots /\ at \in Nat \ {0} /\ ~s.busy
  BY <1>2, <1>3, <1>8, <1>10, GrownIs
<1>12. slots \in Seq(VoiceSlots) /\ playIds \in Seq(Nat \X Nat) /\ s \in VoiceSlots /\ SlotSound(s, at, playIds)
  BY <1>3, <1>11 DEF PoolSound, SlotsSound
<1>13. s.voice \in Nat /\ voice \in Nat
  <2>1. s.voice \in Nat
    BY <1>12 DEF VoiceSlots
  <2> QED
    BY <1>4, <1>8, <1>10, <2>1
<1>14. CASE t.new /\ ~creates
  <2>1. PICK x : x = [s EXCEPT !.voice = NoVoice]
    OBVIOUS
  <2>2. /\ x \in VoiceSlots /\ x.voice = 0 /\ x.busy = s.busy /\ x.play = s.play
        /\ x.releases = s.releases /\ x.generation = s.generation
    BY <1>12, <2>1 DEF VoiceSlots, NoVoice
  <2>3. SlotSound(x, at, playIds)
    BY <1>12, <2>2, SameSound
  <2>4. SlotSound(x, at, Append(playIds, NullId)) /\ NullId \in Nat \X Nat
    BY <1>12, <2>3, OthersKept DEF NullId
  <2>5. PoolSound([slots EXCEPT ![at] = x], Append(playIds, NullId))
    BY <1>11, <2>2, <2>4, SlotTakes
  <2>6. VoicesAre([slots EXCEPT ![at] = x], (voices \ {s.voice}) \cup ({x.voice} \ {NoVoice}), voicesMade)
    <3>1. voicesMade <= voicesMade
      BY <1>8
    <3> QED
      BY <1>3, <1>8, <1>11, <1>12, <2>2, <3>1, VoiceReplaced
  <2>7. (voices \ {s.voice}) \cup ({x.voice} \ {NoVoice}) = Replaced(s.voice)
    BY <2>2 DEF Replaced, NoVoice
  <2>8. m_slots' = [slots EXCEPT ![at] = x] /\ playIds' = Append(playIds, NullId)
        /\ voices' = Replaced(s.voice) /\ voicesMade' = voicesMade
    BY <1>3, <1>7, <1>14, <2>1
  <2>9. PoolSound(m_slots', playIds') /\ VoicesAre(m_slots', voices', voicesMade') /\ voicesMade' \in Nat
    BY <1>8, <2>5, <2>6, <2>7, <2>8
  <2> QED
    BY <1>7, <1>9, <2>9, PoolStep
<1>15. CASE ~(t.new /\ ~creates)
  <2>1. /\ m_slots' = [slots EXCEPT ![at] = u]
        /\ voices' = IF t.new THEN Replaced(s.voice) \cup {voice} ELSE voices
        /\ voicesMade' = IF t.new THEN voice ELSE voicesMade
        /\ playIds' = Append(playIds, h)
    BY <1>7, <1>15
  <2>2. u \in VoiceSlots /\ u.voice = voice /\ PoolSound([slots EXCEPT ![at] = u], Append(playIds, h))
    BY <1>3, <1>5, <1>6, <1>9, <1>11, <1>13, TakenSound
  <2>3. CASE t.new
    <3>1. voice = voicesMade + 1 /\ voicesMade <= voice /\ voicesMade < voice /\ voice # 0
      BY <1>4, <1>8, <2>3
    <3>2. VoicesAre([slots EXCEPT ![at] = u], (voices \ {s.voice}) \cup ({u.voice} \ {NoVoice}), voice)
      BY <1>3, <1>8, <1>11, <1>12, <1>13, <2>2, <3>1, VoiceReplaced
    <3>3. (voices \ {s.voice}) \cup ({u.voice} \ {NoVoice}) = Replaced(s.voice) \cup {voice}
      BY <2>2, <3>1 DEF Replaced, NoVoice
    <3>4. PoolSound(m_slots', playIds') /\ VoicesAre(m_slots', voices', voicesMade') /\ voicesMade' \in Nat
      BY <1>13, <2>1, <2>2, <2>3, <3>2, <3>3
    <3> QED
      BY <1>7, <1>9, <3>4, PoolStep
  <2>4. CASE ~t.new
    <3>1. PICK z : z = [slots EXCEPT ![at] = u]
      OBVIOUS
    <3>2. DOMAIN z = DOMAIN slots /\ \A i \in DOMAIN slots : z[i].voice = slots[i].voice
      BY <1>3, <1>4, <2>2, <2>4, <3>1
    <3>3. VoicesAre(z, voices, voicesMade)
      BY <1>11, <3>2, VoicesKept
    <3>4. PoolSound(m_slots', playIds') /\ VoicesAre(m_slots', voices', voicesMade') /\ voicesMade' \in Nat
      BY <1>8, <2>1, <2>2, <2>4, <3>1, <3>3
    <3> QED
      BY <1>7, <1>9, <3>4, PoolStep
  <2> QED
    BY <1>10, <2>3, <2>4
<1> QED
  BY <1>14, <1>15

LEMMA AudioStutter ==
    ASSUME AudioIInv, UNCHANGED audioVars
    PROVE  AudioIInv'
<1>1. /\ m_engine' = m_engine /\ mixer' = mixer /\ m_initialized' = m_initialized /\ m_clips' = m_clips
      /\ m_slots' = m_slots /\ voices' = voices /\ voicesMade' = voicesMade /\ playIds' = playIds /\ starts' = starts
  BY DEF audioVars
<1>2. AudioTypeOK' /\ LifeSound'
  BY <1>1 DEF AudioIInv, AudioTypeOK, LifeSound
<1> QED
  BY <1>1, <1>2 DEF AudioIInv

-----------------------------------------------------------------------------
(* What the engine promises.                                               *)

LEMMA AudioHolds ==
    ASSUME AudioIInv
    PROVE  AudioInv
<1>1. m_slots \in Seq(VoiceSlots) /\ playIds \in Seq(Nat \X Nat)
  BY AudioPool
<1>2. ASSUME NEW i \in DOMAIN m_slots
      PROVE  /\ SlotSound(m_slots[i], i, playIds) /\ m_slots[i] \in VoiceSlots /\ i \in Nat \ {0}
             /\ m_slots[i].generation \in Nat \ {0}
  <2>1. m_slots[i] \in VoiceSlots
    BY <1>1
  <2>2. m_slots[i].generation \in Nat \ {0}
    BY <2>1, AudioAssumption DEF VoiceSlots
  <2> QED
    BY <1>1, <2>1, <2>2 DEF AudioIInv, SlotsSound
<1>3. \A p \in DOMAIN playIds : playIds[p] \in Nat \X Nat
  BY <1>1
<1>4. ASSUME NEW p \in DOMAIN playIds, NEW i, i = ResolveVoice(playIds[p]), i # 0,
             m_slots[i].releases < VOICE_GENERATIONS - 1
      PROVE  m_slots[i].play = p
  <2>1. PICK h : h = playIds[p] /\ h \in Nat \X Nat
    BY <1>3
  <2>2. h # NullId /\ i = h[1] + 1 /\ i \in DOMAIN m_slots /\ m_slots[i].generation = h[2]
    BY <1>4, <2>1 DEF ResolveVoice
  <2>3. h = << i - 1, m_slots[i].generation >>
    BY <2>1, <2>2
  <2> QED
    BY <1>2, <1>4, <2>1, <2>2, <2>3 DEF SlotSound, Present
<1>5. StaleHandlesMiss
  BY <1>4 DEF StaleHandlesMiss
<1>6. PlayingIsHeld
  <2> SUFFICES ASSUME NEW i \in DOMAIN m_slots, m_slots[i].busy
               PROVE  /\ playIds[m_slots[i].play] # NullId
                      /\ ResolveVoice(playIds[m_slots[i].play]) = i
    BY DEF PlayingIsHeld
  <2>1. PICK h, g : h = playIds[m_slots[i].play] /\ g = m_slots[i].generation
    OBVIOUS
  <2>2. h = << i - 1, g >> /\ i \in Nat \ {0} /\ g \in Nat \ {0}
    BY <1>2, <2>1 DEF SlotSound, Held
  <2>3. h # NullId /\ h[1] + 1 = i /\ h[2] = g
    BY <2>2 DEF NullId
  <2> QED
    BY <2>1, <2>3 DEF ResolveVoice
<1>7. VoicesOwned
  BY DEF AudioIInv, VoicesAre, LifeSound, VoicesOwned
<1> QED
  BY <1>5, <1>6, <1>7 DEF AudioInv

(* A handle names the sound it was given for or nothing until the          *)
(* generations of its slot have gone round, every playing sound is held by *)
(* its caller, and XAudio2's voices are those of the slots, whatever call  *)
(* of XAudio2 fails (AudioEngine.cpp Play, VoicePool.cpp).                 *)
THEOREM AudioCorrect == AudioSpec => []AudioInv
<1>1. AudioIInv /\ [AudioNext]_audioVars => AudioIInv'
  <2> SUFFICES ASSUME AudioIInv, [AudioNext]_audioVars PROVE AudioIInv'
    OBVIOUS
  <2>1. CASE Initialize
    BY <2>1, InitializeStep
  <2>2. CASE Shutdown
    BY <2>2, ShutdownStep
  <2>3. CASE Update
    BY <2>3, UpdateStep
  <2>4. ASSUME NEW f \in WaveFormats, LoadClip(f) PROVE AudioIInv'
    BY <2>4, LoadClipStep
  <2>5. ASSUME NEW clip \in 1 .. MAX_CLIPS, NEW loop \in BOOLEAN, NEW creates \in BOOLEAN,
               NEW starting \in BOOLEAN, NEW routed \in {{}, DOMAIN m_slots},
               Play(clip, loop, routed, creates, starting)
        PROVE  AudioIInv'
    BY <2>5, PlayStep
  <2>6. ASSUME NEW p \in DOMAIN playIds, StopVoice(playIds[p]) PROVE AudioIInv'
    BY <2>6, StopVoiceStep
  <2>7. ASSUME NEW i \in DOMAIN m_slots, BufferEnds(i) PROVE AudioIInv'
    BY <2>7, BufferEndsStep
  <2>8. CASE UNCHANGED audioVars
    BY <2>8, AudioStutter
  <2> QED
    BY <2>1, <2>2, <2>3, <2>4, <2>5, <2>6, <2>7, <2>8 DEF AudioNext
<1> QED
  BY <1>1, AudioStart, AudioHolds, PTL DEF AudioSpec

-----------------------------------------------------------------------------
(***************************************************************************)
(* The windows and the commands.                                           *)
(***************************************************************************)
Buttons == UNION { WinButtons(x) : x \in Wins \ PanelWins }
Presses == {NoItem} \cup { << w, i >> : w \in Wins, i \in Buttons }
Menus ==
    [ winOpen : [Wins -> BOOLEAN], zorder : Seq(Wins), drag : Wins \cup {"none"}, press : Presses,
      dd : PanelWins \cup {"none"}, sel : [PanelWins -> Int], quit : BOOLEAN, ready : BOOLEAN ]

(* A drawing order of the windows.                                         *)
InOrder(z) == z \in Seq(Wins) /\ IsInjective(z) /\ ToSet(z) = Wins
Owned(m) == m.dd # "none" => m.winOpen[m.dd]
MenuSound(m) == m \in Menus /\ InOrder(m.zorder) /\ Owned(m)

(* The press that is on is the last one.                                   *)
PressKnown == menu.press # NoItem => menu.press = lastPress
MenuIInv == MenuSound(menu) /\ stored \in [PanelWins -> Int] /\ PressKnown /\ FiresWherePressed

FleetFields == { "selection", "group", "target", "selDragging", "ctxOpen", "ctxTarget", "ctxActions" }
ClassFor(id, me) == ClassifyTarget(Entities[id].kind, Entities[id].owner, me)
(* The rows of the context menu are those of the class its target had when *)
(* it was opened.                                                          *)
RowsFit(f) == f.ctxActions = << >> \/ \E me \in {0, PLAYER} : f.ctxActions = MenuRows(ClassFor(f.ctxTarget, me))
FleetSound(f) == DOMAIN f = FleetFields /\ RowsFit(f)
(* A command has units, and fits its target.                               *)
CommandFits(c) ==
    c # NoCommand =>
        /\ c.units # {}
        /\ c.target # 0 => \E me \in {0, PLAYER} : c.intent \in ToSet(MenuRows(ClassFor(c.target, me)))
FleetIInv == FleetSound(fleet) /\ self \in {0, PLAYER} /\ CommandFits(sent)

UiIInv == MenuIInv /\ FleetIInv /\ PressHasOneOwner /\ m_ptrDown \in BOOLEAN

LEMMA PanelNames ==
    /\ PanelWins \subseteq Wins /\ "none" \notin Wins /\ "MainMenu" \in Wins /\ "Options" \in Wins
    /\ "MainMenu" \notin PanelWins /\ "Options" \notin PanelWins /\ "row" \notin Buttons
    /\ \A w \in Wins : NoItem # << w, "row" >> /\ w # "none"
BY UiAssumption DEF Wins, Buttons, WinButtons, NoItem

LEMMA MenuField ==
    ASSUME NEW m \in Menus
    PROVE  /\ \A x \in [Wins -> BOOLEAN] : [m EXCEPT !.winOpen = x] \in Menus
           /\ \A x \in Seq(Wins) : [m EXCEPT !.zorder = x] \in Menus
           /\ \A x \in Wins \cup {"none"} : [m EXCEPT !.drag = x] \in Menus
           /\ \A x \in Presses : [m EXCEPT !.press = x] \in Menus
           /\ \A x \in PanelWins \cup {"none"} : [m EXCEPT !.dd = x] \in Menus
           /\ \A x \in [PanelWins -> Int] : [m EXCEPT !.sel = x] \in Menus
           /\ [m EXCEPT !.quit = TRUE] \in Menus
BY DEF Menus

-----------------------------------------------------------------------------
(* The drawing order.                                                      *)

LEMMA IndexFound ==
    ASSUME NEW z, InOrder(z), NEW w \in Wins
    PROVE  IndexIn(z, w) \in DOMAIN z /\ z[IndexIn(z, w)] = w
<1>1. \E i \in DOMAIN z : z[i] = w
  BY DEF InOrder, ToSet
<1> QED
  BY <1>1 DEF IndexIn

LEMMA RaisedInOrder ==
    ASSUME NEW z, InOrder(z), NEW w \in Wins
    PROVE  InOrder(Raised(z, w))
<1>1. PICK i, n, r : i = IndexIn(z, w) /\ n = Len(z) /\ r = Raised(z, w)
  OBVIOUS
<1>2. z \in Seq(Wins) /\ n \in Nat /\ DOMAIN z = 1 .. n /\ i \in 1 .. n /\ z[i] = w
  BY <1>1, IndexFound DEF InOrder
<1>3. PICK q : q = RemoveAt(z, i)
  OBVIOUS
<1>4. /\ q \in Seq(Wins) /\ Len(q) = n - 1
      /\ \A j \in 1 .. n - 1 : q[j] = IF j < i THEN z[j] ELSE z[j + 1]
  <2>1. PICK a, b : a = SubSeq(z, 1, i - 1) /\ b = SubSeq(z, i + 1, n)
    OBVIOUS
  <2>2. /\ a \in Seq(Wins) /\ Len(a) = i - 1 /\ \A j \in 1 .. i - 1 : a[j] = z[j]
    BY <1>1, <1>2, <2>1
  <2>3. /\ b \in Seq(Wins) /\ Len(b) = n - i /\ \A j \in 1 .. n - i : b[j] = z[i + j]
    BY <1>1, <1>2, <2>1
  <2>4. q = a \o b
    BY <1>1, <1>3, <2>1 DEF RemoveAt
  <2>5. q \in Seq(Wins) /\ Len(q) = Len(a) + Len(b)
        /\ \A j \in 1 .. Len(a) + Len(b) : q[j] = IF j <= Len(a) THEN a[j] ELSE b[j - Len(a)]
    BY <2>2, <2>3, <2>4, ConcatProperties
  <2>6. ASSUME NEW j \in 1 .. n - 1 PROVE q[j] = IF j < i THEN z[j] ELSE z[j + 1]
    <3>1. q[j] = IF j <= i - 1 THEN a[j] ELSE b[j - (i - 1)]
      BY <1>2, <2>2, <2>3, <2>5
    <3>2. CASE j < i
      BY <1>2, <2>2, <3>1, <3>2
    <3>3. CASE ~(j < i)
      <4>1. j - (i - 1) \in 1 .. n - i /\ i + (j - (i - 1)) = j + 1 /\ ~(j <= i - 1)
        BY <1>2, <3>3
      <4> QED
        BY <2>3, <3>1, <3>3, <4>1
    <3> QED
      BY <3>2, <3>3
  <2> QED
    BY <1>2, <2>2, <2>3, <2>5, <2>6, SMTT(60)
<1>5. r = Append(q, w)
  BY <1>1, <1>3 DEF Raised
<1>6. /\ r \in Seq(Wins) /\ Len(r) = n /\ DOMAIN r = 1 .. n /\ r[n] = w
      /\ \A j \in 1 .. n - 1 : r[j] = IF j < i THEN z[j] ELSE z[j + 1]
  <2>1. Len(q) + 1 = n
    BY <1>2, <1>4
  <2>2. r \in Seq(Wins) /\ Len(r) = n /\ r[n] = w /\ \A j \in 1 .. Len(q) : r[j] = q[j]
    BY <1>4, <1>5, <2>1, AppendProperties
  <2> QED
    BY <1>2, <1>4, <2>2
<1>7. \A a, b \in 1 .. n : z[a] = z[b] => a = b
  BY <1>2 DEF InOrder, IsInjective
<1>8. \A j \in 1 .. n - 1 : \E k \in 1 .. n : r[j] = z[k] /\ k # i /\ (IF j < i THEN k = j ELSE k = j + 1)
  <2> SUFFICES ASSUME NEW j \in 1 .. n - 1
               PROVE  \E k \in 1 .. n : r[j] = z[k] /\ k # i /\ (IF j < i THEN k = j ELSE k = j + 1)
    OBVIOUS
  <2>1. CASE j < i
    BY <1>2, <1>6, <2>1
  <2>2. CASE ~(j < i)
    BY <1>2, <1>6, <2>2
  <2> QED
    BY <2>1, <2>2
<1>9. \A a, b \in 1 .. n : r[a] = r[b] => a = b
  <2> SUFFICES ASSUME NEW a \in 1 .. n, NEW b \in 1 .. n, r[a] = r[b] PROVE a = b
    OBVIOUS
  <2>1. CASE a = n /\ b = n
    BY <2>1
  <2>2. CASE a # n /\ b # n
    <3>1. a \in 1 .. n - 1 /\ b \in 1 .. n - 1
      BY <1>2, <2>2
    <3>2. PICK k \in 1 .. n : r[a] = z[k] /\ k # i /\ (IF a < i THEN k = a ELSE k = a + 1)
      BY <1>8, <3>1
    <3>3. PICK l \in 1 .. n : r[b] = z[l] /\ l # i /\ (IF b < i THEN l = b ELSE l = b + 1)
      BY <1>8, <3>1
    <3>4. k = l
      BY <1>7, <3>2, <3>3
    <3> QED
      BY <1>2, <3>1, <3>2, <3>3, <3>4
  <2>3. CASE a = n /\ b # n
    <3>1. b \in 1 .. n - 1
      BY <1>2, <2>3
    <3>2. PICK l \in 1 .. n : r[b] = z[l] /\ l # i
      BY <1>8, <3>1
    <3> QED
      BY <1>2, <1>6, <1>7, <2>3, <3>2
  <2>4. CASE a # n /\ b = n
    <3>1. a \in 1 .. n - 1
      BY <1>2, <2>4
    <3>2. PICK l \in 1 .. n : r[a] = z[l] /\ l # i
      BY <1>8, <3>1
    <3> QED
      BY <1>2, <1>6, <1>7, <2>4, <3>2
  <2> QED
    BY <2>1, <2>2, <2>3, <2>4
<1>10. ToSet(r) = Wins
  <2>1. ToSet(r) \subseteq Wins
    BY <1>6 DEF ToSet
  <2>2. ASSUME NEW x \in Wins PROVE x \in ToSet(r)
    <3>1. PICK k \in 1 .. n : z[k] = x
      BY <1>2 DEF InOrder, ToSet
    <3>2. CASE k = i
      <4>1. n \in DOMAIN r /\ r[n] = x
        BY <1>2, <1>6, <3>1, <3>2
      <4> QED
        BY <4>1 DEF ToSet
    <3>3. CASE k < i
      <4>1. k \in 1 .. n - 1 /\ r[k] = x
        BY <1>2, <1>6, <3>1, <3>3
      <4> QED
        BY <1>2, <1>6, <4>1 DEF ToSet
    <3>4. CASE k > i
      <4>1. k - 1 \in 1 .. n - 1 /\ ~(k - 1 < i) /\ (k - 1) + 1 = k
        BY <1>2, <3>4
      <4>2. r[k - 1] = x /\ k - 1 \in DOMAIN r
        BY <1>2, <1>6, <3>1, <4>1
      <4> QED
        BY <4>2 DEF ToSet
    <3> QED
      BY <1>2, <3>2, <3>3, <3>4
  <2> QED
    BY <2>1, <2>2
<1> QED
  BY <1>1, <1>6, <1>9, <1>10 DEF InOrder, IsInjective

(* The windows of a new menu.                                              *)
LEMMA PanelsListed == InOrder(<< "MainMenu", "Options" >> \o SetToSeq(PanelWins))
<1>1. PICK c, s : c = Cardinality(PanelWins) /\ s = SetToSeq(PanelWins)
  OBVIOUS
<1>2. IsFiniteSet(PanelWins) /\ c \in Nat
  BY <1>1, UiAssumption, FS_CardinalityType
<1>3. \E f : f \in Bijection(1 .. c, PanelWins)
  BY <1>1, <1>2, FS_CardinalityType DEF ExistsBijection
<1>4. \E f \in [1 .. c -> PanelWins] : IsInjective(f) /\ \A x \in PanelWins : \E i \in 1 .. c : f[i] = x
  BY <1>3 DEF Bijection, Injection, Surjection, IsInjective
<1>5. s \in [1 .. c -> PanelWins] /\ IsInjective(s)
  BY <1>1, <1>4 DEF SetToSeq
<1>6. \A x \in PanelWins : \E i \in 1 .. c : s[i] = x
  <2>1. s \in Injection(1 .. c, PanelWins)
    BY <1>5 DEF Injection, IsInjective
  <2>2. IsFiniteSet(1 .. c) /\ Cardinality(1 .. c) = c
    BY <1>2, FS_Interval
  <2>3. s \in Surjection(1 .. c, PanelWins)
    BY <1>1, <1>2, <2>1, <2>2, FS_Injection
  <2> QED
    BY <2>3 DEF Surjection
<1>7. PICK h, z : h = << "MainMenu", "Options" >> /\ z = h \o s
  OBVIOUS
<1>8. /\ h \in Seq(Wins) /\ Len(h) = 2 /\ h[1] = "MainMenu" /\ h[2] = "Options"
      /\ s \in Seq(Wins) /\ Len(s) = c
  BY <1>2, <1>5, <1>7, PanelNames
<1>9. /\ z \in Seq(Wins) /\ Len(z) = 2 + c
      /\ \A j \in 1 .. 2 + c : z[j] = IF j <= 2 THEN h[j] ELSE s[j - 2]
  BY <1>7, <1>8, ConcatProperties
<1>10. DOMAIN z = 1 .. 2 + c /\ z[1] = "MainMenu" /\ z[2] = "Options"
       /\ \A j \in 3 .. 2 + c : j - 2 \in 1 .. c /\ z[j] = s[j - 2] /\ z[j] \in PanelWins
  BY <1>2, <1>5, <1>8, <1>9
<1>11. IsInjective(z)
  <2> SUFFICES ASSUME NEW a \in 1 .. 2 + c, NEW b \in 1 .. 2 + c, z[a] = z[b] PROVE a = b
    BY <1>10 DEF IsInjective
  <2>1. CASE a \in 3 .. 2 + c /\ b \in 3 .. 2 + c
    <3>1. a - 2 = b - 2
      BY <1>5, <1>10, <2>1 DEF IsInjective
    <3> QED
      BY <2>1, <3>1
  <2>2. CASE a \in {1, 2} /\ b \in {1, 2}
    BY <1>10, <2>2
  <2>3. CASE a \in {1, 2} /\ b \in 3 .. 2 + c
    BY <1>10, <2>3, PanelNames
  <2>4. CASE a \in 3 .. 2 + c /\ b \in {1, 2}
    BY <1>10, <2>4, PanelNames
  <2>5. \A x \in 1 .. 2 + c : x \in {1, 2} \/ x \in 3 .. 2 + c
    BY <1>2
  <2> QED
    BY <2>1, <2>2, <2>3, <2>4, <2>5
<1>12. ToSet(z) = Wins
  <2>1. ToSet(z) \subseteq Wins
    BY <1>9 DEF ToSet
  <2>2. 1 \in DOMAIN z /\ 2 \in DOMAIN z
    BY <1>2, <1>10
  <2>3. ASSUME NEW x \in PanelWins PROVE x \in ToSet(z)
    <3>1. PICK i \in 1 .. c : s[i] = x
      BY <1>6
    <3>2. i + 2 \in 3 .. 2 + c /\ (i + 2) - 2 = i
      BY <1>2
    <3>3. i + 2 \in DOMAIN z /\ z[i + 2] = x
      BY <1>2, <1>10, <3>1, <3>2
    <3> QED
      BY <3>3 DEF ToSet
  <2> QED
    BY <1>10, <2>1, <2>2, <2>3 DEF ToSet, Wins
<1> QED
  BY <1>1, <1>7, <1>9, <1>11, <1>12 DEF InOrder

-----------------------------------------------------------------------------
(* The frontmost window.                                                   *)

LEMMA FrontIs ==
    ASSUME NEW m, MenuSound(m), NEW ws
    PROVE  \/ FrontWin(m, ws) = "none"
           \/ FrontWin(m, ws) \in ws /\ FrontWin(m, ws) \in Wins /\ m.winOpen[FrontWin(m, ws)]
<1>1. PICK z, n : z = m.zorder /\ n = Len(z)
  OBVIOUS
<1>2. z \in Seq(Wins) /\ n \in Nat /\ DOMAIN z = 1 .. n
  BY <1>1 DEF MenuSound, InOrder
<1>3. PICK open : open = { i \in DOMAIN z : z[i] \in ws /\ m.winOpen[z[i]] }
  OBVIOUS
<1>4. FrontWin(m, ws) = IF open = {} THEN "none" ELSE z[CHOOSE i \in open : \A j \in open : j <= i]
  BY <1>1, <1>3 DEF FrontWin
<1>5. ASSUME open # {} PROVE \E i \in open : \A j \in open : j <= i
  <2>1. open \subseteq Nat /\ \A i \in open : i <= n
    BY <1>2, <1>3
  <2> QED
    BY <1>2, <1>5, <2>1, GreatestNumber
<1>6. CASE open # {}
  <2>1. PICK i \in open : FrontWin(m, ws) = z[i]
    BY <1>4, <1>5, <1>6
  <2>2. i \in 1 .. n /\ z[i] \in ws /\ m.winOpen[z[i]] /\ z[i] \in Wins
    BY <1>2, <1>3, <2>1
  <2> QED
    BY <2>1, <2>2
<1> QED
  BY <1>4, <1>6

LEMMA FrontSame ==
    ASSUME NEW m, NEW n, m.zorder = n.zorder, m.winOpen = n.winOpen, NEW ws
    PROVE  FrontWin(m, ws) = FrontWin(n, ws)
BY DEF FrontWin

-----------------------------------------------------------------------------
(* What the menu's operations keep.                                        *)

LEMMA SoundField ==
    ASSUME NEW m, MenuSound(m)
    PROVE  /\ \A w \in Wins : \A r : m.dd = "none" /\ r = [m EXCEPT !.winOpen[w] = FALSE] => MenuSound(r)
           /\ \A w \in Wins : \A r : r = [m EXCEPT !.winOpen[w] = TRUE] => MenuSound(r)
           /\ \A w \in Wins : \A r : r = [m EXCEPT !.zorder = Raised(m.zorder, w)] => MenuSound(r)
           /\ \A x \in Wins \cup {"none"} : \A r : r = [m EXCEPT !.drag = x] => MenuSound(r)
           /\ \A x \in Presses : \A r : r = [m EXCEPT !.press = x] => MenuSound(r)
           /\ \A w \in PanelWins : \A r : m.winOpen[w] /\ r = [m EXCEPT !.dd = w] => MenuSound(r)
           /\ \A r : r = [m EXCEPT !.dd = "none"] => MenuSound(r)
           /\ \A r : r = [m EXCEPT !.quit = TRUE] => MenuSound(r)
           /\ \A x \in [PanelWins -> Int] : \A r : r = [m EXCEPT !.sel = x] => MenuSound(r)
<1>1. /\ m \in Menus /\ InOrder(m.zorder) /\ Owned(m) /\ m.winOpen \in [Wins -> BOOLEAN]
      /\ m.dd \in PanelWins \cup {"none"}
  BY DEF MenuSound, Menus
<1>2. ASSUME NEW w \in Wins, NEW b \in BOOLEAN, b \/ m.dd = "none"
      PROVE  MenuSound([m EXCEPT !.winOpen[w] = b])
  <2>1. PICK x, r : x = [m.winOpen EXCEPT ![w] = b] /\ r = [m EXCEPT !.winOpen = x]
    OBVIOUS
  <2>2. r = [m EXCEPT !.winOpen[w] = b]
    BY <2>1
  <2>3. x \in [Wins -> BOOLEAN]
    BY <1>1, <2>1
  <2>4. r \in Menus
    BY <1>1, <2>1, <2>3, MenuField
  <2>5. r.zorder = m.zorder /\ r.dd = m.dd /\ r.winOpen = x
    BY <1>1, <2>1 DEF Menus
  <2>6. Owned(r)
    BY <1>1, <1>2, <2>1, <2>5, PanelNames DEF Owned
  <2> QED
    BY <1>1, <2>2, <2>4, <2>5, <2>6 DEF MenuSound
<1>3. ASSUME NEW w \in Wins PROVE MenuSound([m EXCEPT !.zorder = Raised(m.zorder, w)])
  <2>1. PICK z, r : z = Raised(m.zorder, w) /\ r = [m EXCEPT !.zorder = z]
    OBVIOUS
  <2>2. InOrder(z) /\ z \in Seq(Wins)
    BY <1>1, <2>1, RaisedInOrder DEF InOrder
  <2>3. r \in Menus
    BY <1>1, <2>1, <2>2, MenuField
  <2>4. r.zorder = z /\ r.dd = m.dd /\ r.winOpen = m.winOpen
    BY <1>1, <2>1 DEF Menus
  <2> QED
    BY <1>1, <2>1, <2>2, <2>3, <2>4 DEF MenuSound, Owned
<1>4. ASSUME NEW r \in Menus, r.zorder = m.zorder, r.dd \in {"none", m.dd}, r.winOpen = m.winOpen
      PROVE  MenuSound(r)
  BY <1>1, <1>4 DEF MenuSound, Owned
<1>5. \A x \in Wins \cup {"none"} : MenuSound([m EXCEPT !.drag = x])
  <2> SUFFICES ASSUME NEW x \in Wins \cup {"none"}, NEW r, r = [m EXCEPT !.drag = x] PROVE MenuSound(r)
    OBVIOUS
  <2>1. r \in Menus
    BY <1>1, MenuField
  <2>2. r.zorder = m.zorder /\ r.dd = m.dd /\ r.winOpen = m.winOpen
    BY <1>1 DEF Menus
  <2> QED
    BY <1>4, <2>1, <2>2
<1>6. \A x \in Presses : MenuSound([m EXCEPT !.press = x])
  <2> SUFFICES ASSUME NEW x \in Presses, NEW r, r = [m EXCEPT !.press = x] PROVE MenuSound(r)
    OBVIOUS
  <2>1. r \in Menus
    BY <1>1, MenuField
  <2>2. r.zorder = m.zorder /\ r.dd = m.dd /\ r.winOpen = m.winOpen
    BY <1>1 DEF Menus
  <2> QED
    BY <1>4, <2>1, <2>2
<1>7. ASSUME NEW w \in PanelWins, m.winOpen[w] PROVE MenuSound([m EXCEPT !.dd = w])
  <2>1. PICK r : r = [m EXCEPT !.dd = w]
    OBVIOUS
  <2>2. r \in Menus
    BY <1>1, <2>1, MenuField
  <2>3. r.zorder = m.zorder /\ r.dd = w /\ r.winOpen = m.winOpen
    BY <1>1, <2>1 DEF Menus
  <2> QED
    BY <1>1, <1>7, <2>1, <2>2, <2>3 DEF MenuSound, Owned
<1>8. MenuSound([m EXCEPT !.dd = "none"])
  <2>1. PICK r : r = [m EXCEPT !.dd = "none"]
    OBVIOUS
  <2>2. r \in Menus
    BY <1>1, <2>1, MenuField
  <2>3. r.zorder = m.zorder /\ r.dd = "none" /\ r.winOpen = m.winOpen
    BY <1>1, <2>1 DEF Menus
  <2> QED
    BY <1>4, <2>1, <2>2, <2>3
<1>9. MenuSound([m EXCEPT !.quit = TRUE])
  <2>1. PICK r : r = [m EXCEPT !.quit = TRUE]
    OBVIOUS
  <2>2. r \in Menus
    BY <1>1, <2>1, MenuField
  <2>3. r.zorder = m.zorder /\ r.dd = m.dd /\ r.winOpen = m.winOpen
    BY <1>1, <2>1 DEF Menus
  <2> QED
    BY <1>4, <2>1, <2>2, <2>3
<1>10. \A x \in [PanelWins -> Int] : MenuSound([m EXCEPT !.sel = x])
  <2> SUFFICES ASSUME NEW x \in [PanelWins -> Int], NEW r, r = [m EXCEPT !.sel = x] PROVE MenuSound(r)
    OBVIOUS
  <2>1. r \in Menus
    BY <1>1, MenuField
  <2>2. r.zorder = m.zorder /\ r.dd = m.dd /\ r.winOpen = m.winOpen
    BY <1>1 DEF Menus
  <2> QED
    BY <1>4, <2>1, <2>2
<1> QED
  BY <1>2, <1>3, <1>5, <1>6, <1>7, <1>8, <1>9, <1>10

LEMMA OpenSound ==
    ASSUME NEW m, MenuSound(m), NEW w \in Wins
    PROVE  /\ MenuSound(OpenWindow(m, w))
           /\ OpenWindow(m, w).press = m.press /\ OpenWindow(m, w).dd = m.dd
<1>1. PICK a, b : a = [m EXCEPT !.winOpen[w] = TRUE] /\ b = [a EXCEPT !.zorder = Raised(a.zorder, w)]
  OBVIOUS
<1>2. m \in Menus
  BY DEF MenuSound
<1>3. MenuSound(a)
  BY <1>1, SoundField
<1>4. MenuSound(b)
  BY <1>1, <1>3, SoundField
<1>5. OpenWindow(m, w) = b /\ b.press = m.press /\ b.dd = m.dd
  BY <1>1, <1>2 DEF OpenWindow, Menus
<1> QED
  BY <1>4, <1>5

LEMMA ActionSound ==
    ASSUME NEW m, MenuSound(m), m.dd = "none", NEW w \in Wins, NEW item
    PROVE  MenuSound(OnButtonAction(m, w, item)) /\ OnButtonAction(m, w, item).press = m.press
<1>1. PICK r : r = OnButtonAction(m, w, item)
  OBVIOUS
<1>2. m \in Menus
  BY DEF MenuSound
<1>3. CASE item = "Close"
  <2>1. r = [m EXCEPT !.winOpen[w] = FALSE]
    BY <1>1, <1>3, UiAssumption DEF OnButtonAction
  <2>2. r.press = m.press
    BY <1>2, <2>1 DEF Menus
  <2> QED
    BY <1>1, <2>1, <2>2, SoundField
<1>4. CASE item = "Options"
  BY <1>4, OpenSound, PanelNames DEF OnButtonAction
<1>5. CASE item = "Quit"
  <2>1. r = [m EXCEPT !.quit = TRUE]
    BY <1>1, <1>5, UiAssumption DEF OnButtonAction
  <2>2. r.press = m.press
    BY <1>2, <2>1 DEF Menus
  <2> QED
    BY <1>1, <2>1, <2>2, SoundField
<1>6. CASE item \notin {"Close", "Options", "Quit"} /\ item \in PanelWins
  BY <1>6, OpenSound, PanelNames DEF OnButtonAction
<1>7. CASE item \notin {"Close", "Options", "Quit"} /\ item \notin PanelWins
  BY <1>7 DEF OnButtonAction
<1> QED
  BY <1>3, <1>4, <1>5, <1>6, <1>7

\* The button that has the press after a press in a window.
PressOf(press, w, part) ==
    IF w \notin PanelWins /\ part # "closeBox" /\ part \in WinButtons(w) THEN << w, part >> ELSE press

LEMMA PanelPress ==
    ASSUME NEW m, MenuSound(m), m.dd = "none", NEW w \in PanelWins, m.winOpen[w], NEW part
    PROVE  /\ MenuSound(PressPanel(m, w, part)) /\ PressPanel(m, w, part).press = m.press
           /\ part # "row" => PressPanel(m, w, part).dd = "none"
<1>1. PICK r : r = PressPanel(m, w, part)
  OBVIOUS
<1>2. m \in Menus /\ w \in Wins
  BY PanelNames DEF MenuSound
<1>3. CASE part \in {"closeBox", "footerClose"}
  <2>1. r = [m EXCEPT !.winOpen[w] = FALSE]
    BY <1>1, <1>3 DEF PressPanel
  <2>2. r.press = m.press /\ r.dd = m.dd
    BY <1>2, <2>1 DEF Menus
  <2> QED
    BY <1>1, <1>2, <2>1, <2>2, SoundField
<1>4. CASE part = "row"
  <2>1. r = [m EXCEPT !.dd = w]
    BY <1>1, <1>4 DEF PressPanel
  <2>2. r.press = m.press
    BY <1>2, <2>1 DEF Menus
  <2> QED
    BY <1>1, <1>4, <2>1, <2>2, SoundField
<1>5. CASE part = "title"
  <2>1. r = [m EXCEPT !.drag = w]
    BY <1>1, <1>5 DEF PressPanel
  <2>2. r.press = m.press /\ r.dd = m.dd
    BY <1>2, <2>1 DEF Menus
  <2> QED
    BY <1>1, <1>2, <2>1, <2>2, SoundField
<1>6. CASE part \notin {"closeBox", "footerClose", "row", "title"}
  BY <1>6 DEF PressPanel
<1> QED
  BY <1>3, <1>4, <1>5, <1>6

LEMMA ButtonsPress ==
    ASSUME NEW m, MenuSound(m), m.dd = "none", NEW w \in Wins \ PanelWins, NEW part
    PROVE  /\ MenuSound(PressButtons(m, w, part)) /\ PressButtons(m, w, part).dd = "none"
           /\ PressButtons(m, w, part).press = PressOf(m.press, w, part)
<1>1. PICK r : r = PressButtons(m, w, part)
  OBVIOUS
<1>2. m \in Menus
  BY DEF MenuSound
<1>3. CASE part = "closeBox"
  <2>1. r = [m EXCEPT !.winOpen[w] = FALSE]
    BY <1>1, <1>3, UiAssumption DEF PressButtons, WinButtons
  <2>2. r.press = m.press /\ r.dd = m.dd
    BY <1>2, <2>1 DEF Menus
  <2> QED
    BY <1>1, <1>3, <2>1, <2>2, SoundField DEF PressOf
<1>4. CASE part # "closeBox" /\ part \in WinButtons(w)
  <2>1. r = [m EXCEPT !.press = << w, part >>]
    BY <1>1, <1>4, UiAssumption DEF PressButtons, WinButtons
  <2>2. r.press = << w, part >> /\ r.dd = m.dd
    BY <1>2, <2>1 DEF Menus
  <2>3. part \in Buttons
    BY <1>4 DEF Buttons
  <2>4. << w, part >> \in Presses
    BY <2>3 DEF Presses
  <2> QED
    BY <1>1, <1>4, <2>1, <2>2, <2>4, SoundField DEF PressOf
<1>5. CASE part # "closeBox" /\ part \notin WinButtons(w) /\ part = "title"
  <2>1. r = [m EXCEPT !.drag = w]
    BY <1>1, <1>5 DEF PressButtons
  <2>2. r.press = m.press /\ r.dd = m.dd
    BY <1>2, <2>1 DEF Menus
  <2> QED
    BY <1>1, <1>5, <2>1, <2>2, SoundField DEF PressOf
<1>6. CASE part # "closeBox" /\ part \notin WinButtons(w) /\ part # "title"
  BY <1>6 DEF PressButtons, PressOf
<1> QED
  BY <1>3, <1>4, <1>5, <1>6

LEMMA PressedSound ==
    ASSUME NEW m, MenuSound(m), m.dd = "none", NEW w \in Wins, m.winOpen[w], NEW part
    PROVE  /\ MenuSound(Pressed(m, w, part)) /\ Pressed(m, w, part).press = PressOf(m.press, w, part)
           /\ part # "row" => Pressed(m, w, part).dd = "none"
<1>1. PICK r : r = [m EXCEPT !.zorder = Raised(m.zorder, w)]
  OBVIOUS
<1>2. MenuSound(r)
  BY <1>1, SoundField
<1>3. r.dd = "none" /\ r.press = m.press /\ r.winOpen = m.winOpen
  BY <1>1 DEF MenuSound, Menus
<1>4. Pressed(m, w, part) = IF w \in PanelWins THEN PressPanel(r, w, part) ELSE PressButtons(r, w, part)
  BY <1>1 DEF Pressed, WinIsPanel
<1>5. CASE w \in PanelWins
  BY <1>2, <1>3, <1>4, <1>5, PanelPress DEF PressOf
<1>6. CASE w \notin PanelWins
  BY <1>2, <1>3, <1>4, <1>6, ButtonsPress
<1> QED
  BY <1>5, <1>6

LEMMA UpdatedSound ==
    ASSUME NEW m0, MenuSound(m0), NEW at \in Places, NEW down \in BOOLEAN, NEW pressed \in BOOLEAN,
           NEW released \in BOOLEAN, NEW w, w = (IF m0.dd = "none" THEN FrontWin(m0, at.over) ELSE "none")
    PROVE  /\ MenuSound(Updated(m0, at, down, pressed, released))
           /\ Updated(m0, at, down, pressed, released).press
                = IF m0.dd = "none" /\ released THEN NoItem
                  ELSE IF pressed /\ w # "none" THEN PressOf(m0.press, w, at.part) ELSE m0.press
<1>1. PICK m, r : /\ m = IF down THEN m0 ELSE [m0 EXCEPT !.drag = "none"]
                  /\ r = Updated(m0, at, down, pressed, released)
  OBVIOUS
<1>2. m0 \in Menus
  BY DEF MenuSound
<1>3. /\ MenuSound(m) /\ m.press = m0.press /\ m.dd = m0.dd /\ m.zorder = m0.zorder
      /\ m.winOpen = m0.winOpen
  <2>1. CASE down
    BY <1>1, <2>1
  <2>2. CASE ~down
    <3>1. m = [m0 EXCEPT !.drag = "none"]
      BY <1>1, <2>2
    <3>2. MenuSound(m)
      BY <3>1, SoundField
    <3> QED
      BY <1>2, <3>1, <3>2 DEF Menus
  <2> QED
    BY <2>1, <2>2
<1>4. m \in Menus
  BY <1>3 DEF MenuSound
<1>5. CASE m0.dd # "none"
  <2>1. r = IF ~pressed THEN m
            ELSE [m EXCEPT !.sel[m.dd] = IF at.popup = NONE THEN m.sel[m.dd] ELSE at.popup, !.dd = "none"]
    BY <1>1, <1>3, <1>5 DEF Updated, UpdateDropdown
  <2>2. CASE ~pressed
    BY <1>1, <1>3, <1>5, <2>1, <2>2
  <2>3. CASE pressed
    <3>1. PICK v, x : /\ v = (IF at.popup = NONE THEN m.sel[m.dd] ELSE at.popup)
                      /\ x = [m.sel EXCEPT ![m.dd] = v]
      OBVIOUS
    <3>2. m.sel \in [PanelWins -> Int] /\ m.dd \in PanelWins /\ at.popup \in Int
      BY <1>3, <1>4, <1>5, UiAssumption DEF Menus
    <3>3. x \in [PanelWins -> Int]
      BY <3>1, <3>2
    <3>4. PICK a : a = [m EXCEPT !.sel = x]
      OBVIOUS
    <3>5. MenuSound(a)
      BY <1>3, <3>3, <3>4, SoundField
    <3>6. PICK b : b = [a EXCEPT !.dd = "none"]
      OBVIOUS
    <3>7. MenuSound(b)
      BY <3>5, <3>6, SoundField
    <3>8. r = b
      BY <1>4, <2>1, <2>3, <3>1, <3>4, <3>6 DEF Menus
    <3>9. b.press = m.press
      BY <1>4, <3>4, <3>6 DEF Menus
    <3> QED
      BY <1>1, <1>3, <1>5, <3>7, <3>8, <3>9
  <2> QED
    BY <2>2, <2>3
<1>6. CASE m0.dd = "none"
  <2>1. w = FrontWin(m, at.over)
    BY <1>3, <1>6, FrontSame
  <2>2. PICK p : p = AfterPress(m, w, at.part, pressed)
    OBVIOUS
  <2>3. w = "none" \/ (w \in Wins /\ m.winOpen[w])
    BY <1>3, <2>1, FrontIs
  <2>4. /\ MenuSound(p)
        /\ p.press = IF pressed /\ w # "none" THEN PressOf(m0.press, w, at.part) ELSE m0.press
        /\ at.part # "row" => p.dd = "none"
    <3>1. CASE pressed /\ w # "none"
      <4>1. p = Pressed(m, w, at.part)
        BY <2>2, <3>1 DEF AfterPress
      <4> QED
        BY <1>3, <1>6, <2>3, <3>1, <4>1, PressedSound
    <3>2. CASE ~(pressed /\ w # "none")
      BY <1>3, <1>6, <2>2, <3>2 DEF AfterPress
    <3> QED
      BY <3>1, <3>2
  <2>5. PICK f : f = IF Fires(p.press, w, at.part, released) THEN OnButtonAction(p, w, at.part) ELSE p
    OBVIOUS
  <2>6. MenuSound(f) /\ f.press = p.press
    <3>1. CASE Fires(p.press, w, at.part, released)
      <4>1. w # "none" /\ p.press = << w, at.part >>
        BY <3>1 DEF Fires
      <4>2. p.press \in Presses
        BY <2>4 DEF MenuSound, Menus
      <4>3. at.part # "row"
        BY <4>1, <4>2, PanelNames DEF Presses, NoItem
      <4>4. w \in Wins
        BY <2>3, <4>1
      <4> QED
        BY <2>4, <2>5, <3>1, <4>3, <4>4, ActionSound
    <3>2. CASE ~Fires(p.press, w, at.part, released)
      BY <2>4, <2>5, <3>2
    <3> QED
      BY <3>1, <3>2
  <2>7. r = IF released THEN [f EXCEPT !.press = NoItem] ELSE f
    BY <1>1, <1>3, <1>6, <2>1, <2>2, <2>5 DEF Updated
  <2>8. CASE released
    <3>1. r = [f EXCEPT !.press = NoItem] /\ NoItem \in Presses
      BY <2>7, <2>8 DEF Presses
    <3>2. MenuSound(r)
      BY <2>6, <3>1, SoundField
    <3>3. r.press = NoItem
      BY <2>6, <3>1 DEF MenuSound, Menus
    <3> QED
      BY <1>1, <1>6, <2>8, <3>2, <3>3
  <2>9. CASE ~released
    BY <1>1, <1>6, <2>4, <2>6, <2>7, <2>9
  <2> QED
    BY <2>8, <2>9
<1> QED
  BY <1>5, <1>6

(* A frame's menu: what is open stays in order, and what fires is what     *)
(* took the last press.                                                    *)
LEMMA MenuUpdates ==
    ASSUME MenuIInv, NEW at \in Places, NEW down \in BOOLEAN, NEW pressed \in BOOLEAN, NEW released \in BOOLEAN,
           MenuUpdate(at, down, pressed, released)
    PROVE  MenuIInv'
<1>1. PICK w, v, p, u : /\ v = (IF menu.dd = "none" THEN FrontWin(menu, at.over) ELSE "none")
                        /\ w = (IF menu.ready THEN v ELSE "none")
                        /\ p = AfterPress(menu, w, at.part, pressed)
                        /\ u = Updated(menu, at, down, pressed, released)
  OBVIOUS
<1>2. w = IF menu.ready /\ menu.dd = "none" THEN FrontWin(menu, at.over) ELSE "none"
  BY <1>1
<1>3. /\ menu' = IF menu.ready THEN u ELSE menu
      /\ stored' = IF pressed /\ w \in PanelWins /\ at.part = "footerApply" THEN menu.sel ELSE stored
      /\ lastPress' = IF p.press # menu.press THEN p.press ELSE lastPress
      /\ fired' = IF Fires(p.press, w, at.part, released) THEN << w, at.part >> ELSE NoItem
  BY <1>1, <1>2 DEF MenuUpdate
<1>4. MenuSound(menu) /\ menu \in Menus /\ stored \in [PanelWins -> Int]
  BY DEF MenuIInv, MenuSound
<1>5. /\ MenuSound(u)
      /\ u.press = IF menu.dd = "none" /\ released THEN NoItem
                   ELSE IF pressed /\ v # "none" THEN PressOf(menu.press, v, at.part) ELSE menu.press
  BY <1>1, <1>4, UpdatedSound
<1>6. stored' \in [PanelWins -> Int]
  BY <1>3, <1>4 DEF Menus
<1>7. p.press = IF pressed /\ w # "none" THEN PressOf(menu.press, w, at.part) ELSE menu.press
  <2>1. CASE pressed /\ w # "none"
    <3>1. menu.dd = "none" /\ w = FrontWin(menu, at.over)
      BY <1>2, <2>1
    <3>2. w \in Wins /\ menu.winOpen[w]
      BY <1>4, <2>1, <3>1, FrontIs
    <3>3. p = Pressed(menu, w, at.part)
      BY <1>1, <2>1 DEF AfterPress
    <3> QED
      BY <1>4, <2>1, <3>1, <3>2, <3>3, PressedSound
  <2>2. CASE ~(pressed /\ w # "none")
    BY <1>1, <2>2 DEF AfterPress
  <2> QED
    BY <2>1, <2>2
<1>8. menu'.press # NoItem => menu'.press = p.press
  BY <1>1, <1>3, <1>5, <1>7
<1>9. p.press # NoItem => lastPress' = p.press
  BY <1>3 DEF MenuIInv, PressKnown
<1>10. PressKnown'
  BY <1>8, <1>9 DEF PressKnown
<1>11. FiresWherePressed'
  BY <1>3, <1>9 DEF FiresWherePressed, Fires, NoItem
<1>12. MenuSound(menu')
  BY <1>3, <1>4, <1>5
<1> QED
  BY <1>6, <1>10, <1>11, <1>12 DEF MenuIInv

LEMMA TopCloses ==
    ASSUME MenuIInv, CloseTopWindow, fired' = NoItem, stored' = stored, lastPress' = lastPress
    PROVE  MenuIInv'
<1>1. PICK w, n : w = FrontWin(menu, Wins) /\ n = menu'
  OBVIOUS
<1>2. /\ n = IF menu.dd # "none" THEN [menu EXCEPT !.dd = "none"]
             ELSE IF w # "none" THEN [menu EXCEPT !.winOpen[w] = FALSE]
             ELSE OpenWindow(menu, "MainMenu")
      /\ MenuSound(menu) /\ menu \in Menus
  BY <1>1 DEF CloseTopWindow, MenuIInv, MenuSound
<1>3. MenuSound(n) /\ n.press = menu.press
  <2>1. CASE menu.dd # "none"
    <3>1. n = [menu EXCEPT !.dd = "none"]
      BY <1>2, <2>1
    <3>2. MenuSound(n)
      BY <1>2, <3>1, SoundField
    <3> QED
      BY <1>2, <3>1, <3>2 DEF Menus
  <2>2. CASE menu.dd = "none" /\ w # "none"
    <3>1. n = [menu EXCEPT !.winOpen[w] = FALSE]
      BY <1>2, <2>2
    <3>2. w \in Wins
      BY <1>1, <1>2, <2>2, FrontIs
    <3>3. MenuSound(n)
      BY <1>2, <2>2, <3>1, <3>2, SoundField
    <3> QED
      BY <1>2, <3>1, <3>3 DEF Menus
  <2>3. CASE menu.dd = "none" /\ w = "none"
    BY <1>2, <2>3, OpenSound, PanelNames
  <2> QED
    BY <2>1, <2>2, <2>3
<1>4. MenuSound(menu') /\ menu'.press = menu.press
  BY <1>1, <1>3
<1> QED
  BY <1>4 DEF MenuIInv, PressKnown, FiresWherePressed

LEMMA MenuStarts ==
    ASSUME stored \in [PanelWins -> Int], NEW ready \in BOOLEAN
    PROVE  MenuSound(NewMenu(ready)) /\ NewMenu(ready).press = NoItem
<1>1. PICK z, s, n : z = << "MainMenu", "Options" >> \o SetToSeq(PanelWins) /\ s = LoadSettings /\ n = NewMenu(ready)
  OBVIOUS
<1>2. InOrder(z) /\ z \in Seq(Wins)
  BY <1>1, PanelsListed DEF InOrder
<1>3. s \in [PanelWins -> Int]
  BY <1>1, UiAssumption DEF LoadSettings, InitSettings
<1>4. n = [ winOpen |-> [w \in Wins |-> FALSE], zorder |-> z, drag |-> "none", press |-> NoItem, dd |-> "none",
            sel |-> s, quit |-> FALSE, ready |-> ready ]
  BY <1>1 DEF NewMenu
<1>5. n \in Menus
  BY <1>2, <1>3, <1>4 DEF Menus, Presses
<1> QED
  BY <1>1, <1>2, <1>4, <1>5 DEF MenuSound, Owned

-----------------------------------------------------------------------------
(* Commands.                                                               *)

LEMMA RowsHaveAction ==
    ASSUME NEW t
    PROVE  /\ ResolveSmartAction(t) \in ToSet(MenuRows(t)) /\ MenuRows(t) # << >>
           /\ \A i \in DOMAIN MenuRows(t) : MenuRows(t)[i] \in ToSet(MenuRows(t))
<1>1. MenuRows(t) # << >> /\ 1 \in DOMAIN MenuRows(t)
  BY DEF MenuRows
<1>2. ResolveSmartAction(t) = MenuRows(t)[1]
  BY DEF MenuRows, ResolveSmartAction
<1> QED
  BY <1>1, <1>2 DEF ToSet

LEMMA FleetField ==
    ASSUME NEW f, FleetSound(f)
    PROVE  /\ \A x, r : r = [f EXCEPT !.selection = x] => FleetSound(r)
           /\ \A x, r : r = [f EXCEPT !.group = x] => FleetSound(r)
           /\ \A x, r : r = [f EXCEPT !.target = x] => FleetSound(r)
           /\ \A x, r : r = [f EXCEPT !.selDragging = x] => FleetSound(r)
           /\ \A x, r : r = [f EXCEPT !.ctxOpen = x] => FleetSound(r)
<1>1. DOMAIN f = FleetFields /\ RowsFit(f)
  BY DEF FleetSound
<1>2. ASSUME NEW r, DOMAIN r = FleetFields, r.ctxActions = f.ctxActions, r.ctxTarget = f.ctxTarget
      PROVE  FleetSound(r)
  BY <1>1, <1>2 DEF FleetSound, RowsFit
<1>3. \A x, r : r = [f EXCEPT !.selection = x] => FleetSound(r)
  BY <1>1, <1>2 DEF FleetFields
<1>4. \A x, r : r = [f EXCEPT !.group = x] => FleetSound(r)
  BY <1>1, <1>2 DEF FleetFields
<1>5. \A x, r : r = [f EXCEPT !.target = x] => FleetSound(r)
  BY <1>1, <1>2 DEF FleetFields
<1>6. \A x, r : r = [f EXCEPT !.selDragging = x] => FleetSound(r)
  BY <1>1, <1>2 DEF FleetFields
<1>7. \A x, r : r = [f EXCEPT !.ctxOpen = x] => FleetSound(r)
  BY <1>1, <1>2 DEF FleetFields
<1> QED
  BY <1>3, <1>4, <1>5, <1>6, <1>7

LEMMA OpenMenuSound ==
    ASSUME NEW f, FleetSound(f), self \in {0, PLAYER}, NEW hit
    PROVE  FleetSound(OpenMenu(f, hit))
<1>1. PICK a, r : a = BuildContextMenu(ClassOf(hit), f.selection # {}) /\ r = OpenMenu(f, hit)
  OBVIOUS
<1>2. r = IF a = << >> THEN f ELSE [f EXCEPT !.ctxActions = a, !.ctxTarget = hit, !.ctxOpen = TRUE]
  BY <1>1 DEF OpenMenu
<1>3. CASE a # << >>
  <2>1. a = MenuRows(ClassFor(hit, self))
    BY <1>1, <1>3 DEF BuildContextMenu, ClassOf, ClassFor
  <2>2. r = [f EXCEPT !.ctxActions = a, !.ctxTarget = hit, !.ctxOpen = TRUE]
    BY <1>2, <1>3
  <2>3. DOMAIN r = FleetFields /\ r.ctxActions = a /\ r.ctxTarget = hit
    BY <2>2 DEF FleetSound, FleetFields
  <2> QED
    BY <1>1, <2>1, <2>3 DEF FleetSound, RowsFit
<1> QED
  BY <1>1, <1>2, <1>3

LEMMA RightClickSound ==
    ASSUME NEW f, FleetSound(f), self \in {0, PLAYER}, NEW at, NEW rclick, NEW overMenu
    PROVE  FleetSound(AfterRightClick(f, at, rclick, overMenu))
<1>1. CASE rclick /\ ~overMenu /\ at.pick \in seen
  BY <1>1, OpenMenuSound DEF AfterRightClick
<1>2. CASE rclick /\ ~overMenu /\ at.pick \notin seen
  <2>1. AfterRightClick(f, at, rclick, overMenu) = [f EXCEPT !.ctxOpen = FALSE]
    BY <1>2 DEF AfterRightClick
  <2> QED
    BY <2>1, FleetField
<1>3. CASE ~rclick \/ overMenu
  BY <1>3 DEF AfterRightClick
<1> QED
  BY <1>1, <1>2, <1>3

LEMMA DragSound ==
    ASSUME NEW f, FleetSound(f), NEW at, NEW released
    PROVE  FleetSound(AfterDrag(f, at, released))
<1>1. PICK r, s : /\ r = AfterDrag(f, at, released)
                  /\ s = (IF at.box THEN seen ELSE {at.pick}) \cap Own({"Ship", "Base"})
  OBVIOUS
<1>2. CASE ~f.selDragging \/ ~released
  BY <1>2 DEF AfterDrag
<1>3. CASE f.selDragging /\ released
  <2>1. PICK a, b : a = [f EXCEPT !.selDragging = FALSE] /\ b = [a EXCEPT !.selection = s]
    OBVIOUS
  <2>2. FleetSound(a)
    BY <2>1, FleetField
  <2>3. FleetSound(b)
    BY <2>1, <2>2, FleetField
  <2>4. r = IF self = 0 THEN a ELSE b
    BY <1>1, <1>3, <2>1 DEF AfterDrag
  <2> QED
    BY <1>1, <2>2, <2>3, <2>4
<1> QED
  BY <1>2, <1>3

LEMMA IssueFits ==
    ASSUME FleetSound(fleet), NEW at
    PROVE  CommandFits(IssueMenuAction(at))
<1>1. PICK c, a, i : c = IssueMenuAction(at) /\ a = fleet.ctxActions /\ i = at.row
  OBVIOUS
<1>2. CASE c = NoCommand
  BY <1>1, <1>2 DEF CommandFits
<1>3. CASE c # NoCommand
  <2>1. /\ i \in DOMAIN a /\ fleet.selection # {}
        /\ c = [intent |-> a[i], units |-> fleet.selection, target |-> fleet.ctxTarget]
    BY <1>1, <1>3 DEF IssueMenuAction, SendFleet
  <2>2. a # << >>
    BY <2>1
  <2>3. PICK me \in {0, PLAYER} : a = MenuRows(ClassFor(fleet.ctxTarget, me))
    BY <1>1, <2>2 DEF FleetSound, RowsFit
  <2>4. a[i] \in ToSet(MenuRows(ClassFor(fleet.ctxTarget, me)))
    BY <2>1, <2>3, RowsHaveAction
  <2> QED
    BY <1>1, <2>1, <2>4 DEF CommandFits
<1> QED
  BY <1>2, <1>3

LEMMA RadarFits ==
    ASSUME NEW f, self \in {0, PLAYER}, NEW at, f.selection # {}
    PROVE  CommandFits(RadarCommand(f, at))
<1>1. PICK c, t : c = RadarCommand(f, at) /\ t = ClassFor(at.pick, self)
  OBVIOUS
<1>2. CASE c = NoCommand
  BY <1>1, <1>2 DEF CommandFits
<1>3. CASE c # NoCommand
  <2>1. c = [intent |-> ResolveSmartAction(t), units |-> f.selection, target |-> at.pick]
    BY <1>1, <1>3 DEF RadarCommand, SendFleet, ClassOf, ClassFor
  <2>2. ResolveSmartAction(t) \in ToSet(MenuRows(ClassFor(at.pick, self)))
    BY <1>1, RowsHaveAction
  <2> QED
    BY <1>1, <2>1, <2>2 DEF CommandFits
<1> QED
  BY <1>2, <1>3

LEMMA FleetUpdates ==
    ASSUME FleetIInv, self' = self, NEW at, NEW pressed, NEW released, NEW rclick, NEW overMenu,
           FleetUpdate(at, pressed, released, rclick, overMenu)
    PROVE  FleetIInv'
<1>1. FleetSound(fleet) /\ self \in {0, PLAYER} /\ CommandFits(NoCommand)
  BY DEF FleetIInv, CommandFits
<1>2. CASE CtxConsumes(pressed)
  <2>1. PICK a, b, t : /\ a = [fleet EXCEPT !.ctxOpen = FALSE]
                       /\ t = (IF IssueMenuAction(at) # NoCommand THEN fleet.ctxTarget ELSE fleet.target)
                       /\ b = [a EXCEPT !.target = t]
    OBVIOUS
  <2>2. FleetSound(a)
    BY <1>1, <2>1, FleetField
  <2>3. FleetSound(b)
    BY <2>1, <2>2, FleetField
  <2>4. sent' = IssueMenuAction(at) /\ fleet' = [fleet EXCEPT !.ctxOpen = FALSE, !.target = t]
    BY <1>2, <2>1 DEF FleetUpdate
  <2>5. fleet' = b
    BY <1>1, <2>1, <2>4 DEF FleetSound, FleetFields
  <2> QED
    BY <1>1, <2>3, <2>4, <2>5, IssueFits DEF FleetIInv
<1>3. CASE ~CtxConsumes(pressed)
  <2>1. PICK f1, f2, f3 :
          /\ f1 = AfterRightClick(fleet, at, rclick, overMenu)
          /\ f2 = (IF RadarHits(f1, at, pressed, overMenu) THEN [f1 EXCEPT !.target = at.pick] ELSE f1)
          /\ f3 = (IF StartsDrag(at, pressed, overMenu) THEN [f2 EXCEPT !.selDragging = TRUE] ELSE f2)
    OBVIOUS
  <2>2. FleetSound(f1)
    BY <1>1, <2>1, RightClickSound
  <2>3. FleetSound(f2)
    BY <2>1, <2>2, FleetField
  <2>4. FleetSound(f3)
    BY <2>1, <2>3, FleetField
  <2>5. /\ sent' = (IF RadarHits(f1, at, pressed, overMenu) THEN RadarCommand(f1, at) ELSE NoCommand)
        /\ fleet' = AfterDrag(f3, at, released)
    BY <1>3, <2>1 DEF FleetUpdate
  <2>6. FleetSound(fleet')
    BY <2>4, <2>5, DragSound
  <2>7. CommandFits(sent')
    <3>1. CASE RadarHits(f1, at, pressed, overMenu)
      BY <1>1, <2>5, <3>1, RadarFits DEF RadarHits
    <3>2. CASE ~RadarHits(f1, at, pressed, overMenu)
      BY <1>1, <2>5, <3>2
    <3> QED
      BY <3>1, <3>2
  <2> QED
    BY <1>1, <2>6, <2>7 DEF FleetIInv
<1> QED
  BY <1>2, <1>3

LEMMA KeysFit ==
    ASSUME FleetIInv, self' = self,
           SetControlGroup \/ RecallControlGroup \/ SelectAllOwnShips \/ SendStop \/ SendBuild
    PROVE  FleetIInv'
<1>1. FleetSound(fleet) /\ self \in {0, PLAYER} /\ CommandFits(NoCommand)
  BY DEF FleetIInv, CommandFits
<1>2. CASE SetControlGroup
  <2>1. FleetSound(fleet')
    BY <1>1, <1>2, FleetField DEF SetControlGroup
  <2> QED
    BY <1>1, <1>2, <2>1 DEF SetControlGroup, FleetIInv
<1>3. CASE RecallControlGroup
  <2>1. FleetSound(fleet')
    BY <1>1, <1>3, FleetField DEF RecallControlGroup
  <2> QED
    BY <1>1, <1>3, <2>1 DEF RecallControlGroup, FleetIInv
<1>4. CASE SelectAllOwnShips
  <2>1. FleetSound(fleet')
    BY <1>1, <1>4, FleetField DEF SelectAllOwnShips
  <2> QED
    BY <1>1, <1>4, <2>1 DEF SelectAllOwnShips, FleetIInv
<1>5. CASE SendStop
  <2>1. sent' = SendFleet("Stop", fleet.selection, 0) /\ fleet' = fleet
    BY <1>5 DEF SendStop
  <2>2. CommandFits(SendFleet("Stop", fleet.selection, 0))
    BY DEF CommandFits, SendFleet
  <2> QED
    BY <1>1, <2>1, <2>2 DEF FleetIInv
<1>6. CASE SendBuild
  <2>1. sent' = [intent |-> "Build", units |-> {self}, target |-> 0] /\ fleet' = fleet
    BY <1>6 DEF SendBuild
  <2>2. CommandFits(sent')
    BY <2>1 DEF CommandFits
  <2> QED
    BY <1>1, <2>1, <2>2 DEF FleetIInv
<1> QED
  BY <1>2, <1>3, <1>4, <1>5, <1>6

-----------------------------------------------------------------------------
(* Presses.                                                                *)

LEMMA OneOwner ==
    ASSUME NEW at, NEW g, MenuSound(menu), NEW o, o = Owners(at, g)
    PROVE  "dropdown" \in o \/ Cardinality(o) <= 1
<1>1. SUFFICES ASSUME "dropdown" \notin o PROVE Cardinality(o) <= 1
  OBVIOUS
<1>2. FrontWin(menu, at.over) # "none" => PointerOverWindow(at)
  BY FrontIs DEF PointerOverWindow
<1>3. \A x \in o : x \in {"context menu", "radar", "selection", "window"}
  BY <1>1 DEF Owners
<1>4. "context menu" \in o => CtxConsumes(g.pressed)
  BY DEF Owners
<1>5. "radar" \in o => ~CtxConsumes(g.pressed) /\ at.radar /\ ~PointerOverWindow(at)
  BY DEF Owners, RadarHits
<1>6. "selection" \in o => ~CtxConsumes(g.pressed) /\ ~at.radar /\ ~PointerOverWindow(at)
  BY DEF Owners, StartsDrag
<1>7. "window" \in o => ~CtxConsumes(g.pressed) /\ PointerOverWindow(at)
  BY <1>2 DEF Owners, EdgesLeft
<1>8. \A x, y \in o : x = y
  BY <1>3, <1>4, <1>5, <1>6, <1>7
<1>9. CASE o = {}
  BY <1>9, FS_EmptySet
<1>10. CASE o # {}
  <2>1. PICK x \in o : TRUE
    BY <1>10
  <2>2. o = {x}
    BY <1>8, <2>1
  <2>3. Cardinality(o) = 1
    BY <2>2, FS_Singleton
  <2> QED
    BY <2>3
<1> QED
  BY <1>9, <1>10

LEMMA NoOwner == ASSUME owners' = {} PROVE PressHasOneOwner'
BY FS_EmptySet DEF PressHasOneOwner

-----------------------------------------------------------------------------
LEMMA UiFrames ==
    ASSUME UiIInv, NEW at \in Places, NEW g \in Gestures, Frame(at, g)
    PROVE  UiIInv'
<1>1. /\ MenuIInv /\ FleetIInv /\ m_ptrDown \in BOOLEAN /\ MenuSound(menu)
      /\ g.down \in BOOLEAN /\ g.pressed \in BOOLEAN /\ g.released \in BOOLEAN
  <2>1. MenuIInv /\ FleetIInv /\ m_ptrDown \in BOOLEAN /\ MenuSound(menu)
    BY DEF UiIInv, MenuIInv
  <2>2. \E p, r, d \in BOOLEAN, c \in BOOLEAN : g = Edges(p, r, d, c)
    BY <2>1 DEF Gestures
  <2> QED
    BY <2>1, <2>2 DEF Edges
<1>2. FleetIInv'
  <2>1. PICK p, r, c, o : p = g.pressed /\ r = g.released /\ c = g.rclick /\ o = PointerOverWindow(at)
    OBVIOUS
  <2>2. FleetUpdate(at, p, r, c, o) /\ self' = self
    BY <2>1 DEF Frame
  <2> QED
    BY <1>1, <2>2, FleetUpdates
<1>3. MenuIInv'
  <2>1. PICK d, e : d = g.down /\ e = EdgesLeft(g)
    OBVIOUS
  <2>2. e \in BOOLEAN
    BY <2>1 DEF EdgesLeft
  <2>3. CASE e
    <3>1. PICK p, r : p = g.pressed /\ r = g.released
      OBVIOUS
    <3>2. MenuUpdate(at, d, g.pressed /\ EdgesLeft(g), g.released /\ EdgesLeft(g))
      BY <2>1 DEF Frame
    <3>3. (g.pressed /\ EdgesLeft(g)) = p /\ (g.released /\ EdgesLeft(g)) = r
      BY <1>1, <2>1, <2>3, <3>1
    <3>4. MenuUpdate(at, d, p, r)
      BY <3>2, <3>3
    <3> QED
      BY <1>1, <2>1, <3>1, <3>4, MenuUpdates
  <2>4. CASE ~e
    <3>1. MenuUpdate(at, d, g.pressed /\ EdgesLeft(g), g.released /\ EdgesLeft(g))
      BY <2>1 DEF Frame
    <3>2. (g.pressed /\ EdgesLeft(g)) = FALSE /\ (g.released /\ EdgesLeft(g)) = FALSE
      BY <2>1, <2>4
    <3>3. MenuUpdate(at, d, FALSE, FALSE)
      BY <3>1, <3>2
    <3> QED
      BY <1>1, <2>1, <3>3, MenuUpdates
  <2> QED
    BY <2>2, <2>3, <2>4
<1>4. PressHasOneOwner'
  <2>1. PICK o : o = Owners(at, g)
    OBVIOUS
  <2>2. owners' = o
    BY <2>1 DEF Frame
  <2>3. "dropdown" \in o \/ Cardinality(o) <= 1
    BY <1>1, <2>1, OneOwner
  <2> QED
    BY <2>2, <2>3 DEF PressHasOneOwner
<1>5. (m_ptrDown \in BOOLEAN)'
  BY <1>1 DEF Frame
<1> QED
  BY <1>2, <1>3, <1>4, <1>5 DEF UiIInv

LEMMA UiKeys == ASSUME UiIInv, KeyDown PROVE UiIInv'
<1>1. /\ MenuIInv /\ FleetIInv /\ m_ptrDown \in BOOLEAN
      /\ fired' = NoItem /\ stored' = stored /\ lastPress' = lastPress /\ seen' = seen /\ self' = self
      /\ m_ptrDown' = m_ptrDown /\ owners' = {}
  BY DEF UiIInv, KeyDown
<1>2. PressHasOneOwner'
  BY <1>1, NoOwner
<1>3. CASE CloseTopWindow /\ fleet' = fleet /\ sent' = NoCommand
  <2>1. MenuIInv'
    BY <1>1, <1>3, TopCloses
  <2>2. FleetIInv'
    BY <1>1, <1>3 DEF FleetIInv, FleetSound, RowsFit, CommandFits
  <2> QED
    BY <1>1, <1>2, <2>1, <2>2 DEF UiIInv
<1>4. CASE /\ SetControlGroup \/ RecallControlGroup \/ SelectAllOwnShips \/ SendStop \/ SendBuild
           /\ menu' = menu
  <2>1. FleetIInv'
    BY <1>1, <1>4, KeysFit
  <2>2. MenuIInv'
    BY <1>1, <1>4 DEF MenuIInv, PressKnown, FiresWherePressed
  <2> QED
    BY <1>1, <1>2, <2>1, <2>2 DEF UiIInv
<1> QED
  BY <1>3, <1>4 DEF KeyDown

LEMMA NewFleetSound == FleetSound(NewFleet) /\ CommandFits(NoCommand)
BY DEF NewFleet, FleetSound, FleetFields, RowsFit, CommandFits

LEMMA UiRestarts == ASSUME UiIInv, Restart, menu.ready \in BOOLEAN PROVE UiIInv'
<1>1. /\ menu' = NewMenu(menu.ready) /\ fired' = NoItem /\ lastPress' = NoItem /\ owners' = {} /\ fleet' = NewFleet
      /\ self' = 0 /\ sent' = NoCommand /\ m_ptrDown' = FALSE /\ stored' = stored
  BY DEF Restart
<1>2. stored \in [PanelWins -> Int]
  BY DEF UiIInv, MenuIInv
<1>3. PICK n : n = NewMenu(menu.ready)
  OBVIOUS
<1>4. MenuSound(n) /\ n.press = NoItem
  BY <1>2, <1>3, MenuStarts
<1>5. MenuIInv'
  BY <1>1, <1>2, <1>3, <1>4 DEF MenuIInv, PressKnown, FiresWherePressed
<1>6. FleetIInv'
  BY <1>1, NewFleetSound DEF FleetIInv
<1> QED
  BY <1>1, <1>5, <1>6, NoOwner DEF UiIInv

LEMMA UiWorld == ASSUME UiIInv, World PROVE UiIInv'
<1>1. MenuIInv'
  BY DEF World, UiIInv, MenuIInv, PressKnown, FiresWherePressed
<1>2. FleetIInv'
  BY NewFleetSound DEF World, UiIInv, FleetIInv
<1> QED
  BY <1>1, <1>2, NoOwner DEF World, UiIInv

LEMMA UiMoves == ASSUME UiIInv, [UiNext]_uiVars PROVE UiIInv'
<1>1. ASSUME NEW at \in Places, NEW g \in Gestures, Frame(at, g) PROVE UiIInv'
  BY <1>1, UiFrames
<1>2. CASE KeyDown
  BY <1>2, UiKeys
<1>3. CASE Restart
  <2>1. menu.ready \in BOOLEAN
    BY DEF UiIInv, MenuIInv, MenuSound, Menus
  <2> QED
    BY <1>3, <2>1, UiRestarts
<1>4. CASE World
  BY <1>4, UiWorld
<1>5. CASE UNCHANGED uiVars
  BY <1>5 DEF uiVars, menuVars, fleetVars, UiIInv, MenuIInv, PressKnown, FiresWherePressed, FleetIInv,
     PressHasOneOwner
<1> QED
  BY <1>1, <1>2, <1>3, <1>4, <1>5 DEF UiNext

LEMMA UiStarts == ASSUME UiInit PROVE UiIInv
<1>1. stored \in [PanelWins -> Int]
  BY UiAssumption DEF UiInit, MenuInit
<1>2. PICK ready \in BOOLEAN : menu = NewMenu(ready)
  BY DEF UiInit, MenuInit
<1>3. MenuSound(menu) /\ menu.press = NoItem
  BY <1>1, <1>2, MenuStarts
<1>4. MenuIInv
  BY <1>1, <1>3 DEF UiInit, MenuInit, MenuIInv, PressKnown, FiresWherePressed
<1>5. FleetIInv
  BY NewFleetSound DEF UiInit, FleetInit, FleetIInv
<1>6. owners = {} /\ m_ptrDown = FALSE
  BY DEF UiInit
<1>7. PressHasOneOwner
  BY <1>6, FS_EmptySet DEF PressHasOneOwner
<1> QED
  BY <1>4, <1>5, <1>6, <1>7 DEF UiIInv

LEMMA UiSound == ASSUME UiIInv PROVE UiInv
<1>1. MenuSound(menu) /\ menu \in Menus /\ stored \in [PanelWins -> Int]
  BY DEF UiIInv, MenuIInv, MenuSound
<1>2. MenuTypeOK
  BY <1>1 DEF MenuTypeOK, Menus, Presses, Buttons
<1>3. ZOrderIsPermutation
  BY <1>1 DEF ZOrderIsPermutation, MenuSound, InOrder
<1>4. DropdownOwned
  BY <1>1 DEF DropdownOwned, MenuSound, Owned, Menus, WinIsPanel
<1>5. DerivedInTable
  <2>1. ASSUME NEW w \in PanelWins PROVE TableIndex(w) \in 0 .. OPTIONS - 1
    <3>1. PICK v : v = menu.sel[w]
      OBVIOUS
    <3>2. v \in Int /\ OPTIONS \in Nat \ {0}
      BY <1>1, <3>1, UiAssumption DEF Menus
    <3> QED
      BY <3>1, <3>2 DEF TableIndex, Clamp
  <2> QED
    BY <2>1 DEF DerivedInTable
<1>6. FiresWherePressed
  BY DEF UiIInv, MenuIInv
<1>7. SentHasUnits /\ IntentFitsTarget
  BY DEF UiIInv, FleetIInv, CommandFits, SentHasUnits, IntentFitsTarget, ClassFor
<1>8. PressHasOneOwner
  BY DEF UiIInv
<1> QED
  BY <1>2, <1>3, <1>4, <1>5, <1>6, <1>7, <1>8 DEF UiInv

(* One owner per press, buttons that fire where they were pressed,         *)
(* dropdowns of open panels, a drawing order that loses no window,         *)
(* settings inside their tables, and commands with units that fit their    *)
(* target (Tick, MenuUi.h, FleetCommandController.h).                      *)
THEOREM UiCorrect == UiSpec => []UiInv
<1>1. UiInit => UiIInv
  BY UiStarts
<1>2. UiIInv /\ [UiNext]_uiVars => UiIInv'
  BY UiMoves
<1>3. UiIInv => UiInv
  BY UiSound
<1> QED
  BY <1>1, <1>2, <1>3, PTL DEF UiSpec
-----------------------------------------------------------------------------
(***************************************************************************)
(* What a frame draws: the batches of the canvas, the pool of particles    *)
(* and the runs of the scene.                                              *)
(***************************************************************************)
Vertex == [mode : {"Solid", "TexLinear"}, tex : Textures \cup {NoTexture}]
Batch == [mode : {"Solid", "TexLinear"}, srv : Nat, start : Nat, count : Nat]
End(b) == b.start + b.count

LEMMA EndIs ==
    ASSUME NEW b \in Batch
    PROVE  b.start \in Nat /\ b.count \in Nat /\ End(b) \in Nat /\ b.start <= End(b) /\ End(b) = b.start + b.count
BY DEF Batch, End

\* A slot shows the texture meant, unless that one found no slot: then the
\* table is full and it never will.
Meant(table, tex, srv) ==
    IF tex \in ToSet(table) THEN srv + 1 \in 1 .. Len(table) /\ table[srv + 1] = tex
    ELSE tex = NoTexture \/ Len(table) = MAX_TEXTURES

TableOK(table) == table \in Seq(Textures) /\ Len(table) <= MAX_TEXTURES

(* The batches in order, without gap or overlap, up to the last vertex.    *)
Placed(bs, vs, table) ==
    /\ bs \in Seq(Batch) /\ vs \in Seq(Vertex) /\ Len(vs) <= MAX_VERTS
    /\ \A i, j \in 1 .. Len(bs) : i < j => End(bs[i]) <= bs[j].start
    /\ \A i \in 1 .. Len(bs) : End(bs[i]) <= Len(vs)
    /\ bs # << >> => End(bs[Len(bs)]) = Len(vs)
    /\ \A v \in 1 .. Len(vs) : \E i \in 1 .. Len(bs) : bs[i].start < v /\ v <= End(bs[i])
    /\ \A i \in 1 .. Len(bs), v \in 1 .. Len(vs) :
          bs[i].start < v /\ v <= End(bs[i]) => vs[v].mode = bs[i].mode /\ Meant(table, vs[v].tex, bs[i].srv)

CanvasIInv ==
    /\ TableOK(m_srvByTex) /\ m_nextSrv = Len(m_srvByTex)
    /\ m_fontSrv \in Nat /\ (m_fontSrv # NoFont => m_fontSrv < Len(m_srvByTex))
    /\ Placed(m_batches, verts, m_srvByTex)

\* The table as it is, or with one more texture while there is room.
Extended(old, new) == new = old \/ (Len(old) < MAX_TEXTURES /\ \E x \in Textures : new = Append(old, x))

LEMMA TablesGrow ==
    ASSUME NEW old, NEW new, TableOK(old), Extended(old, new)
    PROVE  TableOK(new) /\ Len(old) <= Len(new) /\ \A i \in 1 .. Len(old) : new[i] = old[i]
<1>1. MAX_TEXTURES \in Nat /\ Len(old) \in Nat /\ old \in Seq(Textures)
  BY DrawAssumption DEF TableOK
<1>2. ASSUME NEW x \in Textures, new = Append(old, x), Len(old) < MAX_TEXTURES
      PROVE  TableOK(new) /\ Len(old) <= Len(new) /\ \A i \in 1 .. Len(old) : new[i] = old[i]
  BY <1>1, <1>2 DEF TableOK
<1> QED
  BY <1>1, <1>2 DEF Extended, TableOK

LEMMA StillMeant ==
    ASSUME NEW old, NEW new, TableOK(old), Extended(old, new), NEW tex, NEW srv \in Nat, Meant(old, tex, srv)
    PROVE  Meant(new, tex, srv)
<1>1. /\ TableOK(new) /\ Len(old) <= Len(new) /\ \A i \in 1 .. Len(old) : new[i] = old[i]
      /\ old \in Seq(Textures) /\ new \in Seq(Textures) /\ Len(new) <= MAX_TEXTURES /\ MAX_TEXTURES \in Nat
  BY TablesGrow, DrawAssumption DEF TableOK
<1>2. ToSet(old) = { old[i] : i \in 1 .. Len(old) } /\ ToSet(new) = { new[i] : i \in 1 .. Len(new) }
  BY <1>1 DEF ToSet
<1>3. NoTexture \notin ToSet(new)
  <2>1. \A i \in 1 .. Len(new) : new[i] \in Textures
    BY <1>1
  <2> QED
    BY <1>2, <2>1, DrawAssumption DEF NoTexture
<1>4. CASE tex \in ToSet(old)
  BY <1>1, <1>2, <1>4 DEF Meant
<1>5. CASE tex \notin ToSet(old) /\ tex = NoTexture
  BY <1>3, <1>5 DEF Meant
<1>6. CASE tex \notin ToSet(old) /\ Len(old) = MAX_TEXTURES
  BY <1>1, <1>6 DEF Meant, Extended
<1> QED
  BY <1>4, <1>5, <1>6 DEF Meant

LEMMA StillPlaced ==
    ASSUME NEW bs, NEW vs, NEW old, NEW new, TableOK(old), Extended(old, new), Placed(bs, vs, old)
    PROVE  Placed(bs, vs, new)
<1>1. \A i \in 1 .. Len(bs), v \in 1 .. Len(vs) :
          Meant(old, vs[v].tex, bs[i].srv) => Meant(new, vs[v].tex, bs[i].srv)
  <2> SUFFICES ASSUME NEW i \in 1 .. Len(bs), NEW v \in 1 .. Len(vs), Meant(old, vs[v].tex, bs[i].srv)
               PROVE  Meant(new, vs[v].tex, bs[i].srv)
    OBVIOUS
  <2>1. PICK tex, srv : tex = vs[v].tex /\ srv = bs[i].srv
    OBVIOUS
  <2>2. srv \in Nat
    <3>1. bs \in Seq(Batch)
      BY DEF Placed
    <3>2. bs[i] \in Batch
      BY <3>1
    <3> QED
      BY <2>1, <3>2 DEF Batch
  <2>3. Meant(new, tex, srv)
    BY <2>1, <2>2, StillMeant
  <2> QED
    BY <2>1, <2>3
<1> QED
  BY <1>1 DEF Placed

(* EnsureSrv gives a slot of the table it leaves, the texture's own unless *)
(* the table was full.                                                     *)
LEMMA EnsureSrvIs ==
    ASSUME TableOK(m_srvByTex), m_nextSrv = Len(m_srvByTex), NEW tex \in Textures,
           NEW e, e = EnsureSrv(tex)
    PROVE  /\ Extended(m_srvByTex, e.table) /\ TableOK(e.table)
           /\ e.slot \in Nat /\ e.slot < Len(e.table) /\ Meant(e.table, tex, e.slot)
<1>1. PICK t : t = m_srvByTex
  OBVIOUS
<1>2. /\ t \in Seq(Textures) /\ Len(t) \in Nat /\ Len(t) <= MAX_TEXTURES /\ MAX_TEXTURES \in Nat \ {0}
      /\ DOMAIN t = 1 .. Len(t) /\ ToSet(t) = { t[i] : i \in 1 .. Len(t) }
  BY <1>1, DrawAssumption DEF TableOK, ToSet
<1>3. CASE \E i \in DOMAIN t : t[i] = tex
  <2>1. PICK i : i = CHOOSE k \in DOMAIN t : t[k] = tex
    OBVIOUS
  <2>2. i \in 1 .. Len(t) /\ t[i] = tex
    BY <1>2, <1>3, <2>1
  <2>3. e = [slot |-> i - 1, table |-> t]
    BY <1>1, <1>3, <2>1 DEF EnsureSrv
  <2>4. e.slot = i - 1 /\ e.table = t
    BY <2>3
  <2>5. e.slot \in Nat /\ e.slot + 1 = i /\ e.slot < Len(t)
    BY <1>2, <2>2, <2>4
  <2> QED
    BY <1>1, <1>2, <2>2, <2>4, <2>5 DEF Extended, Meant, TableOK
<1>4. CASE (\A i \in DOMAIN t : t[i] # tex) /\ m_nextSrv >= MAX_TEXTURES
  <2>1. e = [slot |-> 0, table |-> t]
    BY <1>1, <1>4 DEF EnsureSrv
  <2>2. Len(t) = MAX_TEXTURES /\ tex \notin ToSet(t)
    BY <1>1, <1>2, <1>4
  <2> QED
    BY <1>1, <1>2, <2>1, <2>2 DEF Extended, Meant, TableOK
<1>5. CASE (\A i \in DOMAIN t : t[i] # tex) /\ ~(m_nextSrv >= MAX_TEXTURES)
  <2>1. e = [slot |-> Len(t), table |-> Append(t, tex)]
    BY <1>1, <1>5 DEF EnsureSrv
  <2>2. PICK new : new = Append(t, tex)
    OBVIOUS
  <2>3. Len(t) < MAX_TEXTURES
    BY <1>1, <1>2, <1>5
  <2>4. new \in Seq(Textures) /\ Len(new) = Len(t) + 1 /\ new[Len(t) + 1] = tex /\ DOMAIN new = 1 .. Len(t) + 1
    BY <1>2, <2>2
  <2>5. tex \in ToSet(new)
    BY <2>4, <1>2 DEF ToSet
  <2>6. Meant(new, tex, Len(t))
    BY <1>2, <2>4, <2>5 DEF Meant
  <2>7. Extended(t, new)
    BY <2>2, <2>3 DEF Extended
  <2> QED
    BY <1>1, <1>2, <2>1, <2>2, <2>3, <2>4, <2>6, <2>7 DEF TableOK
<1> QED
  BY <1>3, <1>4, <1>5

(* Prim: what is drawn next belongs to the last batch.                     *)
LEMMA PrimIs ==
    ASSUME NEW bs, NEW vs, NEW table, Placed(bs, vs, table),
           NEW mode \in {"Solid", "TexLinear"}, NEW srv \in Nat, NEW new, new = Prim(bs, mode, srv, Len(vs))
    PROVE  /\ Placed(new, vs, table) /\ new # << >>
           /\ new[Len(new)].mode = mode /\ new[Len(new)].srv = srv
<1>1. bs \in Seq(Batch) /\ vs \in Seq(Vertex) /\ Len(bs) \in Nat /\ Len(vs) \in Nat
  BY DEF Placed
<1>2. CASE ~(bs = << >> \/ Last(bs).mode # mode \/ Last(bs).srv # srv)
  <2>1. new = bs
    BY <1>2 DEF Prim
  <2> QED
    BY <1>2, <2>1 DEF Last
<1>3. CASE bs = << >> \/ Last(bs).mode # mode \/ Last(bs).srv # srv
  <2>1. PICK b : b = [mode |-> mode, srv |-> srv, start |-> Len(vs), count |-> 0]
    OBVIOUS
  <2>2. new = Append(bs, b)
    BY <1>3, <2>1 DEF Prim
  <2>3. b \in Batch /\ b.start = Len(vs) /\ End(b) = Len(vs) /\ b.mode = mode /\ b.srv = srv
    BY <1>1, <2>1 DEF Batch, End
  <2>4. /\ new \in Seq(Batch) /\ Len(new) = Len(bs) + 1 /\ new[Len(bs) + 1] = b
        /\ \A i \in 1 .. Len(bs) : new[i] = bs[i]
    BY <1>1, <2>2, <2>3
  <2>5. \A i \in 1 .. Len(new) : i \in 1 .. Len(bs) \/ i = Len(bs) + 1
    BY <1>1, <2>4
  <2>6. ASSUME NEW i \in 1 .. Len(new), NEW j \in 1 .. Len(new), i < j PROVE End(new[i]) <= new[j].start
    <3>1. i \in 1 .. Len(bs)
      BY <1>1, <2>4, <2>6
    <3>2. End(new[i]) = End(bs[i]) /\ End(bs[i]) <= Len(vs)
      BY <2>4, <3>1 DEF Placed
    <3> QED
      BY <2>3, <2>4, <2>5, <2>6, <3>1, <3>2 DEF Placed
  <2>7. \A i \in 1 .. Len(new) : End(new[i]) <= Len(vs)
    <3> SUFFICES ASSUME NEW i \in 1 .. Len(new) PROVE End(new[i]) <= Len(vs)
      OBVIOUS
    <3> QED
      BY <1>1, <2>3, <2>4, <2>5 DEF Placed
  <2>8. \A v \in 1 .. Len(vs) : \E i \in 1 .. Len(new) : new[i].start < v /\ v <= End(new[i])
    <3> SUFFICES ASSUME NEW v \in 1 .. Len(vs)
                 PROVE  \E i \in 1 .. Len(new) : new[i].start < v /\ v <= End(new[i])
      OBVIOUS
    <3>1. PICK i \in 1 .. Len(bs) : bs[i].start < v /\ v <= End(bs[i])
      BY DEF Placed
    <3> QED
      BY <1>1, <2>4, <3>1
  <2>9. ASSUME NEW i \in 1 .. Len(new), NEW v \in 1 .. Len(vs), new[i].start < v, v <= End(new[i])
        PROVE  vs[v].mode = new[i].mode /\ Meant(table, vs[v].tex, new[i].srv)
    <3>1. i # Len(bs) + 1
      BY <1>1, <2>3, <2>4, <2>9
    <3>2. i \in 1 .. Len(bs) /\ new[i] = bs[i]
      BY <2>4, <2>5, <3>1
    <3> QED
      BY <2>9, <3>2 DEF Placed
  <2>10. new # << >> /\ new[Len(new)] = b
    BY <1>1, <2>4
  <2>11. Len(vs) <= MAX_VERTS
    BY DEF Placed
  <2> QED
    BY <1>1, <2>3, <2>4, <2>6, <2>7, <2>8, <2>9, <2>10, <2>11 DEF Placed
<1> QED
  BY <1>2, <1>3

\* The last batch replaced, and a vertex written k times.
Lengthened(bs, bs2, c) ==
    /\ bs2 \in Seq(Batch) /\ Len(bs2) = Len(bs) /\ bs2[Len(bs)] = c
    /\ \A i \in 1 .. Len(bs) : i # Len(bs) => bs2[i] = bs[i]
Wrote(vs, vs2, k, w) ==
    /\ vs2 \in Seq(Vertex) /\ Len(vs2) = Len(vs) + k
    /\ \A v \in 1 .. Len(vs) : vs2[v] = vs[v]
    /\ \A v \in Len(vs) + 1 .. Len(vs) + k : vs2[v] = w

(* Vtx: vertices enter the buffer and the last batch alike.                *)
LEMMA VtxIs ==
    ASSUME NEW bs, NEW vs, NEW table, NEW bs2, NEW vs2, NEW c, NEW k, NEW w,
           Placed(bs, vs, table), bs # << >>, Lengthened(bs, bs2, c), Wrote(vs, vs2, k, w),
           k \in Nat, Len(vs) + k <= MAX_VERTS, w \in Vertex, c \in Batch,
           w.mode = c.mode, Meant(table, w.tex, c.srv), c.mode = bs[Len(bs)].mode,
           c.srv = bs[Len(bs)].srv, c.start = bs[Len(bs)].start, c.count = bs[Len(bs)].count + k
    PROVE  Placed(bs2, vs2, table)
<1> DEFINE n == Len(bs)
           b == bs[n]
<1>a. /\ n \in Nat /\ n >= 1 /\ bs2 \in Seq(Batch) /\ Len(bs2) = n /\ bs2[n] = c
      /\ \A i \in 1 .. n : i # n => bs2[i] = bs[i]
  <2>1. bs \in Seq(Batch)
    BY DEF Placed
  <2> QED
    BY <2>1, EmptySeq DEF Lengthened
<1>b. /\ vs2 \in Seq(Vertex) /\ Len(vs2) = Len(vs) + k
      /\ \A v \in 1 .. Len(vs) : vs2[v] = vs[v]
      /\ \A v \in Len(vs) + 1 .. Len(vs) + k : vs2[v] = w
  BY DEF Wrote
<1>c. c.mode = b.mode /\ c.srv = b.srv /\ c.start = b.start /\ c.count = b.count + k
  OBVIOUS
<1> HIDE DEF n, b
<1>d. n = Len(bs) /\ b = bs[n]
  BY DEF n, b
<1>1. bs \in Seq(Batch) /\ vs \in Seq(Vertex) /\ Len(vs) \in Nat /\ MAX_VERTS \in Nat
  BY DrawAssumption DEF Placed
<1>2. \A i \in 1 .. n : bs[i] \in Batch
  BY <1>a, <1>b, <1>c, <1>d, <1>1
<1>3. \A i \in 1 .. n : bs[i].start \in Nat /\ bs[i].count \in Nat /\ End(bs[i]) \in Nat
  <2> SUFFICES ASSUME NEW i \in 1 .. n PROVE bs[i].start \in Nat /\ bs[i].count \in Nat /\ End(bs[i]) \in Nat
    OBVIOUS
  <2>1. bs[i] \in Batch
    BY <1>a, <1>b, <1>c, <1>d, <1>2
  <2> QED
    BY <1>a, <1>b, <1>c, <1>d, <2>1, EndIs
<1>4. End(b) = Len(vs) /\ End(c) = Len(vs) + k /\ b.start \in Nat /\ b.start <= Len(vs)
  <2>1. b.start \in Nat /\ b.count \in Nat
    BY <1>a, <1>b, <1>c, <1>d, <1>3
  <2>2. End(b) = Len(vs)
    <3>1. bs # << >>
      BY <1>a, <1>d, EmptySeq
    <3> QED
      BY <1>a, <1>b, <1>c, <1>d, <3>1 DEF Placed
  <2>3. End(c) = b.start + (b.count + k) /\ End(b) = b.start + b.count
    BY <1>c DEF End
  <2> QED
    BY <1>a, <1>b, <1>c, <1>d, <1>1, <2>1, <2>2, <2>3
<1>5. ASSUME NEW v \in 1 .. Len(vs2)
      PROVE  (v <= Len(vs) => v \in 1 .. Len(vs)) /\ (v > Len(vs) => v \in Len(vs) + 1 .. Len(vs) + k)
  BY <1>a, <1>b, <1>c, <1>d, <1>1
<1>11. ASSUME NEW i \in 1 .. n, NEW j \in 1 .. n, i < j PROVE End(bs2[i]) <= bs2[j].start
  <2>1. i # n /\ bs2[i] = bs[i] /\ bs2[j].start = bs[j].start
    BY <1>a, <1>b, <1>c, <1>d, <1>11
  <2> QED
    BY <1>a, <1>b, <1>c, <1>d, <1>11, <2>1 DEF Placed
<1>12. ASSUME NEW i \in 1 .. n PROVE End(bs2[i]) <= Len(vs2)
  <2>1. CASE i = n
    BY <1>a, <1>b, <1>c, <1>d, <1>1, <1>4, <2>1
  <2>2. CASE i # n
    <3>1. bs2[i] = bs[i] /\ End(bs[i]) <= Len(vs)
      BY <1>a, <1>b, <1>c, <1>d, <2>2 DEF Placed
    <3> QED
      BY <1>a, <1>b, <1>c, <1>d, <1>1, <1>3, <3>1
  <2> QED
    BY <1>a, <1>b, <1>c, <1>d, <2>1, <2>2
<1>13. ASSUME NEW v \in 1 .. Len(vs2) PROVE \E i \in 1 .. n : bs2[i].start < v /\ v <= End(bs2[i])
  <2>1. CASE v <= Len(vs)
    <3>1. PICK i \in 1 .. n : bs[i].start < v /\ v <= End(bs[i])
      <4>1. v \in 1 .. Len(vs)
        BY <1>a, <1>b, <1>c, <1>d, <1>5, <2>1
      <4> QED
        BY <1>d, <4>1 DEF Placed
    <3>2. CASE i = n
      BY <1>a, <1>b, <1>c, <1>d, <1>1, <1>4, <3>1, <3>2
    <3>3. CASE i # n
      BY <1>a, <1>b, <1>c, <1>d, <3>1, <3>3
    <3> QED
      BY <1>a, <1>b, <1>c, <1>d, <3>2, <3>3
  <2>2. CASE v > Len(vs)
    BY <1>a, <1>b, <1>c, <1>d, <1>1, <1>4, <2>2
  <2> QED
    BY <1>a, <1>b, <1>c, <1>d, <1>1, <2>1, <2>2
<1>14. ASSUME NEW i \in 1 .. n, NEW v \in 1 .. Len(vs2), bs2[i].start < v, v <= End(bs2[i])
       PROVE  vs2[v].mode = bs2[i].mode /\ Meant(table, vs2[v].tex, bs2[i].srv)
  <2>1. bs2[i].mode = bs[i].mode /\ bs2[i].srv = bs[i].srv /\ bs2[i].start = bs[i].start
    BY <1>a, <1>b, <1>c, <1>d, <1>1
  <2>2. CASE v <= Len(vs)
    <3>1. v \in 1 .. Len(vs) /\ vs2[v] = vs[v]
      BY <1>a, <1>b, <1>c, <1>d, <1>5, <2>2
    <3>2. v <= End(bs[i])
      <4>1. CASE i = n
        BY <1>a, <1>b, <1>c, <1>d, <1>4, <2>2, <4>1
      <4>2. CASE i # n
        BY <1>a, <1>b, <1>c, <1>d, <1>14, <4>2
      <4> QED
        BY <4>1, <4>2
    <3> QED
      BY <1>a, <1>b, <1>c, <1>d, <1>14, <2>1, <3>1, <3>2 DEF Placed
  <2>3. CASE v > Len(vs)
    <3>1. vs2[v] = w
      BY <1>a, <1>b, <1>c, <1>d, <1>5, <2>3
    <3>2. i = n
      <4> SUFFICES ASSUME i # n PROVE FALSE
        OBVIOUS
      <4>1. bs2[i] = bs[i] /\ End(bs[i]) <= Len(vs)
        BY <1>a, <1>b, <1>c, <1>d DEF Placed
      <4> QED
        BY <1>a, <1>b, <1>c, <1>d, <1>1, <1>3, <1>14, <2>3, <4>1
    <3> QED
      BY <1>a, <1>b, <1>c, <1>d, <2>1, <3>1, <3>2
  <2> QED
    BY <1>a, <1>b, <1>c, <1>d, <1>1, <2>2, <2>3
<1>15. End(bs2[Len(bs2)]) = Len(vs2) /\ Len(vs2) <= MAX_VERTS
  BY <1>a, <1>b, <1>c, <1>d, <1>1, <1>4
<1> QED
  BY <1>a, <1>b, <1>c, <1>d, <1>11, <1>12, <1>13, <1>14, <1>15 DEF Placed

(* A primitive: Prim, then Vtx for its vertices while there is room.       *)
LEMMA DrawPlaced ==
    ASSUME CanvasIInv, NEW table, TableOK(table), Extended(m_srvByTex, table), NEW n \in Nat,
           NEW w \in Vertex, NEW srv \in Nat, Meant(table, w.tex, srv)
    PROVE  \A bs2, vs2 : /\ bs2 = Vtx(Prim(m_batches, w.mode, srv, Len(verts)), n)
                         /\ vs2 = verts \o Written(n, w)
                         => Placed(bs2, vs2, table)
<1>1. Placed(m_batches, verts, table)
  BY StillPlaced DEF CanvasIInv
<1>2. verts \in Seq(Vertex) /\ Len(verts) \in Nat /\ Len(verts) <= MAX_VERTS /\ MAX_VERTS \in Nat
  BY <1>1, DrawAssumption DEF Placed
<1>3. PICK mode : mode = w.mode
  OBVIOUS
<1>4. mode \in {"Solid", "TexLinear"}
  BY <1>3 DEF Vertex
<1>5. PICK bs : bs = Prim(m_batches, mode, srv, Len(verts))
  OBVIOUS
<1>6. Placed(bs, verts, table) /\ bs # << >> /\ bs[Len(bs)].mode = mode /\ bs[Len(bs)].srv = srv
  BY <1>1, <1>4, <1>5, PrimIs
<1>7. PICK k : k = IF Len(verts) + n <= MAX_VERTS THEN n ELSE MAX_VERTS - Len(verts)
  OBVIOUS
<1>8. k \in Nat /\ Len(verts) + k <= MAX_VERTS
  BY <1>2, <1>7
<1>9. PICK m, b : m = Len(bs) /\ b = bs[m]
  OBVIOUS
<1>10. bs \in Seq(Batch) /\ m \in Nat /\ m >= 1 /\ b \in Batch
  <2>1. bs \in Seq(Batch)
    BY <1>6 DEF Placed
  <2> QED
    BY <1>6, <1>9, <2>1, EmptySeq
<1>11. PICK c : c = [b EXCEPT !.count = b.count + k]
  OBVIOUS
<1>12. c \in Batch /\ c.mode = b.mode /\ c.srv = b.srv /\ c.start = b.start /\ c.count = b.count + k
  <2>1. b.mode \in {"Solid", "TexLinear"} /\ b.srv \in Nat /\ b.start \in Nat /\ b.count \in Nat
        /\ b = [mode |-> b.mode, srv |-> b.srv, start |-> b.start, count |-> b.count]
    BY <1>10 DEF Batch
  <2>2. c = [mode |-> b.mode, srv |-> b.srv, start |-> b.start, count |-> b.count + k]
    BY <1>11, <2>1
  <2> QED
    BY <1>8, <2>1, <2>2 DEF Batch
<1>13. PICK bs2 : bs2 = [bs EXCEPT ![m] = c]
  OBVIOUS
<1>14. bs2 \in Seq(Batch) /\ Len(bs2) = m /\ bs2[m] = c /\ \A i \in 1 .. m : i # m => bs2[i] = bs[i]
  BY <1>9, <1>10, <1>12, <1>13
<1>15. PICK e : e = [i \in 1 .. k |-> w]
  OBVIOUS
<1>16. e \in Seq(Vertex) /\ Len(e) = k /\ \A i \in 1 .. k : e[i] = w
  BY <1>8, <1>15
<1>17. PICK vs2 : vs2 = verts \o e
  OBVIOUS
<1>18. /\ vs2 \in Seq(Vertex) /\ Len(vs2) = Len(verts) + k
       /\ \A v \in 1 .. Len(verts) + k : vs2[v] = IF v <= Len(verts) THEN verts[v] ELSE e[v - Len(verts)]
  BY <1>2, <1>16, <1>17, ConcatProperties
<1>19. ASSUME NEW v \in Len(verts) + 1 .. Len(verts) + k PROVE vs2[v] = w
  <2>1. v - Len(verts) \in 1 .. k /\ v \in 1 .. Len(verts) + k /\ ~(v <= Len(verts))
    BY <1>2, <1>8
  <2> QED
    BY <1>16, <1>18, <2>1
<1>20. Placed(bs2, vs2, table)
  <2>1. w.mode = b.mode /\ Meant(table, w.tex, b.srv)
    BY <1>3, <1>6, <1>9
  <2>2. Lengthened(bs, bs2, c)
    BY <1>9, <1>14 DEF Lengthened
  <2>3. Wrote(verts, vs2, k, w)
    <3>1. \A v \in 1 .. Len(verts) : v \in 1 .. Len(verts) + k /\ v <= Len(verts)
      BY <1>2, <1>8
    <3> QED
      BY <1>18, <1>19, <3>1 DEF Wrote
  <2> QED
    BY <1>6, <1>8, <1>9, <1>12, <2>1, <2>2, <2>3, VtxIs
<1>21. Written(n, w) = e
  BY <1>7, <1>15 DEF Written
<1>22. Vtx(bs, n) = bs2
  <2>1. Vtx(bs, n) = [bs EXCEPT ![m].count = @ + k]
    BY <1>7, <1>9 DEF Vtx
  <2> QED
    BY <1>9, <1>11, <1>13, <2>1
<1> QED
  BY <1>3, <1>5, <1>17, <1>20, <1>21, <1>22

LEMMA CanvasStarts == ASSUME CanvasInit PROVE CanvasIInv
<1>1. m_srvByTex \in Seq(Textures) /\ m_batches \in Seq(Batch) /\ verts \in Seq(Vertex)
      /\ Len(m_srvByTex) = 0 /\ Len(m_batches) = 0 /\ Len(verts) = 0 /\ m_batches = << >>
  BY DEF CanvasInit
<1>2. MAX_VERTS \in Nat /\ MAX_TEXTURES \in Nat
  BY DrawAssumption
<1>3. Placed(m_batches, verts, m_srvByTex)
  BY <1>1, <1>2 DEF Placed
<1> QED
  BY <1>1, <1>2, <1>3 DEF CanvasIInv, TableOK, CanvasInit, NoFont

LEMMA CanvasMoves == ASSUME CanvasIInv, CanvasNext PROVE CanvasIInv'
<1>1. TableOK(m_srvByTex) /\ m_nextSrv = Len(m_srvByTex) /\ Placed(m_batches, verts, m_srvByTex)
      /\ m_fontSrv \in Nat /\ (m_fontSrv # NoFont => m_fontSrv < Len(m_srvByTex))
      /\ m_srvByTex \in Seq(Textures)
  BY DEF CanvasIInv, TableOK
<1>2. MAX_TEXTURES \in Nat \ {0} /\ MAX_VERTS \in Nat
  BY DrawAssumption
<1>3. Extended(m_srvByTex, m_srvByTex)
  BY DEF Extended
<1>4. CASE Reset
  <2>1. m_batches' \in Seq(Batch) /\ verts' \in Seq(Vertex) /\ Len(m_batches') = 0 /\ Len(verts') = 0
        /\ m_batches' = << >>
    BY <1>4 DEF Reset
  <2>2. Placed(m_batches', verts', m_srvByTex)
    BY <1>2, <2>1 DEF Placed
  <2>3. m_srvByTex' = m_srvByTex /\ m_nextSrv' = m_nextSrv /\ m_fontSrv' = m_fontSrv
    BY <1>4 DEF Reset
  <2> QED
    BY <1>1, <2>2, <2>3 DEF CanvasIInv
<1>5. ASSUME NEW n \in {1, 2}, DrawSolid(n) PROVE CanvasIInv'
  <2>1. PICK w : w = [mode |-> "Solid", tex |-> NoTexture]
    OBVIOUS
  <2>2. w \in Vertex /\ w.mode = "Solid" /\ w.tex = NoTexture
    BY <2>1 DEF Vertex
  <2>3. NoTexture \notin ToSet(m_srvByTex)
    <3>1. \A i \in 1 .. Len(m_srvByTex) : m_srvByTex[i] \in Textures
      BY <1>1
    <3>2. ToSet(m_srvByTex) = { m_srvByTex[i] : i \in 1 .. Len(m_srvByTex) }
      BY <1>1 DEF ToSet
    <3> QED
      BY <3>1, <3>2, DrawAssumption DEF NoTexture
  <2>4. Meant(m_srvByTex, w.tex, 0)
    BY <2>2, <2>3 DEF Meant
  <2>5. Placed(m_batches', verts', m_srvByTex)
    <3>1. m_batches' = Vtx(Prim(m_batches, w.mode, 0, Len(verts)), n) /\ verts' = verts \o Written(n, w)
      BY <1>5, <2>1, <2>2 DEF DrawSolid
    <3> QED
      BY <1>1, <1>3, <2>2, <2>4, <3>1, DrawPlaced
  <2>6. m_srvByTex' = m_srvByTex /\ m_nextSrv' = m_nextSrv /\ m_fontSrv' = m_fontSrv
    BY <1>5 DEF DrawSolid
  <2> QED
    BY <1>1, <2>5, <2>6 DEF CanvasIInv
<1>6. ASSUME NEW n \in {1, 2}, DrawText(n) PROVE CanvasIInv'
  <2>1. PICK tex : tex = m_srvByTex[m_fontSrv + 1]
    OBVIOUS
  <2>2. m_fontSrv + 1 \in 1 .. Len(m_srvByTex) /\ tex \in Textures
    BY <1>1, <1>6, <2>1 DEF DrawText
  <2>3. PICK w : w = [mode |-> "TexLinear", tex |-> tex]
    OBVIOUS
  <2>4. w \in Vertex /\ w.mode = "TexLinear" /\ w.tex = tex
    BY <2>2, <2>3 DEF Vertex
  <2>5. Meant(m_srvByTex, w.tex, m_fontSrv)
    <3>1. ToSet(m_srvByTex) = { m_srvByTex[i] : i \in 1 .. Len(m_srvByTex) }
      BY <1>1 DEF ToSet
    <3> QED
      BY <2>1, <2>2, <2>4, <3>1 DEF Meant
  <2>6. Placed(m_batches', verts', m_srvByTex)
    <3>1. /\ m_batches' = Vtx(Prim(m_batches, w.mode, m_fontSrv, Len(verts)), 2 * n)
          /\ verts' = verts \o Written(2 * n, w) /\ 2 * n \in Nat
      BY <1>6, <2>1, <2>3, <2>4 DEF DrawText
    <3> QED
      BY <1>1, <1>3, <2>4, <2>5, <3>1, DrawPlaced
  <2>7. m_srvByTex' = m_srvByTex /\ m_nextSrv' = m_nextSrv /\ m_fontSrv' = m_fontSrv
    BY <1>6 DEF DrawText
  <2> QED
    BY <1>1, <2>6, <2>7 DEF CanvasIInv
<1>7. ASSUME NEW tex \in Textures, SetFont(tex) PROVE CanvasIInv'
  <2>1. PICK e : e = EnsureSrv(tex)
    OBVIOUS
  <2>2. /\ Extended(m_srvByTex, e.table) /\ TableOK(e.table) /\ e.slot \in Nat /\ e.slot < Len(e.table)
    BY <1>1, <2>1, EnsureSrvIs
  <2>3. /\ m_srvByTex' = e.table /\ m_nextSrv' = Len(m_srvByTex') /\ m_fontSrv' = e.slot
        /\ m_batches' = m_batches /\ verts' = verts
    BY <1>7, <2>1 DEF SetFont
  <2>4. Placed(m_batches, verts, e.table)
    BY <1>1, <2>2, StillPlaced
  <2> QED
    BY <2>2, <2>3, <2>4 DEF CanvasIInv
<1>8. ASSUME NEW tex \in Textures, DrawTexturedQuad(tex) PROVE CanvasIInv'
  <2>1. PICK e : e = EnsureSrv(tex)
    OBVIOUS
  <2>2. /\ Extended(m_srvByTex, e.table) /\ TableOK(e.table) /\ e.slot \in Nat /\ Meant(e.table, tex, e.slot)
    BY <1>1, <2>1, EnsureSrvIs
  <2>3. PICK w : w = [mode |-> "TexLinear", tex |-> tex]
    OBVIOUS
  <2>4. w \in Vertex /\ w.mode = "TexLinear" /\ w.tex = tex
    BY <2>3 DEF Vertex
  <2>5. Placed(m_batches', verts', e.table)
    <3>1. m_batches' = Vtx(Prim(m_batches, w.mode, e.slot, Len(verts)), 2) /\ verts' = verts \o Written(2, w)
      BY <1>8, <2>1, <2>3, <2>4 DEF DrawTexturedQuad
    <3> QED
      BY <2>2, <2>4, <3>1, DrawPlaced
  <2>6. m_srvByTex' = e.table /\ m_nextSrv' = Len(m_srvByTex') /\ m_fontSrv' = m_fontSrv
    BY <1>8, <2>1 DEF DrawTexturedQuad
  <2>7. Len(m_srvByTex) <= Len(e.table)
    BY <1>1, <2>2, TablesGrow
  <2>8. m_fontSrv # NoFont => m_fontSrv < Len(e.table)
    BY <1>1, <2>2, <2>7 DEF TableOK
  <2> QED
    BY <1>1, <2>2, <2>5, <2>6, <2>8 DEF CanvasIInv
<1> QED
  BY <1>4, <1>5, <1>6, <1>7, <1>8 DEF CanvasNext

LEMMA BatchesDoTile == ASSUME CanvasIInv PROVE BatchesTile
<1>1. Placed(m_batches, verts, m_srvByTex)
  BY DEF CanvasIInv
<1>2. PICK bs : bs = m_batches
  OBVIOUS
<1>3. bs \in Seq(Batch) /\ DOMAIN bs = 1 .. Len(bs) /\ Len(verts) \in Nat
  BY <1>1, <1>2 DEF Placed
<1>4. ASSUME NEW v \in 1 .. Len(verts), NEW own,
             own = { i \in DOMAIN bs : bs[i].start < v /\ v <= bs[i].start + bs[i].count }
      PROVE  \E i \in own : /\ own = {i} /\ bs[i].mode = verts[v].mode
                            /\ verts[v].tex \in ToSet(m_srvByTex) => m_srvByTex[bs[i].srv + 1] = verts[v].tex
  <2>1. PICK i \in 1 .. Len(bs) : bs[i].start < v /\ v <= End(bs[i])
    BY <1>1, <1>2 DEF Placed
  <2>2. verts[v].mode = bs[i].mode /\ Meant(m_srvByTex, verts[v].tex, bs[i].srv)
    BY <1>1, <1>2, <2>1 DEF Placed
  <2>3. ASSUME NEW j \in own PROVE j = i
    <3>1. j \in 1 .. Len(bs) /\ bs[j].start < v /\ v <= End(bs[j])
      BY <1>3, <1>4 DEF End
    <3>2. bs[i] \in Batch /\ bs[j] \in Batch
      BY <1>3, <3>1
    <3>3. End(bs[i]) \in Nat /\ End(bs[j]) \in Nat /\ bs[i].start \in Nat /\ bs[j].start \in Nat
      BY <3>2, EndIs
    <3>4. (i < j => End(bs[i]) <= bs[j].start) /\ (j < i => End(bs[j]) <= bs[i].start)
      BY <1>1, <1>2, <3>1 DEF Placed
    <3> QED
      BY <1>3, <2>1, <3>1, <3>3, <3>4
  <2>4. i \in own
    BY <1>3, <1>4, <2>1 DEF End
  <2> QED
    BY <2>2, <2>3, <2>4 DEF Meant
<1>5. \A i \in DOMAIN bs : bs[i].start + bs[i].count <= Len(verts)
  BY <1>1, <1>2, <1>3 DEF Placed, End
<1> QED
  BY <1>2, <1>4, <1>5 DEF BatchesTile

-----------------------------------------------------------------------------
(* The pool of particles. *)
Pools == [ emit : [EmitSlots -> [id : Nat, left : Nat]], cursor : EmitSlots, spawned : Nat,
           due : Seq(Nat), dropped : BOOLEAN ]

(* Whose life is not over has a slot; a spawn was dropped only by a pool   *)
(* that is full.                                                           *)
SpawnsSound(p) ==
    /\ p \in Pools /\ Len(p.due) = p.spawned
    /\ \A i \in 1 .. p.spawned : p.due[i] > 0 => \E s \in EmitSlots : p.emit[s].id = i /\ p.emit[s].left = p.due[i]
    /\ p.dropped => \A s \in EmitSlots : p.emit[s].left > 0

Pool == [ emit |-> m_emit, cursor |-> m_spawnCursor, spawned |-> spawned, due |-> due, dropped |-> dropped ]
ParticleIInv == SpawnsSound(Pool)

(* The scan stops at a dead slot, the nearest after the cursor.            *)
LEMMA SlotIsDead ==
    ASSUME NEW emit \in [EmitSlots -> [id : Nat, left : Nat]], NEW cursor \in EmitSlots, Scan(emit, cursor) # {}
    PROVE  Slot(emit, cursor) \in Scan(emit, cursor)
<1>1. MAX_EMIT_PARTICLES \in Nat \ {0}
  BY DrawAssumption
<1>2. Scan(emit, cursor) \subseteq EmitSlots
  BY DEF Scan
<1>3. \A c \in EmitSlots : Distance(cursor, c) \in Nat
  <2> SUFFICES ASSUME NEW c \in EmitSlots PROVE Distance(cursor, c) \in Nat
    OBVIOUS
  <2>1. PICK d : d = c + MAX_EMIT_PARTICLES - cursor
    OBVIOUS
  <2>2. d \in Nat
    BY <1>1, <2>1 DEF EmitSlots
  <2>3. d % MAX_EMIT_PARTICLES \in Nat
    BY <1>1, <2>2
  <2> QED
    BY <2>1, <2>3 DEF Distance
<1>4. PICK T : T = { Distance(cursor, c) : c \in Scan(emit, cursor) }
  OBVIOUS
<1>5. T \subseteq Nat /\ T # {}
  BY <1>2, <1>3, <1>4
<1>6. PICK m \in T : \A k \in T : m <= k
  BY <1>5, LeastNumber
<1>7. PICK c \in Scan(emit, cursor) : m = Distance(cursor, c)
  BY <1>4, <1>6
<1>8. \A d \in Scan(emit, cursor) : Distance(cursor, c) <= Distance(cursor, d)
  BY <1>4, <1>6, <1>7
<1> QED
  BY <1>8 DEF Slot

LEMMA SpawnSound ==
    ASSUME NEW p, SpawnsSound(p), NEW life \in Lives
    PROVE  SpawnsSound(Spawn(p, life))
<1>1. /\ p \in Pools /\ Len(p.due) = p.spawned
      /\ \A i \in 1 .. p.spawned : p.due[i] > 0 => \E s \in EmitSlots : p.emit[s].id = i /\ p.emit[s].left = p.due[i]
      /\ p.dropped => \A s \in EmitSlots : p.emit[s].left > 0
  BY DEF SpawnsSound
<1>2. PICK emit, cursor, sp, du, dr : emit = p.emit /\ cursor = p.cursor /\ sp = p.spawned /\ du = p.due /\ dr = p.dropped
  OBVIOUS
<1>3. /\ emit \in [EmitSlots -> [id : Nat, left : Nat]] /\ cursor \in EmitSlots /\ sp \in Nat /\ du \in Seq(Nat)
      /\ dr \in BOOLEAN /\ p = [emit |-> emit, cursor |-> cursor, spawned |-> sp, due |-> du, dropped |-> dr]
      /\ Len(du) = sp
  BY <1>1, <1>2 DEF Pools
<1>4. \A s \in EmitSlots : emit[s].id \in Nat /\ emit[s].left \in Nat
  BY <1>3
<1>5. CASE Scan(emit, cursor) = {}
  <2>1. PICK q : q = [p EXCEPT !.dropped = TRUE]
    OBVIOUS
  <2>2. /\ q \in Pools /\ q.emit = emit /\ q.spawned = sp /\ q.due = du
    BY <1>3, <2>1 DEF Pools
  <2>3. \A s \in EmitSlots : emit[s].left > 0
    BY <1>4, <1>5 DEF Scan
  <2>4. SpawnsSound(q)
    BY <1>1, <1>2, <2>2, <2>3 DEF SpawnsSound
  <2> QED
    BY <1>2, <1>5, <2>1, <2>4 DEF Spawn
<1>6. CASE Scan(emit, cursor) # {}
  <2>1. PICK c : c = Slot(emit, cursor)
    OBVIOUS
  <2>2. c \in EmitSlots /\ emit[c].left = 0
    BY <1>3, <1>6, <2>1, SlotIsDead DEF Scan
  <2>3. PICK n, e2, d2 : n = (c + 1) % MAX_EMIT_PARTICLES /\ e2 = [emit EXCEPT ![c] = [id |-> sp + 1, left |-> life]]
                         /\ d2 = Append(du, life)
    OBVIOUS
  <2>4. PICK q : q = [emit |-> e2, cursor |-> n, spawned |-> sp + 1, due |-> d2, dropped |-> dr]
    OBVIOUS
  <2>5. Spawn(p, life) = q
    BY <1>2, <1>6, <2>1, <2>3, <2>4 DEF Spawn
  <2>6. life \in Nat /\ MAX_EMIT_PARTICLES \in Nat \ {0}
    BY DrawAssumption
  <2>7. n \in EmitSlots
    BY <2>2, <2>3, <2>6 DEF EmitSlots
  <2>8. /\ e2 \in [EmitSlots -> [id : Nat, left : Nat]]
        /\ e2[c].id = sp + 1 /\ e2[c].left = life /\ \A s \in EmitSlots : s # c => e2[s] = emit[s]
    BY <1>3, <2>2, <2>3, <2>6
  <2>9. d2 \in Seq(Nat) /\ Len(d2) = sp + 1 /\ d2[sp + 1] = life /\ \A i \in 1 .. sp : d2[i] = du[i]
    BY <1>3, <2>3, <2>6
  <2>10. q \in Pools /\ Len(q.due) = q.spawned
    BY <1>3, <2>4, <2>7, <2>8, <2>9 DEF Pools
  <2>11. ~dr
    BY <1>1, <1>2, <2>2
  <2>12. ASSUME NEW i \in 1 .. sp + 1, d2[i] > 0
         PROVE  \E s \in EmitSlots : e2[s].id = i /\ e2[s].left = d2[i]
    <3>1. CASE i = sp + 1
      BY <2>2, <2>8, <2>9, <3>1
    <3>2. CASE i # sp + 1
      <4>1. i \in 1 .. sp /\ d2[i] = du[i]
        BY <1>3, <2>9, <3>2
      <4>2. PICK s \in EmitSlots : emit[s].id = i /\ emit[s].left = du[i]
        BY <1>1, <1>2, <2>12, <4>1
      <4>3. s # c
        BY <2>2, <2>12, <4>1, <4>2
      <4> QED
        BY <2>8, <4>1, <4>2, <4>3
    <3> QED
      BY <3>1, <3>2
  <2>13. SpawnsSound(q)
    BY <2>4, <2>10, <2>11, <2>12 DEF SpawnsSound
  <2> QED
    BY <2>5, <2>13
<1> QED
  BY <1>5, <1>6

(* Every emitter of a frame has its turn, and leaves the pool sound.       *)
LEMMA SpawnAllSound ==
    ASSUME NEW aged, SpawnsSound(aged), NEW n \in Nat, NEW lives \in [1 .. n -> Lives]
    PROVE  SpawnsSound(SpawnAll(aged, lives))
<1> DEFINE Turn(f, k) == IF k = 0 THEN aged ELSE Spawn(f[k - 1], lives[k])
           Turns(f, m) == f = [k \in 0 .. m |-> Turn(f, k)]
<1>1. ASSUME NEW m \in Nat PROVE \E f : Turns(f, m)
  <2> SUFFICES ASSUME ~\E f : Turns(f, m) PROVE FALSE
    OBVIOUS
  <2> DEFINE T == { k \in Nat : ~\E f : Turns(f, k) }
  <2>1. T \subseteq Nat /\ T # {}
    OBVIOUS
  <2>2. PICK l \in T : \A k \in T : l <= k
    BY <2>1, LeastNumber
  <2>3. l # 0
    <3> SUFFICES ASSUME l = 0 PROVE FALSE
      OBVIOUS
    <3> DEFINE f == [k \in 0 .. 0 |-> aged]
    <3>1. Turns(f, 0)
      OBVIOUS
    <3> QED
      BY <2>2, <3>1
  <2>a. l \in Nat /\ ~\E f : Turns(f, l)
    BY <2>2
  <2>b. l - 1 \in Nat /\ ~(l <= l - 1)
    BY <2>3, <2>a
  <2> HIDE DEF Turns
  <2>4. l - 1 \notin T
    BY <2>2, <2>b
  <2>5. PICK f : Turns(f, l - 1)
    BY <2>4, <2>b
  <2> USE DEF Turns
  <2> DEFINE g == [k \in 0 .. l |-> IF k = l THEN Spawn(f[l - 1], lives[l]) ELSE f[k]]
  <2>6. \A k \in 0 .. l : g[k] = Turn(g, k)
    <3> SUFFICES ASSUME NEW k \in 0 .. l PROVE g[k] = Turn(g, k)
      OBVIOUS
    <3>1. CASE k = l
      <4>1. g[l] = Spawn(f[l - 1], lives[l]) /\ g[l - 1] = f[l - 1]
        BY <2>2, <2>3
      <4> QED
        BY <2>3, <3>1, <4>1
    <3>2. CASE k # l
      <4>1. k \in 0 .. l - 1 /\ g[k] = f[k]
        BY <2>2, <3>2
      <4>2. f[k] = Turn(f, k)
        BY <2>5, <4>1
      <4>3. k # 0 => g[k - 1] = f[k - 1]
        BY <2>2, <4>1
      <4> QED
        BY <4>1, <4>2, <4>3
    <3> QED
      BY <3>1, <3>2
  <2>7. Turns(g, l)
    BY <2>6
  <2> QED
    BY <2>2, <2>7
<1>2. Len(lives) = n
  OBVIOUS
<1>3. PICK f : f = CHOOSE g : Turns(g, n)
  OBVIOUS
<1>4. Turns(f, n)
  BY <1>1, <1>3
<1>5. SpawnAll(aged, lives) = f[n]
  BY <1>2, <1>3 DEF SpawnAll
<1>6. ASSUME NEW m \in 0 .. n PROVE SpawnsSound(f[m])
  <2> SUFFICES ASSUME ~SpawnsSound(f[m]) PROVE FALSE
    OBVIOUS
  <2> DEFINE T == { k \in 0 .. n : ~SpawnsSound(f[k]) }
  <2>1. T \subseteq Nat /\ T # {}
    OBVIOUS
  <2>2. PICK l \in T : \A k \in T : l <= k
    BY <2>1, LeastNumber
  <2>3. f[l] = Turn(f, l)
    BY <1>4, <2>2
  <2>4. l # 0
    BY <2>2, <2>3
  <2>5. l - 1 \in 0 .. n /\ l - 1 \notin T /\ l \in 1 .. n
    BY <2>2, <2>4
  <2>6. PICK p : p = f[l - 1]
    OBVIOUS
  <2>7. SpawnsSound(p) /\ lives[l] \in Lives
    BY <2>5, <2>6
  <2>8. SpawnsSound(Spawn(p, lives[l]))
    BY <2>7, SpawnSound
  <2> QED
    BY <2>2, <2>3, <2>4, <2>6, <2>8
<1> QED
  BY <1>5, <1>6

LEMMA ParticlesStart == ASSUME ParticleInit PROVE ParticleIInv
<1>1. MAX_EMIT_PARTICLES \in Nat \ {0}
  BY DrawAssumption
<1>2. PICK p : p = Pool
  OBVIOUS
<1>3. p.emit = [s \in EmitSlots |-> [id |-> 0, left |-> 0]] /\ p.cursor = 0 /\ p.spawned = 0 /\ p.due = << >> /\ p.dropped = FALSE
      /\ p = [emit |-> p.emit, cursor |-> p.cursor, spawned |-> p.spawned, due |-> p.due, dropped |-> p.dropped]
  BY <1>2 DEF ParticleInit, Pool
<1>4. p.due \in Seq(Nat) /\ Len(p.due) = 0 /\ 0 \in EmitSlots
  BY <1>1, <1>3 DEF EmitSlots
<1>5. p \in Pools
  <2>1. p.emit \in [EmitSlots -> [id : Nat, left : Nat]]
    BY <1>3
  <2>2. p.cursor \in EmitSlots /\ p.spawned \in Nat /\ p.dropped \in BOOLEAN
    BY <1>3, <1>4
  <2>3. PICK e, c, n, d, b : e = p.emit /\ c = p.cursor /\ n = p.spawned /\ d = p.due /\ b = p.dropped
    OBVIOUS
  <2>4. p = [emit |-> e, cursor |-> c, spawned |-> n, due |-> d, dropped |-> b]
    BY <1>3, <2>3
  <2> QED
    BY <1>4, <2>1, <2>2, <2>3, <2>4 DEF Pools
<1> QED
  BY <1>2, <1>3, <1>4, <1>5 DEF ParticleIInv, SpawnsSound

LEMMA ParticlesMove == ASSUME ParticleIInv, ParticleNext PROVE ParticleIInv'
<1>0. PICK n \in 0 .. MAX_EMITTERS : \E lives \in [1 .. n -> Lives] : UpdateParticles(lives)
  BY DEF ParticleNext
<1>1. PICK lives \in [1 .. n -> Lives] : UpdateParticles(lives)
  BY <1>0
<1>2. PICK p : p = Pool
  OBVIOUS
<1>3. /\ p \in Pools /\ Len(p.due) = p.spawned
      /\ \A i \in 1 .. p.spawned : p.due[i] > 0 => \E s \in EmitSlots : p.emit[s].id = i /\ p.emit[s].left = p.due[i]
      /\ p.emit = m_emit /\ p.cursor = m_spawnCursor /\ p.spawned = spawned /\ p.due = due
  BY <1>2 DEF ParticleIInv, SpawnsSound, Pool
<1>4. /\ m_emit \in [EmitSlots -> [id : Nat, left : Nat]] /\ m_spawnCursor \in EmitSlots /\ spawned \in Nat
      /\ due \in Seq(Nat) /\ Len(due) = spawned
  BY <1>3 DEF Pools
<1>5. PICK e, d : e = [s \in EmitSlots |-> [m_emit[s] EXCEPT !.left = Aged(@)]] /\ d = [i \in DOMAIN due |-> Aged(due[i])]
  OBVIOUS
<1>6. PICK a : a = [ emit |-> e, cursor |-> m_spawnCursor, spawned |-> spawned, due |-> d, dropped |-> FALSE ]
  OBVIOUS
<1>7. \A k \in Nat : Aged(k) \in Nat /\ (Aged(k) > 0 => k > 0)
  BY DEF Aged
<1>8. \A s \in EmitSlots : e[s] \in [id : Nat, left : Nat] /\ e[s].id = m_emit[s].id /\ e[s].left = Aged(m_emit[s].left)
  <2> SUFFICES ASSUME NEW s \in EmitSlots
               PROVE  e[s] \in [id : Nat, left : Nat] /\ e[s].id = m_emit[s].id /\ e[s].left = Aged(m_emit[s].left)
    OBVIOUS
  <2>1. PICK r, l : r = m_emit[s] /\ l = Aged(r.left)
    OBVIOUS
  <2>2. r \in [id : Nat, left : Nat]
    BY <1>4, <2>1
  <2>3. l \in Nat
    BY <1>7, <2>1, <2>2
  <2>4. e[s] = [r EXCEPT !.left = l]
    BY <1>5, <2>1
  <2> QED
    BY <2>1, <2>2, <2>3, <2>4
<1>9. e \in [EmitSlots -> [id : Nat, left : Nat]]
  BY <1>5, <1>8
<1>10. d \in Seq(Nat) /\ Len(d) = spawned /\ \A i \in 1 .. spawned : d[i] = Aged(due[i]) /\ due[i] \in Nat
  <2>1. DOMAIN due = 1 .. spawned /\ \A i \in 1 .. spawned : due[i] \in Nat
    BY <1>4
  <2>2. d = [i \in 1 .. spawned |-> Aged(due[i])]
    BY <1>5, <2>1
  <2>3. \A i \in 1 .. spawned : Aged(due[i]) \in Nat
    BY <1>7, <2>1
  <2> QED
    BY <1>4, <2>1, <2>2, <2>3
<1>11. SpawnsSound(a)
  <2>1. a \in Pools /\ Len(a.due) = a.spawned /\ ~a.dropped
    BY <1>4, <1>6, <1>9, <1>10 DEF Pools
  <2>2. ASSUME NEW i \in 1 .. spawned, d[i] > 0
        PROVE  \E s \in EmitSlots : e[s].id = i /\ e[s].left = d[i]
    <3>1. due[i] > 0
      BY <1>7, <1>10, <2>2
    <3>2. PICK s \in EmitSlots : m_emit[s].id = i /\ m_emit[s].left = due[i]
      BY <1>3, <3>1
    <3> QED
      BY <1>8, <1>10, <3>2
  <2> QED
    BY <1>6, <2>1, <2>2 DEF SpawnsSound
<1>12. PICK q : q = SpawnAll(a, lives)
  OBVIOUS
<1>13. SpawnsSound(q)
  <2>1. \A m \in 0 .. MAX_EMITTERS : m \in Nat
    OBVIOUS
  <2> QED
    BY <1>11, <1>12, <2>1, SpawnAllSound
<1>14. /\ m_emit' = q.emit /\ m_spawnCursor' = q.cursor /\ spawned' = q.spawned
       /\ due' = q.due /\ dropped' = q.dropped
  BY <1>1, <1>5, <1>6, <1>12 DEF UpdateParticles
<1>15. Pool' = q
  <2>1. q \in Pools
    BY <1>13 DEF SpawnsSound
  <2>2. q = [emit |-> q.emit, cursor |-> q.cursor, spawned |-> q.spawned, due |-> q.due, dropped |-> q.dropped]
    BY <2>1 DEF Pools
  <2> QED
    BY <1>14, <2>2 DEF Pool
<1> QED
  BY <1>13, <1>15 DEF ParticleIInv

LEMMA ParticlesDoLiveOut == ASSUME ParticleIInv PROVE ParticlesLiveOut
<1>1. PICK p : p = Pool
  OBVIOUS
<1>2. /\ p \in Pools /\ Len(p.due) = p.spawned
      /\ \A i \in 1 .. p.spawned : p.due[i] > 0 => \E s \in EmitSlots : p.emit[s].id = i /\ p.emit[s].left = p.due[i]
      /\ p.dropped => \A s \in EmitSlots : p.emit[s].left > 0
      /\ p.emit = m_emit /\ p.spawned = spawned /\ p.due = due /\ p.dropped = dropped
  BY <1>1 DEF ParticleIInv, SpawnsSound, Pool
<1>3. due \in Seq(Nat) /\ DOMAIN due = 1 .. Len(due)
  BY <1>2 DEF Pools
<1> QED
  BY <1>2, <1>3 DEF ParticlesLiveOut

-----------------------------------------------------------------------------
(* The runs of the scene. *)

(* A strictly monotone ranking of a finite set meets every rank once, so   *)
(* Ascending enumerates the set in the order of the keys.                  *)
LEMMA AscendingIs ==
    ASSUME NEW S, IsFiniteSet(S), NEW key \in [S -> Nat], \A x, y \in S : key[x] = key[y] => x = y,
           NEW a, a = Ascending(S, key)
    PROVE  /\ Cardinality(S) \in Nat /\ a \in [1 .. Cardinality(S) -> S]
           /\ \A i, j \in 1 .. Cardinality(S) : i < j => key[a[i]] < key[a[j]]
           /\ \A x \in S : \E i \in 1 .. Cardinality(S) : a[i] = x
<1> DEFINE n == Cardinality(S)
           Below(x) == { y \in S : key[y] <= key[x] }
           rank == [x \in S |-> Cardinality(Below(x))]
<1>1. n \in Nat
  BY FS_CardinalityType
<1>2. \A x \in S : IsFiniteSet(Below(x)) /\ rank[x] \in Nat /\ rank[x] <= n
  <2> SUFFICES ASSUME NEW x \in S PROVE IsFiniteSet(Below(x)) /\ rank[x] \in Nat /\ rank[x] <= n
    OBVIOUS
  <2>1. Below(x) \subseteq S
    OBVIOUS
  <2> QED
    BY <2>1, FS_Subset, FS_CardinalityType
<1>3. ASSUME NEW x \in S, NEW y \in S, key[x] < key[y] PROVE rank[x] < rank[y]
  <2>1. Below(x) \subseteq Below(y)
    BY <1>3
  <2>2. y \in Below(y) /\ y \notin Below(x)
    BY <1>3
  <2>3. Below(x) # Below(y)
    BY <2>2
  <2>4. Cardinality(Below(x)) <= Cardinality(Below(y))
        /\ (Cardinality(Below(x)) = Cardinality(Below(y)) => Below(x) = Below(y))
    BY <1>2, <2>1, FS_Subset
  <2> QED
    BY <1>2, <2>3, <2>4
<1>4. \A x, y \in S : x # y => rank[x] # rank[y]
  <2> SUFFICES ASSUME NEW x \in S, NEW y \in S, x # y PROVE rank[x] # rank[y]
    OBVIOUS
  <2>1. key[x] < key[y] \/ key[y] < key[x]
    OBVIOUS
  <2>2. rank[x] < rank[y] \/ rank[y] < rank[x]
    BY <1>3, <2>1
  <2> HIDE DEF rank
  <2>3. rank[x] \in Nat /\ rank[y] \in Nat
    BY <1>2
  <2> QED
    BY <2>2, <2>3
<1>5. \A x \in S : rank[x] \in 1 .. n
  <2> SUFFICES ASSUME NEW x \in S PROVE rank[x] \in 1 .. n
    OBVIOUS
  <2>1. Below(x) # {}
    OBVIOUS
  <2>2. Cardinality(Below(x)) # 0
    BY <1>2, <2>1, FS_EmptySet
  <2> QED
    BY <1>1, <1>2, <2>2
<1>6. rank \in Injection(S, 1 .. n)
  <2>1. rank \in [S -> 1 .. n]
    BY <1>5
  <2> QED
    BY <1>4, <2>1 DEF Injection, IsInjective
<1>7. IsFiniteSet(1 .. n) /\ Cardinality(1 .. n) = n
  BY <1>1, FS_Interval
<1>8. rank \in Surjection(S, 1 .. n)
  BY <1>6, <1>7, FS_Injection
<1>9. \A i \in 1 .. n : \E x \in S : rank[x] = i
  BY <1>8 DEF Surjection
<1>10. a = [i \in 1 .. n |-> CHOOSE x \in S : Cardinality(Below(x)) = i]
  BY DEF Ascending
<1> HIDE DEF n, Below
<1>11. \A i \in 1 .. n : a[i] \in S /\ rank[a[i]] = i
  <2> SUFFICES ASSUME NEW i \in 1 .. n PROVE a[i] \in S /\ rank[a[i]] = i
    OBVIOUS
  <2>1. \E x \in S : Cardinality(Below(x)) = i
    BY <1>9
  <2>2. a[i] = CHOOSE x \in S : Cardinality(Below(x)) = i
    BY <1>10
  <2>3. a[i] \in S /\ Cardinality(Below(a[i])) = i
    BY <2>1, <2>2
  <2> QED
    BY <2>3
<1> HIDE DEF rank
<1>12. ASSUME NEW i \in 1 .. n, NEW j \in 1 .. n, i < j PROVE key[a[i]] < key[a[j]]
  <2>1. a[i] \in S /\ a[j] \in S /\ rank[a[i]] = i /\ rank[a[j]] = j
    BY <1>11
  <2>2. key[a[i]] \in Nat /\ key[a[j]] \in Nat
    BY <2>1
  <2>3. ~(key[a[j]] < key[a[i]])
    BY <1>1, <1>3, <1>12, <2>1
  <2>4. key[a[i]] # key[a[j]]
    BY <1>1, <1>12, <2>1
  <2> QED
    BY <2>2, <2>3, <2>4
<1>13. ASSUME NEW x \in S PROVE \E i \in 1 .. n : a[i] = x
  BY <1>4, <1>5, <1>11
<1>14. a \in [1 .. n -> S]
  BY <1>10, <1>11
<1> QED
  BY <1>1, <1>12, <1>13, <1>14 DEF n

(* The sort: a permutation of the first n entities under which shapes      *)
(* never decrease.                                                         *)
LEMMA OrderIs ==
    ASSUME NEW n \in Nat, NEW es, \A k \in 1 .. n : es[k] \in Nat, NEW o, o = Order(es, n)
    PROVE  /\ o \in [1 .. n -> 1 .. n]
           /\ \A i, j \in 1 .. n : i <= j => es[o[i]] <= es[o[j]]
<1> DEFINE key == [i \in 1 .. n |-> es[i] * (n + 1) + i]
<1>1. \A i \in 1 .. n : key[i] \in Nat
  <2> SUFFICES ASSUME NEW i \in 1 .. n PROVE key[i] \in Nat
    OBVIOUS
  <2>1. PICK e : e = es[i]
    OBVIOUS
  <2>2. e \in Nat
    BY <2>1
  <2>3. e * (n + 1) \in Nat
    BY <2>2
  <2> QED
    BY <2>1, <2>3
<1>2. ASSUME NEW i \in 1 .. n, NEW j \in 1 .. n, es[j] < es[i] PROVE key[j] < key[i]
  <2>1. PICK d, e : d = es[i] - es[j] - 1 /\ e = es[j]
    OBVIOUS
  <2>2. d \in Nat /\ e \in Nat /\ es[i] = e + 1 + d
    BY <1>2, <2>1
  <2>3. (e + 1 + d) * (n + 1) = e * (n + 1) + (n + 1) + d * (n + 1)
    BY <2>2
  <2>4. d * (n + 1) \in Nat /\ e * (n + 1) \in Nat
    BY <2>2
  <2>5. key[i] = e * (n + 1) + (n + 1) + d * (n + 1) + i /\ key[j] = e * (n + 1) + j
    BY <2>1, <2>2, <2>3
  <2> HIDE DEF key
  <2> QED
    BY <2>4, <2>5
<1>3. \A i, j \in 1 .. n : key[i] = key[j] => i = j
  <2> SUFFICES ASSUME NEW i \in 1 .. n, NEW j \in 1 .. n, key[i] = key[j] PROVE i = j
    OBVIOUS
  <2>1. es[i] = es[j]
    BY <1>1, <1>2
  <2>2. PICK e : e = es[i] * (n + 1)
    OBVIOUS
  <2>3. e \in Nat /\ e + i = e + j
    BY <2>1, <2>2
  <2> QED
    BY <2>3
<1>4. IsFiniteSet(1 .. n) /\ Cardinality(1 .. n) = n
  BY FS_Interval
<1>5. key \in [1 .. n -> Nat]
  BY <1>1
<1>6. o = Ascending(1 .. n, key)
  BY DEF Order
<1> HIDE DEF key
<1>7. /\ o \in [1 .. n -> 1 .. n]
      /\ \A i, j \in 1 .. n : i < j => key[o[i]] < key[o[j]]
  BY <1>3, <1>4, <1>5, <1>6, AscendingIs
<1>8. ASSUME NEW i \in 1 .. n, NEW j \in 1 .. n, i <= j PROVE es[o[i]] <= es[o[j]]
  <2>1. o[i] \in 1 .. n /\ o[j] \in 1 .. n
    BY <1>7
  <2>2. es[o[i]] \in Nat /\ es[o[j]] \in Nat /\ key[o[i]] \in Nat /\ key[o[j]] \in Nat
    BY <1>5, <2>1
  <2>3. CASE i = j
    BY <2>2, <2>3
  <2>4. CASE i < j
    <3>1. key[o[i]] < key[o[j]]
      BY <1>7, <2>4
    <3>2. ~(es[o[j]] < es[o[i]])
      BY <1>2, <2>1, <2>2, <3>1
    <3> QED
      BY <2>2, <3>2
  <2> QED
    BY <1>8, <2>3, <2>4
<1> QED
  BY <1>7, <1>8

\* Shapes in the order of drawing: never decreasing.
Sorted(sh, n) == sh \in [1 .. n -> Nat] /\ \A i, j \in 1 .. n : i <= j => sh[i] <= sh[j]
Starts(sh, n) == { k \in 1 .. n : k = 1 \/ sh[k] # sh[k - 1] }

\* The m positions in T, in ascending order.
Enumerates(from, m, T) ==
    /\ m \in Nat /\ from \in [1 .. m -> T]
    /\ \A i, j \in 1 .. m : i < j => from[i] < from[j]
    /\ \A x \in T : \E i \in 1 .. m : from[i] = x

\* What Runs promises: each of the n positions in exactly one of m runs, of its
\* shape, and one run for a shape.
RunsSound(rs, sh, n, m) ==
    /\ m \in Nat /\ DOMAIN rs = 1 .. m
    /\ \A i, j \in 1 .. m : i # j => rs[i].sid # rs[j].sid
    /\ \A k \in 1 .. n : \E i \in 1 .. m :
          /\ rs[i].start <= k /\ k < rs[i].start + rs[i].count /\ rs[i].sid = sh[k]
          /\ \A j \in 1 .. m : rs[j].start <= k /\ k < rs[j].start + rs[j].count => j = i

\* Where each of the m runs ends.
Ends(end, from, n, m) == end = [i \in 1 .. m |-> IF i = m THEN n + 1 ELSE from[i + 1]]

\* Every position between the beginning and the end of one run, of its shape.
Tiles(from, end, sh, n, m) ==
    /\ \A i \in 1 .. m : from[i] \in 1 .. n /\ end[i] \in Nat
    /\ \A i, j \in 1 .. m : i # j => sh[from[i]] # sh[from[j]]
    /\ \A k \in 1 .. n : \E i \in 1 .. m :
          /\ from[i] <= k /\ k < end[i] /\ sh[from[i]] = sh[k]
          /\ \A j \in 1 .. m : from[j] <= k /\ k < end[j] => j = i

(* The shape rises at every start, and only there.                         *)
LEMMA StartsRise ==
    ASSUME NEW n \in Nat \ {0}, NEW sh, Sorted(sh, n)
    PROVE  \A k \in Starts(sh, n), l \in 1 .. n : l < k => sh[l] < sh[k]
<1> SUFFICES ASSUME NEW k \in Starts(sh, n), NEW l \in 1 .. n, l < k PROVE sh[l] < sh[k]
  OBVIOUS
<1>1. PICK p : p = k - 1
  OBVIOUS
<1>2. k \in 1 .. n /\ p \in 1 .. n /\ l <= p /\ p <= k
  BY <1>1 DEF Starts
<1>3. sh[k] # sh[p]
  BY <1>1, <1>2 DEF Starts
<1>4. sh[l] \in Nat /\ sh[k] \in Nat /\ sh[p] \in Nat /\ sh[l] <= sh[p] /\ sh[p] <= sh[k]
  BY <1>2 DEF Sorted
<1> QED
  BY <1>3, <1>4

LEMMA NothingRisesBetween ==
    ASSUME NEW n \in Nat \ {0}, NEW sh, Sorted(sh, n), NEW k \in 1 .. n, NEW l \in 1 .. n, l <= k,
           \A j \in Starts(sh, n) : ~(l < j /\ j <= k)
    PROVE  sh[k] = sh[l]
<1> SUFFICES ASSUME sh[k] # sh[l] PROVE FALSE
  OBVIOUS
<1>1. PICK T : T = { j \in 1 .. n : l <= j /\ j <= k /\ sh[j] # sh[l] }
  OBVIOUS
<1>2. k \in T
  BY <1>1
<1>3. T \subseteq Nat /\ T # {}
  BY <1>1, <1>2
<1>4. PICK j \in T : \A t \in T : j <= t
  BY <1>3, LeastNumber
<1>5. j \in 1 .. n /\ l <= j /\ j <= k /\ sh[j] # sh[l]
  BY <1>1
<1>6. j # l
  BY <1>5
<1>7. PICK p : p = j - 1
  OBVIOUS
<1>8. p \in 1 .. n /\ l <= p /\ p <= k /\ ~(j <= p) /\ l < j
  BY <1>5, <1>6, <1>7
<1>9. p \notin T
  BY <1>4, <1>8
<1>10. sh[p] = sh[l]
  BY <1>1, <1>8, <1>9
<1>11. j \in Starts(sh, n)
  BY <1>5, <1>7, <1>10 DEF Starts
<1> QED
  BY <1>5, <1>8, <1>11

LEMMA StartsEnumerated ==
    ASSUME NEW n \in Nat \ {0}, NEW sh, NEW T, T = Starts(sh, n), NEW from, from = Ascending(T, [k \in T |-> k]),
           NEW m, m = Cardinality(T)
    PROVE  Enumerates(from, m, T)
<1>1. T \subseteq 1 .. n
  BY DEF Starts
<1>2. IsFiniteSet(T)
  <2>1. IsFiniteSet(1 .. n)
    BY FS_Interval
  <2> QED
    BY <1>1, <2>1, FS_Subset
<1>3. PICK key : key = [k \in T |-> k]
  OBVIOUS
<1>4. \A k \in T : k \in Nat
  BY <1>1
<1>5. key \in [T -> Nat] /\ \A x \in T : key[x] = x
  BY <1>3, <1>4
<1>6. \A x, y \in T : key[x] = key[y] => x = y
  BY <1>5
<1>7. from = Ascending(T, key)
  BY <1>3
<1>8. /\ m \in Nat /\ from \in [1 .. m -> T]
      /\ \A i, j \in 1 .. m : i < j => key[from[i]] < key[from[j]]
      /\ \A x \in T : \E i \in 1 .. m : from[i] = x
  <2> HIDE DEF Ascending
  <2> QED
    BY <1>2, <1>5, <1>6, <1>7, AscendingIs
<1>9. \A i \in 1 .. m : key[from[i]] = from[i]
  BY <1>5, <1>8
<1> QED
  BY <1>8, <1>9 DEF Enumerates

(* Between the starts lie the runs: every position is in exactly one, of   *)
(* its own shape.                                                          *)
LEMMA RunsTile ==
    ASSUME NEW n \in Nat \ {0}, NEW sh, Sorted(sh, n), NEW T, T = Starts(sh, n),
           NEW m, NEW from, Enumerates(from, m, T),
           NEW end, Ends(end, from, n, m)
    PROVE  Tiles(from, end, sh, n, m)
<1>1. /\ m \in Nat /\ from \in [1 .. m -> T]
      /\ \A i, j \in 1 .. m : i < j => from[i] < from[j]
      /\ \A x \in T : \E i \in 1 .. m : from[i] = x
  BY DEF Enumerates
<1>2. T \subseteq 1 .. n /\ 1 \in T
  BY DEF Starts
<1>3. \A i \in 1 .. m : from[i] \in T /\ from[i] \in 1 .. n
  BY <1>1, <1>2
<1>4. \A i \in 1 .. m : i < m => i + 1 \in 1 .. m /\ end[i] = from[i + 1]
  BY <1>1 DEF Ends
<1>5. \A i \in 1 .. m : i = m => end[i] = n + 1
  BY <1>1 DEF Ends
<1>6. \A i \in 1 .. m : end[i] \in Nat
  <2> SUFFICES ASSUME NEW i \in 1 .. m PROVE end[i] \in Nat
    OBVIOUS
  <2>1. CASE i = m
    BY <1>5, <2>1
  <2>2. CASE i < m
    BY <1>3, <1>4, <2>2
  <2> QED
    BY <1>1, <2>1, <2>2
<1>7. ASSUME NEW i \in 1 .. m, NEW j \in 1 .. m, i < j PROVE end[i] <= from[j] /\ sh[from[i]] < sh[from[j]]
  <2>1. i < m /\ i + 1 \in 1 .. m /\ end[i] = from[i + 1]
    BY <1>1, <1>4, <1>7
  <2>2. from[i + 1] <= from[j]
    <3>1. PICK q : q = i + 1
      OBVIOUS
    <3>2. q \in 1 .. m /\ (q = j \/ q < j)
      BY <1>1, <1>7, <2>1, <3>1
    <3>3. from[q] \in Nat /\ from[j] \in Nat
      BY <1>3, <3>2
    <3>4. from[q] <= from[j]
      BY <1>1, <3>2, <3>3
    <3> QED
      BY <3>1, <3>4
  <2>3. from[i] \in 1 .. n /\ from[j] \in T /\ from[i] < from[j]
    BY <1>1, <1>3, <1>7
  <2>4. sh[from[i]] < sh[from[j]]
    BY <2>3, StartsRise
  <2> QED
    BY <2>1, <2>2, <2>4
<1>8. ASSUME NEW i \in 1 .. m, NEW j \in 1 .. m, i # j PROVE sh[from[i]] # sh[from[j]]
  <2>1. i < j \/ j < i
    BY <1>1, <1>8
  <2>2. sh[from[i]] < sh[from[j]] \/ sh[from[j]] < sh[from[i]]
    BY <1>7, <2>1
  <2>3. from[i] \in 1 .. n /\ from[j] \in 1 .. n
    BY <1>3
  <2>4. sh[from[i]] \in Nat /\ sh[from[j]] \in Nat
    BY <2>3 DEF Sorted
  <2> QED
    BY <2>2, <2>4
<1>9. ASSUME NEW k \in 1 .. n
      PROVE  \E i \in 1 .. m : /\ from[i] <= k /\ k < end[i] /\ sh[from[i]] = sh[k]
                               /\ \A j \in 1 .. m : from[j] <= k /\ k < end[j] => j = i
  <2>1. PICK s \in 1 .. m : from[s] = 1
    BY <1>1, <1>2
  <2>2. PICK U : U = { i \in 1 .. m : from[i] <= k }
    OBVIOUS
  <2>3. s \in U
    BY <2>1, <2>2
  <2>4. U \subseteq Nat /\ U # {} /\ \A x \in U : x <= m
    BY <1>1, <2>2, <2>3
  <2>5. PICK i : i = Max(U)
    OBVIOUS
  <2>6. i \in U /\ \A y \in U : y <= i
    BY <1>1, <2>4, <2>5, GreatestNumber
  <2>7. i \in 1 .. m /\ from[i] <= k /\ \A y \in 1 .. m : from[y] <= k => y <= i
    BY <2>2, <2>6
  <2>8. k < end[i]
    <3>1. CASE i = m
      BY <1>5, <2>7, <3>1
    <3>2. CASE i < m
      <4>1. PICK q : q = i + 1
        OBVIOUS
      <4>2. q \in 1 .. m /\ end[i] = from[q] /\ ~(q <= i)
        BY <1>1, <1>4, <2>7, <3>2, <4>1
      <4>3. ~(from[q] <= k) /\ from[q] \in 1 .. n
        BY <1>3, <2>7, <4>2
      <4> QED
        BY <4>2, <4>3
    <3> QED
      BY <1>1, <2>7, <3>1, <3>2
  <2>9. ASSUME NEW j \in T, from[i] < j, j <= k PROVE FALSE
    <3>1. PICK y \in 1 .. m : from[y] = j
      BY <1>1
    <3>2. y <= i
      BY <2>7, <2>9, <3>1
    <3>3. y = i \/ from[y] < from[i]
      BY <1>1, <2>7, <3>1, <3>2
    <3>4. from[i] \in Nat /\ from[y] \in Nat
      BY <1>3, <2>7
    <3> QED
      BY <2>9, <3>1, <3>3, <3>4
  <2>10. sh[k] = sh[from[i]]
    <3>1. PICK f : f = from[i]
      OBVIOUS
    <3>2. f \in 1 .. n /\ f <= k /\ \A j \in Starts(sh, n) : ~(f < j /\ j <= k)
      BY <1>3, <2>7, <2>9, <3>1
    <3> QED
      BY <3>1, <3>2, NothingRisesBetween
  <2>11. ASSUME NEW j \in 1 .. m, from[j] <= k, k < end[j] PROVE j = i
    <3>1. j <= i
      BY <2>7, <2>11
    <3>2. ASSUME j < i PROVE FALSE
      <4>1. end[j] <= from[i]
        BY <1>7, <2>7, <3>2
      <4>2. end[j] \in Nat /\ from[i] \in Nat
        BY <1>3, <1>6, <2>7
      <4>3. from[i] <= k
        BY <2>7
      <4>4. PICK e, f : e = end[j] /\ f = from[i]
        OBVIOUS
      <4> QED
        BY <2>11, <4>1, <4>2, <4>3, <4>4
    <3> QED
      BY <1>1, <2>7, <3>1, <3>2
  <2> QED
    BY <2>7, <2>8, <2>10, <2>11
<1> QED
  BY <1>3, <1>6, <1>8, <1>9 DEF Tiles

(* The runs: each from one start to the next.                              *)
LEMMA RunsAre ==
    ASSUME NEW n \in Nat \ {0}, NEW es, NEW o, o \in [1 .. n -> 1 .. n], NEW sh, sh = [k \in 1 .. n |-> es[o[k]]],
           Sorted(sh, n), NEW rs, rs = Runs(es, o)
    PROVE  \E m \in Nat : RunsSound(rs, sh, n, m)
<1>1. Len(o) = n
  OBVIOUS
<1>2. PICK T : T = { k \in 1 .. n : k = 1 \/ es[o[k]] # es[o[k - 1]] }
  OBVIOUS
<1>3. T = Starts(sh, n)
  <2>1. \A k \in 1 .. n : k # 1 => k - 1 \in 1 .. n
    OBVIOUS
  <2>2. \A k \in 1 .. n : sh[k] = es[o[k]]
    OBVIOUS
  <2>3. \A k \in 1 .. n : k # 1 => sh[k - 1] = es[o[k - 1]]
    BY <2>1, <2>2
  <2>4. \A k \in 1 .. n : (k = 1 \/ es[o[k]] # es[o[k - 1]]) <=> (k = 1 \/ sh[k] # sh[k - 1])
    BY <2>2, <2>3
  <2> QED
    BY <1>2, <2>4 DEF Starts
<1>4. PICK from, m : from = Ascending(T, [k \in T |-> k]) /\ m = Cardinality(T)
  OBVIOUS
<1>5. Enumerates(from, m, T)
  BY <1>3, <1>4, StartsEnumerated
<1>6. m \in Nat /\ DOMAIN from = 1 .. m /\ Len(from) = m
  BY <1>5 DEF Enumerates
<1>7. PICK end : Ends(end, from, n, m)
  BY DEF Ends
<1>8. /\ \A i \in 1 .. m : from[i] \in 1 .. n /\ end[i] \in Nat
      /\ \A i, j \in 1 .. m : i # j => sh[from[i]] # sh[from[j]]
      /\ \A k \in 1 .. n : \E i \in 1 .. m :
            /\ from[i] <= k /\ k < end[i] /\ sh[from[i]] = sh[k]
            /\ \A j \in 1 .. m : from[j] <= k /\ k < end[j] => j = i
  <2>1. Tiles(from, end, sh, n, m)
    BY <1>3, <1>5, <1>7, RunsTile
  <2> QED
    BY <2>1 DEF Tiles
<1>9. rs = [i \in DOMAIN from |-> [ sid |-> es[o[from[i]]], start |-> from[i],
                                    count |-> (IF i = Len(from) THEN Len(o) + 1 ELSE from[i + 1]) - from[i] ]]
  BY <1>1, <1>2, <1>4 DEF Runs
<1>10. DOMAIN rs = 1 .. m
  BY <1>6, <1>9
<1>11. ASSUME NEW i \in 1 .. m
       PROVE  rs[i].start = from[i] /\ rs[i].sid = sh[from[i]] /\ rs[i].start + rs[i].count = end[i]
  <2>1. PICK e, f : e = end[i] /\ f = from[i]
    OBVIOUS
  <2>2. rs[i] = [sid |-> es[o[f]], start |-> f, count |-> e - f]
    BY <1>1, <1>6, <1>7, <1>9, <2>1 DEF Ends
  <2>3. f \in 1 .. n /\ e \in Nat
    BY <1>8, <2>1
  <2>4. f + (e - f) = e /\ sh[f] = es[o[f]]
    BY <2>3
  <2> QED
    BY <2>1, <2>2, <2>4
<1>12. ASSUME NEW i \in 1 .. m, NEW j \in 1 .. m, i # j PROVE rs[i].sid # rs[j].sid
  <2>1. sh[from[i]] # sh[from[j]]
    BY <1>8, <1>12
  <2>2. rs[i].sid = sh[from[i]] /\ rs[j].sid = sh[from[j]]
    BY <1>11
  <2> QED
    BY <2>1, <2>2
<1>13. ASSUME NEW k \in 1 .. n
       PROVE  \E i \in 1 .. m :
                 /\ rs[i].start <= k /\ k < rs[i].start + rs[i].count /\ rs[i].sid = sh[k]
                 /\ \A j \in 1 .. m : rs[j].start <= k /\ k < rs[j].start + rs[j].count => j = i
  <2>1. PICK i \in 1 .. m : /\ from[i] <= k /\ k < end[i] /\ sh[from[i]] = sh[k]
                            /\ \A j \in 1 .. m : from[j] <= k /\ k < end[j] => j = i
    BY <1>8
  <2>2. rs[i].start <= k /\ k < rs[i].start + rs[i].count /\ rs[i].sid = sh[k]
    BY <1>11, <2>1
  <2>3. ASSUME NEW j \in 1 .. m, rs[j].start <= k, k < rs[j].start + rs[j].count PROVE j = i
    BY <1>11, <2>1, <2>3
  <2> QED
    BY <2>2, <2>3
<1> QED
  BY <1>6, <1>10, <1>12, <1>13 DEF RunsSound

\* Shapes are registered once, and textured ones have slots of their own.
ShapesSound ==
    /\ m_shapes \in Seq([id : ShapeIds, srv : Nat]) /\ sceneSrv \in Nat /\ sceneSrv <= MAX_SHAPES
    /\ \A i \in 1 .. Len(m_shapes) : m_shapes[i].srv = NoDiffuse \/ m_shapes[i].srv < sceneSrv
    /\ \A i, j \in 1 .. Len(m_shapes) :
          i # j => /\ m_shapes[i].id # m_shapes[j].id
                   /\ m_shapes[i].srv # NoDiffuse => m_shapes[i].srv # m_shapes[j].srv

SceneIInv == ShapesSound /\ OneRunPerShape

LEMMA SetShapeStep ==
    ASSUME ShapesSound, NEW id \in ShapeIds, NEW diffuse \in BOOLEAN, SetShape(id, diffuse)
    PROVE  ShapesSound'
<1>1. PICK s, n : s = m_shapes /\ n = Len(m_shapes)
  OBVIOUS
<1>2. /\ s \in Seq([id : ShapeIds, srv : Nat]) /\ n \in Nat /\ n = Len(s) /\ sceneSrv \in Nat /\ sceneSrv <= MAX_SHAPES
      /\ \A i \in 1 .. n : s[i].srv = NoDiffuse \/ s[i].srv < sceneSrv
      /\ \A i, j \in 1 .. n :
            i # j => s[i].id # s[j].id /\ (s[i].srv # NoDiffuse => s[i].srv # s[j].srv)
  BY <1>1 DEF ShapesSound
<1>3. MAX_SHAPES \in Nat /\ NoDiffuse = MAX_SHAPES
  BY DrawAssumption DEF NoDiffuse
<1>4. PICK textured : textured = (diffuse /\ sceneSrv < MAX_SHAPES)
  OBVIOUS
<1>5. PICK r : r = [id |-> id, srv |-> IF textured THEN sceneSrv ELSE NoDiffuse]
  OBVIOUS
<1>6. PICK s2, next : s2 = Append(s, r) /\ next = IF textured THEN sceneSrv + 1 ELSE sceneSrv
  OBVIOUS
<1>7. m_shapes' = s2 /\ sceneSrv' = next /\ \A i \in 1 .. n : s[i].id # id
  <2>1. DOMAIN s = 1 .. n
    BY <1>2
  <2> QED
    BY <1>1, <1>4, <1>5, <1>6, <2>1 DEF SetShape
<1>8. r \in [id : ShapeIds, srv : Nat] /\ r.id = id
      /\ (r.srv = NoDiffuse \/ (r.srv = sceneSrv /\ next = sceneSrv + 1)) /\ (next = sceneSrv \/ next = sceneSrv + 1)
      /\ next <= MAX_SHAPES
  <2>1. CASE textured
    <3>1. r.srv = sceneSrv /\ next = sceneSrv + 1 /\ sceneSrv < MAX_SHAPES
      BY <1>4, <1>5, <1>6, <2>1
    <3>2. r \in [id : ShapeIds, srv : Nat] /\ r.id = id
      BY <1>2, <1>5, <2>1
    <3> QED
      BY <1>2, <1>3, <3>1, <3>2
  <2>2. CASE ~textured
    <3>1. r.srv = NoDiffuse /\ next = sceneSrv
      BY <1>5, <1>6, <2>2
    <3>2. r \in [id : ShapeIds, srv : Nat] /\ r.id = id
      BY <1>3, <1>5, <2>2
    <3> QED
      BY <1>2, <1>3, <3>1, <3>2
  <2> QED
    BY <2>1, <2>2
<1>9. s2 \in Seq([id : ShapeIds, srv : Nat]) /\ Len(s2) = n + 1 /\ s2[n + 1] = r /\ \A i \in 1 .. n : s2[i] = s[i]
  BY <1>2, <1>6, <1>8
<1>10. \A i \in 1 .. n + 1 : i \in 1 .. n \/ i = n + 1
  BY <1>2
<1>11. \A i \in 1 .. n : s[i].srv \in Nat
  <2> SUFFICES ASSUME NEW i \in 1 .. n PROVE s[i].srv \in Nat
    OBVIOUS
  <2>1. PICK R : R = [id : ShapeIds, srv : Nat]
    OBVIOUS
  <2>2. s \in Seq(R) /\ n = Len(s)
    BY <1>2, <2>1
  <2>3. s[i] \in R
    BY <2>2, ElementOfSeq
  <2> QED
    BY <2>1, <2>3
<1>12. ASSUME NEW i \in 1 .. n + 1 PROVE s2[i].srv = NoDiffuse \/ s2[i].srv < next
  <2>1. CASE i = n + 1
    BY <1>2, <1>8, <1>9, <2>1
  <2>2. CASE i \in 1 .. n
    <3>1. s2[i] = s[i] /\ s[i].srv \in Nat /\ (s[i].srv = NoDiffuse \/ s[i].srv < sceneSrv)
      BY <1>2, <1>9, <1>11, <2>2
    <3> QED
      BY <1>2, <1>8, <3>1
  <2> QED
    BY <1>10, <2>1, <2>2
<1>13. ASSUME NEW i \in 1 .. n + 1, NEW j \in 1 .. n + 1, i # j
       PROVE  s2[i].id # s2[j].id /\ (s2[i].srv # NoDiffuse => s2[i].srv # s2[j].srv)
  <2>1. CASE i \in 1 .. n /\ j \in 1 .. n
    BY <1>2, <1>9, <1>13, <2>1
  <2>2. CASE i \in 1 .. n /\ j = n + 1
    <3>1. s2[i] = s[i] /\ s2[j] = r /\ s[i].id # id /\ s[i].srv \in Nat
      BY <1>7, <1>9, <1>11, <2>2
    <3>2. s[i].srv = NoDiffuse \/ s[i].srv < sceneSrv
      BY <1>2, <2>2
    <3> QED
      BY <1>2, <1>8, <3>1, <3>2
  <2>3. CASE i = n + 1 /\ j \in 1 .. n
    <3>1. s2[j] = s[j] /\ s2[i] = r /\ s[j].id # id /\ s[j].srv \in Nat
      BY <1>7, <1>9, <1>11, <2>3
    <3>2. s[j].srv = NoDiffuse \/ s[j].srv < sceneSrv
      BY <1>2, <2>3
    <3> QED
      BY <1>2, <1>3, <1>8, <3>1, <3>2
  <2> QED
    BY <1>10, <1>13, <2>1, <2>2, <2>3
<1>14. next \in Nat
  BY <1>2, <1>8
<1> QED
  BY <1>7, <1>8, <1>9, <1>12, <1>13, <1>14 DEF ShapesSound, NoDiffuse

LEMMA RenderStep ==
    ASSUME ShapesSound, NEW k \in 1 .. MAX_GATHERED, NEW es \in [1 .. k -> ShapeIds], SceneRender(es)
    PROVE  OneRunPerShape'
<1>1. k \in Nat /\ k >= 1 /\ Len(es) = k /\ MAX_ENTITIES \in Nat \ {0} /\ ShapeIds \subseteq Nat
  BY DrawAssumption
<1>2. PICK n : n = Count(es)
  OBVIOUS
<1>3. n \in Nat \ {0} /\ n <= k
  BY <1>1, <1>2 DEF Count
<1>4. \A i \in 1 .. n : es[i] \in Nat
  <2> SUFFICES ASSUME NEW i \in 1 .. n PROVE es[i] \in Nat
    OBVIOUS
  <2>1. i \in 1 .. k
    BY <1>1, <1>3
  <2>2. es[i] \in ShapeIds
    BY <2>1
  <2> QED
    BY <1>1, <2>2
<1>5. PICK o : o = Order(es, n)
  OBVIOUS
<1>6. o \in [1 .. n -> 1 .. n] /\ \A i, j \in 1 .. n : i <= j => es[o[i]] <= es[o[j]]
  BY <1>3, <1>4, <1>5, OrderIs
<1>7. PICK rs, sh : rs = Runs(es, o) /\ sh = [i \in 1 .. n |-> es[o[i]]]
  OBVIOUS
<1>15. Sorted(sh, n)
  <2>1. \A i \in 1 .. n : sh[i] \in Nat
    BY <1>4, <1>6, <1>7
  <2> QED
    BY <1>6, <1>7, <2>1 DEF Sorted
<1>8. PICK m \in Nat : RunsSound(rs, sh, n, m)
  BY <1>3, <1>6, <1>7, <1>15, RunsAre
<1>16. DOMAIN rs = 1 .. m
  BY <1>8 DEF RunsSound
<1>9. entities' = es /\ runs' = [i \in 1 .. m |-> DrawRun(rs[i])] /\ m_shapes' = m_shapes
  BY <1>2, <1>5, <1>7, <1>16 DEF SceneRender
<1>10. PICK rr : rr = runs'
  OBVIOUS
<1>11. DOMAIN rr = 1 .. m /\ \A i \in 1 .. m : rr[i].run = rs[i]
  BY <1>9, <1>10 DEF DrawRun
<1>12. ASSUME NEW i \in 1 .. m
       PROVE  rr[i].srv = NoDiffuse \/ \E x \in 1 .. Len(m_shapes) : m_shapes[x].id = rs[i].sid /\ rr[i].srv = m_shapes[x].srv
  <2>1. PICK known : known = { x \in DOMAIN m_shapes : m_shapes[x].id = rs[i].sid }
    OBVIOUS
  <2>2. DOMAIN m_shapes = 1 .. Len(m_shapes)
    BY DEF ShapesSound
  <2>3. rr[i].srv = IF known = {} THEN NoDiffuse ELSE m_shapes[CHOOSE x \in known : TRUE].srv
    BY <1>9, <1>10, <2>1 DEF DrawRun
  <2>4. CASE known = {}
    BY <2>3, <2>4
  <2>5. CASE known # {}
    <3>1. PICK x : x = CHOOSE y \in known : TRUE
      OBVIOUS
    <3>2. x \in known
      BY <2>5, <3>1
    <3> QED
      BY <2>1, <2>2, <2>3, <2>5, <3>1, <3>2
  <2> QED
    BY <2>4, <2>5
<1>13. ASSUME NEW i \in 1 .. m, NEW j \in 1 .. m, i # j
       PROVE  rr[i].run.sid # rr[j].run.sid /\ (rr[i].srv # NoDiffuse => rr[i].srv # rr[j].srv)
  <2>1. rs[i].sid # rs[j].sid
    BY <1>8, <1>13 DEF RunsSound
  <2>2. ASSUME rr[i].srv # NoDiffuse, rr[i].srv = rr[j].srv PROVE FALSE
    <3>1. PICK x \in 1 .. Len(m_shapes) : m_shapes[x].id = rs[i].sid /\ rr[i].srv = m_shapes[x].srv
      BY <1>12, <2>2
    <3>2. PICK y \in 1 .. Len(m_shapes) : m_shapes[y].id = rs[j].sid /\ rr[j].srv = m_shapes[y].srv
      BY <1>12, <2>2
    <3>3. x # y
      BY <2>1, <3>1, <3>2
    <3> QED
      BY <2>2, <3>1, <3>2, <3>3 DEF ShapesSound
  <2> QED
    BY <1>11, <2>1, <2>2
<1>14. ASSUME NEW x \in 1 .. n
       PROVE  \E i \in 1 .. m :
                 /\ \A j \in 1 .. m : (rr[j].run.start <= x /\ x < rr[j].run.start + rr[j].run.count) <=> j = i
                 /\ rr[i].run.sid = es[o[x]]
  <2>1. PICK i \in 1 .. m :
           /\ rs[i].start <= x /\ x < rs[i].start + rs[i].count /\ rs[i].sid = sh[x]
           /\ \A j \in 1 .. m : rs[j].start <= x /\ x < rs[j].start + rs[j].count => j = i
    BY <1>8 DEF RunsSound
  <2>2. rr[i].run.sid = es[o[x]]
    BY <1>7, <1>11, <2>1
  <2>3. ASSUME NEW j \in 1 .. m PROVE (rr[j].run.start <= x /\ x < rr[j].run.start + rr[j].run.count) <=> j = i
    <3>1. rr[j].run = rs[j]
      BY <1>11
    <3>2. (rs[j].start <= x /\ x < rs[j].start + rs[j].count) <=> j = i
      BY <2>1
    <3> QED
      BY <3>1, <3>2
  <2> QED
    BY <2>2, <2>3
<1>17. (runs # << >> =>
          /\ \A x \in 1 .. n :
                \E i \in DOMAIN runs :
                   /\ \A j \in DOMAIN runs : (runs[j].run.start <= x /\ x < runs[j].run.start + runs[j].run.count) <=> j = i
                   /\ runs[i].run.sid = entities[o[x]]
          /\ \A i, j \in DOMAIN runs :
                i # j => /\ runs[i].run.sid # runs[j].run.sid
                         /\ runs[i].srv # NoDiffuse => runs[i].srv # runs[j].srv)'
  <2>1. runs' = rr /\ entities' = es /\ DOMAIN rr = 1 .. m /\ NoDiffuse' = NoDiffuse
    BY <1>9, <1>10, <1>11 DEF NoDiffuse
  <2> QED
    BY <1>13, <1>14, <2>1
<1>18. Count(entities)' = n /\ Order(entities, n)' = o
  BY <1>2, <1>5, <1>9 DEF Count, Order, Ascending
<1>19. Order(entities, Count(entities))' = o
  BY <1>2, <1>5, <1>9 DEF Count, Order, Ascending
<1> QED
  BY <1>17, <1>18, <1>19 DEF OneRunPerShape

LEMMA SceneMoves == ASSUME SceneIInv, SceneNext PROVE SceneIInv'
<1>1. ASSUME NEW id \in ShapeIds, NEW diffuse \in BOOLEAN, SetShape(id, diffuse) PROVE SceneIInv'
  <2>1. runs' = << >>
    BY <1>1 DEF SetShape
  <2>2. OneRunPerShape'
    BY <2>1 DEF OneRunPerShape
  <2> QED
    BY <1>1, <2>2, SetShapeStep DEF SceneIInv
<1>2. ASSUME NEW n \in 1 .. MAX_GATHERED, NEW es \in [1 .. n -> ShapeIds], SceneRender(es) PROVE SceneIInv'
  <2>1. ShapesSound'
    BY <1>2 DEF SceneIInv, ShapesSound, SceneRender, NoDiffuse
  <2> QED
    BY <1>2, <2>1, RenderStep DEF SceneIInv
<1> QED
  BY <1>1, <1>2 DEF SceneNext

LEMMA SceneStarts == ASSUME SceneInit PROVE SceneIInv
<1>1. m_shapes \in Seq([id : ShapeIds, srv : Nat]) /\ Len(m_shapes) = 0 /\ sceneSrv = 0 /\ runs = << >>
  BY DEF SceneInit
<1>2. MAX_SHAPES \in Nat
  BY DrawAssumption
<1> QED
  BY <1>1, <1>2 DEF SceneIInv, ShapesSound, OneRunPerShape

(* Whatever is drawn, updated and registered, and whatever the sizes of    *)
(* the vertex buffer, the heaps and the pool: batches tile the vertices,   *)
(* a particle lives out its life, and a shape is drawn in one run          *)
(* (CanvasRenderer.cpp, ParticleRenderer.cpp, SceneRenderer.cpp).          *)
THEOREM DrawListsCorrect == DrawSpec => []DrawListsExact
<1>1. CanvasInit /\ ParticleInit /\ SceneInit => CanvasIInv /\ ParticleIInv /\ SceneIInv
  BY CanvasStarts, ParticlesStart, SceneStarts
<1>2. CanvasIInv /\ UNCHANGED canvasVars => CanvasIInv'
  BY DEF CanvasIInv, canvasVars
<1>3. ParticleIInv /\ UNCHANGED particleVars => ParticleIInv'
  BY DEF ParticleIInv, Pool, particleVars
<1>4. SceneIInv /\ UNCHANGED sceneVars => SceneIInv'
  BY DEF SceneIInv, ShapesSound, OneRunPerShape, sceneVars
<1>5. CanvasIInv /\ ParticleIInv /\ SceneIInv /\ [DrawNext]_drawVars => CanvasIInv' /\ ParticleIInv' /\ SceneIInv'
  BY <1>2, <1>3, <1>4, CanvasMoves, ParticlesMove, SceneMoves DEF DrawNext, drawVars
<1>6. CanvasIInv /\ ParticleIInv /\ SceneIInv => DrawListsExact
  BY BatchesDoTile, ParticlesDoLiveOut DEF DrawListsExact, SceneIInv
<1> QED
  BY <1>1, <1>5, <1>6, PTL DEF DrawSpec
=============================================================================
