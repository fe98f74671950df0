-------------------------- MODULE ServerHostProofs --------------------------
(***************************************************************************)
(* Proofs about the server host, for any number of peers, accounts, bases  *)
(* and connections: first the connection table by itself (TableSpec), then *)
(* the host that extends it.  The close lemmas are stated for a set of     *)
(* tokens, the form in which the host's idle sweep closes them.            *)
(***************************************************************************)
EXTENDS MCConnections, FiniteSetTheorems, SequenceTheorems, TLAPS

(***************************************************************************)
(* The connection table                                                    *)
(***************************************************************************)
(* An enumeration of a set of slot indices is a sequence of them without   *)
(* repetition.                                                             *)
LEMMA EnumerationIsInjectiveSeq ==
    ASSUME NEW n \in Nat, NEW S \in SUBSET (0 .. (n - 1)), NEW order \in SetToSeqs(S)
    PROVE  /\ order \in Seq(0 .. (n - 1))
           /\ \A j, k \in 1 .. Len(order) : order[j] = order[k] => j = k
           /\ \A j \in 1 .. Len(order) : order[j] \in S
<1>1. IsFiniteSet(0 .. (n - 1))
  BY FS_Interval
<1>2. Cardinality(S) \in Nat
  BY <1>1, FS_Subset, FS_CardinalityType
<1>3. PICK m \in Nat : m = Cardinality(S)
  BY <1>2
<1>4. /\ order \in [1 .. m -> S]
      /\ \A i, j \in 1 .. m : i # j => order[i] # order[j]
  BY <1>3 DEF SetToSeqs
<1>5. order \in [1 .. m -> 0 .. (n - 1)]
  BY <1>4
<1>6. order \in Seq(0 .. (n - 1))
  BY <1>5, SeqDef
<1>7. Len(order) = m
  BY <1>5, <1>6
<1> QED
  BY <1>4, <1>6, <1>7

(* The elements of a concatenation are those of its two parts. *)
LEMMA ConcatElements ==
    ASSUME NEW S, NEW s \in Seq(S), NEW r \in Seq(S)
    PROVE  /\ s \o r \in Seq(S)
           /\ Len(s \o r) = Len(s) + Len(r)
           /\ \A i \in 1 .. Len(s) : (s \o r)[i] = s[i]
           /\ \A i \in (Len(s) + 1) .. (Len(s) + Len(r)) : (s \o r)[i] = r[i - Len(s)]
           /\ ToSet(s \o r) = ToSet(s) \cup ToSet(r)
<1>1. /\ s \o r \in Seq(S)
      /\ Len(s \o r) = Len(s) + Len(r)
      /\ Len(s) \in Nat /\ Len(r) \in Nat
      /\ \A i \in 1 .. Len(s) : (s \o r)[i] = s[i]
      /\ \A i \in (Len(s) + 1) .. (Len(s) + Len(r)) : (s \o r)[i] = r[i - Len(s)]
      /\ DOMAIN s = 1 .. Len(s) /\ DOMAIN r = 1 .. Len(r)
      /\ DOMAIN (s \o r) = 1 .. (Len(s) + Len(r))
  OBVIOUS
<1>2. ASSUME NEW x \in ToSet(s \o r) PROVE x \in ToSet(s) \cup ToSet(r)
  <2>1. PICK i \in 1 .. (Len(s) + Len(r)) : x = (s \o r)[i]
    BY <1>1 DEF ToSet
  <2>2. CASE i \in 1 .. Len(s)
    BY <1>1, <2>1, <2>2 DEF ToSet
  <2>3. CASE i \notin 1 .. Len(s)
    <3>1. i \in (Len(s) + 1) .. (Len(s) + Len(r)) /\ i - Len(s) \in 1 .. Len(r)
      BY <1>1, <2>1, <2>3
    <3> QED
      BY <1>1, <2>1, <3>1 DEF ToSet
  <2> QED
    BY <2>2, <2>3
<1>3. ASSUME NEW x \in ToSet(s) PROVE x \in ToSet(s \o r)
  <2>1. PICK i \in 1 .. Len(s) : x = s[i]
    BY <1>1 DEF ToSet
  <2>2. i \in 1 .. (Len(s) + Len(r)) /\ (s \o r)[i] = x
    BY <1>1, <2>1
  <2> QED
    BY <1>1, <2>2 DEF ToSet
<1>4. ASSUME NEW x \in ToSet(r) PROVE x \in ToSet(s \o r)
  <2>1. PICK i \in 1 .. Len(r) : x = r[i]
    BY <1>1 DEF ToSet
  <2>2. /\ i + Len(s) \in (Len(s) + 1) .. (Len(s) + Len(r))
        /\ (i + Len(s)) - Len(s) = i
        /\ i + Len(s) \in 1 .. (Len(s) + Len(r))
    BY <1>1, <2>1
  <2>3. (s \o r)[i + Len(s)] = x
    BY <1>1, <2>1, <2>2
  <2> QED
    BY <1>1, <2>2, <2>3 DEF ToSet
<1> QED
  BY <1>1, <1>2, <1>3, <1>4

(* The first k elements of a sequence. *)
LEMMA PrefixProperties ==
    ASSUME NEW S, NEW s \in Seq(S), NEW k \in 0 .. Len(s)
    PROVE  /\ SubSeq(s, 1, k) \in Seq(S)
           /\ Len(SubSeq(s, 1, k)) = k
           /\ \A i \in 1 .. k : SubSeq(s, 1, k)[i] = s[i]
<1>1. SubSeq(s, 1, k) \in Seq(S)
  OBVIOUS
<1>2. Len(SubSeq(s, 1, k)) = k
  OBVIOUS
<1>3. ASSUME NEW i \in 1 .. k PROVE SubSeq(s, 1, k)[i] = s[i]
  OBVIOUS
<1> QED
  BY <1>1, <1>2, <1>3

-----------------------------------------------------------------------------
(* What Close of a set of open tokens leaves: the invariant still holds. *)
LEMMA CloseKeepsInv ==
    ASSUME TableInv, NEW ts \in SUBSET DOMAIN m_byToken, TableClose(ts)
    PROVE  TableInv'
<1>1. PICK indices : indices = { m_byToken[t] : t \in ts }
  OBVIOUS
<1>2. PICK order \in SetToSeqs(indices) :
          /\ ToSet(order) = indices
          /\ m_slots' = [i \in DOMAIN m_slots |->
                            IF i \in indices THEN ClosedSlot(m_slots[i]) ELSE m_slots[i]]
          /\ m_free' = m_free \o order
          /\ m_byToken' = [u \in DOMAIN m_byToken \ ts |-> m_byToken[u]]
          /\ slotCount' = slotCount /\ issued' = issued
  BY <1>1 DEF TableClose
<1>3. PICK n \in Nat : n = slotCount
  BY DEF TableInv, TableTypeOK
<1>4. /\ m_slots \in [0 .. (n - 1) -> Slot]
      /\ m_free \in Seq(0 .. (n - 1))
      /\ m_byToken \in [DOMAIN m_byToken -> 0 .. (n - 1)]
      /\ issued \subseteq Handle
      /\ DOMAIN m_byToken \subseteq Tokens
  BY <1>3 DEF TableInv, TableTypeOK
<1>5. indices \in SUBSET (0 .. (n - 1))
  BY <1>1, <1>4
<1>6. /\ order \in Seq(0 .. (n - 1))
      /\ \A j, k \in 1 .. Len(order) : order[j] = order[k] => j = k
      /\ \A j \in 1 .. Len(order) : order[j] \in indices
  BY <1>2, <1>5, EnumerationIsInjectiveSeq
<1>7. /\ m_free' \in Seq(0 .. (n - 1))
      /\ Len(m_free') = Len(m_free) + Len(order)
      /\ \A i \in 1 .. Len(m_free) : m_free'[i] = m_free[i]
      /\ \A i \in (Len(m_free) + 1) .. (Len(m_free) + Len(order)) :
            m_free'[i] = order[i - Len(m_free)]
      /\ ToSet(m_free') = ToSet(m_free) \cup indices
  BY <1>2, <1>4, <1>6, ConcatElements
<1>8. /\ \A i \in 0 .. (n - 1) :
            m_slots'[i] = IF i \in indices THEN ClosedSlot(m_slots[i]) ELSE m_slots[i]
      /\ \A i \in 0 .. (n - 1) : m_slots[i] \in Slot
  BY <1>2, <1>4
<1>9. \A s \in Slot : /\ ClosedSlot(s) \in Slot
                      /\ ~ClosedSlot(s).active
                      /\ ClosedSlot(s).generation = s.generation + 1
  BY DEF ClosedSlot, Slot
<1>10. TableTypeOK'
  <2>1. m_slots' \in [0 .. (n - 1) -> Slot]
    BY <1>2, <1>4, <1>8, <1>9
  <2> QED
    BY <1>2, <1>3, <1>4, <1>7, <2>1 DEF TableTypeOK
<1>11. \A i \in indices : m_slots[i].active /\ m_slots[i].token \in ts
  BY <1>1 DEF TableInv, SlotsAccounted
<1>12. SlotsAccounted'
  <2>1. ASSUME NEW t \in DOMAIN m_byToken'
        PROVE  m_slots'[m_byToken'[t]].active /\ m_slots'[m_byToken'[t]].token = t
    <3>1. t \in DOMAIN m_byToken \ ts /\ m_byToken'[t] = m_byToken[t]
      BY <1>2, <2>1
    <3>2. m_slots[m_byToken[t]].active /\ m_slots[m_byToken[t]].token = t
      BY <3>1 DEF TableInv, SlotsAccounted
    <3>3. m_byToken[t] \in 0 .. (n - 1) /\ m_byToken[t] \notin indices
      BY <1>4, <1>11, <3>1, <3>2
    <3> QED
      BY <1>8, <3>1, <3>2, <3>3
  <2>2. ASSUME NEW i \in 0 .. (n - 1), m_slots'[i].active
        PROVE  m_slots'[i].token \in DOMAIN m_byToken' /\ m_byToken'[m_slots'[i].token] = i
    <3>1. i \notin indices /\ m_slots'[i] = m_slots[i]
      BY <1>8, <1>9, <2>2
    <3>2. m_slots[i].token \in DOMAIN m_byToken /\ m_byToken[m_slots[i].token] = i
      BY <1>3, <2>2, <3>1 DEF TableInv, SlotsAccounted
    <3>3. m_slots[i].token \notin ts
      BY <1>1, <3>1, <3>2
    <3> QED
      BY <1>2, <3>1, <3>2, <3>3
  <2>3. ASSUME NEW i \in 0 .. (n - 1), ~m_slots'[i].active
        PROVE  i \in ToSet(m_free')
    <3>1. CASE i \in indices
      BY <1>7, <3>1
    <3>2. CASE i \notin indices
      <4>1. ~m_slots[i].active
        BY <1>8, <2>3, <3>2
      <4>2. i \in ToSet(m_free)
        BY <1>3, <4>1 DEF TableInv, SlotsAccounted
      <4> QED
        BY <1>7, <4>2
    <3> QED
      BY <3>1, <3>2
  <2>4. \A j \in 1 .. Len(m_free) :
           m_free[j] \in 0 .. (n - 1) /\ ~m_slots[m_free[j]].active /\ m_free[j] \notin indices
    <3>1. \A j \in 1 .. Len(m_free) : m_free[j] \in 0 .. (n - 1)
      BY <1>4
    <3>2. \A j \in 1 .. Len(m_free) : ~m_slots[m_free[j]].active
      BY DEF TableInv, SlotsAccounted
    <3> QED
      BY <1>11, <3>1, <3>2
  <2>5. \A j, k \in 1 .. Len(m_free) : m_free[j] = m_free[k] => j = k
    BY DEF TableInv, SlotsAccounted
  <2>6. Len(m_free) \in Nat /\ Len(order) \in Nat
    BY <1>4, <1>6
  <2>7. ASSUME NEW j \in 1 .. Len(m_free')
        PROVE  \/ j \in 1 .. Len(m_free) /\ m_free'[j] = m_free[j]
               \/ /\ j \in (Len(m_free) + 1) .. (Len(m_free) + Len(order))
                  /\ j - Len(m_free) \in 1 .. Len(order)
                  /\ m_free'[j] = order[j - Len(m_free)]
    <3>1. CASE j \in 1 .. Len(m_free)
      BY <1>7, <3>1
    <3>2. CASE j \notin 1 .. Len(m_free)
      <4>1. j \in 1 .. (Len(m_free) + Len(order))
        BY <1>7, <2>7
      <4>2. /\ j \in (Len(m_free) + 1) .. (Len(m_free) + Len(order))
            /\ j - Len(m_free) \in 1 .. Len(order)
        BY <2>6, <3>2, <4>1
      <4> QED
        BY <1>7, <4>2
    <3> QED
      BY <3>1, <3>2
  <2>8. ASSUME NEW j \in 1 .. Len(m_free') PROVE ~m_slots'[m_free'[j]].active
    <3>1. CASE j \in 1 .. Len(m_free) /\ m_free'[j] = m_free[j]
      BY <1>8, <2>4, <3>1
    <3>2. CASE j - Len(m_free) \in 1 .. Len(order) /\ m_free'[j] = order[j - Len(m_free)]
      <4>1. m_free'[j] \in indices
        BY <1>6, <3>2
      <4> QED
        BY <1>5, <1>8, <1>9, <4>1
    <3> QED
      BY <2>7, <3>1, <3>2
  <2>9. ASSUME NEW j \in 1 .. Len(m_free'), NEW k \in 1 .. Len(m_free'),
               m_free'[j] = m_free'[k]
        PROVE  j = k
    <3>1. CASE j \in 1 .. Len(m_free) /\ k \in 1 .. Len(m_free)
      BY <1>7, <2>5, <2>9, <3>1
    <3>2. CASE j \notin 1 .. Len(m_free) /\ k \notin 1 .. Len(m_free)
      <4>1. /\ j - Len(m_free) \in 1 .. Len(order)
            /\ k - Len(m_free) \in 1 .. Len(order)
            /\ order[j - Len(m_free)] = order[k - Len(m_free)]
        BY <2>7, <2>9, <3>2
      <4>2. j - Len(m_free) = k - Len(m_free)
        BY <1>6, <4>1
      <4> QED
        BY <1>7, <2>6, <4>2
    <3>3. CASE j \in 1 .. Len(m_free) /\ k \notin 1 .. Len(m_free)
      <4>1. m_free'[j] \notin indices
        BY <1>7, <2>4, <3>3
      <4>2. k - Len(m_free) \in 1 .. Len(order) /\ m_free'[k] = order[k - Len(m_free)]
        BY <2>7, <3>3
      <4> QED
        BY <1>6, <2>9, <4>1, <4>2
    <3>4. CASE j \notin 1 .. Len(m_free) /\ k \in 1 .. Len(m_free)
      <4>1. m_free'[k] \notin indices
        BY <1>7, <2>4, <3>4
      <4>2. j - Len(m_free) \in 1 .. Len(order) /\ m_free'[j] = order[j - Len(m_free)]
        BY <2>7, <3>4
      <4> QED
        BY <1>6, <2>9, <4>1, <4>2
    <3> QED
      BY <3>1, <3>2, <3>3, <3>4
  <2>10. slotCount' = n
    BY <1>2, <1>3
  <2> QED
    BY <2>1, <2>2, <2>3, <2>8, <2>9, <2>10 DEF SlotsAccounted
<1>13. IssuedBehindSlots'
  <2> SUFFICES ASSUME NEW h \in issued
               PROVE  /\ h.index < n
                      /\ \/ h.generation < m_slots'[h.index].generation
                         \/ /\ h.generation = m_slots'[h.index].generation
                            /\ m_slots'[h.index].active
                            /\ m_slots'[h.index].token = h.token
    BY <1>2, <1>3 DEF IssuedBehindSlots
  <2>1. /\ h.index < n
        /\ \/ h.generation < m_slots[h.index].generation
           \/ /\ h.generation = m_slots[h.index].generation
              /\ m_slots[h.index].active
              /\ m_slots[h.index].token = h.token
    BY <1>3 DEF TableInv, IssuedBehindSlots
  <2>2. h.index \in 0 .. (n - 1) /\ h.generation \in Nat
    BY <1>4, <2>1 DEF Handle
  <2>3. m_slots[h.index].generation \in Nat
    BY <1>8, <2>2 DEF Slot
  <2>4. CASE h.index \in indices
    BY <1>8, <1>9, <2>1, <2>2, <2>3, <2>4
  <2>5. CASE h.index \notin indices
    BY <1>8, <2>1, <2>2, <2>5
  <2> QED
    BY <2>4, <2>5
<1> QED
  BY <1>10, <1>12, <1>13 DEF TableInv

(* Open of a known token hands out its tenant's handle once more. *)
LEMMA OpenExistingKeepsInv ==
    ASSUME TableInv, NEW t \in Tokens, OpenExisting(t)
    PROVE  TableInv'
<1>1. PICK n \in Nat : n = slotCount
  BY DEF TableInv, TableTypeOK
<1>2. PICK i \in 0 .. (n - 1) : i = m_byToken[t]
  BY <1>1 DEF TableInv, TableTypeOK, OpenExisting
<1>3. PICK h : h = [token |-> t, index |-> i, generation |-> m_slots[i].generation]
  OBVIOUS
<1>4. issued' = issued \cup {h}
  BY <1>2, <1>3 DEF OpenExisting, HandleFor
<1>5. UNCHANGED << slotCount, m_slots, m_free, m_byToken >>
  BY DEF OpenExisting
<1>6. m_slots[i].generation \in Nat
  BY <1>1, <1>2 DEF TableInv, TableTypeOK, Slot
<1>7. h \in Handle
  BY <1>2, <1>3, <1>6 DEF Handle
<1>8. TableTypeOK' /\ SlotsAccounted'
  BY <1>4, <1>5, <1>7 DEF TableInv, TableTypeOK, SlotsAccounted
<1>9. m_slots[i].active /\ m_slots[i].token = t
  BY <1>2 DEF TableInv, SlotsAccounted, OpenExisting
<1>10. IssuedBehindSlots'
  <2>1. h.index < slotCount /\ h.index = i /\ h.token = t /\ h.generation = m_slots[i].generation
    BY <1>1, <1>2, <1>3
  <2> QED
    BY <1>4, <1>5, <1>9, <2>1 DEF TableInv, IssuedBehindSlots
<1> QED
  BY <1>8, <1>10 DEF TableInv

(* What Open of a new token relies on, whichever way it gets its slot: the *)
(* slot is not in use, leaves the free list, and keeps its generation.     *)
LEMMA OpenNewKeepsInv ==
    ASSUME TableInv, NEW t \in Tokens, OpenNew(t)
    PROVE  TableInv'
<1>1. PICK n \in Nat : n = slotCount
  BY DEF TableInv, TableTypeOK
<1>2. /\ m_slots \in [0 .. (n - 1) -> Slot]
      /\ m_free \in Seq(0 .. (n - 1))
      /\ m_byToken \in [DOMAIN m_byToken -> 0 .. (n - 1)]
      /\ issued \subseteq Handle
      /\ DOMAIN m_byToken \subseteq Tokens
      /\ Len(m_free) \in Nat
  BY <1>1 DEF TableInv, TableTypeOK
<1>3. PICK index : index = NewIndex
  OBVIOUS
<1>4. PICK generation : generation = IF m_free # << >> THEN m_slots[index].generation ELSE 0
  OBVIOUS
<1>5. /\ t \notin DOMAIN m_byToken
      /\ slotCount' = IF m_free # << >> THEN slotCount ELSE slotCount + 1
      /\ m_free' = IF m_free # << >> THEN SubSeq(m_free, 1, Len(m_free) - 1) ELSE m_free
      /\ m_slots' = [i \in 0 .. (slotCount' - 1) |->
                       IF i = index
                       THEN [token |-> t, generation |-> generation, active |-> TRUE]
                       ELSE m_slots[i]]
      /\ m_byToken' = [u \in DOMAIN m_byToken \cup {t} |->
                         IF u = t THEN index ELSE m_byToken[u]]
      /\ issued' = issued \cup {[token |-> t, index |-> index, generation |-> generation]}
  BY <1>3, <1>4 DEF OpenNew
<1>6. \A j \in 1 .. Len(m_free) :
         m_free[j] \in 0 .. (n - 1) /\ ~m_slots[m_free[j]].active
  <2>1. \A j \in 1 .. Len(m_free) : m_free[j] \in 0 .. (n - 1)
    BY <1>2
  <2> QED
    BY <2>1 DEF TableInv, SlotsAccounted
<1>7. \A j, k \in 1 .. Len(m_free) : m_free[j] = m_free[k] => j = k
  BY DEF TableInv, SlotsAccounted
\* The facts about the taken slot, by the source of the slot.
<1>8. PICK m \in Nat : m = slotCount'
  BY <1>1, <1>5
<1>9. /\ index \in 0 .. (m - 1)
      /\ m \in {n, n + 1}
      /\ m = n + 1 => index = n
      /\ generation \in Nat
      /\ index \in 0 .. (n - 1) => /\ ~m_slots[index].active
                                   /\ generation = m_slots[index].generation
      /\ m_free' \in Seq(0 .. (n - 1))
      /\ \A j \in 1 .. Len(m_free') : j \in 1 .. Len(m_free) /\ m_free'[j] = m_free[j]
      /\ \A j \in 1 .. Len(m_free') : m_free[j] # index
      /\ \A i \in ToSet(m_free) : i # index => i \in ToSet(m_free')
  <2>1. CASE m_free # << >>
    <3>1. PICK k \in Nat : k = Len(m_free) - 1
      BY <1>2, <2>1
    <3>2. /\ index = m_free[k + 1] /\ k + 1 \in 1 .. Len(m_free)
          /\ k + 1 = Len(m_free) /\ m = n
      BY <1>1, <1>2, <1>3, <1>5, <1>8, <2>1, <3>1 DEF NewIndex
    <3>3. index \in 0 .. (n - 1) /\ ~m_slots[index].active
      BY <1>6, <3>2
    <3>4. generation = m_slots[index].generation /\ generation \in Nat
      BY <1>2, <1>4, <2>1, <3>3 DEF Slot
    <3>5. m_free' = SubSeq(m_free, 1, k)
      BY <1>5, <2>1, <3>1
    <3>6. /\ m_free' \in Seq(0 .. (n - 1))
          /\ Len(m_free') = k
          /\ \A j \in 1 .. k : m_free'[j] = m_free[j]
      <4>1. k \in 0 .. Len(m_free)
        BY <1>2, <3>1, <3>2
      <4> QED
        BY <1>2, <3>5, <4>1, PrefixProperties
    <3>7. \A j \in 1 .. k : j \in 1 .. Len(m_free) /\ m_free[j] # index
      BY <1>2, <1>7, <3>2
    <3>8. ASSUME NEW i \in ToSet(m_free), i # index PROVE i \in ToSet(m_free')
      <4>1. DOMAIN m_free = 1 .. (k + 1) /\ DOMAIN m_free' = 1 .. k
        BY <1>2, <3>2, <3>6
      <4>2. PICK j \in 1 .. (k + 1) : i = m_free[j]
        BY <4>1 DEF ToSet
      <4>3. j \in 1 .. k
        BY <3>2, <3>8, <4>2
      <4> QED
        BY <3>6, <4>1, <4>2, <4>3 DEF ToSet
    <3> QED
      BY <3>2, <3>3, <3>4, <3>6, <3>7, <3>8
  <2>2. CASE m_free = << >>
    <3>1. index = n /\ m = n + 1 /\ generation = 0 /\ m_free' = m_free
      BY <1>1, <1>3, <1>4, <1>5, <1>8, <2>2 DEF NewIndex
    <3>2. Len(m_free') = 0 /\ Len(m_free) = 0
      BY <2>2, <3>1
    <3> QED
      BY <1>2, <3>1, <3>2
  <2> QED
    BY <2>1, <2>2
<1>10. PICK tenant : tenant = [token |-> t, generation |-> generation, active |-> TRUE]
  OBVIOUS
<1>11. /\ tenant \in Slot
       /\ tenant.token = t /\ tenant.generation = generation /\ tenant.active
  BY <1>9, <1>10 DEF Slot
<1>12. /\ m_slots' = [i \in 0 .. (m - 1) |-> IF i = index THEN tenant ELSE m_slots[i]]
       /\ m_slots'[index] = tenant
       /\ \A i \in 0 .. (m - 1) : i # index => i \in 0 .. (n - 1) /\ m_slots'[i] = m_slots[i]
  BY <1>5, <1>8, <1>9, <1>10
<1>13. \A i \in 0 .. (n - 1) : i \in 0 .. (m - 1)
  BY <1>9
<1>14. /\ DOMAIN m_byToken' = DOMAIN m_byToken \cup {t}
       /\ m_byToken'[t] = index
       /\ \A u \in DOMAIN m_byToken : u # t /\ m_byToken'[u] = m_byToken[u]
  BY <1>5
<1>15. PICK h : h = [token |-> t, index |-> index, generation |-> generation]
  OBVIOUS
<1>16. /\ h \in Handle /\ issued' = issued \cup {h}
       /\ h.token = t /\ h.index = index /\ h.generation = generation
  BY <1>5, <1>9, <1>15 DEF Handle
<1>17. TableTypeOK'
  <2>1. m_slots' \in [0 .. (m - 1) -> Slot]
    BY <1>2, <1>11, <1>12
  <2>2. m_free' \in Seq(0 .. (m - 1))
    <3>1. 0 .. (n - 1) \subseteq 0 .. (m - 1)
      BY <1>13
    <3> QED
      BY <1>9, <3>1, SeqMonotonic
  <2>3. m_byToken' \in [DOMAIN m_byToken' -> 0 .. (m - 1)]
    BY <1>2, <1>5, <1>9, <1>13
  <2> QED
    BY <1>2, <1>8, <1>14, <1>16, <2>1, <2>2, <2>3 DEF TableTypeOK
<1>18. SlotsAccounted'
  <2>1. ASSUME NEW u \in DOMAIN m_byToken'
        PROVE  m_slots'[m_byToken'[u]].active /\ m_slots'[m_byToken'[u]].token = u
    <3>1. CASE u = t
      BY <1>11, <1>12, <1>14, <3>1
    <3>2. CASE u # t
      <4>1. u \in DOMAIN m_byToken /\ m_byToken'[u] = m_byToken[u]
        BY <1>14, <3>2
      <4>2. m_slots[m_byToken[u]].active /\ m_slots[m_byToken[u]].token = u
        BY <4>1 DEF TableInv, SlotsAccounted
      <4>3. m_byToken[u] \in 0 .. (n - 1)
        BY <1>2, <4>1
      <4>4. m_byToken[u] # index
        BY <1>9, <4>2, <4>3
      <4> QED
        BY <1>12, <1>13, <4>1, <4>2, <4>3, <4>4
    <3> QED
      BY <3>1, <3>2
  <2>2. ASSUME NEW i \in 0 .. (m - 1), m_slots'[i].active
        PROVE  m_slots'[i].token \in DOMAIN m_byToken' /\ m_byToken'[m_slots'[i].token] = i
    <3>1. CASE i = index
      BY <1>11, <1>12, <1>14, <3>1
    <3>2. CASE i # index
      <4>1. i \in 0 .. (n - 1) /\ m_slots'[i] = m_slots[i]
        BY <1>12, <3>2
      <4>2. m_slots[i].token \in DOMAIN m_byToken /\ m_byToken[m_slots[i].token] = i
        BY <1>1, <2>2, <4>1 DEF TableInv, SlotsAccounted
      <4> QED
        BY <1>14, <4>1, <4>2
    <3> QED
      BY <3>1, <3>2
  <2>3. ASSUME NEW i \in 0 .. (m - 1), ~m_slots'[i].active
        PROVE  i \in ToSet(m_free')
    <3>1. i # index
      BY <1>11, <1>12, <2>3
    <3>2. i \in 0 .. (n - 1) /\ ~m_slots[i].active
      BY <1>12, <2>3, <3>1
    <3>3. i \in ToSet(m_free)
      BY <1>1, <3>2 DEF TableInv, SlotsAccounted
    <3> QED
      BY <1>9, <3>1, <3>3
  <2>4. ASSUME NEW j \in 1 .. Len(m_free') PROVE ~m_slots'[m_free'[j]].active
    <3>1. j \in 1 .. Len(m_free) /\ m_free'[j] = m_free[j] /\ m_free[j] # index
      BY <1>9
    <3>2. m_free[j] \in 0 .. (n - 1) /\ ~m_slots[m_free[j]].active
      BY <1>6, <3>1
    <3> QED
      BY <1>12, <1>13, <3>1, <3>2
  <2>5. ASSUME NEW j \in 1 .. Len(m_free'), NEW k \in 1 .. Len(m_free'),
               m_free'[j] = m_free'[k]
        PROVE  j = k
    <3>1. /\ j \in 1 .. Len(m_free) /\ m_free'[j] = m_free[j]
          /\ k \in 1 .. Len(m_free) /\ m_free'[k] = m_free[k]
      BY <1>9
    <3> QED
      BY <1>7, <2>5, <3>1
  <2> QED
    BY <1>8, <2>1, <2>2, <2>3, <2>4, <2>5 DEF SlotsAccounted
<1>19. IssuedBehindSlots'
  <2> SUFFICES ASSUME NEW g \in issued'
               PROVE  /\ g.index < m
                      /\ \/ g.generation < m_slots'[g.index].generation
                         \/ /\ g.generation = m_slots'[g.index].generation
                            /\ m_slots'[g.index].active
                            /\ m_slots'[g.index].token = g.token
    BY <1>8 DEF IssuedBehindSlots
  <2>1. CASE g = h
    <3>1. g.index = index /\ g.token = t /\ g.generation = generation
      BY <1>16, <2>1
    <3>2. index < m
      BY <1>9
    <3>3. m_slots'[g.index] = tenant
      BY <1>12, <3>1
    <3> QED
      BY <1>11, <3>1, <3>2, <3>3
  <2>2. CASE g \in issued
    <3>1. /\ g.index < n
          /\ \/ g.generation < m_slots[g.index].generation
             \/ /\ g.generation = m_slots[g.index].generation
                /\ m_slots[g.index].active
                /\ m_slots[g.index].token = g.token
      BY <1>1, <2>2 DEF TableInv, IssuedBehindSlots
    <3>2. g.index \in 0 .. (n - 1)
      BY <1>2, <2>2, <3>1 DEF Handle
    <3>3. g.index < m
      BY <1>9, <3>1, <3>2
    <3>4. CASE g.index = index
      BY <1>9, <1>11, <1>12, <3>1, <3>2, <3>3, <3>4
    <3>5. CASE g.index # index
      BY <1>12, <1>13, <3>1, <3>2, <3>3, <3>5
    <3> QED
      BY <3>4, <3>5
  <2> QED
    BY <1>16, <2>1, <2>2
<1> QED
  BY <1>17, <1>18, <1>19 DEF TableInv

-----------------------------------------------------------------------------
(* In every reachable state of ConnectionTable.h, whatever the order of    *)
(* Open and Close: every slot is owned by one token or once on the free    *)
(* list, and every handle issued is of an earlier generation of its slot   *)
(* or of the slot's present tenant.                                        *)
THEOREM TableInvariant == TableSpec => []TableInv
<1>1. TableInit => TableInv
  <2> SUFFICES ASSUME TableInit PROVE TableInv
    OBVIOUS
  <2>1. \A S : << >> \in Seq(S)
    OBVIOUS
  <2>2. TableTypeOK
    BY <2>1 DEF TableInit, TableTypeOK
  <2>3. SlotsAccounted /\ IssuedBehindSlots
    BY DEF TableInit, SlotsAccounted, IssuedBehindSlots
  <2> QED
    BY <2>2, <2>3 DEF TableInv
<1>2. TableInv /\ [TableNext]_tableVars => TableInv'
  <2> SUFFICES ASSUME TableInv, [TableNext]_tableVars PROVE TableInv'
    OBVIOUS
  <2>1. CASE \E t \in Tokens : TableOpen(t)
    BY <2>1, OpenExistingKeepsInv, OpenNewKeepsInv DEF TableOpen
  <2>2. CASE \E t \in DOMAIN m_byToken : TableClose({t})
    <3>1. PICK t \in DOMAIN m_byToken : TableClose({t})
      BY <2>2
    <3>2. {t} \in SUBSET DOMAIN m_byToken
      OBVIOUS
    <3> QED
      BY <3>1, <3>2, CloseKeepsInv
  <2>3. CASE UNCHANGED tableVars
    BY <2>3 DEF tableVars, TableInv, TableTypeOK, SlotsAccounted, IssuedBehindSlots
  <2> QED
    BY <2>1, <2>2, <2>3 DEF TableNext
<1> QED
  BY <1>1, <1>2, PTL DEF TableSpec

(* The invariant rules out stale handles: one of the slot's generation is  *)
(* of its present tenant.                                                  *)
LEMMA InvRulesOutStaleHandles == TableInv => HandlesNeverStale
<1> SUFFICES ASSUME TableInv, NEW h \in issued, Validate(h)
             PROVE  m_slots[h.index].token = h.token /\ h.token \in DOMAIN m_byToken
  BY DEF HandlesNeverStale
<1>1. PICK n \in Nat : n = slotCount
  BY DEF TableInv, TableTypeOK
<1>2. h.index \in 0 .. (n - 1) /\ h.generation \in Nat
  BY <1>1 DEF TableInv, TableTypeOK, Handle, Validate
<1>3. m_slots[h.index].active /\ h.generation = m_slots[h.index].generation
  BY DEF Validate
<1>4. m_slots[h.index].token = h.token
  BY <1>2, <1>3 DEF TableInv, IssuedBehindSlots
<1>5. m_slots[h.index].token \in DOMAIN m_byToken
  BY <1>1, <1>2, <1>3 DEF TableInv, SlotsAccounted
<1> QED
  BY <1>4, <1>5

(* Validate never accepts a handle for a connection other than the one it  *)
(* was issued for, after any number of closes and reuses of its slot.      *)
THEOREM TableHandlesNeverStale == TableSpec => []HandlesNeverStale
BY InvRulesOutStaleHandles, TableInvariant, PTL

(***************************************************************************)
(* The host                                                                *)
(***************************************************************************)
(* What HostInv needs to be inductive: the counters that name connections  *)
(* and bases (NextToken, m_nextNetId) are ahead of every name in use or    *)
(* remembered, and the handle of an entry is one the table issued.         *)
CountersAhead ==
    /\ \A t \in DOMAIN m_conns : t <= m_tokenCounter
    /\ \A h \in issued : h.token <= m_tokenCounter
    /\ \A n \in bases : n < m_nextNetId
    /\ \A n \in NetIds : n >= m_nextNetId => baseAccount[n] = 0
    /\ \A c \in commanded : c[2] < m_nextNetId

HandlesIssued == \A t \in DOMAIN m_conns : m_conns[t].handle \in issued

HostIInv == TypeOK /\ HostInv /\ CountersAhead /\ HandlesIssued

-----------------------------------------------------------------------------
(* Close of some tokens leaves the handles of the others valid. *)
LEMMA CloseKeepsOtherHandles ==
    ASSUME TableInv, NEW ts \in SUBSET DOMAIN m_byToken, TableClose(ts),
           NEW h \in issued, Validate(h), h.token \notin ts
    PROVE  Validate(h)'
<1>1. PICK n \in Nat : n = slotCount
  BY DEF TableInv, TableTypeOK
<1>2. h.index \in 0 .. (n - 1) /\ h.generation \in Nat
  BY <1>1 DEF TableInv, TableTypeOK, Handle, Validate
<1>3. m_slots[h.index].active /\ h.generation = m_slots[h.index].generation
  BY DEF Validate
<1>4. m_slots[h.index].token = h.token
  BY <1>2, <1>3 DEF TableInv, IssuedBehindSlots
<1>5. PICK indices : indices = { m_byToken[t] : t \in ts }
  OBVIOUS
<1>6. /\ m_slots' = [i \in DOMAIN m_slots |->
                       IF i \in indices THEN ClosedSlot(m_slots[i]) ELSE m_slots[i]]
      /\ slotCount' = slotCount
  BY <1>5 DEF TableClose
<1>7. h.index \notin indices
  BY <1>4, <1>5 DEF TableInv, SlotsAccounted
<1>8. m_slots'[h.index] = m_slots[h.index]
  BY <1>1, <1>2, <1>6, <1>7 DEF TableInv, TableTypeOK
<1> QED
  BY <1>6, <1>8 DEF Validate

(* Open of a token that no handle was issued for: the handles that were    *)
(* valid stay valid, and the one handle of the token is valid.             *)
LEMMA OpenNewHandles ==
    ASSUME TableInv, NEW t \in Tokens, OpenNew(t), \A h \in issued : h.token # t
    PROVE  /\ DOMAIN m_byToken' = DOMAIN m_byToken \cup {t}
           /\ \A h \in issued : h \in issued' /\ (Validate(h) => Validate(h)')
           /\ \A h \in issued' : h \in issued \/ h.token = t
           /\ \E h \in issued' :
                 /\ h.token = t /\ Validate(h)'
                 /\ h = CHOOSE g \in issued' : g.token = t
<1>1. PICK n \in Nat : n = slotCount
  BY DEF TableInv, TableTypeOK
<1>2. /\ m_slots \in [0 .. (n - 1) -> Slot]
      /\ m_free \in Seq(0 .. (n - 1))
      /\ issued \subseteq Handle
      /\ Len(m_free) \in Nat
  BY <1>1 DEF TableInv, TableTypeOK
<1>3. PICK index : index = NewIndex
  OBVIOUS
<1>4. PICK generation : generation = IF m_free # << >> THEN m_slots[index].generation ELSE 0
  OBVIOUS
<1>5. PICK h : h = [token |-> t, index |-> index, generation |-> generation]
  OBVIOUS
<1>6. /\ slotCount' = IF m_free # << >> THEN slotCount ELSE slotCount + 1
      /\ m_slots' = [i \in 0 .. (slotCount' - 1) |->
                       IF i = index
                       THEN [token |-> t, generation |-> generation, active |-> TRUE]
                       ELSE m_slots[i]]
      /\ DOMAIN m_byToken' = DOMAIN m_byToken \cup {t}
      /\ issued' = issued \cup {h}
  BY <1>3, <1>4, <1>5 DEF OpenNew
<1>7. PICK m \in Nat : m = slotCount'
  BY <1>1, <1>6
<1>8. /\ index \in 0 .. (m - 1)
      /\ n <= m
      /\ index \in 0 .. (n - 1) => ~m_slots[index].active
  <2>1. CASE m_free # << >>
    <3>1. Len(m_free) \in 1 .. Len(m_free) /\ index = m_free[Len(m_free)] /\ m = n
      BY <1>1, <1>2, <1>3, <1>6, <1>7, <2>1 DEF NewIndex
    <3>2. index \in 0 .. (n - 1)
      BY <1>2, <3>1
    <3>3. ~m_slots[index].active
      BY <3>1 DEF TableInv, SlotsAccounted
    <3> QED
      BY <3>1, <3>2, <3>3
  <2>2. CASE m_free = << >>
    BY <1>1, <1>3, <1>6, <1>7, <2>2 DEF NewIndex
  <2> QED
    BY <2>1, <2>2
<1>9. ASSUME NEW g \in issued, Validate(g) PROVE Validate(g)'
  <2>1. g.index \in 0 .. (n - 1) /\ m_slots[g.index].active
    BY <1>1, <1>2, <1>9 DEF Validate, Handle
  <2>2. g.index # index /\ g.index \in 0 .. (m - 1)
    BY <1>8, <2>1
  <2>3. m_slots'[g.index] = m_slots[g.index]
    BY <1>6, <1>7, <2>2
  <2> QED
    BY <1>7, <1>9, <2>2, <2>3 DEF Validate
<1>10. h.token = t /\ h.index = index /\ h.generation = generation
  BY <1>5
<1>11. Validate(h)'
  <2>1. /\ m_slots'[index].active /\ m_slots'[index].generation = generation
        /\ index < slotCount'
    BY <1>6, <1>7, <1>8
  <2> QED
    BY <1>10, <2>1 DEF Validate
<1>12. h = CHOOSE g \in issued' : g.token = t
  BY <1>6, <1>10
<1> QED
  BY <1>6, <1>9, <1>10, <1>11, <1>12

-----------------------------------------------------------------------------
(* Dropping the routes and slots of some connections, with their entries,  *)
(* leaves the other connections routed by address and by token.            *)
LEMMA UnrouteKeepsRouting ==
    ASSUME HostIInv, NEW ts \in SUBSET DOMAIN m_conns, Unroute(ts),
           DOMAIN m_conns' = DOMAIN m_conns \ ts,
           \A t \in DOMAIN m_conns \ ts : /\ m_conns'[t].endpoint = m_conns[t].endpoint
                                          /\ m_conns'[t].handle = m_conns[t].handle
    PROVE  /\ TableInv' /\ RoutesExact' /\ SlotsMatchConns' /\ HandlesIssued'
           /\ issued' = issued
           /\ DOMAIN m_addrToToken' \subseteq Endpoints
           /\ m_addrToToken' \in [DOMAIN m_addrToToken' -> Tokens]
<1>1. /\ TableInv /\ TableClose(ts)
      /\ m_addrToToken' = Without(m_addrToToken, {m_conns[t].endpoint : t \in ts})
  BY DEF HostIInv, HostInv, Unroute
<1>2. /\ DOMAIN m_byToken = DOMAIN m_conns
      /\ \A t \in DOMAIN m_conns : Validate(m_conns[t].handle) /\ m_conns[t].handle.token = t
      /\ \A t \in DOMAIN m_conns : m_conns[t].handle \in issued
  BY DEF HostIInv, HostInv, SlotsMatchConns, HandlesIssued
<1>3. TableInv'
  BY <1>1, <1>2, CloseKeepsInv
<1>4. issued' = issued /\ DOMAIN m_byToken' = DOMAIN m_byToken \ ts
  BY <1>1 DEF TableClose
<1>5. /\ DOMAIN m_addrToToken = { m_conns[t].endpoint : t \in DOMAIN m_conns }
      /\ \A t \in DOMAIN m_conns : m_addrToToken[m_conns[t].endpoint] = t
  BY DEF HostIInv, HostInv, RoutesExact
<1>6. /\ DOMAIN m_addrToToken' = DOMAIN m_addrToToken \ {m_conns[t].endpoint : t \in ts}
      /\ \A e \in DOMAIN m_addrToToken' : m_addrToToken'[e] = m_addrToToken[e]
      /\ m_addrToToken' = [e \in DOMAIN m_addrToToken' |-> m_addrToToken[e]]
  BY <1>1 DEF Without
<1>7. RoutesExact'
  <2>1. DOMAIN m_addrToToken' = { m_conns[t].endpoint : t \in DOMAIN m_conns \ ts }
    BY <1>5, <1>6
  <2>2. { m_conns[t].endpoint : t \in DOMAIN m_conns \ ts }
          = { m_conns'[t].endpoint : t \in DOMAIN m_conns' }
    OBVIOUS
  <2>3. \A t \in DOMAIN m_conns' : m_addrToToken'[m_conns'[t].endpoint] = t
    BY <1>5, <1>6, <2>1
  <2> QED
    BY <2>1, <2>2, <2>3 DEF RoutesExact
<1>8. SlotsMatchConns' /\ HandlesIssued'
  <2>1. ASSUME NEW t \in DOMAIN m_conns \ ts
        PROVE  /\ Validate(m_conns[t].handle)' /\ m_conns'[t].handle.token = t
               /\ m_conns'[t].handle \in issued'
    <3>1. PICK h \in issued : h = m_conns[t].handle
      BY <1>2
    <3>2. Validate(h) /\ h.token = t /\ h.token \notin ts /\ h = m_conns'[t].handle
      BY <1>2, <3>1
    <3>3. Validate(h)'
      BY <1>1, <1>2, <3>2, CloseKeepsOtherHandles
    <3> QED
      BY <1>4, <3>2, <3>3 DEF Validate
  <2> QED
    BY <1>2, <1>4, <2>1 DEF SlotsMatchConns, HandlesIssued
<1>9. m_addrToToken' \in [DOMAIN m_addrToToken' -> Tokens] /\ DOMAIN m_addrToToken' \subseteq Endpoints
  <2>1. m_addrToToken \in [DOMAIN m_addrToToken -> Tokens] /\ DOMAIN m_addrToToken \subseteq Endpoints
    BY DEF HostIInv, TypeOK
  <2> QED
    BY <1>6, <2>1
<1> QED
  BY <1>3, <1>4, <1>7, <1>8, <1>9

(* RemoveConnection, for each of a set of connections: what the others     *)
(* have stays theirs, because no two share a route, a slot or a base.      *)
LEMMA RemoveKeepsInv ==
    ASSUME HostIInv, NEW ts \in SUBSET DOMAIN m_conns, RemoveConnections(ts)
    PROVE  HostIInv'
<1>1. /\ bases' = bases \ {m_conns[t].playerNetId : t \in ts}
      /\ Unroute(ts)
      /\ m_conns' = Without(m_conns, ts)
      /\ idle' = idle \ ts
      /\ UNCHANGED << m_devAuthStub, m_tokenCounter, m_nextNetId, seeded, baseAccount, commanded >>
  BY DEF RemoveConnections
<1>2. /\ m_conns' = [t \in DOMAIN m_conns \ ts |-> m_conns[t]]
      /\ DOMAIN m_conns' = DOMAIN m_conns \ ts
      /\ \A t \in DOMAIN m_conns \ ts : m_conns'[t] = m_conns[t]
  BY <1>1 DEF Without
<1>3. /\ TableInv' /\ RoutesExact' /\ SlotsMatchConns' /\ HandlesIssued'
      /\ issued' = issued
      /\ DOMAIN m_addrToToken' \subseteq Endpoints
      /\ m_addrToToken' \in [DOMAIN m_addrToToken' -> Tokens]
  BY <1>1, <1>2, UnrouteKeepsRouting
<1>4. TypeOK'
  <2>1. TableTypeOK'
    BY <1>3 DEF TableInv
  <2>2. m_conns' \in [DOMAIN m_conns' -> ConnEntry] /\ DOMAIN m_conns' \subseteq Tokens
    BY <1>2 DEF HostIInv, TypeOK
  <2> QED
    BY <1>1, <1>3, <2>1, <2>2 DEF HostIInv, TypeOK
<1>5. OneSessionPerAccount'
  BY <1>2 DEF HostIInv, HostInv, OneSessionPerAccount
<1>6. SessionOwnsLiveBase'
  <2> SUFFICES ASSUME NEW t \in DOMAIN m_conns \ ts, NEW n, n = m_conns[t].playerNetId
               PROVE  /\ m_conns[t].authed <=> n # 0
                      /\ n # 0 => /\ n \in bases'
                                  /\ baseAccount[n] = m_conns[t].accountId
                                  /\ \A u \in DOMAIN m_conns \ ts : m_conns[u].playerNetId = n => u = t
    BY <1>1, <1>2 DEF SessionOwnsLiveBase
  <2>1. /\ m_conns[t].authed <=> n # 0
        /\ n # 0 => /\ n \in bases
                    /\ baseAccount[n] = m_conns[t].accountId
                    /\ \A u \in DOMAIN m_conns : m_conns[u].playerNetId = n => u = t
    BY DEF HostIInv, HostInv, SessionOwnsLiveBase
  <2>2. n # 0 => n \notin {m_conns[u].playerNetId : u \in ts}
    BY <2>1
  <2> QED
    BY <1>1, <2>1, <2>2
<1>7. CommandsOwnBase'
  BY <1>1 DEF HostIInv, HostInv, CommandsOwnBase
<1>8. CountersAhead'
  BY <1>1, <1>2, <1>3 DEF HostIInv, CountersAhead
<1> QED
  BY <1>3, <1>4, <1>5, <1>6, <1>7, <1>8 DEF HostIInv, HostInv

(* A datagram that neither ends nor re-binds its connection. *)
LEMMA UpdateKeepsInv ==
    ASSUME HostIInv, NEW t \in DOMAIN m_conns, NEW entry \in ConnEntry, UpdateConn(t, entry),
           /\ entry.endpoint = m_conns[t].endpoint
           /\ entry.handle = m_conns[t].handle
           /\ entry.authed = m_conns[t].authed
           /\ entry.accountId = m_conns[t].accountId
           /\ entry.playerNetId = m_conns[t].playerNetId
    PROVE  HostIInv'
<1>1. /\ m_conns' = [m_conns EXCEPT ![t] = entry]
      /\ idle' = idle \ {t}
      /\ UNCHANGED << slotCount, m_slots, m_free, m_byToken, issued >>
      /\ UNCHANGED << m_devAuthStub, m_addrToToken, m_tokenCounter, bases, m_nextNetId,
                      seeded, baseAccount, commanded >>
  BY DEF UpdateConn, Touched, tableVars
<1>2. /\ DOMAIN m_conns' = DOMAIN m_conns
      /\ m_conns' \in [DOMAIN m_conns' -> ConnEntry]
      /\ \A u \in DOMAIN m_conns : /\ m_conns'[u].endpoint = m_conns[u].endpoint
                                   /\ m_conns'[u].handle = m_conns[u].handle
                                   /\ m_conns'[u].authed = m_conns[u].authed
                                   /\ m_conns'[u].accountId = m_conns[u].accountId
                                   /\ m_conns'[u].playerNetId = m_conns[u].playerNetId
  BY <1>1 DEF HostIInv, TypeOK
<1>3. TableTypeOK' /\ TableInv'
  BY <1>1 DEF HostIInv, HostInv, TableInv, TableTypeOK, SlotsAccounted, IssuedBehindSlots
<1>4. TypeOK'
  BY <1>1, <1>2, <1>3 DEF HostIInv, TypeOK
<1>5. RoutesExact'
  <2>1. { m_conns'[u].endpoint : u \in DOMAIN m_conns' } = { m_conns[u].endpoint : u \in DOMAIN m_conns }
    BY <1>2
  <2> QED
    BY <1>1, <1>2, <2>1 DEF HostIInv, HostInv, RoutesExact
<1>6. SlotsMatchConns' /\ HandlesIssued'
  BY <1>1, <1>2 DEF HostIInv, HostInv, SlotsMatchConns, HandlesIssued, Validate
<1>7. OneSessionPerAccount'
  BY <1>2 DEF HostIInv, HostInv, OneSessionPerAccount
<1>8. SessionOwnsLiveBase'
  BY <1>1, <1>2 DEF HostIInv, HostInv, SessionOwnsLiveBase
<1>9. CommandsOwnBase' /\ CountersAhead'
  BY <1>1, <1>2 DEF HostIInv, HostInv, CommandsOwnBase, CountersAhead
<1> QED
  BY <1>3, <1>4, <1>5, <1>6, <1>7, <1>8, <1>9 DEF HostIInv, HostInv

(* A new connection: its token and base are new, so it shares neither, and *)
(* its address had no route.                                               *)
LEMMA CookieKeepsInv ==
    ASSUME HostIInv, NEW from \in Endpoints, NEW keysAgree \in BOOLEAN,
           OnCookieResponse(from, keysAgree)
    PROVE  HostIInv'
<1>1. PICK token : token = m_tokenCounter + 1
  OBVIOUS
<1>2. PICK netId : netId = IF m_devAuthStub THEN m_nextNetId ELSE 0
  OBVIOUS
<1>3. PICK entry : entry = [ endpoint |-> from,
                     state |-> IF keysAgree THEN "Handshaking" ELSE "Disconnected",
                     channel |-> FALSE, authed |-> m_devAuthStub, accountId |-> 0,
                     playerNetId |-> netId,
                     handle |-> CHOOSE h \in issued' : h.token = token ]
  OBVIOUS
<1>4. /\ from \notin DOMAIN m_addrToToken
      /\ token <= MAX_TOKEN
      /\ m_devAuthStub => CanSpawn
      /\ m_tokenCounter' = token
      /\ OpenNew(token)
      /\ m_conns' = [t \in DOMAIN m_conns \cup {token} |-> IF t = token THEN entry ELSE m_conns[t]]
      /\ m_addrToToken' = [e \in DOMAIN m_addrToToken \cup {from} |->
                             IF e = from THEN token ELSE m_addrToToken[e]]
      /\ bases' = IF m_devAuthStub THEN bases \cup {netId} ELSE bases
      /\ m_nextNetId' = IF m_devAuthStub THEN m_nextNetId + SpawnedIds ELSE m_nextNetId
      /\ UNCHANGED << m_devAuthStub, idle, seeded, baseAccount, commanded >>
  BY <1>1, <1>2, <1>3 DEF OnCookieResponse
<1>5. TypeOK /\ TableInv /\ CountersAhead /\ HandlesIssued
  BY DEF HostIInv, HostInv
<1>6. /\ token \in Tokens /\ token \in Nat
      /\ \A t \in DOMAIN m_conns : t # token /\ t <= token
      /\ \A h \in issued : h.token # token /\ h.token <= token
  BY <1>1, <1>4, <1>5, HostAssumption DEF TypeOK, CountersAhead, TableTypeOK, Handle
<1>7. /\ m_nextNetId \in Nat \ {0}
      /\ m_devAuthStub => /\ m_nextNetId \in NetIds
                          /\ m_nextNetId + SpawnedIds \in 1 .. (MAX_NET_ID + 1)
  BY <1>4, <1>5, HostAssumption DEF TypeOK, NetIds, CanSpawn, SpawnedIds
<1>8. /\ DOMAIN m_byToken' = DOMAIN m_byToken \cup {token}
      /\ \A h \in issued : h \in issued' /\ (Validate(h) => Validate(h)')
      /\ \A h \in issued' : h \in issued \/ h.token = token
      /\ \E h \in issued' :
            /\ h.token = token /\ Validate(h)'
            /\ h = CHOOSE g \in issued' : g.token = token
  BY <1>4, <1>5, <1>6, OpenNewHandles
<1>9. PICK h \in issued' : /\ h.token = token /\ Validate(h)'
                           /\ h = CHOOSE g \in issued' : g.token = token
  BY <1>8
<1>10. TableInv'
  BY <1>4, <1>5, <1>6, OpenNewKeepsInv
<1>11. h \in Handle /\ TableTypeOK'
  BY <1>9, <1>10 DEF TableInv, TableTypeOK
<1>12. /\ entry \in ConnEntry
       /\ entry.endpoint = from /\ entry.authed = m_devAuthStub /\ entry.accountId = 0
       /\ entry.playerNetId = netId /\ entry.handle = h
  <2>1. netId \in NetIds \cup {0} /\ m_devAuthStub \in BOOLEAN
    BY <1>2, <1>5, <1>7 DEF TypeOK
  <2> QED
    BY <1>3, <1>9, <1>11, <2>1 DEF ConnEntry, ConnState
<1>13. /\ DOMAIN m_conns' = DOMAIN m_conns \cup {token}
       /\ m_conns'[token] = entry
       /\ \A t \in DOMAIN m_conns : m_conns'[t] = m_conns[t]
  BY <1>4, <1>6
<1>14. TypeOK'
  <2>1. m_conns' \in [DOMAIN m_conns' -> ConnEntry] /\ DOMAIN m_conns' \subseteq Tokens
    BY <1>4, <1>5, <1>6, <1>12, <1>13 DEF TypeOK
  <2>2. /\ m_addrToToken' \in [DOMAIN m_addrToToken' -> Tokens]
        /\ DOMAIN m_addrToToken' \subseteq Endpoints
    BY <1>4, <1>5, <1>6 DEF TypeOK
  <2>3. m_tokenCounter' \in 0 .. MAX_TOKEN
    BY <1>4, <1>6, HostAssumption
  <2>4. bases' \subseteq NetIds /\ m_nextNetId' \in 1 .. (MAX_NET_ID + 1)
    BY <1>2, <1>4, <1>5, <1>7 DEF TypeOK
  <2> QED
    BY <1>4, <1>5, <1>11, <2>1, <2>2, <2>3, <2>4 DEF TypeOK
<1>15. RoutesExact'
  <2>1. /\ DOMAIN m_addrToToken = { m_conns[t].endpoint : t \in DOMAIN m_conns }
        /\ \A t \in DOMAIN m_conns : m_addrToToken[m_conns[t].endpoint] = t
    BY DEF HostIInv, HostInv, RoutesExact
  <2>2. DOMAIN m_addrToToken' = DOMAIN m_addrToToken \cup {from}
    BY <1>4
  <2>3. { m_conns'[t].endpoint : t \in DOMAIN m_conns' } = DOMAIN m_addrToToken \cup {from}
    BY <1>12, <1>13, <2>1
  <2>4. ASSUME NEW t \in DOMAIN m_conns' PROVE m_addrToToken'[m_conns'[t].endpoint] = t
    <3>1. CASE t = token
      BY <1>4, <1>12, <1>13, <3>1
    <3>2. CASE t # token
      BY <1>4, <1>13, <2>1, <3>2
    <3> QED
      BY <3>1, <3>2
  <2> QED
    BY <2>2, <2>3, <2>4 DEF RoutesExact
<1>16. SlotsMatchConns' /\ HandlesIssued'
  <2>1. DOMAIN m_byToken' = DOMAIN m_conns'
    BY <1>8, <1>13 DEF HostIInv, HostInv, SlotsMatchConns
  <2>2. ASSUME NEW t \in DOMAIN m_conns'
        PROVE  /\ Validate(m_conns[t].handle)' /\ m_conns'[t].handle.token = t
               /\ m_conns'[t].handle \in issued'
    <3>1. CASE t = token
      BY <1>9, <1>12, <1>13, <3>1 DEF Validate
    <3>2. CASE t # token
      <4>1. t \in DOMAIN m_conns /\ m_conns'[t] = m_conns[t]
        BY <1>13, <3>2
      <4>2. PICK g \in issued : g = m_conns[t].handle
        BY <1>5, <4>1 DEF HandlesIssued
      <4>3. Validate(g) /\ g.token = t
        BY <4>1, <4>2 DEF HostIInv, HostInv, SlotsMatchConns
      <4>4. Validate(g)' /\ g \in issued'
        BY <1>8, <4>3
      <4> QED
        BY <4>1, <4>2, <4>3, <4>4 DEF Validate
    <3> QED
      BY <3>1, <3>2
  <2> QED
    BY <2>1, <2>2 DEF SlotsMatchConns, HandlesIssued
<1>17. OneSessionPerAccount'
  BY <1>12, <1>13 DEF HostIInv, HostInv, OneSessionPerAccount
<1>18. SessionOwnsLiveBase'
  <2>1. \A t \in DOMAIN m_conns :
           /\ m_conns[t].authed <=> m_conns[t].playerNetId # 0
           /\ m_conns[t].playerNetId # 0 =>
                 /\ m_conns[t].playerNetId \in bases
                 /\ baseAccount[m_conns[t].playerNetId] = m_conns[t].accountId
                 /\ \A u \in DOMAIN m_conns : m_conns[u].playerNetId = m_conns[t].playerNetId => u = t
    BY DEF HostIInv, HostInv, SessionOwnsLiveBase
  <2>2. \A t \in DOMAIN m_conns : netId # 0 => m_conns[t].playerNetId # netId
    <3> SUFFICES ASSUME NEW t \in DOMAIN m_conns, netId # 0, m_conns[t].playerNetId = netId
                 PROVE FALSE
      OBVIOUS
    <3>1. netId = m_nextNetId /\ netId \in bases
      BY <1>2, <2>1
    <3> QED
      BY <1>5, <1>7, <3>1 DEF CountersAhead
  <2>3. m_devAuthStub <=> netId # 0
    BY <1>2, <1>7
  <2>4. netId # 0 => netId \in bases' /\ baseAccount[netId] = 0
    BY <1>2, <1>4, <1>5, <1>7, <2>3 DEF CountersAhead
  <2>5. \A n \in bases : n \in bases'
    BY <1>4
  <2> SUFFICES ASSUME NEW t \in DOMAIN m_conns'
               PROVE  /\ m_conns'[t].authed <=> m_conns'[t].playerNetId # 0
                      /\ m_conns'[t].playerNetId # 0 =>
                           /\ m_conns'[t].playerNetId \in bases'
                           /\ baseAccount[m_conns'[t].playerNetId] = m_conns'[t].accountId
                           /\ \A u \in DOMAIN m_conns' :
                                 m_conns'[u].playerNetId = m_conns'[t].playerNetId => u = t
    BY <1>4, ZenonT(90) DEF SessionOwnsLiveBase
  <2>6. CASE t = token
    BY <1>12, <1>13, <2>2, <2>3, <2>4, <2>6
  <2>7. CASE t # token
    BY <1>12, <1>13, <2>1, <2>2, <2>5, <2>7
  <2> QED
    BY <2>6, <2>7
<1>19. CommandsOwnBase'
  BY <1>4 DEF HostIInv, HostInv, CommandsOwnBase
<1>20. CountersAhead'
  <2>1. m_nextNetId' \in Nat /\ m_nextNetId <= m_nextNetId'
    BY <1>4, <1>7 DEF SpawnedIds
  <2>2. \A t \in DOMAIN m_conns' : t <= token
    BY <1>6, <1>13
  <2>3. \A g \in issued' : g.token <= token
    BY <1>6, <1>8
  <2>4. \A n \in bases' : n < m_nextNetId'
    <3> SUFFICES ASSUME NEW n \in bases' PROVE n < m_nextNetId'
      OBVIOUS
    <3>1. CASE n \in bases
      <4>1. n \in Nat /\ n < m_nextNetId
        BY <1>5, <3>1 DEF TypeOK, CountersAhead, NetIds
      <4> QED
        BY <1>7, <2>1, <4>1
    <3>2. CASE n \notin bases
      BY <1>2, <1>4, <1>7, <3>2 DEF SpawnedIds
    <3> QED
      BY <3>1, <3>2
  <2>5. \A n \in NetIds : n >= m_nextNetId' => baseAccount'[n] = 0
    <3> SUFFICES ASSUME NEW n \in NetIds, n >= m_nextNetId' PROVE baseAccount[n] = 0
      BY <1>4
    <3>1. n \in Nat /\ n >= m_nextNetId
      BY <1>7, <2>1 DEF NetIds
    <3> QED
      BY <1>5, <3>1 DEF CountersAhead
  <2>6. \A c \in commanded' : c[2] < m_nextNetId'
    <3> SUFFICES ASSUME NEW c \in commanded PROVE c[2] < m_nextNetId'
      BY <1>4
    <3>1. c[2] \in Nat /\ c[2] < m_nextNetId
      BY <1>5 DEF TypeOK, CountersAhead, NetIds
    <3> QED
      BY <1>7, <2>1, <3>1
  <2> QED
    BY <1>4, <2>2, <2>3, <2>4, <2>5, <2>6 DEF CountersAhead
<1> QED
  BY <1>10, <1>14, <1>15, <1>16, <1>17, <1>18, <1>19, <1>20 DEF HostIInv, HostInv

(* A login: the account's other connections go, and the base bound to this *)
(* one is new, so nobody else has it.                                      *)
LEMMA AuthKeepsInv ==
    ASSUME HostIInv, NEW t \in Tokens, NEW acc \in Accounts, OnAuthSuccess(t, acc)
    PROVE  HostIInv'
<1>1. PICK kicked : kicked = Kicked(acc, t)
  OBVIOUS
<1>2. PICK netId : netId = m_nextNetId
  OBVIOUS
<1>3. FirstLogin(acc) /\ BoundBase(acc) = netId
  BY <1>2 DEF FirstLogin, BoundBase, SessionBaseId
<1>4. PICK entry : entry = [m_conns[t] EXCEPT !.state = MarkConnected(@), !.authed = TRUE,
                                  !.accountId = acc, !.playerNetId = netId]
  OBVIOUS
<1>5. /\ t \in DOMAIN m_conns
      /\ CanSpawn
      /\ m_conns' = [u \in DOMAIN m_conns \ kicked |-> IF u = t THEN entry ELSE m_conns[u]]
      /\ Unroute(kicked)
      /\ idle' = idle \ (kicked \cup {t})
      /\ bases' = bases \cup {netId}
      /\ m_nextNetId' = m_nextNetId + SpawnedIds
      /\ seeded' = seeded \cup {acc}
      /\ baseAccount' = [baseAccount EXCEPT ![netId] = acc]
      /\ UNCHANGED << m_devAuthStub, m_tokenCounter, commanded >>
  BY <1>1, <1>3, <1>4 DEF OnAuthSuccess, Routed
<1>6. TypeOK /\ CountersAhead
  BY DEF HostIInv
<1>7. /\ netId \in NetIds /\ netId \in Nat \ {0}
      /\ m_nextNetId' \in 1 .. (MAX_NET_ID + 1)
      /\ netId < m_nextNetId' /\ m_nextNetId' \in Nat
  BY <1>2, <1>5, <1>6, HostAssumption DEF TypeOK, NetIds, CanSpawn, SpawnedIds
<1>8. /\ kicked \in SUBSET DOMAIN m_conns
      /\ t \notin kicked
      /\ \A u \in DOMAIN m_conns \ kicked :
            (u # t /\ m_conns[u].authed) => m_conns[u].accountId # acc
  BY <1>1 DEF Kicked
<1>9. /\ entry \in ConnEntry
      /\ entry.endpoint = m_conns[t].endpoint /\ entry.handle = m_conns[t].handle
      /\ entry.authed = TRUE /\ entry.accountId = acc /\ entry.playerNetId = netId
  <2>1. m_conns[t] \in ConnEntry
    BY <1>5, <1>6 DEF TypeOK
  <2>2. MarkConnected(m_conns[t].state) \in ConnState
    BY <2>1 DEF MarkConnected, ConnEntry, ConnState
  <2> QED
    BY <1>4, <1>7, <2>1, <2>2 DEF ConnEntry
<1>10. /\ DOMAIN m_conns' = DOMAIN m_conns \ kicked
       /\ m_conns'[t] = entry
       /\ \A u \in DOMAIN m_conns \ kicked : u # t => m_conns'[u] = m_conns[u]
  BY <1>5, <1>8
<1>11. /\ TableInv' /\ RoutesExact' /\ SlotsMatchConns' /\ HandlesIssued'
       /\ issued' = issued
       /\ DOMAIN m_addrToToken' \subseteq Endpoints
       /\ m_addrToToken' \in [DOMAIN m_addrToToken' -> Tokens]
  <2>1. \A u \in DOMAIN m_conns \ kicked : /\ m_conns'[u].endpoint = m_conns[u].endpoint
                                           /\ m_conns'[u].handle = m_conns[u].handle
    BY <1>9, <1>10
  <2> QED
    BY <1>5, <1>8, <1>10, <2>1, UnrouteKeepsRouting
<1>12. TypeOK'
  <2>1. TableTypeOK'
    BY <1>11 DEF TableInv
  <2>2. m_conns' \in [DOMAIN m_conns' -> ConnEntry] /\ DOMAIN m_conns' \subseteq Tokens
    BY <1>5, <1>6, <1>9, <1>10 DEF TypeOK
  <2>3. baseAccount' \in [NetIds -> Accounts \cup {0}]
    BY <1>5, <1>6 DEF TypeOK
  <2> QED
    BY <1>5, <1>6, <1>7, <1>11, <2>1, <2>2, <2>3 DEF TypeOK
<1>13. OneSessionPerAccount'
  <2>1. \A u \in DOMAIN m_conns' : (u # t /\ m_conns'[u].authed) => m_conns'[u].accountId # acc
    BY <1>8, <1>10
  <2>2. m_conns'[t].accountId = acc
    BY <1>9, <1>10
  <2> SUFFICES ASSUME NEW u \in DOMAIN m_conns', NEW v \in DOMAIN m_conns',
                      m_conns'[u].authed /\ m_conns'[v].authed,
                      m_conns'[u].accountId # 0,
                      m_conns'[u].accountId = m_conns'[v].accountId
               PROVE  u = v
    BY DEF OneSessionPerAccount
  <2>3. CASE u = t \/ v = t
    BY <2>1, <2>2, <2>3
  <2>4. CASE u # t /\ v # t
    BY <1>10, <2>4 DEF HostIInv, HostInv, OneSessionPerAccount
  <2> QED
    BY <2>3, <2>4
\* The new base is nobody's: those in use have smaller ids.
<1>14. \A n \in bases : n # netId
  BY <1>2, <1>6, <1>7 DEF CountersAhead, TypeOK, NetIds
<1>15. SessionOwnsLiveBase'
  <2>1. \A u \in DOMAIN m_conns :
           /\ m_conns[u].authed <=> m_conns[u].playerNetId # 0
           /\ m_conns[u].playerNetId # 0 =>
                 /\ m_conns[u].playerNetId \in bases
                 /\ baseAccount[m_conns[u].playerNetId] = m_conns[u].accountId
                 /\ \A v \in DOMAIN m_conns : m_conns[v].playerNetId = m_conns[u].playerNetId => v = u
    BY DEF HostIInv, HostInv, SessionOwnsLiveBase
  <2>2. \A u \in DOMAIN m_conns : m_conns[u].playerNetId # netId
    BY <1>7, <1>14, <2>1
  <2>3. /\ baseAccount'[netId] = acc
        /\ \A n \in bases : n \in bases' /\ baseAccount'[n] = baseAccount[n]
        /\ netId \in bases'
    BY <1>5, <1>6, <1>7, <1>14 DEF TypeOK
  <2> SUFFICES ASSUME NEW u \in DOMAIN m_conns'
               PROVE  /\ m_conns'[u].authed <=> m_conns'[u].playerNetId # 0
                      /\ m_conns'[u].playerNetId # 0 =>
                           /\ m_conns'[u].playerNetId \in bases'
                           /\ baseAccount'[m_conns'[u].playerNetId] = m_conns'[u].accountId
                           /\ \A v \in DOMAIN m_conns' :
                                 m_conns'[v].playerNetId = m_conns'[u].playerNetId => v = u
    BY DEF SessionOwnsLiveBase
  <2>4. CASE u = t
    BY <1>7, <1>9, <1>10, <2>2, <2>3, <2>4
  <2>5. CASE u # t
    BY <1>9, <1>10, <2>1, <2>2, <2>3, <2>5
  <2> QED
    BY <2>4, <2>5
<1>16. \A c \in commanded : c[2] \in NetIds \cup {0} /\ c[2] \in Nat /\ c[2] < netId
  BY <1>2, <1>6 DEF TypeOK, CountersAhead, NetIds
<1>17. CommandsOwnBase'
  <2> SUFFICES ASSUME NEW c \in commanded PROVE c[2] # 0 /\ baseAccount'[c[2]] = c[1]
    BY <1>5 DEF CommandsOwnBase
  <2>1. c[2] # 0 /\ baseAccount[c[2]] = c[1]
    BY DEF HostIInv, HostInv, CommandsOwnBase
  <2>2. c[2] \in NetIds /\ c[2] # netId
    BY <1>7, <1>16, <2>1
  <2> QED
    BY <1>5, <1>6, <2>1, <2>2 DEF TypeOK
<1>18. CountersAhead'
  <2>1. \A n \in bases' : n < m_nextNetId'
    <3>1. \A n \in bases : n \in Nat /\ n < netId
      BY <1>2, <1>6 DEF TypeOK, CountersAhead, NetIds
    <3> QED
      BY <1>5, <1>7, <3>1
  <2>2. \A n \in NetIds : n >= m_nextNetId' => baseAccount'[n] = 0
    <3> SUFFICES ASSUME NEW n \in NetIds, n >= m_nextNetId' PROVE baseAccount'[n] = 0
      OBVIOUS
    <3>1. n \in Nat /\ n >= m_nextNetId /\ n # netId
      BY <1>2, <1>7 DEF NetIds
    <3> QED
      BY <1>5, <1>6, <3>1 DEF TypeOK, CountersAhead
  <2>3. \A c \in commanded' : c[2] < m_nextNetId'
    BY <1>5, <1>7, <1>16
  <2>4. /\ \A u \in DOMAIN m_conns' : u <= m_tokenCounter'
        /\ \A h \in issued' : h.token <= m_tokenCounter'
    BY <1>5, <1>6, <1>10, <1>11 DEF CountersAhead
  <2> QED
    BY <2>1, <2>2, <2>3, <2>4 DEF CountersAhead
<1> QED
  BY <1>11, <1>12, <1>13, <1>15, <1>17, <1>18 DEF HostIInv, HostInv

-----------------------------------------------------------------------------
(* In every reachable state of the host, for any peers, accounts and       *)
(* order of handshakes, logins, kicks, disconnects and pruning: routing by *)
(* address and by token is exact, an account has one session, a session a  *)
(* live base of its own, and commands reach no other base (HostInv), and   *)
(* the counters are ahead of every name in use.                            *)
THEOREM HostInvariant == Spec => []HostIInv
<1>1. Init => HostIInv
  <2> SUFFICES ASSUME Init PROVE HostIInv
    OBVIOUS
  <2>1. TableInv
    <3>1. \A S : << >> \in Seq(S)
      OBVIOUS
    <3>2. TableTypeOK
      BY <3>1 DEF Init, TableInit, TableTypeOK
    <3>3. SlotsAccounted /\ IssuedBehindSlots
      BY DEF Init, TableInit, SlotsAccounted, IssuedBehindSlots
    <3> QED
      BY <3>2, <3>3 DEF TableInv
  <2>2. TypeOK
    BY <2>1, HostAssumption DEF Init, TypeOK, TableInv
  <2>3. /\ RoutesExact /\ SlotsMatchConns /\ OneSessionPerAccount /\ SessionOwnsLiveBase
        /\ CommandsOwnBase /\ HandlesIssued
    BY DEF Init, TableInit, RoutesExact, SlotsMatchConns, OneSessionPerAccount,
           SessionOwnsLiveBase, CommandsOwnBase, HandlesIssued
  <2>4. CountersAhead
    BY DEF Init, TableInit, CountersAhead
  <2> QED
    BY <2>1, <2>2, <2>3, <2>4 DEF HostIInv, HostInv
<1>2. HostIInv /\ [Next]_vars => HostIInv'
  <2> SUFFICES ASSUME HostIInv, [Next]_vars PROVE HostIInv'
    OBVIOUS
  <2>1. \A t \in DOMAIN m_conns : m_conns[t] \in ConnEntry
    BY DEF HostIInv, TypeOK
  <2>2. ASSUME NEW t \in DOMAIN m_conns, EndConn(t) PROVE HostIInv'
    <3>1. {t} \in SUBSET DOMAIN m_conns /\ RemoveConnections({t})
      BY <2>2 DEF EndConn
    <3> QED
      BY <3>1, RemoveKeepsInv
  <2>3. ASSUME NEW t \in DOMAIN m_conns, UpdateConn(t, m_conns[t]) PROVE HostIInv'
    <3>1. PICK entry \in ConnEntry : entry = m_conns[t]
      BY <2>1
    <3>2. UpdateConn(t, entry)
      BY <2>3, <3>1
    <3> QED
      BY <3>1, <3>2, UpdateKeepsInv
  <2>4. ASSUME NEW from \in Endpoints, NEW keysAgree \in BOOLEAN, OnCookieResponse(from, keysAgree)
        PROVE  HostIInv'
    BY <2>4, CookieKeepsInv
  <2>5. ASSUME NEW from \in Endpoints, NEW type \in ClearTypes, OnClearDatagram(from, type)
        PROVE  HostIInv'
    <3>1. PICK t : t = m_addrToToken[from]
      OBVIOUS
    <3>2. PICK e : e = m_conns[t]
      OBVIOUS
    <3>3. /\ t \in DOMAIN m_conns
          /\ \/ EndConn(t)
             \/ UpdateConn(t, [e EXCEPT !.channel = TRUE, !.state = "Authenticating"])
             \/ UpdateConn(t, e)
      BY <2>5, <3>1, <3>2 DEF OnClearDatagram
    <3>4. CASE UpdateConn(t, [e EXCEPT !.channel = TRUE, !.state = "Authenticating"])
      <4>1. PICK entry : entry = [e EXCEPT !.channel = TRUE, !.state = "Authenticating"]
        OBVIOUS
      <4>2. /\ entry \in ConnEntry
            /\ entry.endpoint = m_conns[t].endpoint
            /\ entry.handle = m_conns[t].handle
            /\ entry.authed = m_conns[t].authed
            /\ entry.accountId = m_conns[t].accountId
            /\ entry.playerNetId = m_conns[t].playerNetId
        BY <2>1, <3>2, <3>3, <4>1 DEF ConnEntry, ConnState
      <4>3. UpdateConn(t, entry)
        BY <3>4, <4>1
      <4> QED
        BY <3>3, <4>2, <4>3, UpdateKeepsInv
    <3> QED
      BY <2>2, <2>3, <3>2, <3>3, <3>4
  <2>6. ASSUME NEW t \in Tokens, OnKeepalive(t) PROVE HostIInv'
    BY <2>2, <2>3, <2>6 DEF OnKeepalive, Routed
  <2>7. ASSUME NEW t \in Tokens, OnDisconnect(t) PROVE HostIInv'
    BY <2>2, <2>7 DEF OnDisconnect, Routed
  <2>8. ASSUME NEW t \in Tokens, OnLoginRequest(t) PROVE HostIInv'
    <3>1. PICK entry : entry = [m_conns[t] EXCEPT !.state = "Connected"]
      OBVIOUS
    <3>2. t \in DOMAIN m_conns /\ UpdateConn(t, entry)
      BY <2>8, <3>1 DEF OnLoginRequest, Routed
    <3>3. /\ entry \in ConnEntry
          /\ entry.endpoint = m_conns[t].endpoint
          /\ entry.handle = m_conns[t].handle
          /\ entry.authed = m_conns[t].authed
          /\ entry.accountId = m_conns[t].accountId
          /\ entry.playerNetId = m_conns[t].playerNetId
      BY <2>1, <3>1, <3>2 DEF ConnEntry, ConnState
    <3> QED
      BY <3>2, <3>3, UpdateKeepsInv
  <2>9. ASSUME NEW t \in Tokens, OnFleetCommand(t) PROVE HostIInv'
    <3>1. /\ t \in DOMAIN m_conns
          /\ commanded' = IF m_conns[t].authed
                          THEN commanded \cup {<< m_conns[t].accountId, m_conns[t].playerNetId >>}
                          ELSE commanded
          /\ idle' = idle \ {t}
          /\ UNCHANGED << slotCount, m_slots, m_free, m_byToken, issued >>
          /\ UNCHANGED << m_devAuthStub, m_conns, m_addrToToken, m_tokenCounter, bases,
                          m_nextNetId, seeded, baseAccount >>
      BY <2>9 DEF OnFleetCommand, Routed, Touched, tableVars
    <3>2. PICK a, n : a = m_conns[t].accountId /\ n = m_conns[t].playerNetId
      OBVIOUS
    <3>3. /\ a \in Accounts \cup {0} /\ n \in NetIds \cup {0}
          /\ m_conns[t].authed => n # 0 /\ n \in bases /\ baseAccount[n] = a
      BY <2>1, <3>1, <3>2 DEF HostIInv, HostInv, SessionOwnsLiveBase, ConnEntry
    <3>4. \A c \in commanded' : c \in commanded \/ (c = << a, n >> /\ m_conns[t].authed)
      BY <3>1, <3>2
    <3>5. TypeOK'
      BY <3>1, <3>3, <3>4 DEF HostIInv, TypeOK, TableTypeOK
    <3>6. TableInv'
      BY <3>1 DEF HostIInv, HostInv, TableInv, TableTypeOK, SlotsAccounted, IssuedBehindSlots
    <3>7. /\ RoutesExact' /\ SlotsMatchConns' /\ OneSessionPerAccount' /\ SessionOwnsLiveBase'
          /\ HandlesIssued'
      BY <3>1 DEF HostIInv, HostInv, RoutesExact, SlotsMatchConns, Validate, OneSessionPerAccount,
                  SessionOwnsLiveBase, HandlesIssued
    <3>8. CommandsOwnBase'
      BY <3>1, <3>3, <3>4 DEF HostIInv, HostInv, CommandsOwnBase
    <3>9. CountersAhead'
      BY <3>1, <3>3, <3>4 DEF HostIInv, CountersAhead
    <3> QED
      BY <3>5, <3>6, <3>7, <3>8, <3>9 DEF HostIInv, HostInv
  <2>10. ASSUME NEW t \in Tokens, OnAuthFailure(t) PROVE HostIInv'
    BY <2>3, <2>10 DEF OnAuthFailure, Routed
  <2>11. ASSUME /\ UNCHANGED << slotCount, m_slots, m_free, m_byToken, issued >>
                /\ UNCHANGED << m_devAuthStub, m_conns, m_addrToToken, m_tokenCounter, bases,
                                m_nextNetId, seeded, baseAccount, commanded >>
                /\ idle' \subseteq Tokens
         PROVE  HostIInv'
    BY <2>11 DEF HostIInv, HostInv, TypeOK, TableInv, TableTypeOK, SlotsAccounted,
                 IssuedBehindSlots, RoutesExact, SlotsMatchConns, Validate, OneSessionPerAccount,
                 SessionOwnsLiveBase, CommandsOwnBase, CountersAhead, HandlesIssued
  <2>12. ASSUME NEW t \in Tokens, GoIdle(t) PROVE HostIInv'
    BY <2>11, <2>12 DEF GoIdle, tableVars, HostIInv, TypeOK
  <2>13. CASE PruneStale
    <3>1. Stale \in SUBSET DOMAIN m_conns /\ RemoveConnections(Stale)
      BY <2>13 DEF PruneStale, Stale
    <3>2. PICK ts \in SUBSET DOMAIN m_conns : RemoveConnections(ts)
      BY <3>1
    <3> QED
      BY <3>2, RemoveKeepsInv
  <2>14. ASSUME NEW t \in Tokens, NEW acc \in Accounts, OnAuthSuccess(t, acc)
         PROVE  HostIInv'
    BY <2>14, AuthKeepsInv
  <2>15. CASE UNCHANGED vars
    BY <2>11, <2>15 DEF vars, tableVars, hostVars, HostIInv, TypeOK
  <2> QED
    BY <2>4, <2>5, <2>6, <2>7, <2>8, <2>9, <2>10, <2>12, <2>13, <2>14, <2>15 DEF Next
<1> QED
  BY <1>1, <1>2, PTL DEF Spec

(* HostInv, the invariant the runs check, for every value of the bounds    *)
(* (OnDatagram, OnAuthMessage, RemoveConnection, PruneStale).              *)
THEOREM HostCorrect == Spec => []HostInv
<1>1. HostIInv => HostInv
  BY DEF HostIInv
<1> QED
  BY <1>1, HostInvariant, PTL

(* In the host, which opens and closes slots as datagrams, logins and its  *)
(* idle sweep demand (ConnectionTable::Validate): no handle reaches a      *)
(* connection other than the one it was issued for.                        *)
THEOREM HostHandlesNeverStale == Spec => []HandlesNeverStale
<1>1. HostInv => TableInv
  BY DEF HostInv
<1> QED
  BY <1>1, HostCorrect, InvRulesOutStaleHandles, PTL
-----------------------------------------------------------------------------
(***************************************************************************)
(* The session beside the host                                             *)
(***************************************************************************)
(* Every step of the connections is a step of the session or leaves it     *)
(* alone, so module SessionProofs' inductive invariant is theirs.          *)
LEMMA PeerInitHasInv == ConnectionsInit => Peer!SessionIInv
<1> SUFFICES ASSUME ConnectionsInit PROVE Peer!SessionIInv
  OBVIOUS
<1>1. Peer!SessionAssumption
  BY PeerAssumption
<1>2. Peer!Init
  BY DEF ConnectionsInit
<1> QED
  BY <1>1, <1>2, Peer!InitHasInv

LEMMA PeerNextKeepsInv == Peer!SessionIInv /\ [ConnectionsNext]_allVars => Peer!SessionIInv'
<1> SUFFICES ASSUME Peer!SessionIInv, [ConnectionsNext]_allVars PROVE Peer!SessionIInv'
  OBVIOUS
<1>1. Peer!SessionAssumption
  BY PeerAssumption
<1>2. peerVars' = peerVars => UNCHANGED Peer!vars
  BY DEF peerVars, Peer!vars, Peer!clientVars, Peer!serverVars, Peer!netVars
<1>3. [Peer!Next]_(Peer!vars)
  BY <1>2 DEF ConnectionsNext, HostNext, SessionNext, allVars
<1> QED
  BY <1>1, <1>3, Peer!NextKeepsInv

(* A client that SessionImpl reports connected is logged in at the server  *)
(* entry of its token under the same keys, lost, repeated and reordered    *)
(* datagrams and late answers included (module SessionProofs), in every    *)
(* behaviour of the connections.                                           *)
THEOREM ConnectionsAgree == ConnectionsSpec => []SessionAgrees
<1>1. ConnectionsInit => Peer!SessionIInv
  BY PeerInitHasInv
<1>2. Peer!SessionIInv /\ [ConnectionsNext]_allVars => Peer!SessionIInv'
  BY PeerNextKeepsInv
<1>3. Peer!SessionIInv => SessionAgrees
  BY Peer!InvGivesAgreement DEF SessionAgrees
<1> QED
  BY <1>1, <1>2, <1>3, PTL DEF ConnectionsSpec
=============================================================================
