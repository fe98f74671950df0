--------------------------- MODULE ConnectionTable ---------------------------
(***************************************************************************)
(* NeuronCore/ConnectionTable.h: the generation-tagged slot table that     *)
(* routes a datagram by its connection token.  Open reuses a freed slot    *)
(* (last freed first) or grows the array; Close frees the slot and bumps   *)
(* its generation, so that handles issued before are rejected.             *)
(*                                                                         *)
(* issued is a history variable: every handle the table has handed out,    *)
(* with the token it was handed out for.                                   *)
(***************************************************************************)
EXTENDS Integers, SequencesExt

CONSTANTS Tokens,           \* connection tokens
          MAX_GENERATION    \* bound: closes of one slot (2^32 - 1 in the code)

ASSUME TableAssumption == Tokens \subseteq Nat \ {0} /\ MAX_GENERATION \in Nat

NoToken == 0                \* what a free slot carries

VARIABLES slotCount,        \* m_slots.size()
          m_slots,          \* [0 .. slotCount-1 -> slot]
          m_free,           \* recycled slot indices, used as a stack
          m_byToken,        \* token -> slot index
          issued

tableVars == << slotCount, m_slots, m_free, m_byToken, issued >>

Slot == [token : Tokens \cup {NoToken}, generation : Nat, active : BOOLEAN]
Handle == [token : Tokens, index : Nat, generation : Nat]

TableTypeOK ==
    /\ slotCount \in Nat
    /\ m_slots \in [0 .. (slotCount - 1) -> Slot]
    /\ m_free \in Seq(0 .. (slotCount - 1))
    /\ DOMAIN m_byToken \subseteq Tokens
    /\ m_byToken \in [DOMAIN m_byToken -> 0 .. (slotCount - 1)]
    /\ issued \subseteq Handle

TableInit ==
    /\ slotCount = 0
    /\ m_slots = [i \in {} |-> 0]
    /\ m_free = << >>
    /\ m_byToken = [t \in {} |-> 0]
    /\ issued = {}

\* ConnHandle HandleFor(idx), for the token it is issued to.
HandleFor(t, index, slots) == [token |-> t, index |-> index, generation |-> slots[index].generation]

\* Mutant: the generation is not compared.
ValidateIgnoringGeneration(h) == h.index < slotCount /\ m_slots[h.index].active

\* bool Validate(const ConnHandle&)
Validate(h) ==
    /\ h.index < slotCount
    /\ m_slots[h.index].active
    /\ m_slots[h.index].generation = h.generation

-----------------------------------------------------------------------------
\* The token is known: its slot's handle is returned again.
OpenExisting(t) ==
    /\ t \in DOMAIN m_byToken
    /\ issued' = issued \cup {HandleFor(t, m_byToken[t], m_slots)}
    /\ UNCHANGED << slotCount, m_slots, m_free, m_byToken >>

\* The slot taken by a new token: the last one freed, or a new one.
NewIndex == IF m_free # << >> THEN m_free[Len(m_free)] ELSE slotCount

OpenNew(t) ==
    LET index == NewIndex
        generation == IF m_free # << >> THEN m_slots[index].generation ELSE 0
    IN  /\ t \notin DOMAIN m_byToken
        /\ slotCount' = IF m_free # << >> THEN slotCount ELSE slotCount + 1
        /\ m_free' = IF m_free # << >> THEN SubSeq(m_free, 1, Len(m_free) - 1) ELSE m_free
        /\ m_slots' = [i \in 0 .. (slotCount' - 1) |->
                         IF i = index
                         THEN [token |-> t, generation |-> generation, active |-> TRUE]
                         ELSE m_slots[i]]
        /\ m_byToken' = [u \in DOMAIN m_byToken \cup {t} |->
                           IF u = t THEN index ELSE m_byToken[u]]
        /\ issued' = issued \cup {[token |-> t, index |-> index, generation |-> generation]}

\* ConnHandle Open(uint64_t token)
TableOpen(t) == OpenExisting(t) \/ OpenNew(t)

ClosedSlot(s) == [token |-> NoToken, generation |-> s.generation + 1, active |-> FALSE]

\* void Close(uint64_t token), for each of a set of open tokens.  The host
\* collects the set from an unordered map, so the order is any.
TableClose(ts) ==
    LET indices == { m_byToken[t] : t \in ts }
    IN  \E order \in SetToSeqs(indices) :
          /\ ToSet(order) = indices
          /\ m_slots' = [i \in DOMAIN m_slots |->
                            IF i \in indices THEN ClosedSlot(m_slots[i]) ELSE m_slots[i]]
          /\ m_free' = m_free \o order
          /\ m_byToken' = [u \in DOMAIN m_byToken \ ts |-> m_byToken[u]]
          /\ UNCHANGED << slotCount, issued >>

TableNext ==
    \/ \E t \in Tokens : TableOpen(t)
    \/ \E t \in DOMAIN m_byToken :
          m_slots[m_byToken[t]].generation < MAX_GENERATION /\ TableClose({t})

TableSpec == TableInit /\ [][TableNext]_tableVars

-----------------------------------------------------------------------------
(* A handle that validates belongs to the connection it was issued for: a  *)
(* handle kept across Close, or across the reuse of its slot by another    *)
(* token, never reaches the new connection's state.                        *)
HandlesNeverStale ==
    \A h \in issued :
        Validate(h) => m_slots[h.index].token = h.token /\ h.token \in DOMAIN m_byToken

(* Slots and tokens are in one-to-one correspondence and no slot leaks:    *)
(* each slot is either owned by exactly one token or exactly once on the   *)
(* free list.                                                              *)
SlotsAccounted ==
    /\ \A t \in DOMAIN m_byToken :
          m_slots[m_byToken[t]].active /\ m_slots[m_byToken[t]].token = t
    /\ \A i \in 0 .. (slotCount - 1) :
          IF m_slots[i].active
          THEN m_slots[i].token \in DOMAIN m_byToken /\ m_byToken[m_slots[i].token] = i
          ELSE i \in ToSet(m_free)
    /\ \A j, k \in 1 .. Len(m_free) :
          ~m_slots[m_free[j]].active /\ (m_free[j] = m_free[k] => j = k)

(* Generations only grow past the handles issued: a handle is either of    *)
(* an earlier generation of its slot or of its present tenant.             *)
IssuedBehindSlots ==
    \A h \in issued :
        /\ h.index < slotCount
        /\ \/ h.generation < m_slots[h.index].generation
           \/ /\ h.generation = m_slots[h.index].generation
              /\ m_slots[h.index].active
              /\ m_slots[h.index].token = h.token

TableInv == TableTypeOK /\ SlotsAccounted /\ IssuedBehindSlots
=============================================================================
