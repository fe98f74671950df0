---------------------------- MODULE EconomyEvents ----------------------------
(***************************************************************************)
(* NeuronCore/EconomyOutbox.h: how a combat-economy event of the sim       *)
(* becomes an outbox record, and in particular how its idempotency key is  *)
(* made.  The key is the splitmix64 finaliser of a 64-bit word built from  *)
(* (domain, netId, tick).  The finaliser is a bijection of 64-bit words    *)
(* (odd multiplications and xor-shifts), so two keys are equal exactly     *)
(* when those words are, and the word stands for the key here: the domain  *)
(* part (an odd constant times 1..4, which differs above bit 53, where     *)
(* netId << 21 does not reach) and the xor of the other two.               *)
(***************************************************************************)
EXTENDS Integers, FiniteSets

CONSTANTS NetIds,       \* net ids of the entities events are about
          Ticks,        \* sim ticks at which events happen
          Values,       \* gross values
          MAX_EVENTS    \* bound on the events of one behaviour

VARIABLES tick, emitted

vars == << tick, emitted >>

EconEventCode == {"LootDrop", "LootClaim", "Killmail", "CargoLost"}
EconEvents == [type : EconEventCode, aNetId : NetIds, value : Values, tick : Ticks]

Domain(type) ==
    CASE type = "LootDrop" -> 1 [] type = "LootClaim" -> 2
      [] type = "Killmail" -> 3 [] type = "CargoLost" -> 4

NET_ID_SHIFT == 21

\* A word as the set of the positions of its ones (those of ids and ticks below
\* 2^31); the xor of two words is then the positions only one of them has.
Ones(word) == { i \in 0 .. 30 : (word \div 2^i) % 2 = 1 }
Xor(v, w) == (v \ w) \cup (w \ v)

\* Mutant: the key leaves out the tick.
OutboxIdemKeyWithoutTick(domain, netId, t) == << domain, netId >>

OutboxIdemKey(domain, netId, t) ==
    << domain, Xor({ i + NET_ID_SHIFT : i \in Ones(netId) }, Ones(t)) >>

\* The fields of the record the store tells apart: which wallet delta, which
\* key, which (RefType, RefId) pair.
MapEconEvent(e) ==
    [ kind    |-> e.type,
      idemKey |-> OutboxIdemKey(Domain(e.type), e.aNetId, e.tick),
      amount  |-> CASE e.type = "LootDrop"  -> 0
                    [] e.type = "CargoLost" -> 0 - e.value
                    [] OTHER                -> e.value,
      refType |-> CASE e.type \in {"LootDrop", "LootClaim"} -> "Loot"
                    [] e.type = "Killmail" -> "Kill"
                    [] e.type = "CargoLost" -> "Cargo",
      refId   |-> e.aNetId ]

Init == tick \in Ticks /\ emitted = {}

\* The sim steps on (over the ticks in which nothing happens, too).
Step == \E t \in Ticks : t > tick /\ tick' = t /\ UNCHANGED emitted

\* An event of the current tick.  An entity has one event of a kind per tick;
\* net ids may be used again at a later tick.
Emit(e) ==
    /\ Cardinality(emitted) < MAX_EVENTS
    /\ e.tick = tick
    /\ \A f \in emitted : << f.type, f.aNetId, f.tick >> # << e.type, e.aNetId, e.tick >>
    /\ emitted' = emitted \cup {e}
    /\ UNCHANGED tick

Next == Step \/ \E e \in EconEvents : Emit(e)

Spec == Init /\ [][Next]_vars

-----------------------------------------------------------------------------
(* Two different events never share an idempotency key: the store drops    *)
(* the second event of a key as already applied, so this is what keeps a   *)
(* loot claim or a bounty from vanishing (EconomyOutbox.h: "a stable,      *)
(* unique idempotency key per event").                                     *)
UniqueIdemKey ==
    \A e, f \in emitted :
        MapEconEvent(e).idemKey = MapEconEvent(f).idemKey => e = f
=============================================================================
