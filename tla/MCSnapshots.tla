---------------------------- MODULE MCSnapshots -----------------------------
(***************************************************************************)
(* What a client's snapshots hold (Replication) and in which order their   *)
(* records go out (Scheduler), side by side: a behaviour is one of the     *)
(* part it chose, and the variables of the other stay as they are.         *)
(***************************************************************************)
EXTENDS Replication

(* The client's base moves between two sectors, a ship takes damage, and  *)
(* the base's moves take it out of sight.                                *)
At(sec, hp) == [sec |-> sec, q |-> 1, hp |-> hp, look |-> "hull"]

\* Net id 1 is the base, 2 the ship.
MCForms == [n \in NetIds |->
               IF n = Base THEN {At(0, 1), At(1, 1)}
                           ELSE {At(0, 1), At(0, 2)}]

CONSTANTS Relevance, STALE, ROOM, MAX_AGE

VARIABLES part, lastSent, lacked, passedOver

(* Every entity counts for something, and staleness for something; a cap  *)
(* of zero is no cap, so a snapshot always has room for a record.         *)
ASSUME SchedulerAssumption ==
    /\ IsFiniteSet(DOMAIN Relevance) /\ DOMAIN Relevance \subseteq Nat
    /\ Relevance \in [DOMAIN Relevance -> Nat \ {0}]
    /\ STALE \in Nat \ {0} /\ ROOM \in Nat \ {0} /\ MAX_AGE \in Nat

Sched == INSTANCE Scheduler

\* Three entities that count for less and less.
MCRelevance == [n \in 1 .. 3 |-> 4 - n]

schedVars == <<lastSent, lacked, passedOver>>
partVars == <<part, vars, schedVars>>
AnyBudget == CHOOSE b \in BUDGETS : TRUE

PartsInit ==
    /\ part \in {"replication", "order"}
    /\ Init /\ Sched!SchedInit
    /\ part = "order" => byteBudget = AnyBudget /\ world = [n \in {Base} |-> At(0, 1)]

PartsNext ==
    \/ part = "replication" /\ Next /\ UNCHANGED <<part, schedVars>>
    \/ part = "order" /\ Sched!SchedNext /\ UNCHANGED <<part, vars>>

PartsSpec == PartsInit /\ [][PartsNext]_partVars

(* What the client knows is not starved (module Scheduler).                *)
KnownNotStarved == part = "order" => Sched!KnownNotStarved
=============================================================================
