----------------------------- MODULE Scheduler -----------------------------
(* The order in which a client is sent what it lacks (SnapshotScheduler.h,  *)
(* ServerUniverse::BuildClientSnapshot and RecordClientSnapshotSent): every *)
(* tick the entities with a change the client has not acknowledged are      *)
(* ranked, and the first few that the cap and the budget leave room for     *)
(* are sent.  Replication takes any order; this module keeps the order and  *)
(* leaves the contents out.  What an entity is to the client and how far    *)
(* away is one number.                                                      *)
EXTENDS Integers, FiniteSetsExt, Functions

CONSTANTS
    Relevance,  \* net id -> relation, kind, target and distance as one weight
    STALE,      \* ticks after which staleness doubles a priority, 1 / stalenessPerTick
    ROOM,       \* records of a snapshot: the visible cap or what the budget holds
    MAX_AGE     \* bound: staleness counts no further

VARIABLES
    lastSent,   \* net id -> ticks since the client was sent it, or NEVER
    lacked,     \* net ids with a change the client has not acknowledged
    passedOver  \* history: net id -> ticks it was lacked, known and not sent

schedVars == << lastSent, lacked, passedOver >>

Ids == DOMAIN Relevance
NEVER == -1

\* An entity the client was never sent has no staleness at all.
Staleness(n) == IF lastSent[n] = NEVER THEN 0 ELSE lastSent[n] + 1

\* Mutant: relevance alone decides.
PriorityWithoutAge(n) == Relevance[n] * STALE

SnapshotPriority(n) == Relevance[n] * (STALE + Staleness(n))

\* The deterministic order: by priority, ties by net id.
Ahead(a, b) ==
    \/ SnapshotPriority(a) > SnapshotPriority(b)
    \/ SnapshotPriority(a) = SnapshotPriority(b) /\ a < b

\* The first ROOM of the order.
ScheduleClient(cands) == { n \in cands : Cardinality({ m \in cands : Ahead(m, n) }) < ROOM }

SchedInit ==
    lastSent = [n \in Ids |-> NEVER] /\ lacked = {} /\ passedOver = [n \in Ids |-> 0]

\* A tick: some entities change, the snapshot is built and recorded as sent,
\* and is acknowledged or lost.
BuildClientSnapshot(changed, arrives) ==
    LET cands == lacked \cup changed
        sent == ScheduleClient(cands)
    IN  /\ lastSent' = [n \in Ids |-> IF n \in sent THEN 0
                                      ELSE IF lastSent[n] = NEVER THEN NEVER
                                      ELSE Min({lastSent[n] + 1, MAX_AGE})]
        /\ lacked' = IF arrives THEN cands \ sent ELSE cands
        /\ passedOver' = [n \in Ids |-> IF n \in cands \ sent /\ lastSent[n] # NEVER
                                        THEN Min({passedOver[n] + 1, MAX_AGE}) ELSE 0]

SchedNext == \E changed \in SUBSET Ids, arrives \in BOOLEAN : BuildClientSnapshot(changed, arrives)

\* Once its priority is above that of all sent within as many ticks as there
\* are entities, each of the others can pass an entity only once.
Patience(n) ==
    (Max(Range(Relevance)) * (STALE + Cardinality(Ids))) \div Relevance[n] + Cardinality(Ids) - STALE

(* An entity the client knows and lacks an update of is sent again within  *)
(* a bounded time, however much of more weight keeps changing and whatever *)
(* is lost (SnapshotScheduler.h "its staleness grows, so it rises next     *)
(* tick and is never starved").  What was never sent does not rise.        *)
KnownNotStarved == \A n \in Ids : passedOver[n] <= Patience(n)
=============================================================================
