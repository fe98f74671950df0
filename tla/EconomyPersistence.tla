-------------------------- MODULE EconomyPersistence --------------------------
(***************************************************************************)
(* The write-through economy path: the host loop pushes mutations to       *)
(* MpscZeroLossQueue (PersistQueue.h), the persistence thread drains it    *)
(* (PersistenceThread.cpp) and commits each mutation as one transaction    *)
(* over EconomyOutbox, Wallets and CurrencyLedger (EconomyStore.cpp).      *)
(*                                                                         *)
(* Two threads interleave: "main" (the host loop, and Stop at shutdown)    *)
(* and the worker.  The database fails at any statement, and Commit may    *)
(* report failure after the transaction was in fact committed (the         *)
(* connection broke before the answer).  The process may crash between     *)
(* any two steps; the database survives, the queue does not.               *)
(*                                                                         *)
(* A mutation is a record [idemKey, accountId, amount, ref]; ref stands    *)
(* for the pair (RefType, RefId) under UX_CurrencyLedger_Ref.  The rows a  *)
(* transaction writes to EconomyOutbox and CurrencyLedger are one entry of *)
(* ledger, whose position is the OutboxId.                                 *)
(***************************************************************************)
EXTENDS Integers, SequencesExt

CONSTANTS Accounts,      \* accounts whose Register created a wallet row
          Mutations,     \* what the sim and the host may enqueue
          MAX_ENQUEUE,   \* bound on EnqueueEconomy calls
          MAX_CRASHES    \* bound on crashes

ASSUME EconomyAssumption ==
    /\ \A m \in Mutations :
          /\ m = [ idemKey |-> m.idemKey, accountId |-> m.accountId,
                   amount |-> m.amount, ref |-> m.ref ]
          /\ m.amount \in Int
    /\ MAX_ENQUEUE \in Nat
    /\ MAX_CRASHES \in Nat

VARIABLES m_econQueue,  \* the zero-loss queue
          batch,        \* DrainEconomyOnce's local batch, what is left of it
          mainPc,       \* host process: "up", "joining", "final", "stopped", "down"
          workerPc,     \* worker: "top", "drain", "commit", "exited"
          m_stop,
          ledger,       \* committed rows, in OutboxId order
          wallet,       \* Wallets.Balance
          requested,    \* history: the EnqueueEconomy calls, in order
          lost,         \* history: mutations dropped by a crash or at exit
          crashes

queueVars == << m_econQueue, batch >>
dbVars == << ledger, wallet >>
historyVars == << requested, lost, crashes >>
vars == << m_econQueue, batch, mainPc, workerPc, m_stop, ledger, wallet,
           requested, lost, crashes >>

LedgerRow == [ idemKey : { m.idemKey : m \in Mutations }, accountId : Accounts,
               delta : Int, balanceAfter : Nat, mutation : Mutations ]

TypeOK ==
    /\ m_econQueue \in Seq(Mutations)
    /\ batch \in Seq(Mutations)
    /\ mainPc \in {"up", "joining", "final", "stopped", "down"}
    /\ workerPc \in {"top", "drain", "commit", "exited"}
    /\ m_stop \in BOOLEAN
    /\ ledger \in Seq(LedgerRow)
    /\ wallet \in [Accounts -> Nat]
    /\ requested \in Seq(Mutations)
    /\ lost \subseteq Mutations
    /\ crashes \in Nat

Init ==
    /\ m_econQueue = << >>
    /\ batch = << >>
    /\ mainPc = "up"
    /\ workerPc = "top"
    /\ m_stop = FALSE
    /\ ledger = << >>
    /\ wallet = [a \in Accounts |-> 0]
    /\ requested = << >>
    /\ lost = {}
    /\ crashes = 0

-----------------------------------------------------------------------------
(* The host loop. *)

\* size_t EnqueueEconomy(const EconomyMutation&)
EnqueueEconomy(m) ==
    /\ mainPc = "up"
    /\ Len(requested) < MAX_ENQUEUE
    /\ m_econQueue' = Append(m_econQueue, m)
    /\ requested' = Append(requested, m)
    /\ UNCHANGED << batch, mainPc, workerPc, m_stop, dbVars, lost, crashes >>

-----------------------------------------------------------------------------
(* The worker: ThreadMain's loop around DrainEconomyOnce. *)

LoopTop ==
    /\ mainPc \in {"up", "joining"}
    /\ workerPc = "top"
    /\ workerPc' = IF m_stop THEN "exited" ELSE "drain"
    /\ UNCHANGED << queueVars, mainPc, m_stop, dbVars, historyVars >>

\* DrainInto moves everything queued into the batch.
DrainInto ==
    /\ batch' = m_econQueue
    /\ m_econQueue' = << >>

DrainEconomyOnce ==
    /\ mainPc \in {"up", "joining"}
    /\ workerPc = "drain"
    /\ DrainInto
    /\ workerPc' = "commit"
    /\ UNCHANGED << mainPc, m_stop, dbVars, historyVars >>

\* The batch is done: flush and snapshot cadences, then round the loop.
BatchDone ==
    /\ mainPc \in {"up", "joining"}
    /\ workerPc = "commit"
    /\ batch = << >>
    /\ workerPc' = "top"
    /\ UNCHANGED << queueVars, mainPc, m_stop, dbVars, historyVars >>

-----------------------------------------------------------------------------
(* EconomyStore::AppendWriteThrough on the head of the batch, run by the   *)
(* worker or, in the final drain, by Stop.                                 *)

Committing == (mainPc \in {"up", "joining"} /\ workerPc = "commit") \/ mainPc = "final"

LedgerKeys == { ledger[i].idemKey : i \in 1 .. Len(ledger) }
LedgerRefs == { ledger[i].mutation.ref : i \in 1 .. Len(ledger) }

\* UX_EconomyOutbox_IdemKey: an event with this key is already committed.
DuplicateKey(m) == m.idemKey \in LedgerKeys

\* Mutant: no unique index on the idempotency key.
StatementsSucceedUnindexed(m) ==
    /\ m.accountId \in Accounts
    /\ wallet[m.accountId] + m.amount >= 0

\* The three statements succeed: the key is new, the wallet exists and
\* CK_Wallets_NonNeg holds, the (RefType, RefId) pair is new.
StatementsSucceed(m) ==
    /\ ~DuplicateKey(m)
    /\ m.accountId \in Accounts
    /\ wallet[m.accountId] + m.amount >= 0
    /\ m.ref \notin LedgerRefs

\* Mutant: the ledger row audits the balance before the change.
WriteRowsStaleBalance(m) ==
    /\ wallet' = [wallet EXCEPT ![m.accountId] = @ + m.amount]
    /\ ledger' = Append(ledger,
                    [ idemKey |-> m.idemKey, accountId |-> m.accountId, delta |-> m.amount,
                      balanceAfter |-> wallet[m.accountId], mutation |-> m ])

\* The transaction's effect.
WriteRows(m) ==
    /\ wallet' = [wallet EXCEPT ![m.accountId] = @ + m.amount]
    /\ ledger' = Append(ledger,
                    [ idemKey |-> m.idemKey, accountId |-> m.accountId, delta |-> m.amount,
                      balanceAfter |-> wallet[m.accountId] + m.amount, mutation |-> m ])

\* Mutant: a failed event is not put back.
RequeueForgotten(m) == UNCHANGED m_econQueue

\* A failed item goes to the back of the queue.
Requeue(m) == m_econQueue' = Append(m_econQueue, m)

AppendWriteThrough(m, committed) ==
    \/ /\ StatementsSucceed(m)          \* committed, and the caller knows it
       /\ committed
       /\ WriteRows(m)
    \/ /\ StatementsSucceed(m)          \* committed, but Commit reports failure
       /\ ~committed
       /\ WriteRows(m)
    \/ /\ DuplicateKey(m)               \* already applied: its OutboxId is returned
       /\ committed
       /\ UNCHANGED dbVars
    \/ /\ ~committed                    \* no lease, an error, a constraint: rolled back
       /\ UNCHANGED dbVars

\* One turn of DrainEconomyOnce's loop over the batch.
CommitOne(committed) ==
    /\ Committing
    /\ batch # << >>
    /\ AppendWriteThrough(Head(batch), committed)
    /\ batch' = Tail(batch)
    /\ IF committed THEN UNCHANGED m_econQueue ELSE Requeue(Head(batch))
    /\ UNCHANGED << mainPc, workerPc, m_stop, historyVars >>

-----------------------------------------------------------------------------
(* Shutdown (PersistenceThread::Stop), crash and restart. *)

StopRequested ==
    /\ mainPc = "up"
    /\ m_stop' = TRUE
    /\ mainPc' = "joining"
    /\ UNCHANGED << queueVars, workerPc, dbVars, historyVars >>

\* join returns; Stop drains once more on its own thread.
FinalDrain ==
    /\ mainPc = "joining"
    /\ workerPc = "exited"
    /\ mainPc' = "final"
    /\ DrainInto
    /\ UNCHANGED << workerPc, m_stop, dbVars, historyVars >>

\* m_pool.Shutdown(), and the process ends with whatever is still queued.
Shutdown ==
    /\ mainPc = "final"
    /\ batch = << >>
    /\ mainPc' = "stopped"
    /\ lost' = lost \cup ToSet(m_econQueue)
    /\ m_econQueue' = << >>
    /\ UNCHANGED << batch, workerPc, m_stop, dbVars, requested, crashes >>

Crash ==
    /\ mainPc \in {"up", "joining", "final"}
    /\ crashes < MAX_CRASHES
    /\ crashes' = crashes + 1
    /\ mainPc' = "down"
    /\ lost' = lost \cup ToSet(m_econQueue) \cup ToSet(batch)
    /\ m_econQueue' = << >>
    /\ batch' = << >>
    /\ UNCHANGED << workerPc, m_stop, dbVars, requested >>

Start ==
    /\ mainPc \in {"stopped", "down"}
    /\ mainPc' = "up"
    /\ workerPc' = "top"
    /\ m_stop' = FALSE
    /\ UNCHANGED << queueVars, dbVars, historyVars >>

Next ==
    \/ \E m \in Mutations : EnqueueEconomy(m)
    \/ LoopTop \/ DrainEconomyOnce \/ BatchDone
    \/ \E committed \in BOOLEAN : CommitOne(committed)
    \/ StopRequested \/ FinalDrain \/ Shutdown \/ Crash \/ Start

Spec == Init /\ [][Next]_vars

\* The worker is an operating-system thread and the database is not down for
\* good: an attempt that can succeed, and is made again and again, does.
WorkerStep == LoopTop \/ DrainEconomyOnce \/ BatchDone \/ \E committed \in BOOLEAN : CommitOne(committed)
Fairness ==
    /\ WF_vars(WorkerStep)
    /\ WF_vars(FinalDrain \/ Shutdown)
    /\ \A m \in Mutations :
          SF_vars(batch # << >> /\ Head(batch) = m /\ CommitOne(TRUE))

FairSpec == Spec /\ Fairness

-----------------------------------------------------------------------------
(* No idempotency key is credited twice: not when a failed commit had in   *)
(* fact gone through, not when a mutation is enqueued again after a crash. *)
ExactlyOnce ==
    \A i, j \in 1 .. Len(ledger) : ledger[i].idemKey = ledger[j].idemKey => i = j

(* Zero loss while the process lives: a mutation the host has enqueued is  *)
(* committed, or in the queue, or in the batch being committed, unless a   *)
(* crash or the end of the process dropped it.                             *)
NothingDropped ==
    \A m \in ToSet(requested) :
        \/ m.idemKey \in LedgerKeys
        \/ m \in ToSet(m_econQueue) \cup ToSet(batch)
        \/ m \in lost

(* The ledger is the audit trail of the wallets: no wallet is overdrawn,   *)
(* and the newest row of an account carries the account's balance.         *)
LedgerAudits ==
    \A a \in Accounts :
        /\ wallet[a] >= 0
        /\ \A i \in 1 .. Len(ledger) :
              (ledger[i].accountId = a /\ \A j \in i + 1 .. Len(ledger) : ledger[j].accountId # a)
                  => ledger[i].balanceAfter = wallet[a]

(* What is queued was requested, a committed row records the mutation it   *)
(* came from, and a batch is left over only while it is being committed    *)
(* (a drain that began over an unfinished batch would lose it).            *)
RowsAndQueueRequested ==
    /\ batch # << >> => Committing
    /\ ToSet(m_econQueue) \cup ToSet(batch) \subseteq ToSet(requested)
    /\ \A i \in 1 .. Len(ledger) :
          /\ ledger[i].mutation \in ToSet(requested)
          /\ ledger[i].idemKey = ledger[i].mutation.idemKey

(* The inductive invariant of the write-through path.                      *)
EconomyInv == TypeOK /\ ExactlyOnce /\ NothingDropped /\ LedgerAudits /\ RowsAndQueueRequested

(* Every credit enqueued is committed in the end, if the process lives on  *)
(* and the database is not down for good (a debit may never be covered).   *)
EventuallyCommitted ==
    \A m \in { c \in Mutations : c.amount >= 0 } :
        (m \in ToSet(requested)) ~> (m.idemKey \in LedgerKeys \/ m \in lost)

Abstract == INSTANCE EconomyLedger WITH
    requested <- ToSet(requested),
    applied <- { ledger[i].mutation : i \in 1 .. Len(ledger) },
    balance <- wallet

(* Queue, thread, transactions, failures, crashes and restarts together    *)
(* implement the abstract ledger.                                          *)
ImplementsLedger == Abstract!LedgerSpec
=============================================================================
