---------------------------- MODULE EconomyLedger ----------------------------
(***************************************************************************)
(* What the write-through economy path promises (EconomyStore.h, Outbox.h):*)
(* a mutation that has been enqueued is applied to its wallet at most once *)
(* per idempotency key, and a wallet is never overdrawn.  Nothing is said  *)
(* here of queues, threads, transactions, failures or crashes.             *)
(***************************************************************************)
EXTENDS Integers

CONSTANTS Accounts, Mutations

VARIABLES requested,   \* mutations enqueued so far
          applied,     \* mutations whose effect is in the wallets
          balance      \* [Accounts -> Nat]

ledgerVars == << requested, applied, balance >>

Keys(ms) == { m.idemKey : m \in ms }

LedgerInit ==
    /\ requested = {}
    /\ applied = {}
    /\ balance = [a \in Accounts |-> 0]

Request(m) ==
    /\ requested' = requested \cup {m}
    /\ UNCHANGED << applied, balance >>

Apply(m) ==
    /\ m \in requested
    /\ m.idemKey \notin Keys(applied)
    /\ m.accountId \in Accounts
    /\ balance[m.accountId] + m.amount >= 0
    /\ applied' = applied \cup {m}
    /\ balance' = [balance EXCEPT ![m.accountId] = @ + m.amount]
    /\ UNCHANGED requested

LedgerNext == \E m \in Mutations : Request(m) \/ Apply(m)

LedgerSpec == LedgerInit /\ [][LedgerNext]_ledgerVars
=============================================================================
