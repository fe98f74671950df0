------------------------------- MODULE Outbox -------------------------------
(***************************************************************************)
(* NeuronCore/Outbox.h: the in-memory model of the economy log that the    *)
(* repository's tests drive.  Outbox is the durable, ordered log with its  *)
(* drain watermark; EconomyState is the wallets, the ledger and the keys   *)
(* already applied, with a watermark of its own that a crash may lose.     *)
(* Drain and ReplayAll run over a log event by event, and a crash may fall *)
(* between two of them.                                                    *)
(***************************************************************************)
EXTENDS Integers, Sequences, FiniteSetsExt

CONSTANTS OutboxAccounts,
          Events,        \* set of [idemKey, accountId, amount]
          MAX_LOG        \* bound on the log

VARIABLES m_log,             \* Seq(Events): the event with seq i is m_log[i]
          m_drainWatermark,
          m_wallet, m_ledger, m_appliedKeys, m_lastAppliedSeq,
          drain              \* the loop under way: [at, upto, all], or << >>

outboxVars == << m_log, m_drainWatermark, m_wallet, m_ledger, m_appliedKeys,
                 m_lastAppliedSeq, drain >>

Idle == << >>

Init ==
    /\ m_log = << >> /\ m_drainWatermark = 0
    /\ m_wallet = [a \in OutboxAccounts |-> 0]
    /\ m_ledger = << >> /\ m_appliedKeys = {} /\ m_lastAppliedSeq = 0
    /\ drain = Idle

\* uint64_t Outbox::Append(...): a retried request appends the same key again.
AppendEvent(m) ==
    /\ drain = Idle /\ Len(m_log) < MAX_LOG
    /\ m_log' = Append(m_log, m)
    /\ UNCHANGED << m_drainWatermark, m_wallet, m_ledger, m_appliedKeys, m_lastAppliedSeq, drain >>

\* Mutant: only the watermark guards, not the key.
ApplyByWatermark(seq) == seq > m_lastAppliedSeq

\* The two guards of EconomyState::Apply.
Applies(seq) == seq > m_lastAppliedSeq /\ m_log[seq].idemKey \notin m_appliedKeys

\* bool EconomyState::Apply(e).
ApplyEvent(seq) ==
    LET e == m_log[seq]
    IN  IF Applies(seq)
        THEN /\ m_wallet' = [m_wallet EXCEPT ![e.accountId] = @ + e.amount]
             /\ m_ledger' = Append(m_ledger, [seq |-> seq, idemKey |-> e.idemKey,
                                              accountId |-> e.accountId, delta |-> e.amount,
                                              balanceAfter |-> m_wallet'[e.accountId]])
             /\ m_appliedKeys' = m_appliedKeys \cup {e.idemKey}
             /\ m_lastAppliedSeq' = seq
        ELSE UNCHANGED << m_wallet, m_ledger, m_appliedKeys, m_lastAppliedSeq >>

\* Drain starts past the watermark, ReplayAll at the beginning.
StartDrain(all) ==
    /\ drain = Idle /\ m_log # << >>
    /\ drain' = [at |-> IF all THEN 1 ELSE m_drainWatermark + 1, upto |-> Len(m_log)]
    /\ UNCHANGED << m_log, m_drainWatermark, m_wallet, m_ledger, m_appliedKeys, m_lastAppliedSeq >>

DrainNext ==
    /\ drain # Idle /\ drain.at <= drain.upto
    /\ ApplyEvent(drain.at)
    /\ drain' = [drain EXCEPT !.at = @ + 1]
    /\ UNCHANGED << m_log, m_drainWatermark >>

\* The loop ends; the caller confirms what was drained.
ConfirmDrained ==
    /\ drain # Idle /\ drain.at > drain.upto
    /\ m_drainWatermark' = Max({m_drainWatermark, drain.upto})
    /\ drain' = Idle
    /\ UNCHANGED << m_log, m_wallet, m_ledger, m_appliedKeys, m_lastAppliedSeq >>

\* A crash, anywhere in a loop: what is durable stays, EconomyState's watermark
\* may be lost (DropWatermarkOnly).
CrashInDrain(lose) ==
    /\ drain # Idle \/ lose
    /\ drain' = Idle
    /\ m_lastAppliedSeq' = IF lose THEN 0 ELSE m_lastAppliedSeq
    /\ UNCHANGED << m_log, m_drainWatermark, m_wallet, m_ledger, m_appliedKeys >>

Next ==
    \/ \E m \in Events : AppendEvent(m)
    \/ \E all \in BOOLEAN : StartDrain(all)
    \/ DrainNext \/ ConfirmDrained
    \/ \E lose \in BOOLEAN : CrashInDrain(lose)

-----------------------------------------------------------------------------
\* b is account a's balance after the first n entries of the ledger: that of the
\* last entry of its own, or nothing.
BalanceAt(a, n, b) ==
    \/ b = 0 /\ \A i \in 1 .. n : m_ledger[i].accountId # a
    \/ \E i \in 1 .. n :
          /\ m_ledger[i].accountId = a /\ m_ledger[i].balanceAfter = b
          /\ \A j \in i + 1 .. n : m_ledger[j].accountId # a

(* A key is credited once, however often its event is appended, drained    *)
(* and replayed, with or without the watermark: the ledger has one entry   *)
(* per key, every entry carries its account's balance on by its delta, and *)
(* a wallet holds the balance of its account's last entry.                 *)
LedgerExact ==
    /\ \A i, j \in DOMAIN m_ledger : m_ledger[i].idemKey = m_ledger[j].idemKey => i = j
    /\ \A i \in DOMAIN m_ledger :
         BalanceAt(m_ledger[i].accountId, i - 1, m_ledger[i].balanceAfter - m_ledger[i].delta)
    /\ \A a \in OutboxAccounts : BalanceAt(a, Len(m_ledger), m_wallet[a])

(* Nothing is lost: an event at or below the confirmed watermark has its   *)
(* key in the ledger, wherever the crashes fell ("zero-loss").             *)
ConfirmedIsApplied == \A i \in 1 .. m_drainWatermark : m_log[i].idemKey \in m_appliedKeys

(* Log, watermark and ledger agree over replays and a crash in the middle  *)
(* of a drain (Outbox.h Drain, ApplyEvent, ConfirmDrained).                *)
OutboxInv == LedgerExact /\ ConfirmedIsApplied
=============================================================================
