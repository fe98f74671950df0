---------------------------- MODULE EconomyProofs ----------------------------
(***************************************************************************)
(* Proofs about the write-through economy path, for any set of accounts    *)
(* and mutations and any number of enqueues and crashes.                   *)
(***************************************************************************)
EXTENDS EconomyPersistence, TLAPS

(* Appending adds one element to a sequence's set of elements. *)
LEMMA ToSetAppend ==
    ASSUME NEW S, NEW s \in Seq(S), NEW e \in S
    PROVE  ToSet(Append(s, e)) = ToSet(s) \cup {e}
<1>1. /\ DOMAIN Append(s, e) = 1 .. (Len(s) + 1)
      /\ DOMAIN s = 1 .. Len(s)
      /\ \A i \in 1 .. Len(s) : Append(s, e)[i] = s[i]
      /\ Append(s, e)[Len(s) + 1] = e
      /\ Len(s) \in Nat
  OBVIOUS
<1>2. ASSUME NEW x \in ToSet(Append(s, e)) PROVE x \in ToSet(s) \cup {e}
  BY <1>1, <1>2 DEF ToSet
<1>3. ASSUME NEW x \in ToSet(s) PROVE x \in ToSet(Append(s, e))
  <2>1. PICK i \in 1 .. Len(s) : x = s[i]
    BY <1>1, <1>3 DEF ToSet
  <2>2. i \in 1 .. (Len(s) + 1) /\ Append(s, e)[i] = x
    BY <1>1, <2>1
  <2> QED BY <1>1, <2>2 DEF ToSet
<1>4. e \in ToSet(Append(s, e))
  <2>1. Len(s) + 1 \in 1 .. (Len(s) + 1)
    BY <1>1
  <2> QED BY <1>1, <2>1 DEF ToSet
<1> QED BY <1>2, <1>3, <1>4

(* A non-empty sequence holds its head and what its tail holds. *)
LEMMA ToSetHeadTail ==
    ASSUME NEW S, NEW s \in Seq(S), s # << >>
    PROVE  Head(s) \in S /\ Tail(s) \in Seq(S) /\ ToSet(s) = {Head(s)} \cup ToSet(Tail(s))
<1>1. /\ Len(s) \in Nat /\ Len(s) > 0 /\ DOMAIN s = 1 .. Len(s)
      /\ Head(s) = s[1] /\ Head(s) \in S /\ Tail(s) \in Seq(S)
      /\ DOMAIN Tail(s) = 1 .. (Len(s) - 1)
      /\ \A i \in 1 .. (Len(s) - 1) : Tail(s)[i] = s[i + 1]
  OBVIOUS
<1>2. ASSUME NEW x \in ToSet(s) PROVE x \in {Head(s)} \cup ToSet(Tail(s))
  <2>1. PICK i \in 1 .. Len(s) : x = s[i]
    BY <1>1, <1>2 DEF ToSet
  <2>2. CASE i = 1
    BY <1>1, <2>1, <2>2
  <2>3. CASE i # 1
    <3>1. i - 1 \in 1 .. (Len(s) - 1) /\ Tail(s)[i - 1] = x
      BY <1>1, <2>1, <2>3
    <3> QED BY <1>1, <3>1 DEF ToSet
  <2> QED BY <2>2, <2>3
<1>3. ASSUME NEW x \in ToSet(Tail(s)) PROVE x \in ToSet(s)
  <2>1. PICK i \in 1 .. (Len(s) - 1) : x = s[i + 1]
    BY <1>1, <1>3 DEF ToSet
  <2>2. i + 1 \in 1 .. Len(s)
    BY <1>1
  <2> QED BY <1>1, <2>1, <2>2 DEF ToSet
<1>4. Head(s) \in ToSet(s)
  <2>1. 1 \in 1 .. Len(s)
    BY <1>1
  <2> QED BY <1>1, <2>1 DEF ToSet
<1> QED BY <1>1, <1>2, <1>3, <1>4

LEMMA ToSetEmpty == ToSet(<< >>) = {}
  BY DEF ToSet

(* The invariant holds of an empty ledger and empty queues. *)
LEMMA EconomyInitInv == ASSUME Init PROVE EconomyInv
<1>1. Len(ledger) = 0 /\ 1 .. Len(ledger) = {}
  BY DEF Init
<1>2. TypeOK
  <2>1. \A S : << >> \in Seq(S)
    OBVIOUS
  <2>2. wallet \in [Accounts -> Nat]
    BY DEF Init
  <2> QED BY <2>1, <2>2 DEF Init, TypeOK
<1>3. ToSet(requested) = {} /\ ToSet(m_econQueue) = {} /\ ToSet(batch) = {}
  BY ToSetEmpty DEF Init
<1>4. \A a \in Accounts : wallet[a] >= 0
  BY DEF Init
<1>5. batch = << >>
  BY DEF Init
<1> QED BY <1>1, <1>2, <1>3, <1>4, <1>5 DEF EconomyInv, ExactlyOnce, NothingDropped, LedgerAudits,
           RowsAndQueueRequested

(* A transaction appends one row: its key is new, its balance is the       *)
(* wallet's, and the older rows stay.                                      *)
LEMMA WriteRowsInv ==
    ASSUME EconomyInv, NEW m \in ToSet(requested), m \in Mutations,
           StatementsSucceed(m), WriteRows(m)
    PROVE  /\ ledger' \in Seq(LedgerRow)
           /\ wallet' \in [Accounts -> Nat]
           /\ ExactlyOnce'
           /\ LedgerAudits'
           /\ LedgerKeys' = LedgerKeys \cup {m.idemKey}
           /\ \A i \in 1 .. Len(ledger') :
                 /\ ledger'[i].mutation \in ToSet(requested)
                 /\ ledger'[i].idemKey = ledger'[i].mutation.idemKey
           /\ {ledger'[i].mutation : i \in 1 .. Len(ledger')}
                 = {ledger[i].mutation : i \in 1 .. Len(ledger)} \cup {m}
<1> DEFINE n == Len(ledger)
           row == [ idemKey |-> m.idemKey, accountId |-> m.accountId, delta |-> m.amount,
                    balanceAfter |-> wallet[m.accountId] + m.amount, mutation |-> m ]
<1>1. /\ ledger \in Seq(LedgerRow) /\ wallet \in [Accounts -> Nat] /\ n \in Nat
      /\ m.accountId \in Accounts /\ m.amount \in Int /\ wallet[m.accountId] + m.amount \in Nat
  BY EconomyAssumption DEF EconomyInv, TypeOK, StatementsSucceed
<1>2. row \in LedgerRow
  BY <1>1 DEF LedgerRow
<1>3. ledger' = Append(ledger, row)
  BY DEF WriteRows
<1>4. wallet' = [wallet EXCEPT ![m.accountId] = wallet[m.accountId] + m.amount]
  BY DEF WriteRows
<1> HIDE DEF row
<1>5. /\ ledger' \in Seq(LedgerRow) /\ Len(ledger') = n + 1
      /\ \A i \in 1 .. n : ledger'[i] = ledger[i]
      /\ ledger'[n + 1] = row
  BY <1>1, <1>2, <1>3
<1>6. /\ row.idemKey = m.idemKey /\ row.accountId = m.accountId /\ row.mutation = m
      /\ row.balanceAfter = wallet[m.accountId] + m.amount
  BY DEF row
<1>7. wallet' \in [Accounts -> Nat]
  BY <1>1, <1>4
<1>8. \A i \in 1 .. n : ledger[i].idemKey # m.idemKey
  BY DEF StatementsSucceed, DuplicateKey, LedgerKeys
<1>9. ExactlyOnce'
  <2>1. SUFFICES ASSUME NEW i \in 1 .. (n + 1), NEW j \in 1 .. (n + 1),
                        ledger'[i].idemKey = ledger'[j].idemKey
                 PROVE  i = j
    BY <1>5 DEF ExactlyOnce
  <2>2. i \in 1 .. n \/ i = n + 1
    BY <1>1
  <2>3. j \in 1 .. n \/ j = n + 1
    BY <1>1
  <2> QED BY <2>1, <2>2, <2>3, <1>5, <1>6, <1>8 DEF EconomyInv, ExactlyOnce
<1>10. LedgerAudits'
  <2>1. SUFFICES ASSUME NEW a \in Accounts
                 PROVE  /\ wallet'[a] >= 0
                        /\ \A i \in 1 .. (n + 1) :
                              (ledger'[i].accountId = a
                                  /\ \A j \in i + 1 .. (n + 1) : ledger'[j].accountId # a)
                                 => ledger'[i].balanceAfter = wallet'[a]
    BY <1>5 DEF LedgerAudits
  <2>2. wallet'[a] >= 0
    BY <1>7
  <2>3. ASSUME NEW i \in 1 .. (n + 1), ledger'[i].accountId = a,
               \A j \in i + 1 .. (n + 1) : ledger'[j].accountId # a
        PROVE  ledger'[i].balanceAfter = wallet'[a]
    <3>1. CASE i = n + 1
      BY <1>1, <1>4, <1>5, <1>6, <2>3, <3>1
    <3>2. CASE i # n + 1
      <4>1. i \in 1 .. n /\ n + 1 \in i + 1 .. (n + 1)
        BY <1>1, <3>2
      <4>2. m.accountId # a
        BY <1>5, <1>6, <2>3, <4>1
      <4>3. \A j \in i + 1 .. n : ledger[j].accountId # a
        <5>1. ASSUME NEW j \in i + 1 .. n PROVE ledger[j].accountId # a
          <6>1. j \in i + 1 .. (n + 1) /\ j \in 1 .. n
            BY <1>1, <4>1
          <6> QED BY <2>3, <6>1, <1>5
        <5> QED BY <5>1
      <4>4. ledger[i].balanceAfter = wallet[a]
        BY <1>5, <2>3, <4>1, <4>3 DEF EconomyInv, LedgerAudits
      <4> QED BY <1>1, <1>4, <1>5, <4>1, <4>2, <4>4
    <3> QED BY <3>1, <3>2
  <2> QED BY <2>2, <2>3
<1>11. LedgerKeys' = LedgerKeys \cup {m.idemKey}
  <2>1. 1 .. (n + 1) = 1 .. n \cup {n + 1}
    BY <1>1
  <2> QED BY <2>1, <1>5, <1>6 DEF LedgerKeys
<1>12. \A i \in 1 .. Len(ledger') :
          /\ ledger'[i].mutation \in ToSet(requested)
          /\ ledger'[i].idemKey = ledger'[i].mutation.idemKey
  <2>1. 1 .. (n + 1) = 1 .. n \cup {n + 1}
    BY <1>1
  <2> QED BY <2>1, <1>5, <1>6 DEF EconomyInv, RowsAndQueueRequested
<1>13. {ledger'[i].mutation : i \in 1 .. Len(ledger')}
          = {ledger[i].mutation : i \in 1 .. Len(ledger)} \cup {m}
  <2>1. 1 .. (n + 1) = 1 .. n \cup {n + 1}
    BY <1>1
  <2> QED BY <2>1, <1>5, <1>6
<1> QED BY <1>5, <1>7, <1>9, <1>10, <1>11, <1>12, <1>13
(* Whatever AppendWriteThrough's outcome, the database part of the         *)
(* invariant holds after it, no committed key disappears, and a reported   *)
(* success means the mutation's key is committed.                          *)
LEMMA AppendWriteThroughInv ==
    ASSUME EconomyInv, NEW m \in ToSet(requested), m \in Mutations,
           NEW committed \in BOOLEAN, AppendWriteThrough(m, committed)
    PROVE  /\ ledger' \in Seq(LedgerRow)
           /\ wallet' \in [Accounts -> Nat]
           /\ ExactlyOnce'
           /\ LedgerAudits'
           /\ LedgerKeys \subseteq LedgerKeys'
           /\ committed => m.idemKey \in LedgerKeys'
           /\ \A i \in 1 .. Len(ledger') :
                 /\ ledger'[i].mutation \in ToSet(requested)
                 /\ ledger'[i].idemKey = ledger'[i].mutation.idemKey
<1>1. CASE StatementsSucceed(m) /\ WriteRows(m)
  BY <1>1, WriteRowsInv
<1>2. CASE UNCHANGED dbVars /\ (committed => DuplicateKey(m))
  BY <1>2 DEF dbVars, EconomyInv, TypeOK, ExactlyOnce, LedgerAudits, LedgerKeys,
     RowsAndQueueRequested, DuplicateKey
<1> QED BY <1>1, <1>2 DEF AppendWriteThrough

(* Every step keeps the invariant. *)
LEMMA EconomyStepInv == ASSUME EconomyInv, [Next]_vars PROVE EconomyInv'
<1> USE DEF EconomyInv
<1>1. /\ m_econQueue \in Seq(Mutations) /\ batch \in Seq(Mutations)
      /\ requested \in Seq(Mutations) /\ lost \subseteq Mutations
      /\ ToSet(requested) \subseteq Mutations
  <2>1. ToSet(requested) \subseteq Mutations
    BY DEF TypeOK, ToSet
  <2> QED BY <2>1 DEF TypeOK
<1>2. << >> \in Seq(Mutations)
  OBVIOUS
<1>3. ASSUME UNCHANGED dbVars
      PROVE  ExactlyOnce' /\ LedgerAudits' /\ LedgerKeys' = LedgerKeys
  BY <1>3 DEF dbVars, ExactlyOnce, LedgerAudits, LedgerKeys
<1>4. ASSUME NEW m \in Mutations, EnqueueEconomy(m) PROVE EconomyInv'
  <2>1. /\ ToSet(m_econQueue') = ToSet(m_econQueue) \cup {m}
        /\ ToSet(requested') = ToSet(requested) \cup {m}
    BY <1>1, <1>4, ToSetAppend DEF EnqueueEconomy
  <2>2. m_econQueue' \in Seq(Mutations) /\ requested' \in Seq(Mutations)
    BY <1>1, <1>4 DEF EnqueueEconomy
  <2>3. TypeOK'
    BY <1>4, <2>2 DEF EnqueueEconomy, TypeOK, dbVars
  <2>4. NothingDropped'
    BY <1>3, <1>4, <2>1 DEF EnqueueEconomy, NothingDropped
  <2>5. RowsAndQueueRequested'
    BY <1>4, <2>1 DEF EnqueueEconomy, RowsAndQueueRequested, dbVars, Committing
  <2> QED BY <1>3, <1>4, <2>3, <2>4, <2>5 DEF EnqueueEconomy
<1>5. CASE LoopTop \/ BatchDone \/ StopRequested \/ Start
  <2>1. UNCHANGED << m_econQueue, batch, ledger, wallet, requested, lost, crashes >>
    BY <1>5 DEF LoopTop, BatchDone, StopRequested, Start, queueVars, dbVars, historyVars
  <2>2. TypeOK'
    BY <1>5, <2>1 DEF TypeOK, LoopTop, BatchDone, StopRequested, Start
  <2>3. NothingDropped'
    BY <1>3, <2>1 DEF NothingDropped, dbVars
  <2>4. batch' # << >> => Committing'
    BY <1>5, <2>1 DEF RowsAndQueueRequested, Committing, LoopTop, BatchDone, StopRequested, Start
  <2>5. RowsAndQueueRequested'
    BY <2>1, <2>4 DEF RowsAndQueueRequested
  <2> QED BY <1>3, <2>1, <2>2, <2>3, <2>5 DEF dbVars
<1>6. CASE DrainEconomyOnce \/ FinalDrain
  <2>1. batch' = m_econQueue /\ m_econQueue' = << >>
        /\ UNCHANGED << ledger, wallet, requested, lost, crashes >>
    BY <1>6 DEF DrainEconomyOnce, FinalDrain, DrainInto, dbVars, historyVars
  <2>2. TypeOK'
    BY <1>1, <1>2, <1>6, <2>1 DEF TypeOK, DrainEconomyOnce, FinalDrain
  <2>3. batch = << >> /\ Committing'
    BY <1>6 DEF RowsAndQueueRequested, Committing, DrainEconomyOnce, FinalDrain
  <2>4. ToSet(batch) = {} /\ ToSet(m_econQueue') = {}
    BY <2>1, <2>3, ToSetEmpty
  <2>5. NothingDropped'
    BY <1>3, <2>1, <2>4 DEF NothingDropped, dbVars
  <2>6. RowsAndQueueRequested'
    BY <2>1, <2>3, <2>4 DEF RowsAndQueueRequested
  <2> QED BY <1>3, <2>1, <2>2, <2>5, <2>6 DEF dbVars
<1>7. ASSUME NEW committed \in BOOLEAN, CommitOne(committed) PROVE EconomyInv'
  <2> DEFINE m == Head(batch)
  <2>1. m \in Mutations /\ Tail(batch) \in Seq(Mutations) /\ ToSet(batch) = {m} \cup ToSet(Tail(batch))
    BY <1>1, <1>7, ToSetHeadTail DEF CommitOne
  <2>2. m \in ToSet(requested)
    BY <2>1 DEF RowsAndQueueRequested
  <2>3. AppendWriteThrough(m, committed)
    BY <1>7 DEF CommitOne
  <2>4. /\ ledger' \in Seq(LedgerRow)
        /\ wallet' \in [Accounts -> Nat]
        /\ ExactlyOnce'
        /\ LedgerAudits'
        /\ LedgerKeys \subseteq LedgerKeys'
        /\ committed => m.idemKey \in LedgerKeys'
        /\ \A i \in 1 .. Len(ledger') :
              /\ ledger'[i].mutation \in ToSet(requested)
              /\ ledger'[i].idemKey = ledger'[i].mutation.idemKey
    BY <2>1, <2>2, <2>3, AppendWriteThroughInv
  <2>5. /\ m_econQueue' \in Seq(Mutations)
        /\ ToSet(m_econQueue') = IF committed THEN ToSet(m_econQueue) ELSE ToSet(m_econQueue) \cup {m}
    <3>1. CASE committed
      BY <1>1, <1>7, <3>1 DEF CommitOne
    <3>2. CASE ~committed
      <4>1. m_econQueue' = Append(m_econQueue, m)
        BY <1>7, <3>2 DEF CommitOne, Requeue
      <4>2. Append(m_econQueue, m) \in Seq(Mutations)
        BY <1>1, <2>1
      <4>3. ToSet(Append(m_econQueue, m)) = ToSet(m_econQueue) \cup {m}
        BY <1>1, <2>1, ToSetAppend
      <4> QED BY <3>2, <4>1, <4>2, <4>3
    <3> QED BY <3>1, <3>2
  <2>6. batch' = Tail(batch) /\ UNCHANGED << mainPc, workerPc, m_stop, requested, lost, crashes >>
    BY <1>7 DEF CommitOne, historyVars
  <2> HIDE DEF m
  <2>7. TypeOK'
    BY <2>1, <2>4, <2>5, <2>6 DEF TypeOK
  <2>8. NothingDropped'
    BY <2>1, <2>4, <2>5, <2>6 DEF NothingDropped
  <2>9. Committing'
    BY <1>7, <2>6 DEF CommitOne, Committing
  <2>10. RowsAndQueueRequested'
    BY <2>1, <2>2, <2>4, <2>5, <2>6, <2>9 DEF RowsAndQueueRequested
  <2> QED BY <2>4, <2>7, <2>8, <2>10
<1>8. CASE Shutdown
  <2>1. /\ UNCHANGED << batch, ledger, wallet, requested, crashes >> /\ batch = << >>
        /\ m_econQueue' = << >> /\ lost' = lost \cup ToSet(m_econQueue)
    BY <1>8 DEF Shutdown, dbVars
  <2>2. ToSet(m_econQueue') = {} /\ ToSet(m_econQueue) \subseteq Mutations
    BY <1>1, <2>1, ToSetEmpty DEF RowsAndQueueRequested
  <2>3. TypeOK'
    BY <1>1, <1>2, <1>8, <2>1, <2>2 DEF TypeOK, Shutdown
  <2>4. NothingDropped'
    BY <1>3, <2>1, <2>2 DEF NothingDropped, dbVars
  <2>5. RowsAndQueueRequested'
    BY <2>1, <2>2 DEF RowsAndQueueRequested
  <2> QED BY <1>3, <2>1, <2>3, <2>4, <2>5 DEF dbVars
<1>9. CASE Crash
  <2>1. /\ UNCHANGED << ledger, wallet, requested, workerPc, m_stop >> /\ batch' = << >>
        /\ m_econQueue' = << >> /\ lost' = lost \cup ToSet(m_econQueue) \cup ToSet(batch)
        /\ mainPc' = "down" /\ crashes' = crashes + 1
    BY <1>9 DEF Crash, dbVars
  <2>2. /\ ToSet(m_econQueue') = {} /\ ToSet(batch') = {}
        /\ ToSet(m_econQueue) \subseteq Mutations /\ ToSet(batch) \subseteq Mutations
    BY <1>1, <2>1, ToSetEmpty DEF RowsAndQueueRequested
  <2>3. TypeOK'
    BY <1>1, <1>2, <2>1, <2>2 DEF TypeOK
  <2>4. NothingDropped'
    BY <1>3, <2>1, <2>2 DEF NothingDropped, dbVars
  <2>5. RowsAndQueueRequested'
    BY <2>1, <2>2 DEF RowsAndQueueRequested
  <2> QED BY <1>3, <2>1, <2>3, <2>4, <2>5 DEF dbVars
<1>10. CASE UNCHANGED vars
  <2>1. TypeOK'
    BY <1>10 DEF vars, TypeOK
  <2>2. NothingDropped' /\ RowsAndQueueRequested'
    BY <1>10 DEF vars, NothingDropped, RowsAndQueueRequested, LedgerKeys, Committing
  <2> QED BY <1>3, <1>10, <2>1, <2>2 DEF vars, dbVars
<1> QED BY <1>4, <1>5, <1>6, <1>7, <1>8, <1>9, <1>10 DEF Next

(* The write-through path keeps its inductive invariant: types, exactly    *)
(* once, nothing dropped, and the ledger as the audit trail of the wallets.*)
THEOREM EconomyInvariant == Spec => []EconomyInv
  BY EconomyInitInv, EconomyStepInv, PTL DEF Spec

(* No idempotency key is ever credited twice, whatever fails, crashes or   *)
(* is enqueued again.                                                      *)
THEOREM EconomyExactlyOnce == Spec => []ExactlyOnce
<1>1. EconomyInv => ExactlyOnce
  BY DEF EconomyInv
<1> QED BY <1>1, EconomyInvariant, PTL

(* While the process lives, no mutation the host enqueued is dropped.      *)
THEOREM EconomyNothingDropped == Spec => []NothingDropped
<1>1. EconomyInv => NothingDropped
  BY DEF EconomyInv
<1> QED BY <1>1, EconomyInvariant, PTL

(* No wallet is overdrawn and the newest ledger row of an account carries  *)
(* its balance.                                                            *)
THEOREM EconomyLedgerAudits == Spec => []LedgerAudits
<1>1. EconomyInv => LedgerAudits
  BY DEF EconomyInv
<1> QED BY <1>1, EconomyInvariant, PTL
(* The write-through path implements the abstract ledger: every step of    *)
(* the queue, the worker, the database, a crash or a restart is a request, *)
(* one application of a new key, or invisible.                             *)
THEOREM EconomyImplementsLedger == Spec => ImplementsLedger
<1> DEFINE Applied == {ledger[i].mutation : i \in 1 .. Len(ledger)}
<1>1. ASSUME Init PROVE Abstract!LedgerInit
  <2>1. 1 .. Len(ledger) = {} /\ ToSet(requested) = {}
    BY <1>1, ToSetEmpty DEF Init
  <2>2. Applied = {}
    BY <2>1
  <2> QED BY <1>1, <2>1, <2>2 DEF Init, Abstract!LedgerInit
<1>2. ASSUME EconomyInv, [Next]_vars PROVE [Abstract!LedgerNext]_(Abstract!ledgerVars)
  <2>1. ASSUME NEW m \in Mutations, EnqueueEconomy(m) PROVE Abstract!LedgerNext
    <3>1. ToSet(requested') = ToSet(requested) \cup {m}
      BY <1>2, <2>1, ToSetAppend DEF EnqueueEconomy, EconomyInv, TypeOK
    <3>2. Applied' = Applied /\ wallet' = wallet
      BY <2>1 DEF EnqueueEconomy, dbVars
    <3>3. Abstract!Request(m)
      BY <3>1, <3>2 DEF Abstract!Request
    <3> QED BY <3>3 DEF Abstract!LedgerNext
  <2>2. ASSUME NEW committed \in BOOLEAN, CommitOne(committed)
        PROVE  Abstract!LedgerNext \/ UNCHANGED Abstract!ledgerVars
    <3>1. PICK m \in Mutations : m = Head(batch) /\ m \in ToSet(requested)
      BY <1>2, <2>2, ToSetHeadTail DEF CommitOne, EconomyInv, TypeOK, RowsAndQueueRequested
    <3>2. requested' = requested
      BY <2>2 DEF CommitOne, historyVars
    <3>3. CASE StatementsSucceed(m) /\ WriteRows(m)
      <4>1. Applied' = Applied \cup {m}
        BY <1>2, <3>1, <3>3, WriteRowsInv
      <4>2. Abstract!Keys(Applied) = LedgerKeys
        BY <1>2 DEF Abstract!Keys, LedgerKeys, EconomyInv, RowsAndQueueRequested
      <4>3. /\ m.idemKey \notin LedgerKeys /\ m.accountId \in Accounts
            /\ wallet[m.accountId] + m.amount >= 0
            /\ wallet' = [wallet EXCEPT ![m.accountId] = @ + m.amount]
        BY <3>3 DEF StatementsSucceed, DuplicateKey, WriteRows
      <4>4. Abstract!Apply(m)
        BY <3>1, <3>2, <4>1, <4>2, <4>3 DEF Abstract!Apply
      <4> QED BY <3>1, <4>4 DEF Abstract!LedgerNext
    <3>4. CASE UNCHANGED dbVars
      BY <3>2, <3>4 DEF dbVars, Abstract!ledgerVars
    <3>5. AppendWriteThrough(m, committed)
      BY <2>2, <3>1 DEF CommitOne
    <3> QED BY <3>3, <3>4, <3>5 DEF AppendWriteThrough
  <2>3. CASE \/ LoopTop \/ DrainEconomyOnce \/ BatchDone \/ StopRequested \/ FinalDrain
             \/ Shutdown \/ Crash \/ Start \/ UNCHANGED vars
    <3>1. UNCHANGED << ledger, wallet, requested >>
      BY <2>3 DEF LoopTop, DrainEconomyOnce, BatchDone, StopRequested, FinalDrain, Shutdown,
         Crash, Start, vars, dbVars, historyVars
    <3> QED BY <3>1 DEF Abstract!ledgerVars
  <2> QED BY <1>2, <2>1, <2>2, <2>3 DEF Next
<1> QED BY <1>1, <1>2, EconomyInvariant, PTL DEF Spec, ImplementsLedger, Abstract!LedgerSpec
=============================================================================
