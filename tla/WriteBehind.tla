----------------------------- MODULE WriteBehind -----------------------------
(***************************************************************************)
(* The write-behind path for positions and hit points: MpscBoundedQueue    *)
(* (PersistQueue.h), PersistenceThread::FlushWriteBehindIfDue and          *)
(* WriteBehindStore::FlushBatch.  The tick thread pushes rows; the worker, *)
(* once per cadence, drains them, keeps the last row of each entity, and   *)
(* writes the batch in one transaction.  Both threads interleave, the      *)
(* queue drops its oldest row when full, and the transaction may fail (or  *)
(* go through and report failure).                                         *)
(*                                                                         *)
(* A row is an entity and the time it was pushed, which orders the rows of *)
(* an entity.  Time is a counter that every push and cadence advances.     *)
(***************************************************************************)
EXTENDS Naturals, SequencesExt

CONSTANTS Entities,   \* (entity kind, database id) pairs
          CAPACITY,   \* of the queue
          MAX_TIME    \* bound

VARIABLES m_wbQueue,          \* Seq of rows
          batch,              \* what FlushWriteBehindIfDue has drained and coalesced
          flushing,           \* the worker is between the drain and the commit
          flushTime,          \* nowUnix of the flush under way
          rpoWatermark,       \* counters.rpoWatermarkUnix
          durable,            \* [Entities -> time of the row in the database, 0: none]
          now,
          pushed,             \* history: time of the last row pushed for an entity
          droppedRows,        \* rows the full queue dropped (m_dropped counts them)
          failedRows          \* history: rows whose batch failed

vars == << m_wbQueue, batch, flushing, flushTime, rpoWatermark, durable, now,
           pushed, droppedRows, failedRows >>

Row == [entity : Entities, time : Nat]

(* Types, and the bound on the queue.                                      *)
TypeOK ==
    /\ m_wbQueue \in Seq(Row) /\ Len(m_wbQueue) <= CAPACITY
    /\ batch \subseteq Row
    /\ flushing \in BOOLEAN
    /\ flushTime \in Nat /\ rpoWatermark \in Nat /\ now \in Nat
    /\ durable \in [Entities -> Nat]
    /\ pushed \in [Entities -> Nat]
    /\ droppedRows \subseteq Row /\ failedRows \subseteq Row

Init ==
    /\ m_wbQueue = << >>
    /\ batch = {}
    /\ flushing = FALSE
    /\ flushTime = 0
    /\ rpoWatermark = 0
    /\ durable = [e \in Entities |-> 0]
    /\ now = 0
    /\ pushed = [e \in Entities |-> 0]
    /\ droppedRows = {}
    /\ failedRows = {}

\* bool Push(T&&): the oldest row goes when the queue is full.
Push(queue, row) == Append(IF Len(queue) >= CAPACITY THEN Tail(queue) ELSE queue, row)

EnqueueWriteBehind(e) ==
    /\ now < MAX_TIME
    /\ now' = now + 1
    /\ m_wbQueue' = Push(m_wbQueue, [entity |-> e, time |-> now'])
    /\ droppedRows' = IF Len(m_wbQueue) >= CAPACITY
                      THEN droppedRows \cup {Head(m_wbQueue)} ELSE droppedRows
    /\ pushed' = [pushed EXCEPT ![e] = now']
    /\ UNCHANGED << batch, flushing, flushTime, rpoWatermark, durable, failedRows >>

-----------------------------------------------------------------------------
\* Mutant: the first row of an entity wins.
CoalesceFirstWins(rows) ==
    { rows[i] : i \in { j \in DOMAIN rows : \A k \in 1 .. j - 1 : rows[k].entity # rows[j].entity } }

\* One row per entity: the last one pushed.
Coalesce(rows) ==
    { rows[i] : i \in { j \in DOMAIN rows :
                          \A k \in j + 1 .. Len(rows) : rows[k].entity # rows[j].entity } }

\* The cadence has elapsed: drain; an empty drain advances the watermark.
FlushWriteBehindIfDue ==
    /\ ~flushing
    /\ m_wbQueue' = << >>
    /\ flushTime' = now
    /\ IF m_wbQueue = << >>
       THEN /\ rpoWatermark' = now
            /\ UNCHANGED << flushing, batch >>
       ELSE /\ flushing' = TRUE
            /\ batch' = Coalesce(m_wbQueue)
            /\ UNCHANGED rpoWatermark
    /\ UNCHANGED << durable, now, pushed, droppedRows, failedRows >>

WriteBatch == durable' = [e \in Entities |->
                 IF \E r \in batch : r.entity = e
                 THEN (CHOOSE r \in batch : r.entity = e).time ELSE durable[e]]

\* The batch commits: the watermark advances to the time of the flush.
FlushBatchCommits ==
    /\ flushing
    /\ WriteBatch
    /\ rpoWatermark' = flushTime
    /\ flushing' = FALSE
    /\ batch' = {}
    /\ UNCHANGED << m_wbQueue, flushTime, now, pushed, droppedRows, failedRows >>

\* It does not (or Commit reports so): the drained rows are gone.
FlushBatchFails ==
    /\ flushing
    /\ UNCHANGED durable \/ WriteBatch
    /\ failedRows' = failedRows \cup batch
    /\ flushing' = FALSE
    /\ batch' = {}
    /\ UNCHANGED << m_wbQueue, flushTime, rpoWatermark, now, pushed, droppedRows >>

Next ==
    \/ \E e \in Entities : EnqueueWriteBehind(e)
    \/ FlushWriteBehindIfDue \/ FlushBatchCommits \/ FlushBatchFails

Spec == Init /\ [][Next]_vars

-----------------------------------------------------------------------------
(* Coalescing and flushing never lose the newest row of an entity: it is   *)
(* queued, being flushed or in the database, unless the full queue dropped *)
(* it or its batch failed.                                                 *)
NewestSurvives ==
    \A e \in Entities :
        LET row == [entity |-> e, time |-> pushed[e]]
        IN  pushed[e] # 0 =>
              \/ durable[e] = pushed[e]
              \/ row \in ToSet(m_wbQueue) \cup batch \cup droppedRows \cup failedRows

(* The watermark means what it says: rows pushed up to it are durable,     *)
(* though rows are pushed while a batch is being written, unless the full  *)
(* queue dropped them or their batch failed.  (The rows of a failed batch  *)
(* are not flushed again, and the next empty drain moves the watermark     *)
(* past them.)                                                             *)
WatermarkHonest ==
    \A e \in Entities :
        (0 < pushed[e] /\ pushed[e] <= rpoWatermark)
            => \/ durable[e] = pushed[e]
               \/ [entity |-> e, time |-> pushed[e]] \in droppedRows \cup failedRows

(* Through a full queue, coalescing and failed batches the newest row of   *)
(* an entity survives and the watermark covers what it claims              *)
(* (MpscBoundedQueue, FlushWriteBehind).                                   *)
BehindInv == TypeOK /\ NewestSurvives /\ WatermarkHonest
=============================================================================
