--------------------------- MODULE OdbcConnection ---------------------------
(***************************************************************************)
(* ERServer/persist/OdbcConnection: one ODBC connection, with its flags,   *)
(* the autocommit attribute it switches for a transaction, and what the    *)
(* driver and the database do with its statements.  The link               *)
(* may break at any time; from then on every call to the driver fails, and *)
(* a COMMIT under way then may or may not have reached the database.       *)
(*                                                                         *)
(* A row is a number; the database holds the rows that are durable and the *)
(* rows of the connection's open transaction.  dbAutocommit, dbOpenRows,   *)
(* dbRows and link are the driver's and the database's (external).         *)
(***************************************************************************)
EXTENDS Naturals, FiniteSets

CONSTANTS MAX_ODBC_ROWS,   \* bound on the rows written
          MAX_CONNECTS,    \* bound on SQLDriverConnect
          CHUNK,           \* bytes SQLGetData returns at a time (4096)
          MAX_CELL         \* bound on the size of a cell, in bytes

VARIABLES m_connected, m_inTxn,
          link, dbAutocommit, dbOpenRows, dbRows,
          written,             \* rows written so far
          connects,
          promised,            \* history: rows a call reported durable
          disowned,            \* history: rows a Rollback reported undone
          lastRead             \* what ExecQuery last read: [size, got]

odbcVars == << m_connected, m_inTxn, link, dbAutocommit, dbOpenRows,
               dbRows, written, connects, promised, disowned, lastRead >>
driverVars == << link, dbAutocommit, dbOpenRows, dbRows >>

Init ==
    /\ m_connected = FALSE /\ m_inTxn = FALSE
    /\ link = FALSE /\ dbAutocommit = TRUE /\ dbOpenRows = {} /\ dbRows = {}
    /\ written = 0 /\ connects = 0 /\ promised = {} /\ disowned = {}
    /\ lastRead = [size |-> 0, got |-> 0]

-----------------------------------------------------------------------------
\* bool Connect(cfg): the environment, the DBC handle, SQLDriverConnect.  When
\* one of them fails the object stays unconnected (and the pool destroys it).
Connect ==
    /\ ~m_connected /\ connects < MAX_CONNECTS
    /\ connects' = connects + 1
    /\ m_connected' = TRUE /\ m_inTxn' = FALSE
    /\ link' = TRUE /\ dbAutocommit' = TRUE
    /\ UNCHANGED << dbOpenRows, dbRows, written, promised, disowned, lastRead >>

\* ~OdbcConnection: Disconnect rolls an open transaction back, then the handles
\* are freed.  The pool then makes another object.
Destroy ==
    /\ m_connected
    /\ m_connected' = FALSE /\ m_inTxn' = FALSE
    /\ link' = FALSE /\ dbAutocommit' = TRUE /\ dbOpenRows' = {}
    /\ UNCHANGED << dbRows, written, connects, promised, disowned, lastRead >>

\* The server drops the connection: it undoes what was open.
LinkBreaks ==
    /\ link
    /\ link' = FALSE /\ dbOpenRows' = {}
    /\ UNCHANGED << m_connected, m_inTxn, dbAutocommit, dbRows,
                    written, connects, promised, disowned, lastRead >>

-----------------------------------------------------------------------------
\* ExecNonQuery and ExecInsertReturningIdentity, of a statement that writes a
\* row: autocommitted, or part of the transaction.  Without a connection, with
\* parameters that do not bind, or on a broken link, nothing is written.
ExecNonQuery ==
    /\ m_connected /\ link /\ written < MAX_ODBC_ROWS
    /\ written' = written + 1
    /\ IF dbAutocommit
       THEN dbRows' = dbRows \cup {written'} /\ UNCHANGED dbOpenRows
       ELSE dbOpenRows' = dbOpenRows \cup {written'} /\ UNCHANGED dbRows
    /\ promised' = IF m_inTxn THEN promised ELSE promised \cup {written'}
    /\ UNCHANGED << m_connected, m_inTxn, link, dbAutocommit,
                    connects, disowned, lastRead >>

\* ExecQuery's inner loop: SQLGetData fills the chunk and says more is to come
\* until the last piece.
ReadCell(size) ==
    LET acc[left \in 0 .. size] ==
          IF left > CHUNK THEN CHUNK + acc[left - CHUNK] ELSE left
    IN  acc[size]

ExecQuery(size) ==
    /\ m_connected /\ link
    /\ lastRead' = [size |-> size, got |-> ReadCell(size)]
    /\ UNCHANGED << m_connected, m_inTxn, driverVars, written,
                    connects, promised, disowned >>

-----------------------------------------------------------------------------
\* bool BeginTransaction(): autocommit goes off; on a broken link that fails.
BeginTransaction ==
    /\ m_connected /\ ~m_inTxn /\ link
    /\ dbAutocommit' = FALSE
    /\ m_inTxn' = TRUE
    /\ UNCHANGED << m_connected, link, dbOpenRows, dbRows, written,
                    connects, promised, disowned, lastRead >>

\* Mutant: autocommit stays off after a commit.
CommitLeavesAutocommitOff(outcome) ==
    /\ m_inTxn /\ outcome = "ok" /\ link
    /\ dbRows' = dbRows \cup dbOpenRows
    /\ promised' = promised \cup dbOpenRows
    /\ dbOpenRows' = {} /\ m_inTxn' = FALSE
    /\ UNCHANGED << m_connected, link, dbAutocommit, written, connects,
                    disowned, lastRead >>

\* SQLEndTran, and autocommit on again whatever it returned (on a live link).
\* "unknown": the link breaks with the COMMIT under way, after it was done.
Commit(outcome) ==
    /\ m_inTxn
    /\ CASE outcome = "ok" -> link /\ UNCHANGED link
         [] outcome = "unknown" -> link /\ link' = FALSE
         [] outcome = "lost" -> ~link /\ UNCHANGED link
    /\ dbRows' = dbRows \cup dbOpenRows
    /\ promised' = IF outcome = "ok" THEN promised \cup dbOpenRows ELSE promised
    /\ dbOpenRows' = {} /\ m_inTxn' = FALSE
    /\ dbAutocommit' = IF outcome = "ok" THEN TRUE ELSE dbAutocommit
    /\ UNCHANGED << m_connected, written, connects, disowned, lastRead >>

\* bool Rollback(): after a failed Commit it does nothing, m_inTxn being off.
Rollback ==
    /\ m_inTxn
    /\ dbAutocommit' = IF link THEN TRUE ELSE dbAutocommit
    /\ disowned' = disowned \cup dbOpenRows
    /\ dbOpenRows' = {} /\ m_inTxn' = FALSE
    /\ UNCHANGED << m_connected, link, dbRows, written, connects,
                    promised, lastRead >>

Next ==
    \/ Connect \/ Destroy \/ LinkBreaks \/ ExecNonQuery
    \/ \E size \in 0 .. MAX_CELL : ExecQuery(size)
    \/ BeginTransaction
    \/ \E outcome \in {"ok", "unknown", "lost"} : Commit(outcome)
    \/ Rollback

-----------------------------------------------------------------------------
(* The flag the pool trusts is the driver's mode: while the link works, a  *)
(* connection that is not in a transaction commits every statement by      *)
(* itself, also after a Commit or Rollback that failed.                    *)
FlagIsMode == (m_connected /\ link) => (m_inTxn <=> ~dbAutocommit)

(* What was reported durable is, and what was reported rolled back is not: *)
(* a statement outside a transaction, and every row of a transaction whose *)
(* Commit returned true, survive broken links and later transactions.      *)
ReportsAreTrue == promised \subseteq dbRows /\ disowned \cap dbRows = {}

(* A cell of any size comes back whole, at and across the chunk boundary   *)
(* (the warm-restart blob is read this way).                               *)
CellsWhole == lastRead.got = lastRead.size

(* What the wrapper believes and reports is what the driver and the        *)
(* database have, over broken links and failed commits (OdbcConnection.cpp *)
(* BeginTransaction, Commit, Rollback, GetString).                         *)
OdbcInv == FlagIsMode /\ ReportsAreTrue /\ CellsWhole
=============================================================================
