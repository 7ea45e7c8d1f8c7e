----------------------------- MODULE SchemaMigration -----------------------------
(***************************************************************************)
(* initialize_audit_store and _ensure_run_columns of audit.py.  Every        *)
(* operation of the audit store begins with them, in whatever worker thread  *)
(* or process it runs, on a connection of its own.  sqlite3 opens no         *)
(* transaction for DDL, so each CREATE and each ALTER is committed by        *)
(* itself, and conn.commit() at the end has nothing left to commit.          *)
(***************************************************************************)
EXTENDS Integers, Sequences

CONSTANTS Callers,      \* operations of the audit store; each runs once
          NewColumns    \* the columns of RUN_COLUMNS that an older table may lack

ASSUME MigrationAssumption ==
  /\ NewColumns \in Seq(STRING)
  /\ \A i, j \in 1..Len(NewColumns) : NewColumns[i] = NewColumns[j] => i = j

VARIABLES table,     \* is there a table runs
          columns,   \* the new columns it has
          complete,  \* are the table events and the two indexes there
          at,        \* the statement a caller is at
          existing,  \* what its PRAGMA table_info found
          next       \* the column its loop is at
migrationVars == <<table, columns, complete, at, existing, next>>
dbVars == <<table, columns, complete>>

N == Len(NewColumns)
AllColumns == {NewColumns[i] : i \in 1..N}

Statements == {"start", "table_info", "columns", "rest", "ready", "failed", "dead"}
Busy(c) == at[c] \in {"table_info", "columns", "rest"}

MigrationTypeOK ==
  /\ table \in BOOLEAN /\ complete \in BOOLEAN
  /\ columns \in SUBSET AllColumns
  /\ at \in [Callers -> Statements]
  /\ existing \in [Callers -> SUBSET AllColumns]
  /\ next \in [Callers -> 1..(N + 1)]

\* No database yet, or one an older version left: any of the new columns may be missing,
\* those an interrupted migration added included.  Indexes on columns that are not there
\* do not exist either.
MigrationInit ==
  /\ table \in BOOLEAN
  /\ columns \in IF table THEN SUBSET AllColumns ELSE {{}}
  /\ complete \in IF columns = AllColumns /\ table THEN BOOLEAN ELSE {FALSE}
  /\ at = [c \in Callers |-> "start"]
  /\ existing = [c \in Callers |-> {}]
  /\ next = [c \in Callers |-> 1]

To(c, statement) == at' = [at EXCEPT ![c] = statement]

\* CREATE TABLE IF NOT EXISTS runs: the table of today, or nothing.
CreateRuns(c) ==
  /\ at[c] = "start"
  /\ table' = TRUE
  /\ columns' = IF table THEN columns ELSE AllColumns
  /\ To(c, "table_info")
  /\ UNCHANGED <<complete, existing, next>>

\* Seeded fault: a table that is there is taken for the table of today.
TableInfoTrusted(c) ==
  /\ at[c] = "table_info"
  /\ existing' = [existing EXCEPT ![c] = AllColumns]
  /\ To(c, "columns")
  /\ UNCHANGED <<dbVars, next>>

\* Seeded fault: only a table without any of the new columns is taken for an older one.
TableInfoAllOrNothing(c) ==
  /\ at[c] = "table_info"
  /\ existing' = [existing EXCEPT ![c] = IF columns = AllColumns THEN columns ELSE {}]
  /\ To(c, "columns")
  /\ UNCHANGED <<dbVars, next>>

TableInfo(c) ==
  /\ at[c] = "table_info"
  /\ existing' = [existing EXCEPT ![c] = columns]
  /\ To(c, "columns")
  /\ UNCHANGED <<dbVars, next>>

\* Seeded fault: a loop over set(RUN_COLUMNS), whose order another process does not share.
HashedColumn(c) ==
  IF c = CHOOSE d \in Callers : TRUE THEN NewColumns[N + 1 - next[c]] ELSE NewColumns[next[c]]

\* The loop over RUN_COLUMNS.
Column(c) == NewColumns[next[c]]
InLoop(c) == at[c] = "columns" /\ next[c] <= N

Skip(c) ==
  /\ InLoop(c)
  /\ Column(c) \in existing[c]
  /\ next' = [next EXCEPT ![c] = @ + 1]
  /\ UNCHANGED <<dbVars, at, existing>>

AddColumn(c) ==
  /\ InLoop(c)
  /\ Column(c) \notin existing[c] \cup columns
  /\ columns' = columns \cup {Column(c)}
  /\ next' = [next EXCEPT ![c] = @ + 1]
  /\ UNCHANGED <<table, complete, at, existing>>

\* ALTER TABLE ADD COLUMN of a column that somebody added since the PRAGMA: "duplicate
\* column name".  Nothing catches it: the operation fails.
DuplicateColumn(c) ==
  /\ InLoop(c)
  /\ Column(c) \in columns \ existing[c]
  /\ To(c, "failed")
  /\ UNCHANGED <<dbVars, existing, next>>

EndLoop(c) ==
  /\ at[c] = "columns" /\ next[c] = N + 1
  /\ To(c, "rest")
  /\ UNCHANGED <<dbVars, existing, next>>

\* Table events and the two indexes, each IF NOT EXISTS; the indexes need their columns.
CreateRest(c) ==
  /\ at[c] = "rest"
  /\ complete' = TRUE
  /\ To(c, "ready")
  /\ UNCHANGED <<table, columns, existing, next>>

\* The process is stopped between two statements, or one of them raises for another reason
\* (a lock that is not released in time).
Stop(c) ==
  /\ Busy(c)
  /\ To(c, "dead")
  /\ UNCHANGED <<dbVars, existing, next>>

MigrationNext ==
  \E c \in Callers :
    \/ CreateRuns(c) \/ TableInfo(c) \/ Skip(c) \/ AddColumn(c) \/ DuplicateColumn(c)
    \/ EndLoop(c) \/ CreateRest(c) \/ Stop(c)

MigrationSpec == MigrationInit /\ [][MigrationNext]_migrationVars

--------------------------------------------------------------------------------
\* Whoever gets through initialize_audit_store can name every column: the statement after
\* it (the INSERT of register_run lists them all) never meets the old schema, whoever else
\* is migrating at the time.
ReadyIsComplete ==
  \A c \in Callers : at[c] = "ready" => table /\ columns = AllColumns /\ complete

\* An operation fails here only if another one has started (in the same life of the table:
\* what a migration stopped earlier has left behind is any set of columns, from the start).  A
\* lone caller gets through whatever an older version or a migration that was stopped
\* half way left behind.
FailureNeedsRival ==
  \A c \in Callers : at[c] = "failed" => \E d \in Callers \ {c} : at[d] # "start"

\* Callers that migrate at the same time can make each other fail, but never all of them:
\* unless one was stopped, somebody has got through when everybody has finished, and the
\* schema is complete.
SomebodyGetsThrough ==
  (/\ \A c \in Callers : at[c] \in {"start", "ready", "failed"}
   /\ \E c \in Callers : at[c] # "start")
  => \E c \in Callers : at[c] = "ready"

\* The inductive invariant: in its loop a caller leaves behind only columns that are there,
\* and a database never has the indexes without their columns.
MigrationInv ==
  /\ MigrationTypeOK
  /\ (columns # {} => table) /\ (complete => table /\ columns = AllColumns)
  /\ \A c \in Callers :
       /\ at[c] # "start" => table
       /\ at[c] \in {"start", "table_info"} => next[c] = 1
       /\ existing[c] \subseteq columns
       /\ at[c] = "columns" => \A j \in 1..(next[c] - 1) : NewColumns[j] \in columns
       /\ at[c] \in {"rest", "ready"} => columns = AllColumns
       /\ at[c] = "ready" => complete
================================================================================
