----------------------------- MODULE MigrationProofs -----------------------------
(***************************************************************************)
(* Proofs about the schema migration, for any number of callers and any list *)
(* of new columns.                                                           *)
(***************************************************************************)
EXTENDS SchemaMigration, TLAPS

\* RUN_COLUMNS is a finite list.
LEMMA LengthIsNat == N \in Nat
BY MigrationAssumption DEF N

\* What MigrationInv says of the database, and of one caller.
DatabaseOK ==
  /\ table \in BOOLEAN /\ complete \in BOOLEAN
  /\ columns \in SUBSET AllColumns
  /\ columns # {} => table
  /\ complete => table /\ columns = AllColumns
CallersType ==
  /\ at \in [Callers -> Statements]
  /\ existing \in [Callers -> SUBSET AllColumns]
  /\ next \in [Callers -> 1..(N + 1)]
CallerOK(c) ==
  /\ at[c] # "start" => table
  /\ at[c] \in {"start", "table_info"} => next[c] = 1
  /\ existing[c] \subseteq columns
  /\ at[c] = "columns" => \A j \in 1..(next[c] - 1) : NewColumns[j] \in columns
  /\ at[c] \in {"rest", "ready"} => columns = AllColumns
  /\ at[c] = "ready" => complete

\* MigrationInv, in its parts.
LEMMA InvByParts ==
  MigrationInv <=> DatabaseOK /\ CallersType /\ \A c \in Callers : CallerOK(c)
BY Zenon DEF MigrationInv, MigrationTypeOK, DatabaseOK, CallersType, CallerOK

\* The parts, of the next state.
LEMMA InvByPartsNext ==
  MigrationInv' <=> DatabaseOK' /\ CallersType' /\ \A c \in Callers : CallerOK(c)'
BY Zenon DEF MigrationInv, MigrationTypeOK, DatabaseOK, CallersType, CallerOK

\* Any database a caller can find satisfies MigrationInv.
LEMMA InvStart == MigrationInit => MigrationInv
<1> SUFFICES ASSUME MigrationInit PROVE MigrationInv
  OBVIOUS
<1>1. DatabaseOK
  <2>1. CASE table
    BY <2>1, Zenon DEF MigrationInit, DatabaseOK
  <2>2. CASE ~table
    BY <2>2, Zenon DEF MigrationInit, DatabaseOK
  <2> QED
    BY <2>1, <2>2
<1>2. CallersType
  BY LengthIsNat DEF MigrationInit, CallersType, Statements
<1>3. \A c \in Callers : CallerOK(c)
  BY DEF MigrationInit, CallerOK
<1> QED
  BY <1>1, <1>2, <1>3, InvByParts

\* A step that only moves one caller on: what it leaves behind, it has.
LEMMA MoveOn ==
  ASSUME MigrationInv, UNCHANGED dbVars, NEW c \in Callers,
         \A d \in Callers \ {c} :
           at'[d] = at[d] /\ existing'[d] = existing[d] /\ next'[d] = next[d],
         CallersType', at[c] # "start",
         existing'[c] \subseteq columns,
         at'[c] = "columns" => \A j \in 1..(next'[c] - 1) : NewColumns[j] \in columns,
         at'[c] \in {"rest", "ready"} => columns = AllColumns,
         at'[c] \notin {"start", "table_info", "ready"}
  PROVE  MigrationInv'
<1>1. table' = table /\ columns' = columns /\ complete' = complete
  BY Zenon DEF dbVars
<1>2. DatabaseOK /\ CallersType /\ \A d \in Callers : CallerOK(d)
  BY InvByParts
<1>3. DatabaseOK'
  BY <1>1, <1>2, Zenon DEF DatabaseOK
<1>4. ASSUME NEW d \in Callers PROVE CallerOK(d)'
  <2>1. CASE d = c
    BY <1>1, <1>2, <2>1 DEF CallerOK
  <2>2. CASE d # c
    <3>1. at'[d] = at[d] /\ existing'[d] = existing[d] /\ next'[d] = next[d] /\ CallerOK(d)
      BY <1>2, <2>2
    <3> QED
      BY <1>1, <3>1 DEF CallerOK
  <2> QED
    BY <2>1, <2>2
<1> QED
  BY <1>3, <1>4, InvByPartsNext

\* Every statement of a caller keeps MigrationInv.
LEMMA InvStep == MigrationInv /\ [MigrationNext]_migrationVars => MigrationInv'
<1> SUFFICES ASSUME MigrationInv, [MigrationNext]_migrationVars PROVE MigrationInv'
  OBVIOUS
<1>0. DatabaseOK /\ CallersType /\ \A d \in Callers : CallerOK(d)
  BY InvByParts
<1>1. CASE UNCHANGED migrationVars
  BY <1>1, Zenon DEF migrationVars, MigrationInv, MigrationTypeOK
<1>2. ASSUME NEW c \in Callers, CreateRuns(c) PROVE MigrationInv'
  <2>1. /\ table' /\ complete' = complete /\ existing' = existing /\ next' = next
        /\ at[c] = "start"
    BY <1>2, Zenon DEF CreateRuns
  <2>2. columns \subseteq columns' /\ columns' \subseteq AllColumns
    <3>1. columns' = columns \/ columns' = AllColumns
      BY <1>2, Zenon DEF CreateRuns
    <3> QED
      BY <1>0, <3>1 DEF DatabaseOK
  <2>3. DatabaseOK'
    BY <1>0, <2>1, <2>2, Zenon DEF DatabaseOK
  <2>4. CallersType'
    BY <1>0, <1>2, <2>1 DEF CreateRuns, To, CallersType, Statements
  <2>5. ASSUME NEW d \in Callers PROVE CallerOK(d)'
    <3>1. at'[d] = (IF d = c THEN "table_info" ELSE at[d])
      BY <1>0, <1>2 DEF CreateRuns, To, CallersType
    <3>2. CallerOK(d) /\ (columns = AllColumns => columns' = AllColumns)
      BY <1>0, <2>2
    <3> QED
      BY <2>1, <2>2, <3>1, <3>2 DEF CallerOK
  <2> QED
    BY <2>3, <2>4, <2>5, InvByPartsNext
<1>3. ASSUME NEW c \in Callers, TableInfo(c) PROVE MigrationInv'
  <2>1. UNCHANGED dbVars /\ at[c] = "table_info" /\ next' = next
    BY <1>3, Zenon DEF TableInfo
  <2>2. existing' = [existing EXCEPT ![c] = columns] /\ at' = [at EXCEPT ![c] = "columns"]
    BY <1>3, Zenon DEF TableInfo, To
  <2>3. columns \subseteq AllColumns /\ next[c] = 1
    BY <1>0, <2>1 DEF DatabaseOK, CallerOK
  <2>4. CallersType'
    BY <1>0, <2>1, <2>2, <2>3 DEF CallersType, Statements
  <2> QED
    BY <1>0, <2>1, <2>2, <2>3, <2>4, MoveOn DEF CallersType
<1>4. ASSUME NEW c \in Callers, Skip(c) PROVE MigrationInv'
  <2>1. /\ UNCHANGED dbVars /\ at[c] = "columns" /\ at' = at /\ existing' = existing
        /\ next[c] <= N /\ next' = [next EXCEPT ![c] = @ + 1]
        /\ NewColumns[next[c]] \in existing[c]
    BY <1>4, Zenon DEF Skip, InLoop, Column
  <2>2. CallersType'
    BY <1>0, <2>1, LengthIsNat DEF CallersType
  <2>3. \A j \in 1..(next'[c] - 1) : NewColumns[j] \in columns
    BY <1>0, <2>1 DEF CallersType, CallerOK
  <2> QED
    BY <1>0, <2>1, <2>2, <2>3, MoveOn DEF CallersType, CallerOK
<1>5. ASSUME NEW c \in Callers, AddColumn(c) PROVE MigrationInv'
  <2>1. /\ table' = table /\ complete' = complete /\ at' = at /\ existing' = existing
        /\ at[c] = "columns" /\ next[c] <= N /\ next' = [next EXCEPT ![c] = @ + 1]
        /\ columns' = columns \cup {NewColumns[next[c]]}
        /\ NewColumns[next[c]] \notin columns
    BY <1>5, Zenon DEF AddColumn, InLoop, Column
  <2>2. NewColumns[next[c]] \in AllColumns /\ table
    BY <1>0, <2>1, LengthIsNat DEF CallersType, AllColumns, CallerOK
  <2>3. columns' \subseteq AllColumns /\ columns # AllColumns
    BY <1>0, <2>1, <2>2 DEF DatabaseOK
  <2>4. DatabaseOK'
    BY <1>0, <2>1, <2>2, <2>3, Zenon DEF DatabaseOK
  <2>5. CallersType'
    BY <1>0, <2>1, LengthIsNat DEF CallersType
  <2>6. ASSUME NEW d \in Callers PROVE CallerOK(d)'
    <3>1. next'[d] = (IF d = c THEN next[d] + 1 ELSE next[d]) /\ CallerOK(d)
      BY <1>0, <2>1 DEF CallersType
    <3>2. ASSUME at[d] = "columns", NEW j \in 1..(next'[d] - 1)
          PROVE  NewColumns[j] \in columns'
      BY <1>0, <2>1, <3>1, <3>2 DEF CallersType, CallerOK
    <3>3. at[d] \notin {"rest", "ready"}
      BY <2>3, <3>1 DEF CallerOK
    <3>4. at[d] \in {"start", "table_info"} => d # c
      BY <2>1
    <3> QED
      BY <2>1, <3>1, <3>2, <3>3, <3>4 DEF CallerOK
  <2> QED
    BY <2>4, <2>5, <2>6, InvByPartsNext
<1>6. ASSUME NEW c \in Callers, DuplicateColumn(c) \/ Stop(c) PROVE MigrationInv'
  <2>1. /\ UNCHANGED dbVars /\ existing' = existing /\ next' = next /\ at[c] # "start"
        /\ at' = [at EXCEPT ![c] = "failed"] \/ at' = [at EXCEPT ![c] = "dead"]
    BY <1>6 DEF DuplicateColumn, InLoop, Stop, Busy, To
  <2>2. CallersType'
    BY <1>0, <2>1 DEF CallersType, Statements
  <2> QED
    BY <1>0, <2>1, <2>2, MoveOn DEF CallersType, CallerOK
<1>7. ASSUME NEW c \in Callers, EndLoop(c) PROVE MigrationInv'
  <2>1. /\ UNCHANGED dbVars /\ existing' = existing /\ next' = next
        /\ at[c] = "columns" /\ next[c] = N + 1 /\ at' = [at EXCEPT ![c] = "rest"]
    BY <1>7, Zenon DEF EndLoop, To
  <2>2. CallersType'
    BY <1>0, <2>1 DEF CallersType, Statements
  <2>3. columns = AllColumns
    BY <1>0, <2>1, LengthIsNat DEF CallerOK, DatabaseOK, AllColumns
  <2> QED
    BY <1>0, <2>1, <2>2, <2>3, MoveOn DEF CallersType, CallerOK
<1>8. ASSUME NEW c \in Callers, CreateRest(c) PROVE MigrationInv'
  <2>1. /\ complete' /\ table' = table /\ columns' = columns
        /\ existing' = existing /\ next' = next
    BY <1>8, Zenon DEF CreateRest
  <2>2. at[c] = "rest" /\ at' = [at EXCEPT ![c] = "ready"]
    BY <1>8, Zenon DEF CreateRest, To
  <2>3. columns = AllColumns /\ table
    BY <1>0, <2>2 DEF CallerOK
  <2>4. complete' \in BOOLEAN
    BY <1>8, Zenon DEF CreateRest
  <2>5. DatabaseOK'
    BY <1>0, <2>1, <2>3, <2>4, Zenon DEF DatabaseOK
  <2>6. CallersType'
    BY <1>0, <2>1, <2>2 DEF CallersType, Statements
  <2>7. ASSUME NEW d \in Callers PROVE CallerOK(d)'
    <3>1. CallerOK(d) /\ at'[d] = (IF d = c THEN "ready" ELSE at[d])
      BY <1>0, <2>2 DEF CallersType
    <3> QED
      BY <2>1, <2>3, <3>1 DEF CallerOK
  <2> QED
    BY <2>5, <2>6, <2>7, InvByPartsNext
<1> QED
  BY <1>1, <1>2, <1>3, <1>4, <1>5, <1>6, <1>7, <1>8 DEF MigrationNext

\* The inductive invariant: what each caller has left behind in its loop is there.
THEOREM MigrationInvariance == MigrationSpec => []MigrationInv
BY InvStart, InvStep, PTL DEF MigrationSpec

\* Whoever gets through initialize_audit_store finds every column, whatever the database
\* was and whoever else migrates it.
THEOREM MigrationReady == MigrationSpec => []ReadyIsComplete
<1>1. MigrationInv => ReadyIsComplete
  <2> SUFFICES ASSUME MigrationInv, NEW c \in Callers, at[c] = "ready"
               PROVE  table /\ columns = AllColumns /\ complete
    BY DEF ReadyIsComplete
  <2> QED
    BY InvByParts DEF CallerOK
<1> QED
  BY <1>1, MigrationInvariance, PTL

--------------------------------------------------------------------------------
(* FailureNeedsRival *)

\* What a lone caller finds there and did not read, it added itself.
LoneOK(c) ==
  at[c] = "columns" /\ (\A d \in Callers \ {c} : at[d] = "start") =>
    \A x \in columns \ existing[c] : \E j \in 1..(next[c] - 1) : x = NewColumns[j]

RivalInv == FailureNeedsRival /\ \A c \in Callers : LoneOK(c)

Acts(c) ==
  \/ CreateRuns(c) \/ TableInfo(c) \/ Skip(c) \/ AddColumn(c) \/ DuplicateColumn(c)
  \/ EndLoop(c) \/ CreateRest(c) \/ Stop(c)

\* A caller that acts has begun, was not finished, and moves nobody else.
LEMMA ActsAlone ==
  ASSUME CallersType, NEW c \in Callers, Acts(c)
  PROVE  /\ at'[c] # "start" /\ at[c] # "failed"
         /\ \A d \in Callers \ {c} : at'[d] = at[d]
<1>1. CASE CreateRuns(c)
  BY <1>1 DEF CreateRuns, To, CallersType
<1>2. CASE TableInfo(c)
  BY <1>2 DEF TableInfo, To, CallersType
<1>3. CASE Skip(c)
  BY <1>3 DEF Skip, InLoop, CallersType
<1>4. CASE AddColumn(c)
  BY <1>4 DEF AddColumn, InLoop, CallersType
<1>5. CASE DuplicateColumn(c)
  BY <1>5 DEF DuplicateColumn, InLoop, To, CallersType
<1>6. CASE EndLoop(c)
  BY <1>6 DEF EndLoop, To, CallersType
<1>7. CASE CreateRest(c)
  BY <1>7 DEF CreateRest, To, CallersType
<1>8. CASE Stop(c)
  BY <1>8 DEF Stop, Busy, To, CallersType
<1> QED
  BY <1>1, <1>2, <1>3, <1>4, <1>5, <1>6, <1>7, <1>8 DEF Acts

\* LoneOK is kept by the steps of the caller it is about.
LEMMA LoneStep ==
  ASSUME MigrationInv, NEW c \in Callers, Acts(c), LoneOK(c)
  PROVE  LoneOK(c)'
<1> SUFFICES ASSUME at'[c] = "columns", \A d \in Callers \ {c} : at'[d] = "start",
                    NEW x \in columns', x \notin existing'[c]
             PROVE  \E j \in 1..(next'[c] - 1) : x = NewColumns[j]
  BY DEF LoneOK
<1>0. CallersType /\ \A d \in Callers \ {c} : at[d] = "start"
  BY InvByParts, ActsAlone
<1>1. CASE TableInfo(c)
  BY <1>0, <1>1 DEF TableInfo, dbVars, CallersType
<1>2. CASE Skip(c)
  <2>1. at[c] = "columns" /\ columns' = columns /\ existing' = existing
        /\ next[c] \in Nat /\ next'[c] = next[c] + 1
    BY <1>0, <1>2, LengthIsNat DEF Skip, InLoop, dbVars, CallersType
  <2>2. \E j \in 1..(next[c] - 1) : x = NewColumns[j]
    BY <1>0, <2>1 DEF LoneOK
  <2> QED
    BY <2>1, <2>2
<1>3. CASE AddColumn(c)
  <2>1. at[c] = "columns" /\ columns' = columns \cup {NewColumns[next[c]]}
        /\ existing' = existing /\ next[c] \in Nat \ {0} /\ next'[c] = next[c] + 1
    BY <1>0, <1>3, LengthIsNat DEF AddColumn, InLoop, Column, CallersType
  <2>2. CASE x = NewColumns[next[c]]
    BY <2>1, <2>2
  <2>3. CASE x \in columns
    <3>1. \E j \in 1..(next[c] - 1) : x = NewColumns[j]
      BY <1>0, <2>1, <2>3 DEF LoneOK
    <3> QED
      BY <2>1, <3>1
  <2> QED
    BY <2>1, <2>2, <2>3
<1>4. CASE CreateRuns(c) \/ DuplicateColumn(c) \/ EndLoop(c) \/ CreateRest(c) \/ Stop(c)
  BY <1>0, <1>4 DEF CreateRuns, DuplicateColumn, EndLoop, CreateRest, Stop, To, CallersType
<1> QED
  BY <1>1, <1>2, <1>3, <1>4 DEF Acts

\* A lone caller meets no column it has not read: it has each column once on its list.
LEMMA LoneNeverFails ==
  ASSUME MigrationInv, NEW c \in Callers, DuplicateColumn(c), LoneOK(c)
  PROVE  \E d \in Callers \ {c} : at[d] # "start"
<1> SUFFICES ASSUME \A d \in Callers \ {c} : at[d] = "start" PROVE FALSE
  OBVIOUS
<1>1. /\ at[c] = "columns" /\ next[c] \in 1..N
      /\ NewColumns[next[c]] \in columns \ existing[c]
  BY InvByParts, LengthIsNat DEF DuplicateColumn, InLoop, Column, CallersType
<1>2. PICK j \in 1..(next[c] - 1) : NewColumns[next[c]] = NewColumns[j]
  BY <1>1 DEF LoneOK
<1>3. j \in 1..N /\ j # next[c]
  BY <1>1, LengthIsNat
<1> QED
  BY <1>1, <1>2, <1>3, MigrationAssumption DEF N

\* Every statement of a caller keeps RivalInv.
LEMMA RivalStep ==
  MigrationInv /\ RivalInv /\ [MigrationNext]_migrationVars => RivalInv'
<1> SUFFICES ASSUME MigrationInv, RivalInv, [MigrationNext]_migrationVars PROVE RivalInv'
  OBVIOUS
<1>1. CASE UNCHANGED migrationVars
  BY <1>1 DEF migrationVars, RivalInv, FailureNeedsRival, LoneOK
<1>2. ASSUME NEW e \in Callers, Acts(e) PROVE RivalInv'
  <2>1. /\ at'[e] # "start" /\ at[e] # "failed"
        /\ \A d \in Callers \ {e} : at'[d] = at[d]
    BY <1>2, InvByParts, ActsAlone
  <2>2. ASSUME NEW c \in Callers PROVE LoneOK(c)'
    <3>1. CASE c = e
      BY <1>2, <3>1, LoneStep DEF RivalInv
    <3>2. CASE c # e
      BY <2>1, <3>2 DEF LoneOK
    <3> QED
      BY <3>1, <3>2
  <2>3. ASSUME NEW c \in Callers, at'[c] = "failed"
        PROVE  \E d \in Callers \ {c} : at'[d] # "start"
    <3>1. CASE c # e
      BY <2>1, <3>1
    <3>2. CASE c = e
      <4>1. DuplicateColumn(c)
        BY <1>2, <2>1, <2>3, <3>2, InvByParts
           DEF Acts, CreateRuns, TableInfo, Skip, AddColumn, EndLoop, CreateRest, Stop, To,
               CallersType, InLoop
      <4>2. \E d \in Callers \ {c} : at[d] # "start"
        BY <4>1, LoneNeverFails DEF RivalInv
      <4> QED
        BY <2>1, <3>2, <4>2
    <3> QED
      BY <3>1, <3>2
  <2> QED
    BY <2>2, <2>3 DEF RivalInv, FailureNeedsRival
<1> QED
  BY <1>1, <1>2, Zenon DEF MigrationNext, Acts

\* No operation fails in the migration but for another that runs at the same time: the
\* migration of a lone caller can be stopped anywhere and taken up again.
THEOREM MigrationNeedsRival == MigrationSpec => []FailureNeedsRival
<1>1. MigrationInit => RivalInv
  BY DEF MigrationInit, RivalInv, FailureNeedsRival, LoneOK
<1>2. RivalInv => FailureNeedsRival
  BY DEF RivalInv
<1> QED
  BY <1>1, <1>2, RivalStep, MigrationInvariance, PTL DEF MigrationSpec

--------------------------------------------------------------------------------
(* Callers that migrate at the same time. *)

\* Somebody who did not fail is past column i.
Ahead(i) == \E d \in Callers : at[d] # "failed" /\ next[d] > i

\* Whatever a caller in its loop did not find, and whatever it failed at, somebody who did
\* not fail has left behind.
ThroughInv ==
  \A c \in Callers :
    /\ at[c] = "columns" =>
         \A i \in 1..N : NewColumns[i] \in columns \ existing[c] => Ahead(i)
    /\ at[c] = "failed" => Ahead(next[c])

\* Nobody goes back; whoever begins its loop has just read the columns.
LEMMA ActsForward ==
  ASSUME MigrationInv, NEW e \in Callers, Acts(e)
  PROVE  /\ \A d \in Callers : d # e => at'[d] = at[d] /\ next'[d] = next[d]
                                            /\ existing'[d] = existing[d]
         /\ next'[e] >= next[e] /\ at[e] # "failed"
         /\ at'[e] = "failed" => DuplicateColumn(e) /\ next'[e] = next[e]
         /\ at'[e] = "columns" =>
              \/ existing'[e] = columns /\ columns' = columns
              \/ at[e] = "columns" /\ existing'[e] = existing[e]
<1>1. CallersType
  BY InvByParts
<1>2. next[e] \in Nat
  BY <1>1, LengthIsNat DEF CallersType
<1>3. CASE CreateRuns(e)
  BY <1>1, <1>2, <1>3 DEF CreateRuns, To, CallersType
<1>4. CASE TableInfo(e)
  BY <1>1, <1>2, <1>4 DEF TableInfo, To, dbVars, CallersType
<1>5. CASE Skip(e)
  BY <1>1, <1>2, <1>5 DEF Skip, InLoop, CallersType
<1>6. CASE AddColumn(e)
  BY <1>1, <1>2, <1>6 DEF AddColumn, InLoop, CallersType
<1>7. CASE DuplicateColumn(e)
  BY <1>1, <1>2, <1>7 DEF DuplicateColumn, InLoop, To, CallersType
<1>8. CASE EndLoop(e)
  BY <1>1, <1>2, <1>8 DEF EndLoop, To, CallersType
<1>9. CASE CreateRest(e)
  BY <1>1, <1>2, <1>9 DEF CreateRest, To, CallersType
<1>10. CASE Stop(e)
  BY <1>1, <1>2, <1>10 DEF Stop, Busy, To, CallersType
<1> QED
  BY <1>3, <1>4, <1>5, <1>6, <1>7, <1>8, <1>9, <1>10 DEF Acts

\* A column that has just been added is behind the caller that added it.
LEMMA ActsAdds ==
  ASSUME MigrationInv, NEW e \in Callers, Acts(e), NEW i \in 1..N,
         NewColumns[i] \in columns', NewColumns[i] \notin columns
  PROVE  \/ at'[e] # "failed" /\ next'[e] > i
         \/ \A d \in Callers : at[d] # "columns"
<1>1. CallersType /\ \A d \in Callers : CallerOK(d)
  BY InvByParts
<1>2. CASE CreateRuns(e)
  <2>1. ~table
    BY <1>2 DEF CreateRuns
  <2> QED BY <1>1, <2>1 DEF CallerOK
<1>3. CASE AddColumn(e)
  <2>1. /\ next[e] \in 1..N /\ NewColumns[i] = NewColumns[next[e]]
        /\ next'[e] = next[e] + 1 /\ at'[e] = "columns"
    BY <1>1, <1>3, LengthIsNat DEF AddColumn, InLoop, Column, CallersType
  <2>2. i = next[e]
    BY <2>1, MigrationAssumption DEF N
  <2> QED BY <2>1, <2>2, LengthIsNat
<1>4. columns' = columns \/ CreateRuns(e) \/ AddColumn(e)
  BY DEF Acts, TableInfo, Skip, DuplicateColumn, EndLoop, CreateRest, Stop, dbVars
<1> QED BY <1>2, <1>3, <1>4

\* Whoever is ahead stays ahead, or fails at a column that somebody else has left behind.
LEMMA AheadStays ==
  ASSUME MigrationInv, ThroughInv, NEW e \in Callers, Acts(e), NEW i \in 1..(N + 1), Ahead(i)
  PROVE  Ahead(i)'
<1>1. CallersType /\ \A d \in Callers : next[d] \in Nat
  BY InvByParts, LengthIsNat DEF CallersType
<1>2. PICK d \in Callers : at[d] # "failed" /\ next[d] > i
  BY DEF Ahead
<1>3. CASE d = e /\ at'[e] = "failed"
  <2>1. /\ at[e] = "columns" /\ next[e] \in 1..N /\ next'[e] = next[e]
        /\ NewColumns[next[e]] \in columns \ existing[e]
    BY <1>1, <1>3, ActsForward, LengthIsNat DEF DuplicateColumn, InLoop, Column, CallersType
  <2>2. PICK f \in Callers : at[f] # "failed" /\ next[f] > next[e]
    BY <2>1 DEF ThroughInv, Ahead
  <2>3. f # e
    BY <1>1, <2>2
  <2>4. at'[f] = at[f] /\ next'[f] = next[f]
    BY <2>3, ActsForward
  <2>5. next[f] > i
    BY <1>1, <1>2, <1>3, <2>2, LengthIsNat
  <2> QED BY <2>2, <2>4, <2>5 DEF Ahead
<1>4. CASE d = e /\ at'[e] # "failed"
  <2>1. next'[e] >= next[e] /\ next'[e] \in Nat
    <3>1. MigrationInv'
      BY InvStep DEF Acts, MigrationNext
    <3> QED BY <3>1, ActsForward, InvByPartsNext, LengthIsNat DEF CallersType
  <2>2. next'[e] > i
    BY <1>1, <1>2, <1>4, <2>1, LengthIsNat
  <2> QED BY <1>4, <2>2 DEF Ahead
<1>5. CASE d # e
  <2>1. at'[d] = at[d] /\ next'[d] = next[d]
    BY <1>5, ActsForward
  <2> QED BY <1>2, <2>1 DEF Ahead
<1> QED BY <1>3, <1>4, <1>5

\* A step of a caller keeps ThroughInv.
LEMMA ThroughStep ==
  MigrationInv /\ ThroughInv /\ [MigrationNext]_migrationVars => ThroughInv'
<1> SUFFICES ASSUME MigrationInv, ThroughInv, [MigrationNext]_migrationVars
             PROVE  ThroughInv'
  OBVIOUS
<1>1. CASE UNCHANGED migrationVars
  BY <1>1 DEF migrationVars, ThroughInv, Ahead
<1>2. ASSUME NEW e \in Callers, Acts(e), NEW c \in Callers
      PROVE  /\ at'[c] = "columns" =>
                  \A i \in 1..N : NewColumns[i] \in columns' \ existing'[c] => Ahead(i)'
             /\ at'[c] = "failed" => Ahead(next[c])' /\ next'[c] = next[c]
  <2>1. ASSUME at'[c] = "columns", NEW i \in 1..N, NewColumns[i] \in columns',
               NewColumns[i] \notin existing'[c]
        PROVE  Ahead(i)'
    <3>1. /\ c = e => \/ existing'[c] = columns /\ columns' = columns
                      \/ at[c] = "columns" /\ existing'[c] = existing[c]
          /\ c # e => at[c] = "columns" /\ existing'[c] = existing[c]
      BY <1>2, <2>1, ActsForward
    <3>2. at[c] = "columns" /\ existing'[c] = existing[c]
      BY <2>1, <3>1
    <3>3. CASE NewColumns[i] \in columns
      <4>1. Ahead(i) /\ i \in 1..(N + 1)
        BY <2>1, <3>2, <3>3, LengthIsNat DEF ThroughInv
      <4> QED BY <1>2, <4>1, AheadStays
    <3>4. CASE NewColumns[i] \notin columns
      <4>1. at'[e] # "failed" /\ next'[e] > i
        BY <1>2, <2>1, <3>2, <3>4, ActsAdds
      <4> QED BY <1>2, <4>1 DEF Ahead
    <3> QED BY <3>3, <3>4
  <2>2. ASSUME at'[c] = "failed" PROVE Ahead(next[c])' /\ next'[c] = next[c]
    <3>1. next[c] \in 1..(N + 1)
      BY InvByParts DEF CallersType
    <3>2. Ahead(next[c])
      <4>1. CASE c = e
        <5>1. DuplicateColumn(c)
          BY <1>2, <2>2, <4>1, ActsForward
        <5>2. at[c] = "columns" /\ next[c] \in 1..N /\ NewColumns[next[c]] \in columns \ existing[c]
          BY <3>1, <5>1, LengthIsNat DEF DuplicateColumn, InLoop, Column
        <5> QED BY <5>2 DEF ThroughInv
      <4>2. CASE c # e
        BY <1>2, <2>2, <4>2, ActsForward DEF ThroughInv
      <4> QED BY <4>1, <4>2
    <3>3. next'[c] = next[c]
      BY <1>2, <2>2, ActsForward
    <3>4. Ahead(next[c])'
      <4>1. PICK j \in 1..(N + 1) : j = next[c]
        BY <3>1
      <4>2. Ahead(j)'
        BY <1>2, <3>2, <4>1, AheadStays
      <4> QED BY <3>3, <4>1, <4>2
    <3> QED BY <3>3, <3>4
  <2> QED BY <2>1, <2>2
<1>3. ASSUME NEW e \in Callers, Acts(e) PROVE ThroughInv'
  BY <1>2, <1>3 DEF ThroughInv, Ahead
<1> QED
  BY <1>1, <1>3, Zenon DEF MigrationNext, Acts

\* Callers that migrate at the same time can make each other fail, but never all of them:
\* once everybody has finished, somebody has got through.
THEOREM MigrationSomebodyThrough == MigrationSpec => []SomebodyGetsThrough
<1>1. MigrationInit => ThroughInv
  BY DEF MigrationInit, ThroughInv
<1>2. MigrationInv /\ ThroughInv => SomebodyGetsThrough
  <2> SUFFICES ASSUME MigrationInv, ThroughInv,
                      \A c \in Callers : at[c] \in {"start", "ready", "failed"},
                      NEW c \in Callers, at[c] # "start", at[c] # "ready"
               PROVE  \E d \in Callers : at[d] = "ready"
    BY DEF SomebodyGetsThrough
  <2>1. PICK d \in Callers : at[d] # "failed" /\ next[d] > next[c]
    BY DEF ThroughInv, Ahead
  <2>2. CallersType /\ CallerOK(d)
    BY InvByParts
  <2>3. at[d] # "start"
    BY <2>1, <2>2, LengthIsNat DEF CallersType, CallerOK
  <2> QED BY <2>1, <2>3
<1> QED
  BY <1>1, <1>2, ThroughStep, MigrationInvariance, PTL DEF MigrationSpec
================================================================================
