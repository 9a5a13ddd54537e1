-------------------------- MODULE MigrationsProofs --------------------------
(***************************************************************************)
(* Theorems about Migrations, for any processes and any number of          *)
(* migrations.  What a process knows as applied is in the table, unless it *)
(* was rolled back since; a process has passed only migrations that are    *)
(* recorded, panicked or were rolled back; and while a transaction holds a *)
(* key to insert or to delete, nobody else does.                           *)
(***************************************************************************)
EXTENDS Migrations, TLAPS

KeysAreExclusive ==
  \A p, q \in Processes :
    /\ pc[p] = "commit" => /\ at[p] \in All \ recorded
                           /\ pc[q] = "commit" /\ at[q] = at[p] => q = p
    /\ pc[p] = "undo" => /\ at[p] \in All
                         /\ TransactionalDDL => at[p] \in recorded
                         /\ pc[q] = "undo" /\ at[q] = at[p] => q = p

PassedIsRecorded ==
  \A p \in Processes :
    /\ applied[p] \subseteq recorded \cup undone
    /\ pc[p] \in {"loop", "insert", "commit"} => (1 .. at[p] - 1) \ Excused \subseteq recorded
    /\ pc[p] \in {"idle", "returned", "autoMigrate", "hasTable", "createTable", "getApplied"} =>
         at[p] = 1
    /\ pc[p] \in {"insert", "rollback"} => at[p] \in All

IInv ==
  /\ TypeOK
  /\ KeysAreExclusive
  /\ PassedIsRecorded
  /\ RecordedInOrder
  /\ ReturnedMeansMigrated
  /\ TransactionalDDL => RecordedIsRun

LEMMA InitEstablishes == Init => IInv
  <1> SUFFICES ASSUME Init PROVE IInv
    OBVIOUS
  <1> USE ConstantsAssumption
  <1>1. TypeOK
    <2>1. at \in [Processes -> 1 .. N + 1] /\ ran \in [All -> Nat]
      BY DEF Init
    <2>2. applied \in [Processes -> SUBSET All]
      BY DEF Init
    <2> QED
      BY <2>1, <2>2 DEF Init, TypeOK
  <1>2. KeysAreExclusive /\ PassedIsRecorded
    BY DEF Init, KeysAreExclusive, PassedIsRecorded
  <1>3. RecordedInOrder /\ RecordedIsRun /\ ReturnedMeansMigrated
    BY DEF Init, RecordedInOrder, RecordedIsRun, ReturnedMeansMigrated
  <1> QED
    BY <1>1, <1>2, <1>3 DEF IInv

\* The table is as it was, and p holds no key afterwards and has moved past no
\* migration that is neither recorded nor excused.
LeavesTable(p, stage, next, known) ==
  /\ stage \in ({"idle", "returned"} \cup Running) \ {"commit", "undo"}
  /\ next \in 1 .. N + 1
  /\ known \subseteq recorded \cup undone /\ known \subseteq All
  /\ stage \in {"loop", "insert"} => (1 .. next - 1) \ Excused \subseteq recorded
  /\ stage \in {"idle", "returned", "autoMigrate", "hasTable", "createTable", "getApplied"} =>
       next = 1
  /\ stage \in {"insert", "rollback"} => next \in All
  /\ stage = "returned" => All \ Excused \subseteq recorded
  /\ pc' = [pc EXCEPT ![p] = stage]
  /\ at' = [at EXCEPT ![p] = next]
  /\ applied' = [applied EXCEPT ![p] = known]
  /\ table' \in BOOLEAN
  /\ recorded' = recorded /\ undone' = undone
  /\ ran' \in [All -> Nat]
  /\ TransactionalDDL => ran' = ran

LEMMA TableUntouched ==
  ASSUME IInv, NEW p \in Processes, NEW stage, NEW next, NEW known,
         LeavesTable(p, stage, next, known)
  PROVE  IInv'
  <1> USE DEF LeavesTable, Excused
  <1>1. TypeOK'
    BY DEF IInv, TypeOK
  <1>2. KeysAreExclusive'
    BY DEF IInv, TypeOK, KeysAreExclusive
  <1>3. PassedIsRecorded'
    BY DEF IInv, TypeOK, PassedIsRecorded
  <1>4. RecordedInOrder' /\ (TransactionalDDL => RecordedIsRun')
    BY DEF IInv, RecordedInOrder, RecordedIsRun
  <1>5. ReturnedMeansMigrated'
    BY DEF IInv, TypeOK, ReturnedMeansMigrated
  <1> QED
    BY <1>1, <1>2, <1>3, <1>4, <1>5 DEF IInv

\* A call that ends with the table as it was.
LEMMA StopStep ==
  ASSUME IInv, NEW p \in Processes, NEW stage \in {"idle", "returned"}, Stop(p, stage),
         stage = "returned" => All \ Excused \subseteq recorded,
         UNCHANGED <<recorded, ran, undone>>, table' \in BOOLEAN,
         pc[p] # "idle"
  PROVE  IInv'
  <1> USE ConstantsAssumption
  <1>1. stage = "idle" => LeavesTable(p, stage, 1, {})
    BY DEF IInv, TypeOK, LeavesTable, Stop, GoTo, Running
  <1>2. stage = "returned" => LeavesTable(p, stage, 1, {})
    BY DEF IInv, TypeOK, LeavesTable, Stop, GoTo, Running
  <1> QED
    BY <1>1, <1>2, TableUntouched

LEMMA CommitStep ==
  ASSUME IInv, NEW p \in Processes, Commit(p)
  PROVE  IInv'
  <1> USE ConstantsAssumption DEF Excused
  <1>1. /\ at[p] \in All \ recorded
        /\ recorded' = recorded \cup {at[p]}
        /\ UNCHANGED <<table, undone>>
        /\ \/ /\ pc' = [pc EXCEPT ![p] = "loop"] /\ at' = [at EXCEPT ![p] = @ + 1]
              /\ applied' = applied
           \/ /\ pc' = [pc EXCEPT ![p] = "idle"] /\ at' = [at EXCEPT ![p] = 1]
              /\ applied' = [applied EXCEPT ![p] = {}]
    BY DEF IInv, KeysAreExclusive, Commit, GoTo, Stop
  <1>2. TypeOK'
    <2>1. ran' \in [All -> Nat]
      BY <1>1 DEF Commit, IInv, TypeOK
    <2>2. at[p] + 1 \in 1 .. N + 1 /\ at \in [Processes -> 1 .. N + 1]
      BY <1>1 DEF IInv, TypeOK, All
    <2>3. at' \in [Processes -> 1 .. N + 1]
      BY <1>1, <2>2
    <2> QED
      BY <1>1, <2>1, <2>3 DEF IInv, TypeOK, Running
  <1>3. KeysAreExclusive'
    BY <1>1 DEF IInv, TypeOK, KeysAreExclusive, Commit
  <1>4. (1 .. at[p] - 1) \ Excused \subseteq recorded
    BY DEF IInv, PassedIsRecorded, Commit
  <1>5. PassedIsRecorded'
    <2>1. CASE /\ pc' = [pc EXCEPT ![p] = "loop"] /\ at' = [at EXCEPT ![p] = @ + 1]
               /\ applied' = applied
      BY <1>1, <1>4, <2>1 DEF IInv, TypeOK, PassedIsRecorded, All
    <2>2. CASE /\ pc' = [pc EXCEPT ![p] = "idle"] /\ at' = [at EXCEPT ![p] = 1]
               /\ applied' = [applied EXCEPT ![p] = {}]
      BY <1>1, <2>2 DEF IInv, TypeOK, PassedIsRecorded, All
    <2> QED
      BY <1>1, <2>1, <2>2
  <1>6. RecordedInOrder'
    <2>1. (1 .. at[p]) \ Excused \subseteq recorded \cup {at[p]}
      BY <1>1, <1>4 DEF All
    <2> QED
      BY <1>1, <2>1 DEF IInv, RecordedInOrder
  <1>7. TransactionalDDL => RecordedIsRun'
    BY <1>1 DEF IInv, TypeOK, RecordedIsRun, Commit
  <1>8. ReturnedMeansMigrated'
    BY <1>1 DEF IInv, TypeOK, ReturnedMeansMigrated
  <1> QED
    BY <1>2, <1>3, <1>5, <1>6, <1>7, <1>8 DEF IInv

LEMMA InsertStep ==
  ASSUME IInv, NEW p \in Processes, InsertRecord(p)
  PROVE  IInv'
  <1>1. at[p] \in All
    BY DEF InsertRecord, IInv, PassedIsRecorded
  <1>2. CASE at[p] \in recorded
    BY <1>2, StopStep DEF InsertRecord, IInv, TypeOK
  <1>3. CASE at[p] \notin recorded
    <2>1. pc' = [pc EXCEPT ![p] = "commit"] /\ UNCHANGED <<table, recorded, ran, undone, at, applied>>
      BY <1>3 DEF InsertRecord, GoTo
    <2>2. KeysAreExclusive'
      BY <1>1, <1>3, <2>1 DEF InsertRecord, IInv, TypeOK, KeysAreExclusive
    <2>3. /\ TypeOK' /\ RecordedInOrder' /\ ReturnedMeansMigrated'
          /\ (TransactionalDDL => RecordedIsRun')
      BY <2>1 DEF IInv, TypeOK, Running, Excused, RecordedInOrder, ReturnedMeansMigrated,
                  RecordedIsRun
    <2>4. PassedIsRecorded'
      BY <2>1 DEF InsertRecord, IInv, TypeOK, Excused, PassedIsRecorded
    <2> QED
      BY <2>2, <2>3, <2>4 DEF IInv
  <1> QED
    BY <1>2, <1>3

\* Rollback opens no gap yet: the record goes with the commit.
LEMMA RollbackStep ==
  ASSUME IInv, NEW p \in Processes, Rollback(p)
  PROVE  IInv'
  <1>1. at[p] \in All
    BY DEF Rollback, IInv, PassedIsRecorded
  <1>2. CASE ran[at[p]] = 0
    BY <1>2, StopStep DEF Rollback, IInv, TypeOK
  <1>3. CASE ran[at[p]] # 0
    <2>1. /\ pc' = [pc EXCEPT ![p] = "undo"] /\ UNCHANGED <<table, recorded, undone, at, applied>>
          /\ ran' = IF TransactionalDDL THEN ran ELSE [ran EXCEPT ![at[p]] = @ - 1]
      BY <1>3 DEF Rollback, GoTo
    <2>2. TransactionalDDL => at[p] \in recorded
      BY <1>1, <1>3 DEF IInv, RecordedIsRun
    <2>3. KeysAreExclusive'
      BY <1>1, <2>1, <2>2 DEF Rollback, IInv, TypeOK, KeysAreExclusive
    <2>4. ran' \in [All -> Nat]
      BY <1>1, <1>3, <2>1 DEF IInv, TypeOK
    <2>5. /\ TypeOK' /\ RecordedInOrder' /\ ReturnedMeansMigrated'
          /\ (TransactionalDDL => RecordedIsRun')
      BY <2>1, <2>4 DEF IInv, TypeOK, Running, Excused, RecordedInOrder,
                        ReturnedMeansMigrated, RecordedIsRun
    <2>6. PassedIsRecorded'
      BY <2>1 DEF Rollback, IInv, TypeOK, Excused, PassedIsRecorded
    <2> QED
      BY <2>3, <2>5, <2>6 DEF IInv
  <1> QED
    BY <1>2, <1>3

LEMMA CommitRollbackStep ==
  ASSUME IInv, NEW p \in Processes, CommitRollback(p)
  PROVE  IInv'
  <1> USE ConstantsAssumption DEF Excused
  <1>1. /\ pc' = [pc EXCEPT ![p] = "idle"] /\ at' = [at EXCEPT ![p] = 1]
        /\ applied' = [applied EXCEPT ![p] = {}] /\ table' = table
        /\ recorded' = recorded \ {at[p]} /\ undone' = undone \cup {at[p]}
        /\ pc[p] = "undo" /\ at[p] \in All
        /\ ran' = IF TransactionalDDL THEN [ran EXCEPT ![at[p]] = @ - 1] ELSE ran
    BY DEF CommitRollback, Stop, GoTo, IInv, KeysAreExclusive
  <1>2. TransactionalDDL => at[p] \in recorded /\ ran[at[p]] = 1
    BY <1>1 DEF IInv, KeysAreExclusive, RecordedIsRun
  <1>3. ran' \in [All -> Nat]
    BY <1>1, <1>2 DEF IInv, TypeOK
  <1>4. TypeOK'
    BY <1>1, <1>3 DEF IInv, TypeOK
  <1>5. KeysAreExclusive'
    BY <1>1 DEF IInv, TypeOK, KeysAreExclusive
  <1>6. PassedIsRecorded'
    BY <1>1 DEF IInv, TypeOK, PassedIsRecorded
  <1>7. RecordedInOrder' /\ ReturnedMeansMigrated'
    BY <1>1 DEF IInv, TypeOK, RecordedInOrder, ReturnedMeansMigrated
  <1>8. TransactionalDDL => RecordedIsRun'
    BY <1>1, <1>2 DEF IInv, TypeOK, RecordedIsRun
  <1> QED
    BY <1>4, <1>5, <1>6, <1>7, <1>8 DEF IInv

\* The steps inside the loop, and out of it at its end.
LEMMA LoopStep ==
  ASSUME IInv, NEW p \in Processes,
         Skip(p) \/ ApplyPanics(p) \/ Apply(p) \/ Return(p)
  PROVE  IInv'
  <1> USE ConstantsAssumption
  <1>1. /\ table \in BOOLEAN /\ ran \in [All -> Nat] /\ at[p] \in 1 .. N + 1
        /\ at = [at EXCEPT ![p] = at[p]]
        /\ pc = [pc EXCEPT ![p] = pc[p]]
        /\ applied = [applied EXCEPT ![p] = applied[p]] /\ applied[p] \subseteq All
        /\ applied[p] \subseteq recorded \cup undone
        /\ pc[p] = "loop"
        /\ (1 .. at[p] - 1) \ Excused \subseteq recorded
    BY DEF IInv, TypeOK, PassedIsRecorded, Skip, ApplyPanics, Apply, Return
  <1>2. ASSUME Skip(p) \/ ApplyPanics(p) PROVE IInv'
    <2>1. /\ at[p] \in recorded \cup Excused
          /\ at[p] + 1 \in 1 .. N + 1
          /\ at' = [at EXCEPT ![p] = at[p] + 1]
          /\ UNCHANGED <<table, recorded, ran, undone, pc, applied>>
      BY <1>1, <1>2 DEF Skip, ApplyPanics, All, Excused
    <2>2. (1 .. (at[p] + 1) - 1) \ Excused \subseteq recorded
      BY <1>1, <2>1
    <2>3. LeavesTable(p, "loop", at[p] + 1, applied[p])
      BY <1>1, <2>1, <2>2 DEF LeavesTable, Running
    <2> QED
      BY <2>3, TableUntouched
  <1>3. ASSUME Apply(p) PROVE IInv'
    <2>1. /\ pc' = [pc EXCEPT ![p] = "insert"] /\ at[p] \in All
          /\ UNCHANGED <<table, recorded, undone, at, applied>>
          /\ ran' = RanNow(at[p])
      BY <1>3 DEF Apply, GoTo
    <2>2. ran' \in [All -> Nat] /\ (TransactionalDDL => ran' = ran)
      BY <1>1, <2>1 DEF RanNow
    <2>3. LeavesTable(p, "insert", at[p], applied[p])
      BY <1>1, <2>1, <2>2 DEF LeavesTable, Running
    <2> QED
      BY <2>3, TableUntouched
  <1>4. ASSUME Return(p) PROVE IInv'
    <2>1. All \ Excused \subseteq recorded
      BY <1>1, <1>4 DEF Return, All
    <2> QED
      BY <1>1, <1>4, <2>1, StopStep DEF Return
  <1> QED
    BY <1>2, <1>3, <1>4

\* The steps before the loop, those that begin a call, and those that end one early.
LEMMA StraightStep ==
  ASSUME IInv, NEW p \in Processes,
         \/ Start(p) \/ AutoMigrate(p) \/ HasTable(p) \/ CreateTable(p) \/ GetApplied(p)
         \/ BeginRollback(p) \/ GetMigrationStatus(p) \/ Restart(p)
         \/ StatementFails(p) \/ RollbackPanics(p)
  PROVE  IInv'
  <1> USE ConstantsAssumption
  <1>1. /\ table \in BOOLEAN /\ ran \in [All -> Nat] /\ at[p] \in 1 .. N + 1
        /\ at = [at EXCEPT ![p] = at[p]]
        /\ pc = [pc EXCEPT ![p] = pc[p]]
        /\ applied = [applied EXCEPT ![p] = applied[p]] /\ applied[p] \subseteq All
        /\ applied[p] \subseteq recorded \cup undone /\ recorded \subseteq All
    BY DEF IInv, TypeOK, PassedIsRecorded
  <1>2. ASSUME StatementFails(p) \/ RollbackPanics(p) \/ (CreateTable(p) /\ table) PROVE IInv'
    BY <1>1, <1>2, StopStep DEF StatementFails, RollbackPanics, CreateTable, Running
  <1>3. ASSUME BeginRollback(p) PROVE IInv'
    <2>1. PICK m \in All : at' = [at EXCEPT ![p] = m]
      BY <1>3 DEF BeginRollback, All
    <2>2. m \in 1 .. N + 1
      BY <2>1 DEF All
    <2>3. LeavesTable(p, "rollback", m, applied[p])
      BY <1>1, <1>3, <2>1, <2>2 DEF LeavesTable, BeginRollback, GoTo, Running
    <2> QED
      BY <2>3, TableUntouched
  <1>4. ASSUME \/ Start(p) \/ AutoMigrate(p) \/ HasTable(p) \/ (CreateTable(p) /\ ~table)
               \/ GetApplied(p) \/ GetMigrationStatus(p) \/ Restart(p)
        PROVE IInv'
    <2>1. at[p] = 1
      BY <1>4 DEF IInv, PassedIsRecorded, Start, AutoMigrate, HasTable, CreateTable,
                  GetApplied, GetMigrationStatus, Restart
    <2>2. /\ UNCHANGED <<recorded, ran, undone, at>> /\ table' \in BOOLEAN
          /\ \E stage \in {"idle", "autoMigrate", "hasTable", "createTable", "getApplied",
                           "loop"} : pc' = [pc EXCEPT ![p] = stage]
          /\ \E known \in {applied[p], recorded} : applied' = [applied EXCEPT ![p] = known]
      BY <1>1, <1>4 DEF Start, AutoMigrate, HasTable, CreateTable, GetApplied,
                        GetMigrationStatus, Restart, GoTo
    <2>3. PICK stage \in {"idle", "autoMigrate", "hasTable", "createTable", "getApplied",
                          "loop"} : pc' = [pc EXCEPT ![p] = stage]
      BY <2>2
    <2>4. PICK known \in {applied[p], recorded} : applied' = [applied EXCEPT ![p] = known]
      BY <2>2
    <2>5. /\ known \subseteq recorded \cup undone /\ known \subseteq All
          /\ (1 .. 1 - 1) \ Excused \subseteq recorded
          /\ 1 \in 1 .. N + 1 /\ at' = [at EXCEPT ![p] = 1]
      BY <1>1, <2>1, <2>2, <2>4
    <2>6. LeavesTable(p, stage, 1, known)
      BY <1>1, <2>2, <2>3, <2>4, <2>5 DEF LeavesTable, Running
    <2> QED
      BY <2>6, TableUntouched
  <1> QED
    BY <1>2, <1>3, <1>4

LEMMA Inductive == IInv /\ [Next]_vars => IInv'
  <1> SUFFICES ASSUME IInv, [Next]_vars PROVE IInv'
    OBVIOUS
  <1> USE ConstantsAssumption
  <1>1. CASE UNCHANGED vars
    BY <1>1 DEF vars, IInv, TypeOK, KeysAreExclusive, PassedIsRecorded, RecordedInOrder,
                ReturnedMeansMigrated, RecordedIsRun, Excused
  <1>2. ASSUME NEW p \in Processes, Commit(p) PROVE IInv'
    BY <1>2, CommitStep
  <1>3. ASSUME NEW p \in Processes, InsertRecord(p) PROVE IInv'
    BY <1>3, InsertStep
  <1>4. ASSUME NEW p \in Processes, Skip(p) \/ ApplyPanics(p) \/ Apply(p) \/ Return(p)
        PROVE IInv'
    BY <1>4, LoopStep
  <1>5. ASSUME NEW p \in Processes,
               \/ Start(p) \/ AutoMigrate(p) \/ HasTable(p) \/ CreateTable(p) \/ GetApplied(p)
               \/ BeginRollback(p) \/ GetMigrationStatus(p) \/ Restart(p)
               \/ StatementFails(p) \/ RollbackPanics(p)
        PROVE IInv'
    BY <1>5, StraightStep
  <1>6. ASSUME NEW p \in Processes, Rollback(p) PROVE IInv'
    BY <1>6, RollbackStep
  <1>7. ASSUME NEW p \in Processes, CommitRollback(p) PROVE IInv'
    BY <1>7, CommitRollbackStep
  <1> QED
    BY <1>1, <1>2, <1>3, <1>4, <1>5, <1>6, <1>7 DEF Next, Advance

THEOREM Invariance == Spec => []IInv
  <1>1. Init => IInv
    BY InitEstablishes
  <1>2. IInv /\ [Next]_vars => IInv'
    BY Inductive
  <1> QED
    BY <1>1, <1>2, PTL DEF Spec

\* Every variable keeps its type: no process ever looks past the end of the list.
THEOREM TypeCorrect == Spec => []TypeOK
  <1>1. IInv => TypeOK
    BY DEF IInv
  <1> QED
    BY <1>1, Invariance, PTL

\* Where transactions cover schema changes, a migration has taken effect once if
\* it is recorded and never otherwise, whoever else starts, rolls back, fails or dies.
THEOREM EachRunsOnce ==
  ASSUME TransactionalDDL
  PROVE  Spec => []RecordedIsRun
  <1>1. IInv => RecordedIsRun
    BY DEF IInv
  <1> QED
    BY <1>1, Invariance, PTL

\* On any database, a migration is recorded after those before it, panics and
\* rollbacks apart.
THEOREM InOrder == Spec => []RecordedInOrder
  <1>1. IInv => RecordedInOrder
    BY DEF IInv
  <1> QED
    BY <1>1, Invariance, PTL

\* On any database, a start that returned nil leaves out only what panics or was
\* rolled back.
THEOREM NilMeansMigrated == Spec => []ReturnedMeansMigrated
  <1>1. IInv => ReturnedMeansMigrated
    BY DEF IInv
  <1> QED
    BY <1>1, Invariance, PTL

\* migrations.go:26 holds for migrations that do not panic: a start that returned nil
\* leaves out only what was rolled back.
THEOREM WithoutPanicsAllRan ==
  ASSUME Panicking = {}
  PROVE  Spec => []ReturnedMeansAllRan
  <1>1. ReturnedMeansMigrated => ReturnedMeansAllRan
    BY DEF ReturnedMeansMigrated, ReturnedMeansAllRan, Excused
  <1> QED
    BY <1>1, NilMeansMigrated, PTL
==============================================================================
