------------------------------ MODULE Migrations ------------------------------
(***************************************************************************)
(* Versioned migrations (pkg/store/gorm/migrations.go): every process of   *)
(* the application runs AutoMigrate when it starts, several may start at   *)
(* once, and any of them may die at any point and be started again.        *)
(*                                                                         *)
(* Migrations are numbered in the order of GetDefaultMigrations.  Between  *)
(* processes there is only the database: the table schema_migrations, its  *)
(* primary key, and transactions.  TransactionalDDL says whether a rolled  *)
(* back transaction also undoes a schema change (PostgreSQL, SQLite) or a  *)
(* schema change commits at once (MySQL); Panicking holds the migrations   *)
(* of which a function may panic, Reversible those with a Rollback.        *)
(*                                                                         *)
(* Bound: no rollback is begun of a migration that was rolled back.        *)
(***************************************************************************)
EXTENDS Integers

CONSTANTS Processes, N, TransactionalDDL, Panicking, Reversible

ASSUME ConstantsAssumption ==
  /\ N \in Nat /\ TransactionalDDL \in BOOLEAN
  /\ Panicking \subseteq 1 .. N /\ Reversible \subseteq 1 .. N

VARIABLES
  table,      \* whether schema_migrations exists
  recorded,   \* its rows: the migrations recorded as applied
  ran,        \* history: how often the effect of each Apply was committed, less
              \* how often that of its Rollback was
  undone,     \* history: the migrations that were rolled back
  pc, at,     \* where each process is, and the migration it is at
  applied     \* the result of getAppliedMigrations in each process

vars == <<table, recorded, ran, undone, pc, at, applied>>

All == 1 .. N

Running == {"autoMigrate", "hasTable", "createTable", "getApplied", "loop", "insert",
            "commit", "rollback", "undo"}

Init ==
  /\ table = FALSE /\ recorded = {} /\ undone = {}
  /\ ran = [m \in All |-> 0]
  /\ pc = [p \in Processes |-> "idle"]
  /\ at = [p \in Processes |-> 1]
  /\ applied = [p \in Processes |-> {}]

GoTo(p, stage) == pc' = [pc EXCEPT ![p] = stage]

\* The call is over, and its local variables are gone.
Stop(p, stage) ==
  /\ GoTo(p, stage)
  /\ at' = [at EXCEPT ![p] = 1]
  /\ applied' = [applied EXCEPT ![p] = {}]

\* Mutant of StatementFails: the loop of Migrate goes on after an error.
ErrorSwallowed(p) ==
  /\ pc[p] \in {"insert", "commit"}
  /\ GoTo(p, "loop")
  /\ at' = [at EXCEPT ![p] = @ + 1]
  /\ UNCHANGED <<table, recorded, ran, applied, undone>>

\* Any statement may fail, and its error ends the call; or the process dies.
\* Either way an open transaction is rolled back, and its locks are freed.
StatementFails(p) ==
  /\ pc[p] \in Running
  /\ Stop(p, "idle")
  /\ UNCHANGED <<table, recorded, ran, undone>>

Start(p) ==
  /\ pc[p] = "idle"
  /\ GoTo(p, "autoMigrate")
  /\ UNCHANGED <<table, recorded, ran, undone, at, applied>>

\* db.AutoMigrate makes the engine's own tables; createMigrationsTable is next.
AutoMigrate(p) ==
  /\ pc[p] = "autoMigrate"
  /\ GoTo(p, "hasTable")
  /\ UNCHANGED <<table, recorded, ran, undone, at, applied>>

HasTable(p) ==
  /\ pc[p] = "hasTable"
  /\ GoTo(p, IF table THEN "getApplied" ELSE "createTable")
  /\ UNCHANGED <<table, recorded, ran, undone, at, applied>>

\* CREATE TABLE fails when another process was faster.
CreateTable(p) ==
  /\ pc[p] = "createTable"
  /\ table' = TRUE
  /\ IF table THEN Stop(p, "idle")
              ELSE GoTo(p, "getApplied") /\ UNCHANGED <<at, applied>>
  /\ UNCHANGED <<recorded, ran, undone>>

GetApplied(p) ==
  /\ pc[p] = "getApplied"
  /\ applied' = [applied EXCEPT ![p] = recorded]
  /\ GoTo(p, "loop")
  /\ UNCHANGED <<table, recorded, ran, at, undone>>

\* Mutant of Skip: the loop steps over whatever is not pending, its end included.
SkipPastTheEnd(p) ==
  /\ pc[p] = "loop" /\ at[p] \notin All \ applied[p]
  /\ at' = [at EXCEPT ![p] = @ + 1]
  /\ UNCHANGED <<table, recorded, ran, pc, applied, undone>>

Skip(p) ==
  /\ pc[p] = "loop" /\ at[p] \in All \cap applied[p]
  /\ at' = [at EXCEPT ![p] = @ + 1]
  /\ UNCHANGED <<table, recorded, ran, pc, applied, undone>>

Return(p) ==
  /\ pc[p] = "loop" /\ at[p] > N
  /\ Stop(p, "returned")
  /\ UNCHANGED <<table, recorded, ran, undone>>

\* The effect of Apply, where it does not wait for the commit.
RanNow(m) == IF TransactionalDDL THEN ran ELSE [ran EXCEPT ![m] = @ + 1]

\* applyMigration: Begin, and Apply inside the transaction.
Apply(p) ==
  /\ pc[p] = "loop" /\ at[p] \in All \ applied[p]
  /\ ran' = RanNow(at[p])
  /\ GoTo(p, "insert")
  /\ UNCHANGED <<table, recorded, at, applied, undone>>

\* The deferred recover rolls back, and applyMigration returns nil all the same:
\* its result has no name, so it is the zero value, and the loop goes on.
ApplyPanics(p) ==
  /\ pc[p] = "loop" /\ at[p] \in Panicking \ applied[p]
  /\ at' = [at EXCEPT ![p] = @ + 1]
  /\ UNCHANGED <<table, recorded, ran, pc, applied, undone>>

\* Mutant of InsertRecord: the record is one that may be there already.
InsertOrKeepRecord(p) ==
  /\ pc[p] = "insert"
  /\ GoTo(p, "commit")
  /\ UNCHANGED <<table, recorded, ran, undone, at, applied>>

\* Mutant of InsertRecord: it waits for others that wait to insert the same key.
InsertBehindWaiting(p) ==
  /\ pc[p] = "insert"
  /\ \A q \in Processes \ {p} : pc[q] \in {"insert", "commit", "undo"} => at[q] # at[p]
  /\ IF at[p] \in recorded THEN Stop(p, "idle")
                           ELSE GoTo(p, "commit") /\ UNCHANGED <<at, applied>>
  /\ UNCHANGED <<table, recorded, ran, undone>>

\* The insert waits for an open transaction that inserts or deletes the same key,
\* and fails on a committed row that has it.
InsertRecord(p) ==
  /\ pc[p] = "insert"
  /\ \A q \in Processes : pc[q] \in {"commit", "undo"} => at[q] # at[p]
  /\ IF at[p] \in recorded THEN Stop(p, "idle")
                           ELSE GoTo(p, "commit") /\ UNCHANGED <<at, applied>>
  /\ UNCHANGED <<table, recorded, ran, undone>>

\* A commit that succeeds is acknowledged, or reported as an error.
Commit(p) ==
  /\ pc[p] = "commit"
  /\ recorded' = recorded \cup {at[p]}
  /\ ran' = IF TransactionalDDL THEN [ran EXCEPT ![at[p]] = @ + 1] ELSE ran
  /\ \/ GoTo(p, "loop") /\ at' = [at EXCEPT ![p] = @ + 1] /\ UNCHANGED applied
     \/ Stop(p, "idle")
  /\ UNCHANGED <<table, undone>>

\* RollbackMigration finds its migration, recorded or not, whatever was applied
\* after it.
BeginRollback(p) ==
  /\ pc[p] = "idle"
  /\ \E m \in Reversible \ undone : at' = [at EXCEPT ![p] = m]
  /\ GoTo(p, "rollback")
  /\ UNCHANGED <<table, recorded, ran, undone, applied>>

\* The Rollback function waits for another one on the same schema, and fails on a
\* schema without its change; then the record is deleted.
Rollback(p) ==
  /\ pc[p] = "rollback"
  /\ \A q \in Processes : pc[q] = "undo" => at[q] # at[p]
  /\ IF ran[at[p]] = 0
       THEN Stop(p, "idle") /\ UNCHANGED ran
       ELSE /\ GoTo(p, "undo") /\ UNCHANGED <<at, applied>>
            /\ ran' = IF TransactionalDDL THEN ran ELSE [ran EXCEPT ![at[p]] = @ - 1]
  /\ UNCHANGED <<table, recorded, undone>>

\* As in applyMigration, the recover leaves nil to be returned.
RollbackPanics(p) ==
  /\ pc[p] = "rollback" /\ at[p] \in Panicking
  /\ Stop(p, "idle")
  /\ UNCHANGED <<table, recorded, ran, undone>>

\* Mutant of CommitRollback: the DELETE is forgotten.
CommitRollbackOnly(p) ==
  /\ pc[p] = "undo"
  /\ undone' = undone \cup {at[p]}
  /\ ran' = IF TransactionalDDL THEN [ran EXCEPT ![at[p]] = @ - 1] ELSE ran
  /\ Stop(p, "idle")
  /\ UNCHANGED <<table, recorded>>

CommitRollback(p) ==
  /\ pc[p] = "undo"
  /\ recorded' = recorded \ {at[p]}
  /\ undone' = undone \cup {at[p]}
  /\ ran' = IF TransactionalDDL THEN [ran EXCEPT ![at[p]] = @ - 1] ELSE ran
  /\ Stop(p, "idle")
  /\ UNCHANGED table

\* It makes the table if there is none, and reads.
GetMigrationStatus(p) ==
  /\ pc[p] = "idle" /\ table' = TRUE
  /\ UNCHANGED <<recorded, ran, undone, pc, at, applied>>

\* The next start-up begins from nothing but the database.
Restart(p) ==
  /\ pc[p] = "returned"
  /\ GoTo(p, "idle")
  /\ UNCHANGED <<table, recorded, ran, undone, at, applied>>

\* What a process does by itself when nothing goes wrong.
Advance(p) ==
  \/ AutoMigrate(p) \/ HasTable(p) \/ CreateTable(p) \/ GetApplied(p)
  \/ Skip(p) \/ Return(p) \/ Apply(p) \/ InsertRecord(p) \/ Commit(p)
  \/ Rollback(p) \/ CommitRollback(p)

Next == \E p \in Processes :
  \/ Start(p) \/ BeginRollback(p) \/ GetMigrationStatus(p)
  \/ Advance(p) \/ ApplyPanics(p) \/ RollbackPanics(p)
  \/ StatementFails(p) \/ Restart(p)

\* A process that has started goes on; starting, failing and restarting are the
\* environment's.  The database serves the statements that wait for a key or for
\* the schema in turn, so that one of them cannot be overtaken for ever by
\* transactions of others that are opened and rolled back again: hence SF for them.
Fairness ==
  \A p \in Processes :
    WF_vars(Advance(p)) /\ SF_vars(InsertRecord(p)) /\ SF_vars(Rollback(p))

Spec == Init /\ [][Next]_vars /\ Fairness

-----------------------------------------------------------------------------
(***************************************************************************)
(* Properties.                                                             *)
(***************************************************************************)
TypeOK ==
  /\ table \in BOOLEAN
  /\ recorded \subseteq All /\ undone \subseteq All
  /\ ran \in [All -> Nat]
  /\ pc \in [Processes -> {"idle", "returned"} \cup Running]
  /\ at \in [Processes -> 1 .. N + 1]
  /\ applied \in [Processes -> SUBSET All]

\* docs/implementation.md:250, "each migration runs exactly once": its effect is
\* there once if it is recorded, and not at all if it is not, or not any more.
RecordedIsRun ==
  \A m \in All : ran[m] = IF m \in recorded THEN 1 ELSE 0

Excused == Panicking \cup undone

\* Migrations are recorded in their order: none before one it builds on, unless
\* that one panicked or was rolled back, which RollbackMigration does to any.
RecordedInOrder ==
  \A m \in recorded : (1 .. m) \ Excused \subseteq recorded

\* A RunMigrations that returned nil has found or made every migration, but for
\* those that panic and those that were rolled back.
ReturnedMeansMigrated ==
  \A p \in Processes : pc[p] = "returned" => All \ Excused \subseteq recorded

\* No process waits for ever for another's transaction.
MigrateEnds ==
  \A p \in Processes : pc[p] \in Running ~> pc[p] \notin Running

\* migrations.go:26, "runs all pending versioned migrations": one that could not
\* be run is an error.
ReturnedMeansAllRan ==
  \A p \in Processes : pc[p] = "returned" => All \ undone \subseteq recorded
=============================================================================
