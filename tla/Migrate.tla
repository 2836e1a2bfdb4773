------------------------------- MODULE Migrate -------------------------------
(***************************************************************************)
(* DB.Migrate (src/db/db.go, lines 93-193) across process restarts.        *)
(*                                                                         *)
(* Migrate reads the recorded migration numbers if the migrations table    *)
(* exists, then for each schema file in order that is not recorded runs   *)
(* the file with one pool.Exec (executeMigration) and records its number   *)
(* with a second, separate pool.Exec.  A file's statements run one after  *)
(* the other, outside any transaction, so a failure or a crash keeps the  *)
(* statements before it.  Re-running a statement that is already applied *)
(* is harmless when it is idempotent (CREATE ... IF NOT EXISTS) and an     *)
(* error otherwise (ALTER TABLE ADD COLUMN, CREATE INDEX).  The first      *)
(* file creates the migrations table.  The database file survives a crash; *)
(* Migrate's local state does not.                                         *)
(***************************************************************************)
EXTENDS Naturals, Sequences

CONSTANTS
    Files,           \* the sorted schema files: Seq([stmts : Seq(BOOLEAN)]), TRUE = idempotent
    MaxCrashes,      \* process crashes over a behaviour
    MaxCheckErrors,  \* failures of the sqlite_master query other than ErrNoRows
    MaxRuns          \* Migrate calls after a successful one (later server starts)

N == Len(Files)
Stmts(k) == Files[k].stmts

VARIABLES
    applied,      \* persisted: statements of each file applied to the schema
    recorded,     \* persisted: numbers in the migrations table
    pc,           \* "check", "run", "done" or "failed"
    executed,     \* executedMigrations, loaded at the start of the call
    i, s,         \* the file and the statement being run
    shipped,      \* files embedded in the running binary: Files[1..shipped]
    crashes, checkErrors, runs

vars == <<applied, recorded, pc, executed, i, s, shipped, crashes, checkErrors, runs>>

MigrationsTableExists == applied[1] >= 1

-----------------------------------------------------------------------------
(* A new database, or one migrated by an earlier release that had the     *)
(* first j files.                                                          *)
Init ==
    /\ \E j \in 0..N :
          /\ applied = [k \in 1..N |-> IF k <= j THEN Len(Stmts(k)) ELSE 0]
          /\ recorded = 1..j
          /\ shipped \in j..N
    /\ pc = "check" /\ executed = {} /\ i = 1 /\ s = 1
    /\ crashes = 0 /\ checkErrors = 0 /\ runs = 0

\* SELECT migration_number FROM migrations, when the table exists
LoadExecuted == executed' = IF MigrationsTableExists THEN recorded ELSE {}

(* The sqlite_master query: found (load) or ErrNoRows (nothing to load). *)
Check ==
    /\ pc = "check"
    /\ LoadExecuted
    /\ pc' = "run" /\ i' = 1 /\ s' = 1
    /\ UNCHANGED <<shipped, applied, recorded, crashes, checkErrors, runs>>

(* Any other error of that query is logged as "migrations table not found" *)
(* and every migration is run.                                             *)
CheckError ==
    /\ pc = "check" /\ checkErrors < MaxCheckErrors
    /\ checkErrors' = checkErrors + 1
    /\ executed' = {}
    /\ pc' = "run" /\ i' = 1 /\ s' = 1
    /\ UNCHANGED <<shipped, applied, recorded, crashes, runs>>

Skip ==
    /\ pc = "run" /\ i <= shipped /\ i \in executed
    /\ i' = i + 1 /\ s' = 1
    /\ UNCHANGED <<shipped, applied, recorded, pc, executed, crashes, checkErrors, runs>>

(* executeMigration: the next statement of the file. *)
ExecStmt ==
    /\ pc = "run" /\ i <= shipped /\ i \notin executed /\ s <= Len(Stmts(i))
    /\ IF applied[i] >= s /\ ~Stmts(i)[s]
       THEN /\ pc' = "failed" /\ UNCHANGED <<applied, s>>
       ELSE /\ applied' = [applied EXCEPT ![i] = IF @ >= s THEN @ ELSE s]
            /\ s' = s + 1 /\ UNCHANGED pc
    /\ UNCHANGED <<shipped, recorded, executed, i, crashes, checkErrors, runs>>

\* mutant: the INSERT swapped before executeMigration; the loop would then
\* run the file, so the file is recorded here and stays current
RecordFileFirst ==
    /\ pc = "run" /\ i <= shipped /\ i \notin executed /\ s = 1
    /\ i \notin recorded
    /\ recorded' = recorded \cup {i}
    /\ UNCHANGED <<shipped, applied, pc, executed, i, s, crashes, checkErrors, runs>>

(* INSERT INTO migrations, after the whole file has run. *)
RecordFile ==
    /\ pc = "run" /\ i <= shipped /\ i \notin executed /\ s > Len(Stmts(i))
    /\ recorded' = recorded \cup {i}
    /\ i' = i + 1 /\ s' = 1
    /\ UNCHANGED <<shipped, applied, pc, executed, crashes, checkErrors, runs>>

Finish ==
    /\ pc = "run" /\ i > shipped
    /\ pc' = "done"
    /\ UNCHANGED <<shipped, applied, recorded, executed, i, s, crashes, checkErrors, runs>>

(* The process dies inside Migrate; the next start calls Migrate again. *)
Crash ==
    /\ pc \in {"check", "run"} /\ crashes < MaxCrashes
    /\ crashes' = crashes + 1
    /\ pc' = "check" /\ executed' = {} /\ i' = 1 /\ s' = 1
    /\ UNCHANGED <<shipped, applied, recorded, checkErrors, runs>>

(* A later start of the server, possibly of a release with more files,    *)
(* calls Migrate on the migrated database.                                 *)
Rerun ==
    /\ pc = "done" /\ runs < MaxRuns
    /\ runs' = runs + 1
    /\ shipped' \in shipped..N
    /\ pc' = "check" /\ executed' = {} /\ i' = 1 /\ s' = 1
    /\ UNCHANGED <<applied, recorded, crashes, checkErrors>>

Next ==
    \/ Check \/ CheckError \/ Skip \/ ExecStmt \/ RecordFile \/ Finish
    \/ Crash \/ Rerun

Spec == Init /\ [][Next]_vars

-----------------------------------------------------------------------------
(* A Migrate call that returns nil leaves every file of the running binary *)
(* applied in full and recorded, whatever crashes, failed sqlite_master    *)
(* queries and upgrades came before: a file it skipped as recorded was     *)
(* recorded by an earlier call only after its Exec had run, and a file    *)
(* applied but left unrecorded by a crash never ends in a nil return.      *)
DoneMeansMigrated ==
    pc = "done" =>
        \A k \in 1..shipped : k \in recorded /\ applied[k] = Len(Stmts(k))

(* spec 8.4: Migrate can be run again, after a successful run or after an  *)
(* interrupted one, and it never fails on the schema it left behind.       *)
MigrateNeverFails == pc # "failed"
====
