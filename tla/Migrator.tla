------------------------------ MODULE Migrator ------------------------------
(***************************************************************************)
(* The migration jobs of deployments: each loads the migrations of its     *)
(* release and applies them one transaction at a time, under an advisory   *)
(* lock and with a ledger of what has been applied.                        *)
(*                                                                         *)
(* Jobs of several releases may run at once; one may be killed or run out  *)
(* of its minute between any two statements, and may be started again.     *)
(* PostgreSQL is external: DDL is transactional, a session that ends rolls *)
(* back and gives its lock back, and of two sessions that create the same  *)
(* table at once one fails.                                                *)
(***************************************************************************)
EXTENDS Integers

CONSTANTS
  Jobs,        \* migration jobs
  Releases,    \* names of releases
  Directory,   \* Directory[r]: the migration files of release r
  Versions,    \* version numbers of files
  Names,       \* their names
  MaxStarts,   \* bound: starts of one job
  None         \* nobody

Migration == [version : Versions, name : Names]
File == [version : Versions, name : Names, empty : BOOLEAN]

ASSUME DirectoryAssumption ==
  /\ Versions \subseteq Int
  /\ Directory \in [Releases -> SUBSET File]
  /\ None \notin Jobs

VARIABLES
  table,       \* whether the table schema_migrations is there
  ledger,      \* its committed rows
  runs,        \* history: how often the SQL of a migration took effect
  jobs,        \* jobs[j]: where the job is
  owner        \* who holds the advisory lock

vars == <<table, ledger, runs, jobs, owner>>

-----------------------------------------------------------------------------
(* done: the version the loop has reached; fresh: the transaction has run  *)
(* a migration.                                                            *)
Steps == {"idle", "looking", "creating", "begin", "locking", "reading", "applying",
          "recording", "committing", "applied", "failed"}
Job == [step : Steps, release : Releases, done : Versions \cup {0}, fresh : BOOLEAN, starts : Nat]

Locked == {"reading", "applying", "recording", "committing"}

TypeOK ==
  /\ table \in BOOLEAN
  /\ ledger \subseteq Migration
  /\ runs \in [Migration -> Nat]
  /\ jobs \in [Jobs -> Job]
  /\ owner \in Jobs \cup {None}
  /\ \A j \in Jobs : jobs[j].step \in Locked <=> owner = j

Init ==
  /\ table = FALSE
  /\ ledger = {}
  /\ runs = [m \in Migration |-> 0]
  /\ \E r \in Releases :
       jobs = [j \in Jobs |-> [step |-> "idle", release |-> r, done |-> 0, fresh |-> FALSE, starts |-> 0]]
  /\ owner = None

At(j, step) == jobs[j].step = step
SetJob(j, fields) == jobs' = [jobs EXCEPT ![j] = fields]
Go(j, step) == SetJob(j, [jobs[j] EXCEPT !.step = step])
Unlock(j) == owner' = IF owner = j THEN None ELSE owner

-----------------------------------------------------------------------------
(* LoadMigrations: an empty file, a version that is not positive or two    *)
(* files of one version are errors, and so is a directory without any.     *)
Loads(r) ==
  /\ Directory[r] # {}
  /\ \A f \in Directory[r] : f.version > 0 /\ ~f.empty
  /\ \A f, g \in Directory[r] : f.version = g.version => f = g

Listed(r) == {[version |-> f.version, name |-> f.name] : f \in Directory[r]}

(* Mutant: the version that is done is the next again.                     *)
IsNextMutant(j, m) ==
  /\ m \in Listed(jobs[j].release) /\ m.version >= jobs[j].done
  /\ \A n \in Listed(jobs[j].release) : n.version >= jobs[j].done => m.version <= n.version

(* The loop goes through the versions in ascending order.                  *)
IsNext(j, m) ==
  /\ m \in Listed(jobs[j].release) /\ m.version > jobs[j].done
  /\ \A n \in Listed(jobs[j].release) : n.version > jobs[j].done => m.version <= n.version

Start(j, r) ==
  /\ jobs[j].step \in {"idle", "applied", "failed"} /\ jobs[j].starts < MaxStarts
  /\ SetJob(j, [step |-> IF Loads(r) THEN "looking" ELSE "failed", release |-> r, done |-> 0,
                fresh |-> FALSE, starts |-> jobs[j].starts + 1])
  /\ UNCHANGED <<table, ledger, runs, owner>>

(* CREATE TABLE IF NOT EXISTS, outside the advisory lock: it looks, ...    *)
LookForLedger(j) ==
  /\ At(j, "looking")
  /\ Go(j, IF table THEN "begin" ELSE "creating")
  /\ UNCHANGED <<table, ledger, runs, owner>>

(* ... and creates, which fails if another session has been quicker.       *)
CreateLedger(j) ==
  /\ At(j, "creating")
  /\ table' = TRUE
  /\ Go(j, IF table THEN "failed" ELSE "begin")
  /\ UNCHANGED <<ledger, runs, owner>>

BeginMigration(j) ==
  /\ At(j, "begin")
  /\ Go(j, IF \E m \in Listed(jobs[j].release) : IsNext(j, m) THEN "locking" ELSE "applied")
  /\ UNCHANGED <<table, ledger, runs, owner>>

LockLedger(j) ==
  /\ At(j, "locking") /\ owner = None
  /\ owner' = j
  /\ Go(j, "reading")
  /\ UNCHANGED <<table, ledger, runs>>

(* The select of applyOne, which sees what the last owner committed.       *)
ReadLedger(j, m) ==
  /\ At(j, "reading") /\ IsNext(j, m)
  /\ \/ m \in ledger /\ Go(j, "committing") /\ UNCHANGED owner
     \/ /\ m \notin ledger /\ \E n \in ledger : n.version = m.version
        /\ Go(j, "failed") /\ Unlock(j)
     \/ (\A n \in ledger : n.version # m.version) /\ Go(j, "applying") /\ UNCHANGED owner
  /\ UNCHANGED <<table, ledger, runs>>

(* Mutant: the SQL takes effect before the transaction commits, as it      *)
(* would on another connection of a pool, or with a COMMIT of its own.     *)
RunSQLMutant(j, m) ==
  /\ At(j, "applying") /\ IsNext(j, m)
  /\ Go(j, "recording")
  /\ runs' = [runs EXCEPT ![m] = @ + 1]
  /\ UNCHANGED <<table, ledger, owner>>

RunSQL(j, m) ==
  /\ At(j, "applying") /\ IsNext(j, m)
  /\ \/ Go(j, "recording") /\ UNCHANGED owner
     \/ Go(j, "failed") /\ Unlock(j)
  /\ UNCHANGED <<table, ledger, runs>>

(* The insert of the row, which the primary key may refuse.                *)
RecordMigration(j, m) ==
  /\ At(j, "recording") /\ IsNext(j, m)
  /\ IF \E n \in ledger : n.version = m.version
     THEN Go(j, "failed") /\ Unlock(j)
     ELSE SetJob(j, [jobs[j] EXCEPT !.step = "committing", !.fresh = TRUE]) /\ UNCHANGED owner
  /\ UNCHANGED <<table, ledger, runs>>

(* Mutant: the transaction's advisory lock is taken for the session's and  *)
(* kept until the job ends, and the next one asks again.                   *)
CommitMigrationMutant(j, m) ==
  /\ At(j, "committing") /\ IsNext(j, m)
  /\ SetJob(j, [jobs[j] EXCEPT !.step = "begin", !.done = m.version, !.fresh = FALSE])
  /\ IF jobs[j].fresh
     THEN ledger' = ledger \cup {m} /\ runs' = [runs EXCEPT ![m] = @ + 1]
     ELSE UNCHANGED <<ledger, runs>>
  /\ UNCHANGED <<table, owner>>

(* What the transaction wrote takes effect together; the job may not live  *)
(* to hear of it.                                                          *)
CommitMigration(j, m) ==
  /\ At(j, "committing") /\ IsNext(j, m)
  /\ \/ SetJob(j, [jobs[j] EXCEPT !.step = "begin", !.done = m.version, !.fresh = FALSE])
     \/ SetJob(j, [jobs[j] EXCEPT !.step = "failed", !.fresh = FALSE])
  /\ IF jobs[j].fresh
     THEN ledger' = ledger \cup {m} /\ runs' = [runs EXCEPT ![m] = @ + 1]
     ELSE UNCHANGED <<ledger, runs>>
  /\ Unlock(j)
  /\ UNCHANGED table

(* The job is killed, loses its connection or runs out of time.            *)
Interrupt(j) ==
  /\ jobs[j].step \notin {"idle", "applied", "failed"}
  /\ SetJob(j, [jobs[j] EXCEPT !.step = "failed", !.fresh = FALSE])
  /\ Unlock(j)
  /\ UNCHANGED <<table, ledger, runs>>

Step(j) ==
  \/ LookForLedger(j) \/ CreateLedger(j) \/ BeginMigration(j) \/ LockLedger(j)
  \/ \E m \in Migration :
       ReadLedger(j, m) \/ RunSQL(j, m) \/ RecordMigration(j, m) \/ CommitMigration(j, m)

Next ==
  \E j \in Jobs : Step(j) \/ Interrupt(j) \/ \E r \in Releases : Start(j, r)

(* A job that can go on does; starts and interruptions just happen.        *)
Spec == Init /\ [][Next]_vars /\ \A j \in Jobs : WF_vars(Step(j))

-----------------------------------------------------------------------------
(* Whatever jobs of whatever releases overlap, and wherever one of them is *)
(* cut off: the SQL of a migration has taken effect exactly once if it is  *)
(* in the ledger and never if it is not, a version has one name, and what  *)
(* a job has passed is applied, so that a release reported as applied is   *)
(* in the database file for file (migrator.go:74-129, main.go:37).         *)
LedgerIsTheSchema ==
  /\ \A m \in Migration : runs[m] = IF m \in ledger THEN 1 ELSE 0
  /\ \A m, n \in ledger : m.version = n.version => m = n
  /\ \A j \in Jobs : \A m \in Listed(jobs[j].release) :
       m.version \in 1..jobs[j].done \/ At(j, "applied") => m \in ledger

(* Every job ends: nobody waits for the advisory lock for ever, since      *)
(* whoever holds it goes on or loses it with its session.                  *)
JobsEnd ==
  \A j \in Jobs : []<>(jobs[j].step \in {"idle", "applied", "failed"})

=============================================================================
