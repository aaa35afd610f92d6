--------------------------- MODULE MigratorProofs ---------------------------
(***************************************************************************)
(* The ledger tells the truth about the schema for any numbers of jobs and *)
(* releases, any number of starts and any interruptions.                   *)
(***************************************************************************)
EXTENDS Migrator, WellFoundedInduction, TLAPS

-----------------------------------------------------------------------------
(* The invariant.  It adds what a job knows at the end of a transaction:   *)
(* what it has run is not in the ledger, and what it has skipped is.       *)

Ahead(job, m) == m \in Listed(job.release) /\ m.version > job.done
Upcoming(job, m) == Ahead(job, m) /\ \A n \in Migration : Ahead(job, n) => m.version <= n.version

Passed(job, rows) ==
  \A m \in Listed(job.release) : m.version \in 1..job.done \/ job.step = "applied" => m \in rows

Ready(job, rows) ==
  \A m \in Migration : Upcoming(job, m) =>
    IF job.fresh THEN \A n \in rows : n.version # m.version ELSE m \in rows

Fits(job, rows) ==
  /\ job.step \notin {"idle", "applied", "failed"} => Loads(job.release)
  /\ job.fresh => job.step = "committing"
  /\ job.step = "committing" => Ready(job, rows)
  /\ Passed(job, rows)

Counted == \A m \in Migration : runs[m] = IF m \in ledger THEN 1 ELSE 0
Named == \A m, n \in ledger : m.version = n.version => m = n

IInv ==
  /\ TypeOK
  /\ Counted
  /\ Named
  /\ \A j \in Jobs : Fits(jobs[j], ledger)

-----------------------------------------------------------------------------
(* Releases.                                                               *)

LEMMA VersionsAreNumbers == Versions \cup {0} \subseteq Int
BY DirectoryAssumption

LEMMA ListedMigrations ==
  ASSUME NEW r \in Releases
  PROVE  Listed(r) \subseteq Migration
BY DirectoryAssumption DEF Listed, Migration, File

LEMMA ListedOnce ==
  ASSUME NEW r \in Releases, Loads(r), NEW m \in Listed(r), NEW n \in Listed(r)
  PROVE  m.version \in Nat /\ m.version > 0 /\ (m.version = n.version => m = n)
<1>1. PICK f \in Directory[r] : m = [version |-> f.version, name |-> f.name]
  BY DEF Listed
<1>2. PICK g \in Directory[r] : n = [version |-> g.version, name |-> g.name]
  BY DEF Listed
<1>3. f \in File
  BY DirectoryAssumption
<1>4. f.version \in Int
  BY <1>3, DirectoryAssumption DEF File
<1>5. f.version > 0 /\ (f.version = g.version => f = g)
  BY DEF Loads
<1>6. m.version = f.version /\ n.version = g.version /\ (f = g => m = n)
  BY <1>1, <1>2
<1> QED
  BY <1>4, <1>5, <1>6

LEMMA NextIsUpcoming ==
  ASSUME TypeOK, NEW j \in Jobs, NEW m \in Migration
  PROVE  IsNext(j, m) <=> Upcoming(jobs[j], m)
<1>1. jobs[j].release \in Releases
  BY DEF TypeOK, Job
<1> QED
  BY <1>1, ListedMigrations DEF IsNext, Upcoming, Ahead

(* A least element of what is still ahead, if there is anything ahead.     *)
Less == {p \in Nat \X Nat : p[1] < p[2]}

LEMMA LeastElement ==
  ASSUME NEW T, T \subseteq Nat, T # {}
  PROVE  \E n \in T : \A m \in T : n <= m
<1>1. OpToRel(<, Nat) = Less
  BY DEF OpToRel, Less
<1>2. IsWellFoundedOn(Less, Nat)
  BY <1>1, NatLessThanWellFounded, Zenon
<1>3. PICK n \in T : \A m \in T : ~ (<<m, n>> \in Less)
  BY <1>2, WFMin
<1>4. ASSUME NEW m \in T PROVE n <= m
  <2>1. <<m, n>> \in Nat \X Nat /\ ~ (<<m, n>> \in Less)
    BY <1>3
  <2> QED
    BY <2>1 DEF Less
<1> QED
  BY <1>4

LEMMA SomethingIsNext ==
  ASSUME NEW job \in Job, Loads(job.release), NEW n \in Migration, Ahead(job, n)
  PROVE  \E m \in Migration : Upcoming(job, m)
<1> DEFINE Versions0 == {m.version : m \in {x \in Migration : Ahead(job, x)}}
<1>1. job.release \in Releases
  BY DEF Job
<1>2. Versions0 \subseteq Nat
  BY <1>1, ListedOnce DEF Ahead
<1>3. Versions0 # {}
  OBVIOUS
<1>4. PICK v \in Versions0 : \A w \in Versions0 : v <= w
  BY <1>2, <1>3, LeastElement
<1>5. PICK m \in Migration : Ahead(job, m) /\ v = m.version
  OBVIOUS
<1>6. \A x \in Migration : Ahead(job, x) => m.version <= x.version
  BY <1>4, <1>5
<1> QED
  BY <1>5, <1>6 DEF Upcoming

-----------------------------------------------------------------------------
(* A step moves one job.  It leaves the database alone, or commits one     *)
(* migration while it owns the lock.                                       *)

Commits(j, m) ==
  /\ owner = j
  /\ ledger' = ledger \cup {m}
  /\ runs' = [runs EXCEPT ![m] = @ + 1]
  /\ \A n \in ledger : n.version # m.version

Moves(j, new) ==
  /\ new \in Job
  /\ jobs' = [jobs EXCEPT ![j] = new]
  /\ Fits(new, ledger')
  /\ table' \in BOOLEAN
  /\ owner' \in {owner, j, None}
  /\ new.step \in Locked <=> owner' = j
  /\ owner' # owner => owner \in {j, None}
  /\ (ledger' = ledger /\ runs' = runs) \/ \E m \in Migration : Commits(j, m)

LEMMA MovesKeepTypes ==
  ASSUME TypeOK, NEW j \in Jobs, NEW new, Moves(j, new)
  PROVE  TypeOK'
<1> USE DEF TypeOK, Moves
<1>1. jobs' \in [Jobs -> Job]
  OBVIOUS
<1>2. ledger' \subseteq Migration
  BY DEF Commits
<1>3. runs' \in [Migration -> Nat]
  BY DEF Commits
<1>4. owner' \in Jobs \cup {None}
  OBVIOUS
<1>5. ASSUME NEW k \in Jobs
      PROVE  jobs'[k].step \in Locked <=> owner' = k
  <2>1. CASE k = j
    BY <2>1
  <2>2. CASE k # j
    <3>1. jobs'[k] = jobs[k]
      BY <2>2
    <3>2. None # k /\ None # j
      BY DirectoryAssumption
    <3>3. owner' = k <=> owner = k
      BY <2>2, <3>2
    <3> QED
      BY <3>1, <3>3
  <2> QED
    BY <2>1, <2>2
<1> QED
  BY <1>1, <1>2, <1>3, <1>4, <1>5

(* Another job sees only that the ledger has grown, and nothing at all     *)
(* while it is committing itself.                                          *)
LEMMA OthersFit ==
  ASSUME NEW job, NEW rows, NEW more, Fits(job, rows), rows \subseteq more,
         job.step = "committing" => more = rows
  PROVE  Fits(job, more)
<1>1. Passed(job, more)
  BY DEF Fits, Passed
<1>2. job.step = "committing" => Ready(job, more)
  BY DEF Fits
<1> QED
  BY <1>1, <1>2 DEF Fits

LEMMA MovesKeepInvariant ==
  ASSUME IInv, NEW j \in Jobs, NEW new, Moves(j, new)
  PROVE  IInv'
<1> TypeOK
  BY DEF IInv
<1>1. TypeOK'
  BY MovesKeepTypes
<1>2. ledger \subseteq ledger' /\ (ledger' # ledger => owner = j)
  BY DEF Moves, Commits
<1>3. Counted'
  <2>1. CASE ledger' = ledger /\ runs' = runs
    BY <2>1 DEF IInv, Counted
  <2>2. CASE \E m \in Migration : Commits(j, m)
    <3>1. PICK m \in Migration : Commits(j, m)
      BY <2>2
    <3>2. m \notin ledger /\ ledger' = ledger \cup {m} /\ runs' = [runs EXCEPT ![m] = @ + 1]
      BY <3>1 DEF Commits
    <3>3. runs[m] = 0
      BY <3>2 DEF IInv, Counted
    <3>4. runs \in [Migration -> Nat]
      BY DEF TypeOK
    <3>5. \A n \in Migration : runs[n] = IF n \in ledger THEN 1 ELSE 0
      BY DEF IInv, Counted
    <3>6. \A n \in Migration : runs'[n] = IF n \in ledger' THEN 1 ELSE 0
      BY <3>2, <3>3, <3>4, <3>5
    <3> QED
      BY <3>6 DEF Counted
  <2> QED
    BY <2>1, <2>2 DEF Moves
<1>4. Named'
  BY DEF IInv, Named, Moves, Commits
<1>5. ASSUME NEW k \in Jobs
      PROVE  Fits(jobs[k], ledger)'
  <2>1. CASE k = j
    BY <2>1 DEF Moves, TypeOK
  <2>2. CASE k # j
    <3>1. jobs'[k] = jobs[k]
      BY <2>2 DEF Moves, TypeOK
    <3>2. Fits(jobs[k], ledger)
      BY DEF IInv
    <3>3. jobs[k].step = "committing" => owner = k
      BY DEF TypeOK, Locked
    <3>4. jobs[k].step = "committing" => ledger' = ledger
      BY <1>2, <2>2, <3>3
    <3>5. Fits(jobs[k], ledger')
      BY <1>2, <3>2, <3>4, OthersFit
    <3> QED
      BY <3>1, <3>5
  <2> QED
    BY <2>1, <2>2
<1> QED
  BY <1>1, <1>3, <1>4, <1>5 DEF IInv

-----------------------------------------------------------------------------
(* The actions.  Most of them only go on to another step.                  *)

To(j, step) == [jobs[j] EXCEPT !.step = step]

LEMMA GoesOn ==
  ASSUME IInv, NEW j \in Jobs, NEW step \in Steps \ {"committing", "applied"},
         jobs[j].step \notin {"idle", "applied", "failed", "committing"}
  PROVE  To(j, step) \in Job /\ To(j, step).step = step /\ Fits(To(j, step), ledger)
<1>1. jobs[j] \in Job /\ Fits(jobs[j], ledger)
  BY DEF IInv, TypeOK
<1>2. To(j, step) \in Job
  BY <1>1 DEF To, Job
<1>3. /\ To(j, step).step = step /\ To(j, step).release = jobs[j].release
      /\ To(j, step).done = jobs[j].done /\ To(j, step).fresh = jobs[j].fresh
  BY <1>1 DEF To, Job
<1>4. ~ jobs[j].fresh /\ Loads(jobs[j].release)
  BY <1>1 DEF Fits
<1>5. Passed(To(j, step), ledger)
  BY <1>1, <1>3 DEF Fits, Passed
<1> QED
  BY <1>2, <1>3, <1>4, <1>5 DEF Fits

LEMMA StartMoves ==
  ASSUME IInv, NEW j \in Jobs, NEW r \in Releases, Start(j, r)
  PROVE  \E new : Moves(j, new)
<1> DEFINE new == [step |-> IF Loads(r) THEN "looking" ELSE "failed", release |-> r, done |-> 0,
                   fresh |-> FALSE, starts |-> jobs[j].starts + 1]
<1>1. TypeOK /\ jobs[j] \in Job
  BY DEF IInv, TypeOK
<1>2. new \in Job
  BY <1>1 DEF Job, Steps
<1>3. \A m \in Listed(r) : m.version \notin 1..0
  OBVIOUS
<1>4. Fits(new, ledger)
  BY <1>3 DEF Fits, Passed
<1>5. jobs[j].step \notin Locked /\ new.step \notin Locked
  BY DEF Start, Locked
<1>6. owner # j
  BY <1>1, <1>5 DEF TypeOK
<1>7. Moves(j, new)
  BY <1>1, <1>2, <1>4, <1>5, <1>6 DEF Start, SetJob, Moves, TypeOK
<1> QED
  BY <1>7

LEMMA UnlockedMoves ==
  ASSUME IInv, NEW j \in Jobs, LookForLedger(j) \/ CreateLedger(j)
  PROVE  \E new : Moves(j, new)
<1>1. TypeOK
  BY DEF IInv
<1>2. PICK step \in {"begin", "creating", "failed"} : Go(j, step)
  BY DEF LookForLedger, CreateLedger
<1>3. jobs[j].step \in {"looking", "creating"}
  BY DEF LookForLedger, CreateLedger, At
<1>4. step \in Steps \ {"committing", "applied"} /\ step \notin Locked /\ jobs[j].step \notin Locked
  BY <1>2, <1>3 DEF Steps, Locked
<1>5. To(j, step) \in Job /\ To(j, step).step = step /\ Fits(To(j, step), ledger)
  BY <1>3, <1>4, GoesOn
<1>6. owner # j
  BY <1>1, <1>4 DEF TypeOK
<1>7. table' \in BOOLEAN /\ ledger' = ledger /\ runs' = runs /\ owner' = owner
  BY <1>1 DEF LookForLedger, CreateLedger, TypeOK
<1>8. Moves(j, To(j, step))
  BY <1>2, <1>4, <1>5, <1>6, <1>7 DEF Go, SetJob, To, Moves
<1> QED
  BY <1>8

(* A job that finds nothing more to do has passed its whole release.       *)
LEMMA BeginMoves ==
  ASSUME IInv, NEW j \in Jobs, BeginMigration(j)
  PROVE  \E new : Moves(j, new)
<1>1. TypeOK /\ jobs[j] \in Job /\ Fits(jobs[j], ledger)
  BY DEF IInv, TypeOK
<1>2. jobs[j].step = "begin" /\ Loads(jobs[j].release) /\ jobs[j].release \in Releases
  BY <1>1 DEF BeginMigration, At, Fits, Job
<1>3. owner # j /\ table' = table /\ ledger' = ledger /\ runs' = runs /\ owner' = owner
  BY <1>1, <1>2 DEF BeginMigration, TypeOK, Locked
<1>4. CASE Go(j, "locking")
  <2>1. To(j, "locking") \in Job /\ To(j, "locking").step = "locking" /\ Fits(To(j, "locking"), ledger)
    BY <1>2, GoesOn DEF Steps
  <2>2. Moves(j, To(j, "locking"))
    BY <1>1, <1>3, <1>4, <2>1 DEF Go, SetJob, To, Moves, TypeOK, Locked
  <2> QED
    BY <2>2
<1>5. CASE Go(j, "applied") /\ ~ \E m \in Listed(jobs[j].release) : IsNext(j, m)
  <2>1. /\ To(j, "applied") \in Job /\ To(j, "applied").step = "applied"
        /\ To(j, "applied").release = jobs[j].release /\ To(j, "applied").fresh = jobs[j].fresh
    BY <1>1 DEF To, Job, Steps
  <2>2. Listed(jobs[j].release) \subseteq Migration
    BY <1>2, ListedMigrations
  <2>3. \A m \in Migration : ~ Upcoming(jobs[j], m)
    BY <1>1, <1>5, NextIsUpcoming DEF IsNext
  <2>4. \A m \in Migration : ~ Ahead(jobs[j], m)
    BY <1>1, <1>2, <2>3, SomethingIsNext
  <2>5. ASSUME NEW m \in Listed(jobs[j].release) PROVE m \in ledger
    <3>1. ~ (m.version > jobs[j].done)
      BY <2>2, <2>4 DEF Ahead
    <3>2. m.version \in Nat /\ m.version > 0
      BY <1>2, ListedOnce
    <3>3. jobs[j].done \in Int
      <4>1. jobs[j].done \in Versions \cup {0}
        BY <1>1 DEF Job
      <4> QED
        BY <4>1, VersionsAreNumbers
    <3>4. m.version \in 1..jobs[j].done
      BY <3>1, <3>2, <3>3
    <3> QED
      BY <1>1, <3>4 DEF Fits, Passed
  <2>6. Fits(To(j, "applied"), ledger)
    BY <1>1, <1>2, <2>1, <2>5 DEF Fits, Passed
  <2>7. Moves(j, To(j, "applied"))
    BY <1>1, <1>3, <1>5, <2>1, <2>6 DEF Go, SetJob, To, Moves, TypeOK, Locked
  <2> QED
    BY <2>7
<1> QED
  BY <1>4, <1>5 DEF BeginMigration

LEMMA LockMoves ==
  ASSUME IInv, NEW j \in Jobs, LockLedger(j)
  PROVE  \E new : Moves(j, new)
<1>1. jobs[j].step = "locking" /\ owner = None /\ owner' = j /\ Go(j, "reading")
  BY DEF LockLedger, At
<1>2. To(j, "reading") \in Job /\ To(j, "reading").step = "reading" /\ Fits(To(j, "reading"), ledger)
  BY <1>1, GoesOn DEF Steps
<1>3. table' \in BOOLEAN /\ ledger' = ledger /\ runs' = runs
  BY DEF LockLedger, IInv, TypeOK
<1>4. Moves(j, To(j, "reading"))
  BY <1>1, <1>2, <1>3 DEF Go, SetJob, To, Moves, Locked
<1> QED
  BY <1>4

(* The next migration is one.                                              *)
LEMMA OnlyOneIsNext ==
  ASSUME NEW job \in Job, Loads(job.release), NEW m \in Migration, NEW n \in Migration,
         Upcoming(job, m), Upcoming(job, n)
  PROVE  m = n
<1>1. job.release \in Releases /\ m \in Listed(job.release) /\ n \in Listed(job.release)
  BY DEF Job, Upcoming, Ahead
<1>2. m.version <= n.version /\ n.version <= m.version
  BY DEF Upcoming
<1>3. m.version \in Nat /\ n.version \in Nat
  BY <1>1, ListedOnce
<1> QED
  BY <1>1, <1>2, <1>3, ListedOnce

(* What holds of a job at work on the migration m.                         *)
Works(j, m) ==
  /\ TypeOK /\ jobs[j] \in Job /\ Fits(jobs[j], ledger)
  /\ Loads(jobs[j].release)
  /\ owner = j /\ None # j
  /\ Upcoming(jobs[j], m)

LEMMA AtWork ==
  ASSUME IInv, NEW j \in Jobs, NEW m \in Migration, jobs[j].step \in Locked, IsNext(j, m)
  PROVE  Works(j, m)
<1>1. TypeOK /\ jobs[j] \in Job /\ Fits(jobs[j], ledger)
  BY DEF IInv, TypeOK
<1>2. Loads(jobs[j].release)
  BY <1>1 DEF Fits, Locked
<1>3. owner = j /\ None # j
  BY <1>1, DirectoryAssumption DEF TypeOK
<1> QED
  BY <1>1, <1>2, <1>3, NextIsUpcoming DEF Works

(* Failing, and with it ending the session.                                *)
LEMMA FailingMoves ==
  ASSUME IInv, NEW j \in Jobs, NEW new, jobs' = [jobs EXCEPT ![j] = new],
         new = [jobs[j] EXCEPT !.step = "failed", !.fresh = FALSE],
         jobs[j].step \notin {"idle", "applied", "failed"},
         Unlock(j), table' = table, ledger' = ledger, runs' = runs
  PROVE  Moves(j, new)
<1>1. TypeOK /\ jobs[j] \in Job /\ Fits(jobs[j], ledger)
  BY DEF IInv, TypeOK
<1>2. /\ new \in Job /\ new.step = "failed" /\ new.fresh = FALSE
      /\ new.release = jobs[j].release /\ new.done = jobs[j].done
  BY <1>1 DEF Job, Steps
<1>3. Fits(new, ledger)
  BY <1>1, <1>2 DEF Fits, Passed
<1>4. owner' \in {owner, None} /\ owner' # j /\ (owner' # owner => owner = j)
  BY DirectoryAssumption DEF Unlock
<1>5. table' \in BOOLEAN
  BY <1>1 DEF TypeOK
<1> QED
  BY <1>2, <1>3, <1>4, <1>5 DEF Moves, Locked

LEMMA FailedMoves ==
  ASSUME IInv, NEW j \in Jobs, Go(j, "failed"), jobs[j].step \in Locked \ {"committing"},
         Unlock(j), table' = table, ledger' = ledger, runs' = runs
  PROVE  \E new : Moves(j, new)
<1>1. jobs[j] \in Job /\ Fits(jobs[j], ledger)
  BY DEF IInv, TypeOK
<1>2. jobs[j].fresh = FALSE
  BY <1>1 DEF Fits, Job
<1>3. To(j, "failed") = [jobs[j] EXCEPT !.step = "failed", !.fresh = FALSE]
  BY <1>1, <1>2 DEF To, Job
<1>4. jobs' = [jobs EXCEPT ![j] = To(j, "failed")]
  BY DEF Go, SetJob, To
<1>5. Moves(j, To(j, "failed"))
  BY <1>3, <1>4, FailingMoves DEF Locked
<1> QED
  BY <1>5

(* What is in the ledger already is skipped.                               *)
LEMMA ReadMoves ==
  ASSUME IInv, NEW j \in Jobs, NEW m \in Migration, ReadLedger(j, m)
  PROVE  \E new : Moves(j, new)
<1>1. jobs[j].step = "reading" /\ IsNext(j, m) /\ table' = table /\ ledger' = ledger /\ runs' = runs
  BY DEF ReadLedger, At
<1>2. Works(j, m)
  BY <1>1, AtWork DEF Locked
<1>3. CASE m \in ledger /\ Go(j, "committing") /\ owner' = owner
  <2>1. jobs[j] \in Job /\ Fits(jobs[j], ledger) /\ ~ jobs[j].fresh
    BY <1>1, <1>2 DEF Works, Fits
  <2>2. /\ To(j, "committing") \in Job /\ To(j, "committing").step = "committing"
        /\ To(j, "committing").release = jobs[j].release
        /\ To(j, "committing").fresh = jobs[j].fresh /\ To(j, "committing").done = jobs[j].done
    BY <2>1 DEF To, Job, Steps
  <2>3. ASSUME NEW n \in Migration, Upcoming(To(j, "committing"), n) PROVE n \in ledger
    <3>1. Upcoming(jobs[j], n)
      BY <2>2, <2>3 DEF Upcoming, Ahead
    <3>2. n = m
      BY <1>2, <3>1, OnlyOneIsNext DEF Works
    <3> QED
      BY <1>3, <3>2
  <2>4. Ready(To(j, "committing"), ledger)
    BY <2>1, <2>2, <2>3 DEF Ready
  <2>5. Passed(To(j, "committing"), ledger)
    BY <1>1, <2>1, <2>2 DEF Fits, Passed
  <2>6. Fits(To(j, "committing"), ledger)
    BY <1>2, <2>1, <2>2, <2>4, <2>5 DEF Fits, Works
  <2>7. Moves(j, To(j, "committing"))
    BY <1>1, <1>2, <1>3, <2>2, <2>6 DEF Go, SetJob, To, Moves, TypeOK, Locked, Works
  <2> QED
    BY <2>7
<1>4. CASE Go(j, "failed") /\ Unlock(j)
  BY <1>1, <1>4, FailedMoves DEF Locked
<1>5. CASE Go(j, "applying") /\ owner' = owner
  <2>1. To(j, "applying") \in Job /\ To(j, "applying").step = "applying" /\ Fits(To(j, "applying"), ledger)
    BY <1>1, GoesOn DEF Steps
  <2>2. Moves(j, To(j, "applying"))
    BY <1>1, <1>2, <1>5, <2>1 DEF Go, SetJob, To, Moves, TypeOK, Locked, Works
  <2> QED
    BY <2>2
<1> QED
  BY <1>3, <1>4, <1>5 DEF ReadLedger

LEMMA RunMoves ==
  ASSUME IInv, NEW j \in Jobs, NEW m \in Migration, RunSQL(j, m)
  PROVE  \E new : Moves(j, new)
<1>1. jobs[j].step = "applying" /\ IsNext(j, m) /\ table' = table /\ ledger' = ledger /\ runs' = runs
  BY DEF RunSQL, At
<1>2. Works(j, m)
  BY <1>1, AtWork DEF Locked
<1>3. CASE Go(j, "recording") /\ owner' = owner
  <2>1. To(j, "recording") \in Job /\ To(j, "recording").step = "recording" /\ Fits(To(j, "recording"), ledger)
    BY <1>1, GoesOn DEF Steps
  <2>2. Moves(j, To(j, "recording"))
    BY <1>1, <1>2, <1>3, <2>1 DEF Go, SetJob, To, Moves, TypeOK, Locked, Works
  <2> QED
    BY <2>2
<1>4. CASE Go(j, "failed") /\ Unlock(j)
  BY <1>1, <1>4, FailedMoves DEF Locked
<1> QED
  BY <1>3, <1>4 DEF RunSQL

(* What the transaction has run has no row yet.                            *)
LEMMA RecordMoves ==
  ASSUME IInv, NEW j \in Jobs, NEW m \in Migration, RecordMigration(j, m)
  PROVE  \E new : Moves(j, new)
<1>1. jobs[j].step = "recording" /\ IsNext(j, m) /\ table' = table /\ ledger' = ledger /\ runs' = runs
  BY DEF RecordMigration, At
<1>2. Works(j, m)
  BY <1>1, AtWork DEF Locked
<1>3. CASE \E n \in ledger : n.version = m.version
  BY <1>1, <1>3, FailedMoves DEF RecordMigration, Locked
<1>4. CASE ~ \E n \in ledger : n.version = m.version
  <2> DEFINE new == [jobs[j] EXCEPT !.step = "committing", !.fresh = TRUE]
  <2>1. jobs' = [jobs EXCEPT ![j] = new] /\ owner' = owner
    BY <1>4 DEF RecordMigration, SetJob
  <2>2. jobs[j] \in Job /\ Fits(jobs[j], ledger)
    BY <1>2 DEF Works
  <2>3. /\ new \in Job /\ new.step = "committing" /\ new.fresh
        /\ new.release = jobs[j].release /\ new.done = jobs[j].done
    BY <2>2 DEF Job, Steps
  <2> HIDE DEF new
  <2>4. ASSUME NEW n \in Migration, Upcoming(new, n) PROVE \A r \in ledger : r.version # n.version
    <3>1. Upcoming(jobs[j], n)
      BY <2>3, <2>4 DEF Upcoming, Ahead
    <3>2. n = m
      BY <1>2, <3>1, OnlyOneIsNext DEF Works
    <3> QED
      BY <1>4, <3>2
  <2>5. Ready(new, ledger)
    BY <2>3, <2>4 DEF Ready
  <2>6. Passed(new, ledger)
    BY <1>1, <2>2, <2>3 DEF Fits, Passed
  <2>7. Fits(new, ledger)
    BY <1>2, <2>3, <2>5, <2>6 DEF Fits, Works
  <2>8. Moves(j, new)
    BY <1>1, <1>2, <2>1, <2>3, <2>7 DEF Moves, TypeOK, Locked, Works
  <2> QED
    BY <2>8
<1> QED
  BY <1>3, <1>4

(* The commit of the migration m, after which the job has passed it.       *)
LEMMA CommitMoves ==
  ASSUME IInv, NEW j \in Jobs, NEW m \in Migration, CommitMigration(j, m)
  PROVE  \E new : Moves(j, new)
<1>1. jobs[j].step = "committing" /\ IsNext(j, m) /\ table' = table /\ Unlock(j)
  BY DEF CommitMigration, At
<1>2. Works(j, m)
  BY <1>1, AtWork DEF Locked
<1>3. jobs[j] \in Job /\ Fits(jobs[j], ledger) /\ Upcoming(jobs[j], m) /\ Loads(jobs[j].release)
  BY <1>2 DEF Works
<1>4. IF jobs[j].fresh THEN \A n \in ledger : n.version # m.version ELSE m \in ledger
  BY <1>1, <1>3 DEF Fits, Ready
<1>5. /\ m \in ledger' /\ ledger \subseteq ledger'
      /\ (ledger' = ledger /\ runs' = runs) \/ Commits(j, m)
  BY <1>2, <1>4 DEF CommitMigration, Commits, Works
<1>6. owner' = None /\ owner = j /\ None # j
  BY <1>1, <1>2 DEF Unlock, Works
<1>7. table' \in BOOLEAN
  BY <1>1, <1>2 DEF Works, TypeOK
<1>8. m.version \in Versions
  BY DEF Migration
<1>9. CASE SetJob(j, [jobs[j] EXCEPT !.step = "begin", !.done = m.version, !.fresh = FALSE])
  <2> DEFINE new == [jobs[j] EXCEPT !.step = "begin", !.done = m.version, !.fresh = FALSE]
  <2>1. /\ new \in Job /\ new.step = "begin" /\ ~ new.fresh
        /\ new.release = jobs[j].release /\ new.done = m.version
    BY <1>3, <1>8 DEF Job, Steps
  <2>2. jobs' = [jobs EXCEPT ![j] = new]
    BY <1>9 DEF SetJob
  <2> HIDE DEF new
  <2>3. ASSUME NEW n \in Listed(jobs[j].release), n.version \in 1..m.version PROVE n \in ledger'
    <3>1. jobs[j].release \in Releases /\ m \in Listed(jobs[j].release)
      BY <1>3 DEF Job, Upcoming, Ahead
    <3>2. m.version \in Nat /\ n.version \in Nat /\ n \in Migration
      BY <1>3, <3>1, ListedOnce, ListedMigrations
    <3>3. jobs[j].done \in Int
      <4>1. jobs[j].done \in Versions \cup {0}
        BY <1>3 DEF Job
      <4> QED
        BY <4>1, VersionsAreNumbers
    <3>4. CASE Ahead(jobs[j], n)
      <4>1. m.version <= n.version
        BY <1>3, <3>2, <3>4 DEF Upcoming
      <4>2. m.version = n.version
        BY <2>3, <3>2, <4>1
      <4> QED
        BY <1>3, <1>5, <3>1, <4>2, ListedOnce
    <3>5. CASE ~ Ahead(jobs[j], n)
      <4>1. n.version \in 1..jobs[j].done
        BY <2>3, <3>2, <3>3, <3>5 DEF Ahead
      <4> QED
        BY <1>3, <1>5, <4>1 DEF Fits, Passed
    <3> QED
      BY <3>4, <3>5
  <2>4. Passed(new, ledger')
    BY <2>1, <2>3 DEF Passed
  <2>5. Fits(new, ledger')
    BY <1>3, <2>1, <2>4 DEF Fits
  <2>6. Moves(j, new)
    BY <1>5, <1>6, <1>7, <2>1, <2>2, <2>5 DEF Moves, Locked
  <2> QED
    BY <2>6
<1>10. CASE SetJob(j, [jobs[j] EXCEPT !.step = "failed", !.fresh = FALSE])
  <2> DEFINE new == [jobs[j] EXCEPT !.step = "failed", !.fresh = FALSE]
  <2>1. /\ new \in Job /\ new.step = "failed" /\ ~ new.fresh
        /\ new.release = jobs[j].release /\ new.done = jobs[j].done
    BY <1>3 DEF Job, Steps
  <2>2. jobs' = [jobs EXCEPT ![j] = new]
    BY <1>10 DEF SetJob
  <2> HIDE DEF new
  <2>3. Fits(new, ledger')
    BY <1>1, <1>3, <1>5, <2>1 DEF Fits, Passed
  <2>4. Moves(j, new)
    BY <1>5, <1>6, <1>7, <2>1, <2>2, <2>3 DEF Moves, Locked
  <2> QED
    BY <2>4
<1> QED
  BY <1>9, <1>10 DEF CommitMigration

LEMMA InterruptMoves ==
  ASSUME IInv, NEW j \in Jobs, Interrupt(j)
  PROVE  \E new : Moves(j, new)
<1> DEFINE new == [jobs[j] EXCEPT !.step = "failed", !.fresh = FALSE]
<1>1. Moves(j, new)
  BY FailingMoves DEF Interrupt, SetJob
<1> QED
  BY <1>1

-----------------------------------------------------------------------------
(* Main theorems.                                                          *)

LEMMA InvariantStarts ==
  ASSUME Init
  PROVE  IInv
<1>1. PICK r \in Releases :
        jobs = [j \in Jobs |-> [step |-> "idle", release |-> r, done |-> 0, fresh |-> FALSE, starts |-> 0]]
  BY DEF Init
<1>2. TypeOK
  <2>1. jobs \in [Jobs -> Job]
    BY <1>1 DEF Job, Steps
  <2>2. \A j \in Jobs : jobs[j].step \notin Locked /\ owner # j
    BY <1>1, DirectoryAssumption DEF Init, Locked
  <2> QED
    BY <2>1, <2>2 DEF Init, TypeOK
<1>3. ASSUME NEW j \in Jobs PROVE Fits(jobs[j], ledger)
  <2>1. jobs[j].step = "idle" /\ jobs[j].fresh = FALSE /\ jobs[j].done = 0
    BY <1>1
  <2>2. \A m \in Listed(jobs[j].release) : m.version \notin 1..0
    OBVIOUS
  <2> QED
    BY <2>1, <2>2 DEF Fits, Passed
<1> QED
  BY <1>2, <1>3 DEF Init, IInv, Counted, Named

LEMMA InvariantStays ==
  ASSUME IInv, [Next]_vars
  PROVE  IInv'
<1>1. CASE Next
  <2>1. PICK j \in Jobs : Step(j) \/ Interrupt(j) \/ \E r \in Releases : Start(j, r)
    BY <1>1 DEF Next
  <2>2. \E new : Moves(j, new)
    <3>1. CASE LookForLedger(j) \/ CreateLedger(j)
      BY <3>1, UnlockedMoves
    <3>2. CASE BeginMigration(j)
      BY <3>2, BeginMoves
    <3>3. CASE LockLedger(j)
      BY <3>3, LockMoves
    <3>4. CASE \E m \in Migration : ReadLedger(j, m)
      BY <3>4, ReadMoves
    <3>5. CASE \E m \in Migration : RunSQL(j, m)
      BY <3>5, RunMoves
    <3>6. CASE \E m \in Migration : RecordMigration(j, m)
      BY <3>6, RecordMoves
    <3>7. CASE \E m \in Migration : CommitMigration(j, m)
      BY <3>7, CommitMoves
    <3>8. CASE Interrupt(j)
      BY <3>8, InterruptMoves
    <3>9. CASE \E r \in Releases : Start(j, r)
      BY <3>9, StartMoves
    <3> QED
      BY <2>1, <3>1, <3>2, <3>3, <3>4, <3>5, <3>6, <3>7, <3>8, <3>9 DEF Step
  <2>3. PICK new : Moves(j, new)
    BY <2>2
  <2> QED
    BY <2>3, MovesKeepInvariant
<1>2. CASE UNCHANGED vars
  BY <1>2 DEF vars, IInv, TypeOK, Counted, Named
<1> QED
  BY <1>1, <1>2

(* The jobs, the ledger and the advisory lock stay of their types, and     *)
(* whoever is between the lock and the end of the transaction of applyOne  *)
(* owns the lock, alone (migrator.go:86-129).                              *)
THEOREM TypeCorrect == Spec => []TypeOK
<1>1. IInv => TypeOK
  BY DEF IInv
<1> QED
  BY <1>1, InvariantStarts, InvariantStays, PTL DEF Spec

(* For any numbers of jobs and releases, any files in them and any         *)
(* interruptions: the schema has run what the ledger says, once, and a job *)
(* has in the database whatever it has passed (migrator.go:74-129).        *)
THEOREM LedgerIsTrue == Spec => []LedgerIsTheSchema
<1>1. IInv => LedgerIsTheSchema
  BY DEF IInv, LedgerIsTheSchema, Counted, Named, Fits, Passed, At
<1> QED
  BY <1>1, InvariantStarts, InvariantStays, PTL DEF Spec

=============================================================================
