--------------------------- MODULE DecisionLocks ---------------------------
(***************************************************************************)
(* The transactions of the decision workflow, statement by statement: the  *)
(* row locks they take, in which order, what they wait for and how a wait  *)
(* ends.  DecisionWorkflow takes each transaction as one step; here they   *)
(* overlap.                                                                *)
(*                                                                         *)
(* PostgreSQL is external and modelled at READ COMMITTED: a statement sees *)
(* what is committed, waits for a row that is locked against it and looks  *)
(* at the row again afterwards; a foreign key takes KEY SHARE on the row   *)
(* it refers to; an update that touches no key takes NO KEY UPDATE; the    *)
(* detector breaks a cycle of waits.  Users and approvals are left out:    *)
(* they are locked only while the business is.                             *)
(***************************************************************************)
EXTENDS Integers, Sequences, FiniteSets

CONSTANTS
  Proposals,   \* proposals of one business
  Keys,        \* idempotency keys, one per commit operation
  Txs,         \* transactions
  Work,        \* Work[t]: what transaction t is for
  LoadedFields, \* mandatory fields commitTx loads, as in DecisionWorkflow
  MaxSent      \* bound: so many of them are sent

Kinds == {"SubmitReview", "SaveRevision", "RecordDecision", "Commit"}
Numbers == Nat \ {0}
Versions == Nat \ {0}

ASSUME WorkAssumption ==
  Work \in [Txs -> [kind : Kinds, proposal : Proposals, number : Numbers, key : Keys]]

MandatoryFields == {"goal_id", "scenario_id"}

ASSUME FieldsAssumption == LoadedFields \subseteq MandatoryFields

VARIABLES
  business,    \* businesses.state_version
  proposals,   \* proposals[p]: the current version of p
  operations,  \* commit_operations: the committed row of each key
  txs,         \* txs[t]: where the transaction is
  locks        \* row locks that are held

vars == <<business, proposals, operations, txs, locks>>

-----------------------------------------------------------------------------
(* Rows and locks.                                                         *)

Rows == {<<"business">>} \cup ({"proposal"} \X Proposals) \cup ({"version"} \X Proposals \X Numbers)
        \cup ({"key"} \X Keys)
Modes == {"KEY SHARE", "NO KEY UPDATE", "UPDATE"}

Conflict(m, n) == "UPDATE" \in {m, n} \/ {m, n} = {"NO KEY UPDATE"}

Lock(row, mode) == [row |-> row, mode |-> mode]
BusinessRow == <<"business">>
ProposalRow(t) == <<"proposal", Work[t].proposal>>
VersionRow(t) == <<"version", Work[t].proposal, Work[t].number>>
KeyRow(t) == <<"key", Work[t].key>>

(* Mutant: a revision supersedes the version before it locks the proposal. *)
StatementsMutant == [t \in Txs |->
  CASE Work[t].kind \in {"SubmitReview", "SaveRevision"} ->
         <<Lock(VersionRow(t), "NO KEY UPDATE"), Lock(ProposalRow(t), "NO KEY UPDATE")>>
    [] Work[t].kind = "RecordDecision" ->
         <<Lock(BusinessRow, "UPDATE"), Lock(ProposalRow(t), "UPDATE"), Lock(VersionRow(t), "UPDATE")>>
    [] Work[t].kind = "Commit" ->
         <<Lock(KeyRow(t), "UPDATE"), Lock(BusinessRow, "KEY SHARE"), Lock(ProposalRow(t), "KEY SHARE"),
           Lock(VersionRow(t), "KEY SHARE"), Lock(BusinessRow, "UPDATE"), Lock(ProposalRow(t), "UPDATE"),
           Lock(VersionRow(t), "UPDATE")>>]

(* The locks of a transaction in its order.  A join FOR UPDATE locks its   *)
(* tables from left to right; the insert of an operation takes its entry   *)
(* in the unique index, and then the rows its foreign keys name.           *)
Statements == [t \in Txs |->
  CASE Work[t].kind = "SubmitReview" ->
         <<Lock(VersionRow(t), "NO KEY UPDATE"), Lock(ProposalRow(t), "NO KEY UPDATE")>>
    [] Work[t].kind = "SaveRevision" ->
         <<Lock(ProposalRow(t), "UPDATE"), Lock(VersionRow(t), "NO KEY UPDATE")>>
    [] Work[t].kind = "RecordDecision" ->
         <<Lock(BusinessRow, "UPDATE"), Lock(ProposalRow(t), "UPDATE"), Lock(VersionRow(t), "UPDATE")>>
    [] Work[t].kind = "Commit" ->
         <<Lock(KeyRow(t), "UPDATE"), Lock(BusinessRow, "KEY SHARE"), Lock(ProposalRow(t), "KEY SHARE"),
           Lock(VersionRow(t), "KEY SHARE"), Lock(BusinessRow, "UPDATE"), Lock(ProposalRow(t), "UPDATE"),
           Lock(VersionRow(t), "UPDATE")>>]

-----------------------------------------------------------------------------
Statuses == {"absent", "draft", "in_review", "approved", "rejected", "committed"}
Proposal == [number : Numbers, base : Versions, status : Statuses]
NoOperation == [proposal |-> "none", number |-> 0, expected |-> 0, committed |-> 0]
Outcomes == {"none", "done", "replayed", "conflict", "refused", "failed"}
Tx == [step : {"idle", "lookup", "insert", "locking", "ended"}, at : 1..8, expected : Versions \cup {0},
       outcome : Outcomes]

TypeOK ==
  /\ business \in Versions
  /\ proposals \in [Proposals -> Proposal]
  /\ operations \in [Keys -> {NoOperation} \cup [proposal : Proposals, number : Numbers,
                                                expected : Versions, committed : Versions]]
  /\ txs \in [Txs -> Tx]
  /\ locks \subseteq [tx : {t \in Txs : txs[t].step = "locking"}, row : Rows, mode : Modes]

(* Proposals on their way to a commit, or yet to be written.               *)
Init ==
  /\ business = 1
  /\ proposals \in [Proposals -> [number : {1}, base : {1}, status : {"absent", "draft", "in_review"}]]
  /\ operations = [k \in Keys |-> NoOperation]
  /\ txs = [t \in Txs |-> [step |-> "idle", at |-> 1, expected |-> 0, outcome |-> "none"]]
  /\ locks = {}

Row(t) == proposals[Work[t].proposal]
IsCurrent(t) == Row(t).number = Work[t].number
NextLock(t) == Statements[t][txs[t].at]
Locking(t) == txs[t].step = "locking" /\ txs[t].at <= Len(Statements[t])
IsCommit(t) == Work[t].kind = "Commit"

(* Mutant: the update of SubmitReview has no status in its WHERE.          *)
WhereMutant(t) ==
  CASE Work[t].kind = "SubmitReview" -> txs[t].at = 1 => IsCurrent(t)
    [] Work[t].kind = "SaveRevision" -> txs[t].at = 2 => IsCurrent(t) /\ Row(t).status = "draft"
    [] Work[t].kind = "RecordDecision" -> txs[t].at >= 2 => IsCurrent(t)
    [] Work[t].kind = "Commit" -> txs[t].at >= 6 => IsCurrent(t)

(* What the statement asks of the row before it waits for it, and again    *)
(* once it has the lock.                                                   *)
Where(t) ==
  CASE Work[t].kind = "SubmitReview" -> txs[t].at = 1 => IsCurrent(t) /\ Row(t).status = "draft"
    [] Work[t].kind = "SaveRevision" -> txs[t].at = 2 => IsCurrent(t) /\ Row(t).status = "draft"
    [] Work[t].kind = "RecordDecision" -> txs[t].at >= 2 => IsCurrent(t)
    [] Work[t].kind = "Commit" -> txs[t].at >= 6 => IsCurrent(t)

(* What the code asks of the locked row before it goes on; commit.Validate *)
(* refuses a proposal whose mandatory fields were not loaded.              *)
Check(t) ==
  CASE Work[t].kind = "SaveRevision" -> IsCurrent(t)
    [] Work[t].kind = "RecordDecision" /\ txs[t].at = 3 -> Row(t).status = "in_review" /\ Row(t).base = business
    [] IsCommit(t) /\ txs[t].at = 7 ->
         Row(t).status = "approved" /\ Row(t).base = business /\ LoadedFields = MandatoryFields
    [] OTHER -> TRUE

(* The transactions whose locks keep t from the one it wants.              *)
Blockers(t) ==
  IF Locking(t) /\ Where(t)
  THEN LET lock == NextLock(t) IN
       {l.tx : l \in {l \in locks : l.tx # t /\ l.row = lock.row /\ Conflict(l.mode, lock.mode)}}
  ELSE {}

Waiting(t) == Blockers(t) # {}

(* Sets of transactions of which each waits for another one of them.       *)
Deadlocks ==
  LET blockers == [t \in Txs |-> Blockers(t)]
      waiting == {t \in Txs : blockers[t] # {}}
  IN  {S \in SUBSET waiting : S # {} /\ \A t \in S : blockers[t] \cap S # {}}

-----------------------------------------------------------------------------
SetTx(t, fields) == txs' = [txs EXCEPT ![t] = fields]
EndTx(t, outcome) == SetTx(t, [step |-> "ended", at |-> 1, expected |-> 0, outcome |-> outcome])

(* Mutant: no deferred Rollback: the connection goes back to the pool with *)
(* its transaction open.                                                   *)
RollbackMutant(t, outcome) ==
  EndTx(t, outcome) /\ UNCHANGED <<business, proposals, operations, locks>>

Rollback(t, outcome) ==
  /\ EndTx(t, outcome)
  /\ locks' = {l \in locks : l.tx # t}
  /\ UNCHANGED <<business, proposals, operations>>

(* A client names a proposal and a version it has seen.                    *)
Send(t) ==
  /\ txs[t].step = "idle" /\ Cardinality({u \in Txs : txs[u].step # "idle"}) < MaxSent
  /\ Row(t).status # "absent" /\ Row(t).number >= Work[t].number
  /\ SetTx(t, [txs[t] EXCEPT !.step = IF IsCommit(t) THEN "lookup" ELSE "locking"])
  /\ UNCHANGED <<business, proposals, operations, locks>>

(* commitTx looks its idempotency key up; an operation in progress is not  *)
(* visible.                                                                *)
LookupKey(t) ==
  /\ txs[t].step = "lookup"
  /\ LET found == operations[Work[t].key] IN
     IF found # NoOperation
     THEN Rollback(t, IF found.proposal = Work[t].proposal /\ found.number = Work[t].number
                      THEN "replayed" ELSE "conflict")
     ELSE /\ SetTx(t, [txs[t] EXCEPT !.step = "insert"])
          /\ UNCHANGED <<business, proposals, operations, locks>>

(* The insert reads the business version it records before it waits for    *)
(* anything.                                                               *)
InsertOperation(t) ==
  /\ txs[t].step = "insert"
  /\ SetTx(t, [txs[t] EXCEPT !.step = "locking", !.expected = business])
  /\ UNCHANGED <<business, proposals, operations, locks>>

(* The insert has waited for an entry that is there now: 23505.            *)
DuplicateKey(t) ==
  /\ Locking(t) /\ ~Waiting(t)
  /\ IsCommit(t) /\ txs[t].at = 1 /\ operations[Work[t].key] # NoOperation
  /\ Rollback(t, "conflict")

TakeLock(t) ==
  /\ Locking(t) /\ Where(t) /\ ~Waiting(t)
  /\ ~(IsCommit(t) /\ txs[t].at = 1 /\ operations[Work[t].key] # NoOperation)
  /\ IF Check(t)
     THEN /\ locks' = locks \cup {[tx |-> t, row |-> NextLock(t).row, mode |-> NextLock(t).mode]}
          /\ SetTx(t, [txs[t] EXCEPT !.at = @ + 1])
          /\ UNCHANGED <<business, proposals, operations>>
     ELSE Rollback(t, "refused")

NoRow(t) == Locking(t) /\ ~Where(t) /\ Rollback(t, "refused")

SetProposal(t, fields) == proposals' = [proposals EXCEPT ![Work[t].proposal] = fields]

(* With all its locks the transaction writes, and commits.                 *)
CommitTx(t) ==
  /\ txs[t].step = "locking" /\ txs[t].at = Len(Statements[t]) + 1
  /\ EndTx(t, "done")
  /\ locks' = {l \in locks : l.tx # t}
  /\ \/ /\ Work[t].kind = "SubmitReview"
        /\ SetProposal(t, [Row(t) EXCEPT !.status = "in_review"])
        /\ UNCHANGED <<business, operations>>
     \/ /\ Work[t].kind = "SaveRevision"
        /\ SetProposal(t, [Row(t) EXCEPT !.number = @ + 1])
        /\ UNCHANGED <<business, operations>>
     \/ /\ Work[t].kind = "RecordDecision"
        /\ \E decision \in {"approved", "rejected"} : SetProposal(t, [Row(t) EXCEPT !.status = decision])
        /\ UNCHANGED <<business, operations>>
     \/ /\ IsCommit(t)
        /\ business' = business + 1
        /\ SetProposal(t, [Row(t) EXCEPT !.status = "committed"])
        /\ operations' = [operations EXCEPT ![Work[t].key] =
             [proposal |-> Work[t].proposal, number |-> Work[t].number,
              expected |-> txs[t].expected, committed |-> business + 1]]

(* PostgreSQL aborts one transaction of a cycle.                           *)
DetectDeadlock == \E S \in Deadlocks : \E t \in S : Rollback(t, "failed")

(* lock_timeout, which a wait may or may not outlast.                      *)
LockTimeout(t) == Waiting(t) /\ Rollback(t, "failed")

(* The client or the server goes away between two statements, and the      *)
(* database ends the session.                                              *)
ConnectionLost(t) == txs[t].step \in {"lookup", "insert", "locking"} /\ Rollback(t, "failed")

(* A proposal is written, submitted and approved while nothing else holds  *)
(* the business.                                                           *)
Prepare(p) ==
  /\ proposals[p].status = "absent"
  /\ \A l \in locks : l.row # BusinessRow
  /\ proposals' = [proposals EXCEPT ![p] = [number |-> 1, base |-> business, status |-> "approved"]]
  /\ UNCHANGED <<business, operations, txs, locks>>

Proceed(t) ==
  LookupKey(t) \/ InsertOperation(t) \/ DuplicateKey(t) \/ TakeLock(t) \/ NoRow(t) \/ CommitTx(t)

Next ==
  \/ \E t \in Txs : Send(t) \/ Proceed(t) \/ LockTimeout(t) \/ ConnectionLost(t)
  \/ DetectDeadlock
  \/ \E p \in Proposals : Prepare(p)

(* Transactions that wait for nobody go on, and the detector runs.  (Each  *)
(* has finitely many steps, so that fairness to all of them is fairness to *)
(* each.)                                                                  *)
Spec == Init /\ [][Next]_vars /\ WF_vars(DetectDeadlock \/ \E t \in Txs : Proceed(t))

-----------------------------------------------------------------------------
Atomic == INSTANCE DecisionTransactions WITH
  outcomes <- [t \in Txs |-> txs[t].outcome], FieldsLoaded <- LoadedFields = MandatoryFields

(* However the statements of transactions interleave, each transaction     *)
(* takes effect at one instant: what it has read, before and after its     *)
(* waits, still holds when it commits, and one that is refused was not     *)
(* allowed when it was (proposal_repository.go:73-139,                     *)
(* approval_repository.go:30-81, commit_service.go:55-188).                *)
TransactionsAreAtomic == Atomic!Spec

(* The record of a commit is true.  The expected version its insert reads, *)
(* before it waits for anybody, is the one the commit replaces; and a      *)
(* client that is told its key is taken, a retry while the first attempt   *)
(* runs for one, can rely on an operation that has been carried out under  *)
(* that key (commit_service.go:86-93).                                     *)
OperationsAreTrue ==
  /\ \A k \in Keys : operations[k] # NoOperation => operations[k].committed = operations[k].expected + 1
  /\ \A t \in Txs : txs[t].outcome = "conflict" => operations[Work[t].key] # NoOperation

(* The transactions of a proposal deadlock in two ways only: two commits   *)
(* that both refer to the business and then want it for themselves         *)
(* (commit_service.go:86, :97), and a submission for review, which locks   *)
(* the version before the proposal (proposal_repository.go:123, :134).     *)
DeadlocksAreKnown ==
  \A S \in Deadlocks :
    \/ \E t \in S : Work[t].kind = "SubmitReview"
    \/ \E t, u \in S : t # u /\ IsCommit(t) /\ IsCommit(u)

(* Every transaction ends, and so every request gets an answer, as long as *)
(* the deferred Rollback of tenant_tx.go:42 gives locks back: the detector *)
(* breaks what waits in a circle, and no wait outlives its holder.         *)
EveryTransactionEnds ==
  []<>(\A t \in Txs : txs[t].step \in {"idle", "ended"})

=============================================================================
