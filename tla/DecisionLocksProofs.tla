------------------------ MODULE DecisionLocksProofs ------------------------
(***************************************************************************)
(* What the locks of the decision transactions guarantee, for any numbers  *)
(* of proposals and transactions: conflicting locks exclude each other,    *)
(* the record of a commit is true, there are only two ways to deadlock, and*)
(* each transaction takes effect at one instant.                           *)
(***************************************************************************)
EXTENDS DecisionLocks, TLAPS

-----------------------------------------------------------------------------
(* The invariant.  A transaction holds the locks of its statements so far  *)
(* and no others; what a commit has read before its locks is bounded by    *)
(* what it finds under them.                                               *)

Holding(t, i) == [tx |-> t, row |-> Statements[t][i].row, mode |-> Statements[t][i].mode]

Taken(L) ==
  \A l \in L : /\ l.tx \in Txs /\ txs[l.tx].step = "locking"
               /\ \E i \in 1..(txs[l.tx].at - 1) : l = Holding(l.tx, i)

Exclusive(L) ==
  \A l, m \in L : l.tx # m.tx /\ l.row = m.row => ~ Conflict(l.mode, m.mode)

Based == \A p \in Proposals : proposals[p].base <= business

Recorded ==
  \A k \in Keys : operations[k] # NoOperation => operations[k].committed = operations[k].expected + 1

Begun(t, x, row) ==
  /\ x.step \in {"lookup", "insert", "locking"} => row.status # "absent"
  /\ x.step # "locking" => x.at = 1

Holds(t, x, L) ==
  x.step = "locking" => /\ x.at <= Len(Statements[t]) + 1
                        /\ \A i \in 1..(x.at - 1) : Holding(t, i) \in L

Expects(t, x, row, b) ==
  x.step = "locking" /\ IsCommit(t) =>
    /\ x.expected \in Versions /\ row.base <= x.expected /\ x.expected <= b
    /\ x.at = 8 => row.base = b

Told(t, x, ops) == x.outcome = "conflict" => ops[Work[t].key] # NoOperation

Fits(t, x, L, b, row, ops) ==
  Begun(t, x, row) /\ Holds(t, x, L) /\ Expects(t, x, row, b) /\ Told(t, x, ops)

Data ==
  /\ business \in Versions
  /\ proposals \in [Proposals -> Proposal]
  /\ operations \in [Keys -> {NoOperation} \cup [proposal : Proposals, number : Numbers,
                                                expected : Versions, committed : Versions]]

IInv ==
  /\ Data /\ Based /\ Recorded
  /\ txs \in [Txs -> Tx]
  /\ Taken(locks) /\ Exclusive(locks)
  /\ \A t \in Txs : Fits(t, txs[t], locks, business, Row(t), operations)

-----------------------------------------------------------------------------
(* Statements.                                                             *)

LEMMA WorkFields ==
  ASSUME NEW t \in Txs
  PROVE  /\ Work[t].kind \in Kinds /\ Work[t].proposal \in Proposals
         /\ Work[t].number \in Numbers /\ Work[t].key \in Keys
BY WorkAssumption

LEMMA RowsAreRows ==
  ASSUME NEW t \in Txs
  PROVE  {BusinessRow, ProposalRow(t), VersionRow(t), KeyRow(t)} \subseteq Rows
BY WorkFields DEF Rows, BusinessRow, ProposalRow, VersionRow, KeyRow

LEMMA TwoStatements ==
  ASSUME NEW t \in Txs
  PROVE  /\ Work[t].kind = "SubmitReview" =>
              /\ Len(Statements[t]) = 2
              /\ Statements[t][1] = Lock(VersionRow(t), "NO KEY UPDATE")
              /\ Statements[t][2] = Lock(ProposalRow(t), "NO KEY UPDATE")
         /\ Work[t].kind = "SaveRevision" =>
              /\ Len(Statements[t]) = 2
              /\ Statements[t][1] = Lock(ProposalRow(t), "UPDATE")
              /\ Statements[t][2] = Lock(VersionRow(t), "NO KEY UPDATE")
BY DEF Statements

LEMMA ThreeStatements ==
  ASSUME NEW t \in Txs, Work[t].kind = "RecordDecision"
  PROVE  /\ Len(Statements[t]) = 3
         /\ Statements[t][1] = Lock(BusinessRow, "UPDATE")
         /\ Statements[t][2] = Lock(ProposalRow(t), "UPDATE")
         /\ Statements[t][3] = Lock(VersionRow(t), "UPDATE")
BY DEF Statements

LEMMA SevenStatements ==
  ASSUME NEW t \in Txs, IsCommit(t)
  PROVE  /\ Len(Statements[t]) = 7
         /\ Statements[t][1] = Lock(KeyRow(t), "UPDATE")
         /\ Statements[t][2] = Lock(BusinessRow, "KEY SHARE")
         /\ Statements[t][3] = Lock(ProposalRow(t), "KEY SHARE")
         /\ Statements[t][4] = Lock(VersionRow(t), "KEY SHARE")
         /\ Statements[t][5] = Lock(BusinessRow, "UPDATE")
         /\ Statements[t][6] = Lock(ProposalRow(t), "UPDATE")
         /\ Statements[t][7] = Lock(VersionRow(t), "UPDATE")
BY DEF Statements, IsCommit

LEMMA LockFields ==
  ASSUME NEW row, NEW mode
  PROVE  Lock(row, mode).row = row /\ Lock(row, mode).mode = mode
BY DEF Lock

LEMMA CommitRows ==
  ASSUME NEW t \in Txs, IsCommit(t)
  PROVE  /\ Statements[t][5].mode = "UPDATE"
         /\ Statements[t][5].row = BusinessRow /\ Statements[t][2].row = BusinessRow
         /\ Statements[t][6].row = ProposalRow(t) /\ Statements[t][3].row = ProposalRow(t)
         /\ Statements[t][7].row = VersionRow(t) /\ Statements[t][4].row = VersionRow(t)
<1>1. Statements[t][2].row = BusinessRow
  <2>1. \E m : Statements[t][2] = Lock(BusinessRow, m)
    BY SevenStatements
  <2> QED
    BY <2>1, LockFields
<1>2. Statements[t][3].row = ProposalRow(t)
  <2>1. \E m : Statements[t][3] = Lock(ProposalRow(t), m)
    BY SevenStatements
  <2> QED
    BY <2>1, LockFields
<1>3. Statements[t][4].row = VersionRow(t)
  <2>1. \E m : Statements[t][4] = Lock(VersionRow(t), m)
    BY SevenStatements
  <2> QED
    BY <2>1, LockFields
<1>4. Statements[t][5].row = BusinessRow
  <2>1. \E m : Statements[t][5] = Lock(BusinessRow, m)
    BY SevenStatements
  <2> QED
    BY <2>1, LockFields
<1>5. Statements[t][6].row = ProposalRow(t)
  <2>1. \E m : Statements[t][6] = Lock(ProposalRow(t), m)
    BY SevenStatements
  <2> QED
    BY <2>1, LockFields
<1>6. Statements[t][7].row = VersionRow(t)
  <2>1. \E m : Statements[t][7] = Lock(VersionRow(t), m)
    BY SevenStatements
  <2> QED
    BY <2>1, LockFields
<1>7. Statements[t][5].mode = "UPDATE"
  <2>1. Statements[t][5] = Lock(BusinessRow, "UPDATE")
    BY SevenStatements
  <2> QED
    BY <2>1, LockFields
<1> QED
  BY <1>1, <1>2, <1>3, <1>4, <1>5, <1>6, <1>7

LEMMA KindsOf ==
  ASSUME NEW t \in Txs
  PROVE  Work[t].kind \in {"SubmitReview", "SaveRevision", "RecordDecision"} \/ IsCommit(t)
BY WorkFields DEF Kinds, IsCommit

LEMMA StatementsAreLocks ==
  ASSUME NEW t \in Txs
  PROVE  /\ Len(Statements[t]) \in {2, 3, 7} /\ (IsCommit(t) => Len(Statements[t]) = 7)
         /\ \A i \in 1..Len(Statements[t]) :
              Statements[t][i].row \in Rows /\ Statements[t][i].mode \in Modes
<1>1. \A r \in {BusinessRow, ProposalRow(t), VersionRow(t), KeyRow(t)}, m \in Modes :
        Lock(r, m).row \in Rows /\ Lock(r, m).mode \in Modes
  BY RowsAreRows DEF Lock
<1>2. "UPDATE" \in Modes /\ "NO KEY UPDATE" \in Modes /\ "KEY SHARE" \in Modes
  BY DEF Modes
<1>3. CASE Work[t].kind \in {"SubmitReview", "SaveRevision"}
  <2>1. Len(Statements[t]) = 2 /\ ~ IsCommit(t)
    BY <1>3, TwoStatements DEF IsCommit
  <2>2. \A i \in 1..2 : i = 1 \/ i = 2
    OBVIOUS
  <2> QED
    BY <1>1, <1>2, <1>3, <2>1, <2>2, TwoStatements
<1>4. CASE Work[t].kind = "RecordDecision"
  <2>1. Len(Statements[t]) = 3 /\ ~ IsCommit(t)
    BY <1>4, ThreeStatements DEF IsCommit
  <2>2. \A i \in 1..3 : i = 1 \/ i = 2 \/ i = 3
    OBVIOUS
  <2> QED
    BY <1>1, <1>2, <1>4, <2>1, <2>2, ThreeStatements
<1>5. CASE IsCommit(t)
  <2>1. Len(Statements[t]) = 7
    BY <1>5, SevenStatements
  <2>2. \A i \in 1..7 : i = 1 \/ i = 2 \/ i = 3 \/ i = 4 \/ i = 5 \/ i = 6 \/ i = 7
    OBVIOUS
  <2> QED
    BY <1>1, <1>2, <1>5, <2>1, <2>2, SevenStatements
<1> QED
  BY <1>3, <1>4, <1>5, KindsOf

-----------------------------------------------------------------------------
(* Transactions that change no row.                                        *)

LEMMA TxFields ==
  ASSUME IInv, NEW t \in Txs
  PROVE  /\ txs[t] \in Tx /\ txs[t].at \in Int /\ Fits(t, txs[t], locks, business, Row(t), operations)
         /\ Work[t].proposal \in Proposals /\ Row(t) \in Proposal /\ business \in Nat
         /\ Row(t).base \in Nat /\ Row(t).base <= business
<1>1. txs[t] \in Tx
  BY DEF IInv
<1>2. txs[t].at \in Int
  BY <1>1 DEF Tx
<1>3. Fits(t, txs[t], locks, business, Row(t), operations)
  BY DEF IInv
<1>4. Work[t].proposal \in Proposals
  BY WorkFields
<1>5. Row(t) \in Proposal
  BY <1>4 DEF IInv, Data, Row
<1>6. Row(t).base \in Nat
  BY <1>5 DEF Proposal, Versions
<1>7. Row(t).base <= business
  BY <1>4 DEF IInv, Based, Row
<1>8. business \in Nat
  BY DEF IInv, Data, Versions
<1> QED
  BY <1>1, <1>2, <1>3, <1>4, <1>5, <1>6, <1>7, <1>8

Ended(outcome) == [step |-> "ended", at |-> 1, expected |-> 0, outcome |-> outcome]

LEMMA EndedIsTx ==
  ASSUME NEW outcome \in Outcomes
  PROVE  /\ Ended(outcome) \in Tx /\ Ended(outcome).step = "ended" /\ Ended(outcome).at = 1
         /\ Ended(outcome).outcome = outcome
BY DEF Ended, Tx

(* With its locks gone, the transaction leaves no trace among the locks.   *)
LEMMA LocksWithout ==
  ASSUME IInv, NEW t \in Txs, NEW new, new.step # "locking",
         txs' = [txs EXCEPT ![t] = new], locks' = {l \in locks : l.tx # t}
  PROVE  /\ Taken(locks)' /\ Exclusive(locks)'
         /\ \A p \in Txs \ {t} : Holds(p, txs[p], locks')
<1>1. locks' \subseteq locks /\ \A l \in locks' : l.tx # t
  OBVIOUS
<1>2. \A p \in Txs \ {t} : txs'[p] = txs[p]
  BY DEF IInv
<1>3. Taken(locks)'
  BY <1>1, <1>2 DEF IInv, Taken, Holding
<1>4. Exclusive(locks)'
  BY <1>1 DEF IInv, Exclusive
<1>5. ASSUME NEW p \in Txs \ {t} PROVE Holds(p, txs[p], locks')
  <2>1. Holds(p, txs[p], locks)
    BY TxFields DEF Fits
  <2>2. \A i \in 1..(txs[p].at - 1) : Holding(p, i).tx # t
    BY DEF Holding
  <2> QED
    BY <2>1, <2>2 DEF Holds
<1> QED
  BY <1>3, <1>4, <1>5

LEMMA RollbackKeeps ==
  ASSUME IInv, NEW t \in Txs, NEW outcome \in Outcomes, Rollback(t, outcome),
         outcome = "conflict" => operations[Work[t].key] # NoOperation
  PROVE  IInv'
<1> DEFINE new == Ended(outcome)
<1>1. /\ txs' = [txs EXCEPT ![t] = new] /\ locks' = {l \in locks : l.tx # t}
      /\ business' = business /\ proposals' = proposals /\ operations' = operations
  BY DEF Rollback, EndTx, SetTx, Ended
<1>2. new \in Tx /\ new.step = "ended" /\ new.at = 1 /\ new.outcome = outcome
  BY EndedIsTx
<1> HIDE DEF new
<1>3. txs' \in [Txs -> Tx]
  BY <1>1, <1>2 DEF IInv
<1>4. Taken(locks)' /\ Exclusive(locks)' /\ \A p \in Txs \ {t} : Holds(p, txs[p], locks')
  BY <1>1, <1>2, LocksWithout
<1>5. ASSUME NEW p \in Txs
      PROVE  Fits(p, txs[p], locks, business, Row(p), operations)'
  <2>1. CASE p = t
    <3>1. txs'[p] = new
      BY <1>1, <2>1 DEF IInv
    <3> QED
      BY <1>1, <1>2, <2>1, <3>1 DEF Fits, Begun, Holds, Expects, Told
  <2>2. CASE p # t
    <3>1. txs'[p] = txs[p] /\ Holds(p, txs[p], locks')
      BY <1>1, <1>4, <2>2 DEF IInv
    <3>2. Fits(p, txs[p], locks, business, Row(p), operations)
      BY TxFields
    <3>3. Fits(p, txs[p], locks', business, Row(p), operations)
      BY <3>1, <3>2 DEF Fits
    <3>4. Row(p)' = Row(p)
      BY <1>1 DEF Row
    <3> QED
      BY <1>1, <3>1, <3>3, <3>4 DEF Fits, Begun, Holds, Holding, Expects, Told
  <2> QED
    BY <2>1, <2>2
<1>6. Data' /\ Based' /\ Recorded'
  BY <1>1 DEF IInv, Data, Based, Recorded
<1> QED
  BY <1>3, <1>4, <1>5, <1>6 DEF IInv

(* Before its first lock.                                                  *)
LEMMA BeforeLocking ==
  ASSUME IInv, NEW t \in Txs, NEW new \in Tx, txs' = [txs EXCEPT ![t] = new],
         UNCHANGED <<business, proposals, operations, locks>>,
         txs[t].step # "locking", new.at = 1, new.step # "idle", Row(t).status # "absent",
         new.step = "locking" /\ IsCommit(t) => new.expected = business,
         new.outcome = txs[t].outcome
  PROVE  IInv'
<1>1. txs' \in [Txs -> Tx] /\ \A p \in Txs : txs'[p] = IF p = t THEN new ELSE txs[p]
  BY DEF IInv
<1>2. \A l \in locks : l.tx # t
  BY DEF IInv, Taken
<1>3. Taken(locks)' /\ Exclusive(locks)'
  BY <1>1, <1>2 DEF IInv, Taken, Holding, Exclusive
<1>4. ASSUME NEW p \in Txs
      PROVE  Fits(p, txs[p], locks, business, Row(p), operations)'
  <2>1. Fits(p, txs[p], locks, business, Row(p), operations) /\ Row(p)' = Row(p)
    BY TxFields DEF Row
  <2>2. CASE p = t
    <3>1. txs'[p] = new
      BY <1>1, <2>2
    <3>2. Begun(t, new, Row(t))
      BY DEF Begun
    <3>3. Holds(t, new, locks)
      BY StatementsAreLocks DEF Holds
    <3>4. Expects(t, new, Row(t), business)
      BY TxFields DEF Expects, IInv, Data
    <3>5. Told(t, new, operations)
      BY <2>1, <2>2 DEF Fits, Told
    <3> QED
      BY <2>1, <2>2, <3>1, <3>2, <3>3, <3>4, <3>5 DEF Fits, Begun, Holds, Holding, Expects, Told
  <2>3. CASE p # t
    <3>1. txs'[p] = txs[p]
      BY <1>1, <2>3
    <3> QED
      BY <2>1, <3>1 DEF Fits, Begun, Holds, Holding, Expects, Told
  <2> QED
    BY <2>2, <2>3
<1>5. Data' /\ Based' /\ Recorded'
  BY DEF IInv, Data, Based, Recorded
<1> QED
  BY <1>1, <1>3, <1>4, <1>5 DEF IInv

LEMMA SendKeeps ==
  ASSUME IInv, NEW t \in Txs, Send(t)
  PROVE  IInv'
<1> DEFINE step == IF IsCommit(t) THEN "lookup" ELSE "locking"
           new == [txs[t] EXCEPT !.step = step]
<1>1. txs[t] \in Tx /\ txs[t].step = "idle" /\ txs[t].at = 1 /\ Row(t).status # "absent"
  BY TxFields DEF Send, Fits, Begun
<1>2. new \in Tx /\ new.step = step /\ new.at = 1 /\ new.outcome = txs[t].outcome
  BY <1>1 DEF Tx
<1>3. txs' = [txs EXCEPT ![t] = new] /\ UNCHANGED <<business, proposals, operations, locks>>
  BY DEF Send, SetTx
<1>4. new.step # "idle" /\ (new.step = "locking" => ~ IsCommit(t))
  BY <1>2
<1> HIDE DEF new
<1> QED
  BY <1>1, <1>2, <1>3, <1>4, BeforeLocking

LEMMA LookupKeeps ==
  ASSUME IInv, NEW t \in Txs, LookupKey(t)
  PROVE  IInv'
<1>1. CASE operations[Work[t].key] # NoOperation
  <2>1. PICK outcome \in {"replayed", "conflict"} : Rollback(t, outcome)
    BY <1>1 DEF LookupKey
  <2> QED
    BY <1>1, <2>1, RollbackKeeps DEF Outcomes
<1>2. CASE operations[Work[t].key] = NoOperation
  <2> DEFINE new == [txs[t] EXCEPT !.step = "insert"]
  <2>1. txs[t] \in Tx /\ txs[t].step = "lookup" /\ txs[t].at = 1 /\ Row(t).status # "absent"
    BY TxFields DEF LookupKey, Fits, Begun
  <2>2. new \in Tx /\ new.step = "insert" /\ new.at = 1 /\ new.outcome = txs[t].outcome
    BY <2>1 DEF Tx
  <2>3. txs' = [txs EXCEPT ![t] = new] /\ UNCHANGED <<business, proposals, operations, locks>>
    BY <1>2 DEF LookupKey, SetTx
  <2> HIDE DEF new
  <2> QED
    BY <2>1, <2>2, <2>3, BeforeLocking
<1> QED
  BY <1>1, <1>2

LEMMA InsertKeeps ==
  ASSUME IInv, NEW t \in Txs, InsertOperation(t)
  PROVE  IInv'
<1> DEFINE mid == [txs[t] EXCEPT !.step = "locking"]
           new == [txs[t] EXCEPT !.step = "locking", !.expected = business]
<1>1. txs[t] \in Tx /\ txs[t].step = "insert" /\ txs[t].at = 1 /\ Row(t).status # "absent"
  BY TxFields DEF InsertOperation, Fits, Begun
<1>2. business \in Versions \cup {0}
  BY DEF IInv, Data
<1>3. new \in Tx
  <2>1. mid \in Tx
    BY <1>1 DEF Tx
  <2>2. [mid EXCEPT !.expected = business] \in Tx
    BY <1>2, <2>1 DEF Tx
  <2> QED
    BY <2>2
<1>4. new.step = "locking" /\ new.at = 1 /\ new.expected = business /\ new.outcome = txs[t].outcome
  BY <1>1 DEF Tx
<1>5. txs' = [txs EXCEPT ![t] = new] /\ UNCHANGED <<business, proposals, operations, locks>>
  BY DEF InsertOperation, SetTx
<1> HIDE DEF new
<1> QED
  BY <1>1, <1>3, <1>4, <1>5, BeforeLocking

-----------------------------------------------------------------------------
(* Locks.                                                                  *)

LEMMA ConflictIsSymmetric ==
  ASSUME NEW m, NEW n
  PROVE  Conflict(m, n) <=> Conflict(n, m)
<1>1. {m, n} = {n, m}
  OBVIOUS
<1> QED
  BY <1>1 DEF Conflict

LEMMA NotBlocked ==
  ASSUME NEW t \in Txs, Locking(t), Where(t), ~ Waiting(t),
         NEW l \in locks, l.tx # t, l.row = NextLock(t).row
  PROVE  ~ Conflict(l.mode, NextLock(t).mode)
BY DEF Waiting, Blockers

(* What commit.Validate has compared under the locks.                      *)
LEMMA Checked ==
  ASSUME NEW t \in Txs, IsCommit(t), txs[t].at = 7, Check(t)
  PROVE  Row(t).base = business
BY DEF Check, IsCommit

LEMMA TakeLockKeeps ==
  ASSUME IInv, NEW t \in Txs, TakeLock(t)
  PROVE  IInv'
<1> DEFINE at == txs[t].at
           new == [txs[t] EXCEPT !.at = at + 1]
           lock == Holding(t, at)
<1>1. /\ txs[t] \in Tx /\ at \in Int /\ Fits(t, txs[t], locks, business, Row(t), operations)
      /\ txs[t].step = "locking" /\ at <= Len(Statements[t]) /\ at \in 1..8
  BY TxFields DEF TakeLock, Locking, Tx
<1>2. CASE ~ Check(t)
  BY <1>2, RollbackKeeps DEF TakeLock, Outcomes
<1>3. CASE Check(t)
  <2>1. /\ txs' = [txs EXCEPT ![t] = new] /\ locks' = locks \cup {lock}
        /\ UNCHANGED <<business, proposals, operations>>
    BY <1>3 DEF TakeLock, SetTx, Holding, NextLock
  <2>2. at + 1 \in 1..8
    BY <1>1, StatementsAreLocks
  <2>3. /\ new \in Tx /\ new.step = "locking" /\ new.at = at + 1 /\ new.expected = txs[t].expected
        /\ new.outcome = txs[t].outcome
    BY <1>1, <2>2 DEF Tx
  <2>4. lock.tx = t /\ lock.row = NextLock(t).row /\ lock.mode = NextLock(t).mode
    BY DEF Holding, NextLock
  <2> HIDE DEF new
  <2>5. txs' \in [Txs -> Tx] /\ \A p \in Txs : txs'[p] = IF p = t THEN new ELSE txs[p]
    BY <2>1, <2>3 DEF IInv
  <2>6. Taken(locks)'
    <3>1. \A l \in locks : /\ l.tx \in Txs /\ txs[l.tx].step = "locking"
                           /\ \E i \in 1..(txs[l.tx].at - 1) : l = Holding(l.tx, i)
      BY DEF IInv, Taken
    <3>2. \A i \in 1..(at - 1) : i \in 1..(new.at - 1)
      BY <1>1, <2>3
    <3>3. at \in 1..(new.at - 1)
      BY <1>1, <2>3
    <3>4. ASSUME NEW l \in locks'
          PROVE  /\ l.tx \in Txs /\ txs'[l.tx].step = "locking"
                 /\ \E i \in 1..(txs'[l.tx].at - 1) : l = Holding(l.tx, i)
      <4>1. CASE l \in locks
        BY <2>3, <2>5, <3>1, <3>2, <4>1
      <4>2. CASE l = lock
        BY <2>3, <2>4, <2>5, <3>3, <4>2
      <4> QED
        BY <2>1, <4>1, <4>2
    <3> QED
      BY <3>4 DEF Taken, Holding
  <2>7. Exclusive(locks)'
    <3> HIDE DEF lock
    <3>1. ASSUME NEW l \in locks, l.tx # t, l.row = lock.row
          PROVE  ~ Conflict(l.mode, lock.mode) /\ ~ Conflict(lock.mode, l.mode)
      BY <2>4, <3>1, NotBlocked, ConflictIsSymmetric DEF TakeLock
    <3>2. ASSUME NEW l \in locks', NEW m \in locks', l.tx # m.tx, l.row = m.row
          PROVE  ~ Conflict(l.mode, m.mode)
      <4>1. CASE l \in locks /\ m \in locks
        BY <3>2, <4>1 DEF IInv, Exclusive
      <4>2. CASE l = lock /\ m \in locks
        BY <2>4, <3>1, <3>2, <4>2
      <4>3. CASE l \in locks /\ m = lock
        BY <2>4, <3>1, <3>2, <4>3
      <4> QED
        BY <2>1, <3>2, <4>1, <4>2, <4>3
    <3> QED
      BY <3>2 DEF Exclusive
  <2>8. ASSUME NEW p \in Txs
        PROVE  Fits(p, txs[p], locks, business, Row(p), operations)'
    <3>1. Fits(p, txs[p], locks, business, Row(p), operations) /\ Row(p)' = Row(p)
      BY <2>1, TxFields DEF Row
    <3>2. CASE p = t
      <4>1. Begun(t, new, Row(t)) /\ Told(t, new, operations)
        BY <1>1, <2>3 DEF Fits, Begun, Told
      <4>2. Holds(t, new, locks')
        <5>1. \A i \in 1..(new.at - 1) : i \in 1..(at - 1) \/ i = at
          BY <1>1, <2>3
        <5> QED
          BY <1>1, <2>1, <2>3, <5>1 DEF Fits, Holds
      <4>3. Expects(t, new, Row(t), business)
        <5>1. new.at = 8 => at = 7
          BY <1>1, <2>3
        <5> QED
          BY <1>1, <1>3, <2>3, <5>1, Checked DEF Fits, Expects
      <4>4. Fits(t, new, locks', business, Row(t), operations)
        BY <4>1, <4>2, <4>3 DEF Fits
      <4> QED
        BY <2>1, <2>5, <3>1, <3>2, <4>4 DEF Fits, Begun, Holds, Holding, Expects, Told
    <3>3. CASE p # t
      <4>1. txs'[p] = txs[p]
        BY <2>5, <3>3
      <4>2. Holds(p, txs[p], locks')
        BY <2>1, <3>1 DEF Fits, Holds
      <4> QED
        BY <2>1, <3>1, <4>1, <4>2 DEF Fits, Begun, Holds, Holding, Expects, Told
    <3> QED
      BY <3>2, <3>3
  <2>9. Data' /\ Based' /\ Recorded'
    BY <2>1 DEF IInv, Data, Based, Recorded
  <2> QED
    BY <2>5, <2>6, <2>7, <2>8, <2>9 DEF IInv
<1> QED
  BY <1>2, <1>3

-----------------------------------------------------------------------------
(* Commits.                                                                *)

(* The business is nobody else's at the end of a commit.                   *)
LEMMA OneCommitAtTheEnd ==
  ASSUME IInv, NEW t \in Txs, NEW p \in Txs, IsCommit(t), IsCommit(p),
         txs[t].step = "locking", txs[t].at = 8, txs[p].step = "locking", txs[p].at = 8
  PROVE  p = t
<1>1. 5 \in 1..(8 - 1)
  OBVIOUS
<1>2. Holding(t, 5) \in locks /\ Holding(p, 5) \in locks
  BY <1>1, TxFields DEF Fits, Holds
<1>3. Holding(t, 5).row = Holding(p, 5).row
  BY CommitRows DEF Holding
<1>4. Conflict(Holding(t, 5).mode, Holding(p, 5).mode)
  <2>1. Holding(t, 5).mode = "UPDATE" /\ Holding(p, 5).mode = "UPDATE"
    BY CommitRows DEF Holding
  <2> QED
    BY <2>1 DEF Conflict
<1>5. Holding(t, 5).tx = t /\ Holding(p, 5).tx = p
  BY DEF Holding
<1> QED
  BY <1>2, <1>3, <1>4, <1>5 DEF IInv, Exclusive

(* What a transaction writes: one proposal, whose base stays, ...          *)
Writes(t, row) ==
  /\ row \in Proposal /\ row.base = Row(t).base /\ row.status # "absent"
  /\ SetProposal(t, row)

(* ... and, if it is a commit, the next version of the business and a true *)
(* record of it.                                                           *)
Business(t) ==
  \/ UNCHANGED <<business, operations>>
  \/ /\ IsCommit(t) /\ business' = business + 1
     /\ \E o \in [proposal : Proposals, number : Numbers, expected : Versions, committed : Versions] :
          /\ operations' = [operations EXCEPT ![Work[t].key] = o]
          /\ o # NoOperation /\ o.committed = o.expected + 1

LEMMA WritesOf ==
  ASSUME IInv, NEW t \in Txs, CommitTx(t)
  PROVE  (\E row : Writes(t, row)) /\ Business(t)
<1>1. /\ Row(t) \in Proposal /\ business \in Nat /\ Row(t).status # "absent" /\ txs[t].step = "locking"
      /\ Fits(t, txs[t], locks, business, Row(t), operations)
  BY TxFields DEF CommitTx, Fits, Begun
<1>2. ASSUME NEW status \in Statuses \ {"absent"}
      PROVE  /\ [Row(t) EXCEPT !.status = status] \in Proposal
             /\ [Row(t) EXCEPT !.status = status].base = Row(t).base
             /\ [Row(t) EXCEPT !.status = status].status # "absent"
  BY <1>1 DEF Proposal
<1>3. CASE Work[t].kind = "SubmitReview"
  <2>1. SetProposal(t, [Row(t) EXCEPT !.status = "in_review"]) /\ UNCHANGED <<business, operations>>
    BY <1>3 DEF CommitTx, IsCommit
  <2>2. Writes(t, [Row(t) EXCEPT !.status = "in_review"])
    BY <1>2, <2>1 DEF Writes, Statuses
  <2> QED
    BY <2>1, <2>2 DEF Business
<1>4. CASE Work[t].kind = "SaveRevision"
  <2>1. SetProposal(t, [Row(t) EXCEPT !.number = @ + 1]) /\ UNCHANGED <<business, operations>>
    BY <1>4 DEF CommitTx, IsCommit
  <2>2. Row(t).number + 1 \in Numbers
    BY <1>1 DEF Proposal, Numbers
  <2>3. /\ [Row(t) EXCEPT !.number = @ + 1] \in Proposal
        /\ [Row(t) EXCEPT !.number = @ + 1].base = Row(t).base
        /\ [Row(t) EXCEPT !.number = @ + 1].status # "absent"
    BY <1>1, <2>2 DEF Proposal
  <2>4. Writes(t, [Row(t) EXCEPT !.number = @ + 1])
    BY <2>1, <2>3 DEF Writes
  <2> QED
    BY <2>1, <2>4 DEF Business
<1>5. CASE Work[t].kind = "RecordDecision"
  <2>1. PICK decision \in {"approved", "rejected"} : SetProposal(t, [Row(t) EXCEPT !.status = decision])
    BY <1>5 DEF CommitTx, IsCommit
  <2>2. UNCHANGED <<business, operations>>
    BY <1>5 DEF CommitTx, IsCommit
  <2>3. Writes(t, [Row(t) EXCEPT !.status = decision])
    BY <1>2, <2>1 DEF Writes, Statuses
  <2> QED
    BY <2>2, <2>3 DEF Business
<1>6. CASE IsCommit(t)
  <2> DEFINE o == [proposal |-> Work[t].proposal, number |-> Work[t].number,
                   expected |-> txs[t].expected, committed |-> business + 1]
  <2>1. /\ SetProposal(t, [Row(t) EXCEPT !.status = "committed"]) /\ business' = business + 1
        /\ operations' = [operations EXCEPT ![Work[t].key] = o]
    BY <1>6 DEF CommitTx, IsCommit
  <2>2. txs[t].at = 8
    <3>1. txs[t].at = Len(Statements[t]) + 1
      BY DEF CommitTx
    <3>2. Len(Statements[t]) = 7
      BY <1>6, SevenStatements
    <3> QED
      BY <3>1, <3>2
  <2>3. txs[t].expected \in Versions /\ Row(t).base <= txs[t].expected
        /\ txs[t].expected <= business /\ Row(t).base = business
    BY <1>1, <1>6, <2>2 DEF Fits, Expects
  <2>4. txs[t].expected = business /\ business + 1 \in Versions
    BY <1>1, <2>3 DEF Versions
  <2>5. o \in [proposal : Proposals, number : Numbers, expected : Versions, committed : Versions]
    BY <2>3, <2>4, WorkFields
  <2>6. o # NoOperation
    <3>1. o.number # 0
      BY WorkFields DEF Numbers
    <3>2. NoOperation.number = 0
      BY DEF NoOperation
    <3> QED
      BY <3>1, <3>2
  <2>7. o.committed = o.expected + 1
    BY <2>4
  <2> HIDE DEF o
  <2>8. Writes(t, [Row(t) EXCEPT !.status = "committed"])
    BY <1>2, <2>1 DEF Writes, Statuses
  <2> QED
    BY <1>6, <2>1, <2>5, <2>6, <2>7, <2>8 DEF Business
<1> QED
  BY <1>3, <1>4, <1>5, <1>6, KindsOf

LEMMA CommitKeeps ==
  ASSUME IInv, NEW t \in Txs, CommitTx(t)
  PROVE  IInv'
<1>1. PICK row : Writes(t, row)
  BY WritesOf
<1>2. Business(t)
  BY WritesOf
<1>3. /\ txs' = [txs EXCEPT ![t] = Ended("done")] /\ locks' = {l \in locks : l.tx # t}
      /\ txs[t].step = "locking" /\ txs[t].at = Len(Statements[t]) + 1
  BY DEF CommitTx, EndTx, SetTx, Ended
<1>4. /\ Ended("done") \in Tx /\ Ended("done").step = "ended" /\ Ended("done").at = 1
      /\ Ended("done").outcome = "done"
  BY EndedIsTx DEF Outcomes
<1>5. txs' \in [Txs -> Tx] /\ \A p \in Txs : txs'[p] = IF p = t THEN Ended("done") ELSE txs[p]
  BY <1>3, <1>4 DEF IInv
<1>6. Taken(locks)' /\ Exclusive(locks)' /\ \A p \in Txs \ {t} : Holds(p, txs[p], locks')
  BY <1>3, <1>4, LocksWithout
<1>7. business \in Nat /\ Work[t].proposal \in Proposals /\ Work[t].key \in Keys
  BY TxFields, WorkFields
<1>8. /\ business' \in Versions /\ business <= business'
      /\ IsCommit(t) \/ business' = business
  BY <1>2, <1>7 DEF Business, IInv, Data, Versions
<1>9. /\ operations' \in [Keys -> {NoOperation} \cup [proposal : Proposals, number : Numbers,
                                                     expected : Versions, committed : Versions]]
      /\ \A k \in Keys : operations[k] # NoOperation => operations'[k] # NoOperation
      /\ Recorded'
  <2>1. CASE operations' = operations
    BY <2>1 DEF IInv, Data, Recorded
  <2>2. CASE operations' # operations
    <3>1. PICK o \in [proposal : Proposals, number : Numbers, expected : Versions, committed : Versions] :
            /\ operations' = [operations EXCEPT ![Work[t].key] = o]
            /\ o # NoOperation /\ o.committed = o.expected + 1
      BY <1>2, <2>2 DEF Business
    <3> QED
      BY <1>7, <3>1 DEF IInv, Data, Recorded
  <2> QED
    BY <2>1, <2>2
<1>10. /\ proposals' \in [Proposals -> Proposal]
       /\ \A p \in Proposals : proposals'[p].base = proposals[p].base
       /\ \A p \in Proposals : proposals[p].status # "absent" => proposals'[p].status # "absent"
  <2>1. proposals' = [proposals EXCEPT ![Work[t].proposal] = row]
    BY <1>1 DEF Writes, SetProposal
  <2>2. row \in Proposal /\ row.base = proposals[Work[t].proposal].base /\ row.status # "absent"
    BY <1>1 DEF Writes, Row
  <2> QED
    BY <1>7, <2>1, <2>2 DEF IInv, Data
<1>11. Data'
  BY <1>8, <1>9, <1>10 DEF Data
<1>12. Based'
  <2>1. ASSUME NEW p \in Proposals PROVE proposals[p].base <= business'
    <3>1. proposals[p].base <= business /\ proposals[p].base \in Nat
      BY DEF IInv, Based, Data, Proposal, Versions
    <3>2. business' \in Nat
      BY <1>8 DEF Versions
    <3> QED
      BY <1>7, <1>8, <3>1, <3>2
  <2> QED
    BY <1>10, <2>1 DEF Based
<1>13. ASSUME NEW p \in Txs
       PROVE  Fits(p, txs[p], locks, business, Row(p), operations)'
  <2>1. CASE p = t
    BY <1>4, <1>5, <2>1 DEF Fits, Begun, Holds, Expects, Told
  <2>2. CASE p # t
    <3>1. txs'[p] = txs[p] /\ Holds(p, txs[p], locks')
      BY <1>5, <1>6, <2>2
    <3>2. /\ Fits(p, txs[p], locks, business, Row(p), operations)
          /\ Row(p)'.base = Row(p).base /\ (Row(p).status # "absent" => Row(p)'.status # "absent")
      BY <1>10, TxFields DEF Row
    <3>3. Begun(p, txs[p], Row(p)')
      BY <3>2 DEF Fits, Begun
    <3>4. Expects(p, txs[p], Row(p)', business')
      <4>1. SUFFICES ASSUME txs[p].step = "locking", IsCommit(p)
                     PROVE  /\ txs[p].expected \in Versions /\ Row(p)'.base <= txs[p].expected
                            /\ txs[p].expected <= business'
                            /\ txs[p].at = 8 => Row(p)'.base = business'
        BY DEF Expects
      <4>2. /\ txs[p].expected \in Versions /\ Row(p).base <= txs[p].expected
            /\ txs[p].expected <= business /\ (txs[p].at = 8 => Row(p).base = business)
        BY <3>2, <4>1 DEF Fits, Expects
      <4>3. txs[p].expected <= business'
        BY <1>7, <1>8, <4>2 DEF Versions
      <4>4. ASSUME txs[p].at = 8 PROVE business' = business
        <5>1. IsCommit(t) => txs[t].at = 8
          <6>1. ASSUME IsCommit(t) PROVE txs[t].at = 8
            <7>1. Len(Statements[t]) = 7
              BY <6>1, SevenStatements
            <7> QED
              BY <1>3, <7>1
          <6> QED
            BY <6>1
        <5>2. ~ IsCommit(t)
          BY <1>3, <2>2, <4>1, <4>4, <5>1, OneCommitAtTheEnd
        <5> QED
          BY <1>8, <5>2
      <4> QED
        BY <3>2, <4>2, <4>3, <4>4
    <3>5. Told(p, txs[p], operations')
      BY <1>9, <3>2, WorkFields DEF Fits, Told
    <3> QED
      BY <3>1, <3>3, <3>4, <3>5 DEF Fits, Begun, Holds, Holding, Expects, Told
  <2> QED
    BY <2>1, <2>2
<1> QED
  BY <1>5, <1>6, <1>9, <1>11, <1>12, <1>13 DEF IInv

LEMMA PrepareKeeps ==
  ASSUME IInv, NEW p \in Proposals, Prepare(p)
  PROVE  IInv'
<1> DEFINE row == [number |-> 1, base |-> business, status |-> "approved"]
<1>1. /\ proposals' = [proposals EXCEPT ![p] = row] /\ UNCHANGED <<business, operations, txs, locks>>
      /\ proposals[p].status = "absent"
  BY DEF Prepare
<1>2. row \in Proposal
  BY DEF Proposal, Numbers, Statuses, IInv, Data
<1>3. business \in Nat
  BY DEF IInv, Data, Versions
<1>4. Data' /\ Based' /\ Recorded'
  BY <1>1, <1>2, <1>3 DEF IInv, Data, Based, Recorded
<1>5. ASSUME NEW t \in Txs
      PROVE  Fits(t, txs[t], locks, business, Row(t), operations)'
  <2>1. Fits(t, txs[t], locks, business, Row(t), operations)
    BY TxFields
  <2>2. CASE Work[t].proposal # p
    <3>1. Row(t)' = Row(t)
      BY <1>1, <2>2, WorkFields DEF Row, IInv, Data
    <3> QED
      BY <1>1, <2>1, <3>1 DEF Fits, Begun, Holds, Holding, Expects, Told
  <2>3. CASE Work[t].proposal = p
    <3>1. txs[t].step \notin {"lookup", "insert", "locking"}
      BY <1>1, <2>1, <2>3 DEF Fits, Begun, Row
    <3> QED
      BY <1>1, <2>1, <3>1 DEF Fits, Begun, Holds, Holding, Expects, Told
  <2> QED
    BY <2>2, <2>3
<1>6. Taken(locks)' /\ Exclusive(locks)' /\ txs' \in [Txs -> Tx]
  BY <1>1 DEF IInv, Taken, Holding, Exclusive
<1> QED
  BY <1>4, <1>5, <1>6 DEF IInv

-----------------------------------------------------------------------------
(* Deadlocks.  Every transaction but a submission for review takes the     *)
(* business, the proposal and the version in this order, a commit after it *)
(* has shared them all; so a circle would have to go up for ever.          *)

(* u holds a lock that keeps t from its next one, and waits itself.        *)
Blocks(u, t) ==
  /\ u # t /\ Locking(u)
  /\ \E i \in 1..(txs[u].at - 1) :
       /\ Statements[u][i].row = NextLock(t).row
       /\ Conflict(Statements[u][i].mode, NextLock(t).mode)

LEMMA BlockersBlock ==
  ASSUME IInv, NEW t \in Txs, NEW u \in Blockers(t), Locking(u)
  PROVE  Blocks(u, t)
<1>1. PICK l \in locks : l.tx = u /\ u # t /\ l.row = NextLock(t).row /\ Conflict(l.mode, NextLock(t).mode)
  BY DEF Blockers
<1>2. PICK i \in 1..(txs[u].at - 1) : l = Holding(u, i)
  BY <1>1 DEF IInv, Taken
<1>3. l.row = Statements[u][i].row /\ l.mode = Statements[u][i].mode
  BY <1>2 DEF Holding
<1> QED
  BY <1>1, <1>3 DEF Blocks

(* The tables, in the order in which they are locked.                      *)
Rank(row) ==
  CASE row[1] = "key" -> 0
    [] row[1] = "business" -> 1
    [] row[1] = "proposal" -> 2
    [] row[1] = "version" -> 3

LEMMA Ranks ==
  ASSUME NEW t \in Txs, NEW m
  PROVE  /\ Rank(Lock(KeyRow(t), m).row) = 0 /\ Rank(Lock(BusinessRow, m).row) = 1
         /\ Rank(Lock(ProposalRow(t), m).row) = 2 /\ Rank(Lock(VersionRow(t), m).row) = 3
<1>1. /\ Lock(KeyRow(t), m).row[1] = "key" /\ Lock(BusinessRow, m).row[1] = "business"
      /\ Lock(ProposalRow(t), m).row[1] = "proposal" /\ Lock(VersionRow(t), m).row[1] = "version"
  BY DEF Lock, KeyRow, BusinessRow, ProposalRow, VersionRow
<1> QED
  BY <1>1 DEF Rank

(* One that revises or decides waits for a higher rank than it holds, and  *)
(* holds what nobody may share.                                            *)
LEMMA RisingRanks ==
  ASSUME IInv, NEW u \in Txs, Locking(u), Work[u].kind \in {"SaveRevision", "RecordDecision"},
         NEW i \in 1..(txs[u].at - 1)
  PROVE  /\ Statements[u][i].mode = "UPDATE" /\ Rank(Statements[u][i].row) \in {1, 2}
         /\ Rank(Statements[u][i].row) < Rank(NextLock(u).row) /\ Rank(NextLock(u).row) \in {2, 3}
<1>1. txs[u].at \in Int /\ txs[u].at <= Len(Statements[u]) /\ i \in Int /\ i >= 1 /\ i < txs[u].at
  BY TxFields DEF Locking
<1>2. CASE Work[u].kind = "SaveRevision"
  <2>1. i = 1 /\ txs[u].at = 2
    <3>1. Len(Statements[u]) = 2
      BY <1>2, TwoStatements
    <3> QED
      BY <1>1, <3>1
  <2>2. Statements[u][1].mode = "UPDATE"
    <3>1. Statements[u][1] = Lock(ProposalRow(u), "UPDATE")
      BY <1>2, TwoStatements
    <3> QED
      BY <3>1, LockFields
  <2>3. Rank(Statements[u][1].row) = 2 /\ Rank(Statements[u][2].row) = 3
    BY <1>2, TwoStatements, Ranks
  <2> QED
    BY <2>1, <2>2, <2>3 DEF NextLock
<1>3. CASE Work[u].kind = "RecordDecision"
  <2>0. /\ Len(Statements[u]) = 3
        /\ Statements[u][1] = Lock(BusinessRow, "UPDATE")
        /\ Statements[u][2] = Lock(ProposalRow(u), "UPDATE")
        /\ Statements[u][3] = Lock(VersionRow(u), "UPDATE")
    BY <1>3, ThreeStatements
  <2>1. (i = 1 /\ txs[u].at = 2) \/ (i = 1 /\ txs[u].at = 3) \/ (i = 2 /\ txs[u].at = 3)
    BY <1>1, <2>0
  <2>2. Statements[u][1].mode = "UPDATE" /\ Statements[u][2].mode = "UPDATE"
    BY <2>0, LockFields
  <2>3. /\ Rank(Statements[u][1].row) = 1 /\ Rank(Statements[u][2].row) = 2
        /\ Rank(Statements[u][3].row) = 3
    BY <2>0, Ranks
  <2> QED
    BY <2>1, <2>2, <2>3 DEF NextLock
<1> QED
  BY <1>2, <1>3

LEMMA SevenRanks ==
  ASSUME NEW c \in Txs, IsCommit(c)
  PROVE  /\ Rank(Statements[c][1].row) = 0 /\ Rank(Statements[c][2].row) = 1
         /\ Rank(Statements[c][3].row) = 2 /\ Rank(Statements[c][4].row) = 3
         /\ Rank(Statements[c][5].row) = 1 /\ Rank(Statements[c][6].row) = 2
         /\ Rank(Statements[c][7].row) = 3
<1>1. \A m : /\ Rank(Lock(KeyRow(c), m).row) = 0 /\ Rank(Lock(BusinessRow, m).row) = 1
             /\ Rank(Lock(ProposalRow(c), m).row) = 2 /\ Rank(Lock(VersionRow(c), m).row) = 3
  BY Ranks
<1> QED
  BY <1>1, SevenStatements

LEMMA CommitRanks ==
  ASSUME IInv, NEW c \in Txs, Locking(c), IsCommit(c)
  PROVE  /\ txs[c].at \in 1..7
         /\ txs[c].at <= 4 => /\ Rank(NextLock(c).row) = txs[c].at - 1
                              /\ \A i \in 1..(txs[c].at - 1) : Rank(Statements[c][i].row) < Rank(NextLock(c).row)
         /\ txs[c].at >= 5 => Holding(c, txs[c].at - 3) \in locks
                              /\ Holding(c, txs[c].at - 3).row = NextLock(c).row
         /\ \A i \in 1..(txs[c].at - 1) : Rank(Statements[c][i].row) = 0 => i = 1
<1>1. txs[c].at \in Int /\ txs[c].at <= Len(Statements[c]) /\ txs[c] \in Tx
  BY TxFields DEF Locking
<1>2. txs[c].at \in 1..7
  <2>1. Len(Statements[c]) = 7
    BY SevenStatements
  <2>2. txs[c].at \in 1..8
    BY <1>1 DEF Tx
  <2> QED
    BY <1>1, <2>1, <2>2
<1>3. /\ Rank(Statements[c][1].row) = 0 /\ Rank(Statements[c][2].row) = 1
      /\ Rank(Statements[c][3].row) = 2 /\ Rank(Statements[c][4].row) = 3
      /\ Rank(Statements[c][5].row) = 1 /\ Rank(Statements[c][6].row) = 2
      /\ Rank(Statements[c][7].row) = 3
  BY SevenRanks
<1>4. ASSUME txs[c].at <= 4
      PROVE  /\ Rank(NextLock(c).row) = txs[c].at - 1
             /\ \A i \in 1..(txs[c].at - 1) : Rank(Statements[c][i].row) < Rank(NextLock(c).row)
  <2>1. \A n \in 1..4 : Rank(Statements[c][n].row) = n - 1
    BY <1>3
  <2>2. txs[c].at \in 1..4 /\ NextLock(c) = Statements[c][txs[c].at]
    BY <1>2, <1>4 DEF NextLock
  <2>3. \A i \in 1..(txs[c].at - 1) : i \in 1..4 /\ i < txs[c].at
    BY <2>2
  <2> QED
    BY <2>1, <2>2, <2>3
<1>5. ASSUME txs[c].at >= 5
      PROVE  /\ Holding(c, txs[c].at - 3) \in locks
             /\ Holding(c, txs[c].at - 3).row = NextLock(c).row
  <2>1. txs[c].at - 3 \in 1..(txs[c].at - 1)
    BY <1>2, <1>5
  <2>2. Holding(c, txs[c].at - 3) \in locks
    BY <2>1, TxFields DEF Fits, Holds, Locking
  <2>3. txs[c].at = 5 \/ txs[c].at = 6 \/ txs[c].at = 7
    BY <1>2, <1>5
  <2>4. /\ Statements[c][5].row = Statements[c][2].row /\ Statements[c][6].row = Statements[c][3].row
        /\ Statements[c][7].row = Statements[c][4].row
    BY CommitRows
  <2>5. Statements[c][txs[c].at - 3].row = Statements[c][txs[c].at].row
    BY <2>3, <2>4
  <2> QED
    BY <2>2, <2>5 DEF Holding, NextLock
<1>6. \A i \in 1..(txs[c].at - 1) : Rank(Statements[c][i].row) = 0 => i = 1
  <2>1. \A i \in 1..(txs[c].at - 1) : i = 1 \/ i = 2 \/ i = 3 \/ i = 4 \/ i = 5 \/ i = 6
    BY <1>2
  <2> QED
    BY <1>3, <2>1
<1> QED
  BY <1>2, <1>4, <1>5, <1>6

(* No circle has a commit that shares its rows already: the others in it   *)
(* that hold one of them would have waited.                                *)
LEMMA LateCommitsGoOn ==
  ASSUME IInv, NEW c \in Txs, Locking(c), IsCommit(c), txs[c].at >= 5,
         NEW u \in Txs, Work[u].kind \in {"SaveRevision", "RecordDecision"}, Blocks(u, c)
  PROVE  FALSE
<1>1. PICK i \in 1..(txs[u].at - 1) : Statements[u][i].row = NextLock(c).row
  BY DEF Blocks
<1>2. Locking(u) /\ u # c
  BY DEF Blocks
<1>3. Statements[u][i].mode = "UPDATE"
  BY <1>2, RisingRanks
<1>4. Holding(u, i) \in locks
  BY <1>2, TxFields DEF Locking, Fits, Holds
<1>5. /\ Holding(c, txs[c].at - 3) \in locks
      /\ Holding(c, txs[c].at - 3).row = NextLock(c).row
  BY CommitRanks
<1>6. Holding(u, i).tx = u /\ Holding(c, txs[c].at - 3).tx = c /\ Holding(u, i).row = NextLock(c).row
  BY <1>1 DEF Holding
<1>7. Conflict(Holding(u, i).mode, Holding(c, txs[c].at - 3).mode)
  <2>1. Holding(u, i).mode = "UPDATE"
    BY <1>3 DEF Holding
  <2> QED
    BY <2>1 DEF Conflict
<1> QED
  BY <1>2, <1>4, <1>5, <1>6, <1>7 DEF IInv, Exclusive

(* A circle without the two exceptions.                                    *)
Circle(S) ==
  /\ S # {} /\ S \subseteq Txs
  /\ \A t \in S : Locking(t) /\ \E u \in S : Blocks(u, t)
  /\ \A t \in S : Work[t].kind # "SubmitReview"
  /\ \A t, u \in S : IsCommit(t) /\ IsCommit(u) => t = u

LEMMA EarlyCommits ==
  ASSUME IInv, NEW S, Circle(S), NEW c \in S, IsCommit(c)
  PROVE  txs[c].at \in 1..4
<1>1. c \in Txs /\ Locking(c) /\ txs[c].at \in 1..7
  BY CommitRanks DEF Circle
<1>2. PICK u \in S : Blocks(u, c)
  BY DEF Circle
<1>3. u # c /\ u \in Txs
  BY <1>2 DEF Blocks, Circle
<1>4. Work[u].kind \in {"SaveRevision", "RecordDecision"}
  BY <1>3, KindsOf DEF Circle
<1>5. ~ (txs[c].at >= 5)
  BY <1>1, <1>2, <1>3, <1>4, LateCommitsGoOn
<1> QED
  BY <1>1, <1>5

(* Whoever blocks one of a circle waits for a higher rank.                 *)
LEMMA CirclesRise ==
  ASSUME IInv, NEW S, Circle(S), NEW t \in S, NEW u \in S, Blocks(u, t)
  PROVE  /\ Rank(NextLock(t).row) < Rank(NextLock(u).row)
         /\ Rank(NextLock(t).row) \in 0..3 /\ Rank(NextLock(u).row) \in 0..3
<1>1. PICK i \in 1..(txs[u].at - 1) : Statements[u][i].row = NextLock(t).row
  BY DEF Blocks
<1>2. u \in Txs /\ t \in Txs /\ Locking(u) /\ Locking(t)
  BY DEF Circle
<1>3. CASE IsCommit(u)
  <2>1. txs[u].at \in 1..4
    BY <1>3, EarlyCommits
  <2>2. /\ Rank(NextLock(u).row) = txs[u].at - 1
        /\ Rank(Statements[u][i].row) < Rank(NextLock(u).row)
    BY <1>2, <1>3, <2>1, CommitRanks
  <2>3. Rank(Statements[u][i].row) \in 0..3
    <3>1. i \in 1..3 /\ i <= 3
      BY <2>1
    <3>2. /\ Rank(Statements[u][1].row) = 0 /\ Rank(Statements[u][2].row) = 1
          /\ Rank(Statements[u][3].row) = 2
      BY <1>2, <1>3, SevenRanks
    <3>3. i = 1 \/ i = 2 \/ i = 3
      BY <3>1
    <3> QED
      BY <3>2, <3>3
  <2> QED
    BY <1>1, <2>1, <2>2, <2>3
<1>4. CASE ~ IsCommit(u)
  <2>1. Work[u].kind \in {"SaveRevision", "RecordDecision"}
    BY <1>2, <1>4, KindsOf DEF Circle
  <2>2. /\ Rank(Statements[u][i].row) \in {1, 2} /\ Rank(Statements[u][i].row) < Rank(NextLock(u).row)
        /\ Rank(NextLock(u).row) \in {2, 3}
    BY <1>2, <2>1, RisingRanks
  <2> QED
    BY <1>1, <2>2
<1> QED
  BY <1>3, <1>4

LEMMA NoCircle ==
  ASSUME IInv, NEW S, Circle(S)
  PROVE  FALSE
<1> DEFINE R(t) == Rank(NextLock(t).row)
<1>1. \A t \in S : \E u \in S : R(t) < R(u) /\ R(t) \in 0..3 /\ R(u) \in 0..3
  <2>1. \A t \in S : \E u \in S : Blocks(u, t)
    BY DEF Circle
  <2> QED
    BY <2>1, CirclesRise
<1> HIDE DEF R
<1>2. PICK a \in S : TRUE
  BY DEF Circle
<1>3. PICK b \in S : R(a) < R(b) /\ R(a) \in 0..3 /\ R(b) \in 0..3
  BY <1>1
<1>4. PICK c \in S : R(b) < R(c) /\ R(c) \in 0..3
  BY <1>1
<1>5. PICK d \in S : R(c) < R(d) /\ R(d) \in 0..3
  BY <1>1
<1>6. PICK e \in S : R(d) < R(e) /\ R(e) \in 0..3
  BY <1>1
<1> QED
  BY <1>3, <1>4, <1>5, <1>6

-----------------------------------------------------------------------------
(* Main theorems.                                                          *)

LEMMA InvariantStarts ==
  ASSUME Init
  PROVE  IInv
<1>1. Data
  BY DEF Init, Data, Versions, Numbers, Proposal, Statuses
<1>2. Based
  <2>1. proposals \in [Proposals -> [number : {1}, base : {1}, status : {"absent", "draft", "in_review"}]]
        /\ business = 1
    BY DEF Init
  <2> QED
    BY <2>1 DEF Based
<1>3. Recorded /\ Taken(locks) /\ Exclusive(locks)
  BY DEF Init, Recorded, Taken, Exclusive
<1>4. txs \in [Txs -> Tx]
  BY DEF Init, Tx, Outcomes
<1>5. \A t \in Txs : Fits(t, txs[t], locks, business, Row(t), operations)
  BY DEF Init, Fits, Begun, Holds, Expects, Told
<1> QED
  BY <1>1, <1>2, <1>3, <1>4, <1>5 DEF IInv

LEMMA InvariantStays ==
  ASSUME IInv, [Next]_vars
  PROVE  IInv'
<1>1. ASSUME NEW t \in Txs, Send(t) PROVE IInv'
  BY <1>1, SendKeeps
<1>2. ASSUME NEW t \in Txs, Proceed(t) PROVE IInv'
  <2>1. CASE LookupKey(t)
    BY <2>1, LookupKeeps
  <2>2. CASE InsertOperation(t)
    BY <2>2, InsertKeeps
  <2>3. CASE DuplicateKey(t)
    BY <2>3, RollbackKeeps DEF DuplicateKey, Outcomes
  <2>4. CASE TakeLock(t)
    BY <2>4, TakeLockKeeps
  <2>5. CASE NoRow(t)
    BY <2>5, RollbackKeeps DEF NoRow, Outcomes
  <2>6. CASE CommitTx(t)
    BY <2>6, CommitKeeps
  <2> QED
    BY <1>2, <2>1, <2>2, <2>3, <2>4, <2>5, <2>6 DEF Proceed
<1>3. ASSUME NEW t \in Txs, LockTimeout(t) \/ ConnectionLost(t) PROVE IInv'
  BY <1>3, RollbackKeeps DEF LockTimeout, ConnectionLost, Outcomes
<1>4. CASE DetectDeadlock
  <2>1. PICK S \in SUBSET Txs : \E t \in S : Rollback(t, "failed")
    BY <1>4 DEF DetectDeadlock, Deadlocks
  <2> QED
    BY <2>1, RollbackKeeps DEF Outcomes
<1>5. ASSUME NEW p \in Proposals, Prepare(p) PROVE IInv'
  BY <1>5, PrepareKeeps
<1>6. CASE UNCHANGED vars
  <2>1. \A t \in Txs : Row(t)' = Row(t)
    BY <1>6 DEF vars, Row
  <2>2. \A t \in Txs : Fits(t, txs[t], locks, business, Row(t), operations)'
    BY <1>6, <2>1 DEF vars, IInv, Fits, Begun, Holds, Holding, Expects, Told
  <2> QED
    BY <1>6, <2>2 DEF vars, IInv, Data, Based, Recorded, Taken, Holding, Exclusive
<1> QED
  BY <1>1, <1>2, <1>3, <1>4, <1>5, <1>6 DEF Next

(* Rows, operations and transactions keep their types, and a lock belongs  *)
(* to a transaction at work.                                               *)
THEOREM TypeCorrect == Spec => []TypeOK
<1>1. ASSUME IInv PROVE TypeOK
  <2>1. ASSUME NEW l \in locks
        PROVE  l \in [tx : {t \in Txs : txs[t].step = "locking"}, row : Rows, mode : Modes]
    <3>1. l.tx \in Txs /\ txs[l.tx].step = "locking"
      BY <1>1 DEF IInv, Taken
    <3>2. PICK i \in 1..(txs[l.tx].at - 1) : l = Holding(l.tx, i)
      BY <1>1 DEF IInv, Taken
    <3>3. txs[l.tx].at \in Int /\ txs[l.tx].at <= Len(Statements[l.tx]) + 1
      BY <1>1, <3>1, TxFields DEF Fits, Holds
    <3>4. i \in 1..Len(Statements[l.tx])
      BY <3>1, <3>3, StatementsAreLocks
    <3>5. Statements[l.tx][i].row \in Rows /\ Statements[l.tx][i].mode \in Modes
      BY <3>1, <3>4, StatementsAreLocks
    <3> QED
      BY <3>1, <3>2, <3>5 DEF Holding
  <2> QED
    BY <1>1, <2>1 DEF IInv, Data, TypeOK
<1> QED
  BY <1>1, InvariantStarts, InvariantStays, PTL DEF Spec

(* For any transactions that overlap on a business: a committed operation  *)
(* records the version it has replaced, although it was read before any    *)
(* lock, and a client that is told its key is taken can rely on an         *)
(* operation under that key (commit_service.go:86-93).                     *)
THEOREM RecordsAreTrue == Spec => []OperationsAreTrue
<1>1. ASSUME IInv PROVE OperationsAreTrue
  <2>1. \A t \in Txs : Told(t, txs[t], operations)
    BY <1>1 DEF IInv, Fits
  <2> QED
    BY <1>1, <2>1 DEF IInv, Recorded, Told, OperationsAreTrue
<1> QED
  BY <1>1, InvariantStarts, InvariantStays, PTL DEF Spec

(* For any number of transactions: what deadlocks has a submission for     *)
(* review among it, or two commits (commit_service.go:86, :97,             *)
(* proposal_repository.go:123, :134).                                      *)
THEOREM TwoWaysToDeadlock == Spec => []DeadlocksAreKnown
<1>1. ASSUME IInv PROVE DeadlocksAreKnown
  <2>1. SUFFICES ASSUME NEW S \in Deadlocks,
                        \A t \in S : Work[t].kind # "SubmitReview",
                        \A t, u \in S : IsCommit(t) /\ IsCommit(u) => t = u
                 PROVE  FALSE
    BY DEF DeadlocksAreKnown
  <2>2. S \in SUBSET Txs /\ S # {} /\ \A t \in S : Blockers(t) # {} /\ Blockers(t) \cap S # {}
    BY DEF Deadlocks
  <2>3. \A t \in S : Locking(t)
    BY <2>2 DEF Blockers
  <2>4. \A t \in S : \E u \in S : Blocks(u, t)
    BY <1>1, <2>2, <2>3, BlockersBlock
  <2> QED
    BY <1>1, <2>1, <2>2, <2>3, <2>4, NoCircle DEF Circle
<1> QED
  BY <1>1, InvariantStarts, InvariantStays, PTL DEF Spec

-----------------------------------------------------------------------------
(* Atomicity.  What a statement has found under its lock stays true until  *)
(* the transaction ends, because whoever would change it takes a lock that *)
(* conflicts: on the proposal, on the same version, on the business, or on *)
(* the key.                                                                *)

(* From its lock CurrentFrom on a transaction has seen that its version is *)
(* the current one, and from ReadyFrom on that it is allowed.              *)
CurrentFrom(t) ==
  CASE Work[t].kind \in {"SubmitReview", "SaveRevision"} -> 2
    [] Work[t].kind = "RecordDecision" -> 3
    [] Work[t].kind = "Commit" -> 7

ReadyFrom(t) ==
  CASE Work[t].kind = "SubmitReview" -> 2
    [] Work[t].kind = "SaveRevision" -> 3
    [] Work[t].kind = "RecordDecision" -> 4
    [] Work[t].kind = "Commit" -> 8

Permits(t, row, b) ==
  /\ Work[t].kind \in {"SubmitReview", "SaveRevision"} => row.status = "draft"
  /\ Work[t].kind = "RecordDecision" => row.status = "in_review" /\ row.base = b
  /\ Work[t].kind = "Commit" => row.status = "approved" /\ row.base = b /\ LoadedFields = MandatoryFields

Seen(t, x, row, b, ops) ==
  x.step = "locking" =>
    /\ x.at >= CurrentFrom(t) => row.number = Work[t].number
    /\ x.at >= ReadyFrom(t) => Permits(t, row, b)
    /\ IsCommit(t) /\ x.at >= 2 => ops[Work[t].key] = NoOperation

(* A transaction has no outcome before its end; only a commit has a key to *)
(* look at.                                                                *)
Pending(t, x) ==
  /\ x.step # "ended" => x.outcome = "none"
  /\ x.step \in {"lookup", "insert"} => IsCommit(t)

SInv == IInv /\ \A t \in Txs : Seen(t, txs[t], Row(t), business, operations) /\ Pending(t, txs[t])

LEMMA AllowedMeans ==
  ASSUME NEW t \in Txs
  PROVE  Atomic!Allowed(t) <=> Row(t).number = Work[t].number /\ Permits(t, Row(t), business)
BY DEF Atomic!Allowed, Atomic!IsCurrent, Atomic!IsFresh, Atomic!Row, Row, Permits

(* Two transactions never hold conflicting locks of their statements.      *)
LEMMA HeldApart ==
  ASSUME IInv, NEW t \in Txs, NEW u \in Txs, t # u,
         txs[t].step = "locking", txs[u].step = "locking",
         NEW i \in 1..(txs[t].at - 1), NEW j \in 1..(txs[u].at - 1),
         Statements[t][i].row = Statements[u][j].row
  PROVE  ~ Conflict(Statements[t][i].mode, Statements[u][j].mode)
<1>1. Holding(t, i) \in locks /\ Holding(u, j) \in locks
  BY TxFields DEF Fits, Holds
<1>2. Holding(t, i).tx # Holding(u, j).tx /\ Holding(t, i).row = Holding(u, j).row
  BY DEF Holding
<1>3. ~ Conflict(Holding(t, i).mode, Holding(u, j).mode)
  BY <1>1, <1>2 DEF IInv, Exclusive
<1> QED
  BY <1>3 DEF Holding

LEMMA UpdateConflicts ==
  ASSUME NEW m
  PROVE  /\ Conflict("UPDATE", m) /\ Conflict(m, "UPDATE")
         /\ Conflict("NO KEY UPDATE", "NO KEY UPDATE")
BY DEF Conflict

(* The row and mode of a statement, by its kind.                           *)
Takes(t, i, row, mode) == Statements[t][i].row = row /\ Statements[t][i].mode = mode

LEMMA KindTakes ==
  ASSUME NEW t \in Txs
  PROVE  /\ Work[t].kind = "SubmitReview" =>
              /\ Len(Statements[t]) = 2 /\ Takes(t, 1, VersionRow(t), "NO KEY UPDATE")
              /\ Takes(t, 2, ProposalRow(t), "NO KEY UPDATE")
         /\ Work[t].kind = "SaveRevision" =>
              /\ Len(Statements[t]) = 2 /\ Takes(t, 1, ProposalRow(t), "UPDATE")
              /\ Takes(t, 2, VersionRow(t), "NO KEY UPDATE")
         /\ Work[t].kind = "RecordDecision" =>
              /\ Len(Statements[t]) = 3 /\ Takes(t, 1, BusinessRow, "UPDATE")
              /\ Takes(t, 2, ProposalRow(t), "UPDATE") /\ Takes(t, 3, VersionRow(t), "UPDATE")
         /\ IsCommit(t) =>
              /\ Len(Statements[t]) = 7 /\ Takes(t, 1, KeyRow(t), "UPDATE")
              /\ Takes(t, 5, BusinessRow, "UPDATE") /\ Takes(t, 6, ProposalRow(t), "UPDATE")
              /\ Takes(t, 7, VersionRow(t), "UPDATE")
<1>1. ASSUME NEW i, NEW row, NEW mode, Statements[t][i] = Lock(row, mode)
      PROVE  Takes(t, i, row, mode)
  BY <1>1, LockFields DEF Takes
<1>2. CASE Work[t].kind \in {"SubmitReview", "SaveRevision"}
  BY <1>1, <1>2, TwoStatements DEF IsCommit
<1>3. CASE Work[t].kind = "RecordDecision"
  BY <1>1, <1>3, ThreeStatements DEF IsCommit
<1>4. CASE IsCommit(t)
  BY <1>1, <1>4, SevenStatements DEF IsCommit
<1> QED
  BY <1>2, <1>3, <1>4, KindsOf

LEMMA Thresholds ==
  ASSUME NEW t \in Txs
  PROVE  /\ Work[t].kind = "SubmitReview" => CurrentFrom(t) = 2 /\ ReadyFrom(t) = 2
         /\ Work[t].kind = "SaveRevision" => CurrentFrom(t) = 2 /\ ReadyFrom(t) = 3
         /\ Work[t].kind = "RecordDecision" => CurrentFrom(t) = 3 /\ ReadyFrom(t) = 4
         /\ IsCommit(t) => CurrentFrom(t) = 7 /\ ReadyFrom(t) = 8
<1>1. Work[t].kind = "SubmitReview" => CurrentFrom(t) = 2 /\ ReadyFrom(t) = 2
  BY DEF CurrentFrom, ReadyFrom
<1>2. Work[t].kind = "SaveRevision" => CurrentFrom(t) = 2 /\ ReadyFrom(t) = 3
  BY DEF CurrentFrom, ReadyFrom
<1>3. Work[t].kind = "RecordDecision" => CurrentFrom(t) = 3 /\ ReadyFrom(t) = 4
  BY DEF CurrentFrom, ReadyFrom
<1>4. IsCommit(t) => CurrentFrom(t) = 7 /\ ReadyFrom(t) = 8
  BY DEF CurrentFrom, ReadyFrom, IsCommit
<1> QED
  BY <1>1, <1>2, <1>3, <1>4

(* The numbers of a transaction's locks, and of the thresholds.            *)
LEMMA LockNumbers ==
  ASSUME NEW t \in Txs
  PROVE  /\ CurrentFrom(t) <= Len(Statements[t]) + 1 /\ ReadyFrom(t) <= Len(Statements[t]) + 1
         /\ CurrentFrom(t) \in 2..7 /\ ReadyFrom(t) \in 2..8 /\ CurrentFrom(t) <= ReadyFrom(t)
         /\ Len(Statements[t]) \in Nat
<1> DEFINE n == Len(Statements[t])
<1>1. \/ n = 2 /\ CurrentFrom(t) = 2 /\ ReadyFrom(t) = 2
      \/ n = 2 /\ CurrentFrom(t) = 2 /\ ReadyFrom(t) = 3
      \/ n = 3 /\ CurrentFrom(t) = 3 /\ ReadyFrom(t) = 4
      \/ n = 7 /\ CurrentFrom(t) = 7 /\ ReadyFrom(t) = 8
  <2> HIDE DEF n
  <2>1. Work[t].kind = "SubmitReview" => n = 2
    BY KindTakes DEF n
  <2>2. Work[t].kind = "SaveRevision" => n = 2
    BY KindTakes DEF n
  <2>3. Work[t].kind = "RecordDecision" => n = 3
    BY KindTakes DEF n
  <2>4. IsCommit(t) => n = 7
    BY KindTakes DEF n
  <2> QED
    BY <2>1, <2>2, <2>3, <2>4, Thresholds, KindsOf
<1> HIDE DEF n
<1>2. /\ CurrentFrom(t) <= n + 1 /\ ReadyFrom(t) <= n + 1
      /\ CurrentFrom(t) \in 2..7 /\ ReadyFrom(t) \in 2..8 /\ CurrentFrom(t) <= ReadyFrom(t)
      /\ n \in Nat
  BY <1>1
<1> QED
  BY <1>2 DEF n

(* At its end a transaction has locked its proposal and its version.       *)
LEMMA LockedAtTheEnd ==
  ASSUME NEW u \in Txs, txs[u].at = Len(Statements[u]) + 1
  PROVE  /\ \E j \in 1..(txs[u].at - 1) : Statements[u][j].row = ProposalRow(u)
         /\ \E j \in 1..(txs[u].at - 1) : /\ Statements[u][j].row = VersionRow(u)
                                          /\ Statements[u][j].mode \in {"NO KEY UPDATE", "UPDATE"}
         /\ IsCommit(u) => /\ Takes(u, 1, KeyRow(u), "UPDATE") /\ 1 \in 1..(txs[u].at - 1)
                           /\ Takes(u, 5, BusinessRow, "UPDATE") /\ 5 \in 1..(txs[u].at - 1)
<1>1. ASSUME Len(Statements[u]) = 2
      PROVE  1 \in 1..(txs[u].at - 1) /\ 2 \in 1..(txs[u].at - 1)
  BY <1>1
<1>2. ASSUME Len(Statements[u]) = 3
      PROVE  2 \in 1..(txs[u].at - 1) /\ 3 \in 1..(txs[u].at - 1)
  BY <1>2
<1>3. ASSUME Len(Statements[u]) = 7
      PROVE  /\ 1 \in 1..(txs[u].at - 1) /\ 5 \in 1..(txs[u].at - 1)
             /\ 6 \in 1..(txs[u].at - 1) /\ 7 \in 1..(txs[u].at - 1)
  BY <1>3
<1>4. CASE Work[u].kind = "SubmitReview"
  BY <1>1, <1>4, KindTakes DEF Takes, IsCommit
<1>5. CASE Work[u].kind = "SaveRevision"
  BY <1>1, <1>5, KindTakes DEF Takes, IsCommit
<1>6. CASE Work[u].kind = "RecordDecision"
  BY <1>2, <1>6, KindTakes DEF Takes, IsCommit
<1>7. CASE IsCommit(u)
  BY <1>3, <1>7, KindTakes DEF Takes
<1> QED
  BY <1>4, <1>5, <1>6, <1>7, KindsOf

(* One that has seen its version to be current keeps every other from      *)
(* writing the proposal.                                                   *)
LEMMA NobodyElseWrites ==
  ASSUME SInv, NEW t \in Txs, NEW u \in Txs, t # u, txs[t].step = "locking", txs[t].at >= CurrentFrom(t),
         CommitTx(u), Work[t].proposal = Work[u].proposal
  PROVE  FALSE
<1>1. /\ txs[u].step = "locking" /\ txs[u].at = Len(Statements[u]) + 1
      /\ txs[t].at \in Int /\ txs[u].at \in Int /\ IInv
  BY TxFields DEF SInv, CommitTx
<1>2. PICK j \in 1..(txs[u].at - 1) : Statements[u][j].row = ProposalRow(u)
  BY <1>1, LockedAtTheEnd
<1>3. PICK k \in 1..(txs[u].at - 1) : /\ Statements[u][k].row = VersionRow(u)
                                      /\ Statements[u][k].mode \in {"NO KEY UPDATE", "UPDATE"}
  BY <1>1, LockedAtTheEnd
<1>4. ProposalRow(t) = ProposalRow(u)
  BY DEF ProposalRow
<1>5. ASSUME NEW i \in 1..(txs[t].at - 1), Takes(t, i, ProposalRow(t), "UPDATE")
      PROVE  FALSE
  <2>1. Statements[t][i].row = Statements[u][j].row
    BY <1>2, <1>4, <1>5 DEF Takes
  <2>2. ~ Conflict(Statements[t][i].mode, Statements[u][j].mode)
    BY <1>1, <2>1, HeldApart
  <2> QED
    BY <1>5, <2>2, UpdateConflicts DEF Takes
<1>6. CASE Work[t].kind = "SubmitReview"
  <2>0. 1 \in 1..(txs[t].at - 1)
    BY <1>1, <1>6, Thresholds
  <2>1. Takes(t, 1, VersionRow(t), "NO KEY UPDATE")
    BY <1>6, KindTakes
  <2>2. Work[t].number = Row(t).number /\ Work[u].number = Row(u).number
    <3>1. /\ txs[u].at >= CurrentFrom(u)
          /\ Seen(t, txs[t], Row(t), business, operations) /\ Seen(u, txs[u], Row(u), business, operations)
      BY <1>1, LockNumbers DEF SInv
    <3> QED
      BY <1>1, <3>1 DEF Seen
  <2>3. VersionRow(t) = VersionRow(u)
    BY <2>2 DEF VersionRow, Row
  <2>4. ~ Conflict(Statements[t][1].mode, Statements[u][k].mode)
    BY <1>1, <1>3, <2>0, <2>1, <2>3, HeldApart DEF Takes
  <2> QED
    BY <1>3, <2>1, <2>4, UpdateConflicts DEF Takes
<1>7. CASE Work[t].kind = "SaveRevision"
  <2>0. 1 \in 1..(txs[t].at - 1)
    BY <1>1, <1>7, Thresholds
  <2>1. Takes(t, 1, ProposalRow(t), "UPDATE")
    BY <1>7, KindTakes
  <2> QED
    BY <1>5, <2>0, <2>1
<1>8. CASE Work[t].kind = "RecordDecision"
  <2>0. 2 \in 1..(txs[t].at - 1)
    BY <1>1, <1>8, Thresholds
  <2>1. Takes(t, 2, ProposalRow(t), "UPDATE")
    BY <1>8, KindTakes
  <2> QED
    BY <1>5, <2>0, <2>1
<1>9. CASE IsCommit(t)
  <2>0. 6 \in 1..(txs[t].at - 1)
    BY <1>1, <1>9, Thresholds
  <2>1. Takes(t, 6, ProposalRow(t), "UPDATE")
    BY <1>9, KindTakes
  <2> QED
    BY <1>5, <2>0, <2>1
<1> QED
  BY <1>6, <1>7, <1>8, <1>9, KindsOf

(* One that has compared the business keeps commits from moving it.        *)
LEMMA NobodyElseCommits ==
  ASSUME SInv, NEW t \in Txs, NEW u \in Txs, t # u, txs[t].step = "locking", CommitTx(u), IsCommit(u)
  PROVE  /\ Work[t].kind \in {"RecordDecision", "Commit"} => ~ (txs[t].at >= ReadyFrom(t))
         /\ IsCommit(t) /\ txs[t].at >= 2 => Work[t].key # Work[u].key
<1>1. /\ txs[u].step = "locking" /\ txs[u].at = Len(Statements[u]) + 1
      /\ txs[t].at \in Int /\ txs[u].at \in Int /\ IInv
  BY TxFields DEF SInv, CommitTx
<1>2. /\ Takes(u, 1, KeyRow(u), "UPDATE") /\ 1 \in 1..(txs[u].at - 1)
      /\ Takes(u, 5, BusinessRow, "UPDATE") /\ 5 \in 1..(txs[u].at - 1)
  BY <1>1, LockedAtTheEnd
<1>3. ASSUME NEW i \in 1..(txs[t].at - 1), Takes(t, i, BusinessRow, "UPDATE")
      PROVE  FALSE
  <2>1. Statements[t][i].row = Statements[u][5].row
    BY <1>2, <1>3 DEF Takes
  <2>2. ~ Conflict(Statements[t][i].mode, Statements[u][5].mode)
    BY <1>1, <1>2, <2>1, HeldApart
  <2> QED
    BY <1>3, <2>2, UpdateConflicts DEF Takes
<1>4. ASSUME Work[t].kind = "RecordDecision", txs[t].at >= ReadyFrom(t)
      PROVE  FALSE
  <2>0. 1 \in 1..(txs[t].at - 1)
    BY <1>1, <1>4, Thresholds
  <2>1. Takes(t, 1, BusinessRow, "UPDATE")
    BY <1>4, KindTakes
  <2> QED
    BY <1>3, <2>0, <2>1
<1>5. ASSUME IsCommit(t), txs[t].at >= ReadyFrom(t)
      PROVE  FALSE
  <2>0. 5 \in 1..(txs[t].at - 1)
    BY <1>1, <1>5, Thresholds
  <2>1. Takes(t, 5, BusinessRow, "UPDATE")
    BY <1>5, KindTakes
  <2> QED
    BY <1>3, <2>0, <2>1
<1>6. ASSUME IsCommit(t), txs[t].at >= 2, Work[t].key = Work[u].key
      PROVE  FALSE
  <2>0. 1 \in 1..(txs[t].at - 1)
    BY <1>1, <1>6, Thresholds
  <2>1. Takes(t, 1, KeyRow(t), "UPDATE")
    BY <1>6, KindTakes
  <2>2. Statements[t][1].row = Statements[u][1].row
    BY <1>2, <1>6, <2>1 DEF Takes, KeyRow
  <2>3. ~ Conflict(Statements[t][1].mode, Statements[u][1].mode)
    BY <1>1, <1>2, <2>0, <2>2, HeldApart
  <2> QED
    BY <1>2, <2>3, UpdateConflicts DEF Takes
<1> QED
  BY <1>4, <1>5, <1>6 DEF IsCommit

(* The transaction that is about to lock for the first time, or that has   *)
(* ended, has seen nothing.                                                *)
LEMMA NothingSeen ==
  ASSUME NEW t \in Txs, NEW x, x.step = "locking" => x.at = 1
  PROVE  Seen(t, x, Row(t), business, operations)
<1>1. 2 <= CurrentFrom(t) /\ 2 <= ReadyFrom(t) /\ CurrentFrom(t) \in Int /\ ReadyFrom(t) \in Int
  BY LockNumbers
<1> QED
  BY <1>1 DEF Seen

(* A step that moves one transaction and changes no row.                   *)
LEMMA QuietKeepsSeen ==
  ASSUME SInv, IInv', NEW t \in Txs, NEW new, txs' = [txs EXCEPT ![t] = new],
         UNCHANGED <<business, proposals, operations>>,
         Seen(t, new, Row(t), business, operations), Pending(t, new)
  PROVE  SInv'
<1>1. ASSUME NEW p \in Txs
      PROVE  Seen(p, txs[p], Row(p), business, operations)' /\ Pending(p, txs[p])'
  <2>1. Row(p)' = Row(p)
    BY DEF Row
  <2>2. Seen(p, txs'[p], Row(p), business, operations) /\ Pending(p, txs'[p])
    BY DEF SInv, IInv
  <2> QED
    BY <2>1, <2>2 DEF Seen, Pending
<1> QED
  BY <1>1 DEF SInv

LEMMA RollbackKeepsSeen ==
  ASSUME SInv, IInv', NEW t \in Txs, NEW outcome \in Outcomes, Rollback(t, outcome)
  PROVE  SInv'
<1> DEFINE new == Ended(outcome)
<1>1. txs' = [txs EXCEPT ![t] = new] /\ UNCHANGED <<business, proposals, operations>>
  BY DEF Rollback, EndTx, SetTx, Ended
<1>2. new.step = "ended"
  BY EndedIsTx
<1> HIDE DEF new
<1>3. Seen(t, new, Row(t), business, operations) /\ Pending(t, new)
  BY <1>2, NothingSeen DEF Pending
<1> QED
  BY <1>1, <1>3, QuietKeepsSeen

(* What the lock of a statement shows: its WHERE, and the check after it.  *)
LEMMA LockShows ==
  ASSUME SInv, NEW t \in Txs, TakeLock(t), Check(t), NEW new, new.step = "locking", new.at = txs[t].at + 1
  PROVE  Seen(t, new, Row(t), business, operations)
<1>1. /\ txs[t].step = "locking" /\ txs[t].at \in Int /\ Where(t)
      /\ Seen(t, txs[t], Row(t), business, operations)
      /\ ~ (IsCommit(t) /\ txs[t].at = 1 /\ operations[Work[t].key] # NoOperation)
  BY TxFields DEF SInv, TakeLock, Locking
<1>2. CurrentFrom(t) \in Int /\ ReadyFrom(t) \in Int
  BY LockNumbers
<1>3. /\ txs[t].at + 1 = CurrentFrom(t) => Row(t).number = Work[t].number
      /\ txs[t].at + 1 = ReadyFrom(t) => Permits(t, Row(t), business)
  <2>1. CASE Work[t].kind = "SubmitReview"
    <3>1. CurrentFrom(t) = 2 /\ ReadyFrom(t) = 2
      BY <2>1, Thresholds
    <3>2. txs[t].at = 1 => Row(t).number = Work[t].number /\ Row(t).status = "draft"
      BY <1>1, <2>1 DEF Where, IsCurrent
    <3>3. Row(t).status = "draft" => Permits(t, Row(t), business)
      BY <2>1 DEF Permits
    <3> QED
      BY <1>1, <3>1, <3>2, <3>3
  <2>2. CASE Work[t].kind = "SaveRevision"
    <3>1. CurrentFrom(t) = 2 /\ ReadyFrom(t) = 3
      BY <2>2, Thresholds
    <3>2. Row(t).number = Work[t].number
      BY <2>2 DEF Check, IsCurrent, IsCommit
    <3>3. txs[t].at = 2 => Row(t).status = "draft"
      BY <1>1, <2>2 DEF Where
    <3>4. Row(t).status = "draft" => Permits(t, Row(t), business)
      BY <2>2 DEF Permits
    <3> QED
      BY <1>1, <3>1, <3>2, <3>3, <3>4
  <2>3. CASE Work[t].kind = "RecordDecision"
    <3>1. CurrentFrom(t) = 3 /\ ReadyFrom(t) = 4
      BY <2>3, Thresholds
    <3>2. txs[t].at >= 2 => Row(t).number = Work[t].number
      BY <1>1, <2>3 DEF Where, IsCurrent
    <3>3. txs[t].at = 3 => Permits(t, Row(t), business)
      BY <2>3 DEF Check, Permits
    <3> QED
      BY <1>1, <3>1, <3>2, <3>3
  <2>4. CASE IsCommit(t)
    <3>1. CurrentFrom(t) = 7 /\ ReadyFrom(t) = 8
      BY <2>4, Thresholds
    <3>2. txs[t].at >= 6 => Row(t).number = Work[t].number
      BY <1>1, <2>4 DEF Where, IsCurrent, IsCommit
    <3>3. txs[t].at = 7 => Permits(t, Row(t), business)
      BY <2>4 DEF Check, Permits, IsCommit
    <3> QED
      BY <1>1, <3>1, <3>2, <3>3
  <2> QED
    BY <2>1, <2>2, <2>3, <2>4, KindsOf
<1>4. new.at >= CurrentFrom(t) => Row(t).number = Work[t].number
  <2>1. new.at >= CurrentFrom(t) => txs[t].at >= CurrentFrom(t) \/ txs[t].at + 1 = CurrentFrom(t)
    BY <1>1, <1>2
  <2> QED
    BY <1>1, <1>3, <2>1 DEF Seen
<1>5. new.at >= ReadyFrom(t) => Permits(t, Row(t), business)
  <2>1. new.at >= ReadyFrom(t) => txs[t].at >= ReadyFrom(t) \/ txs[t].at + 1 = ReadyFrom(t)
    BY <1>1, <1>2
  <2> QED
    BY <1>1, <1>3, <2>1 DEF Seen
<1>6. IsCommit(t) /\ new.at >= 2 => operations[Work[t].key] = NoOperation
  <2>1. new.at >= 2 => txs[t].at >= 2 \/ txs[t].at = 1
    BY <1>1
  <2> QED
    BY <1>1, <2>1 DEF Seen
<1> QED
  BY <1>4, <1>5, <1>6 DEF Seen

(* What a commit changes is what no other transaction has seen.            *)
LEMMA CommitKeepsSeen ==
  ASSUME SInv, IInv', NEW u \in Txs, CommitTx(u)
  PROVE  SInv'
<1>1. PICK row : Writes(u, row)
  BY WritesOf DEF SInv
<1>2. Business(u)
  BY WritesOf DEF SInv
<1>3. /\ txs' = [txs EXCEPT ![u] = Ended("done")] /\ Ended("done").step = "ended"
      /\ txs \in [Txs -> Tx] /\ proposals \in [Proposals -> Proposal] /\ DOMAIN operations = Keys
      /\ business \in Nat
  BY EndedIsTx, TxFields DEF CommitTx, EndTx, SetTx, Ended, Outcomes, SInv, IInv, Data
<1>4. ASSUME NEW t \in Txs, t # u, txs[t].step = "locking"
      PROVE  /\ txs[t].at >= CurrentFrom(t) => Row(t)' = Row(t)
             /\ txs[t].at >= ReadyFrom(t) /\ Work[t].kind \in {"RecordDecision", "Commit"} => business' = business
             /\ IsCommit(t) /\ txs[t].at >= 2 => operations'[Work[t].key] = operations[Work[t].key]
  <2>1. ASSUME txs[t].at >= CurrentFrom(t) PROVE Row(t)' = Row(t)
    <3>1. Work[t].proposal # Work[u].proposal
      BY <1>4, <2>1, NobodyElseWrites
    <3> QED
      BY <1>1, <1>3, <3>1, WorkFields DEF Writes, SetProposal, Row
  <2>2. CASE UNCHANGED <<business, operations>>
    BY <2>1, <2>2
  <2>3. CASE ~ UNCHANGED <<business, operations>>
    <3>1. PICK o : IsCommit(u) /\ operations' = [operations EXCEPT ![Work[u].key] = o]
      BY <1>2, <2>3 DEF Business
    <3>2. /\ Work[t].kind \in {"RecordDecision", "Commit"} => ~ (txs[t].at >= ReadyFrom(t))
          /\ IsCommit(t) /\ txs[t].at >= 2 => Work[t].key # Work[u].key
      BY <1>4, <3>1, NobodyElseCommits
    <3> QED
      BY <1>3, <2>1, <3>1, <3>2, WorkFields
  <2> QED
    BY <2>2, <2>3
<1>5. ASSUME NEW t \in Txs
      PROVE  Seen(t, txs[t], Row(t), business, operations)' /\ Pending(t, txs[t])'
  <2>1. CASE t = u
    <3>1. txs'[t].step = "ended"
      BY <1>3, <2>1
    <3> QED
      BY <3>1 DEF Seen, Pending
  <2>2. CASE t # u
    <3>1. txs'[t] = txs[t]
      BY <1>3, <2>2
    <3>2. Seen(t, txs[t], Row(t), business, operations) /\ Pending(t, txs[t])
      BY DEF SInv
    <3>3. Seen(t, txs[t], Row(t)', business', operations')
      <4> SUFFICES ASSUME txs[t].step = "locking"
                   PROVE  /\ txs[t].at >= CurrentFrom(t) => Row(t)'.number = Work[t].number
                          /\ txs[t].at >= ReadyFrom(t) => Permits(t, Row(t)', business')
                          /\ IsCommit(t) /\ txs[t].at >= 2 => operations'[Work[t].key] = NoOperation
        BY DEF Seen
      <4>1. txs[t].at \in Int /\ CurrentFrom(t) \in Int /\ ReadyFrom(t) \in Int /\ CurrentFrom(t) <= ReadyFrom(t)
        BY TxFields, LockNumbers DEF SInv
      <4>2. txs[t].at >= ReadyFrom(t) => txs[t].at >= CurrentFrom(t)
        BY <4>1
      <4>3. ASSUME txs[t].at >= ReadyFrom(t) PROVE Permits(t, Row(t)', business')
        <5>1. Permits(t, Row(t), business) /\ Row(t)' = Row(t)
          BY <1>4, <2>2, <3>2, <4>2, <4>3 DEF Seen
        <5>2. Work[t].kind \in {"RecordDecision", "Commit"} => business' = business
          BY <1>4, <2>2, <4>3
        <5> QED
          BY <5>1, <5>2 DEF Permits
      <4> QED
        BY <1>4, <2>2, <3>2, <4>3 DEF Seen
    <3> QED
      BY <3>1, <3>2, <3>3 DEF Seen, Pending
  <2> QED
    BY <2>1, <2>2
<1> QED
  BY <1>5 DEF SInv

LEMMA PrepareKeepsSeen ==
  ASSUME SInv, IInv', NEW p \in Proposals, Prepare(p)
  PROVE  SInv'
<1>1. /\ \E row : proposals' = [proposals EXCEPT ![p] = row]
      /\ UNCHANGED <<business, operations, txs>> /\ proposals[p].status = "absent"
      /\ proposals \in [Proposals -> Proposal]
  BY DEF Prepare, SInv, IInv, Data
<1>2. ASSUME NEW t \in Txs
      PROVE  Seen(t, txs[t], Row(t), business, operations)' /\ Pending(t, txs[t])'
  <2>1. Seen(t, txs[t], Row(t), business, operations) /\ Pending(t, txs[t])
    BY DEF SInv
  <2>2. txs[t].step = "locking" => Row(t).status # "absent"
    BY TxFields DEF SInv, Fits, Begun
  <2>3. txs[t].step = "locking" => Row(t)' = Row(t)
    BY <1>1, <2>2, WorkFields DEF Row
  <2> QED
    BY <1>1, <2>1, <2>3 DEF Seen, Pending
<1> QED
  BY <1>2 DEF SInv

LEMMA SeenStarts ==
  ASSUME Init
  PROVE  SInv
<1>1. \A t \in Txs : txs[t].step = "idle" /\ txs[t].outcome = "none"
  BY DEF Init
<1>2. \A t \in Txs : Seen(t, txs[t], Row(t), business, operations) /\ Pending(t, txs[t])
  BY <1>1 DEF Seen, Pending
<1> QED
  BY <1>2, InvariantStarts DEF SInv

(* A step ends a transaction without effect, or moves one on, or is one of *)
(* the two that write.                                                     *)
Moves(t, new) ==
  /\ txs' = [txs EXCEPT ![t] = new] /\ UNCHANGED <<business, proposals, operations>>
  /\ new.outcome = txs[t].outcome

LEMMA ProceedSeen ==
  ASSUME SInv, NEW t \in Txs, Send(t) \/ LookupKey(t) \/ InsertOperation(t) \/ DuplicateKey(t) \/ TakeLock(t) \/ NoRow(t)
  PROVE  \/ \E outcome \in Outcomes : Rollback(t, outcome)
         \/ \E new : Moves(t, new) /\ Seen(t, new, Row(t), business, operations) /\ Pending(t, new)
<1>1. /\ txs[t].step \in {"idle", "lookup", "insert"} => txs[t].at = 1
      /\ Pending(t, txs[t]) /\ txs[t] \in Tx
  BY TxFields DEF SInv, Fits, Begun
<1>2. ASSUME NEW step \in {"lookup", "insert", "locking"}, NEW new, new = [txs[t] EXCEPT !.step = step],
             txs[t].step \in {"idle", "lookup", "insert"}, step # "locking" => IsCommit(t)
      PROVE  Seen(t, new, Row(t), business, operations) /\ Pending(t, new) /\ new.outcome = txs[t].outcome
  <2>1. new.at = 1 /\ new.step = step /\ new.outcome = txs[t].outcome
    BY <1>1, <1>2 DEF Tx
  <2>2. new.outcome = "none"
    BY <1>1, <1>2, <2>1 DEF Pending
  <2> QED
    BY <1>2, <2>1, <2>2, NothingSeen DEF Pending
<1>3. CASE Send(t)
  <2>1. PICK new : new = [txs[t] EXCEPT !.step = IF IsCommit(t) THEN "lookup" ELSE "locking"]
    OBVIOUS
  <2>2. /\ txs[t].step \in {"idle", "lookup", "insert"}
        /\ \E step \in {"lookup", "insert", "locking"} :
             new = [txs[t] EXCEPT !.step = step] /\ (step # "locking" => IsCommit(t))
    BY <1>3, <2>1 DEF Send
  <2>3. Seen(t, new, Row(t), business, operations) /\ Pending(t, new) /\ new.outcome = txs[t].outcome
    BY <1>2, <2>2
  <2>4. Moves(t, new)
    BY <1>3, <2>1, <2>3 DEF Send, SetTx, Moves
  <2> QED
    BY <2>3, <2>4
<1>4. CASE LookupKey(t)
  <2>1. CASE operations[Work[t].key] # NoOperation
    BY <1>4, <2>1 DEF LookupKey, Outcomes
  <2>2. CASE operations[Work[t].key] = NoOperation
    <3>1. PICK new : new = [txs[t] EXCEPT !.step = "insert"]
      OBVIOUS
    <3>2. txs[t].step = "lookup" /\ IsCommit(t)
      BY <1>1, <1>4 DEF LookupKey, Pending
    <3>3. Seen(t, new, Row(t), business, operations) /\ Pending(t, new) /\ new.outcome = txs[t].outcome
      BY <1>2, <3>1, <3>2
    <3>4. Moves(t, new)
      BY <1>4, <2>2, <3>1, <3>3 DEF LookupKey, SetTx, Moves
    <3> QED
      BY <3>3, <3>4
  <2> QED
    BY <2>1, <2>2
<1>5. CASE InsertOperation(t)
  <2>1. PICK new : new = [txs[t] EXCEPT !.step = "locking", !.expected = business]
    OBVIOUS
  <2>2. txs' = [txs EXCEPT ![t] = new] /\ UNCHANGED <<business, proposals, operations>> /\ txs[t].step = "insert"
    BY <1>5, <2>1 DEF InsertOperation, SetTx
  <2>3. new.at = 1 /\ new.step = "locking" /\ new.outcome = txs[t].outcome
    BY <1>1, <2>1, <2>2 DEF Tx
  <2>4. new.outcome = "none"
    BY <1>1, <2>2, <2>3 DEF Pending
  <2> QED
    BY <2>2, <2>3, <2>4, NothingSeen DEF Pending, Moves
<1>6. CASE DuplicateKey(t) \/ NoRow(t)
  BY <1>6 DEF DuplicateKey, NoRow, Outcomes
<1>7. CASE TakeLock(t)
  <2>1. CASE ~ Check(t)
    BY <1>7, <2>1 DEF TakeLock, Outcomes
  <2>2. CASE Check(t)
    <3>1. PICK new : new = [txs[t] EXCEPT !.at = @ + 1]
      OBVIOUS
    <3>2. txs' = [txs EXCEPT ![t] = new] /\ UNCHANGED <<business, proposals, operations>> /\ txs[t].step = "locking"
      BY <1>7, <2>2, <3>1 DEF TakeLock, SetTx, Locking
    <3>3. new.step = "locking" /\ new.at = txs[t].at + 1 /\ new.outcome = txs[t].outcome
      BY <1>1, <3>1, <3>2 DEF Tx
    <3>4. Seen(t, new, Row(t), business, operations)
      BY <1>7, <2>2, <3>3, LockShows
    <3>5. new.outcome = "none"
      BY <1>1, <3>2, <3>3 DEF Pending
    <3> QED
      BY <3>2, <3>3, <3>4, <3>5 DEF Pending, Moves
  <2> QED
    BY <2>1, <2>2
<1> QED
  BY <1>3, <1>4, <1>5, <1>6, <1>7

LEMMA SeenStays ==
  ASSUME SInv, [Next]_vars
  PROVE  SInv'
<1>1. IInv'
  BY InvariantStays DEF SInv
<1>2. ASSUME NEW t \in Txs,
             Send(t) \/ LookupKey(t) \/ InsertOperation(t) \/ DuplicateKey(t) \/ TakeLock(t) \/ NoRow(t)
      PROVE  SInv'
  <2>1. CASE \E outcome \in Outcomes : Rollback(t, outcome)
    BY <1>1, <2>1, RollbackKeepsSeen
  <2>2. CASE \E new : Moves(t, new) /\ Seen(t, new, Row(t), business, operations) /\ Pending(t, new)
    BY <1>1, <2>2, QuietKeepsSeen DEF Moves
  <2> QED
    BY <1>2, <2>1, <2>2, ProceedSeen
<1>3. ASSUME NEW t \in Txs, CommitTx(t) PROVE SInv'
  BY <1>1, <1>3, CommitKeepsSeen
<1>4. ASSUME NEW t \in Txs, LockTimeout(t) \/ ConnectionLost(t) PROVE SInv'
  BY <1>1, <1>4, RollbackKeepsSeen DEF LockTimeout, ConnectionLost, Outcomes
<1>5. CASE DetectDeadlock
  <2>1. PICK S \in SUBSET Txs : \E t \in S : Rollback(t, "failed")
    BY <1>5 DEF DetectDeadlock, Deadlocks
  <2> QED
    BY <1>1, <2>1, RollbackKeepsSeen DEF Outcomes
<1>6. ASSUME NEW p \in Proposals, Prepare(p) PROVE SInv'
  BY <1>1, <1>6, PrepareKeepsSeen
<1>7. CASE UNCHANGED vars
  <2>1. \A t \in Txs : Row(t)' = Row(t)
    BY <1>7 DEF vars, Row
  <2>2. \A t \in Txs : Seen(t, txs[t], Row(t), business, operations)' /\ Pending(t, txs[t])'
    BY <1>7, <2>1 DEF vars, SInv, Seen, Pending
  <2> QED
    BY <1>1, <2>2 DEF SInv
<1> QED
  BY <1>2, <1>3, <1>4, <1>5, <1>6, <1>7 DEF Next, Proceed

-----------------------------------------------------------------------------
(* The refinement: a transaction takes effect where it ends.               *)

LEMMA AtomicStarts ==
  ASSUME Init
  PROVE  Atomic!Init
<1>1. business = 1 /\ operations = [k \in Keys |-> NoOperation]
  BY DEF Init
<1>2. \A p \in Proposals : proposals[p].number \in Nat \ {0} /\ proposals[p].base \in 1..business
  <2>1. \A p \in Proposals : proposals[p].number = 1 /\ proposals[p].base = 1
    BY DEF Init
  <2> QED
    BY <1>1, <2>1
<1>3. [t \in Txs |-> txs[t].outcome] = [t \in Txs |-> "none"]
  BY DEF Init
<1> QED
  BY <1>1, <1>2, <1>3 DEF Atomic!Init

LEMMA EndsOf ==
  ASSUME SInv, NEW t \in Txs, txs[t].step # "ended", NEW outcome, EndTx(t, outcome)
  PROVE  Atomic!Ends(t, outcome)
<1>1. PICK new : new = [step |-> "ended", at |-> 1, expected |-> 0, outcome |-> outcome]
  OBVIOUS
<1>2. new.outcome = outcome
  BY <1>1
<1>3. txs' = [txs EXCEPT ![t] = new] /\ txs[t].outcome = "none" /\ txs \in [Txs -> Tx]
  BY <1>1 DEF EndTx, SetTx, SInv, IInv, Pending
<1>4. [u \in Txs |-> txs'[u].outcome] = [[u \in Txs |-> txs[u].outcome] EXCEPT ![t] = outcome]
  BY <1>2, <1>3
<1> QED
  BY <1>3, <1>4 DEF Atomic!Ends

LEMMA MovesOf ==
  ASSUME SInv, NEW t \in Txs, NEW new, Moves(t, new)
  PROVE  UNCHANGED Atomic!vars
<1>1. txs' = [txs EXCEPT ![t] = new] /\ new.outcome = txs[t].outcome /\ txs \in [Txs -> Tx]
  BY DEF Moves, SInv, IInv
<1>2. [u \in Txs |-> txs'[u].outcome] = [u \in Txs |-> txs[u].outcome]
  BY <1>1
<1> QED
  BY <1>2 DEF Moves, Atomic!vars

(* An end without effect.                                                  *)
LEMMA RollbackOf ==
  ASSUME SInv, NEW t \in Txs, txs[t].step # "ended", NEW outcome, Rollback(t, outcome),
         \/ outcome = "failed"
         \/ outcome = "refused" /\ ~ Atomic!Allowed(t)
         \/ outcome = "conflict" /\ IsCommit(t) /\ operations[Work[t].key] # NoOperation
         \/ /\ outcome = "replayed" /\ IsCommit(t)
            /\ operations[Work[t].key].proposal = Work[t].proposal
            /\ operations[Work[t].key].number = Work[t].number
  PROVE  Atomic!NoEffect(t)
<1>1. Atomic!Ends(t, outcome) /\ UNCHANGED <<business, proposals, operations>>
  BY EndsOf DEF Rollback
<1>2. Atomic!Replayed(t) \/ Atomic!KeyTaken(t) \/ Atomic!Refused(t) \/ Atomic!Failed(t)
  BY <1>1 DEF Atomic!Replayed, Atomic!KeyTaken, Atomic!Refused, Atomic!Failed, IsCommit
<1> QED
  BY <1>1, <1>2 DEF Atomic!NoEffect

(* A refusal, by a WHERE or by a check, is right.                          *)
LEMMA RefusalsAreRight ==
  ASSUME NEW t \in Txs, ~ Where(t) \/ ~ Check(t)
  PROVE  ~ Atomic!Allowed(t)
<1>1. SUFFICES ASSUME Row(t).number = Work[t].number, Permits(t, Row(t), business)
               PROVE  Where(t) /\ Check(t)
  BY AllowedMeans
<1>2. CASE Work[t].kind = "SubmitReview"
  BY <1>1, <1>2 DEF Where, Check, IsCurrent, IsCommit, Permits
<1>3. CASE Work[t].kind = "SaveRevision"
  BY <1>1, <1>3 DEF Where, Check, IsCurrent, IsCommit, Permits
<1>4. CASE Work[t].kind = "RecordDecision"
  BY <1>1, <1>4 DEF Where, Check, IsCurrent, IsCommit, Permits
<1>5. CASE IsCommit(t)
  BY <1>1, <1>5 DEF Where, Check, IsCurrent, IsCommit, Permits
<1> QED
  BY <1>2, <1>3, <1>4, <1>5, KindsOf

(* With all its locks a transaction is allowed, a commit finds its key     *)
(* free, and the version it has read is the one it replaces.               *)
LEMMA AllowedAtTheEnd ==
  ASSUME SInv, NEW t \in Txs, CommitTx(t)
  PROVE  /\ Atomic!Allowed(t)
         /\ IsCommit(t) => operations[Work[t].key] = NoOperation /\ txs[t].expected = business
<1>1. /\ txs[t].step = "locking" /\ txs[t].at = Len(Statements[t]) + 1
      /\ Seen(t, txs[t], Row(t), business, operations)
      /\ Expects(t, txs[t], Row(t), business)
      /\ Row(t).base \in Nat /\ business \in Nat
  BY TxFields DEF CommitTx, SInv, Fits
<1>2. txs[t].at >= CurrentFrom(t) /\ txs[t].at >= ReadyFrom(t)
  BY <1>1, LockNumbers
<1>3. Atomic!Allowed(t)
  BY <1>1, <1>2, AllowedMeans DEF Seen
<1>4. ASSUME IsCommit(t)
      PROVE  operations[Work[t].key] = NoOperation /\ txs[t].expected = business
  <2>1. Len(Statements[t]) = 7
    BY <1>4, SevenStatements
  <2>2. txs[t].at = 8 /\ txs[t].at >= 2
    BY <1>1, <2>1
  <2>3. operations[Work[t].key] = NoOperation
    BY <1>1, <1>4, <2>2 DEF Seen
  <2>4. txs[t].expected \in Versions /\ business <= txs[t].expected /\ txs[t].expected <= business
    BY <1>1, <1>4, <2>2 DEF Expects
  <2> QED
    BY <1>1, <2>3, <2>4 DEF Versions
<1> QED
  BY <1>3, <1>4

LEMMA CommitOf ==
  ASSUME SInv, NEW t \in Txs, CommitTx(t)
  PROVE  \/ Atomic!SubmitReview(t) \/ Atomic!SaveRevision(t) \/ Atomic!Commit(t)
         \/ \E decision \in {"approved", "rejected"} : Atomic!RecordDecision(t, decision)
<1>1. Atomic!Allowed(t) /\ Atomic!Ends(t, "done") /\ Row(t) = Atomic!Row(t)
  BY AllowedAtTheEnd, EndsOf DEF CommitTx, Row, Atomic!Row
<1>2. Atomic!Done(t, Work[t].kind)
  BY <1>1 DEF Atomic!Done
<1>3. \A row : SetProposal(t, row) => Atomic!SetProposal(t, row)
  BY DEF SetProposal, Atomic!SetProposal
<1>4. CASE Work[t].kind = "SubmitReview"
  BY <1>1, <1>2, <1>3, <1>4 DEF CommitTx, IsCommit, Atomic!SubmitReview
<1>5. CASE Work[t].kind = "SaveRevision"
  BY <1>1, <1>2, <1>3, <1>5 DEF CommitTx, IsCommit, Atomic!SaveRevision
<1>6. CASE Work[t].kind = "RecordDecision"
  BY <1>1, <1>2, <1>3, <1>6 DEF CommitTx, IsCommit, Atomic!RecordDecision
<1>7. CASE IsCommit(t)
  <2>1. operations[Work[t].key] = NoOperation /\ txs[t].expected = business
    BY <1>7, AllowedAtTheEnd
  <2> QED
    BY <1>1, <1>2, <1>3, <1>7, <2>1 DEF CommitTx, IsCommit, Atomic!Commit
<1> QED
  BY <1>4, <1>5, <1>6, <1>7, KindsOf

LEMMA ProceedOf ==
  ASSUME SInv, NEW t \in Txs, Send(t) \/ Proceed(t)
  PROVE  [Atomic!Next]_(Atomic!vars)
<1>1. ASSUME NEW outcome, txs[t].step # "ended", Rollback(t, outcome),
             \/ outcome = "refused" /\ ~ Atomic!Allowed(t)
             \/ outcome = "conflict" /\ IsCommit(t) /\ operations[Work[t].key] # NoOperation
             \/ /\ outcome = "replayed" /\ IsCommit(t)
                /\ operations[Work[t].key].proposal = Work[t].proposal
                /\ operations[Work[t].key].number = Work[t].number
      PROVE  Atomic!Next
  BY <1>1, RollbackOf DEF Atomic!Next
<1>2. txs[t].step \in {"lookup", "insert"} => IsCommit(t)
  BY DEF SInv, Pending
<1>3. CASE \/ Send(t) \/ InsertOperation(t)
           \/ LookupKey(t) /\ operations[Work[t].key] = NoOperation
           \/ TakeLock(t) /\ Check(t)
  <2>1. txs[t] \in Tx /\ UNCHANGED <<business, proposals, operations>>
    BY <1>3, TxFields DEF SInv, Send, InsertOperation, LookupKey, TakeLock
  <2>2. \E new : txs' = [txs EXCEPT ![t] = new] /\ new.outcome = txs[t].outcome
    <3>1. \E new : /\ txs' = [txs EXCEPT ![t] = new]
                   /\ \/ \E step \in {"lookup", "insert", "locking"} : new = [txs[t] EXCEPT !.step = step]
                      \/ new = [txs[t] EXCEPT !.step = "locking", !.expected = business]
                      \/ new = [txs[t] EXCEPT !.at = @ + 1]
      BY <1>3 DEF Send, InsertOperation, LookupKey, TakeLock, SetTx
    <3> QED
      BY <2>1, <3>1 DEF Tx
  <2> QED
    BY <2>1, <2>2, MovesOf DEF Moves
<1>4. CASE LookupKey(t) /\ operations[Work[t].key] # NoOperation
  <2>1. \/ /\ operations[Work[t].key].proposal = Work[t].proposal
           /\ operations[Work[t].key].number = Work[t].number
           /\ Rollback(t, "replayed")
        \/ Rollback(t, "conflict")
    BY <1>4 DEF LookupKey
  <2>2. txs[t].step = "lookup"
    BY <1>4 DEF LookupKey
  <2> QED
    BY <1>1, <1>2, <1>4, <2>1, <2>2
<1>5. CASE DuplicateKey(t)
  BY <1>1, <1>5 DEF DuplicateKey, Locking
<1>6. CASE (TakeLock(t) /\ ~ Check(t)) \/ NoRow(t)
  <2>1. Rollback(t, "refused") /\ txs[t].step = "locking" /\ (~ Where(t) \/ ~ Check(t))
    BY <1>6 DEF TakeLock, NoRow, Locking
  <2> QED
    BY <1>1, <2>1, RefusalsAreRight
<1>7. CASE CommitTx(t)
  BY <1>7, CommitOf DEF Atomic!Next
<1> QED
  BY <1>3, <1>4, <1>5, <1>6, <1>7 DEF Proceed

LEMMA FailureOf ==
  ASSUME SInv, NEW t \in Txs, Rollback(t, "failed"), txs[t].step # "ended"
  PROVE  Atomic!Next
BY RollbackOf DEF Atomic!Next

LEMMA AtomicStep ==
  ASSUME SInv, [Next]_vars
  PROVE  [Atomic!Next]_(Atomic!vars)
<1>1. ASSUME NEW t \in Txs, Send(t) \/ Proceed(t) PROVE [Atomic!Next]_(Atomic!vars)
  BY <1>1, ProceedOf
<1>2. ASSUME NEW t \in Txs, LockTimeout(t) \/ ConnectionLost(t) PROVE Atomic!Next
  BY <1>2, FailureOf DEF LockTimeout, ConnectionLost, Waiting, Blockers, Locking
<1>3. CASE DetectDeadlock
  <2>1. PICK S \in Deadlocks : \E t \in S : Rollback(t, "failed")
    BY <1>3 DEF DetectDeadlock
  <2>2. \A t \in S : t \in Txs /\ txs[t].step = "locking"
    BY <2>1 DEF Deadlocks, Blockers, Locking
  <2> QED
    BY <2>1, <2>2, FailureOf
<1>4. ASSUME NEW p \in Proposals, Prepare(p) PROVE Atomic!Next
  <2>1. Atomic!Prepare(p)
    BY <1>4 DEF Prepare, Atomic!Prepare
  <2> QED
    BY <2>1 DEF Atomic!Next
<1>5. CASE UNCHANGED vars
  BY <1>5 DEF vars, Atomic!vars
<1> QED
  BY <1>1, <1>2, <1>3, <1>4, <1>5 DEF Next

(* For any number of transactions on any proposals: whatever their         *)
(* statements wait for and however they interleave, those that are done    *)
(* take effect one after the other, each on rows that allow it at that     *)
(* instant, and those that are not leave no trace                          *)
(* (proposal_repository.go:73-139, approval_repository.go:30-81,           *)
(* commit_service.go:55-188).                                              *)
THEOREM LocksMakeAtomic == Spec => TransactionsAreAtomic
<1>1. Spec => []SInv
  BY SeenStarts, SeenStays, PTL DEF Spec
<1> QED
  BY <1>1, AtomicStarts, AtomicStep, PTL DEF Spec, Atomic!Spec, TransactionsAreAtomic

-----------------------------------------------------------------------------
(* What clients may build on, from the atomic transactions alone.          *)

(* Two commits that are done under one key are the same.                   *)
OneDone(t, u, x, y) ==
  IsCommit(t) /\ IsCommit(u) /\ x = "done" /\ y = "done" /\ Work[t].key = Work[u].key => t = u

(* outs are the outcomes, ops the operations, b the version.               *)
Honoured(outs, ops, b) ==
  /\ DOMAIN outs = Txs /\ DOMAIN ops = Keys /\ b \in Nat
  /\ \A k \in Keys : ops[k] # NoOperation => ops[k].committed \in Nat /\ ops[k].committed <= b
  /\ \A t \in Txs : IsCommit(t) /\ outs[t] \in {"done", "replayed"} =>
       ops[Work[t].key].proposal = Work[t].proposal /\ ops[Work[t].key].number = Work[t].number
  /\ \A t \in Txs : outs[t] = "conflict" => ops[Work[t].key] # NoOperation
  /\ \A t, u \in Txs : OneDone(t, u, outs[t], outs[u])
  /\ \A k, l \in Keys : ops[k] # NoOperation /\ ops[k].committed = ops[l].committed => k = l

Answers == [t \in Txs |-> txs[t].outcome]

LEMMA NumbersTell ==
  ASSUME NEW t \in Txs, NEW o, o.number = Work[t].number
  PROVE  o # NoOperation
<1>1. Work[t].number # 0
  BY WorkFields DEF Numbers
<1>2. NoOperation.number = 0
  BY DEF NoOperation
<1> QED
  BY <1>1, <1>2

(* An answer that leaves the operations alone.                             *)
LEMMA AnswerHonours ==
  ASSUME NEW outs, NEW ops, NEW b, Honoured(outs, ops, b),
         NEW t \in Txs, NEW outcome,
         IsCommit(t) => outcome # "done",
         IsCommit(t) /\ outcome = "replayed" =>
           ops[Work[t].key].proposal = Work[t].proposal /\ ops[Work[t].key].number = Work[t].number,
         outcome = "conflict" => ops[Work[t].key] # NoOperation
  PROVE  Honoured([outs EXCEPT ![t] = outcome], ops, b)
<1> DEFINE new == [outs EXCEPT ![t] = outcome]
<1>1. DOMAIN new = Txs /\ \A u \in Txs : new[u] = IF u = t THEN outcome ELSE outs[u]
  BY DEF Honoured
<1> HIDE DEF new
<1>2. \A u \in Txs : IsCommit(u) /\ new[u] \in {"done", "replayed"} =>
        ops[Work[u].key].proposal = Work[u].proposal /\ ops[Work[u].key].number = Work[u].number
  BY <1>1 DEF Honoured
<1>3. \A u \in Txs : new[u] = "conflict" => ops[Work[u].key] # NoOperation
  BY <1>1 DEF Honoured
<1>4. \A u \in Txs : IsCommit(u) /\ new[u] = "done" => outs[u] = "done"
  BY <1>1
<1>5. \A u, v \in Txs : OneDone(u, v, new[u], new[v])
  <2>1. \A u, v \in Txs : OneDone(u, v, outs[u], outs[v])
    BY DEF Honoured
  <2> QED
    BY <1>4, <2>1 DEF OneDone
<1>6. /\ DOMAIN ops = Keys /\ b \in Nat
      /\ \A k \in Keys : ops[k] # NoOperation => ops[k].committed \in Nat /\ ops[k].committed <= b
      /\ \A k, l \in Keys : ops[k] # NoOperation /\ ops[k].committed = ops[l].committed => k = l
  BY DEF Honoured
<1>7. Honoured(new, ops, b)
  BY <1>1, <1>2, <1>3, <1>5, <1>6 DEF Honoured
<1> QED
  BY <1>7 DEF new

(* A commit, under a key that is free and with the next version.           *)
LEMMA CommitHonours ==
  ASSUME NEW outs, NEW ops, NEW b, Honoured(outs, ops, b),
         NEW t \in Txs, IsCommit(t), ops[Work[t].key] = NoOperation,
         NEW o, o.proposal = Work[t].proposal, o.number = Work[t].number, o.committed = b + 1
  PROVE  Honoured([outs EXCEPT ![t] = "done"], [ops EXCEPT ![Work[t].key] = o], b + 1)
<1> DEFINE new == [outs EXCEPT ![t] = "done"]
           rows == [ops EXCEPT ![Work[t].key] = o]
<1>1. DOMAIN new = Txs /\ \A u \in Txs : new[u] = IF u = t THEN "done" ELSE outs[u]
  BY DEF Honoured
<1>2. DOMAIN rows = Keys /\ \A k \in Keys : rows[k] = IF k = Work[t].key THEN o ELSE ops[k]
  BY DEF Honoured
<1>3. b \in Nat /\ b + 1 \in Nat /\ Work[t].key \in Keys /\ \A u \in Txs : Work[u].key \in Keys
  BY WorkFields DEF Honoured
<1>4. o # NoOperation
  BY NumbersTell
<1> HIDE DEF new, rows
<1>5. \A k \in Keys : rows[k] # NoOperation => rows[k].committed \in Nat /\ rows[k].committed <= b + 1
  <2>1. \A k \in Keys : ops[k] # NoOperation => ops[k].committed \in Nat /\ ops[k].committed <= b
    BY DEF Honoured
  <2> QED
    BY <1>2, <1>3, <2>1
<1>6. \A u \in Txs : IsCommit(u) /\ outs[u] \in {"done", "replayed"} => Work[u].key # Work[t].key
  BY NumbersTell DEF Honoured
<1>7. \A u \in Txs : IsCommit(u) /\ new[u] \in {"done", "replayed"} =>
        rows[Work[u].key].proposal = Work[u].proposal /\ rows[Work[u].key].number = Work[u].number
  BY <1>1, <1>2, <1>3, <1>6 DEF Honoured
<1>8. \A u \in Txs : new[u] = "conflict" => rows[Work[u].key] # NoOperation
  BY <1>1, <1>2, <1>3, <1>4 DEF Honoured
<1>9. \A u, v \in Txs : OneDone(u, v, new[u], new[v])
  <2>1. \A u, v \in Txs : OneDone(u, v, outs[u], outs[v])
    BY DEF Honoured
  <2>2. \A u \in Txs : IsCommit(u) /\ outs[u] = "done" => Work[u].key # Work[t].key
    BY <1>6
  <2> QED
    BY <1>1, <2>1, <2>2 DEF OneDone
<1>10. \A k, l \in Keys : rows[k] # NoOperation /\ rows[k].committed = rows[l].committed => k = l
  <2>1. NoOperation.committed = 0
    BY DEF NoOperation
  <2>2. \A k \in Keys : ops[k].committed \in Nat /\ ops[k].committed <= b
    BY <1>3, <2>1 DEF Honoured
  <2>3. \A k \in Keys : ops[k].committed # b + 1
    BY <1>3, <2>2
  <2>4. \A k, l \in Keys : ops[k] # NoOperation /\ ops[k].committed = ops[l].committed => k = l
    BY DEF Honoured
  <2> QED
    BY <1>2, <2>3, <2>4
<1> QED
  BY <1>1, <1>2, <1>3, <1>5, <1>7, <1>8, <1>9, <1>10 DEF Honoured, new, rows

LEMMA HonouredStays ==
  ASSUME SInv, Honoured(Answers, operations, business), [Next]_vars
  PROVE  Honoured(Answers, operations, business)'
<1> DEFINE Goal == Honoured(Answers', operations', business')
<1>1. [Atomic!Next]_(Atomic!vars)
  BY AtomicStep
<1>2. ASSUME NEW t \in Txs, NEW outcome, Atomic!Ends(t, outcome)
      PROVE  Answers' = [Answers EXCEPT ![t] = outcome]
  BY <1>2 DEF Atomic!Ends, Answers
<1>3. ASSUME NEW t \in Txs, Atomic!Ends(t, "done"), ~ IsCommit(t), UNCHANGED <<business, operations>>
      PROVE  Goal
  BY <1>2, <1>3, AnswerHonours
<1>4. ASSUME NEW t \in Txs, Atomic!SubmitReview(t) \/ Atomic!SaveRevision(t) PROVE Goal
  BY <1>3, <1>4 DEF Atomic!SubmitReview, Atomic!SaveRevision, Atomic!Done, IsCommit
<1>5. ASSUME NEW t \in Txs, NEW decision \in {"approved", "rejected"}, Atomic!RecordDecision(t, decision)
      PROVE  Goal
  BY <1>3, <1>5 DEF Atomic!RecordDecision, Atomic!Done, IsCommit
<1>6. ASSUME NEW t \in Txs, Atomic!NoEffect(t) PROVE Goal
  <2>1. UNCHANGED <<business, operations>>
    BY <1>6 DEF Atomic!NoEffect
  <2>2. CASE Atomic!Replayed(t)
    BY <1>2, <2>1, <2>2, AnswerHonours DEF Atomic!Replayed
  <2>3. CASE Atomic!KeyTaken(t)
    BY <1>2, <2>1, <2>3, AnswerHonours DEF Atomic!KeyTaken
  <2>4. CASE Atomic!Refused(t)
    BY <1>2, <2>1, <2>4, AnswerHonours DEF Atomic!Refused
  <2>5. CASE Atomic!Failed(t)
    BY <1>2, <2>1, <2>5, AnswerHonours DEF Atomic!Failed
  <2> QED
    BY <1>6, <2>2, <2>3, <2>4, <2>5 DEF Atomic!NoEffect
<1>7. ASSUME NEW t \in Txs, Atomic!Commit(t) PROVE Goal
  <2>1. PICK o : o = [proposal |-> Work[t].proposal, number |-> Work[t].number,
                      expected |-> business, committed |-> business + 1]
    OBVIOUS
  <2>2. /\ operations' = [operations EXCEPT ![Work[t].key] = o] /\ business' = business + 1
        /\ operations[Work[t].key] = NoOperation /\ IsCommit(t) /\ Atomic!Ends(t, "done")
    BY <1>7, <2>1 DEF Atomic!Commit, Atomic!Done, IsCommit
  <2>3. o.proposal = Work[t].proposal /\ o.number = Work[t].number /\ o.committed = business + 1
    BY <2>1
  <2>4. Answers' = [Answers EXCEPT ![t] = "done"]
    BY <1>2, <2>2
  <2> QED
    BY <2>2, <2>3, <2>4, CommitHonours
<1>8. CASE UNCHANGED Atomic!vars
  BY <1>8 DEF Atomic!vars, Answers
<1>9. ASSUME NEW p \in Proposals, Atomic!Prepare(p) PROVE Goal
  BY <1>9 DEF Atomic!Prepare, Answers
<1>10. Goal
  BY <1>1, <1>4, <1>5, <1>6, <1>7, <1>8, <1>9 DEF Atomic!Next
<1> QED
  BY <1>10 DEF Honoured

(* For any number of transactions and keys, however often a commit is sent *)
(* and whatever it meets: a key is good for one commit and a version for   *)
(* one key, and the answers about a key are true for good                  *)
(* (commit_service.go:55-94, :164-188).                                    *)
THEOREM KeysHold == Spec => []Atomic!KeysAreHonoured
<1>1. ASSUME Init PROVE Honoured(Answers, operations, business)
  <2>1. business \in Nat /\ operations = [k \in Keys |-> NoOperation]
    BY <1>1 DEF Init
  <2>2. DOMAIN Answers = Txs /\ \A t \in Txs : Answers[t] = "none"
    BY <1>1 DEF Init, Answers
  <2>3. \A t \in Txs : Answers[t] \notin {"done", "replayed", "conflict"}
    BY <2>2
  <2> QED
    BY <2>1, <2>2, <2>3 DEF Honoured, OneDone
<1>2. ASSUME Honoured(Answers, operations, business) PROVE Atomic!KeysAreHonoured
  BY <1>2 DEF Honoured, OneDone, Answers, IsCommit, Atomic!KeysAreHonoured
<1>3. Spec => []SInv
  BY SeenStarts, SeenStays, PTL DEF Spec
<1> QED
  BY <1>1, <1>2, <1>3, HonouredStays, PTL DEF Spec

=============================================================================
