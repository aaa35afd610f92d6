------------------------ MODULE DecisionTransactions ------------------------
(***************************************************************************)
(* What the transactions of the decision workflow promise, with statements *)
(* and locks left out: each takes effect at one instant, between its       *)
(* request and its answer.  One that is done found at that instant all it  *)
(* asks for, one that is refused did not, and one that fails has changed   *)
(* nothing.  This is how DecisionWorkflow takes them, and how a reader of  *)
(* the code would like to.                                                 *)
(***************************************************************************)
EXTENDS Integers

CONSTANTS
  Proposals,    \* proposals of one business
  Keys,         \* idempotency keys
  Txs,          \* transactions
  Work,         \* Work[t]: kind, proposal, version number and key of t
  NoOperation,  \* what a free key holds
  FieldsLoaded  \* commitTx loads what commit.Validate asks for

VARIABLES
  business,     \* the version of the business
  proposals,    \* proposals[p]: number, base and status of the current version
  operations,   \* operations[k]: the commit under key k
  outcomes      \* outcomes[t]: how t ended, "none" before

vars == <<business, proposals, operations, outcomes>>

Row(t) == proposals[Work[t].proposal]
IsCurrent(t) == Row(t).number = Work[t].number
IsFresh(t) == Row(t).base = business

(* What a transaction asks of its proposal.                                *)
Allowed(t) ==
  /\ IsCurrent(t)
  /\ Work[t].kind \in {"SubmitReview", "SaveRevision"} => Row(t).status = "draft"
  /\ Work[t].kind = "RecordDecision" => Row(t).status = "in_review" /\ IsFresh(t)
  /\ Work[t].kind = "Commit" => Row(t).status = "approved" /\ IsFresh(t) /\ FieldsLoaded

Init ==
  /\ business \in Nat \ {0}
  /\ \A p \in Proposals : proposals[p].number \in Nat \ {0} /\ proposals[p].base \in 1..business
  /\ operations = [k \in Keys |-> NoOperation]
  /\ outcomes = [t \in Txs |-> "none"]

Ends(t, outcome) == outcomes[t] = "none" /\ outcomes' = [outcomes EXCEPT ![t] = outcome]
SetProposal(t, fields) == proposals' = [proposals EXCEPT ![Work[t].proposal] = fields]

Done(t, kind) == Work[t].kind = kind /\ Allowed(t) /\ Ends(t, "done")

SubmitReview(t) ==
  /\ Done(t, "SubmitReview")
  /\ SetProposal(t, [Row(t) EXCEPT !.status = "in_review"])
  /\ UNCHANGED <<business, operations>>

SaveRevision(t) ==
  /\ Done(t, "SaveRevision")
  /\ SetProposal(t, [Row(t) EXCEPT !.number = @ + 1])
  /\ UNCHANGED <<business, operations>>

RecordDecision(t, decision) ==
  /\ Done(t, "RecordDecision")
  /\ SetProposal(t, [Row(t) EXCEPT !.status = decision])
  /\ UNCHANGED <<business, operations>>

(* The record names the version the commit replaces.                       *)
Commit(t) ==
  /\ Done(t, "Commit") /\ operations[Work[t].key] = NoOperation
  /\ SetProposal(t, [Row(t) EXCEPT !.status = "committed"])
  /\ business' = business + 1
  /\ operations' = [operations EXCEPT ![Work[t].key] =
       [proposal |-> Work[t].proposal, number |-> Work[t].number,
        expected |-> business, committed |-> business + 1]]

(* Ends that change nothing.                                               *)
Replayed(t) ==
  /\ Work[t].kind = "Commit"
  /\ operations[Work[t].key].proposal = Work[t].proposal /\ operations[Work[t].key].number = Work[t].number
  /\ Ends(t, "replayed")

KeyTaken(t) == Work[t].kind = "Commit" /\ operations[Work[t].key] # NoOperation /\ Ends(t, "conflict")

Refused(t) == ~Allowed(t) /\ Ends(t, "refused")

Failed(t) == Ends(t, "failed")

NoEffect(t) ==
  /\ Replayed(t) \/ KeyTaken(t) \/ Refused(t) \/ Failed(t)
  /\ UNCHANGED <<business, proposals, operations>>

(* A proposal comes to be, approved against the business of its day.       *)
Prepare(p) ==
  /\ proposals[p].status = "absent"
  /\ proposals' = [proposals EXCEPT ![p] = [number |-> 1, base |-> business, status |-> "approved"]]
  /\ UNCHANGED <<business, operations, outcomes>>

Next ==
  \/ \E t \in Txs : SubmitReview(t) \/ SaveRevision(t) \/ Commit(t) \/ NoEffect(t)
  \/ \E t \in Txs, decision \in {"approved", "rejected"} : RecordDecision(t, decision)
  \/ \E p \in Proposals : Prepare(p)

Spec == Init /\ [][Next]_vars

-----------------------------------------------------------------------------
(* What clients may build on.  A key is good for one commit, and no two    *)
(* commits make the same version, however often they are sent and whatever *)
(* runs beside them; who is told of success, at once or by a replay, finds *)
(* its own commit on record, and who is told that its key is taken finds   *)
(* some commit there (commit_service.go:55-94, :164-188).                  *)
KeysAreHonoured ==
  LET Succeeded(t, answers) == Work[t].kind = "Commit" /\ outcomes[t] \in answers IN
  /\ \A t \in Txs : Succeeded(t, {"done", "replayed"}) =>
       operations[Work[t].key].proposal = Work[t].proposal /\ operations[Work[t].key].number = Work[t].number
  /\ \A t \in Txs : outcomes[t] = "conflict" => operations[Work[t].key] # NoOperation
  /\ \A t, u \in Txs : Succeeded(t, {"done"}) /\ Succeeded(u, {"done"}) /\ Work[t].key = Work[u].key => t = u
  /\ \A k, l \in Keys :
       operations[k] # NoOperation /\ operations[k].committed = operations[l].committed => k = l

=============================================================================
