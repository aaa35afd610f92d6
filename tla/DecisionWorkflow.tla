-------------------------- MODULE DecisionWorkflow --------------------------
(***************************************************************************)
(* The path of a proposal from draft to committed decision, at the grain   *)
(* of database transactions, for one organization (every query runs under  *)
(* the row-level security of one tenant).                                  *)
(*                                                                         *)
(* A transaction is one step: it sees the committed rows, checks, and      *)
(* either applies all of its writes or none (WithTenantTxResult rolls back *)
(* on any error).  Creating, revising and submitting a proposal take TWO   *)
(* transactions: the service reads, builds the new row from what it read,  *)
(* and writes in a second transaction, with any other step in between.     *)
(* Deciding and committing take one transaction each, but their arguments  *)
(* come from a client whose picture may be arbitrarily old, and a request  *)
(* may be repeated or may arrive late, so every argument is possible at    *)
(* every moment.                                                           *)
(*                                                                         *)
(* A refused request, a transaction that PostgreSQL aborts and a request   *)
(* that dies with its process leave the tables as they were.               *)
(***************************************************************************)
EXTENDS Naturals

CONSTANTS
  Businesses,     \* rows of businesses; all start at state_version 1
  Proposals,      \* the random proposal ids, each used once
  Users,          \* rows of users
  Operators,      \* users whose role is owner or operator
  Guests,         \* viewers that hold a guest token (auth.IsGuest)
  Keys,           \* idempotency keys of commit requests
  Requests,       \* request ids, chosen by the client and repeated on a retry
  Handlers,       \* requests served at the same time
  MaxNumber,      \* bound: versions of one proposal
  LoadedFields,   \* mandatory proposal fields the commit transaction loads
  None            \* no row, no request

(* The fields proposal.Proposal.Validate insists on and the commit         *)
(* transaction may or may not have read.  As built it reads neither; the   *)
(* transaction the documentation describes needs both.                     *)
MandatoryFields == {"goal_id", "scenario_id"}

ASSUME RolesAssumption ==
  /\ Operators \subseteq Users
  /\ Guests \subseteq Users
  /\ Guests \cap Operators = {}

ASSUME BoundsAssumption == MaxNumber \in Nat \ {0}

ASSUME FieldsAssumption == LoadedFields \subseteq MandatoryFields

Numbers == 1..MaxNumber
Status == {"draft", "in_review", "approved", "rejected", "committed", "superseded"}
Verdicts == {"approved", "rejected"}

VARIABLES
  businesses,           \* businesses[b] = state_version
  proposals,            \* proposals[p] = [business, current]; current = 0: no such row
  proposal_versions,    \* proposal_versions[p][n] = [base, status]
  approvals,            \* rows [business, proposal, number, by, status]
  commit_operations,    \* commit_operations[k] = None or the operation of key k
  committed_decisions,  \* rows [key, business, proposal, number, version]
  audit_events,         \* rows [action, proposal, number, origin]
  handlers,             \* handlers[h] = None or what its first transaction read
  answer                \* the latest answer of the commit endpoint

tables == <<businesses, proposals, proposal_versions, approvals,
            commit_operations, committed_decisions, audit_events>>
vars == <<businesses, proposals, proposal_versions, approvals, commit_operations,
          committed_decisions, audit_events, handlers, answer>>

-----------------------------------------------------------------------------
(* Rows and their types.                                                   *)

NoVersion == [base |-> 0, status |-> "absent"]

ProposalRow == [business : Businesses \cup {None}, current : 0..MaxNumber]
VersionRow == [base : Nat, status : Status \cup {"absent"}]
ApprovalRow == [business : Businesses, proposal : Proposals, number : Numbers,
                by : Users, status : Verdicts]
OperationRow == [business : Businesses, proposal : Proposals, number : Numbers,
                 status : {"succeeded"}, version : Nat]
DecisionRow == [key : Keys, business : Businesses, proposal : Proposals,
                number : Numbers, version : Nat]
(* origin is what makes the event's primary key unique within its action:  *)
(* the request id for the actions a client can repeat on one proposal, the *)
(* idempotency key for commits, the proposal version itself otherwise.     *)
AuditRow == [action : {"proposal_created", "proposal_revised",
                       "proposal_submitted_for_review", "proposal_approved",
                       "proposal_rejected", "commit_executed"},
             proposal : Proposals, number : Numbers,
             origin : Requests \cup Keys \cup {None}]

CreateView == [op : {"create"}, actor : Users, business : Businesses, base : Nat]
ReviseView == [op : {"revise"}, actor : Users, proposal : Proposals,
               number : Numbers, base : Nat, request : Requests]
SubmitView == [op : {"submit"}, actor : Users, proposal : Proposals,
               number : Numbers, request : Requests]

ASSUME NoneAssumption == None \notin OperationRow \cup ReviseView

Answer == [code : {"none", "succeeded", "replayed", "conflict", "rejected", "invalid"},
           key : Keys \cup {None}, version : Nat]

TypeOK ==
  /\ businesses \in [Businesses -> Nat \ {0}]
  /\ proposals \in [Proposals -> ProposalRow]
  /\ proposal_versions \in [Proposals -> [Numbers -> VersionRow]]
  /\ approvals \subseteq ApprovalRow
  /\ commit_operations \in [Keys -> OperationRow \cup {None}]
  /\ committed_decisions \subseteq DecisionRow
  /\ audit_events \subseteq AuditRow
  /\ handlers \in [Handlers -> CreateView \cup ReviseView \cup SubmitView \cup {None}]
  /\ answer \in Answer

Init ==
  /\ businesses = [b \in Businesses |-> 1]
  /\ proposals = [p \in Proposals |-> [business |-> None, current |-> 0]]
  /\ proposal_versions = [p \in Proposals |-> [n \in Numbers |-> NoVersion]]
  /\ approvals = {}
  /\ commit_operations = [k \in Keys |-> None]
  /\ committed_decisions = {}
  /\ audit_events = {}
  /\ handlers = [h \in Handlers |-> None]
  /\ answer = [code |-> "none", key |-> None, version |-> 0]

-----------------------------------------------------------------------------
(* What the queries look up.                                               *)

Exists(p) == proposals[p].current > 0
StatusOf(p, n) == proposal_versions[p][n].status
BaseOf(p, n) == proposal_versions[p][n].base

(* The join of proposals with the version number they call current.        *)
IsCurrent(b, p, n) == Exists(p) /\ proposals[p] = [business |-> b, current |-> n]

(* requireProposalOperator, and the same condition in CreateProposal.      *)
MayEditProposals(u) == u \in Operators \cup Guests

SetStatus(p, n, s) ==
  proposal_versions' = [proposal_versions EXCEPT ![p][n].status = s]

(* Mutant: a random event id, which never collides.                        *)
AuditIdIsFreeMutant(action, p, r) == TRUE

(* The event's id is derived from action, proposal and origin, and is the  *)
(* table's primary key: a second event with the same id fails the insert.  *)
AuditIdIsFree(action, p, r) ==
  ~ \E e \in audit_events : e.action = action /\ e.proposal = p /\ e.origin = r

AppendProposalAudit(action, p, n, r) ==
  /\ AuditIdIsFree(action, p, r)
  /\ audit_events' = audit_events \cup
       {[action |-> action, proposal |-> p, number |-> n, origin |-> r]}

-----------------------------------------------------------------------------
(* Proposals: a reading transaction, then a writing one.                   *)

(* CreateProposal reads the scenario.  Scenarios live outside this module: *)
(* a simulated one may rest on any version the business has had.           *)
ReadScenario(h, u, b) ==
  /\ handlers[h] = None
  /\ \E base \in 1..businesses[b] :
       handlers' = [handlers EXCEPT ![h] =
         [op |-> "create", actor |-> u, business |-> b, base |-> base]]
  /\ UNCHANGED <<tables, answer>>

(* The first version takes the base version read in the first transaction. *)
CreateProposal(h) ==
  LET v == handlers[h] IN
  /\ v # None /\ v.op = "create"
  /\ MayEditProposals(v.actor)                      \* else ErrProposalContext
  /\ \E p \in Proposals :
       /\ ~ Exists(p)
       /\ proposals' = [proposals EXCEPT ![p] = [business |-> v.business, current |-> 1]]
       /\ proposal_versions' = [proposal_versions EXCEPT ![p][1] =
            [base |-> v.base, status |-> "draft"]]
       /\ AppendProposalAudit("proposal_created", p, 1, None)
  /\ handlers' = [handlers EXCEPT ![h] = None]
  /\ UNCHANGED <<businesses, approvals, commit_operations, committed_decisions, answer>>

(* GetProposal on behalf of ReviseProposal or RequestHumanReview: only a   *)
(* current draft gets to the second transaction.  A revision may name no   *)
(* business at all (b = None).                                             *)
ReadProposal(h, op, u, b, p, r) ==
  LET n == proposals[p].current IN
  /\ handlers[h] = None
  /\ Exists(p)                                      \* else ErrProposalNotFound
  /\ b = proposals[p].business \/ (op = "revise" /\ b = None)
  /\ StatusOf(p, n) = "draft"                       \* else ErrProposalState
  /\ handlers' = [handlers EXCEPT ![h] =
       IF op = "revise"
       THEN [op |-> op, actor |-> u, proposal |-> p, number |-> n,
             base |-> BaseOf(p, n), request |-> r]
       ELSE [op |-> op, actor |-> u, proposal |-> p, number |-> n, request |-> r]]
  /\ UNCHANGED <<tables, answer>>

(* Mutant: the supersede update without its "AND status = draft".          *)
RevisionAppliesMutant(v) ==
  /\ MayEditProposals(v.actor)
  /\ proposals[v.proposal].current = v.number

(* What the writing transaction of a revision checks of the view v.        *)
RevisionApplies(v) ==
  /\ MayEditProposals(v.actor)                      \* else ErrProposalUnauthorized
  /\ proposals[v.proposal].current = v.number       \* else ErrProposalConflict
  /\ StatusOf(v.proposal, v.number) = "draft"       \* else ErrProposalState

(* The old draft is superseded and the next number becomes current, with   *)
(* the base version of the draft that was read: a revision never rebases.  *)
SaveRevision(h) ==
  LET v == handlers[h] IN
  /\ v # None /\ v.op = "revise"
  /\ RevisionApplies(v)
  /\ v.number < MaxNumber                           \* bound
  /\ proposal_versions' = [proposal_versions EXCEPT
       ![v.proposal][v.number].status = "superseded",
       ![v.proposal][v.number + 1] = [base |-> v.base, status |-> "draft"]]
  /\ proposals' = [proposals EXCEPT ![v.proposal].current = v.number + 1]
  /\ AppendProposalAudit("proposal_revised", v.proposal, v.number + 1, v.request)
  /\ handlers' = [handlers EXCEPT ![h] = None]
  /\ UNCHANGED <<businesses, approvals, commit_operations, committed_decisions, answer>>

(* Mutant: the submission trusts the status read by the first transaction. *)
SubmissionAppliesMutant(v) == MayEditProposals(v.actor)

(* The update asks for the number that was read and for a draft; it does   *)
(* not ask whether that number is still the current one.                   *)
SubmissionApplies(v) ==
  /\ MayEditProposals(v.actor)                      \* else ErrProposalUnauthorized
  /\ StatusOf(v.proposal, v.number) = "draft"       \* else ErrProposalState

SubmitReview(h) ==
  LET v == handlers[h] IN
  /\ v # None /\ v.op = "submit"
  /\ SubmissionApplies(v)
  /\ SetStatus(v.proposal, v.number, "in_review")
  /\ AppendProposalAudit("proposal_submitted_for_review", v.proposal, v.number, v.request)
  /\ handlers' = [handlers EXCEPT ![h] = None]
  /\ UNCHANGED <<businesses, proposals, approvals, commit_operations,
                 committed_decisions, answer>>

(* The writing transaction is refused or aborted, or the process dies      *)
(* between the two transactions: the request is forgotten.                 *)
GiveUp(h) ==
  /\ handlers[h] # None
  /\ handlers' = [handlers EXCEPT ![h] = None]
  /\ UNCHANGED <<tables, answer>>

-----------------------------------------------------------------------------
(* RecordDecision: one transaction under the lock of the business row.     *)

(* Mutants: a decision that forgets the review state, and one that forgets *)
(* to compare the versions.                                                *)
DecidableMutant(u, b, p, n) ==
  u \in Operators /\ IsCurrent(b, p, n) /\ BaseOf(p, n) = businesses[b]
DecidableStaleMutant(u, b, p, n) ==
  u \in Operators /\ IsCurrent(b, p, n) /\ StatusOf(p, n) = "in_review"

Decidable(u, b, p, n) ==
  /\ u \in Operators                                \* else ErrApprovalUnauthorized
  /\ IsCurrent(b, p, n)                             \* else ErrApprovalContext
  /\ StatusOf(p, n) = "in_review"                   \* else ErrApprovalState
  /\ BaseOf(p, n) = businesses[b]                   \* else ErrApprovalStale

Decide(u, b, p, n, verdict) ==
  /\ Decidable(u, b, p, n)
  /\ approvals' = approvals \cup
       {[business |-> b, proposal |-> p, number |-> n, by |-> u, status |-> verdict]}
  /\ SetStatus(p, n, verdict)
  /\ audit_events' = audit_events \cup
       {[action |-> IF verdict = "approved" THEN "proposal_approved" ELSE "proposal_rejected",
         proposal |-> p, number |-> n, origin |-> None]}
  /\ UNCHANGED <<businesses, proposals, commit_operations, committed_decisions,
                 handlers, answer>>

-----------------------------------------------------------------------------
(* Commit: one transaction per request, keyed by the idempotency key.      *)

SetAnswer(code, k, version) ==
  answer' = [code |-> code, key |-> k, version |-> version]

(* Mutant: the idempotency lookup finds nothing.                           *)
KeyIsFreeMutant(k) == TRUE

KeyIsFree(k) == commit_operations[k] = None

(* The operation id is a digest of organization and key, so an operation   *)
(* found under the key differs from the request only in what it commits.   *)
SameRequest(k, b, p, n) ==
  /\ commit_operations[k].business = b
  /\ commit_operations[k].proposal = p
  /\ commit_operations[k].number = n

(* Mutant: the replay reports the version the business has now.            *)
ReplayCommitMutant(k, b, p, n) ==
  /\ ~ KeyIsFree(k)
  /\ SameRequest(k, b, p, n)
  /\ SetAnswer("replayed", k, businesses[b])
  /\ UNCHANGED <<tables, handlers>>

ReplayCommit(k, b, p, n) ==
  /\ ~ KeyIsFree(k)
  /\ SameRequest(k, b, p, n)
  /\ SetAnswer("replayed", k, commit_operations[k].version)
  /\ UNCHANGED <<tables, handlers>>

(* The key is taken by other arguments, or by the same ones in a           *)
(* transaction that committed after this one had looked for the key: its   *)
(* insert then fails on the unique key.                                    *)
ConflictCommit(k) ==
  /\ ~ KeyIsFree(k)
  /\ SetAnswer("conflict", k, 0)
  /\ UNCHANGED <<tables, handlers>>

HasApproval(b, p, n) ==
  \E a \in approvals :
    /\ a.business = b /\ a.proposal = p /\ a.number = n
    /\ a.status = "approved" /\ a.by \in Operators

(* Mutant: the proposal's base version is not compared.                    *)
CommittableMutant(u, b, p, n) ==
  /\ b \in Businesses /\ u \in Operators
  /\ IsCurrent(b, p, n) /\ HasApproval(b, p, n) /\ StatusOf(p, n) = "approved"

(* The documented commit guard sequence: the rows the transaction must     *)
(* find and the comparisons commit.Validate makes on them.                 *)
Committable(u, b, p, n) ==
  /\ b \in Businesses                               \* else ErrBusinessNotFound
  /\ u \in Operators                                \* else ErrCommitUnauthorized
  /\ IsCurrent(b, p, n)                             \* else ErrProposalNotFound
  /\ HasApproval(b, p, n)                           \* else ErrApprovalNotFound
  /\ BaseOf(p, n) = businesses[b]
  /\ StatusOf(p, n) = "approved"

(* commit.Validate first validates the proposal it is handed, and that     *)
(* asks for every mandatory field.                                         *)
AggregateIsValid == MandatoryFields \subseteq LoadedFields

(* Mutant: the version is not incremented.                                 *)
NextVersionMutant(b) == businesses[b]

NextVersion(b) == businesses[b] + 1

(* Mutant: the operation is never marked as succeeded.                     *)
ExecuteCommitMutant(u, k, b, p, n) ==
  /\ KeyIsFree(k)
  /\ Committable(u, b, p, n)
  /\ AggregateIsValid
  /\ commit_operations' = [commit_operations EXCEPT ![k] =
       [business |-> b, proposal |-> p, number |-> n, status |-> "requested",
        version |-> 0]]
  /\ UNCHANGED <<businesses, proposals, proposal_versions, approvals,
                 committed_decisions, audit_events, handlers, answer>>

ExecuteCommit(u, k, b, p, n) ==
  /\ KeyIsFree(k)
  /\ Committable(u, b, p, n)
  /\ AggregateIsValid
  /\ businesses' = [businesses EXCEPT ![b] = NextVersion(b)]
  /\ committed_decisions' = committed_decisions \cup
       {[key |-> k, business |-> b, proposal |-> p, number |-> n,
         version |-> NextVersion(b)]}
  /\ SetStatus(p, n, "committed")
  /\ commit_operations' = [commit_operations EXCEPT ![k] =
       [business |-> b, proposal |-> p, number |-> n, status |-> "succeeded",
        version |-> NextVersion(b)]]
  /\ audit_events' = audit_events \cup
       {[action |-> "commit_executed", proposal |-> p, number |-> n, origin |-> k]}
  /\ SetAnswer("succeeded", k, NextVersion(b))
  /\ UNCHANGED <<proposals, approvals, handlers>>

(* Everything after the idempotency lookup that ends in an error: the      *)
(* reservation is rolled back with the rest.  The answer tells apart a     *)
(* request that met every documented guard and was refused all the same.   *)
RejectCommit(u, k, b, p, n) ==
  /\ KeyIsFree(k)
  /\ ~ (Committable(u, b, p, n) /\ AggregateIsValid)
  /\ SetAnswer(IF Committable(u, b, p, n) THEN "invalid" ELSE "rejected", k, 0)
  /\ UNCHANGED <<tables, handlers>>

-----------------------------------------------------------------------------

EditProposal(h) ==
  \/ \E u \in Users, b \in Businesses : ReadScenario(h, u, b)
  \/ CreateProposal(h)
  \/ \E op \in {"revise", "submit"}, u \in Users, b \in Businesses \cup {None},
        p \in Proposals, r \in Requests : ReadProposal(h, op, u, b, p, r)
  \/ SaveRevision(h)
  \/ SubmitReview(h)
  \/ GiveUp(h)

Commit(u, k, b, p, n) ==
  \/ ReplayCommit(k, b, p, n)
  \/ ConflictCommit(k)
  \/ ExecuteCommit(u, k, b, p, n)
  \/ RejectCommit(u, k, b, p, n)

Next ==
  \/ \E h \in Handlers : EditProposal(h)
  \/ \E u \in Users, p \in Proposals, n \in Numbers :
       \/ \E b \in Businesses, verdict \in Verdicts : Decide(u, b, p, n, verdict)
       \/ \E k \in Keys, b \in Businesses \cup {None} : Commit(u, k, b, p, n)

Spec == Init /\ [][Next]_vars

-----------------------------------------------------------------------------
(* Invariants.                                                             *)

(* Versions of a proposal form a line: everything below the current number *)
(* is superseded, nothing exists above it, and the current version is the  *)
(* only one still open.  SubmitReview relies on it (it does not check that *)
(* the number it read is still current), and it relies on the conflict     *)
(* check of SaveRevision.                                                  *)
OnlyCurrentIsOpen ==
  \A p \in Proposals, n \in Numbers :
    /\ n < proposals[p].current => StatusOf(p, n) = "superseded"
    /\ n = proposals[p].current => StatusOf(p, n) \in Status \ {"superseded"}
    /\ n > proposals[p].current => StatusOf(p, n) = "absent"

(* A version a human was asked to review stays as it was submitted: there  *)
(* is one submission of it, and a revision racing the submission neither   *)
(* supersedes it nor leaves a newer version beside it.                     *)
SubmittedIsFrozen ==
  \A p \in Proposals, n \in Numbers :
    LET submissions == {e \in audit_events :
          e.action = "proposal_submitted_for_review" /\ e.proposal = p /\ e.number = n}
    IN  IF StatusOf(p, n) \in {"in_review", "approved", "rejected", "committed"}
        THEN n = proposals[p].current /\ \E e \in submissions : submissions = {e}
        ELSE submissions = {}

(* A retried revision request never adds a second version: the revisions   *)
(* of a proposal are recorded one per version, under different requests.   *)
OneRevisionPerRequest ==
  \A p \in Proposals :
    LET revisions == {e \in audit_events :
          e.action = "proposal_revised" /\ e.proposal = p}
    IN  /\ {e.number : e \in revisions} = 2..proposals[p].current
        /\ \A e, f \in revisions : e.number = f.number <=> e.origin = f.origin

(* At most one human decision per version, and the version's status is     *)
(* that decision (or committed, for an approval): no approval is ever      *)
(* overturned, repeated or lost.                                           *)
DecidedOnce ==
  /\ \A a, c \in approvals : a.proposal = c.proposal /\ a.number = c.number => a = c
  /\ \A a \in approvals :
       /\ a.business = proposals[a.proposal].business
       /\ StatusOf(a.proposal, a.number) \in
            IF a.status = "approved" THEN {"approved", "committed"} ELSE {"rejected"}
  /\ \A p \in Proposals, n \in Numbers :
       StatusOf(p, n) \in {"approved", "rejected", "committed"} =>
         \E a \in approvals : a.proposal = p /\ a.number = n

(* Every committed decision rests on the approval of exactly that version  *)
(* by an operator, and extends exactly the business version the proposal   *)
(* was based on.                                                           *)
DecisionsAreBacked ==
  \A d \in committed_decisions :
    /\ StatusOf(d.proposal, d.number) = "committed"
    /\ proposals[d.proposal].business = d.business
    /\ \E a \in approvals :
         /\ a.status = "approved" /\ a.by \in Operators
         /\ <<a.business, a.proposal, a.number>> = <<d.business, d.proposal, d.number>>
    /\ d.version = BaseOf(d.proposal, d.number) + 1

(* The business version counts the committed decisions, without gaps and   *)
(* without two decisions for one version.                                  *)
VersionsCountDecisions ==
  /\ \A b \in Businesses :
       {d.version : d \in {c \in committed_decisions : c.business = b}} = 2..businesses[b]
  /\ \A c, d \in committed_decisions :
       c.business = d.business /\ c.version = d.version => c = d

(* An idempotency key stands for one decision for good: the operation and  *)
(* the decision of a key agree, and a proposal version is committed under  *)
(* one key only.                                                           *)
OneDecisionPerKey ==
  /\ \A k \in Keys :
       LET made == {d \in committed_decisions : d.key = k} IN
       IF commit_operations[k] = None THEN made = {}
       ELSE made = {[key |-> k, business |-> commit_operations[k].business,
                     proposal |-> commit_operations[k].proposal,
                     number |-> commit_operations[k].number,
                     version |-> commit_operations[k].version]}
  /\ \A c, d \in committed_decisions :
       c.proposal = d.proposal /\ c.number = d.number => c = d

(* Whatever the commit endpoint reports as success, first time or replayed,*)
(* is the decision recorded under that key.                                *)
AnswersAreTrue ==
  answer.code \in {"succeeded", "replayed"} =>
    \E d \in committed_decisions : d.key = answer.key /\ d.version = answer.version

(* A commit that meets the whole documented guard sequence is carried out  *)
(* (openapi.yaml, commitApprovedProposal: "Commit succeeded or was safely  *)
(* replayed").                                                             *)
GuardedCommitsGoThrough == answer.code # "invalid"

-----------------------------------------------------------------------------
(* Action properties.                                                      *)

(* Version.CanTransition, the status machine the domain package declares   *)
(* and the repositories never call.                                        *)
CanTransition(from, to) ==
  <<from, to>> \in {<<"draft", "in_review">>, <<"draft", "superseded">>,
                    <<"in_review", "approved">>, <<"in_review", "rejected">>,
                    <<"in_review", "superseded">>,
                    <<"approved", "committed">>, <<"approved", "superseded">>}

(* The repositories' hand-written updates move a version only along the    *)
(* domain's status machine, and never change what it was based on.         *)
VersionStep(p, n) ==
  \/ StatusOf(p, n) = "absent" /\ StatusOf(p, n)' = "draft"
  \/ /\ BaseOf(p, n)' = BaseOf(p, n)
     /\ \/ StatusOf(p, n)' = StatusOf(p, n)
        \/ CanTransition(StatusOf(p, n), StatusOf(p, n)')

FollowsStatusMachine ==
  [][\A p \in Proposals, n \in Numbers : VersionStep(p, n)]_vars

Stale(p) ==
  /\ Exists(p)
  /\ BaseOf(p, proposals[p].current) < businesses[proposals[p].business]

(* Once the business has moved past a proposal's base version no decision  *)
(* is taken on the proposal again, neither approval nor rejection nor      *)
(* commit, and no revision brings it back.                                 *)
StaleStep(p) ==
  Stale(p) =>
    /\ Stale(p)'
    /\ \A n \in Numbers :
         StatusOf(p, n)' \in {"approved", "rejected", "committed"} =>
           StatusOf(p, n)' = StatusOf(p, n)

StaleStaysUndecided == [][\A p \in Proposals : StaleStep(p)]_vars

-----------------------------------------------------------------------------
(* The workflow implements the abstract ledger.                            *)

LedgerApproved ==
  {[business |-> a.business, item |-> <<a.proposal, a.number>>,
    version |-> BaseOf(a.proposal, a.number)] : a \in {c \in approvals : c.status = "approved"}}

LedgerEntries ==
  {[business |-> d.business, item |-> <<d.proposal, d.number>>, version |-> d.version] :
     d \in committed_decisions}

Ledger == INSTANCE DecisionLedger WITH
  Items <- Proposals \X Numbers,
  version <- businesses,
  approved <- LedgerApproved,
  entries <- LedgerEntries

(* Every step of the workflow is a step of DecisionLedger or leaves its    *)
(* state alone: versions advance only through approved items, once each.   *)
ImplementsLedger == Ledger!Spec

=============================================================================
