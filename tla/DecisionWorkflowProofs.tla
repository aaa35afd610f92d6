----------------------- MODULE DecisionWorkflowProofs -----------------------
(***************************************************************************)
(* Proofs about DecisionWorkflow, for every number of businesses,          *)
(* proposals, users, keys and handlers.                                    *)
(***************************************************************************)
EXTENDS DecisionWorkflow, TLAPS

USE RolesAssumption, BoundsAssumption DEF Numbers, Status, Verdicts

(* Every row and every view has the shape its table or struct gives it.    *)
LEMMA TypeInit == Init => TypeOK
  BY DEF Init, TypeOK, ProposalRow, VersionRow, NoVersion, Answer

(* The only writer of one status keeps the table well-formed.              *)
LEMMA SetStatusType ==
  ASSUME TypeOK, NEW p \in Proposals, NEW n \in Numbers, NEW s \in Status,
         SetStatus(p, n, s)
  PROVE  proposal_versions' \in [Proposals -> [Numbers -> VersionRow]]
<1> DEFINE row == proposal_versions[p][n]
<1>1. row \in VersionRow /\ proposal_versions[p] \in [Numbers -> VersionRow]
  BY DEF TypeOK
<1>2. [row EXCEPT !.status = s] \in VersionRow
  BY <1>1 DEF VersionRow
<1>3. proposal_versions' = [proposal_versions EXCEPT
        ![p] = [proposal_versions[p] EXCEPT ![n] = [row EXCEPT !.status = s]]]
  BY DEF SetStatus
<1> HIDE DEF row
<1> QED
  BY <1>1, <1>2, <1>3 DEF TypeOK

(* What SaveRevision writes, with the fields of the view named.            *)
RevisionRows(h, u, p, n, base, r) ==
  /\ handlers[h] = [op |-> "revise", actor |-> u, proposal |-> p, number |-> n,
                    base |-> base, request |-> r]
  /\ n + 1 \in Numbers
  /\ proposals[p].current = n
  /\ StatusOf(p, n) = "draft"
  /\ proposals' = [proposals EXCEPT ![p] = [proposals[p] EXCEPT !.current = n + 1]]
  /\ proposal_versions' = [proposal_versions EXCEPT ![p] = [proposal_versions[p] EXCEPT
       ![n] = [base |-> BaseOf(p, n), status |-> "superseded"],
       ![n + 1] = [base |-> base, status |-> "draft"]]]
  /\ AppendProposalAudit("proposal_revised", p, n + 1, r)

LEMMA RevisionEffect ==
  ASSUME TypeOK, NEW h \in Handlers, SaveRevision(h)
  PROVE  \E u \in Users, p \in Proposals, n \in Numbers, base \in Nat, r \in Requests :
           RevisionRows(h, u, p, n, base, r)
<1> DEFINE v == handlers[h]
<1>1. v \in ReviseView
  BY DEF SaveRevision, TypeOK, CreateView, ReviseView, SubmitView
<1>2. PICK u \in Users, p \in Proposals, n \in Numbers, base \in Nat, r \in Requests :
        v = [op |-> "revise", actor |-> u, proposal |-> p, number |-> n,
             base |-> base, request |-> r]
  BY <1>1 DEF ReviseView
<1>3. v.proposal = p /\ v.number = n /\ v.base = base /\ v.request = r
  BY <1>2
<1>4. /\ n + 1 \in Numbers /\ proposals[p].current = n /\ StatusOf(p, n) = "draft"
      /\ AppendProposalAudit("proposal_revised", p, n + 1, r)
  BY <1>3 DEF SaveRevision, RevisionApplies
<1>5. proposals' = [proposals EXCEPT ![p] = [proposals[p] EXCEPT !.current = n + 1]]
  BY <1>3 DEF SaveRevision
<1>6. proposal_versions[p] \in [Numbers -> VersionRow] /\ proposal_versions[p][n] \in VersionRow
  BY DEF TypeOK
<1>7. [proposal_versions[p][n] EXCEPT !.status = "superseded"]
        = [base |-> BaseOf(p, n), status |-> "superseded"]
  BY <1>6 DEF VersionRow, BaseOf
<1>8. proposal_versions' = [proposal_versions EXCEPT ![p] = [proposal_versions[p] EXCEPT
        ![n] = [proposal_versions[p][n] EXCEPT !.status = "superseded"],
        ![n + 1] = [base |-> base, status |-> "draft"]]]
  BY <1>3, <1>6 DEF SaveRevision, TypeOK
<1>9. RevisionRows(h, u, p, n, base, r)
  BY <1>2, <1>4, <1>5, <1>7, <1>8 DEF RevisionRows
<1> QED
  BY <1>9

LEMMA TypeNext == TypeOK /\ [Next]_vars => TypeOK'
<1> SUFFICES ASSUME TypeOK, [Next]_vars PROVE TypeOK'
  OBVIOUS
<1>1. ASSUME NEW h \in Handlers, NEW u \in Users, NEW b \in Businesses,
             ReadScenario(h, u, b)
      PROVE  TypeOK'
  BY <1>1 DEF ReadScenario, TypeOK, tables, CreateView
<1>2. ASSUME NEW h \in Handlers, CreateProposal(h)
      PROVE  TypeOK'
  <2> DEFINE v == handlers[h]
  <2>1. v \in CreateView
    BY <1>2 DEF CreateProposal, TypeOK, ReviseView, SubmitView
  <2>2. PICK p \in Proposals :
          /\ proposals' = [proposals EXCEPT ![p] = [business |-> v.business, current |-> 1]]
          /\ proposal_versions' = [proposal_versions EXCEPT ![p][1] =
               [base |-> v.base, status |-> "draft"]]
          /\ AppendProposalAudit("proposal_created", p, 1, None)
    BY <1>2 DEF CreateProposal
  <2>3. proposals' \in [Proposals -> ProposalRow]
    BY <2>1, <2>2 DEF TypeOK, ProposalRow, CreateView
  <2>4. proposal_versions' \in [Proposals -> [Numbers -> VersionRow]]
    BY <2>1, <2>2 DEF TypeOK, VersionRow, CreateView
  <2>5. audit_events' \subseteq AuditRow
    BY <2>2 DEF TypeOK, AppendProposalAudit, AuditRow
  <2> QED
    BY <1>2, <2>3, <2>4, <2>5 DEF TypeOK, CreateProposal
<1>3. ASSUME NEW h \in Handlers, NEW op \in {"revise", "submit"}, NEW u \in Users,
             NEW b \in Businesses \cup {None}, NEW p \in Proposals, NEW r \in Requests,
             ReadProposal(h, op, u, b, p, r)
      PROVE  TypeOK'
  <2>1. proposals[p].current \in Numbers
    BY <1>3 DEF ReadProposal, Exists, TypeOK, ProposalRow
  <2>2. BaseOf(p, proposals[p].current) \in Nat
    BY <2>1 DEF BaseOf, TypeOK, VersionRow
  <2>3. CASE op = "revise"
    BY <1>3, <2>1, <2>2, <2>3 DEF ReadProposal, TypeOK, tables, ReviseView
  <2>4. CASE op = "submit"
    BY <1>3, <2>1, <2>4 DEF ReadProposal, TypeOK, tables, SubmitView
  <2> QED
    BY <2>3, <2>4
<1>4. ASSUME NEW h \in Handlers, SaveRevision(h)
      PROVE  TypeOK'
  <2>0. PICK u \in Users, p \in Proposals, n \in Numbers, base \in Nat, r \in Requests :
          RevisionRows(h, u, p, n, base, r)
    BY <1>4, RevisionEffect
  <2>1. /\ n + 1 \in Numbers
        /\ proposals' = [proposals EXCEPT ![p] = [proposals[p] EXCEPT !.current = n + 1]]
        /\ proposal_versions' = [proposal_versions EXCEPT ![p] = [proposal_versions[p] EXCEPT
             ![n] = [base |-> BaseOf(p, n), status |-> "superseded"],
             ![n + 1] = [base |-> base, status |-> "draft"]]]
        /\ AppendProposalAudit("proposal_revised", p, n + 1, r)
    BY <2>0 DEF RevisionRows
  <2>. proposals[p] \in ProposalRow
    BY DEF TypeOK
  <2>2. [proposals[p] EXCEPT !.current = n + 1] \in ProposalRow
    BY <2>1 DEF ProposalRow
  <2>7. proposals' \in [Proposals -> ProposalRow]
    BY <2>1, <2>2 DEF TypeOK
  <2>3. BaseOf(p, n) \in Nat /\ proposal_versions[p] \in [Numbers -> VersionRow]
    BY DEF TypeOK, BaseOf, VersionRow
  <2>4. /\ [base |-> BaseOf(p, n), status |-> "superseded"] \in VersionRow
        /\ [base |-> base, status |-> "draft"] \in VersionRow
    BY <2>3 DEF VersionRow
  <2>5. proposal_versions' \in [Proposals -> [Numbers -> VersionRow]]
    BY <2>1, <2>3, <2>4 DEF TypeOK
  <2>6. audit_events' \subseteq AuditRow
    BY <2>1 DEF AppendProposalAudit, TypeOK, AuditRow
  <2> QED
    BY <1>4, <2>5, <2>6, <2>7 DEF SaveRevision, TypeOK
<1>5. ASSUME NEW h \in Handlers, SubmitReview(h)
      PROVE  TypeOK'
  <2> DEFINE v == handlers[h]
  <2>1. v \in SubmitView
    BY <1>5 DEF SubmitReview, TypeOK, CreateView, ReviseView
  <2>2. proposal_versions' \in [Proposals -> [Numbers -> VersionRow]]
    BY <1>5, <2>1, SetStatusType DEF SubmitReview, SubmitView
  <2>3. audit_events' \subseteq AuditRow
    BY <1>5, <2>1 DEF SubmitReview, AppendProposalAudit, TypeOK, AuditRow, SubmitView
  <2> QED
    BY <1>5, <2>2, <2>3 DEF SubmitReview, TypeOK
<1>6. ASSUME NEW h \in Handlers, GiveUp(h)
      PROVE  TypeOK'
  BY <1>6 DEF GiveUp, TypeOK, tables
<1>7. ASSUME NEW u \in Users, NEW b \in Businesses, NEW p \in Proposals, NEW n \in Numbers,
             NEW verdict \in Verdicts, Decide(u, b, p, n, verdict)
      PROVE  TypeOK'
  <2>1. proposal_versions' \in [Proposals -> [Numbers -> VersionRow]]
    BY <1>7, SetStatusType DEF Decide
  <2>2. approvals' \subseteq ApprovalRow /\ audit_events' \subseteq AuditRow
    BY <1>7 DEF Decide, TypeOK, ApprovalRow, AuditRow
  <2> QED
    BY <1>7, <2>1, <2>2 DEF Decide, TypeOK
<1>8. ASSUME NEW k \in Keys, NEW b \in Businesses \cup {None}, NEW p \in Proposals,
             NEW n \in Numbers, ReplayCommit(k, b, p, n)
      PROVE  TypeOK'
  <2>1. commit_operations[k] \in OperationRow
    BY <1>8 DEF ReplayCommit, KeyIsFree, TypeOK
  <2> QED
    BY <1>8, <2>1 DEF ReplayCommit, SetAnswer, TypeOK, OperationRow, Answer, tables
<1>9. ASSUME NEW k \in Keys, ConflictCommit(k)
      PROVE  TypeOK'
  BY <1>9 DEF ConflictCommit, SetAnswer, TypeOK, Answer, tables
<1>10. ASSUME NEW u \in Users, NEW k \in Keys, NEW b \in Businesses \cup {None},
              NEW p \in Proposals, NEW n \in Numbers, ExecuteCommit(u, k, b, p, n)
       PROVE  TypeOK'
  <2>1. b \in Businesses /\ NextVersion(b) \in Nat \ {0}
    BY <1>10 DEF ExecuteCommit, Committable, NextVersion, TypeOK
  <2>2. proposal_versions' \in [Proposals -> [Numbers -> VersionRow]]
    BY <1>10, SetStatusType DEF ExecuteCommit
  <2>3. businesses' \in [Businesses -> Nat \ {0}]
    BY <1>10, <2>1 DEF ExecuteCommit, TypeOK
  <2>4. committed_decisions' \subseteq DecisionRow
    BY <1>10, <2>1 DEF ExecuteCommit, TypeOK, DecisionRow
  <2>5. commit_operations' \in [Keys -> OperationRow \cup {None}]
    BY <1>10, <2>1 DEF ExecuteCommit, TypeOK, OperationRow
  <2>6. audit_events' \subseteq AuditRow
    BY <1>10 DEF ExecuteCommit, TypeOK, AuditRow
  <2>7. answer' \in Answer
    BY <1>10, <2>1 DEF ExecuteCommit, SetAnswer, Answer
  <2> QED
    BY <1>10, <2>2, <2>3, <2>4, <2>5, <2>6, <2>7 DEF ExecuteCommit, TypeOK
<1>11. ASSUME NEW u \in Users, NEW k \in Keys, NEW b \in Businesses \cup {None},
              NEW p \in Proposals, NEW n \in Numbers, RejectCommit(u, k, b, p, n)
       PROVE  TypeOK'
  BY <1>11 DEF RejectCommit, SetAnswer, TypeOK, Answer, tables
<1>12. CASE UNCHANGED vars
  BY <1>12 DEF vars, TypeOK
<1> QED
  BY <1>1, <1>2, <1>3, <1>4, <1>5, <1>6, <1>7, <1>8, <1>9, <1>10, <1>11, <1>12
  DEF Next, EditProposal, Commit

(* The type invariant, for every instance.                                 *)
THEOREM TypeCorrect == Spec => []TypeOK
  BY TypeInit, TypeNext, PTL DEF Spec

-----------------------------------------------------------------------------
(* What each writing step does to statuses, bases and current numbers, one *)
(* version at a time.                                                      *)

SameElsewhere(p, N) ==
  \A q \in Proposals, m \in Numbers :
    q # p \/ m \notin N => StatusOf(q, m)' = StatusOf(q, m) /\ BaseOf(q, m)' = BaseOf(q, m)

LEMMA SetStatusEffect ==
  ASSUME TypeOK, NEW p \in Proposals, NEW n \in Numbers, NEW s \in Status,
         SetStatus(p, n, s)
  PROVE  /\ SameElsewhere(p, {n})
         /\ StatusOf(p, n)' = s
         /\ BaseOf(p, n)' = BaseOf(p, n)
<1>1. proposal_versions[p][n] \in VersionRow
  BY DEF TypeOK
<1> QED
  BY <1>1 DEF TypeOK, SetStatus, SameElsewhere, StatusOf, BaseOf, VersionRow

(* A created proposal has one draft, on the base the handler has read.     *)
CreationWrites(h, p, b) ==
  /\ proposals[p].current = 0
  /\ proposals' = [proposals EXCEPT ![p] = [business |-> b, current |-> 1]]
  /\ SameElsewhere(p, {1})
  /\ StatusOf(p, 1)' = "draft"
  /\ BaseOf(p, 1)' = handlers[h].base

LEMMA CreateEffect ==
  ASSUME TypeOK, NEW h \in Handlers, CreateProposal(h)
  PROVE  \E p \in Proposals, b \in Businesses : CreationWrites(h, p, b)
<1> DEFINE v == handlers[h]
<1>1. v \in CreateView
  BY DEF CreateProposal, TypeOK, ReviseView, SubmitView
<1>2. PICK p \in Proposals :
        /\ ~ Exists(p)
        /\ proposals' = [proposals EXCEPT ![p] = [business |-> v.business, current |-> 1]]
        /\ proposal_versions' = [proposal_versions EXCEPT ![p][1] =
             [base |-> v.base, status |-> "draft"]]
  BY DEF CreateProposal
<1>3. v.business \in Businesses /\ v.base \in Nat
  BY <1>1 DEF CreateView
<1>4. proposals[p].current = 0
  BY <1>2 DEF Exists, TypeOK, ProposalRow
<1>5. /\ SameElsewhere(p, {1})
      /\ StatusOf(p, 1)' = "draft" /\ BaseOf(p, 1)' = v.base
  BY <1>2 DEF TypeOK, SameElsewhere, StatusOf, BaseOf
<1>6. PICK b \in Businesses : b = v.business
  BY <1>3
<1>7. CreationWrites(h, p, b)
  BY <1>2, <1>4, <1>5, <1>6 DEF CreationWrites
<1> QED
  BY <1>7

(* A revised proposal has its draft superseded by a new one on the base    *)
(* the handler has read.                                                   *)
RevisionWrites(h, p, n) ==
  /\ n + 1 \in Numbers
  /\ proposals[p].current = n
  /\ StatusOf(p, n) = "draft"
  /\ proposals' = [proposals EXCEPT ![p] = [proposals[p] EXCEPT !.current = n + 1]]
  /\ SameElsewhere(p, {n, n + 1})
  /\ StatusOf(p, n)' = "superseded" /\ BaseOf(p, n)' = BaseOf(p, n)
  /\ StatusOf(p, n + 1)' = "draft" /\ BaseOf(p, n + 1)' = handlers[h].base
  /\ handlers[h] \in ReviseView
  /\ handlers[h].proposal = p /\ handlers[h].number = n

LEMMA ReviseEffect ==
  ASSUME TypeOK, NEW h \in Handlers, SaveRevision(h)
  PROVE  \E p \in Proposals, n \in Numbers : RevisionWrites(h, p, n)
<1>0. PICK u \in Users, p \in Proposals, n \in Numbers, base \in Nat, r \in Requests :
        RevisionRows(h, u, p, n, base, r)
  BY RevisionEffect
<1>1. /\ handlers[h] = [op |-> "revise", actor |-> u, proposal |-> p, number |-> n,
                        base |-> base, request |-> r]
      /\ n + 1 \in Numbers
      /\ proposals[p].current = n
      /\ StatusOf(p, n) = "draft"
      /\ proposals' = [proposals EXCEPT ![p] = [proposals[p] EXCEPT !.current = n + 1]]
      /\ proposal_versions' = [proposal_versions EXCEPT ![p] = [proposal_versions[p] EXCEPT
           ![n] = [base |-> BaseOf(p, n), status |-> "superseded"],
           ![n + 1] = [base |-> base, status |-> "draft"]]]
  BY <1>0 DEF RevisionRows
<1>2. n # n + 1 /\ proposal_versions[p] \in [Numbers -> VersionRow]
  BY DEF TypeOK
<1>3. /\ SameElsewhere(p, {n, n + 1})
      /\ StatusOf(p, n)' = "superseded" /\ BaseOf(p, n)' = BaseOf(p, n)
      /\ StatusOf(p, n + 1)' = "draft" /\ BaseOf(p, n + 1)' = base
  BY <1>1, <1>2 DEF TypeOK, SameElsewhere, StatusOf, BaseOf
<1>4. handlers[h].base = base /\ handlers[h].proposal = p /\ handlers[h].number = n
      /\ handlers[h] \in ReviseView
  BY <1>1 DEF ReviseView
<1>5. RevisionWrites(h, p, n)
  BY <1>1, <1>3, <1>4 DEF RevisionWrites
<1> QED
  BY <1>5

(* A submitted draft is in review.                                         *)
SubmissionWrites(p, n) ==
  /\ StatusOf(p, n) = "draft"
  /\ SameElsewhere(p, {n})
  /\ StatusOf(p, n)' = "in_review" /\ BaseOf(p, n)' = BaseOf(p, n)

LEMMA SubmitEffect ==
  ASSUME TypeOK, NEW h \in Handlers, SubmitReview(h)
  PROVE  \E p \in Proposals, n \in Numbers : SubmissionWrites(p, n)
<1> DEFINE v == handlers[h]
<1>1. v \in SubmitView
  BY DEF SubmitReview, TypeOK, CreateView, ReviseView
<1>2. v.proposal \in Proposals /\ v.number \in Numbers
  BY <1>1 DEF SubmitView
<1>3. StatusOf(v.proposal, v.number) = "draft" /\ SetStatus(v.proposal, v.number, "in_review")
  BY DEF SubmitReview, SubmissionApplies
<1>4. PICK p \in Proposals, n \in Numbers : p = v.proposal /\ n = v.number
  BY <1>2
<1>5. StatusOf(p, n) = "draft" /\ SetStatus(p, n, "in_review")
  BY <1>3, <1>4
<1>6. SubmissionWrites(p, n)
  BY <1>5, SetStatusEffect DEF SubmissionWrites
<1> QED
  BY <1>6

LEMMA DecideEffect ==
  ASSUME TypeOK, NEW u \in Users, NEW b \in Businesses, NEW p \in Proposals,
         NEW n \in Numbers, NEW verdict \in Verdicts, Decide(u, b, p, n, verdict)
  PROVE  /\ SameElsewhere(p, {n})
         /\ StatusOf(p, n)' = verdict /\ BaseOf(p, n)' = BaseOf(p, n)
  BY SetStatusEffect DEF Decide

LEMMA CommitEffect ==
  ASSUME TypeOK, NEW u \in Users, NEW k \in Keys, NEW b \in Businesses \cup {None},
         NEW p \in Proposals, NEW n \in Numbers, ExecuteCommit(u, k, b, p, n)
  PROVE  /\ SameElsewhere(p, {n})
         /\ StatusOf(p, n)' = "committed" /\ BaseOf(p, n)' = BaseOf(p, n)
  BY SetStatusEffect DEF ExecuteCommit

(* Every step but five leaves the tables alone.                            *)
LEMMA WritingSteps ==
  ASSUME [Next]_vars
  PROVE  \/ \E h \in Handlers : CreateProposal(h) \/ SaveRevision(h) \/ SubmitReview(h)
         \/ \E u \in Users, b \in Businesses, p \in Proposals, n \in Numbers,
               verdict \in Verdicts : Decide(u, b, p, n, verdict)
         \/ \E u \in Users, k \in Keys, b \in Businesses \cup {None}, p \in Proposals,
               n \in Numbers : ExecuteCommit(u, k, b, p, n)
         \/ UNCHANGED tables
  BY DEF Next, EditProposal, Commit, ReadScenario, ReadProposal, GiveUp, ReplayCommit,
         ConflictCommit, RejectCommit, tables, vars

-----------------------------------------------------------------------------

(* Moving the status of a version that is neither superseded nor absent to *)
(* another such status keeps the line of versions.                         *)
LEMMA MoveKeepsLine ==
  ASSUME TypeOK, OnlyCurrentIsOpen, NEW p \in Proposals, NEW n \in Numbers,
         StatusOf(p, n) \in Status \ {"superseded"}, SameElsewhere(p, {n}),
         StatusOf(p, n)' \in Status \ {"superseded"}, UNCHANGED proposals
  PROVE  OnlyCurrentIsOpen'
<1>1. proposals[p].current \in 0..MaxNumber
  BY DEF TypeOK, ProposalRow
<1>2. n = proposals[p].current
  BY <1>1 DEF OnlyCurrentIsOpen
<1> QED
  BY <1>2 DEF OnlyCurrentIsOpen, SameElsewhere

LEMMA OnlyCurrentIsOpenNext ==
  TypeOK /\ OnlyCurrentIsOpen /\ [Next]_vars => OnlyCurrentIsOpen'
<1> SUFFICES ASSUME TypeOK, OnlyCurrentIsOpen, [Next]_vars PROVE OnlyCurrentIsOpen'
  OBVIOUS
<1>0. \A p \in Proposals : proposals[p] \in ProposalRow /\ proposals[p].current \in 0..MaxNumber
  BY DEF TypeOK, ProposalRow
<1>1. ASSUME NEW h \in Handlers, CreateProposal(h)
      PROVE  OnlyCurrentIsOpen'
  <2>0. PICK p \in Proposals, b \in Businesses : CreationWrites(h, p, b)
    BY <1>1, CreateEffect
  <2>1. /\ proposals[p].current = 0
        /\ proposals' = [proposals EXCEPT ![p] = [business |-> b, current |-> 1]]
        /\ SameElsewhere(p, {1})
        /\ StatusOf(p, 1)' = "draft"
    BY <2>0 DEF CreationWrites
  <2>2. proposals'[p].current = 1
    BY <2>1 DEF TypeOK
  <2>3. \A q \in Proposals : q # p => proposals'[q] = proposals[q]
    BY <2>1 DEF TypeOK
  <2> QED
    BY <1>0, <2>1, <2>2, <2>3 DEF OnlyCurrentIsOpen, SameElsewhere
<1>2. ASSUME NEW h \in Handlers, SaveRevision(h)
      PROVE  OnlyCurrentIsOpen'
  <2>0. PICK p \in Proposals, n \in Numbers : RevisionWrites(h, p, n)
    BY <1>2, ReviseEffect
  <2>1. /\ n + 1 \in Numbers
        /\ proposals[p].current = n
        /\ proposals' = [proposals EXCEPT ![p] = [proposals[p] EXCEPT !.current = n + 1]]
        /\ SameElsewhere(p, {n, n + 1})
        /\ StatusOf(p, n)' = "superseded"
        /\ StatusOf(p, n + 1)' = "draft"
    BY <2>0 DEF RevisionWrites
  <2>2. proposals'[p].current = n + 1
    BY <1>0, <2>1 DEF TypeOK, ProposalRow
  <2>3. \A q \in Proposals : q # p => proposals'[q] = proposals[q]
    BY <2>1 DEF TypeOK
  <2> QED
    BY <1>0, <2>1, <2>2, <2>3 DEF OnlyCurrentIsOpen, SameElsewhere
<1>3. ASSUME NEW h \in Handlers, SubmitReview(h)
      PROVE  OnlyCurrentIsOpen'
  <2>1. UNCHANGED proposals
    BY <1>3 DEF SubmitReview
  <2>0. PICK p \in Proposals, n \in Numbers : SubmissionWrites(p, n)
    BY <1>3, SubmitEffect
  <2>2. /\ StatusOf(p, n) = "draft"
        /\ SameElsewhere(p, {n})
        /\ StatusOf(p, n)' = "in_review"
    BY <2>0 DEF SubmissionWrites
  <2> QED
    BY <2>1, <2>2, MoveKeepsLine
<1>4. ASSUME NEW u \in Users, NEW b \in Businesses, NEW p \in Proposals, NEW n \in Numbers,
             NEW verdict \in Verdicts, Decide(u, b, p, n, verdict)
      PROVE  OnlyCurrentIsOpen'
  <2>1. StatusOf(p, n) = "in_review" /\ UNCHANGED proposals
    BY <1>4 DEF Decide, Decidable
  <2>2. SameElsewhere(p, {n}) /\ StatusOf(p, n)' = verdict
    BY <1>4, DecideEffect
  <2> QED
    BY <2>1, <2>2, MoveKeepsLine
<1>5. ASSUME NEW u \in Users, NEW k \in Keys, NEW b \in Businesses \cup {None},
             NEW p \in Proposals, NEW n \in Numbers, ExecuteCommit(u, k, b, p, n)
      PROVE  OnlyCurrentIsOpen'
  <2>1. StatusOf(p, n) = "approved" /\ UNCHANGED proposals
    BY <1>5 DEF ExecuteCommit, Committable
  <2>2. SameElsewhere(p, {n}) /\ StatusOf(p, n)' = "committed"
    BY <1>5, CommitEffect
  <2> QED
    BY <2>1, <2>2, MoveKeepsLine
<1>6. CASE UNCHANGED tables
  BY <1>6 DEF tables, StatusOf, OnlyCurrentIsOpen
<1> QED
  BY <1>1, <1>2, <1>3, <1>4, <1>5, <1>6, WritingSteps

-----------------------------------------------------------------------------

(* A version without a decision may change freely as long as it stays      *)
(* undecided: the approvals of the others are not disturbed.               *)
LEMMA UndecidedStepKeepsDecided ==
  ASSUME TypeOK, DecidedOnce, UNCHANGED approvals,
         NEW p \in Proposals, NEW N \in SUBSET Numbers,
         SameElsewhere(p, N),
         \A n \in N : /\ StatusOf(p, n) \notin {"approved", "rejected", "committed"}
                      /\ StatusOf(p, n)' \notin {"approved", "rejected", "committed"},
         \A a \in approvals : proposals'[a.proposal].business = proposals[a.proposal].business
  PROVE  DecidedOnce'
<1>1. ASSUME NEW a \in approvals
      PROVE  /\ a.proposal \in Proposals /\ a.number \in Numbers
             /\ StatusOf(a.proposal, a.number)' = StatusOf(a.proposal, a.number)
  <2>1. a \in ApprovalRow
    BY DEF TypeOK
  <2>2. a.proposal \in Proposals /\ a.number \in Numbers
    BY <2>1 DEF ApprovalRow
  <2>3. StatusOf(a.proposal, a.number) \in {"approved", "rejected", "committed"}
    BY DEF DecidedOnce
  <2> QED
    BY <2>2, <2>3 DEF SameElsewhere
<1>2. ASSUME NEW q \in Proposals, NEW m \in Numbers,
             StatusOf(q, m)' \in {"approved", "rejected", "committed"}
      PROVE  \E a \in approvals : a.proposal = q /\ a.number = m
  <2>1. StatusOf(q, m)' = StatusOf(q, m)
    BY <1>2 DEF SameElsewhere
  <2> QED
    BY <1>2, <2>1 DEF DecidedOnce
<1> QED
  BY <1>1, <1>2 DEF DecidedOnce

LEMMA DecidedOnceNext ==
  TypeOK /\ OnlyCurrentIsOpen /\ DecidedOnce /\ [Next]_vars => DecidedOnce'
<1> SUFFICES ASSUME TypeOK, OnlyCurrentIsOpen, DecidedOnce, [Next]_vars
             PROVE  DecidedOnce'
  OBVIOUS
<1> DEFINE Decided == {"approved", "rejected", "committed"}
<1>0. ASSUME NEW a \in approvals
      PROVE  /\ a.proposal \in Proposals /\ a.number \in Numbers
             /\ StatusOf(a.proposal, a.number) \in Decided
  <2>1. a \in ApprovalRow
    BY DEF TypeOK
  <2> QED
    BY <2>1 DEF ApprovalRow, DecidedOnce
<1>1. ASSUME NEW h \in Handlers, CreateProposal(h)
      PROVE  DecidedOnce'
  <2>0. PICK p \in Proposals, b \in Businesses : CreationWrites(h, p, b)
    BY <1>1, CreateEffect
  <2>1. /\ proposals[p].current = 0
        /\ proposals' = [proposals EXCEPT ![p] = [business |-> b, current |-> 1]]
        /\ SameElsewhere(p, {1})
        /\ StatusOf(p, 1)' = "draft"
    BY <2>0 DEF CreationWrites
  <2>2. 1 \in Numbers /\ \A n \in Numbers : StatusOf(p, n) = "absent"
    BY <2>1 DEF OnlyCurrentIsOpen
  <2>3. \A a \in approvals : proposals'[a.proposal].business = proposals[a.proposal].business
    BY <1>0, <2>1, <2>2 DEF TypeOK
  <2>4. UNCHANGED approvals
    BY <1>1 DEF CreateProposal
  <2> QED
    BY <2>1, <2>2, <2>3, <2>4, UndecidedStepKeepsDecided
<1>2. ASSUME NEW h \in Handlers, SaveRevision(h)
      PROVE  DecidedOnce'
  <2>0. PICK p \in Proposals, n \in Numbers : RevisionWrites(h, p, n)
    BY <1>2, ReviseEffect
  <2>1. /\ n + 1 \in Numbers
        /\ proposals[p].current = n
        /\ StatusOf(p, n) = "draft"
        /\ proposals' = [proposals EXCEPT ![p] = [proposals[p] EXCEPT !.current = n + 1]]
        /\ SameElsewhere(p, {n, n + 1})
        /\ StatusOf(p, n)' = "superseded"
        /\ StatusOf(p, n + 1)' = "draft"
    BY <2>0 DEF RevisionWrites
  <2>2. StatusOf(p, n + 1) = "absent"
    BY <2>1 DEF OnlyCurrentIsOpen
  <2>3. \A q \in Proposals : proposals'[q].business = proposals[q].business
    BY <2>1 DEF TypeOK, ProposalRow
  <2>4. UNCHANGED approvals
    BY <1>2 DEF SaveRevision
  <2> QED
    BY <1>0, <2>1, <2>2, <2>3, <2>4, UndecidedStepKeepsDecided
<1>3. ASSUME NEW h \in Handlers, SubmitReview(h)
      PROVE  DecidedOnce'
  <2>0. PICK p \in Proposals, n \in Numbers : SubmissionWrites(p, n)
    BY <1>3, SubmitEffect
  <2>1. /\ StatusOf(p, n) = "draft"
        /\ SameElsewhere(p, {n})
        /\ StatusOf(p, n)' = "in_review"
    BY <2>0 DEF SubmissionWrites
  <2>2. UNCHANGED <<approvals, proposals>>
    BY <1>3 DEF SubmitReview
  <2> QED
    BY <2>1, <2>2, UndecidedStepKeepsDecided
<1>4. ASSUME NEW u \in Users, NEW b \in Businesses, NEW p \in Proposals, NEW n \in Numbers,
             NEW verdict \in Verdicts, Decide(u, b, p, n, verdict)
      PROVE  DecidedOnce'
  <2>0. PICK new : new = [business |-> b, proposal |-> p, number |-> n, by |-> u,
                          status |-> verdict]
    OBVIOUS
  <2>1. StatusOf(p, n) = "in_review" /\ UNCHANGED proposals /\ approvals' = approvals \cup {new}
        /\ proposals[p].business = b
    BY <1>4, <2>0 DEF Decide, Decidable, IsCurrent
  <2>2. SameElsewhere(p, {n}) /\ StatusOf(p, n)' = verdict
    BY <1>4, DecideEffect
  <2>3. \A a \in approvals : ~ (a.proposal = p /\ a.number = n)
    BY <1>0, <2>1
  <2>4. \A a \in approvals : StatusOf(a.proposal, a.number)' = StatusOf(a.proposal, a.number)
    BY <1>0, <2>2, <2>3 DEF SameElsewhere
  <2>5. \A a, c \in approvals' : a.proposal = c.proposal /\ a.number = c.number => a = c
    BY <2>0, <2>1, <2>3 DEF DecidedOnce
  <2>6. \A a \in approvals' :
          /\ a.business = proposals'[a.proposal].business
          /\ StatusOf(a.proposal, a.number)' \in
               IF a.status = "approved" THEN {"approved", "committed"} ELSE {"rejected"}
    <3>1. ASSUME NEW a \in approvals
          PROVE  /\ a.business = proposals'[a.proposal].business
                 /\ StatusOf(a.proposal, a.number)' \in
                      IF a.status = "approved" THEN {"approved", "committed"} ELSE {"rejected"}
      BY <2>1, <2>4 DEF DecidedOnce
    <3>2. /\ new.business = b /\ new.proposal = p /\ new.number = n /\ new.status = verdict
          /\ proposals'[p].business = b
      BY <2>0, <2>1
    <3>3. StatusOf(p, n)' \in IF verdict = "approved" THEN {"approved", "committed"}
                                                     ELSE {"rejected"}
      BY <2>2
    <3>4. \A a \in approvals' : a \in approvals \/ a = new
      BY <2>1
    <3> QED
      BY <3>1, <3>2, <3>3, <3>4
  <2>7. \A q \in Proposals, m \in Numbers :
          StatusOf(q, m)' \in Decided => \E a \in approvals' : a.proposal = q /\ a.number = m
    BY <2>0, <2>1, <2>2 DEF DecidedOnce, SameElsewhere
  <2> QED
    BY <2>5, <2>6, <2>7 DEF DecidedOnce
<1>5. ASSUME NEW u \in Users, NEW k \in Keys, NEW b \in Businesses \cup {None},
             NEW p \in Proposals, NEW n \in Numbers, ExecuteCommit(u, k, b, p, n)
      PROVE  DecidedOnce'
  <2>1. StatusOf(p, n) = "approved" /\ UNCHANGED <<approvals, proposals>>
    BY <1>5 DEF ExecuteCommit, Committable
  <2>2. SameElsewhere(p, {n}) /\ StatusOf(p, n)' = "committed"
    BY <1>5, CommitEffect
  <2>3. \A a \in approvals :
          \/ StatusOf(a.proposal, a.number)' = StatusOf(a.proposal, a.number)
          \/ a.status = "approved" /\ StatusOf(a.proposal, a.number)' = "committed"
    BY <1>0, <2>1, <2>2 DEF SameElsewhere, DecidedOnce
  <2>4. \A q \in Proposals, m \in Numbers :
          StatusOf(q, m)' \in Decided => StatusOf(q, m) \in Decided
    BY <2>1, <2>2 DEF SameElsewhere
  <2> QED
    BY <2>1, <2>3, <2>4 DEF DecidedOnce
<1>6. CASE UNCHANGED tables
  BY <1>6 DEF tables, StatusOf, DecidedOnce
<1> QED
  BY <1>1, <1>2, <1>3, <1>4, <1>5, <1>6, WritingSteps

-----------------------------------------------------------------------------
(* The committed decisions: what they rest on, how they are numbered, and  *)
(* which keys stand for them.                                              *)

(* A step that adds no decision and disturbs no committed version keeps    *)
(* every decision backed.                                                  *)
LEMMA BackingIsKept ==
  ASSUME TypeOK, DecisionsAreBacked, UNCHANGED committed_decisions,
         approvals \subseteq approvals',
         NEW p \in Proposals, NEW N \in SUBSET Numbers,
         SameElsewhere(p, N),
         \A n \in N : StatusOf(p, n) # "committed",
         \A q \in Proposals : proposals[q].current # 0 =>
            proposals'[q].business = proposals[q].business,
         \A d \in committed_decisions : proposals[d.proposal].current # 0
  PROVE  DecisionsAreBacked'
<1> SUFFICES ASSUME NEW d \in committed_decisions
             PROVE  /\ StatusOf(d.proposal, d.number)' = "committed"
                    /\ proposals'[d.proposal].business = d.business
                    /\ \E a \in approvals' :
                         /\ a.status = "approved" /\ a.by \in Operators
                         /\ <<a.business, a.proposal, a.number>> =
                              <<d.business, d.proposal, d.number>>
                    /\ d.version = BaseOf(d.proposal, d.number)' + 1
  BY DEF DecisionsAreBacked
<1>1. d.proposal \in Proposals /\ d.number \in Numbers
  BY DEF TypeOK, DecisionRow
<1>2. /\ StatusOf(d.proposal, d.number)' = StatusOf(d.proposal, d.number)
      /\ BaseOf(d.proposal, d.number)' = BaseOf(d.proposal, d.number)
  BY <1>1 DEF SameElsewhere, DecisionsAreBacked
<1> QED
  BY <1>1, <1>2 DEF DecisionsAreBacked

LEMMA DecisionsAreBackedNext ==
  TypeOK /\ OnlyCurrentIsOpen /\ DecisionsAreBacked /\ [Next]_vars => DecisionsAreBacked'
<1> SUFFICES ASSUME TypeOK, OnlyCurrentIsOpen, DecisionsAreBacked, [Next]_vars
             PROVE  DecisionsAreBacked'
  OBVIOUS
<1>0. ASSUME NEW d \in committed_decisions
      PROVE  /\ d.proposal \in Proposals /\ d.number \in Numbers
             /\ StatusOf(d.proposal, d.number) = "committed"
             /\ proposals[d.proposal].current # 0
  <2>1. d.proposal \in Proposals /\ d.number \in Numbers
    BY DEF TypeOK, DecisionRow
  <2>2. StatusOf(d.proposal, d.number) = "committed"
    BY DEF DecisionsAreBacked
  <2> QED
    BY <2>1, <2>2 DEF OnlyCurrentIsOpen
<1>1. ASSUME NEW h \in Handlers, CreateProposal(h)
      PROVE  DecisionsAreBacked'
  <2>0. PICK p \in Proposals, b \in Businesses : CreationWrites(h, p, b)
    BY <1>1, CreateEffect
  <2>1. /\ proposals[p].current = 0
        /\ proposals' = [proposals EXCEPT ![p] = [business |-> b, current |-> 1]]
        /\ SameElsewhere(p, {1})
    BY <2>0 DEF CreationWrites
  <2>2. 1 \in Numbers /\ StatusOf(p, 1) = "absent"
    BY <2>1 DEF OnlyCurrentIsOpen
  <2>3. \A q \in Proposals : proposals[q].current # 0 =>
          proposals'[q].business = proposals[q].business
    BY <2>1 DEF TypeOK
  <2>4. UNCHANGED <<approvals, committed_decisions>>
    BY <1>1 DEF CreateProposal
  <2> QED
    BY <1>0, <2>1, <2>2, <2>3, <2>4, BackingIsKept
<1>2. ASSUME NEW h \in Handlers, SaveRevision(h)
      PROVE  DecisionsAreBacked'
  <2>0. PICK p \in Proposals, n \in Numbers : RevisionWrites(h, p, n)
    BY <1>2, ReviseEffect
  <2>1. /\ n + 1 \in Numbers
        /\ proposals[p].current = n
        /\ StatusOf(p, n) = "draft"
        /\ proposals' = [proposals EXCEPT ![p] = [proposals[p] EXCEPT !.current = n + 1]]
        /\ SameElsewhere(p, {n, n + 1})
    BY <2>0 DEF RevisionWrites
  <2>2. StatusOf(p, n + 1) = "absent"
    BY <2>1 DEF OnlyCurrentIsOpen
  <2>3. \A q \in Proposals : proposals'[q].business = proposals[q].business
    BY <2>1 DEF TypeOK, ProposalRow
  <2>4. UNCHANGED <<approvals, committed_decisions>>
    BY <1>2 DEF SaveRevision
  <2> QED
    BY <1>0, <2>1, <2>2, <2>3, <2>4, BackingIsKept
<1>3. ASSUME NEW h \in Handlers, SubmitReview(h)
      PROVE  DecisionsAreBacked'
  <2>0. PICK p \in Proposals, n \in Numbers : SubmissionWrites(p, n)
    BY <1>3, SubmitEffect
  <2>1. StatusOf(p, n) = "draft" /\ SameElsewhere(p, {n})
    BY <2>0 DEF SubmissionWrites
  <2>2. UNCHANGED <<approvals, committed_decisions, proposals>>
    BY <1>3 DEF SubmitReview
  <2> QED
    BY <1>0, <2>1, <2>2, BackingIsKept
<1>4. ASSUME NEW u \in Users, NEW b \in Businesses, NEW p \in Proposals, NEW n \in Numbers,
             NEW verdict \in Verdicts, Decide(u, b, p, n, verdict)
      PROVE  DecisionsAreBacked'
  <2>1. /\ StatusOf(p, n) = "in_review"
        /\ approvals \subseteq approvals'
        /\ UNCHANGED <<committed_decisions, proposals>>
    BY <1>4 DEF Decide, Decidable
  <2>2. SameElsewhere(p, {n})
    BY <1>4, DecideEffect
  <2> QED
    BY <1>0, <2>1, <2>2, BackingIsKept
<1>5. ASSUME NEW u \in Users, NEW k \in Keys, NEW b \in Businesses \cup {None},
             NEW p \in Proposals, NEW n \in Numbers, ExecuteCommit(u, k, b, p, n)
      PROVE  DecisionsAreBacked'
  <2>0. PICK new : new = [key |-> k, business |-> b, proposal |-> p, number |-> n,
                          version |-> businesses[b] + 1]
    OBVIOUS
  <2>1. /\ StatusOf(p, n) = "approved" /\ BaseOf(p, n) = businesses[b]
        /\ proposals[p].business = b /\ HasApproval(b, p, n)
        /\ committed_decisions' = committed_decisions \cup {new}
        /\ UNCHANGED <<approvals, proposals>>
    BY <1>5, <2>0 DEF ExecuteCommit, Committable, IsCurrent, NextVersion
  <2>2. /\ SameElsewhere(p, {n})
        /\ StatusOf(p, n)' = "committed" /\ BaseOf(p, n)' = BaseOf(p, n)
    BY <1>5, CommitEffect
  <2> DEFINE Backed(d) ==
        /\ StatusOf(d.proposal, d.number)' = "committed"
        /\ proposals'[d.proposal].business = d.business
        /\ \E a \in approvals' :
             /\ a.status = "approved" /\ a.by \in Operators
             /\ <<a.business, a.proposal, a.number>> = <<d.business, d.proposal, d.number>>
        /\ d.version = BaseOf(d.proposal, d.number)' + 1
  <2>3. ASSUME NEW d \in committed_decisions
        PROVE  Backed(d)
    <3>1. /\ StatusOf(d.proposal, d.number)' = StatusOf(d.proposal, d.number)
          /\ BaseOf(d.proposal, d.number)' = BaseOf(d.proposal, d.number)
      BY <1>0, <2>1, <2>2 DEF SameElsewhere
    <3> QED
      BY <2>1, <3>1 DEF DecisionsAreBacked
  <2>4. Backed(new)
    <3>1. \E a \in approvals' :
            /\ a.status = "approved" /\ a.by \in Operators
            /\ <<a.business, a.proposal, a.number>> = <<b, p, n>>
      BY <2>1 DEF HasApproval
    <3>2. /\ new.business = b /\ new.proposal = p /\ new.number = n
          /\ new.version = businesses[b] + 1
      BY <2>0
    <3> QED
      BY <2>1, <2>2, <3>1, <3>2
  <2> QED
    BY <2>1, <2>3, <2>4 DEF DecisionsAreBacked
<1>6. CASE UNCHANGED tables
  BY <1>6 DEF tables, StatusOf, BaseOf, DecisionsAreBacked
<1> QED
  BY <1>1, <1>2, <1>3, <1>4, <1>5, <1>6, WritingSteps

(* Only an executed commit moves a version, records a decision or takes a  *)
(* key.                                                                    *)
LEMMA RecordingSteps ==
  ASSUME [Next]_vars
  PROVE  \/ \E u \in Users, k \in Keys, b \in Businesses \cup {None}, p \in Proposals,
               n \in Numbers : ExecuteCommit(u, k, b, p, n)
         \/ UNCHANGED <<businesses, commit_operations, committed_decisions>>
  BY WritingSteps DEF tables, CreateProposal, SaveRevision, SubmitReview, Decide

(* What an executed commit records.                                        *)
LEMMA CommitRecords ==
  ASSUME TypeOK, NEW u \in Users, NEW k \in Keys, NEW b \in Businesses \cup {None},
         NEW p \in Proposals, NEW n \in Numbers, ExecuteCommit(u, k, b, p, n)
  PROVE  \E new \in DecisionRow :
           /\ new = [key |-> k, business |-> b, proposal |-> p, number |-> n,
                     version |-> businesses[b] + 1]
           /\ committed_decisions' = committed_decisions \cup {new}
<1>1. b \in Businesses /\ businesses[b] + 1 \in Nat
  BY DEF ExecuteCommit, Committable, TypeOK
<1>2. [key |-> k, business |-> b, proposal |-> p, number |-> n,
       version |-> businesses[b] + 1] \in DecisionRow
  BY <1>1 DEF DecisionRow
<1> QED
  BY <1>2 DEF ExecuteCommit, NextVersion

LEMMA VersionsCountDecisionsNext ==
  TypeOK /\ VersionsCountDecisions /\ [Next]_vars => VersionsCountDecisions'
<1> SUFFICES ASSUME TypeOK, VersionsCountDecisions, [Next]_vars
             PROVE  VersionsCountDecisions'
  OBVIOUS
<1>1. ASSUME NEW u \in Users, NEW k \in Keys, NEW b \in Businesses \cup {None},
             NEW p \in Proposals, NEW n \in Numbers, ExecuteCommit(u, k, b, p, n)
      PROVE  VersionsCountDecisions'
  <2>1. PICK new \in DecisionRow :
          /\ new = [key |-> k, business |-> b, proposal |-> p, number |-> n,
                    version |-> businesses[b] + 1]
          /\ committed_decisions' = committed_decisions \cup {new}
    BY <1>1, CommitRecords
  <2>2. new.business = b /\ new.version = businesses[b] + 1
    BY <2>1
  <2>3. /\ b \in Businesses /\ businesses[b] \in Nat \ {0}
        /\ businesses' = [businesses EXCEPT ![b] = businesses[b] + 1]
    BY <1>1 DEF ExecuteCommit, Committable, NextVersion, TypeOK
  <2>4. ASSUME NEW c \in Businesses
        PROVE  {d.version : d \in {e \in committed_decisions' : e.business = c}}
                 = 2..businesses'[c]
    <3> DEFINE old == {d.version : d \in {e \in committed_decisions : e.business = c}}
    <3>1. old = 2..businesses[c]
      BY DEF VersionsCountDecisions
    <3>2. CASE c = b
      <4>1. {d.version : d \in {e \in committed_decisions' : e.business = c}}
              = old \cup {businesses[b] + 1}
        BY <2>1, <2>2, <3>2
      <4>2. businesses'[c] = businesses[b] + 1
        BY <2>3, <3>2 DEF TypeOK
      <4>3. (2..businesses[b]) \cup {businesses[b] + 1} = 2..(businesses[b] + 1)
        BY <2>3
      <4> QED
        BY <3>1, <3>2, <4>1, <4>2, <4>3
    <3>3. CASE c # b
      <4>1. {d.version : d \in {e \in committed_decisions' : e.business = c}} = old
        BY <2>1, <2>2, <3>3
      <4>2. businesses'[c] = businesses[c]
        BY <2>3, <3>3 DEF TypeOK
      <4> QED
        BY <3>1, <4>1, <4>2
    <3> QED
      BY <3>2, <3>3
  <2>5. ASSUME NEW d \in committed_decisions, d.business = b
        PROVE  d.version # businesses[b] + 1
    <3>1. d.version \in 2..businesses[b]
      BY <2>3, <2>5 DEF VersionsCountDecisions
    <3> QED
      BY <2>3, <3>1
  <2>6. \A c, d \in committed_decisions' :
          c.business = d.business /\ c.version = d.version => c = d
    BY <2>1, <2>2, <2>5 DEF VersionsCountDecisions
  <2> QED
    BY <2>4, <2>6 DEF VersionsCountDecisions
<1>2. CASE UNCHANGED <<businesses, commit_operations, committed_decisions>>
  BY <1>2 DEF VersionsCountDecisions
<1> QED
  BY <1>1, <1>2, RecordingSteps

LEMMA OneDecisionPerKeyNext ==
  TypeOK /\ DecisionsAreBacked /\ OneDecisionPerKey /\ [Next]_vars => OneDecisionPerKey'
<1> SUFFICES ASSUME TypeOK, DecisionsAreBacked, OneDecisionPerKey, [Next]_vars
             PROVE  OneDecisionPerKey'
  OBVIOUS
<1>1. ASSUME NEW u \in Users, NEW k \in Keys, NEW b \in Businesses \cup {None},
             NEW p \in Proposals, NEW n \in Numbers, ExecuteCommit(u, k, b, p, n)
      PROVE  OneDecisionPerKey'
  <2>1. PICK new \in DecisionRow :
          /\ new = [key |-> k, business |-> b, proposal |-> p, number |-> n,
                    version |-> businesses[b] + 1]
          /\ committed_decisions' = committed_decisions \cup {new}
    BY <1>1, CommitRecords
  <2>2. new.key = k /\ new.proposal = p /\ new.number = n
    BY <2>1
  <2> DEFINE operation == [business |-> b, proposal |-> p, number |-> n,
                           status |-> "succeeded", version |-> businesses[b] + 1]
  <2>3. /\ commit_operations[k] = None /\ StatusOf(p, n) = "approved"
        /\ commit_operations' = [commit_operations EXCEPT ![k] = operation]
    BY <1>1 DEF ExecuteCommit, KeyIsFree, Committable, NextVersion
  <2>4. operation \in OperationRow
    BY <1>1 DEF ExecuteCommit, Committable, TypeOK, OperationRow
  <2>5. ASSUME NEW j \in Keys
        PROVE  LET made == {d \in committed_decisions' : d.key = j} IN
               IF commit_operations'[j] = None THEN made = {}
               ELSE made = {[key |-> j, business |-> commit_operations'[j].business,
                             proposal |-> commit_operations'[j].proposal,
                             number |-> commit_operations'[j].number,
                             version |-> commit_operations'[j].version]}
    <3>1. CASE j = k
      <4>1. commit_operations'[k] = operation /\ operation # None
        BY <2>3, <2>4, NoneAssumption DEF TypeOK
      <4>2. {d \in committed_decisions : d.key = k} = {}
        BY <2>3 DEF OneDecisionPerKey
      <4>3. {d \in committed_decisions' : d.key = k} = {new}
        BY <2>1, <2>2, <4>2
      <4> QED
        BY <2>1, <3>1, <4>1, <4>3
    <3>2. CASE j # k
      <4>1. commit_operations'[j] = commit_operations[j]
        BY <2>3, <3>2 DEF TypeOK
      <4>2. {d \in committed_decisions' : d.key = j} = {d \in committed_decisions : d.key = j}
        BY <2>1, <2>2, <3>2
      <4> QED
        BY <4>1, <4>2 DEF OneDecisionPerKey
    <3> QED
      BY <3>1, <3>2
  <2>6. \A d \in committed_decisions : ~ (d.proposal = p /\ d.number = n)
    BY <2>3 DEF DecisionsAreBacked
  <2>7. \A c, d \in committed_decisions' :
          c.proposal = d.proposal /\ c.number = d.number => c = d
    BY <2>1, <2>2, <2>6 DEF OneDecisionPerKey
  <2> QED
    BY <2>5, <2>7 DEF OneDecisionPerKey
<1>2. CASE UNCHANGED <<businesses, commit_operations, committed_decisions>>
  BY <1>2 DEF OneDecisionPerKey
<1> QED
  BY <1>1, <1>2, RecordingSteps

LEMMA AnswersAreTrueNext ==
  TypeOK /\ OneDecisionPerKey /\ AnswersAreTrue /\ [Next]_vars => AnswersAreTrue'
<1> SUFFICES ASSUME TypeOK, OneDecisionPerKey, AnswersAreTrue, [Next]_vars
             PROVE  AnswersAreTrue'
  OBVIOUS
<1>1. ASSUME NEW u \in Users, NEW k \in Keys, NEW b \in Businesses \cup {None},
             NEW p \in Proposals, NEW n \in Numbers, ExecuteCommit(u, k, b, p, n)
      PROVE  AnswersAreTrue'
  <2>1. PICK new \in DecisionRow :
          /\ new = [key |-> k, business |-> b, proposal |-> p, number |-> n,
                    version |-> businesses[b] + 1]
          /\ committed_decisions' = committed_decisions \cup {new}
    BY <1>1, CommitRecords
  <2>2. new \in committed_decisions' /\ new.key = k /\ new.version = businesses[b] + 1
    BY <2>1
  <2>3. answer'.key = k /\ answer'.version = businesses[b] + 1
    BY <1>1 DEF ExecuteCommit, SetAnswer, NextVersion
  <2> QED
    BY <2>2, <2>3 DEF AnswersAreTrue
<1>2. ASSUME NEW k \in Keys, NEW b \in Businesses \cup {None}, NEW p \in Proposals,
             NEW n \in Numbers, ReplayCommit(k, b, p, n)
      PROVE  AnswersAreTrue'
  <2>1. PICK d \in committed_decisions :
          d.key = k /\ d.version = commit_operations[k].version
    <3>1. commit_operations[k] # None
      BY <1>2 DEF ReplayCommit, KeyIsFree
    <3>2. PICK d :
            /\ d = [key |-> k, business |-> commit_operations[k].business,
                    proposal |-> commit_operations[k].proposal,
                    number |-> commit_operations[k].number,
                    version |-> commit_operations[k].version]
            /\ {e \in committed_decisions : e.key = k} = {d}
      BY <3>1 DEF OneDecisionPerKey
    <3>3. d \in committed_decisions /\ d.version = commit_operations[k].version /\ d.key = k
      BY <3>2
    <3> QED
      BY <3>3
  <2>2. /\ answer'.key = k /\ answer'.version = commit_operations[k].version
        /\ UNCHANGED committed_decisions
    BY <1>2 DEF ReplayCommit, SetAnswer, tables
  <2> QED
    BY <2>1, <2>2 DEF AnswersAreTrue
<1>3. CASE answer'.code \notin {"succeeded", "replayed"}
  BY <1>3 DEF AnswersAreTrue
<1>4. CASE UNCHANGED <<answer, committed_decisions>>
  BY <1>4 DEF AnswersAreTrue
<1>5. ASSUME NEW u \in Users, NEW k \in Keys, NEW b \in Businesses \cup {None},
             NEW p \in Proposals, NEW n \in Numbers,
             ConflictCommit(k) \/ RejectCommit(u, k, b, p, n)
      PROVE  answer'.code \notin {"succeeded", "replayed"}
  BY <1>5 DEF ConflictCommit, RejectCommit, SetAnswer
<1>6. ASSUME NEW h \in Handlers, EditProposal(h)
      PROVE  UNCHANGED <<answer, committed_decisions>>
  BY <1>6 DEF EditProposal, ReadScenario, CreateProposal, ReadProposal, SaveRevision,
              SubmitReview, GiveUp, tables
<1>7. ASSUME NEW u \in Users, NEW b \in Businesses, NEW p \in Proposals, NEW n \in Numbers,
             NEW verdict \in Verdicts, Decide(u, b, p, n, verdict)
      PROVE  UNCHANGED <<answer, committed_decisions>>
  BY <1>7 DEF Decide
<1>8. CASE UNCHANGED vars
  BY <1>4, <1>8 DEF vars
<1> QED
  BY <1>1, <1>2, <1>3, <1>4, <1>5, <1>6, <1>7, <1>8 DEF Next, Commit

-----------------------------------------------------------------------------
(* The inductive invariant.  No part stands alone: DecidedOnce and         *)
(* DecisionsAreBacked need the line of versions (a revision must not hit a *)
(* decided version), keys need the decisions' backing (an approved version *)
(* has no decision yet), and answers need the keys.                        *)
IInv ==
  /\ TypeOK
  /\ OnlyCurrentIsOpen
  /\ DecidedOnce
  /\ DecisionsAreBacked
  /\ VersionsCountDecisions
  /\ OneDecisionPerKey
  /\ AnswersAreTrue

LEMMA IInvInit == Init => IInv
<1> SUFFICES ASSUME Init PROVE IInv
  OBVIOUS
<1>1. TypeOK
  BY TypeInit
<1>2. \A p \in Proposals, n \in Numbers : StatusOf(p, n) = "absent" /\ proposals[p].current = 0
  BY DEF Init, StatusOf, NoVersion
<1>3. OnlyCurrentIsOpen
  BY <1>2 DEF OnlyCurrentIsOpen
<1>4. approvals = {} /\ committed_decisions = {}
  BY DEF Init
<1>5. DecidedOnce
  BY <1>2, <1>4 DEF DecidedOnce
<1>6. DecisionsAreBacked
  BY <1>4 DEF DecisionsAreBacked
<1>7. VersionsCountDecisions
  <2>1. \A b \in Businesses : businesses[b] = 1
    BY DEF Init
  <2>2. \A b \in Businesses :
          {d.version : d \in {c \in committed_decisions : c.business = b}} = {}
    BY <1>4
  <2>3. 2..1 = {}
    OBVIOUS
  <2> QED
    BY <1>4, <2>1, <2>2, <2>3 DEF VersionsCountDecisions
<1>8. OneDecisionPerKey
  BY <1>4 DEF Init, OneDecisionPerKey
<1>9. AnswersAreTrue
  BY DEF Init, AnswersAreTrue
<1> QED
  BY <1>1, <1>3, <1>5, <1>6, <1>7, <1>8, <1>9 DEF IInv

LEMMA IInvNext == IInv /\ [Next]_vars => IInv'
  BY TypeNext, OnlyCurrentIsOpenNext, DecidedOnceNext, DecisionsAreBackedNext,
     VersionsCountDecisionsNext, OneDecisionPerKeyNext, AnswersAreTrueNext DEF IInv

LEMMA Inductive == Spec => []IInv
  BY IInvInit, IInvNext, PTL DEF Spec

(* A revision racing a submission leaves exactly one open version.         *)
THEOREM LineOfVersions == Spec => []OnlyCurrentIsOpen
  BY Inductive, PTL DEF IInv

(* No decision of a human is overturned, repeated or lost.                 *)
THEOREM DecisionsAreFinal == Spec => []DecidedOnce
  BY Inductive, PTL DEF IInv

(* Nothing is committed without an approval of that version, given and     *)
(* used at the business version it was based on.                           *)
THEOREM CommitsAreBacked == Spec => []DecisionsAreBacked
  BY Inductive, PTL DEF IInv

(* Business versions and committed decisions advance together.             *)
THEOREM VersionsAreDense == Spec => []VersionsCountDecisions
  BY Inductive, PTL DEF IInv

(* A key stands for at most one decision and a version for at most one key.*)
THEOREM CommitsAreIdempotent == Spec => []OneDecisionPerKey
  BY Inductive, PTL DEF IInv

(* A success the client is told of is a decision on record.                *)
THEOREM ReportedCommitsExist == Spec => []AnswersAreTrue
  BY Inductive, PTL DEF IInv

-----------------------------------------------------------------------------
(* The audit events of submissions and revisions, beside the versions they *)
(* tell of.  Every writing step adds one event.                            *)

Submitted == {"in_review", "approved", "rejected", "committed"}

Submissions(p, n) ==
  {e \in audit_events :
     e.action = "proposal_submitted_for_review" /\ e.proposal = p /\ e.number = n}

FrozenVersion(p, n) ==
  IF StatusOf(p, n) \in Submitted
  THEN n = proposals[p].current /\ \E e \in Submissions(p, n) : Submissions(p, n) = {e}
  ELSE Submissions(p, n) = {}

LEMMA FrozenEverywhere ==
  SubmittedIsFrozen <=> \A p \in Proposals, n \in Numbers : FrozenVersion(p, n)
  BY DEF SubmittedIsFrozen, FrozenVersion, Submissions, Submitted

Revisions(p) == {e \in audit_events : e.action = "proposal_revised" /\ e.proposal = p}

RevisedOnce(p) ==
  /\ {e.number : e \in Revisions(p)} = 2..proposals[p].current
  /\ \A e, f \in Revisions(p) : e.number = f.number <=> e.origin = f.origin

LEMMA RevisedOnceEverywhere == OneRevisionPerRequest <=> \A p \in Proposals : RevisedOnce(p)
  BY DEF OneRevisionPerRequest, RevisedOnce, Revisions

Event(new, action, p) ==
  /\ new.action = action /\ new.proposal = p
  /\ audit_events' = audit_events \cup {new}

LEMMA CreateAudits ==
  ASSUME TypeOK, NEW h \in Handlers, CreateProposal(h)
  PROVE  /\ \E p \in Proposals, b \in Businesses : CreationWrites(h, p, b)
         /\ \E new, p : Event(new, "proposal_created", p)
<1>1. PICK p \in Proposals : AppendProposalAudit("proposal_created", p, 1, None)
  BY DEF CreateProposal
<1>2. PICK new : new = [action |-> "proposal_created", proposal |-> p, number |-> 1, origin |-> None]
  OBVIOUS
<1>3. Event(new, "proposal_created", p)
  BY <1>1, <1>2 DEF AppendProposalAudit, Event
<1> QED
  BY <1>3, CreateEffect

LEMMA ReviseAudits ==
  ASSUME NEW h \in Handlers, SaveRevision(h),
         NEW p \in Proposals, NEW n \in Numbers, RevisionWrites(h, p, n)
  PROVE  \E new : /\ Event(new, "proposal_revised", p) /\ new.number = n + 1
                  /\ \A e \in Revisions(p) : e.origin # new.origin
<1>1. AppendProposalAudit("proposal_revised", p, n + 1, handlers[h].request)
  BY DEF SaveRevision, RevisionWrites
<1>2. PICK new : new = [action |-> "proposal_revised", proposal |-> p, number |-> n + 1,
                        origin |-> handlers[h].request]
  OBVIOUS
<1>3. /\ new.action = "proposal_revised" /\ new.proposal = p /\ new.number = n + 1
      /\ new.origin = handlers[h].request /\ audit_events' = audit_events \cup {new}
  BY <1>1, <1>2 DEF AppendProposalAudit
<1>4. \A e \in Revisions(p) : e.origin # new.origin
  BY <1>1, <1>3 DEF AppendProposalAudit, AuditIdIsFree, Revisions
<1> QED
  BY <1>3, <1>4 DEF Event

LEMMA SubmitAudits ==
  ASSUME TypeOK, NEW h \in Handlers, SubmitReview(h)
  PROVE  \E p \in Proposals, n \in Numbers : \E new :
           /\ SubmissionWrites(p, n) /\ UNCHANGED proposals
           /\ Event(new, "proposal_submitted_for_review", p) /\ new.number = n
<1> DEFINE v == handlers[h]
<1>1. v \in SubmitView
  BY DEF SubmitReview, TypeOK, CreateView, ReviseView
<1>2. v.proposal \in Proposals /\ v.number \in Numbers
  BY <1>1 DEF SubmitView
<1>3. /\ StatusOf(v.proposal, v.number) = "draft" /\ SetStatus(v.proposal, v.number, "in_review")
      /\ AppendProposalAudit("proposal_submitted_for_review", v.proposal, v.number, v.request)
      /\ UNCHANGED proposals
  BY DEF SubmitReview, SubmissionApplies
<1>4. PICK p \in Proposals, n \in Numbers : p = v.proposal /\ n = v.number
  BY <1>2
<1>5. StatusOf(p, n) = "draft" /\ SetStatus(p, n, "in_review")
  BY <1>3, <1>4
<1>6. SubmissionWrites(p, n)
  BY <1>5, SetStatusEffect DEF SubmissionWrites
<1>7. PICK new : new = [action |-> "proposal_submitted_for_review", proposal |-> p, number |-> n,
                        origin |-> v.request]
  OBVIOUS
<1>8. Event(new, "proposal_submitted_for_review", p) /\ new.number = n
  BY <1>3, <1>4, <1>7 DEF AppendProposalAudit, Event
<1> QED
  BY <1>3, <1>6, <1>8

LEMMA DecideAudits ==
  ASSUME NEW u \in Users, NEW b \in Businesses, NEW p \in Proposals,
         NEW n \in Numbers, NEW verdict \in Verdicts, Decide(u, b, p, n, verdict)
  PROVE  \E new : Event(new, "proposal_approved", p) \/ Event(new, "proposal_rejected", p)
<1>1. PICK new : new =
        [action |-> IF verdict = "approved" THEN "proposal_approved" ELSE "proposal_rejected",
         proposal |-> p, number |-> n, origin |-> None]
  OBVIOUS
<1> QED
  BY <1>1 DEF Decide, Event

LEMMA CommitAudits ==
  ASSUME NEW u \in Users, NEW k \in Keys, NEW b \in Businesses \cup {None},
         NEW p \in Proposals, NEW n \in Numbers, ExecuteCommit(u, k, b, p, n)
  PROVE  \E new : Event(new, "commit_executed", p)
<1>1. PICK new : new = [action |-> "commit_executed", proposal |-> p, number |-> n, origin |-> k]
  OBVIOUS
<1> QED
  BY <1>1 DEF ExecuteCommit, Event

(* Any event leaves the submissions and revisions alone that it is none of. *)
LEMMA OtherEvents ==
  ASSUME NEW new, NEW action, NEW p, Event(new, action, p)
  PROVE  /\ \A q, m : action # "proposal_submitted_for_review" \/ q # p \/ m # new.number
                      => Submissions(q, m)' = Submissions(q, m)
         /\ \A q : action # "proposal_revised" \/ q # p => Revisions(q)' = Revisions(q)
  BY DEF Event, Submissions, Revisions

LEMMA FrozenKept ==
  ASSUME NEW q, NEW m, FrozenVersion(q, m), Submissions(q, m)' = Submissions(q, m),
         StatusOf(q, m)' \in Submitted <=> StatusOf(q, m) \in Submitted,
         StatusOf(q, m) \in Submitted => proposals'[q].current = proposals[q].current
  PROVE  FrozenVersion(q, m)'
  BY DEF FrozenVersion

LEMMA SubmittedIsFrozenNext ==
  TypeOK /\ OnlyCurrentIsOpen /\ SubmittedIsFrozen /\ [Next]_vars => SubmittedIsFrozen'
<1> SUFFICES ASSUME TypeOK, OnlyCurrentIsOpen, SubmittedIsFrozen, [Next]_vars,
                    NEW q \in Proposals, NEW m \in Numbers
             PROVE  FrozenVersion(q, m)'
  BY DEF SubmittedIsFrozen, FrozenVersion, Submissions, Submitted
<1>0. FrozenVersion(q, m)
  BY FrozenEverywhere
<1>1. ASSUME NEW h \in Handlers, CreateProposal(h)
      PROVE  FrozenVersion(q, m)'
  <2>1. PICK p \in Proposals, b \in Businesses : CreationWrites(h, p, b)
    BY <1>1, CreateAudits
  <2>2. PICK new, r : Event(new, "proposal_created", r)
    BY <1>1, CreateAudits
  <2>3. Submissions(q, m)' = Submissions(q, m)
    BY <2>2, OtherEvents
  <2>4. /\ proposals[p].current = 0 /\ SameElsewhere(p, {1}) /\ StatusOf(p, 1)' = "draft"
        /\ proposals' = [proposals EXCEPT ![p] = [business |-> b, current |-> 1]]
    BY <2>1 DEF CreationWrites
  <2>5. StatusOf(p, m) = "absent"
    BY <2>4 DEF OnlyCurrentIsOpen
  <2>6. StatusOf(q, m)' \in Submitted <=> StatusOf(q, m) \in Submitted
    BY <2>4, <2>5 DEF SameElsewhere, Submitted
  <2>7. q # p => proposals'[q] = proposals[q]
    BY <2>4 DEF TypeOK
  <2>8. StatusOf(q, m) \in Submitted => proposals'[q].current = proposals[q].current
    BY <2>5, <2>7 DEF Submitted
  <2> QED
    BY <1>0, <2>3, <2>6, <2>8, FrozenKept
<1>2. ASSUME NEW h \in Handlers, SaveRevision(h)
      PROVE  FrozenVersion(q, m)'
  <2>1. PICK p \in Proposals, n \in Numbers : RevisionWrites(h, p, n)
    BY <1>2, ReviseEffect
  <2>2. PICK new : Event(new, "proposal_revised", p)
    BY <1>2, <2>1, ReviseAudits
  <2>3. Submissions(q, m)' = Submissions(q, m)
    BY <2>2, OtherEvents
  <2>4. /\ n + 1 \in Numbers /\ proposals[p].current = n /\ StatusOf(p, n) = "draft"
        /\ proposals' = [proposals EXCEPT ![p] = [proposals[p] EXCEPT !.current = n + 1]]
        /\ SameElsewhere(p, {n, n + 1})
        /\ StatusOf(p, n)' = "superseded" /\ StatusOf(p, n + 1)' = "draft"
    BY <2>1 DEF RevisionWrites
  <2>5. StatusOf(p, m) \notin Submitted
    BY <2>4 DEF OnlyCurrentIsOpen, Submitted
  <2>6. StatusOf(q, m)' \in Submitted <=> StatusOf(q, m) \in Submitted
    BY <2>4, <2>5 DEF SameElsewhere, Submitted
  <2>7. q # p => proposals'[q] = proposals[q]
    BY <2>4 DEF TypeOK
  <2>8. StatusOf(q, m) \in Submitted => proposals'[q].current = proposals[q].current
    BY <2>5, <2>7
  <2> QED
    BY <1>0, <2>3, <2>6, <2>8, FrozenKept
<1>3. ASSUME NEW h \in Handlers, SubmitReview(h)
      PROVE  FrozenVersion(q, m)'
  <2>0. PICK p \in Proposals, n \in Numbers : \E new :
          /\ SubmissionWrites(p, n) /\ UNCHANGED proposals
          /\ Event(new, "proposal_submitted_for_review", p) /\ new.number = n
    BY <1>3, SubmitAudits
  <2>1. PICK new :
          /\ SubmissionWrites(p, n) /\ UNCHANGED proposals
          /\ Event(new, "proposal_submitted_for_review", p) /\ new.number = n
    BY <2>0
  <2>2. StatusOf(p, n) = "draft" /\ StatusOf(p, n)' = "in_review" /\ SameElsewhere(p, {n})
    BY <2>1 DEF SubmissionWrites
  <2>3. CASE q = p /\ m = n
    <3>1. Submissions(q, m) = {}
      BY <1>0, <2>2, <2>3 DEF FrozenVersion, Submitted
    <3>2. Submissions(q, m)' = {new}
      BY <2>1, <2>3, <3>1 DEF Event, Submissions
    <3>3. m = proposals[q].current
      <4>1. proposals[q].current \in 0..MaxNumber
        BY DEF TypeOK, ProposalRow
      <4> QED
        BY <2>2, <2>3, <4>1 DEF OnlyCurrentIsOpen
    <3>4. StatusOf(q, m)' \in Submitted /\ proposals'[q].current = m
      BY <2>1, <2>2, <2>3, <3>3 DEF Submitted
    <3> QED
      BY <3>2, <3>4 DEF FrozenVersion
  <2>4. CASE q # p \/ m # n
    <3>1. Submissions(q, m)' = Submissions(q, m)
      BY <2>1, <2>4, OtherEvents
    <3>2. StatusOf(q, m)' = StatusOf(q, m)
      BY <2>2, <2>4 DEF SameElsewhere
    <3> QED
      BY <1>0, <2>1, <3>1, <3>2, FrozenKept
  <2> QED
    BY <2>3, <2>4
<1>4. ASSUME NEW u \in Users, NEW b \in Businesses, NEW p \in Proposals, NEW n \in Numbers,
             NEW verdict \in Verdicts, Decide(u, b, p, n, verdict)
      PROVE  FrozenVersion(q, m)'
  <2>1. PICK new : Event(new, "proposal_approved", p) \/ Event(new, "proposal_rejected", p)
    BY <1>4, DecideAudits
  <2>2. Submissions(q, m)' = Submissions(q, m)
    BY <2>1, OtherEvents
  <2>3. StatusOf(p, n) = "in_review" /\ UNCHANGED proposals
    BY <1>4 DEF Decide, Decidable
  <2>4. StatusOf(q, m)' \in Submitted <=> StatusOf(q, m) \in Submitted
    BY <1>4, <2>3, DecideEffect DEF SameElsewhere, Submitted
  <2> QED
    BY <1>0, <2>2, <2>3, <2>4, FrozenKept
<1>5. ASSUME NEW u \in Users, NEW k \in Keys, NEW b \in Businesses \cup {None},
             NEW p \in Proposals, NEW n \in Numbers, ExecuteCommit(u, k, b, p, n)
      PROVE  FrozenVersion(q, m)'
  <2>1. PICK new : Event(new, "commit_executed", p)
    BY <1>5, CommitAudits
  <2>2. Submissions(q, m)' = Submissions(q, m)
    BY <2>1, OtherEvents
  <2>3. StatusOf(p, n) = "approved" /\ UNCHANGED proposals
    BY <1>5 DEF ExecuteCommit, Committable
  <2>4. StatusOf(q, m)' \in Submitted <=> StatusOf(q, m) \in Submitted
    BY <1>5, <2>3, CommitEffect DEF SameElsewhere, Submitted
  <2> QED
    BY <1>0, <2>2, <2>3, <2>4, FrozenKept
<1>6. CASE UNCHANGED tables
  <2>1. Submissions(q, m)' = Submissions(q, m) /\ StatusOf(q, m)' = StatusOf(q, m) /\ UNCHANGED proposals
    BY <1>6 DEF tables, Submissions, StatusOf
  <2> QED
    BY <1>0, <2>1, FrozenKept
<1> QED
  BY <1>1, <1>2, <1>3, <1>4, <1>5, <1>6, WritingSteps

LEMMA OneRevisionPerRequestNext ==
  TypeOK /\ OneRevisionPerRequest /\ [Next]_vars => OneRevisionPerRequest'
<1> SUFFICES ASSUME TypeOK, OneRevisionPerRequest, [Next]_vars, NEW q \in Proposals
             PROVE  RevisedOnce(q)'
  BY DEF OneRevisionPerRequest, RevisedOnce, Revisions
<1>0. RevisedOnce(q)
  BY RevisedOnceEverywhere
<1>1. ASSUME Revisions(q)' = Revisions(q), proposals'[q].current = proposals[q].current
      PROVE  RevisedOnce(q)'
  BY <1>0, <1>1 DEF RevisedOnce
<1>2. ASSUME NEW h \in Handlers, CreateProposal(h)
      PROVE  RevisedOnce(q)'
  <2>1. PICK p \in Proposals, b \in Businesses : CreationWrites(h, p, b)
    BY <1>2, CreateAudits
  <2>2. PICK new, r : Event(new, "proposal_created", r)
    BY <1>2, CreateAudits
  <2>3. Revisions(q)' = Revisions(q)
    BY <2>2, OtherEvents
  <2>4. /\ proposals[p].current = 0
        /\ proposals' = [proposals EXCEPT ![p] = [business |-> b, current |-> 1]]
    BY <2>1 DEF CreationWrites
  <2>5. CASE q = p
    <3>1. proposals'[q].current = 1
      BY <2>4, <2>5 DEF TypeOK
    <3>2. 2..1 = 2..0
      OBVIOUS
    <3> QED
      BY <1>0, <2>3, <2>4, <2>5, <3>1, <3>2 DEF RevisedOnce
  <2>6. CASE q # p
    BY <1>1, <2>3, <2>4, <2>6 DEF TypeOK
  <2> QED
    BY <2>5, <2>6
<1>3. ASSUME NEW h \in Handlers, SaveRevision(h)
      PROVE  RevisedOnce(q)'
  <2>1. PICK p \in Proposals, n \in Numbers : RevisionWrites(h, p, n)
    BY <1>3, ReviseEffect
  <2>2. PICK new : /\ Event(new, "proposal_revised", p) /\ new.number = n + 1
                   /\ \A e \in Revisions(p) : e.origin # new.origin
    BY <1>3, <2>1, ReviseAudits
  <2>3. /\ proposals[p].current = n /\ proposals[p] \in ProposalRow
        /\ proposals' = [proposals EXCEPT ![p] = [proposals[p] EXCEPT !.current = n + 1]]
    BY <2>1 DEF RevisionWrites, TypeOK
  <2>4. CASE q = p
    <3>1. Revisions(q)' = Revisions(q) \cup {new}
      BY <2>2, <2>4 DEF Event, Revisions
    <3>2. proposals'[q].current = n + 1
      BY <2>3, <2>4 DEF TypeOK, ProposalRow
    <3>3. {e.number : e \in Revisions(q)} = 2..n
      BY <1>0, <2>3, <2>4 DEF RevisedOnce
    <3>4. {e.number : e \in Revisions(q)'} = 2..(n + 1)
      <4>1. {e.number : e \in Revisions(q)'} = {e.number : e \in Revisions(q)} \cup {n + 1}
        BY <2>2, <3>1
      <4>2. 2..(n + 1) = 2..n \cup {n + 1}
        OBVIOUS
      <4> QED
        BY <3>3, <4>1, <4>2
    <3>5. \A e \in Revisions(q) : e.number # new.number /\ e.origin # new.origin
      <4>1. \A e \in Revisions(q) : e.number \in 2..n
        BY <3>3
      <4> QED
        BY <2>2, <2>4, <4>1
    <3>6. \A e, f \in Revisions(q)' : e.number = f.number <=> e.origin = f.origin
      BY <1>0, <3>1, <3>5 DEF RevisedOnce
    <3> QED
      BY <3>2, <3>4, <3>6 DEF RevisedOnce
  <2>5. CASE q # p
    <3>1. Revisions(q)' = Revisions(q)
      BY <2>2, <2>5, OtherEvents
    <3> QED
      BY <1>1, <2>3, <2>5, <3>1 DEF TypeOK
  <2> QED
    BY <2>4, <2>5
<1>4. ASSUME NEW h \in Handlers, SubmitReview(h)
      PROVE  RevisedOnce(q)'
  <2>1. PICK p \in Proposals :
          UNCHANGED proposals /\ \E new : Event(new, "proposal_submitted_for_review", p)
    BY <1>4, SubmitAudits
  <2>2. PICK new : Event(new, "proposal_submitted_for_review", p)
    BY <2>1
  <2>3. Revisions(q)' = Revisions(q)
    BY <2>2, OtherEvents
  <2> QED
    BY <1>1, <2>1, <2>3
<1>5. ASSUME NEW u \in Users, NEW b \in Businesses, NEW p \in Proposals, NEW n \in Numbers,
             NEW verdict \in Verdicts, Decide(u, b, p, n, verdict)
      PROVE  RevisedOnce(q)'
  <2>1. PICK new : Event(new, "proposal_approved", p) \/ Event(new, "proposal_rejected", p)
    BY <1>5, DecideAudits
  <2>2. Revisions(q)' = Revisions(q)
    BY <2>1, OtherEvents
  <2> QED
    BY <1>1, <1>5, <2>2 DEF Decide
<1>6. ASSUME NEW u \in Users, NEW k \in Keys, NEW b \in Businesses \cup {None},
             NEW p \in Proposals, NEW n \in Numbers, ExecuteCommit(u, k, b, p, n)
      PROVE  RevisedOnce(q)'
  <2>1. PICK new : Event(new, "commit_executed", p)
    BY <1>6, CommitAudits
  <2>2. Revisions(q)' = Revisions(q)
    BY <2>1, OtherEvents
  <2> QED
    BY <1>1, <1>6, <2>2 DEF ExecuteCommit
<1>7. CASE UNCHANGED tables
  BY <1>1, <1>7 DEF tables, Revisions
<1> QED
  BY <1>2, <1>3, <1>4, <1>5, <1>6, <1>7, WritingSteps

LEMMA AuditStarts == Init => SubmittedIsFrozen /\ OneRevisionPerRequest
<1> SUFFICES ASSUME Init PROVE SubmittedIsFrozen /\ OneRevisionPerRequest
  OBVIOUS
<1>1. audit_events = {} /\ \A p \in Proposals : proposals[p].current = 0
  BY DEF Init
<1>2. \A p \in Proposals, n \in Numbers : StatusOf(p, n) = "absent"
  BY DEF Init, StatusOf, NoVersion
<1>3. SubmittedIsFrozen
  BY <1>1, <1>2 DEF SubmittedIsFrozen
<1>4. 2..0 = {}
  OBVIOUS
<1>5. OneRevisionPerRequest
  BY <1>1, <1>4 DEF OneRevisionPerRequest
<1> QED
  BY <1>3, <1>5

(* A version is submitted for review once, and neither a racing revision   *)
(* nor a decision or a commit takes that submission away from it           *)
(* (proposal_repository.go:123, :96).                                      *)
THEOREM SubmissionsAreFrozen == Spec => []SubmittedIsFrozen
<1>1. OnlyCurrentIsOpen /\ TypeOK /\ SubmittedIsFrozen /\ [Next]_vars => SubmittedIsFrozen'
  BY SubmittedIsFrozenNext
<1> QED
  BY <1>1, AuditStarts, Inductive, PTL DEF Spec, IInv

(* However often a request to revise is retried, the revisions of a        *)
(* proposal are recorded one per version and one per request               *)
(* (proposal_repository.go:188).                                           *)
THEOREM RevisionsAreNotRepeated == Spec => []OneRevisionPerRequest
  BY AuditStarts, OneRevisionPerRequestNext, Inductive, PTL DEF Spec, IInv

-----------------------------------------------------------------------------
(* What the steps may do: the status machine, the staleness of proposals,  *)
(* and the implementation of DecisionLedger.                               *)

(* What IInv leaves out and steps rely on: an existing proposal belongs to *)
(* a business, and the draft a handler has read to revise is there, with   *)
(* the base version the handler remembers.                                 *)
Owned == \A p \in Proposals : Exists(p) => proposals[p].business \in Businesses

ViewsAreFaithful ==
  \A h \in Handlers :
    handlers[h] \in ReviseView =>
      /\ StatusOf(handlers[h].proposal, handlers[h].number) # "absent"
      /\ BaseOf(handlers[h].proposal, handlers[h].number) = handlers[h].base

StepInv == IInv /\ Owned /\ ViewsAreFaithful

(* No step makes a version disappear or changes what it is based on.       *)
KeepsBases ==
  \A p \in Proposals, n \in Numbers :
    StatusOf(p, n) # "absent" =>
      StatusOf(p, n)' # "absent" /\ BaseOf(p, n)' = BaseOf(p, n)

LEMMA BasesAreKept == IInv /\ [Next]_vars => KeepsBases
<1> SUFFICES ASSUME IInv, [Next]_vars PROVE KeepsBases
  OBVIOUS
<1>0. TypeOK /\ OnlyCurrentIsOpen
  BY DEF IInv
<1>1. ASSUME NEW h \in Handlers, CreateProposal(h)
      PROVE  KeepsBases
  <2>0. PICK p \in Proposals, b \in Businesses : CreationWrites(h, p, b)
    BY <1>0, <1>1, CreateEffect
  <2>1. proposals[p].current = 0 /\ SameElsewhere(p, {1})
    BY <2>0 DEF CreationWrites
  <2>2. 1 \in Numbers /\ StatusOf(p, 1) = "absent"
    BY <1>0, <2>1 DEF OnlyCurrentIsOpen
  <2> QED
    BY <2>1, <2>2 DEF SameElsewhere, KeepsBases
<1>2. ASSUME NEW h \in Handlers, SaveRevision(h)
      PROVE  KeepsBases
  <2>0. PICK p \in Proposals, n \in Numbers : RevisionWrites(h, p, n)
    BY <1>0, <1>2, ReviseEffect
  <2>1. /\ n + 1 \in Numbers
        /\ proposals[p].current = n
        /\ SameElsewhere(p, {n, n + 1})
        /\ StatusOf(p, n)' = "superseded" /\ BaseOf(p, n)' = BaseOf(p, n)
    BY <2>0 DEF RevisionWrites
  <2>2. StatusOf(p, n + 1) = "absent"
    BY <1>0, <2>1 DEF OnlyCurrentIsOpen
  <2> QED
    BY <2>1, <2>2 DEF SameElsewhere, KeepsBases
<1>3. ASSUME NEW h \in Handlers, SubmitReview(h)
      PROVE  KeepsBases
  <2>0. PICK p \in Proposals, n \in Numbers : SubmissionWrites(p, n)
    BY <1>0, <1>3, SubmitEffect
  <2> QED
    BY <2>0 DEF SubmissionWrites, SameElsewhere, KeepsBases
<1>4. ASSUME NEW u \in Users, NEW b \in Businesses, NEW p \in Proposals, NEW n \in Numbers,
             NEW verdict \in Verdicts, Decide(u, b, p, n, verdict)
      PROVE  KeepsBases
  BY <1>0, <1>4, DecideEffect DEF SameElsewhere, KeepsBases
<1>5. ASSUME NEW u \in Users, NEW k \in Keys, NEW b \in Businesses \cup {None},
             NEW p \in Proposals, NEW n \in Numbers, ExecuteCommit(u, k, b, p, n)
      PROVE  KeepsBases
  BY <1>0, <1>5, CommitEffect DEF SameElsewhere, KeepsBases
<1>6. CASE UNCHANGED tables
  BY <1>6 DEF tables, StatusOf, BaseOf, KeepsBases
<1> QED
  BY <1>1, <1>2, <1>3, <1>4, <1>5, <1>6, WritingSteps

LEMMA StepInvInit == Init => StepInv
<1> SUFFICES ASSUME Init PROVE StepInv
  OBVIOUS
<1>1. Owned
  BY DEF Init, Owned, Exists
<1>2. \A h \in Handlers : handlers[h] \notin ReviseView
  BY NoneAssumption DEF Init
<1> QED
  BY <1>1, <1>2, IInvInit DEF StepInv, ViewsAreFaithful

LEMMA OwnedNext == TypeOK /\ Owned /\ [Next]_vars => Owned'
<1> SUFFICES ASSUME TypeOK, Owned, [Next]_vars PROVE Owned'
  OBVIOUS
<1>1. ASSUME NEW h \in Handlers, CreateProposal(h)
      PROVE  Owned'
  <2>0. PICK p \in Proposals, b \in Businesses : CreationWrites(h, p, b)
    BY <1>1, CreateEffect
  <2>1. proposals' = [proposals EXCEPT ![p] = [business |-> b, current |-> 1]]
    BY <2>0 DEF CreationWrites
  <2>2. proposals'[p].business \in Businesses
    BY <2>1 DEF TypeOK
  <2> QED
    BY <2>1, <2>2 DEF TypeOK, Owned, Exists
<1>2. ASSUME NEW h \in Handlers, SaveRevision(h)
      PROVE  Owned'
  <2>0. PICK p \in Proposals, n \in Numbers : RevisionWrites(h, p, n)
    BY <1>2, ReviseEffect
  <2>1. /\ proposals[p].current = n
        /\ proposals' = [proposals EXCEPT ![p] = [proposals[p] EXCEPT !.current = n + 1]]
    BY <2>0 DEF RevisionWrites
  <2>2. proposals[p] \in ProposalRow /\ Exists(p)
    BY <2>1 DEF TypeOK, Exists
  <2> QED
    BY <2>1, <2>2 DEF TypeOK, Owned, Exists, ProposalRow
<1>3. CASE UNCHANGED proposals
  BY <1>3 DEF Owned, Exists
<1> QED
  BY <1>1, <1>2, <1>3, WritingSteps DEF SubmitReview, Decide, ExecuteCommit, tables

(* A view stays, is forgotten, or has just been read from the tables.      *)
LEMMA ViewSteps ==
  ASSUME TypeOK, [Next]_vars, NEW g \in Handlers, handlers'[g] \in ReviseView,
         handlers'[g] # handlers[g]
  PROVE  /\ UNCHANGED tables
         /\ StatusOf(handlers'[g].proposal, handlers'[g].number) = "draft"
         /\ BaseOf(handlers'[g].proposal, handlers'[g].number) = handlers'[g].base
<1> DEFINE Goal ==
      /\ UNCHANGED tables
      /\ StatusOf(handlers'[g].proposal, handlers'[g].number) = "draft"
      /\ BaseOf(handlers'[g].proposal, handlers'[g].number) = handlers'[g].base
<1>1. ASSUME NEW h \in Handlers, NEW u \in Users, NEW b \in Businesses, ReadScenario(h, u, b)
      PROVE  Goal
  <2>1. PICK base : handlers' = [handlers EXCEPT ![h] =
          [op |-> "create", actor |-> u, business |-> b, base |-> base]]
    BY <1>1 DEF ReadScenario
  <2>2. handlers'[g].op = "create"
    BY <2>1 DEF TypeOK
  <2> QED
    BY <2>2 DEF ReviseView
<1>2. ASSUME NEW h \in Handlers, NEW op \in {"revise", "submit"}, NEW u \in Users,
             NEW b \in Businesses \cup {None}, NEW p \in Proposals, NEW r \in Requests,
             ReadProposal(h, op, u, b, p, r)
      PROVE  Goal
  <2>1. g = h
    BY <1>2 DEF ReadProposal, TypeOK
  <2>2. CASE op = "submit"
    <3>1. handlers'[g] = [op |-> "submit", actor |-> u, proposal |-> p,
                          number |-> proposals[p].current, request |-> r]
      BY <1>2, <2>1, <2>2 DEF ReadProposal, TypeOK
    <3>2. handlers'[g].op = "submit"
      BY <3>1
    <3> QED
      BY <3>2 DEF ReviseView
  <2>3. CASE op = "revise"
    <3> DEFINE n == proposals[p].current
    <3>1. handlers'[g] = [op |-> "revise", actor |-> u, proposal |-> p, number |-> n,
                          base |-> BaseOf(p, n), request |-> r]
      BY <1>2, <2>1, <2>3 DEF ReadProposal, TypeOK
    <3>2. UNCHANGED tables /\ StatusOf(p, n) = "draft"
      BY <1>2 DEF ReadProposal
    <3>3. /\ handlers'[g].proposal = p /\ handlers'[g].number = n
          /\ handlers'[g].base = BaseOf(p, n)
      BY <3>1
    <3> QED
      BY <3>2, <3>3
  <2> QED
    BY <2>2, <2>3
<1>3. handlers'[g] # None
  BY NoneAssumption
<1>4. ASSUME NEW h \in Handlers, handlers' = [handlers EXCEPT ![h] = None]
      PROVE  FALSE
  BY <1>3, <1>4 DEF TypeOK
<1>5. UNCHANGED handlers => FALSE
  OBVIOUS
<1>6. ASSUME NEW h \in Handlers, EditProposal(h)
      PROVE  Goal
  BY <1>1, <1>2, <1>4, <1>6
     DEF EditProposal, CreateProposal, SaveRevision, SubmitReview, GiveUp
<1>7. ASSUME NEW u \in Users, NEW p \in Proposals, NEW n \in Numbers, NEW b \in Businesses,
             NEW verdict \in Verdicts, Decide(u, b, p, n, verdict)
      PROVE  FALSE
  BY <1>5, <1>7 DEF Decide
<1>8. ASSUME NEW u \in Users, NEW p \in Proposals, NEW n \in Numbers, NEW k \in Keys,
             NEW b \in Businesses \cup {None}, Commit(u, k, b, p, n)
      PROVE  FALSE
  BY <1>5, <1>8 DEF Commit, ReplayCommit, ConflictCommit, ExecuteCommit, RejectCommit
<1>9. CASE UNCHANGED vars
  BY <1>5, <1>9 DEF vars
<1> QED
  BY <1>6, <1>7, <1>8, <1>9 DEF Next

LEMMA ViewsNext == IInv /\ ViewsAreFaithful /\ [Next]_vars => ViewsAreFaithful'
<1> SUFFICES ASSUME IInv, ViewsAreFaithful, [Next]_vars, NEW g \in Handlers,
                    handlers'[g] \in ReviseView
             PROVE  /\ StatusOf(handlers[g].proposal, handlers[g].number)' # "absent"
                    /\ BaseOf(handlers[g].proposal, handlers[g].number)' = handlers'[g].base
  BY DEF ViewsAreFaithful
<1>1. handlers'[g].proposal \in Proposals /\ handlers'[g].number \in Numbers
  BY DEF ReviseView
<1>2. CASE handlers'[g] = handlers[g]
  BY <1>1, <1>2, BasesAreKept DEF KeepsBases, ViewsAreFaithful
<1>3. CASE handlers'[g] # handlers[g]
  BY <1>3, ViewSteps DEF IInv, tables, StatusOf, BaseOf
<1> QED
  BY <1>2, <1>3

LEMMA StepInvInductive == Spec => []StepInv
<1>1. StepInv /\ [Next]_vars => StepInv'
  BY IInvNext, OwnedNext, ViewsNext DEF StepInv, IInv
<1> QED
  BY <1>1, StepInvInit, PTL DEF Spec

-----------------------------------------------------------------------------

LEMMA StatusMachineStep ==
  ASSUME IInv, [Next]_vars, NEW q \in Proposals, NEW m \in Numbers
  PROVE  VersionStep(q, m)
<1>0. TypeOK /\ OnlyCurrentIsOpen
  BY DEF IInv
<1> USE DEF VersionStep, CanTransition, SameElsewhere
<1>1. ASSUME NEW h \in Handlers, CreateProposal(h)
      PROVE  VersionStep(q, m)
  <2>0. PICK p \in Proposals, b \in Businesses : CreationWrites(h, p, b)
    BY <1>0, <1>1, CreateEffect
  <2>1. proposals[p].current = 0 /\ SameElsewhere(p, {1}) /\ StatusOf(p, 1)' = "draft"
    BY <2>0 DEF CreationWrites
  <2>2. StatusOf(p, 1) = "absent"
    BY <1>0, <2>1 DEF OnlyCurrentIsOpen
  <2> QED
    BY <2>1, <2>2
<1>2. ASSUME NEW h \in Handlers, SaveRevision(h)
      PROVE  VersionStep(q, m)
  <2>0. PICK p \in Proposals, n \in Numbers : RevisionWrites(h, p, n)
    BY <1>0, <1>2, ReviseEffect
  <2>1. /\ n + 1 \in Numbers
        /\ proposals[p].current = n /\ StatusOf(p, n) = "draft"
        /\ SameElsewhere(p, {n, n + 1})
        /\ StatusOf(p, n)' = "superseded" /\ BaseOf(p, n)' = BaseOf(p, n)
        /\ StatusOf(p, n + 1)' = "draft"
    BY <2>0 DEF RevisionWrites
  <2>2. StatusOf(p, n + 1) = "absent"
    BY <1>0, <2>1 DEF OnlyCurrentIsOpen
  <2> QED
    BY <2>1, <2>2
<1>3. ASSUME NEW h \in Handlers, SubmitReview(h)
      PROVE  VersionStep(q, m)
  <2>0. PICK p \in Proposals, n \in Numbers : SubmissionWrites(p, n)
    BY <1>0, <1>3, SubmitEffect
  <2> QED
    BY <2>0 DEF SubmissionWrites
<1>4. ASSUME NEW u \in Users, NEW b \in Businesses, NEW p \in Proposals, NEW n \in Numbers,
             NEW verdict \in Verdicts, Decide(u, b, p, n, verdict)
      PROVE  VersionStep(q, m)
  <2>1. StatusOf(p, n) = "in_review"
    BY <1>4 DEF Decide, Decidable
  <2> QED
    BY <1>0, <1>4, <2>1, DecideEffect
<1>5. ASSUME NEW u \in Users, NEW k \in Keys, NEW b \in Businesses \cup {None},
             NEW p \in Proposals, NEW n \in Numbers, ExecuteCommit(u, k, b, p, n)
      PROVE  VersionStep(q, m)
  <2>1. StatusOf(p, n) = "approved"
    BY <1>5 DEF ExecuteCommit, Committable
  <2> QED
    BY <1>0, <1>5, <2>1, CommitEffect
<1>6. CASE UNCHANGED tables
  BY <1>6 DEF tables, StatusOf, BaseOf
<1> QED
  BY <1>1, <1>2, <1>3, <1>4, <1>5, <1>6, WritingSteps

(* Every step of the tables obeys the domain's status machine.             *)
THEOREM StatusMachineIsFollowed == Spec => FollowsStatusMachine
<1>1. IInv /\ [Next]_vars => [\A p \in Proposals, n \in Numbers : VersionStep(p, n)]_vars
  BY StatusMachineStep
<1> QED
  BY <1>1, Inductive, PTL DEF Spec, FollowsStatusMachine

-----------------------------------------------------------------------------

(* A stale proposal only ever gets new drafts, and they stay as stale.     *)
LEMMA StaleStepHolds ==
  ASSUME StepInv, [Next]_vars, NEW q \in Proposals, Stale(q)
  PROVE  /\ Stale(q)'
         /\ \A m \in Numbers :
              StatusOf(q, m)' \in {"approved", "rejected", "committed"} =>
                StatusOf(q, m)' = StatusOf(q, m)
<1> DEFINE Frozen == \A m \in Numbers :
      StatusOf(q, m)' \in {"approved", "rejected", "committed"} =>
        StatusOf(q, m)' = StatusOf(q, m)
<1> DEFINE c == proposals[q].current
<1>0. /\ TypeOK /\ OnlyCurrentIsOpen /\ KeepsBases
      /\ c \in Numbers /\ proposals[q].business \in Businesses
      /\ BaseOf(q, c) < businesses[proposals[q].business]
      /\ StatusOf(q, c) # "absent"
  <2>1. IInv /\ TypeOK /\ OnlyCurrentIsOpen /\ Owned /\ KeepsBases
    BY BasesAreKept DEF StepInv, IInv
  <2>2. proposals[q] \in ProposalRow /\ Exists(q)
    BY <2>1 DEF TypeOK, Stale
  <2>3. c \in Numbers /\ proposals[q].business \in Businesses
    BY <2>1, <2>2 DEF ProposalRow, Owned, Exists
  <2> QED
    BY <2>1, <2>3 DEF OnlyCurrentIsOpen, Stale
<1> HIDE DEF c
<1>1. ASSUME UNCHANGED <<proposals, businesses>>
      PROVE  Stale(q)'
  BY <1>0, <1>1 DEF Stale, Exists, KeepsBases, c
<1>2. ASSUME NEW h \in Handlers, CreateProposal(h)
      PROVE  Stale(q)' /\ Frozen
  <2>0. PICK p \in Proposals, b \in Businesses : CreationWrites(h, p, b)
    BY <1>0, <1>2, CreateEffect
  <2>1. /\ proposals[p].current = 0
        /\ proposals' = [proposals EXCEPT ![p] = [business |-> b, current |-> 1]]
        /\ SameElsewhere(p, {1})
    BY <2>0 DEF CreationWrites
  <2>2. q # p /\ proposals'[q] = proposals[q] /\ UNCHANGED businesses
    BY <1>0, <1>2, <2>1 DEF TypeOK, CreateProposal, c
  <2>3. BaseOf(q, c)' = BaseOf(q, c) /\ c' = c
    BY <1>0, <2>1, <2>2 DEF SameElsewhere, c
  <2> QED
    BY <1>0, <2>1, <2>2, <2>3 DEF SameElsewhere, Stale, Exists, c
<1>3. ASSUME NEW h \in Handlers, SaveRevision(h)
      PROVE  Stale(q)' /\ Frozen
  <2>0. PICK p \in Proposals, n \in Numbers : RevisionWrites(h, p, n)
    BY <1>0, <1>3, ReviseEffect
  <2>1. /\ n + 1 \in Numbers
        /\ proposals[p].current = n
        /\ proposals' = [proposals EXCEPT ![p] = [proposals[p] EXCEPT !.current = n + 1]]
        /\ SameElsewhere(p, {n, n + 1})
        /\ StatusOf(p, n)' = "superseded"
        /\ StatusOf(p, n + 1)' = "draft" /\ BaseOf(p, n + 1)' = handlers[h].base
        /\ handlers[h] \in ReviseView
        /\ handlers[h].proposal = p /\ handlers[h].number = n
    BY <2>0 DEF RevisionWrites
  <2>2. UNCHANGED businesses /\ BaseOf(p, n) = handlers[h].base
    BY <1>3, <2>1 DEF SaveRevision, StepInv, ViewsAreFaithful
  <2>3. Frozen
    BY <2>1 DEF SameElsewhere
  <2>4. CASE q = p
    <3>1. c = n /\ proposals[p] \in ProposalRow
      BY <1>0, <2>1, <2>4 DEF c, TypeOK
    <3>2. /\ proposals'[q].current = n + 1
          /\ proposals'[q].business = proposals[q].business
      <4>1. proposals'[p] = [proposals[p] EXCEPT !.current = n + 1]
        BY <1>0, <2>1 DEF TypeOK
      <4> QED
        BY <2>4, <3>1, <4>1 DEF ProposalRow
    <3>3. BaseOf(q, n + 1)' = BaseOf(q, c)
      BY <2>1, <2>2, <2>4, <3>1
    <3>4. BaseOf(q, proposals[q].current)' = BaseOf(q, n + 1)'
      BY <3>2 DEF BaseOf
    <3>5. BaseOf(q, proposals[q].current)' < businesses'[proposals'[q].business]
      BY <1>0, <2>2, <3>2, <3>3, <3>4
    <3>6. proposals'[q].current > 0
      BY <2>1, <3>2
    <3> QED
      BY <2>3, <3>5, <3>6 DEF Stale, Exists
  <2>5. CASE q # p
    <3>1. proposals'[q] = proposals[q] /\ BaseOf(q, c)' = BaseOf(q, c) /\ c' = c
      BY <1>0, <2>1, <2>5 DEF TypeOK, SameElsewhere, c
    <3> QED
      BY <1>0, <2>2, <2>3, <3>1 DEF Stale, Exists, c
  <2> QED
    BY <2>4, <2>5
<1>4. ASSUME NEW h \in Handlers, SubmitReview(h)
      PROVE  Stale(q)' /\ Frozen
  <2>1. Frozen
    <3>0. PICK p \in Proposals, n \in Numbers : SubmissionWrites(p, n)
      BY <1>0, <1>4, SubmitEffect
    <3> QED
      BY <3>0 DEF SubmissionWrites, SameElsewhere
  <2> QED
    BY <1>1, <1>4, <2>1 DEF SubmitReview
<1>5. ASSUME NEW u \in Users, NEW b \in Businesses, NEW p \in Proposals, NEW n \in Numbers,
             NEW verdict \in Verdicts, Decide(u, b, p, n, verdict)
      PROVE  Stale(q)' /\ Frozen
  <2>1. p # q
    BY <1>0, <1>5 DEF Decide, Decidable, IsCurrent, TypeOK, c
  <2>2. Frozen
    BY <1>0, <1>5, <2>1, DecideEffect DEF SameElsewhere
  <2> QED
    BY <1>1, <1>5, <2>2 DEF Decide
<1>6. ASSUME NEW u \in Users, NEW k \in Keys, NEW b \in Businesses \cup {None},
             NEW p \in Proposals, NEW n \in Numbers, ExecuteCommit(u, k, b, p, n)
      PROVE  Stale(q)' /\ Frozen
  <2>1. p # q /\ b \in Businesses /\ UNCHANGED proposals
    BY <1>0, <1>6 DEF ExecuteCommit, Committable, IsCurrent, TypeOK, c
  <2>2. Frozen /\ BaseOf(q, c)' = BaseOf(q, c) /\ c' = c
    BY <1>0, <1>6, <2>1, CommitEffect DEF SameElsewhere, c
  <2>3. businesses'[proposals[q].business] \geq businesses[proposals[q].business]
    BY <1>0, <1>6, <2>1 DEF ExecuteCommit, NextVersion, TypeOK
  <2>4. /\ businesses[proposals[q].business] \in Nat
        /\ businesses'[proposals[q].business] \in Nat
        /\ BaseOf(q, c) \in Nat
    BY <1>0, <1>6, <2>1, TypeNext DEF TypeOK, BaseOf, VersionRow
  <2> QED
    BY <1>0, <2>1, <2>2, <2>3, <2>4 DEF Stale, Exists, c
<1>7. CASE UNCHANGED tables
  BY <1>1, <1>7 DEF tables, StatusOf
<1> QED
  BY <1>2, <1>3, <1>4, <1>5, <1>6, <1>7, WritingSteps

(* A proposal the business has overtaken is never decided or committed.    *)
THEOREM StaleIsNeverDecided == Spec => StaleStaysUndecided
<1>1. StepInv /\ [Next]_vars => [\A p \in Proposals : StaleStep(p)]_vars
  BY StaleStepHolds DEF StaleStep
<1> QED
  BY <1>1, StepInvInductive, PTL DEF Spec, StaleStaysUndecided

-----------------------------------------------------------------------------
(* The refinement: approvals map to approvals, executed commits to         *)
(* appends, every other step to a stutter.                                 *)

LEMMA LedgerInit == Init => Ledger!Init
  BY DEF Init, Ledger!Init, LedgerApproved, LedgerEntries

(* The base version under an approval is there to stay.                    *)
LEMMA ApprovedBasesAreKept ==
  ASSUME IInv, [Next]_vars, NEW a \in approvals
  PROVE  BaseOf(a.proposal, a.number)' = BaseOf(a.proposal, a.number)
<1>1. a.proposal \in Proposals /\ a.number \in Numbers
  BY DEF IInv, TypeOK, ApprovalRow
<1>2. StatusOf(a.proposal, a.number) # "absent"
  BY DEF IInv, DecidedOnce
<1> QED
  BY <1>1, <1>2, BasesAreKept DEF KeepsBases

LEMMA ApprovedStutters ==
  ASSUME IInv, [Next]_vars, UNCHANGED approvals
  PROVE  UNCHANGED LedgerApproved
<1>1. \A a \in approvals : BaseOf(a.proposal, a.number)' = BaseOf(a.proposal, a.number)
  BY ApprovedBasesAreKept
<1> QED
  BY <1>1 DEF LedgerApproved

LEMMA DecideRefines ==
  ASSUME IInv, [Next]_vars, NEW u \in Users, NEW b \in Businesses, NEW p \in Proposals,
         NEW n \in Numbers, NEW verdict \in Verdicts, Decide(u, b, p, n, verdict)
  PROVE  [Ledger!Next]_(Ledger!vars)
<1>0. PICK new : new = [business |-> b, proposal |-> p, number |-> n, by |-> u,
                        status |-> verdict]
  OBVIOUS
<1>1. /\ new.business = b /\ new.proposal = p /\ new.number = n /\ new.status = verdict
      /\ approvals' = approvals \cup {new}
      /\ BaseOf(p, n) = businesses[b]
      /\ UNCHANGED <<businesses, committed_decisions>>
  BY <1>0 DEF Decide, Decidable
<1>2. UNCHANGED LedgerEntries
  BY <1>1 DEF LedgerEntries
<1>3. BaseOf(p, n)' = BaseOf(p, n)
  <2>1. TypeOK
    BY DEF IInv
  <2>2. /\ SameElsewhere(p, {n})
        /\ StatusOf(p, n)' = verdict /\ BaseOf(p, n)' = BaseOf(p, n)
    BY <2>1, DecideEffect
  <2> QED
    BY <2>2
<1>4. CASE verdict = "approved"
  <2> DEFINE Mapped(a) == [business |-> a.business, item |-> <<a.proposal, a.number>>,
                           version |-> BaseOf(a.proposal, a.number)]
  <2>1. \A a \in approvals : Mapped(a)' = Mapped(a)
    BY ApprovedBasesAreKept
  <2>2. {a \in approvals' : a.status = "approved"} =
          {a \in approvals : a.status = "approved"} \cup {new}
    BY <1>1, <1>4
  <2>3. Mapped(new)' = [business |-> b, item |-> <<p, n>>, version |-> businesses[b]]
    BY <1>1, <1>3
  <2>4. LedgerApproved = {Mapped(a) : a \in {c \in approvals : c.status = "approved"}}
    BY DEF LedgerApproved
  <2>5. LedgerApproved' = {Mapped(a)' : a \in {c \in approvals' : c.status = "approved"}}
    BY DEF LedgerApproved
  <2>6. LedgerApproved' = LedgerApproved \cup
          {[business |-> b, item |-> <<p, n>>, version |-> businesses[b]]}
    <3> HIDE DEF Mapped
    <3> QED
      BY <2>1, <2>2, <2>3, <2>4, <2>5
  <2>7. Ledger!Approve(b, <<p, n>>)
    BY <1>1, <1>2, <2>6 DEF Ledger!Approve
  <2> QED
    BY <2>7 DEF Ledger!Next
<1>5. CASE verdict = "rejected"
  <2>1. {a \in approvals' : a.status = "approved"} = {a \in approvals : a.status = "approved"}
    BY <1>1, <1>5
  <2>2. UNCHANGED LedgerApproved
    BY <2>1, ApprovedBasesAreKept DEF LedgerApproved
  <2> QED
    BY <1>1, <1>2, <2>2 DEF Ledger!vars
<1> QED
  BY <1>4, <1>5

LEMMA CommitRefines ==
  ASSUME IInv, [Next]_vars, NEW u \in Users, NEW k \in Keys, NEW b \in Businesses \cup {None},
         NEW p \in Proposals, NEW n \in Numbers, ExecuteCommit(u, k, b, p, n)
  PROVE  Ledger!Next
<1>1. /\ b \in Businesses /\ BaseOf(p, n) = businesses[b] /\ StatusOf(p, n) = "approved"
      /\ businesses' = [businesses EXCEPT ![b] = businesses[b] + 1]
      /\ UNCHANGED approvals
  BY DEF ExecuteCommit, Committable, NextVersion
<1>2. UNCHANGED LedgerApproved
  BY <1>1, ApprovedStutters
<1>3. [business |-> b, item |-> <<p, n>>, version |-> businesses[b]] \in LedgerApproved
  <2>1. PICK a \in approvals : /\ a.business = b /\ a.proposal = p /\ a.number = n
                               /\ a.status = "approved"
    BY DEF ExecuteCommit, Committable, HasApproval
  <2> QED
    BY <1>1, <2>1 DEF LedgerApproved
<1>4. PICK new \in DecisionRow :
        /\ new = [key |-> k, business |-> b, proposal |-> p, number |-> n,
                  version |-> businesses[b] + 1]
        /\ committed_decisions' = committed_decisions \cup {new}
  BY CommitRecords DEF IInv
<1>5. LedgerEntries' = LedgerEntries \cup
        {[business |-> b, item |-> <<p, n>>, version |-> businesses[b] + 1]}
  <2>1. /\ new.business = b /\ new.proposal = p /\ new.number = n
        /\ new.version = businesses[b] + 1
    BY <1>4
  <2> QED
    BY <1>4, <2>1 DEF LedgerEntries
<1>6. \A e \in LedgerEntries : e.item # <<p, n>>
  <2>1. \A d \in committed_decisions : ~ (d.proposal = p /\ d.number = n)
    BY <1>1 DEF IInv, DecisionsAreBacked
  <2> QED
    BY <2>1 DEF LedgerEntries
<1>7. Ledger!Append(b, <<p, n>>)
  BY <1>1, <1>2, <1>3, <1>5, <1>6 DEF Ledger!Append
<1> QED
  BY <1>1, <1>7 DEF Ledger!Next

LEMMA LedgerNext == IInv /\ [Next]_vars => [Ledger!Next]_(Ledger!vars)
<1> SUFFICES ASSUME IInv, [Next]_vars PROVE [Ledger!Next]_(Ledger!vars)
  OBVIOUS
<1>1. ASSUME UNCHANGED <<businesses, approvals, committed_decisions>>
      PROVE  UNCHANGED Ledger!vars
  BY <1>1, ApprovedStutters DEF Ledger!vars, LedgerEntries
<1>2. ASSUME NEW h \in Handlers, CreateProposal(h) \/ SaveRevision(h) \/ SubmitReview(h)
      PROVE  UNCHANGED Ledger!vars
  BY <1>1, <1>2 DEF CreateProposal, SaveRevision, SubmitReview
<1>3. CASE UNCHANGED tables
  BY <1>1, <1>3 DEF tables
<1> QED
  BY <1>2, <1>3, WritingSteps, DecideRefines, CommitRefines

(* The workflow implements DecisionLedger.                                 *)
THEOREM WorkflowImplementsLedger == Spec => ImplementsLedger
  BY LedgerInit, LedgerNext, Inductive, PTL DEF Spec, Ledger!Spec, ImplementsLedger

=============================================================================
