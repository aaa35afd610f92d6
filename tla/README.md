# A verification project for webmcp-backend

TLA+ models of the backend in `src/`, the TLC runs that check them, and proofs
that the TLA+ proof system checks. Paths below are relative to `src/`.

## The system

An HTTP server (`internal/httpapi`) calls application services
(`internal/application/*workflow`), which call repositories
(`internal/platform/postgres`) over one PostgreSQL database. Every query runs in
a transaction of its own opened by `WithTenantTx[Result]`: isolation level READ
COMMITTED, row-level security bound to one organization, rollback on any error.
The server keeps little state in memory: the signing keys of the issuer, the
times of guest sessions and chats, and the ready flag. What must be right is what
concurrent and repeated requests do to the tables, and what those few variables
let through while requests, key rotation and shutdown overlap.

| Component | State | Operations | Talks to | Hard behaviour | What makes it correct |
|---|---|---|---|---|---|
| Decision workflow: `proposalworkflow`, `approvalworkflow`, `proposal_repository.go`, `approval_repository.go`, `commit_service.go`, `domain/{proposal,approval,commit}` | `businesses.state_version`, `proposals`, `proposal_versions`, `approvals`, `commit_operations`, `committed_decisions`, `audit_events` | create, revise, submit for review, decide, commit | scenarios (base version); clients that retry | read in one transaction and write in another; stale approvals; retries; idempotency keys | one open version; a submitted version frozen; one decision per version; every commit approved, fresh, unique, and answered truthfully |
| Row locks of those transactions | PostgreSQL's lock table | FOR UPDATE, updates, foreign-key and unique-key checks | - | opposite lock orders, upgrades of shared locks | every transaction ends; which pairs can deadlock |
| Scenario workflow: `scenarioworkflow`, `scenario_repository.go` | `scenarios` | create, simulate, compare | snapshot, goal, proposals | three reads in three transactions; unlocked check of the business version | a simulation is calculated once, from its own base version |
| Simulation and comparison rules: `domain/scenario/simulation.go` | none | `Simulate`, `Compare` | - | budgets that do not parse, ties | recommendation independent of order, never a high risk |
| Goal constraints: `planningworkflow` | `goal_constraints` | upsert per goal and key | simulation | change between simulation and proposal | one value per key |
| Opportunity analysis: `analysisworkflow` | none | `Analyze` | snapshot, goal | - | read-only |
| Advisory agent: `agentworkflow`, `agent_chat_handlers.go` | none | `Chat` | Groq, deterministic provider | provider failures, timeouts, cancellation | every turn ends in time with a true answer; no consequential tool suggested out of stage |
| Authentication: `internal/auth`, `principal_authorizer.go`, `auth_middleware.go` | JWKS key cache | token check, key refresh, role check | JWKS endpoint, `users` | concurrent refreshes, rotation, expiry, a role that changes | withdrawn keys run out; refusals have a cause; nobody is served on a token's word |
| Limits and lifecycle: `server.go`, `middleware.go`, `cmd/server` | per-address windows, ready flag | allow, start, shut down | all of the above | bursts, shutdown in flight | no more than the limit in any window; readiness is honest; pool closed last; a signal ends the process |
| Migrator: `migrator.go`, `cmd/migrate` | `schema_migrations` | apply | PostgreSQL | two jobs at once, crash between migrations | each migration applied once, in order |
| Configuration, seeding, snapshot reading | - | load, seed, read | - | - | - |

`PROJECT.json` lists every component with its status and every hazard with its line.

## What is modelled

### `DecisionWorkflow`

The core: a proposal's way from draft to committed decision. One step is one
database transaction. This is sound for the values the transactions leave
behind because each takes a row lock, or makes a conditional update, before it
relies on what it read, and PostgreSQL evaluates the condition again on the
committed row after a wait. That this is enough is a theorem of its own for the
transactions that lock rows of existing proposals (`DecisionLocks` implements
`DecisionTransactions`, below), as is which waits can end in a deadlock abort.
A transaction that is refused or aborted, and a request
that dies with its process, leave the tables alone.

| Variable | Code |
|---|---|
| `businesses[b]` | `businesses.state_version` |
| `proposals[p]` | `proposals.business_id`, `current_version_number` (0: no such row) |
| `proposal_versions[p][n]` | `base_business_version`, `status` (`absent`: no such row) |
| `approvals`, `commit_operations`, `committed_decisions`, `audit_events` | the tables, without ids, texts and timestamps |
| `handlers[h]` | what a request keeps in memory between its two transactions |
| `answer` | what `commitProposal` reported last |

| Action | Code |
|---|---|
| `ReadScenario`, `CreateProposal` | `proposalworkflow.CreateProposal` with `GetScenario` and `ProposalRepository.CreateProposal` |
| `ReadProposal`, `SaveRevision` | `ReviseProposal` with `GetProposal` and `SaveRevision` |
| `ReadProposal`, `SubmitReview` | `RequestHumanReview` with `GetProposal` and `SubmitReview` |
| `GiveUp` | any error, abort or crash between or in those transactions |
| `Decide` | `approvalworkflow.Decide` with `RecordDecision` |
| `ReplayCommit`, `ConflictCommit`, `ExecuteCommit`, `RejectCommit` | the four outcomes of `CommitService.Commit` |

Arguments of requests are unconstrained: a client may decide or commit any
version at any time, in any order, repeat a request, reuse a key or a request
id. That is also how lost answers, duplicates and late requests come in.

Abstractions, and why they hide nothing the properties tell apart:

* A scenario offers any base version the business has had (`ReadScenario`);
  that it is one is what `ScenarioWorkflow` proves (`ResultsRestOnTheirBase`).
* Roles do not change: no code in `src/` updates `users.role`. `Operators`
  stands for owners and operators, `Guests` for viewers with a guest token,
  whom `requireProposalOperator` lets edit proposals.
* `approvals.expires_at` is left out: `DecisionInput` has no expiry, so no
  approval the code writes has one.
* The statuses `requested` and `failed` of an operation are left out: the row is
  inserted as `requested` and completed in one transaction, and nothing writes
  `failed`.
* The audit event's primary key is derived from action, proposal and request id
  (`appendProposalAudit`), and the model keeps that: an insert that collides
  fails, and the transaction with it. Ids of the other events cannot collide
  and carry no request.
* A lost race on the unique idempotency key ends in a conflict answer
  (`commit_service.go:90`), so `ConflictCommit` is open to every taken key.

`LoadedFields` says which of the fields required by `Proposal.Validate` the
commit transaction loads. As built it is `{}`; see the finding. The values
`{"goal_id", "scenario_id"}` describe the same transaction with those two
columns selected, and exist because the rest of the commit path can only be
examined past that refusal.

### `DecisionLedger`

What the workflow promises with everything else left out: a human approves an
item against the version the business has now; the version advances only by an
item approved against exactly that version, once per item. `DecisionWorkflow`
implements it under the mapping at the end of that module (items are pairs of
proposal and number).

### `ScenarioWorkflow`

The scenarios of one business. Requests here span up to four transactions, and
the last one of a simulation is two steps, because its plain select of the
business version holds no lock under READ COMMITTED: `CheckVersion` and
`PersistSimulation`. Every other transaction makes one statement that matters.

| Variable | Code |
|---|---|
| `state_version` | `businesses.state_version`, moved by `CommitDecision` |
| `goal_constraints[g][k]` | the row of goal `g` and key `k`: value, hard |
| `audit_events` | `goal_constraint_updated` events: goal, key, request id |
| `scenarios[s]` | the row: goal, base version, proposed actions, status, version, result with its risks |
| `handlers[h]` | what `CreateScenario` or `SimulateScenario` holds in memory |
| `comparison` | the latest answer of `CompareScenarios` |

| Action | Code |
|---|---|
| `CommitDecision` | what a commit does to this state: `UPDATE businesses` in `commit_service.go`, past `commit.Validate` |
| `AddConstraint` | `planningworkflow.AddConstraint` with the upsert and its audit event |
| `ReadSnapshot`, `CreateScenario` | `CreateScenario`: snapshot and goal, then the conditional insert |
| `ReadScenario`, `ReadGoal`, `Simulate` | `SimulateScenario`: `GetScenario`; `GetGoal`; `GetSnapshot` with `scenario.Simulate` |
| `CheckVersion`, `PersistSimulation` | `UpdateSimulation` before and from its update on |
| `GiveUp` | any refusal, abort or crash |
| `CompareScenarios` | `CompareScenarios`: one select, then `scenario.Compare` |

Abstractions. A plan stands for a list of proposed actions by the marketing
spend and the margin they come to; the sums are not modelled. No code in `src/`
changes products, orders, metrics or the status of a goal, so a snapshot is told
apart by its version alone and `OpenGoals` is a constant. A negative value stands
for every text that is not a non-negative number; the code treats them alike.
`BudgetKeys` are the keys that fold to "budget". Events of scenarios have ids
that cannot collide and are left out; those of constraints can, and are kept.
The field `looks` of a row and of a request is no column: it collects the
versions the business had when a simulation read the goal and when it looked at
the version before its update, and no action reads it. `MaxVersion` bounds the
commits.

`FieldsLoaded` says whether a commit can pass `commit.Validate`. As built it
cannot (the first finding), and nothing else moves `state_version`; with `FALSE`
the business stays at version 1. What commits do to simulations can only be
examined with `TRUE`, which describes the same code with the two missing columns
selected, as in `DecisionWorkflow`. The theorems hold for both.

### `ScenarioRules`, `ScenarioComparison`

`ScenarioRules` holds the rules both modules share: the hard budget risks, the
order of margins, and `IsBest`, what `Compare` promises. `ScenarioComparison`
is its loop, one candidate per step (`Refuse`, `Skip`, `Consider`, `Finish`),
started on any sequence of candidates with different ids.

### `DecisionLocks`

The inside of the transactions that `DecisionWorkflow` takes as one step: which
row locks a statement takes, in which order, on whom it waits and how the wait
ends. A transaction is a sequence of locks (`Statements`), the conditions a
statement puts on the row before and after the wait (`Where`), what the code
asks of the row it then has (`Check`), and its writes, all at once at the end
(`CommitTx`): nobody sees them earlier.

| Variable | Code |
|---|---|
| `business` | `businesses.state_version` |
| `proposals[p]` | current number, its base version and status |
| `operations[k]` | the committed row of an idempotency key |
| `txs[t]` | where the transaction is, the `expected_business_version` its insert read, how it ended |
| `locks` | PostgreSQL's row locks: holder, row, mode |

| Action | Code |
|---|---|
| `Send` | a request enters `WithTenantTx` |
| `LookupKey`, `InsertOperation`, `DuplicateKey` | `commitTx` up to its insert, and the wait on the unique key |
| `TakeLock`, `NoRow`, `CommitTx` | the statements of `SubmitReview`, `SaveRevision`, `RecordDecision`, `commitTx` |
| `DetectDeadlock`, `LockTimeout`, `ConnectionLost` | PostgreSQL and the timeouts `Open` sets; the deferred `Rollback` of `tenant_tx.go` |
| `Prepare` | a proposal from its creation to its approval by transactions that ran alone |

PostgreSQL's part (the conflict table of KEY SHARE, NO KEY UPDATE and UPDATE, the
foreign-key lock, the entry of the unique index, the deadlock detector) is
external. Rows of users and approvals are left out: they are locked only by who
holds the business row already.

### `DecisionTransactions`

The same transactions with statements and locks left out: each takes effect at
one instant between its request and its answer. One that is done found at that
instant all it asks for (`Allowed`), one that is refused did not, a commit
records the version it replaces, and one that fails has changed nothing. This is
the granularity of `DecisionWorkflow`. `DecisionLocks` implements it when of a
transaction no more than its outcome is seen (`TransactionsAreAtomic`).
`KeysAreHonoured` says what a client may build on; it is here, and not in the
properties of `DecisionWorkflow`, that a key reused for another request must not
be answered as a replay.

### `RequestAuthentication`

A request from its bearer token to its handler. A step is a stretch between two
moments at which others can be seen: the lock of the cache, the answer of the
key endpoint, the membership query.

| Variable | Code |
|---|---|
| `cache` | `JWKSAuthenticator.keys`, `refreshedAt` |
| `published` | which key set the issuer serves (external) |
| `users[u]` | `users.role` of the organization |
| `authorizer` | `deps.Authorizer` there or not, `requireAuthorizer` |
| `requests[r]` | the token, the keys parsed but not yet installed, the principal, the status |
| `clock` | `time.Now()` in ticks |
| `seen`, `published_until`, `faults` | history for the properties, and the bound on faults |

| Action | Code |
|---|---|
| `Begin` | `JWKSAuthenticator.Authenticate` up to the parsed token, or the next of the chain |
| `Lookup`, `LookupAgain` | the two looks of `publicKey` into the cache |
| `EndpointAnswers`, `ReceiveKeys`, `FetchFails`, `InstallKeys` | `refresh`: the answer, its parsing, any error, the write under the lock |
| `Verify` | signature, `validateClaims`, `Principal.Validate` |
| `NoAuthorizer`, `AuthorizePrincipal`, `MembershipUnavailable` | the rest of `authenticated` with `AuthorizePrincipal` |
| `Publish`, `ChangeRole`, `Tick`, `Restart` | the issuer, an administrator, time, a new process |

Abstractions. A token is the fields it carries and whether its signature is good
for the key it names; a key id names one key for ever. The clock moves only while
no request computes: parsing takes no time, waiting for the endpoint does, up to
the timeout of the HTTP client. A restart may come with another wiring. A server
without any authenticator answers 503 at once and is left out.

### `ServerProcess`

The process from the first statement of `main` to its exit, with the goroutine of
`ListenAndServe`, connections, the readiness check and guest sessions.

| Variable | Code |
|---|---|
| `config` | what decides the wiring: database, JWT, guest demo |
| `main` | the statement `main` is at |
| `pool`, `listener`, `ready` | the database pool, the listening socket, `Server.ready` |
| `signal`, `exit` | what the operating system sees |
| `requests[c]` | a connection and the request on it |
| `guest_issues` | `Server.guestIssues` |
| `admitted`, field `late` | history for the properties |

`LoadConfig` ... `ShutdownTimeout` are `main` in its order; `SelectSignal` and
`CloseListener` are the two statements of `Server.Shutdown`. `LoadReady` and
`CheckReadiness` are `readyCheck`; `TakeTime`, `AllowGuestIssue` and
`IssueGuestSession` are `guestSession`, cut where `allowGuestIssue` has read the
clock but not yet locked the mutex. The slice of a client is a set of issues
with their times, numbered so that two of one tick differ; nothing reads its order. `Connect`, `Begin`, `Respond` and
`Disconnect` are `net/http`, external. `Clients` are the addresses `clientIP`
returns. The second limiter, `allowAgentChat`, is the same function with other
numbers and appears in `AgentChat` by its verdict.

`MaxDelay` is how long a goroutine may wait between `time.Now()` and the mutex.
The limit holds over the window less that delay, which is what the code gives: a
late caller's cutoff drops entries an earlier caller should have counted.

### `AgentChat`

One chat turn: `agentChat` with its limiter and the guest's scope (`Receive`),
`Chat`'s two reads (`GetSnapshot`, `GetGoal`), its loop over Groq keys
(`GroqAnswers`, `GroqFails`, `GroqTimesOut`, `GroqAborts`, `NextProvider`) and the
deterministic guide (`GuideAnswers`), each answer passing the gate
(`allowedDescriptors`, `Valid`). `ClientLeaves` cancels the context at any
moment, also in the middle of a call, whose time then counts. `preparing` and
`calling` add up the time spent since the request header, from which the write
timeout counts, in ticks of three seconds: `preparing` what authentication (the
fetch of keys, the membership query) and the body take before `agentChat`, and
the two reads of `Chat`, each at most `MaxWait` (`Wait`); `calling` the calls of
Groq.

A model may answer anything: any tool, any shape of arguments. Messages are the
topics their words mention; arguments are shapes that either keep a contract or
do not (`long_focus` is the focus of more than 1000 characters). History, the
grounding projection and the wording are left out. The repositories read the
goal and the business by the ids they are asked for, so that the comparison of
ids in `Chat` cannot fail. Groq's provider returns an error of its own for every
failed call (`GroqError`), so `Chat` does not see that its context was cancelled.

### `Migrator`

Migration jobs of several releases on one database. `Directory` gives each
release its files; a step is a statement of `ApplyMigrations` or `applyOne`
(`LookForLedger`, `CreateLedger`, `BeginMigration`, `LockLedger`, `ReadLedger`,
`RunSQL`, `RecordMigration`, `CommitMigration`). `Interrupt` ends a job between
any two, and `CommitMigration` may take effect without the job hearing of it.
`runs` is history: how often a migration's SQL took effect. CREATE TABLE IF NOT
EXISTS is outside the advisory lock, and of two sessions that both found no table
one fails. The SQL itself is opaque.

## The runs

| Run | Instance | Shows |
|---|---|---|
| `commit` | `DecisionWorkflow_commit.cfg`: 2 businesses, 3 proposals, 1 operator, 1 viewer, 2 keys, 1 handler, 2 versions per proposal, both fields loaded; 40,830 states | `TypeOK`, `DecidedOnce`, `DecisionsAreBacked`, `VersionsCountDecisions`, `OneDecisionPerKey`, `AnswersAreTrue`, `StaleStaysUndecided`, `ImplementsLedger` |
| `review` | `DecisionWorkflow_review.cfg`: 1 business, 2 proposals, operator and guest, 2 handlers, 2 request ids, 3 versions, both fields loaded; 354,971 states | `OnlyCurrentIsOpen`, `SubmittedIsFrozen`, `OneRevisionPerRequest`, `FollowsStatusMachine` |
| `as_built` | `DecisionWorkflow_asbuilt.cfg`: the smallest instance, as built | `GuardedCommitsGoThrough` is violated |
| `comparison` | `ScenarioComparison.cfg`: every sequence of up to 3 candidates with 3 ids, 3 margins, safe or risky, one of them never simulated; 8,072 states | `RecommendsTheBest` |
| `scenario` | `ScenarioWorkflow.cfg`: 2 scenarios, 2 handlers, an operator and a guest, 2 plans, one budget key with 2 values, hard or soft, 2 business versions, commits that succeed; 493,890 states | `TypeOK`, `ResultsRestOnTheirBase`, `RecommendationStands`, `SimulatedOnce` |
| `seed_budget` | `ScenarioWorkflow_seed.cfg`: the goal of the demo data | `HardBudgetsBecomeRisks` is violated |
| `locks` | `DecisionLocks.cfg`: 3 of 6 transactions (submission, revision, decision, a commit and its retry on one proposal, a commit of another) on 2 proposals in every initial status; both fields loaded; 72,607 states | `TypeOK`, `TransactionsAreAtomic`, `DeadlocksAreKnown`, `EveryTransactionEnds` |
| `authentication` | `RequestAuthentication.cfg`: 2 requests, a token of the old key, one of the new, a guest token; 2 key sets, 4 moments, one fault (a failed fetch, a changed role or a restart); 387,000 states | `TypeOK`, `WithdrawnKeysRunOut`, `ServedWithMembership`, `RefusedForCause`, `RotationIsPickedUp` |
| `process` | `ServerProcess.cfg`: 2 connections of one client, limit 2, window 3, delay 1, 4 moments, every wiring; 505,474 states | `TypeOK`, `CleanExit`, `ReadyAnswersAreTrue`, `AdmissionsAreBounded`, `SignalEndsTheProcess` |
| `chat` | `AgentChat.cfg`: 0 to 3 Groq keys, 6 stages, 6 messages, 3 registries, every suggestion, waits of up to a tick; 717,120 states | `TypeOK`, `SuggestionsAreOpen`, `WarningsAreTrue`, `AnsweredInTime`, `GuideAlwaysAnswers`, `EveryTurnEnds` |
| `migrate` | `Migrator.cfg`: 2 jobs, up to 3 starts each, 4 releases (one extends another, one swapped two migrations, one has an empty file); 82,000 states | `TypeOK`, `LedgerIsTheSchema`, `JobsEnd` |

Why the bounds are enough. Three proposals and two businesses let two approved
proposals of one business race for its version while a third belongs elsewhere;
two keys let a key be replayed, reused for another version, and two keys name
one version. Two handlers are every pair of racing edits; three versions let a
revision of a revision race with a stale submission; two request ids let a retry
repeat an id and a new request use another. Both runs load the two fields, so
that `approved` also becomes `committed` beside revisions and decisions; as built
their requests do the same, except that every commit ends in `RejectCommit`, which
leaves the tables alone. `MaxNumber` is the only bound on a
counter: business versions are bounded by keys and proposals. Two scenarios are
the fewest that can be compared; two handlers let two requests simulate the same
draft; two versions let a commit come between any two steps of a request.
Deadlock checking is off in `comparison`, `chat`, `process`, `locks` and
`migrate`, which end, and in `authentication`, whose clock stops; it is on
elsewhere.

In `locks`, three transactions at a time (`MaxSent`) allow every pair and every
cycle of three; which three is open, and no transaction is sent twice. As built,
every commit that reaches its validation rolls back (the first finding), so the
run loads both fields in order that commits finish; the waits are the same. In
`authentication`, `MaxClock` 3 exceeds the lifetime (2) plus a fetch (1), so keys
expire, come again and run out; one fault (`MaxFaults`) separates the causes of a
refusal; `NewRoles` is the role a change gives. In `process`, the window of three
and the delay of one leave a stretch of two ticks in which a third session would
break the limit, with `MaxClock` long enough for entries to expire. `Environment` is
"development" because that accepts every configuration the others do. In `chat`,
nine seconds are three ticks, thirty are ten; three waits of up to one tick
(`MaxWait`) beside three calls reach both sides of the ten; `ChatLimit` 1 has
both verdicts; three keys are the most the code configures. In `migrate`, `MaxStarts` lets a job
be cut off and come back twice while another one runs.

### Fairness

Safety properties need none. The liveness properties rest on weak fairness of
steps that the code or its timeouts take by themselves, and on nothing else:

* `RequestAuthentication`: each request goes on (`WF(Step(r))`). No request waits
  for another, the HTTP client ends a fetch after five seconds and the query of
  the membership has a statement timeout. Clients, issuer, clock and faults owe
  nothing: `RotationIsPickedUp` speaks of tokens presented again and again.
* `ServerProcess`: `main` goes on (`WF(MainStep)`), which has its own timer for the
  shutdown. A handler or a client may hang for ever; `SignalEndsTheProcess` holds
  all the same.
* `AgentChat`: `WF(ServerStep)`, with the waits bounded by statement timeouts, the
  timeout of the key fetch and the server's read timeout, and the calls by the nine seconds `main` gives the client. That Groq answers is not
  assumed.
* `DecisionLocks`: a transaction that waits for nobody goes on, and the detector
  runs (`WF` of one step or the other: each transaction has finitely many). Lock
  timeouts and lost connections may never come: `EveryTransactionEnds` needs
  neither.
* `Migrator`: `WF(Step(j))`: statements return or fail within the job's minute.
  Weak fairness is enough for the advisory lock because jobs start finitely
  often; PostgreSQL grants locks in the order they are asked for, so that a bound
  on starts is not needed in reality.

Proposals, keys, request ids, handlers and businesses are symmetric: the module
never compares or orders them. Scenario ids are numbers, because the tie of two
margins is broken by comparing them.

### The findings

`commit_service.go:148` builds the `proposal.Proposal` it hands to
`commit.Validate` without `GoalID` and without `Current.ScenarioID`; the query
before it selects neither. `Proposal.Validate` (`domain/proposal/proposal.go:41`
and `:87`) requires both, so every commit that meets the documented guards is
rejected. `commit_test.go` validates a complete aggregate and the transaction has
no test against a database. The counterexample: create, submit, approve, commit.

`docs/M7_DETERMINISTIC_SCENARIO_ENGINE.md:26` says that "hard budget violations
become explicit high-severity risks". The rule knows only keys that fold to
"budget" (`simulation.go:181`), while `cmd/seed-demo/main.go:115` stores the demo
goal's hard budget as `budget_cents`: that budget restrains nothing.

A third sentence waits for the first finding to be repaired.
`docs/M8_SCENARIO_WORKFLOW_API.md:34` promises that simulations are never
persisted "against a newer business version". `UpdateSimulation` looks at the
version (`scenario_repository.go:212`) without a lock, so a commit could come
before its update. As built no commit gets that far (`commit_service.go:160`), so
the sentence is not broken and no run refutes it. Once commits succeed it will not
hold as it stands; what does hold then is `ResultsRestOnTheirBase`: goal, snapshot
and look fell in one version, which the result names. The order is equivalent to
one in which the simulation came first, and proposals made from such a scenario
carry its base version and are never decided (`StaleStaysUndecided`).

Smaller differences between texts and code, which the models resolve in
favour of the code: `docs/M8_SCENARIO_WORKFLOW_API.md:30` and `:35` and
`docs/M9_PROPOSAL_COCREATION.md:28` say that creating,
simulating and all changes of proposals need an owner or operator, while the
repositories also accept viewers holding a guest token, as the deployment guide
expects; and two tests (`planningworkflow/service_test.go:21`,
`agentworkflow/service_test.go:56`) store the budget "8000 cents", which the rule
cannot read and reports as an unknown budget.

## What is proved

For every value of the constants under the named assumptions
(`RolesAssumption`, `BoundsAssumption`, `FieldsAssumption`, `NoneAssumption`,
all of which TLC evaluates), with no bound on businesses, proposals, users, keys
or handlers and for both values of `LoadedFields`:

* `DecisionWorkflowProofs`: `Spec => []P` for `TypeOK`, `OnlyCurrentIsOpen`,
  `DecidedOnce`, `DecisionsAreBacked`, `VersionsCountDecisions`,
  `OneDecisionPerKey`, `AnswersAreTrue`, `SubmittedIsFrozen`,
  `OneRevisionPerRequest`; and, in its second part, the action properties
  `FollowsStatusMachine` and `StaleStaysUndecided`, and `ImplementsLedger`, the
  refinement.

The argument. `IInv` is the conjunction of the first seven; no part is
inductive alone. The last two follow beside it: every writing step adds one audit
event, a submission moves a draft, which has none yet, and a revision's event has
a number and a request that no earlier one has. `OnlyCurrentIsOpen` is what makes a revision or a submission hit
an undecided version, hence `DecidedOnce` and `DecisionsAreBacked`; the latter
says a version with a decision is `committed`, so an `approved` one can be
committed without repeating, which `OneDecisionPerKey` and the append of the
ledger need; `AnswersAreTrue` needs the keys for a replay. Effect lemmas
(`CreateEffect`, `ReviseEffect`, `SubmitEffect`, `DecideEffect`, `CommitEffect`)
say once, version by version, what each writing action does to statuses and
bases; `WritingSteps` reduces `Next` to the five of them. The step properties need
two facts more (`StepInv`): an existing proposal has a business, and the draft a
handler has read to revise still exists with the base the handler remembers
(`ViewsAreFaithful`), because the second transaction writes that remembered base.

* `ScenarioComparisonProofs`: `Spec => []RecommendsTheBest` for candidates and
  lengths without bound. The loop invariant says that `best` is the
  recommendation among the candidates passed; it is kept because margins with
  ties broken by id are a total order.
* `ScenarioWorkflowProofs`: `Spec => []P` for `TypeOK`, `ResultsRestOnTheirBase`
  and `RecommendationStands`, and the action property `SimulatedOnce`, for any
  sets and for commits without end (`MaxVersion` is any number). The invariant
  adds `ViewsAreFaithful`: what a request remembers of a scenario agrees with
  the row, its goal was read no earlier than the scenario's base version, and
  what it has calculated rests on that version, the read of the goal included:
  versions only grow, so a goal read since the base and a snapshot at the base
  saw the same version. `StepKinds`
  reduces `Next` to three things that can happen to rows. That a comparison
  which recommends nothing had no safe item needs the existence of a best one in
  every finite set (`BestExists`): the item with the fewest better ones has
  none, a least number being supplied by well-foundedness.

The assumptions are `SetsAssumption`, `FieldsAssumption`, `MaxVersionAssumption`, `NoneAssumption`,
`CandidatesAssumption` and `MaxCandidatesAssumption`, again evaluated by TLC.

* `RequestAuthenticationProofs`: `TypeOK`, `WithdrawnKeysRunOut`,
  `ServedWithMembership` and `RefusedForCause`, for any key sets, tokens, users,
  times and numbers of requests. The invariant dates every key set: what a
  request carries or the cache holds was published no longer ago than its fetch
  took; it adds that a request knows every role its user has had, and that after
  an undisturbed install the second look finds what was published all the time.
  Every action of a request is first reduced to "one request moves, and perhaps
  installs what it holds", and one lemma keeps the invariant for all of them.
* `DecisionLocksProofs`: `TypeOK`, `OperationsAreTrue`, `DeadlocksAreKnown` and
  `TransactionsAreAtomic`, for any number of proposals, keys and transactions.
  - `OperationsAreTrue` needs that locks exclude each other, that a transaction
    holds what it has passed, and that no update of the business comes between
    the insert's KEY SHARE lock and its commit.
  - `DeadlocksAreKnown` is about cycles of any length: a cycle without a
    submission and with at most one commit would have a transaction whose place
    in the common lock order is highest, and that one waits for nobody.
  - `TransactionsAreAtomic` is the refinement of `DecisionTransactions`. Its
    invariant `SInv` says from which of its locks on a transaction has seen that
    its version is current (`CurrentFrom`) and that it is allowed (`ReadyFrom`),
    and that what it has seen is still so. The heart are `NobodyElseWrites` and
    `NobodyElseCommits`: whoever is about to change what another one has seen
    holds, at its end, a lock that conflicts with one of that other's. For a
    submission this is the version row, which conflicts only because both have
    found the same version to be current; for a revision, a decision and a
    commit it is the proposal, the business or the key. Then a refusal happens
    where the abstract guard is false (`RefusalsAreRight`), and the end of a
    transaction where it is true (`AllowedAtTheEnd`).
  - `KeysHold` (`KeysAreHonoured` of `DecisionTransactions`) follows from the
    refinement alone: a key is good for one commit, a version belongs to one
    key, and what clients were told of a key stays true.
* `MigratorProofs`: `TypeOK` and `LedgerIsTheSchema`, for any jobs and releases.
  Inside the lock a job that is past its look at the ledger knows that its
  version is not there, and everything up to the version it has reached is.
* `ServerProcessProofs`: `TypeOK`, `CleanExit`, `ReadyAnswersAreTrue` and
  `AdmissionsAreBounded`, for any number of connections and clients and any
  limit, window and delay. The invariant says when the flag can be up, that a
  check that is at its ping began before the shutdown, and, for the limiter
  (`Kept`), that what a client's slice has dropped is as old as the window,
  because the handler that dropped it went by a time no later than the clock. So
  every admission of a stretch that a new one joins is still in the slice, and
  still recent for the handler that counts; the length it compares bounds the
  admissions of the stretch.
* `AgentChatProofs`: `TypeOK`, `SuggestionsAreOpen`, `WarningsAreTrue` and
  `AnsweredInTime`, and the action property `GuideAlwaysAnswers`, for any
  registries of tools, timeouts and waits. What has been spent on calls is at
  most one timeout for each call (`Spent`, `Calls`), however the calls ended and
  whenever the client left; so an answer is late only through what came before
  and between them. An answer is one that the steps up to it can give.

These rest on `TimesAssumption`, `DocumentsAssumption`, `MembersAssumption`,
`WorkAssumption`, `FieldsAssumption`, `DirectoryAssumption`,
`LimiterAssumption` and `TimeAssumption`.

Every invariant, action property and refinement that a run checks has a theorem.
Only model-checked are the five liveness properties (`RotationIsPickedUp`,
`SignalEndsTheProcess`, `EveryTurnEnds`, `EveryTransactionEnds`, `JobsEnd`):
they rest on fairness, which the prover does not reach. `KeysAreHonoured` and
`OperationsAreTrue` are proved and belong to no run.

## Plan

*Done*: the decision workflow and its ledger, the scenario workflow and its
rules, the row locks, authentication, the process, the chat and the migrator.

What is left, in order:

1. `CreateProposal` among the transactions of `DecisionLocks`, where it is the
   step `Prepare` today, and from there a refinement that joins
   `DecisionTransactions` to `DecisionWorkflow` action by action.
2. An abstract specification of a simulation: what of its four transactions
   can be taken as one step, given that the look at the version and the update
   cannot.
3. A composition of `ScenarioWorkflow` and `DecisionWorkflow`, so that proposals
   take their base version from scenarios; each now assumes of the other what
   the other one's theorems say.
4. The sums of `Simulate` and of the opportunity analysis against a reference
   definition.

## Not modelled

Tenant isolation is enforced by the database (`000002_force_rls.up.sql`), and the
models stay inside one organization. Token encodings and signatures, the
middleware for CORS, body limits, logging and headers, body decoding, DTOs,
configuration parsing and the seed are conversions or plain input and output,
each within one request. The snapshot's five selects have nothing that changes
beside them. Opportunity analysis reads and keeps nothing; its sums, like those
of `Simulate`, are arithmetic that unit tests reach.
