----------------------------- MODULE AgentChat -----------------------------
(***************************************************************************)
(* One turn of the advisory chat: the handler, the service that grounds    *)
(* the turn, and its chain of providers, Groq keys first and the           *)
(* deterministic guide last.                                               *)
(*                                                                         *)
(* The database and Groq are external: a read or a model call answers,     *)
(* fails or runs into its timeout, and the client may leave at any moment, *)
(* which cancels the context of the turn.  What a model proposes is        *)
(* arbitrary.  Texts are left out: a message is what its words mention,    *)
(* the arguments of a suggestion are the shape they have.                  *)
(***************************************************************************)
EXTENDS Integers

CONSTANTS
  Messages,         \* sets of Topics a message mentions
  Registries,       \* tools a browser may report, {} when it reports none
  ChatLimit,        \* chats per client and minute: 30
  ProviderTimeout,  \* of one call to Groq: 9 seconds
  MaxWait,          \* bound: longest of the waits before the providers
  WriteTimeout      \* of the response: 30 seconds

ASSUME TimeAssumption ==
  ChatLimit \in Nat /\ ProviderTimeout \in Nat \ {0} /\ MaxWait \in Nat /\ WriteTimeout \in Nat

VARIABLES
  config,     \* how main wired the chat
  request,    \* the principal and the body
  step,       \* where the turn is
  issues,     \* chats of this client in the last minute
  index,      \* the provider whose turn it is
  preparing,  \* history: time from the header of the request to the providers
  calling,    \* history: time spent in providers
  cancelled,  \* the context of the request is done
  response

vars == <<config, request, step, issues, index, preparing, calling, cancelled, response>>

-----------------------------------------------------------------------------
(* Stages, tools and their contracts.                                      *)

Stages == {"orient", "investigate", "explore", "collaborate", "review", "approved"}

stageToolNames(stage) ==
  {"get_business_snapshot"} \cup
  CASE stage = "investigate" -> {"analyze_business"}
    [] stage = "explore" -> {"analyze_business", "create_scenario", "run_scenario",
                             "compare_scenarios", "draft_proposal"}
    [] stage = "collaborate" -> {"revise_proposal"}
    [] stage = "review" -> {"request_human_review"}
    [] stage = "approved" -> {"commit_approved_proposal", "verify_committed_result"}
    [] OTHER -> {}

Tools == UNION {stageToolNames(stage) : stage \in Stages}

(* Shapes of arguments: nothing, or the fields of one contract within      *)
(* their bounds; a long focus has more than 1000 characters.               *)
Shapes == {"empty", "focus", "long_focus", "scenario_id", "scenario_ids", "alternative", "draft", "feedback"}

Contract(name) ==
  CASE name \in {"get_business_snapshot", "request_human_review", "verify_committed_result"} -> {"empty"}
    [] name = "analyze_business" -> {"focus"}
    [] name = "run_scenario" -> {"scenario_id"}
    [] name = "compare_scenarios" -> {"scenario_ids"}
    [] name = "create_scenario" -> {"alternative"}
    [] name = "draft_proposal" -> {"draft"}
    [] name = "revise_proposal" -> {"feedback"}
    [] OTHER -> Shapes

None == [name |-> "none", args |-> "empty"]
Suggestion == [name : Tools \cup {"invented"}, args : Shapes] \cup {None}
Suggest(name, args) == [name |-> name, args |-> args]

(* Mutant: the registry of the browser is not asked.                       *)
allowedDescriptorsMutant(r) == stageToolNames(r.stage)

allowedDescriptors(r) ==
  {name \in stageToolNames(r.stage) : r.registry # {} => name \in r.registry}

(* validateSuggestion.                                                     *)
Valid(suggestion, r) ==
  /\ suggestion.name # "commit_approved_proposal"
  /\ suggestion.name \in allowedDescriptors(r)
  /\ suggestion.args \in Contract(suggestion.name)

-----------------------------------------------------------------------------
Topics == {"commit", "review", "scenario", "analysis"}

(* form: whether the body decodes, and whether it respects the bounds of   *)
(* validateInput.  target: the business and goal of the guest demo, or     *)
(* something else the principal's organization does not have.              *)
Request == [guest : BOOLEAN, target : {"own", "other"}, form : {"malformed", "invalid", "valid"},
            stage : Stages, registry : Registries, topics : Messages, long : BOOLEAN]

Config == [enabled : BOOLEAN, wired : BOOLEAN, keys : 0..3]

Warnings == {"groq_unavailable", "fallback_model", "withheld"}

Response == [status : {0, 200, 400, 403, 404, 429, 503}, provider : {"none", "groq", "guide"},
             suggestion : Suggestion, warnings : SUBSET Warnings]

NoAnswer(status) == [status |-> status, provider |-> "none", suggestion |-> None, warnings |-> {}]

TypeOK ==
  /\ config \in Config
  /\ request \in Request
  /\ step \in {"received", "snapshot", "goal", "provider", "done"}
  /\ issues \in 0..ChatLimit
  /\ index \in 1..4
  /\ preparing \in Nat /\ calling \in Nat
  /\ cancelled \in BOOLEAN
  /\ response \in Response

Init ==
  /\ config \in Config
  /\ request \in Request
  /\ step = "received"
  /\ issues \in 0..ChatLimit
  /\ index = 1 /\ preparing = 0 /\ calling = 0
  /\ cancelled = FALSE
  /\ response = NoAnswer(0)

End(answer) == step' = "done" /\ response' = answer

-----------------------------------------------------------------------------
(* The handler and the service up to the providers.                        *)

(* Mutant: off by one.                                                     *)
allowAgentChatMutant == issues <= ChatLimit

allowAgentChat == issues < ChatLimit

(* One of the waits that the write timeout covers beside the providers.    *)
Wait == \E time \in 0..MaxWait : preparing' = preparing + time

(* agentChat until its call of Chat, and validateInput.  Before it, but    *)
(* after the header from which the write timeout counts, the request was   *)
(* authenticated (RequestAuthentication), which may fetch keys and asks    *)
(* the database; then its body is read and decoded.                        *)
Receive ==
  /\ step = "received"
  /\ \/ ~config.enabled /\ End(NoAnswer(404)) /\ UNCHANGED issues
     \/ config.enabled /\ ~config.wired /\ End(NoAnswer(503)) /\ UNCHANGED issues
     \/ config.enabled /\ config.wired /\ ~allowAgentChat /\ End(NoAnswer(429)) /\ UNCHANGED issues
     \/ /\ config.enabled /\ config.wired /\ allowAgentChat
        /\ issues' = issues + 1
        /\ \/ request.form = "malformed" /\ End(NoAnswer(400))
           \/ request.form # "malformed" /\ request.guest /\ request.target = "other" /\ End(NoAnswer(403))
           \/ /\ request.form # "malformed" /\ (request.guest => request.target = "own")
              /\ IF request.form = "invalid" THEN End(NoAnswer(400))
                 ELSE step' = "snapshot" /\ UNCHANGED response
  /\ Wait
  /\ UNCHANGED <<config, request, index, calling, cancelled>>

(* A read returns within the statement timeouts; what is not there, or a   *)
(* cancelled context, is an error like any other.  The repositories read   *)
(* by id, so the ids they return match.                                    *)
ReadContext(here, next) ==
  /\ step = here
  /\ \/ ~cancelled /\ request.target = "own" /\ step' = next /\ UNCHANGED response
     \/ End(NoAnswer(503))
  /\ Wait
  /\ UNCHANGED <<config, request, issues, index, calling, cancelled>>

GetSnapshot == ReadContext("snapshot", "goal")
GetGoal == ReadContext("goal", "provider")

-----------------------------------------------------------------------------
(* The providers.                                                          *)

ChatWarnings(provider) ==
  IF provider = "guide" /\ config.keys > 0 THEN {"groq_unavailable"}
  ELSE IF provider = "groq" /\ index > 1 THEN {"fallback_model"} ELSE {}

(* The rest of Chat once a provider has answered.                          *)
Compose(provider, suggestion) ==
  End([status |-> 200, provider |-> provider,
       suggestion |-> IF Valid(suggestion, request) THEN suggestion ELSE None,
       warnings |-> ChatWarnings(provider) \cup
                    (IF suggestion = None \/ Valid(suggestion, request) THEN {} ELSE {"withheld"})])

AtGroq == step = "provider" /\ index <= config.keys

GroqAnswers ==
  /\ AtGroq /\ ~cancelled
  /\ \E time \in 0..(ProviderTimeout - 1) : calling' = calling + time
  /\ \E suggestion \in Suggestion : Compose("groq", suggestion)
  /\ UNCHANGED <<config, request, issues, index, preparing, cancelled>>

(* Mutant: the error of the HTTP client is wrapped, and its own timeout is *)
(* then a deadline to errors.Is.                                           *)
GroqErrorMutant == "deadline"

(* Generate hides why the HTTP client gave up: Chat cannot tell a timeout  *)
(* or a cancellation from any other failure.                               *)
GroqError == "failed"

(* Chat's loop after an error.                                             *)
NextProvider ==
  /\ IF GroqError \in {"canceled", "deadline"}
     THEN End(NoAnswer(503)) /\ UNCHANGED index
     ELSE index' = index + 1 /\ UNCHANGED <<step, response>>
  /\ UNCHANGED <<config, request, issues, preparing, cancelled>>

(* A status that is not 2xx, or a body that is no structured answer.       *)
GroqFails ==
  /\ AtGroq /\ ~cancelled
  /\ \E time \in 0..(ProviderTimeout - 1) : calling' = calling + time
  /\ NextProvider

(* Mutant: the default of NewGroqProviderWithClient in the place of main's *)
(* nine seconds.                                                           *)
ClientTimeoutMutant == ProviderTimeout + 1

ClientTimeout == ProviderTimeout

(* Mutant: an HTTP client without a timeout.                               *)
GroqTimesOutMutant == FALSE /\ UNCHANGED vars

GroqTimesOut ==
  /\ AtGroq /\ ~cancelled
  /\ calling' = calling + ClientTimeout
  /\ NextProvider

(* The client's context has ended the call, or keeps it from being made.   *)
GroqAborts ==
  /\ AtGroq /\ cancelled
  /\ UNCHANGED calling
  /\ NextProvider

(* Mutant: the guide goes by the word "review" alone.                      *)
GuideSuggestionMutant ==
  IF "commit" \in request.topics THEN None
  ELSE IF "review" \in request.topics THEN Suggest("request_human_review", "empty")
  ELSE Suggest("get_business_snapshot", "empty")

(* DeterministicProvider.Generate; the whole message becomes the focus.    *)
GuideSuggestion ==
  LET has(name) == name \in allowedDescriptors(request)
      mentions(topic) == topic \in request.topics
  IN  IF mentions("commit") THEN None
      ELSE IF mentions("review") /\ has("request_human_review") THEN Suggest("request_human_review", "empty")
      ELSE IF mentions("scenario") /\ has("create_scenario") THEN Suggest("create_scenario", "alternative")
      ELSE IF mentions("analysis") /\ has("analyze_business")
           THEN Suggest("analyze_business", IF request.long THEN "long_focus" ELSE "focus")
      ELSE IF has("get_business_snapshot") THEN Suggest("get_business_snapshot", "empty")
      ELSE None

(* The guide looks at no context and takes no time.                        *)
GuideAnswers ==
  /\ step = "provider" /\ index = config.keys + 1
  /\ Compose("guide", GuideSuggestion)
  /\ UNCHANGED <<config, request, issues, index, preparing, calling, cancelled>>

(* The call that is under way, if there is one, has taken some time.       *)
ClientLeaves ==
  /\ step \notin {"received", "done"} /\ ~cancelled
  /\ cancelled' = TRUE
  /\ IF AtGroq THEN \E time \in 0..(ProviderTimeout - 1) : calling' = calling + time
     ELSE UNCHANGED calling
  /\ UNCHANGED <<config, request, step, issues, index, preparing, response>>

(* What the server does without anybody's help.                            *)
ServerStep ==
  Receive \/ GetSnapshot \/ GetGoal \/ GroqTimesOut \/ GroqAborts \/ GuideAnswers

Next == ServerStep \/ GroqAnswers \/ GroqFails \/ ClientLeaves

(* Groq owes nobody an answer; the database and the HTTP client have       *)
(* timeouts.                                                               *)
Spec == Init /\ [][Next]_vars /\ WF_vars(ServerStep)

-----------------------------------------------------------------------------
(* Once its context is read, a turn is answered, whatever the models do    *)
(* and even if the client has left: no failure of Groq, its timeouts       *)
(* included, keeps the deterministic guide from its turn (service.go:182,  *)
(* groq.go:111; API_CONTRACT.md:41).                                       *)
GuideAlwaysAnswers ==
  [][step = "provider" /\ step' = "done" => response'.status = 200]_vars

(* Nothing a model proposes reaches the client unless the stage and the    *)
(* browser's registry have it and its arguments keep its contract; a       *)
(* commit never does, and a human gate only where a review is due          *)
(* (service.go:213, validateSuggestion).                                   *)
SuggestionsAreOpen ==
  LET s == response.suggestion IN
  s # None =>
    /\ s.name \in Tools \ {"commit_approved_proposal"}
    /\ request.registry # {} => s.name \in request.registry
    /\ s.args \in Contract(s.name)
    /\ s.name = "request_human_review" => request.stage = "review"
    /\ s.name \in {"create_scenario", "run_scenario", "draft_proposal"} => request.stage = "explore"

(* The warnings are true.  A suggestion of the guide passes the gate, so   *)
(* that one is withheld only when a message of more than 1000 characters,  *)
(* which validateInput accepts, was to become the focus of an analysis;    *)
(* Groq is called unavailable only after every configured key has had its  *)
(* turn, and a fallback is named exactly when the primary had failed       *)
(* (deterministic.go:22, service.go:201-220).                              *)
WarningsAreTrue ==
  LET warned(w) == w \in response.warnings IN
  response.status = 200 =>
    /\ warned("withheld") /\ response.provider = "guide" => request.long /\ "analysis" \in request.topics
    /\ warned("groq_unavailable") <=> response.provider = "guide" /\ index > 1
    /\ warned("fallback_model") <=> response.provider = "groq" /\ index > 1

(* The calls of Groq made for an answer, the one that gave it included.    *)
Calls == IF response.provider = "groq" THEN index ELSE index - 1

(* An answer comes too late to be written only if the request had spent    *)
(* more on authentication, its body and the two reads than the write       *)
(* timeout leaves beside the calls that were made: twenty-one seconds with *)
(* one key, twelve with two, three with three.  Neither keys that hang one *)
(* after the other nor a client that leaves in a call add more than one    *)
(* timeout for each key (main.go:91, config.go:66).                        *)
AnsweredInTime ==
  response.status = 200 /\ preparing + calling > WriteTimeout =>
    preparing > WriteTimeout - Calls * ProviderTimeout

(* Every turn ends, with Groq silent for ever.                             *)
EveryTurnEnds == <>(step = "done")

=============================================================================
