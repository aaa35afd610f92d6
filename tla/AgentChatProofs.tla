-------------------------- MODULE AgentChatProofs --------------------------
(***************************************************************************)
(* What a turn of the chat answers, for every length of a call, a wait and *)
(* a response, every browser's registry and every message.                 *)
(***************************************************************************)
EXTENDS AgentChat, TLAPS

-----------------------------------------------------------------------------
(* The invariant: how far the turn is bounds the time it has spent, and    *)
(* an answer is one that the steps up to it can give.                      *)

(* Each provider before the i-th took at most its timeout.                 *)
Spent(i) ==
  CASE i = 1 -> 0 [] i = 2 -> ProviderTimeout [] i = 3 -> 2 * ProviderTimeout [] OTHER -> 3 * ProviderTimeout

(* A call that the client's departure has cut off is counted already,      *)
(* although Chat has not yet heard of its end.                             *)
Times ==
  /\ step # "done" => calling <= Spent(IF cancelled /\ AtGroq THEN index + 1 ELSE index)
  /\ response.status = 200 => calling <= Spent(Calls + 1)

Turn ==
  /\ step \in {"received", "snapshot", "goal"} => index = 1
  /\ index <= config.keys + 1
  /\ step # "done" => response = NoAnswer(0)
  /\ response.provider = "groq" => index <= config.keys

IInv == TypeOK /\ Times /\ Turn /\ SuggestionsAreOpen /\ WarningsAreTrue

-----------------------------------------------------------------------------
(* Answers.                                                                *)

LEMMA NoAnswerIsResponse ==
  ASSUME NEW status \in {0, 400, 403, 404, 429, 503}
  PROVE  /\ NoAnswer(status) \in Response /\ NoAnswer(status).suggestion = None
         /\ NoAnswer(status).status # 200 /\ NoAnswer(status).provider # "groq"
BY DEF NoAnswer, Response, Suggestion

LEMMA NoneIsNotValid == ASSUME NEW r PROVE ~ Valid(None, r)
BY DEF Valid, None, allowedDescriptors, stageToolNames

(* What the gate lets through is open at the stage of the request.         *)
LEMMA ValidIsOpen ==
  ASSUME NEW s \in Suggestion, NEW r \in Request, Valid(s, r)
  PROVE  /\ s.name \in Tools \ {"commit_approved_proposal"}
         /\ r.registry # {} => s.name \in r.registry
         /\ s.args \in Contract(s.name)
         /\ s.name = "request_human_review" => r.stage = "review"
         /\ s.name \in {"create_scenario", "run_scenario", "draft_proposal"} => r.stage = "explore"
<1>1. r.stage \in Stages /\ s.name \in stageToolNames(r.stage) /\ (r.registry # {} => s.name \in r.registry)
  BY DEF Valid, allowedDescriptors, Request
<1>2. s.name \in Tools
  BY <1>1 DEF Tools
<1>3. /\ s.name = "request_human_review" => r.stage = "review"
      /\ s.name \in {"create_scenario", "run_scenario", "draft_proposal"} => r.stage = "explore"
  BY <1>1 DEF Stages, stageToolNames
<1> QED
  BY <1>1, <1>2, <1>3 DEF Valid

(* The gate withholds nothing of the guide's but a long focus.             *)
LEMMA GuideIsWithheldForLength ==
  ASSUME request \in Request, GuideSuggestion # None, ~ Valid(GuideSuggestion, request)
  PROVE  request.long /\ "analysis" \in request.topics
<1> DEFINE has(name) == name \in allowedDescriptors(request)
<1>1. ASSUME NEW name \in {"request_human_review", "create_scenario", "get_business_snapshot", "analyze_business"},
             NEW args, has(name), args \in Contract(name)
      PROVE  Valid(Suggest(name, args), request)
  BY <1>1 DEF Valid, Suggest
<1>2. /\ "empty" \in Contract("request_human_review") /\ "alternative" \in Contract("create_scenario")
      /\ "empty" \in Contract("get_business_snapshot") /\ "focus" \in Contract("analyze_business")
  BY DEF Contract
<1>3. request.long \in BOOLEAN
  BY DEF Request
<1> QED
  BY <1>1, <1>2, <1>3 DEF GuideSuggestion

LEMMA GuideSuggests == GuideSuggestion \in Suggestion
<1>1. \A name \in {"request_human_review", "create_scenario", "analyze_business", "get_business_snapshot"} :
        name \in Tools
  BY DEF Tools, Stages, stageToolNames
<1>2. \A name \in Tools, args \in Shapes : Suggest(name, args) \in Suggestion
  BY DEF Suggest, Suggestion
<1>3. None \in Suggestion /\ {"empty", "alternative", "long_focus", "focus"} \subseteq Shapes
  BY DEF Suggestion, Shapes
<1> QED
  BY <1>1, <1>2, <1>3 DEF GuideSuggestion

-----------------------------------------------------------------------------
(* The steps.                                                              *)

(* A step that ends the turn without an answer.                            *)
LEMMA RefusalKeepsInvariant ==
  ASSUME IInv, NEW status \in {400, 403, 404, 429, 503}, End(NoAnswer(status)),
         UNCHANGED <<config, request, index, calling, cancelled>>,
         issues' \in 0..ChatLimit, preparing' \in Nat
  PROVE  IInv'
<1>1. /\ NoAnswer(status) \in Response /\ NoAnswer(status).suggestion = None
      /\ NoAnswer(status).status # 200 /\ NoAnswer(status).provider # "groq"
  BY NoAnswerIsResponse
<1>2. step' = "done" /\ response' = NoAnswer(status)
  BY DEF End
<1>3. TypeOK'
  BY <1>1, <1>2 DEF IInv, TypeOK
<1>4. Times' /\ Turn'
  BY <1>1, <1>2 DEF IInv, Times, Turn
<1>5. SuggestionsAreOpen' /\ WarningsAreTrue'
  BY <1>1, <1>2 DEF SuggestionsAreOpen, WarningsAreTrue
<1> QED
  BY <1>3, <1>4, <1>5 DEF IInv

(* A step on the way to the answer.                                        *)
LEMMA ProgressKeepsInvariant ==
  ASSUME IInv, step # "done", step' # "done", UNCHANGED <<config, request, response>>, TypeOK', Times', Turn'
  PROVE  IInv'
<1>1. response = NoAnswer(0)
  BY DEF IInv, Turn
<1>2. NoAnswer(0).suggestion = None /\ NoAnswer(0).status # 200
  BY NoAnswerIsResponse
<1>3. SuggestionsAreOpen' /\ WarningsAreTrue'
  BY <1>1, <1>2 DEF SuggestionsAreOpen, WarningsAreTrue
<1> QED
  BY <1>3 DEF IInv

LEMMA WaitIsTime == TypeOK /\ Wait => preparing' \in Nat
BY TimeAssumption DEF TypeOK, Wait

LEMMA ReceiveKeepsInvariant ==
  ASSUME IInv, Receive
  PROVE  IInv'
<1>1. UNCHANGED <<config, request, index, calling, cancelled>> /\ step = "received"
  BY DEF Receive
<1>6. preparing' \in Nat
  BY WaitIsTime DEF Receive, IInv
<1>2. issues' \in 0..ChatLimit
  BY TimeAssumption DEF Receive, IInv, TypeOK, allowAgentChat
<1>3. CASE step' = "snapshot" /\ UNCHANGED response
  <2>1. TypeOK' /\ Times' /\ Turn'
    BY <1>1, <1>2, <1>3, <1>6, NoAnswerIsResponse DEF IInv, TypeOK, Times, Turn, AtGroq
  <2> QED
    BY <1>1, <1>3, <2>1, ProgressKeepsInvariant
<1>4. CASE \E status \in {400, 403, 404, 429, 503} : End(NoAnswer(status))
  BY <1>1, <1>2, <1>4, <1>6, RefusalKeepsInvariant
<1>5. (step' = "snapshot" /\ UNCHANGED response) \/ \E status \in {400, 403, 404, 429, 503} : End(NoAnswer(status))
  BY DEF Receive
<1> QED
  BY <1>3, <1>4, <1>5

LEMMA ReadKeepsInvariant ==
  ASSUME IInv, GetSnapshot \/ GetGoal
  PROVE  IInv'
<1>1. /\ UNCHANGED <<config, request, issues, index, calling, cancelled>>
      /\ step \in {"snapshot", "goal"}
  BY DEF GetSnapshot, GetGoal, ReadContext
<1>2. /\ step = "snapshot" => step' \in {"goal", "done"}
      /\ step = "goal" => step' \in {"provider", "done"}
  BY DEF GetSnapshot, GetGoal, ReadContext, End
<1>3. preparing' \in Nat
  BY WaitIsTime DEF GetSnapshot, GetGoal, ReadContext, IInv
<1>4. CASE End(NoAnswer(503))
  <2>1. issues' \in 0..ChatLimit
    BY <1>1 DEF IInv, TypeOK
  <2> QED
    BY <1>1, <1>3, <1>4, <2>1, RefusalKeepsInvariant
<1>5. CASE UNCHANGED response /\ step' # "done"
  <2>1. step' \in {"goal", "provider"} /\ (step' = "goal" => step = "snapshot")
    BY <1>1, <1>2, <1>5
  <2>2. TypeOK'
    BY <1>1, <1>3, <1>5, <2>1 DEF IInv, TypeOK
  <2>3. ~ cancelled
    BY <1>5 DEF GetSnapshot, GetGoal, ReadContext, End
  <2>4. Times' /\ Turn'
    BY <1>1, <1>5, <2>1, <2>3, NoAnswerIsResponse DEF IInv, Times, Turn
  <2> QED
    BY <2>4, <1>1, <1>5, <2>1, <2>2, <2>3, ProgressKeepsInvariant
<1>6. End(NoAnswer(503)) \/ (UNCHANGED response /\ step' # "done")
  BY DEF GetSnapshot, GetGoal, ReadContext
<1> QED
  BY <1>4, <1>5, <1>6

(* Composing the answer of a provider.                                     *)
LEMMA ComposeKeepsInvariant ==
  ASSUME IInv, step = "provider",
         NEW provider \in {"groq", "guide"}, NEW suggestion \in Suggestion, Compose(provider, suggestion),
         provider = "groq" => index <= config.keys,
         provider = "guide" => index = config.keys + 1 /\ suggestion = GuideSuggestion,
         UNCHANGED <<config, request, issues, index, preparing, cancelled>>,
         calling' \in Nat, calling' <= Spent(IF provider = "groq" THEN index + 1 ELSE index)
  PROVE  IInv'
<1> DEFINE kept == IF Valid(suggestion, request) THEN suggestion ELSE None
           withheld == IF suggestion = None \/ Valid(suggestion, request) THEN {} ELSE {"withheld"}
           warnings == ChatWarnings(provider) \cup withheld
<1>1. ChatWarnings(provider) \in SUBSET {"groq_unavailable", "fallback_model"}
  BY DEF ChatWarnings
<1>2. kept \in Suggestion /\ warnings \in SUBSET Warnings
  BY <1>1 DEF Suggestion, Warnings
<1>3. PICK new : new = [status |-> 200, provider |-> provider, suggestion |-> kept, warnings |-> warnings]
  OBVIOUS
<1>4. step' = "done" /\ response' = new
  BY <1>3 DEF Compose, End
<1>5. new \in Response
  BY <1>2, <1>3 DEF Response
<1>6. new.suggestion = kept /\ new.warnings = warnings /\ new.provider = provider
  BY <1>3
<1>7. request \in Request /\ config.keys \in 0..3 /\ index \in 1..4
  BY DEF IInv, TypeOK, Config
<1>8. TypeOK'
  BY <1>4, <1>5 DEF IInv, TypeOK
<1>9. Times' /\ Turn'
  <2>1. (Calls + 1)' = IF provider = "groq" THEN index + 1 ELSE index
    BY <1>4, <1>6, <1>7 DEF Calls
  <2>2. Times'
    BY <1>4, <2>1 DEF Times
  <2>3. Turn'
    BY <1>4, <1>6 DEF IInv, Turn
  <2> QED
    BY <2>2, <2>3
<1>10. SuggestionsAreOpen'
  <2>1. CASE Valid(suggestion, request)
    BY <1>4, <1>6, <1>7, <2>1, ValidIsOpen DEF SuggestionsAreOpen
  <2>2. CASE ~ Valid(suggestion, request)
    BY <1>4, <1>6, <2>2 DEF SuggestionsAreOpen
  <2> QED
    BY <2>1, <2>2
<1>11. WarningsAreTrue'
  <2>1. "withheld" \in warnings /\ provider = "guide" => request.long /\ "analysis" \in request.topics
    <3>1. "withheld" \in warnings => suggestion # None /\ ~ Valid(suggestion, request)
      BY <1>1
    <3> QED
      BY <1>7, <3>1, GuideIsWithheldForLength
  <2>2. "groq_unavailable" \in warnings <=> provider = "guide" /\ index > 1
    <3>1. "groq_unavailable" \in warnings <=> provider = "guide" /\ config.keys > 0
      BY DEF ChatWarnings
    <3> QED
      BY <1>7, <3>1
  <2>3. "fallback_model" \in warnings <=> provider = "groq" /\ index > 1
    BY DEF ChatWarnings
  <2> HIDE DEF warnings, kept
  <2> QED
    BY <1>4, <1>6, <2>1, <2>2, <2>3 DEF WarningsAreTrue
<1> QED
  BY <1>8, <1>9, <1>10, <1>11 DEF IInv

LEMMA SpentGrows ==
  ASSUME NEW i \in 1..3
  PROVE  Spent(i) \in Nat /\ Spent(i) + ProviderTimeout = Spent(i + 1)
BY TimeAssumption DEF Spent

LEMMA GroqAnswersKeepsInvariant ==
  ASSUME IInv, GroqAnswers
  PROVE  IInv'
<1>1. /\ step = "provider" /\ index <= config.keys
      /\ UNCHANGED <<config, request, issues, index, preparing, cancelled>>
  BY DEF GroqAnswers, AtGroq
<1>2. index \in 1..3 /\ calling \in Nat /\ calling <= Spent(index)
  BY <1>1 DEF IInv, TypeOK, Config, Times, GroqAnswers
<1>3. PICK time \in 0..(ProviderTimeout - 1) : calling' = calling + time
  BY DEF GroqAnswers
<1>4. calling' \in Nat /\ calling' <= Spent(index + 1)
  BY <1>2, <1>3, SpentGrows, TimeAssumption
<1>5. PICK suggestion \in Suggestion : Compose("groq", suggestion)
  BY DEF GroqAnswers
<1> QED
  BY <1>1, <1>4, <1>5, ComposeKeepsInvariant

LEMMA GuideAnswersKeepsInvariant ==
  ASSUME IInv, GuideAnswers
  PROVE  IInv'
<1>1. /\ step = "provider" /\ index = config.keys + 1
      /\ UNCHANGED <<config, request, issues, index, preparing, calling, cancelled>>
      /\ Compose("guide", GuideSuggestion)
  BY DEF GuideAnswers
<1>2. calling' \in Nat /\ calling' <= Spent(index)
  <2>1. ~ AtGroq
    BY <1>1 DEF AtGroq, IInv, TypeOK, Config
  <2> QED
    BY <1>1, <2>1 DEF IInv, TypeOK, Times
<1> QED
  BY <1>1, <1>2, GuideSuggests, ComposeKeepsInvariant

(* Every failure of Groq, whatever its cause, passes the turn on, and no   *)
(* more than the timeout has been spent on it: after a departure of the    *)
(* client it is counted already.                                           *)
LEMMA FailurePassesOn ==
  ASSUME GroqFails \/ GroqTimesOut \/ GroqAborts
  PROVE  /\ step = "provider" /\ index <= config.keys /\ index' = index + 1
         /\ UNCHANGED <<config, request, step, issues, preparing, cancelled, response>>
         /\ IF cancelled THEN calling' = calling
            ELSE \E time \in 0..ProviderTimeout : calling' = calling + time
<1>1. /\ step = "provider" /\ index <= config.keys /\ index' = index + 1
      /\ UNCHANGED <<config, request, step, issues, preparing, cancelled, response>>
  BY DEF GroqFails, GroqTimesOut, GroqAborts, AtGroq, NextProvider, GroqError
<1>2. CASE GroqFails
  <2>1. PICK time \in 0..(ProviderTimeout - 1) : calling' = calling + time
    BY <1>2 DEF GroqFails
  <2>2. time \in 0..ProviderTimeout /\ ~ cancelled
    BY <1>2, TimeAssumption DEF GroqFails
  <2> QED
    BY <1>1, <2>1, <2>2
<1>3. CASE GroqTimesOut
  <2>1. calling' = calling + ProviderTimeout /\ ProviderTimeout \in 0..ProviderTimeout /\ ~ cancelled
    BY <1>3, TimeAssumption DEF GroqTimesOut, ClientTimeout
  <2> QED
    BY <1>1, <2>1
<1>4. CASE GroqAborts
  BY <1>1, <1>4 DEF GroqAborts
<1> QED
  BY <1>2, <1>3, <1>4

LEMMA FailureKeepsInvariant ==
  ASSUME IInv, GroqFails \/ GroqTimesOut \/ GroqAborts
  PROVE  IInv'
<1>1. /\ step = "provider" /\ index <= config.keys /\ index' = index + 1
      /\ UNCHANGED <<config, request, step, issues, preparing, cancelled, response>>
  BY FailurePassesOn
<1>2. IF cancelled THEN calling' = calling
      ELSE \E time \in 0..ProviderTimeout : calling' = calling + time
  BY FailurePassesOn
<1>3. index \in 1..3 /\ calling \in Nat /\ cancelled \in BOOLEAN /\ index + 1 \in 1..4
      /\ calling <= Spent(IF cancelled THEN index + 1 ELSE index)
  BY <1>1 DEF IInv, TypeOK, Config, Times, AtGroq
<1>4. calling' \in Nat /\ calling' <= Spent(index + 1)
  BY <1>2, <1>3, SpentGrows, TimeAssumption
<1>5. TypeOK'
  BY <1>1, <1>3, <1>4 DEF IInv, TypeOK
<1>6. Turn'
  BY <1>1, <1>3, NoAnswerIsResponse DEF IInv, TypeOK, Config, Turn
<1>7. Times'
  <2>1. AtGroq' => index + 1 \in 1..3
    BY <1>1, <1>3 DEF AtGroq, IInv, TypeOK, Config
  <2>2. calling' <= Spent(IF cancelled' /\ AtGroq' THEN index' + 1 ELSE index')
    BY <1>1, <1>4, <2>1, SpentGrows, TimeAssumption
  <2>3. response'.status # 200
    BY <1>1, NoAnswerIsResponse DEF IInv, Turn
  <2> QED
    BY <2>2, <2>3 DEF Times
<1> QED
  BY <1>1, <1>5, <1>6, <1>7, ProgressKeepsInvariant

LEMMA ClientLeavesKeepsInvariant ==
  ASSUME IInv, ClientLeaves
  PROVE  IInv'
<1>1. /\ UNCHANGED <<config, request, step, issues, index, preparing, response>>
      /\ step # "done" /\ ~ cancelled /\ cancelled' = TRUE
  BY DEF ClientLeaves
<1>2. calling \in Nat /\ calling <= Spent(index)
  BY <1>1 DEF IInv, TypeOK, Times
<1>3. calling' \in Nat /\ calling' <= Spent(IF AtGroq THEN index + 1 ELSE index)
  <2>1. CASE AtGroq
    <3>1. PICK time \in 0..(ProviderTimeout - 1) : calling' = calling + time
      BY <2>1 DEF ClientLeaves
    <3>2. index \in 1..3
      BY <2>1 DEF AtGroq, IInv, TypeOK, Config
    <3> QED
      BY <1>2, <2>1, <3>1, <3>2, SpentGrows, TimeAssumption
  <2>2. CASE ~ AtGroq
    BY <1>2, <2>2 DEF ClientLeaves
  <2> QED
    BY <2>1, <2>2
<1>4. TypeOK'
  BY <1>1, <1>3 DEF IInv, TypeOK
<1>5. Turn'
  BY <1>1 DEF IInv, Turn
<1>6. Times'
  <2>1. AtGroq' <=> AtGroq
    BY <1>1 DEF AtGroq
  <2>2. response'.status # 200
    BY <1>1, NoAnswerIsResponse DEF IInv, Turn
  <2> QED
    BY <1>1, <1>3, <2>1, <2>2 DEF Times
<1> QED
  BY <1>1, <1>4, <1>5, <1>6, ProgressKeepsInvariant

-----------------------------------------------------------------------------
(* Main theorems.                                                          *)

LEMMA InvariantStarts ==
  ASSUME Init
  PROVE  IInv
<1>1. /\ NoAnswer(0) \in Response /\ NoAnswer(0).suggestion = None
      /\ NoAnswer(0).status # 200 /\ NoAnswer(0).provider # "groq"
  BY NoAnswerIsResponse
<1>2. TypeOK
  <2>2. /\ config \in Config /\ request \in Request /\ issues \in 0..ChatLimit /\ index \in 1..4
        /\ step = "received"
    BY DEF Init
  <2>3. /\ preparing \in Nat /\ calling \in Nat /\ cancelled \in BOOLEAN
        /\ response \in Response
    BY <1>1 DEF Init
  <2> QED
    BY <2>2, <2>3 DEF TypeOK
<1>3. Times /\ Turn
  BY <1>1 DEF Init, Times, Turn, Spent, Config, AtGroq
<1>4. SuggestionsAreOpen /\ WarningsAreTrue
  BY <1>1 DEF Init, SuggestionsAreOpen, WarningsAreTrue
<1> QED
  BY <1>2, <1>3, <1>4 DEF IInv

LEMMA InvariantStays ==
  ASSUME IInv, [Next]_vars
  PROVE  IInv'
<1>1. CASE Next
  BY <1>1, ReceiveKeepsInvariant, ReadKeepsInvariant, GroqAnswersKeepsInvariant, GuideAnswersKeepsInvariant,
     FailureKeepsInvariant, ClientLeavesKeepsInvariant DEF Next, ServerStep
<1>2. CASE UNCHANGED vars
  BY <1>2 DEF vars, IInv, TypeOK, Times, Turn, AtGroq, Calls, SuggestionsAreOpen, WarningsAreTrue
<1> QED
  BY <1>1, <1>2

LEMMA Invariant == Spec => []IInv
  BY InvariantStarts, InvariantStays, PTL DEF Spec

(* Whatever Groq, the database and the client do, the turn's state and its *)
(* answer are well-formed, and the limit of chats is not passed            *)
(* (server.go:149-166, service.go:156-236).                                *)
THEOREM TypesAreCorrect == Spec => []TypeOK
  BY Invariant, PTL DEF IInv

(* For every browser's registry and whatever a model proposes: a           *)
(* suggestion that reaches the client is open at the stage and in the      *)
(* registry, keeps its contract and never commits (service.go:213,         *)
(* validateSuggestion).                                                    *)
THEOREM OnlyOpenSuggestions == Spec => []SuggestionsAreOpen
  BY Invariant, PTL DEF IInv

(* For every message: the warnings of an answer are true of how it came    *)
(* about (deterministic.go:22, service.go:201-220).                        *)
THEOREM WarningsHold == Spec => []WarningsAreTrue
  BY Invariant, PTL DEF IInv

(* For every timeout of a provider, every write timeout and every wait: an *)
(* answer that can no longer be written is one for which the providers     *)
(* were asked too late, and calls that hang or are cut off have cost no    *)
(* more than a timeout each (main.go:91, config.go:66).                    *)
THEOREM AnswersComeInTime == Spec => []AnsweredInTime
<1>1. ASSUME IInv PROVE AnsweredInTime
  <2> SUFFICES ASSUME response.status = 200, preparing + calling > WriteTimeout
               PROVE  preparing > WriteTimeout - Calls * ProviderTimeout
    BY DEF AnsweredInTime
  <2>1. calling <= Spent(Calls + 1) /\ preparing \in Nat /\ calling \in Nat
    BY <1>1 DEF IInv, TypeOK, Times
  <2>2. Calls \in 0..3
    BY <1>1 DEF IInv, Turn, TypeOK, Config, Calls
  <2>3. Spent(Calls + 1) = Calls * ProviderTimeout
    BY <2>2, TimeAssumption DEF Spent
  <2> QED
    BY <2>1, <2>2, <2>3, TimeAssumption
<1> QED
  BY <1>1, Invariant, PTL

(* From the providers a turn leaves only with an answer: no failure of     *)
(* Groq and no departure of the client keeps the guide from its turn       *)
(* (service.go:182, groq.go:111).                                          *)
THEOREM TheGuideAnswers == Spec => GuideAlwaysAnswers
<1>1. ASSUME [Next]_vars
      PROVE  [step = "provider" /\ step' = "done" => response'.status = 200]_vars
  <2> SUFFICES ASSUME step = "provider", step' = "done", Next
               PROVE  response'.status = 200
    BY <1>1 DEF vars
  <2>1. ~ (Receive \/ GetSnapshot \/ GetGoal \/ ClientLeaves)
    BY DEF Receive, GetSnapshot, GetGoal, ReadContext, ClientLeaves
  <2>2. ~ (GroqFails \/ GroqTimesOut \/ GroqAborts)
    BY FailurePassesOn
  <2>3. \E provider, suggestion : Compose(provider, suggestion)
    BY <2>1, <2>2 DEF Next, ServerStep, GroqAnswers, GuideAnswers
  <2> QED
    BY <2>3 DEF Compose, End
<1> QED
  BY <1>1, PTL DEF Spec, GuideAlwaysAnswers

=============================================================================
