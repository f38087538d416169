------------------------------- MODULE AgentLoop -------------------------------
(***************************************************************************)
(* The assistant: the tool-use loop of LLMOrchestrator, the skills that    *)
(* SkillRunner runs, the retries of AIClient.generate and the advice       *)
(* routes, beside the exchange-rate requests of the same process.          *)
(*                                                                         *)
(* The handlers never await while they work, so the event loop serves one  *)
(* request at a time.  The language model and the tools are outside: a     *)
(* model answers anything or fails, a tool's result is complete, partial   *)
(* or an error envelope.                                                   *)
(***************************************************************************)
EXTENDS ExchangeRates, FiniteSets

CONSTANTS Skills,        \* the registry: skill name -> what its file says
          Calls,         \* the lists of skill names a model may call in one response
          MaxIterations  \* MAX_ITERATIONS: rounds of one conversation

ASSUME CallsAssumption == Calls \subseteq Seq(STRING)

ASSUME NothingAssumption == Nothing \notin {"advice", "chat", "handle"}

VARIABLES request,   \* the kind of the request being served, or Nothing
          messages,  \* its conversation, in the canonical format
          pending,   \* the calls of the last response that were not run yet
          results,   \* the answers to the others (the trace repeats all answers)
          skill      \* the skill being run, or Nothing

agentVars == <<request, messages, pending, results, skill>>
-----------------------------------------------------------------------------
Idle == request = Nothing /\ lookup = Nothing

Message(role, calls, answers) == [role |-> role, calls |-> calls, answers |-> answers]

(* generate of a skill or of the chat itself, from the first attempt on. *)
Prompt(name, result, attempts) ==
    [name |-> name, stage |-> "generate", result |-> result, attempt |-> 1, attempts |-> attempts]

(* SkillRunner.run up to its pre_tools. *)
Started(name) ==
    IF Skills[name].tool THEN [Prompt(name, Nothing, MaxRetries) EXCEPT !.stage = "tool"]
    ELSE Prompt(name, Nothing, MaxRetries)

(* GET /api/advice and the modes of POST /api/advice/chat that use a skill. *)
AskAdvice ==
    /\ Idle
    /\ \E name \in {n \in DOMAIN Skills : Skills[n].routed} : skill' = Started(name)
    /\ request' = "advice"
    /\ UNCHANGED <<messages, pending, results, rateVars>>

(* POST /api/advice/chat without a mode: one attempt, and no skill. *)
Chat ==
    /\ Idle
    /\ request' = "chat"
    /\ skill' = Prompt("chat", Nothing, 1)
    /\ UNCHANGED <<messages, pending, results, rateVars>>

(* LLMOrchestrator.handle *)
Handle ==
    /\ Idle
    /\ request' = "handle"
    /\ messages' = <<Message("user", <<>>, <<>>)>>
    /\ UNCHANGED <<pending, results, skill, rateVars>>

(* The request is answered, with a result or an error. *)
Reply ==
    /\ request' = Nothing
    /\ messages' = <<>> /\ pending' = <<>> /\ results' = <<>>
    /\ skill' = Nothing
-----------------------------------------------------------------------------
(* One response of the model to the conversation, which calls skills or    *)
(* ends it.  A failed call to the provider ends the request.               *)

Deciding == request = "handle" /\ skill = Nothing /\ pending = <<>>

Rounds == Cardinality({n \in DOMAIN messages : messages[n].role = "assistant"})

Decide ==
    /\ Deciding /\ Rounds < MaxIterations
    /\ \E names \in Calls \ {<<>>} :
          LET calls == [n \in DOMAIN names |-> [id |-> n, name |-> names[n]]]
          IN  /\ messages' = Append(messages, Message("assistant", calls, <<>>))
              /\ pending' = calls
    /\ UNCHANGED <<request, results, skill, rateVars>>

(* A response without calls, a provider that fails, or max_iterations_reached. *)
Finish == Deciding /\ Reply /\ UNCHANGED rateVars

(* Mutated form: a call that failed is left out of the results. *)
AnswersSuccesses(status) ==
    LET call == Head(pending)
        answers == IF status = "success" THEN Append(results, [id |-> call.id, status |-> status])
                                         ELSE results
    IN  /\ pending' = Tail(pending)
        /\ IF pending' # <<>> THEN results' = answers /\ UNCHANGED messages
           ELSE results' = <<>> /\ messages' = Append(messages, Message("user", <<>>, answers))

(* The call being run ended: its answer joins the others, and the last one  *)
(* closes the round.                                                       *)
AnswerCall(status) ==
    LET call == Head(pending)
        answers == Append(results, [id |-> call.id, status |-> status])
    IN  /\ pending' = Tail(pending)
        /\ IF pending' # <<>> THEN results' = answers /\ UNCHANGED messages
           ELSE results' = <<>> /\ messages' = Append(messages, Message("user", <<>>, answers))

(* SkillRunner.run returned or raised. *)
Concluded(status) ==
    IF request = "handle" THEN AnswerCall(status) /\ skill' = Nothing /\ UNCHANGED request
    ELSE Reply

(* A skill that is not registered, or misses a required field, is an error. *)
RunCall ==
    /\ request = "handle" /\ skill = Nothing /\ pending # <<>>
    /\ LET name == Head(pending).name
       IN  \/ name \in DOMAIN Skills /\ skill' = Started(name)
              /\ UNCHANGED <<request, messages, pending, results>>
           \/ name \notin DOMAIN Skills /\ Concluded("error")
           \/ name \in DOMAIN Skills /\ Skills[name].required /\ Concluded("error")
    /\ UNCHANGED rateVars
-----------------------------------------------------------------------------
(* SkillRunner.run, its pre-tool.                                          *)

(* A tool that raises anything else than a ToolExecutionError. *)
ToolRaises ==
    /\ skill # Nothing /\ skill.stage = "tool"
    /\ Concluded("error")
    /\ UNCHANGED rateVars

(* The tool's envelope, or none when the step's condition is false.  A      *)
(* complete result may be the answer already; a prompt that prints a       *)
(* result the tool did not return cannot be rendered.                      *)
ToolReturns ==
    /\ skill # Nothing /\ skill.stage = "tool"
    /\ \E result \in {"complete", "partial", "failed"} \cup (IF Skills[skill.name].when THEN {Nothing} ELSE {}) :
          LET spec == Skills[skill.name]
          IN  CASE spec.shortCircuit /\ result = "complete" -> Concluded("success")
                [] spec.printed /\ result = "failed" -> Concluded("error")
                [] OTHER -> /\ skill' = Prompt(skill.name, result, MaxRetries)
                            /\ UNCHANGED <<request, messages, pending, results>>
    /\ UNCHANGED rateVars
-----------------------------------------------------------------------------
(* AIClient.generate and what SkillRunner makes of it.                     *)

Generating == skill # Nothing /\ skill.stage = "generate"

(* _handle_ai_failure: on_failure_var names the pre-tool's result. *)
HasFallback ==
    /\ skill.name \in DOMAIN Skills /\ Skills[skill.name].onFailure
    /\ skill.result \in {"complete", "partial"}

(* The content parses, or is the chat's text; or it does not parse. *)
Generated ==
    /\ Generating
    /\ \/ Concluded("success")
       \/ Concluded(IF HasFallback \/ skill.name = "chat" THEN "success" ELSE "error")
    /\ UNCHANGED rateVars

(* The provider cannot be reached or times out, which may be tried again. *)
AttemptFails ==
    /\ Generating
    /\ IF skill.attempt < skill.attempts
       THEN /\ skill' = [skill EXCEPT !.attempt = @ + 1]
            /\ UNCHANGED <<request, messages, pending, results>>
       ELSE Concluded(IF HasFallback THEN "success" ELSE "error")
    /\ UNCHANGED rateVars

(* The token budget, an unsupported provider or an unreadable response. *)
GenerateFails ==
    /\ Generating
    /\ Concluded(IF HasFallback THEN "success" ELSE "error")
    /\ UNCHANGED rateVars
-----------------------------------------------------------------------------
Init ==
    /\ RatesInit
    /\ request = Nothing /\ messages = <<>> /\ pending = <<>> /\ results = <<>>
    /\ skill = Nothing

Agent == Decide \/ Finish \/ RunCall \/ ToolRaises \/ ToolReturns \/ Generated \/ AttemptFails \/ GenerateFails

Serving == Agent \/ (Lookup /\ UNCHANGED agentVars)

Next ==
    \/ AskAdvice \/ Chat \/ Handle
    \/ Idle /\ (Refresh \/ Rerate \/ SyncPositions) /\ UNCHANGED agentVars
    \/ Serving

vars == <<rateVars, agentVars>>

(* Every step of a handler is synchronous code or a call with a timeout. *)
Spec == Init /\ [][Next]_vars /\ WF_vars(Serving)
-----------------------------------------------------------------------------
Matches(answers, calls) ==
    Len(answers) = Len(calls) /\ \A k \in DOMAIN calls : answers[k].id = calls[k].id

(* Every call of the model is answered once and in the order of the calls,  *)
(* in the message right after them, before the model is asked again, also  *)
(* when a skill is unknown, raises or falls back.                          *)
EveryCallAnswered ==
    /\ \A n \in DOMAIN messages : messages[n].calls # <<>> =>
          IF n < Len(messages) THEN Matches(messages[n + 1].answers, messages[n].calls)
          ELSE pending # <<>> /\ Matches(results \o pending, messages[n].calls)
    /\ Deciding => messages[Len(messages)].role = "user"

(* Every request is answered: no round, retry or fallback goes on for ever. *)
RequestsEnd == ~Idle ~> Idle
=============================================================================
