---------------------------- MODULE Conversation ----------------------------
(***************************************************************************)
(* An episode together with the adapter that talks to the model: what      *)
(* agents/openai_adapter.py and agents/anthropic_adapter.py do between the *)
(* loop's next_turn and the provider's HTTP API.  A provider may fail to   *)
(* answer, refuse an option of the request that the adapter can do         *)
(* without, refuse the request or the credentials, or answer nonsense; the *)
(* exception that leaves next_turn decides whether the episode counts as   *)
(* a model outcome.                                                        *)
(***************************************************************************)
EXTENDS Episode

CONSTANTS
    MaxRetries,        \* max_retries
    Options            \* request options an adapter can drop: max_tokens and
                       \* reasoning_effort, or fallbacks and adaptive thinking

ASSUME ConversationAssumption == MaxRetries \in Nat

VARIABLES
    provider,          \* "openai" or "anthropic"
    refuses,           \* options this provider's server answers with a 400
    sends,             \* options the adapter still sends
    net,               \* "idle", or "sent" while _create waits for an answer
    retries,           \* attempt: resends of this request after a failure
    resent,            \* Anthropic: this request was resent with an option less
    open,              \* tool calls of the transcript without a result
    cause              \* what made next_turn raise, or "none"

wireVars == <<provider, refuses, sends, net, retries, resent, open, cause>>
convVars == <<vars, wireVars>>

Causes == {"outage", "credentials", "option", "request", "malformed"}

WireTypeOK ==
    /\ provider \in {"openai", "anthropic"}
    /\ refuses \subseteq Options /\ sends \subseteq Options
    /\ net \in {"idle", "sent"}
    /\ retries \in 0 .. MaxRetries /\ resent \in BOOLEAN
    /\ open \in Nat
    /\ cause \in Causes \cup {"none"}

ConvInit ==
    /\ Init
    /\ provider \in {"openai", "anthropic"}
    /\ refuses \in SUBSET Options      \* one that is not configured is never refused
    /\ sends = Options
    /\ net = "idle" /\ retries = 0 /\ resent = FALSE
    /\ open = 0 /\ cause = "none"
-----------------------------------------------------------------------------
(* The exception next_turn raises, and what the loop makes of it.          *)

\* The OpenAI adapter has no SDK: what it cannot send or read is a
\* RuntimeError or a KeyError; the Anthropic SDK raises its own classes.
Exception(why) ==
    IF provider = "openai"
    THEN IF why = "malformed" THEN "KeyError" ELSE "RuntimeError"
    ELSE CASE why = "outage" -> "APIConnectionError"
           [] why = "credentials" -> "AuthenticationError"
           [] OTHER -> "BadRequestError"

\* Mutation: every error of the SDK counts as infrastructure.
LooksLikeAnyApiError(exc) ==
    exc \in {"APIConnectionError", "AuthenticationError", "BadRequestError"}

LooksLikeInfraError(exc) == exc \in {"APIConnectionError", "AuthenticationError"}

NextTurnRaises(why) ==
    /\ Raised(LooksLikeInfraError(Exception(why)))
    /\ cause' = why
    /\ net' = "idle"
    /\ UNCHANGED <<serviceDead, loopVars, runtimeVars, outputVars>>
-----------------------------------------------------------------------------
(* _create.                                                                *)

Waiting == pc = "turn" /\ net = "sent"
Refused == sends \cap refuses

\* The request of a turn is sent, or sent again.
Post ==
    /\ pc = "turn" /\ net = "idle"
    /\ net' = "sent"
    /\ UNCHANGED <<vars, provider, refuses, sends, retries, resent, open, cause>>

\* A turn: its tool calls are in the transcript from now on.
Answered ==
    /\ Waiting /\ Refused = {}
    /\ EmptyTurn \/ ToolTurn
    /\ open' = calls'
    /\ net' = "idle" /\ retries' = 0 /\ resent' = FALSE
    /\ UNCHANGED <<provider, refuses, sends, cause>>

\* Connection errors, timeouts, 429 and 5xx: the OpenAI adapter sends again
\* max_retries times, the Anthropic SDK does so before it raises.
Outage ==
    /\ Waiting
    /\ \/ /\ provider = "openai" /\ retries < MaxRetries
          /\ retries' = retries + 1 /\ net' = "idle"
          /\ UNCHANGED <<vars, cause>>
       \/ /\ provider = "openai" => retries = MaxRetries
          /\ NextTurnRaises("outage")
          /\ UNCHANGED retries
    /\ UNCHANGED <<provider, refuses, sends, resent, open>>

\* Mutation: the option the server refused is not remembered.
KeepsSending(o) == UNCHANGED sends
DropsOption(o) == sends' = sends \ {o}

\* A 400 that names an option: the adapter drops it for good and sends again,
\* OpenAI's as often as it takes (no retry is counted), Anthropic's once for
\* each call of next_turn.
OptionRefused ==
    /\ Waiting
    /\ \E o \in Refused :
         \/ /\ provider = "openai" \/ ~resent
            /\ DropsOption(o)
            /\ resent' = (provider = "anthropic") /\ net' = "idle"
            /\ UNCHANGED <<vars, cause>>
         \/ /\ provider = "anthropic" /\ resent
            /\ NextTurnRaises("option")
            /\ UNCHANGED <<sends, resent>>
    /\ UNCHANGED <<provider, refuses, retries, open>>

\* No credentials, a request that is refused for another reason, or (without
\* an SDK in between) an answer that is no chat completion.
RequestFails ==
    /\ Waiting
    /\ \E why \in {"credentials", "request", "malformed"} :
         /\ why = "malformed" => provider = "openai"
         /\ NextTurnRaises(why)
    /\ UNCHANGED <<provider, refuses, sends, retries, resent, open>>
-----------------------------------------------------------------------------
(* The rest of the loop.                                                   *)

\* observe answers the calls of the turn that were executed.
Observed == Observe /\ open' = calls /\ UNCHANGED <<net, cause>>

\* The loop raises somewhere else than in next_turn.
LoopRaises == pc # "turn" /\ HarnessRaises /\ UNCHANGED <<net, open, cause>>

\* A step of the episode that is none of the adapter's.
Elsewhere ==
    /\ \/ Prepare \/ StartListening \/ StartFails \/ AgentStart \/ Nudge
       \/ Call \/ CallUnrecorded \/ CallUnwritten
       \/ Verify \/ StopLive \/ WriteEnd \/ WriteResult \/ DestroyWorld
    /\ UNCHANGED <<net, open, cause>>

ConvRun ==
    \/ Post \/ Answered \/ Outage \/ OptionRefused \/ RequestFails
    \/ (Observed \/ LoopRaises \/ Elsewhere)
       /\ UNCHANGED <<provider, refuses, sends, retries, resent>>

ConvNext == ConvRun \/ (Signal /\ UNCHANGED wireVars)

\* As in Episode: every request has its timeout, so the process keeps running.
ConvSpec == ConvInit /\ [][ConvNext]_convVars /\ WF_convVars(ConvRun)
-----------------------------------------------------------------------------
(* Properties.                                                             *)

\* With the adapter and the network in between, the loop is still an episode
\* as Episode describes it, and it still ends: retries and dropped options
\* are finite, whatever the provider answers.
IsAnEpisode == Spec

\* No request leaves with a tool call in its transcript that has no result,
\* which both APIs refuse: the calls a terminal call or the step budget cuts
\* off are never sent (anthropic_adapter.py:96).
CallsAnswered == net = "sent" => open = 0

\* What the model or its request is to blame for never passes as an
\* environment problem, which a sweep would retry; and with the Anthropic SDK
\* every outage does.
BlameIsFair ==
    /\ cause \in {"option", "request", "malformed"} => ~infra
    /\ cause \in {"outage", "credentials"} /\ provider = "anthropic" => infra
=============================================================================
