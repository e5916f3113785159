------------------------------- MODULE HostCalls -------------------------------
(***************************************************************************)
(* The calls an app makes to Core as its sidecar                           *)
(* (crates/core/app-events/src/lib.rs): ApplicationRoomPublisher,          *)
(* EventEmitter, UsageReporter and ProviderRouter. Each checks what it is  *)
(* given, finds Core from its environment, sends one request and reads the *)
(* answer; nothing is sent twice. Core, and Gateway behind it, are         *)
(* external: they refuse, or act and answer, and the answer may be lost,   *)
(* late or unreadable.                                                     *)
(***************************************************************************)
EXTENDS Naturals

CONSTANTS
  Timeouts,     \* the timeout_ms a call may have
  MaxTimeout,   \* ManagedProviderCall::MAX_TIMEOUT_MS
  Margin,       \* ManagedProviderCall::TIMEOUT_MARGIN_MS
  MaxWait       \* bound: the clock of a call

ASSUME HostCallsAssumption ==
  /\ Timeouts \subseteq Nat /\ MaxTimeout \in Nat
  /\ Margin \in Nat \ {0} /\ MaxWait \in Nat

VARIABLES
  env,        \* what Core injected at spawn: RYU_CORE_PORT, RYU_BIND, RYU_EXT_TOKEN
  request,    \* the call
  stage,      \* where the call is
  core,       \* what Core did of it
  elapsed,    \* since the request was sent
  hops,       \* of that, on the way to Gateway and back
  outcome,    \* what the client's method returned
  warned      \* a best-effort wrapper has logged a failure

hostVars == <<env, request, stage, core, elapsed, hops, outcome, warned>>

Kinds == {"publish", "emit", "report", "authorize", "status", "call"}

\* publish_best_effort, emit and report return nothing; the others return the result.
BestEffort == {"publish", "emit", "report"}

\* An environment variable holds a port, holds something else, or is not set.
Settings == {"set", "blank", "absent"}

\* core_endpoint_for: the injected port, or else the port of the bind address.
Endpoint == env.port = "set" \/ env.bind = "set"

\* A token of blanks only is no token.
Token == env.token = "set"

\* is_hosted, and the destructuring that every method starts its request with.
Hosted == Endpoint /\ Token

\* validate of the event that is published: room, name and size.
ValidEvent == request.fields

\* validate of the usage report: its names, and at least one tool call.
ValidReport == request.fields

\* authorize_agent: a grant that is not blank.
ValidGrant == request.fields

\* validate of the provider call: its names and its timeout.
ValidCall == request.fields /\ (request.timed => request.timeout \in 1..MaxTimeout)

\* emit and status send what they are given.
Valid ==
  CASE request.kind = "publish" -> ValidEvent
    [] request.kind = "report" -> ValidReport
    [] request.kind = "authorize" -> ValidGrant
    [] request.kind = "call" -> ValidCall
    [] OTHER -> TRUE

\* What a method is given: fields that pass its checks or not, and for a provider call
\* an optional timeout_ms; quiet when it is called through its best-effort wrapper.
Requests ==
  {r \in [kind : Kinds, fields : BOOLEAN, timed : BOOLEAN, timeout : Timeouts, quiet : BOOLEAN] :
     /\ r.quiet => r.kind \in BestEffort
     /\ r.timed => r.kind = "call"
     /\ ~r.timed => r.timeout = 0}

HostInit ==
  /\ env \in [port : Settings, bind : Settings, token : Settings]
  /\ request \in Requests
  /\ stage = "called" /\ core = "none" /\ outcome = "none"
  /\ elapsed = 0 /\ hops = 0 /\ warned = FALSE

\* The errors of the four clients, and ok.
Results == {"invalid", "notHosted", "timeout", "transport", "rejected", "ok"}

Returns(result) ==
  /\ outcome' = result
  /\ stage' = "returned"

\* A method refuses what is not valid, then a process without Core, and sends the rest.
Sends(kind) ==
  /\ stage = "called" /\ request.kind = kind
  /\ \/ ~Valid /\ Returns("invalid")
     \/ Valid /\ ~Hosted /\ Returns("notHosted")
     \/ Valid /\ Hosted /\ stage' = "sent" /\ UNCHANGED outcome
  /\ UNCHANGED <<env, request, core, elapsed, hops, warned>>

PublishEvent == Sends("publish")

TryEmit == Sends("emit")

TryReport == Sends("report")

AuthorizeAgent == Sends("authorize")

StatusBody == Sends("status")

CallWithAgentGrant == Sends("call")

\* An answer whose body may decline: an agent that is not allowed, ToolUsageAccepted.
Declines == {"authorize", "report"}

\* Core refuses (a status that is not 2xx), acts, or says in its answer's body that it
\* declines.
CoreActs ==
  /\ stage = "sent"
  /\ core' \in IF request.kind \in Declines THEN {"refused", "done", "declined"}
               ELSE {"refused", "done"}
  /\ stage' = IF request.timed /\ core' = "done" THEN "upstream" ELSE "answering"
  /\ UNCHANGED <<env, request, elapsed, hops, outcome, warned>>

\* Gateway answers for the provider when it is done, or when timeout_ms is over.
GatewayAnswers ==
  /\ stage = "upstream"
  /\ stage' = "answering"
  /\ UNCHANGED <<env, request, core, elapsed, hops, outcome, warned>>

\* Time on the way is less than the margin, and time upstream at most timeout_ms:
\* Gateway keeps the latter.
HopTime ==
  /\ request.timed /\ stage \in {"sent", "answering"} /\ elapsed < MaxWait
  /\ hops + 1 < Margin
  /\ hops' = hops + 1 /\ elapsed' = elapsed + 1
  /\ UNCHANGED <<env, request, stage, core, outcome, warned>>

UpstreamTime ==
  /\ stage = "upstream" /\ elapsed < MaxWait
  /\ elapsed - hops < request.timeout
  /\ elapsed' = elapsed + 1
  /\ UNCHANGED <<env, request, stage, core, hops, outcome, warned>>

\* Mutant: the client gives the whole exchange what the provider was given.
Wait_NoMargin == request.timeout

\* call_with_agent_grant: how long the client of a call with a timeout waits.
Wait == request.timeout + Margin

\* The client's own limit. Without timeout_ms it is the client's, and unknown here.
CallTimesOut ==
  /\ stage \in {"sent", "upstream", "answering"}
  /\ request.timed => elapsed >= Wait
  /\ Returns("timeout")
  /\ UNCHANGED <<env, request, core, elapsed, hops, warned>>

\* The connection fails, before or after Core acted.
CallLost ==
  /\ stage \in {"sent", "upstream", "answering"}
  /\ Returns("transport")
  /\ UNCHANGED <<env, request, core, elapsed, hops, warned>>

\* Mutant: a 2xx answer to authorize_agent is a permission.
Allows_AnyAnswer == TRUE

\* authorize_agent: only an answer that says allowed = true.
Allows == core = "done"

\* The answer is an error status, a body that cannot be read, or the result.
Answers(kind, readsBody, result) ==
  /\ stage = "answering" /\ request.kind = kind
  /\ \/ core = "refused" /\ Returns("rejected")
     \/ core # "refused" /\ readsBody /\ Returns("transport")
     \/ core # "refused" /\ Returns(result)
  /\ UNCHANGED <<env, request, core, elapsed, hops, warned>>

PublishAnswered == Answers("publish", FALSE, "ok")

EmitAnswered == Answers("emit", TRUE, "ok")

\* ToolUsageAccepted is returned as it came, accepted or not.
ReportAnswered == Answers("report", TRUE, "ok")

AuthorizeAnswered == Answers("authorize", TRUE, IF Allows THEN "ok" ELSE "rejected")

StatusAnswered == Answers("status", TRUE, "ok")

CallAnswered == Answers("call", TRUE, "ok")

\* A best-effort wrapper logs a failure unless the app runs by itself.
Swallows(kind) ==
  /\ stage = "returned" /\ request.quiet /\ request.kind = kind
  /\ warned' = (outcome \notin {"ok", "notHosted"})
  /\ stage' = "over"
  /\ UNCHANGED <<env, request, core, elapsed, hops, outcome>>

PublishBestEffort == Swallows("publish")

EmitWithHints == Swallows("emit")

Report == Swallows("report")

HostNext ==
  \/ PublishEvent \/ TryEmit \/ TryReport \/ AuthorizeAgent \/ StatusBody \/ CallWithAgentGrant
  \/ CoreActs \/ GatewayAnswers \/ HopTime \/ UpstreamTime \/ CallTimesOut \/ CallLost
  \/ PublishAnswered \/ EmitAnswered \/ ReportAnswered \/ AuthorizeAnswered
  \/ StatusAnswered \/ CallAnswered
  \/ PublishBestEffort \/ EmitWithHints \/ Report
-----------------------------------------------------------------------------
(* Properties *)

\* The call has its types.
HostTypeOK ==
  /\ stage \in {"called", "sent", "upstream", "answering", "returned", "over"}
  /\ core \in {"none", "refused", "declined", "done"}
  /\ outcome \in Results \cup {"none"}
  /\ elapsed \in 0..MaxWait /\ hops \in 0..elapsed /\ warned \in BOOLEAN
  /\ stage \in {"called", "sent", "upstream", "answering"} <=> outcome = "none"

\* What a result tells the app: success means that Core did it (for authorize_agent,
\* "Ok only when Core allows it"), a local refusal that Core never heard of it, and the
\* silence of a best-effort wrapper that it is done or that there is no Core; only a
\* usage report that Core declines passes for a success, its flag is for the caller to
\* read. A lost or late answer tells nothing: Core may have done it.
ResultsAreTrue ==
  /\ outcome = "ok" => core = "done" \/ (request.kind = "report" /\ core = "declined")
  /\ outcome \in {"invalid", "notHosted"} => core = "none"
  /\ stage = "over" /\ ~warned => outcome = "ok" \/ ~Hosted

\* timeout_ms: the client "waits a little longer than this so Gateway's answer, not the
\* app's own client, decides the outcome" of an operation that may cost money.
GatewayDecides ==
  request.timed => outcome # "timeout"
===============================================================================
