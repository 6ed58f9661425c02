----------------------------- MODULE WideEvents -----------------------------
(***************************************************************************)
(* What is reported of a request: the completion event of its flow         *)
(* (internal/wideevent/event.go and eventbridge.go, with trackTool of      *)
(* internal/server/tools.go and emitOperatorAction of ui_service.go) and   *)
(* the line of the access log (internal/middleware/access_log.go), while   *)
(* the handler writes several times, panics, or loses its client.          *)
(*                                                                         *)
(* Data abstraction.  An event keeps its outcome, its reason, whether it   *)
(* has a telemetry context and its result bucket; ids, times, names and    *)
(* versions are valid.  A telemetry context is what the two validations    *)
(* tell apart: acceptable, with a control character between its words, or  *)
(* unacceptable (too long, too few words, first person).  The responses of *)
(* the MCP and Connect libraries to a tool or operator call are external.  *)
(***************************************************************************)
EXTENDS Integers, Sequences

CONSTANTS
    Request,    \* requests
    Status,     \* HTTP statuses written
    Count,      \* result counts of tools
    Context,    \* telemetry contexts: "fine", "control", "unacceptable"
    MaxWrites   \* bound: writes of a handler

ASSUME EventsAssumption ==
    /\ Status \subseteq 200 .. 599
    /\ Count \subseteq 0 .. 200
    /\ "fine" \in Context /\ Context \subseteq {"fine", "control", "unacceptable"}
    /\ MaxWrites \in Nat

VARIABLES
    phase,    \* where a request is
    flow,     \* its flow, "unassigned" if it belongs to none
    call,     \* the tool call
    ending,   \* how its handler ended
    writes,   \* the statuses its handler wrote
    inner,    \* statusWriter.status, 0 if nothing was written
    outer,    \* responseWriter.status
    sent,     \* the status that was sent
    event,    \* the completion events handed to the publisher, in order
    logged    \* the statuses logged

eventVars == <<phase, flow, call, ending, writes, inner, outer, sent, event, logged>>

Flow == {"http", "tool", "operator", "unassigned"}

ToolCall == [counted : BOOLEAN, context : Context]

Code == {"unauthenticated", "permission_denied", "invalid_argument", "failed_precondition",
         "not_found", "resource_exhausted", "unavailable", "internal"}

\* How handlers end: an HTTP handler returns, a tool returns a count, if any, or an
\* error, an operator call returns nothing or an error code; or they panic.
Result ==
    {<<"pending">>, <<"returned">>, <<"panicked">>, <<"error">>}
    \cup {<<"counted", n>> : n \in Count} \cup {<<"code", c>> : c \in Code}

-----------------------------------------------------------------------------
(* Events *)

Reason == {"completed", "invalid_request", "unauthorized", "not_found", "method_not_allowed",
           "throttled", "upstream_error", "server_error", "failed"}

Bucket == {"0", "1-10", "11-50", "51-100", "101-200"}

\* An event as it is built: telemetry is the context it carries, "none" if it has none.
Event == [flow : {"http", "tool", "operator"}, outcome : {"success", "failure"}, reason : Reason,
          bucket : Bucket \cup {"none"}, telemetry : Context \cup {"none"}]

Plain(f, outcome, reason) ==
    [flow |-> f, outcome |-> outcome, reason |-> reason, bucket |-> "none", telemetry |-> "none"]

\* The event of a status.
ClassifyStatus(s) ==
    CASE s < 400 -> Plain("http", "success", "completed")
      [] s \in {401, 403} -> Plain("http", "failure", "unauthorized")
      [] s = 404 -> Plain("http", "failure", "not_found")
      [] s = 405 -> Plain("http", "failure", "method_not_allowed")
      [] s = 429 -> Plain("http", "failure", "throttled")
      [] s \in {502, 503, 504} -> Plain("http", "failure", "upstream_error")
      [] s >= 500 /\ s \notin {502, 503, 504} -> Plain("http", "failure", "server_error")
      [] OTHER -> Plain("http", "failure", "invalid_request")

\* Mutant: a panic is not recovered, and nothing is emitted.
HTTPEvent_NoRecover(r) ==
    IF ending[r] = <<"panicked">> THEN {}
    ELSE {ClassifyStatus(IF inner[r] = 0 THEN 200 ELSE inner[r])}

\* The deferred function of HTTPHandler.
HTTPEvent(r) ==
    IF ending[r] = <<"panicked">> THEN {Plain("http", "failure", "server_error")}
    ELSE {ClassifyStatus(IF inner[r] = 0 THEN 200 ELSE inner[r])}

\* The deferred emitOperatorAction: a call that panics has no error yet.
OperatorEvent(r) ==
    LET reason == CASE ending[r][2] \in {"unauthenticated", "permission_denied"} -> "unauthorized"
                    [] ending[r][2] \in {"invalid_argument", "failed_precondition"} -> "invalid_request"
                    [] ending[r][2] = "not_found" -> "not_found"
                    [] ending[r][2] = "resource_exhausted" -> "throttled"
                    [] ending[r][2] = "unavailable" -> "upstream_error"
                    [] OTHER -> "server_error"
    IN  IF ending[r][1] = "code" THEN {Plain("operator", "failure", reason)}
        ELSE {Plain("operator", "success", "completed")}

ResultCountBucket(n) ==
    CASE n = 0 -> "0"
      [] n \in 1 .. 10 -> "1-10"
      [] n \in 11 .. 50 -> "11-50"
      [] n \in 51 .. 100 -> "51-100"
      [] OTHER -> "101-200"

\* validateTelemetryContext: letters make words, whatever is between them.
AcceptsContext(c) == c \in {"fine", "control"}

\* The event of trackTool, which is not deferred: a panic of the tool goes past it.
ToolEvent(r) ==
    IF ~AcceptsContext(call[r].context) THEN {Plain("tool", "failure", "failed")}
    ELSE IF ending[r] = <<"panicked">> THEN {}
    ELSE {[flow |-> "tool", telemetry |-> call[r].context,
           outcome |-> IF ending[r] = <<"error">> THEN "failure" ELSE "success",
           reason |-> IF ending[r] = <<"error">> THEN "failed" ELSE "completed",
           bucket |-> IF ending[r][1] = "counted" THEN ResultCountBucket(ending[r][2]) ELSE "none"]}

\* validateTelemetry: an opaque value has no control characters.
ValidTelemetry(e) ==
    IF e.flow # "tool" THEN e.telemetry = "none"
    ELSE \/ e.telemetry = "none" /\ e.outcome = "failure"
         \/ e.telemetry = "fine"

\* validateAttributes: a bucket with the successes of the tools that count, and only
\* there.
ValidAttributes(e, counted) ==
    /\ e.bucket \in Bucket \cup {"none"}
    /\ (e.bucket # "none") <=> (e.flow = "tool" /\ e.outcome = "success" /\ counted)

\* Validate.
Valid(e, counted) ==
    /\ e.reason \in Reason
    /\ e.outcome = "success" <=> e.reason = "completed"
    /\ ValidTelemetry(e)
    /\ ValidAttributes(e, counted)

Completion(r) ==
    CASE flow[r] = "http" -> HTTPEvent(r)
      [] flow[r] = "operator" -> OperatorEvent(r)
      [] flow[r] = "tool" -> ToolEvent(r)
      [] OTHER -> {}

-----------------------------------------------------------------------------
(* A request *)

\* AccessLog wraps the writer and hands the request on to a flow.  Token requests
\* that are no supported grant, and requests that reach no registered tool, are
\* unassigned.
Arrive(r, f, c) ==
    /\ phase[r] = "idle"
    /\ phase' = [phase EXCEPT ![r] = "running"]
    /\ flow' = [flow EXCEPT ![r] = f]
    /\ call' = [call EXCEPT ![r] = c]
    /\ UNCHANGED <<ending, writes, inner, outer, sent, event, logged>>

\* Mutant: the last status is kept.
Keep_Last(old, s) == s

\* WriteHeader of both writers, and of net/http: the first status is kept.
Keep(old, s) == IF old = 0 THEN s ELSE old

\* A status is written through the writers.  HTTP handlers write while they run; the
\* libraries write when a tool or an operator call has ended.  What the MCP library does
\* with the panic of a tool is external: it answers, or the request goes down with it.
WriteHeader(r, s) ==
    /\ phase[r] = IF flow[r] \in {"http", "unassigned"} THEN "running" ELSE "reported"
    /\ ending[r] = <<"panicked">> => flow[r] = "tool"
    /\ Len(writes[r]) < MaxWrites
    /\ writes' = [writes EXCEPT ![r] = Append(@, s)]
    /\ inner' = [inner EXCEPT ![r] = IF flow[r] = "http" THEN Keep(@, s) ELSE @]
    /\ outer' = [outer EXCEPT ![r] = IF flow[r] = "http" /\ inner[r] # 0 THEN @ ELSE IF @ = 0 THEN s ELSE @]
    /\ sent' = [sent EXCEPT ![r] = IF @ = 0 THEN s ELSE @]
    /\ UNCHANGED <<phase, flow, call, ending, event, logged>>

\* The ways a handler may end.  A tool call with an unacceptable context has no handler
\* to run.
Results(r) ==
    CASE flow[r] \in {"http", "unassigned"} -> {<<"returned">>, <<"panicked">>}
      [] flow[r] = "operator" -> {<<"returned">>, <<"panicked">>} \cup {<<"code", c>> : c \in Code}
      [] flow[r] = "tool" ->
            IF ~AcceptsContext(call[r].context) THEN {<<"error">>}
            ELSE {<<"error">>, <<"panicked">>}
                    \cup (IF call[r].counted THEN {<<"counted", n>> : n \in Count}
                          ELSE {<<"returned">>})

HandlerEnds(r, x) ==
    /\ phase[r] = "running"
    /\ x \in Results(r)
    /\ ending' = [ending EXCEPT ![r] = x]
    /\ phase' = [phase EXCEPT ![r] = "complete"]
    /\ UNCHANGED <<flow, call, writes, inner, outer, sent, event, logged>>

\* The completion event is validated and handed to the publisher, or rejected with a
\* warning; or there is none.
Emit(r) ==
    LET accepted == {e \in Completion(r) : Valid(e, call[r].counted)}
    IN  /\ phase[r] = "complete"
        /\ \/ \E e \in accepted :
                /\ event' = [event EXCEPT ![r] = Append(@, e)]
                /\ phase' = [phase EXCEPT ![r] = "publishing"]
           \/ /\ accepted = {}
              /\ phase' = [phase EXCEPT ![r] = "reported"]
              /\ UNCHANGED event
        /\ UNCHANGED <<flow, call, ending, writes, inner, outer, sent, logged>>

\* EventBridge takes the event or refuses it, or the client goes away, which cancels
\* the context: a failure is a warning.
Published(r) ==
    /\ phase[r] = "publishing"
    /\ phase' = [phase EXCEPT ![r] = "reported"]
    /\ UNCHANGED <<flow, call, ending, writes, inner, outer, sent, event, logged>>

\* Mutant: the context has no deadline.
PublishTimeout_None(r) == FALSE

\* Mutant: an event that was not taken in time is sent again.
PublishTimeout_Retries(r) ==
    /\ phase[r] = "publishing"
    /\ phase' = [phase EXCEPT ![r] = "complete"]
    /\ UNCHANGED <<flow, call, ending, writes, inner, outer, sent, event, logged>>

\* publishTimeout has passed.
PublishTimeout(r) ==
    /\ phase[r] = "publishing"
    /\ phase' = [phase EXCEPT ![r] = "reported"]
    /\ UNCHANGED <<flow, call, ending, writes, inner, outer, sent, event, logged>>

\* Mutant: a handler that wrote nothing is logged as it is.
Logged_Raw(s) == s

Logged(s) == IF s = 0 THEN 200 ELSE s

\* The request is back in AccessLog, which logs it; net/http sends 200 if nothing was
\* written.  Libraries have written by then.
LogRequest(r) ==
    /\ phase[r] = "reported"
    /\ ending[r] = <<"panicked">> => flow[r] = "tool"
    /\ flow[r] \in {"tool", "operator"} => writes[r] # <<>>
    /\ phase' = [phase EXCEPT ![r] = "ended"]
    /\ logged' = [logged EXCEPT ![r] = Append(@, Logged(outer[r]))]
    /\ sent' = [sent EXCEPT ![r] = IF @ = 0 THEN 200 ELSE @]
    /\ UNCHANGED <<flow, call, ending, writes, inner, outer, event>>

\* A panic goes on through AccessLog to net/http, which drops the connection.
Abort(r) ==
    /\ phase[r] = "reported"
    /\ ending[r] = <<"panicked">>
    /\ phase' = [phase EXCEPT ![r] = "ended"]
    /\ UNCHANGED <<flow, call, ending, writes, inner, outer, sent, event, logged>>

-----------------------------------------------------------------------------
(* Specification *)

EventsInit ==
    /\ phase = [r \in Request |-> "idle"]
    /\ flow = [r \in Request |-> "unassigned"]
    /\ call = [r \in Request |-> [counted |-> FALSE, context |-> "fine"]]
    /\ ending = [r \in Request |-> <<"pending">>]
    /\ writes = [r \in Request |-> <<>>]
    /\ inner = [r \in Request |-> 0]
    /\ outer = [r \in Request |-> 0]
    /\ sent = [r \in Request |-> 0]
    /\ event = [r \in Request |-> <<>>]
    /\ logged = [r \in Request |-> <<>>]

EventsNext ==
    \E r \in Request :
        \/ \E f \in Flow, c \in ToolCall : Arrive(r, f, c)
        \/ \E s \in Status : WriteHeader(r, s)
        \/ \E x \in Result : HandlerEnds(r, x)
        \/ Emit(r)
        \/ Published(r)
        \/ PublishTimeout(r)
        \/ LogRequest(r)
        \/ Abort(r)

EventsSpec == EventsInit /\ [][EventsNext]_eventVars

\* Code that is running goes on, and time passes; EventBridge may never answer.
Proceed(r) ==
    \/ \E x \in Result : HandlerEnds(r, x)
    \/ Emit(r)
    \/ PublishTimeout(r)
    \/ \E s \in Status : phase[r] = "reported" /\ writes[r] = <<>> /\ WriteHeader(r, s)
    \/ LogRequest(r)
    \/ Abort(r)

EventsFairSpec == EventsSpec /\ \A r \in Request : WF_eventVars(Proceed(r))

-----------------------------------------------------------------------------
(* Properties *)

\* Every accepted event is a member of the bounded vocabulary of the contract.
EventsTypeOK ==
    /\ phase \in [Request -> {"idle", "running", "complete", "publishing", "reported", "ended"}]
    /\ flow \in [Request -> Flow] /\ call \in [Request -> ToolCall] /\ ending \in [Request -> Result]
    /\ \A r \in Request : /\ event[r] \in Seq(Event)
                          /\ {inner[r], outer[r], sent[r]} \subseteq Status \cup {0, 200}
                          /\ logged[r] \in Seq(Status \cup {200})

\* The counts a bucket stands for.
Covers(b) == CASE b = "0" -> {0} [] b = "1-10" -> 1 .. 10 [] b = "11-50" -> 11 .. 50
               [] b = "51-100" -> 51 .. 100 [] b = "101-200" -> 101 .. 200 [] OTHER -> {}

Panicked(r) == ending[r] = <<"panicked">>

\* An event tells what happened: an HTTP flow succeeded exactly if the client was sent
\* a status below 400 by a handler that returned, however often the handler wrote; a
\* tool exactly if it returned no error, with a bucket that covers its count and the
\* context it was given; an operator call failed exactly if it returned an error code,
\* so that one that panics counts as a success.
EventTruthful ==
    \A r \in Request : phase[r] = "ended" => \A i \in DOMAIN event[r] :
        LET e == event[r][i]
            succeeded == e.outcome = "success"
        IN  CASE e.flow = "http" -> succeeded <=> (~Panicked(r) /\ sent[r] < 400)
              [] e.flow = "tool" ->
                    /\ succeeded <=> (ending[r] # <<"error">>)
                    /\ e.telemetry \in {"none", call[r].context}
                    /\ \A n \in Count : ending[r] = <<"counted", n>> => n \in Covers(e.bucket)
              [] e.flow = "operator" -> ~succeeded <=> (\E c \in Code : ending[r] = <<"code", c>>)

\* The requests without an event: those of no flow, tool calls that panicked, and those
\* whose context one validation accepts and the other rejects.
Unreported(r) ==
    \/ flow[r] = "unassigned"
    \/ flow[r] = "tool" /\ (Panicked(r) \/ call[r].context = "control")

\* No request has two events, although a publication may time out, and once reported it
\* has one unless it is one of the above: in particular if its handler panicked, wrote
\* nothing, or was refused for its telemetry.
FlowReported ==
    \A r \in Request :
        /\ Len(event[r]) <= 1
        /\ phase[r] \in {"reported", "ended"} => (event[r] = <<>> <=> Unreported(r))

\* The access log has the status that was sent, once, unless a panic went through it.
LogTruthful ==
    \A r \in Request : phase[r] = "ended" =>
        logged[r] = <<sent[r]>> \/ (Panicked(r) /\ logged[r] = <<>>)

\* The contract: each flow that is recognized has one event, and a panic is a failure.
FlowsCounted ==
    \A r \in Request : phase[r] = "ended" /\ flow[r] # "unassigned" =>
        /\ Len(event[r]) = 1
        /\ Panicked(r) => event[r][1].outcome = "failure"

\* A request ends although EventBridge may not answer.
RequestsEnd == \A r \in Request : phase[r] = "running" ~> phase[r] = "ended"

\* Each request is reported as it happened, by its event and in the log.
ReportsTruthful ==
    /\ EventsTypeOK
    /\ EventTruthful
    /\ FlowReported
    /\ LogTruthful
=============================================================================
